---------------------------- MODULE KeyRingLemmas ----------------------------
(* Index arithmetic of the key buffer, for every buffer length. *)
EXTENDS KeyRing, TLAPS

(* The index arithmetic of lines 60 and 68 without the remainder: one step *)
(* forward, and from the last slot to the first.                           *)
LEMMA AdvanceWraps ==
  ASSUME NEW i \in Slots
  PROVE  Advance(i) = IF i = BUF_LEN - 1 THEN 0 ELSE i + 1
<1>1. CASE i = BUF_LEN - 1
  BY <1>1, BufLenAssumption DEF Advance, Slots
<1>2. CASE i # BUF_LEN - 1
  BY <1>2, BufLenAssumption DEF Advance, Slots
<1>3. QED
  BY <1>1, <1>2

(* An index stays inside the array.                                        *)
LEMMA AdvanceInRange ==
  ASSUME NEW i \in Slots
  PROVE  Advance(i) \in Slots
BY AdvanceWraps, BufLenAssumption DEF Slots

(* The number of waiting keys, and the slots they are in, stay in range.   *)
LEMMA CountInRange ==
  ASSUME g_key_r \in Slots, g_key_w \in Slots
  PROVE  /\ Count \in 0 .. BUF_LEN - 1
         /\ Count = 0 <=> is_key_buf_empty
         /\ \A n \in 1 .. Count : SlotOf(n) \in Slots /\ SlotOf(n) # g_key_w
BY BufLenAssumption DEF Slots, Count, SlotOf, is_key_buf_empty

(* Moving the write index on counts one key more, or, when it catches up   *)
(* with the read index, none.                                              *)
LEMMA CountAfterPut ==
  ASSUME g_key_r \in Slots, g_key_w \in Slots,
         g_key_r' = g_key_r, g_key_w' = Advance(g_key_w)
  PROVE  \/ Count = BUF_LEN - 1 /\ Count' = 0 /\ g_key_w' = g_key_r
         \/ /\ Count < BUF_LEN - 1 /\ Count' = Count + 1
            /\ g_key_w' # g_key_r /\ SlotOf(Count + 1) = g_key_w
<1>1. g_key_w' = IF g_key_w = BUF_LEN - 1 THEN 0 ELSE g_key_w + 1
  BY AdvanceWraps
<1>2. QED
  BY <1>1, BufLenAssumption DEF Slots, Count, SlotOf
=============================================================================
