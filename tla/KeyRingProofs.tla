---------------------------- MODULE KeyRingProofs ----------------------------
(***************************************************************************)
(* What KeyRingSpec promises, proved for every buffer length and every set *)
(* of keys.                                                                *)
(***************************************************************************)
EXTENDS KeyRingSpec, KeyRingLemmas, SequenceTheorems

(* What an accepted key does to the keys waiting: it is counted as the     *)
(* last of them, or the write index reaches the read index and none is     *)
(* left.                                                                   *)
LEMMA PutMovesEnd ==
  ASSUME TypeOK, NEW k, put_key(k), ~is_key_buf_full
  PROVE  /\ g_key' = [g_key EXCEPT ![g_key_w] = k]
         /\ g_key_r' = g_key_r
         /\ \/ Count = BUF_LEN - 1 /\ Count' = 0
            \/ /\ Count < BUF_LEN - 1 /\ Count' = Count + 1
               /\ SlotOf(Count + 1) = g_key_w
<1>1. /\ g_key' = [g_key EXCEPT ![g_key_w] = k]
      /\ g_key_r' = g_key_r
      /\ g_key_w' = Advance(g_key_w)
  BY DEF put_key
<1>2. QED
  BY <1>1, CountAfterPut DEF TypeOK

(* What a successful get_key does to the keys waiting: the first leaves.   *)
LEMMA GetMovesFront ==
  ASSUME TypeOK, get_key, ~is_key_buf_empty
  PROVE  /\ g_key' = g_key
         /\ Count >= 1 /\ Count' = Count - 1
         /\ SlotOf(1) = g_key_r
         /\ \A n \in 1 .. Count - 1 : SlotOf(n)' = SlotOf(n + 1)
<1>1. /\ g_key' = g_key /\ g_key_w' = g_key_w
      /\ g_key_r' = IF g_key_r = BUF_LEN - 1 THEN 0 ELSE g_key_r + 1
  BY AdvanceWraps DEF get_key, TypeOK
<1>2. QED
  BY <1>1, BufLenAssumption DEF Slots, Count, SlotOf, TypeOK, is_key_buf_empty

-----------------------------------------------------------------------------
(* The invariant (types, and a key in every slot between the indices)      *)
(* holds at the start.                                                     *)
LEMMA InitRingInv == Init => RingInv
BY BufLenAssumption
   DEF Init, RingInit, RingInv, TypeOK, WaitingAreKeys, Slots, Count

(* put_key keeps the invariant, refused or not.                            *)
LEMMA PutKeepsRingInv ==
  ASSUME RingInv, NEW k \in Key, put_key(k)
  PROVE  RingInv'
<1>1. TypeOK'
  BY AdvanceInRange DEF RingInv, TypeOK, put_key
<1>2. CASE is_key_buf_full
  <2>1. UNCHANGED <<g_key, g_key_r, g_key_w>>
    BY <1>2 DEF put_key
  <2>2. WaitingAreKeys'
    BY <2>1 DEF RingInv, WaitingAreKeys, Count, SlotOf
  <2>3. QED
    BY <1>1, <2>2 DEF RingInv
<1>3. CASE ~is_key_buf_full
  <2>1. /\ g_key' = [g_key EXCEPT ![g_key_w] = k] /\ g_key_r' = g_key_r
        /\ \/ Count' = 0
           \/ Count' = Count + 1 /\ SlotOf(Count + 1) = g_key_w
    BY <1>3, PutMovesEnd DEF RingInv
  <2>2. \A n : SlotOf(n)' = SlotOf(n)
    BY <2>1 DEF SlotOf
  <2>3. Count \in Nat /\ \A n \in 1 .. Count : SlotOf(n) \in Slots
    BY CountInRange, BufLenAssumption DEF RingInv, TypeOK
  <2>4. ASSUME NEW n \in 1 .. Count' PROVE g_key'[SlotOf(n)'] \in Key
    <3>1. CASE n = Count + 1
      BY <2>1, <2>2, <2>3, <3>1 DEF RingInv, TypeOK
    <3>2. CASE n \in 1 .. Count
      BY <2>1, <2>2, <2>3, <3>2 DEF RingInv, TypeOK, WaitingAreKeys
    <3>3. QED
      BY <2>1, <2>3, <3>1, <3>2
  <2>5. QED
    BY <1>1, <2>4 DEF RingInv, WaitingAreKeys
<1>4. QED
  BY <1>2, <1>3

(* get_key keeps the invariant, with or without a key.                     *)
LEMMA GetKeepsRingInv ==
  ASSUME RingInv, get_key
  PROVE  RingInv'
<1>1. CASE is_key_buf_empty
  <2>1. UNCHANGED <<g_key, g_key_r, g_key_w>> /\ out' = NoKey
    BY <1>1 DEF get_key
  <2>2. QED
    BY <2>1 DEF RingInv, TypeOK, WaitingAreKeys, Count, SlotOf
<1>2. CASE ~is_key_buf_empty
  <2>1. /\ g_key' = g_key /\ Count >= 1 /\ Count' = Count - 1
        /\ SlotOf(1) = g_key_r
        /\ \A n \in 1 .. Count - 1 : SlotOf(n)' = SlotOf(n + 1)
    BY <1>2, GetMovesFront DEF RingInv
  <2>2. Count \in Nat
    BY CountInRange, BufLenAssumption DEF RingInv, TypeOK
  <2>3. out' \in Key
    <3>1. out' = g_key[SlotOf(1)]
      BY <1>2, <2>1 DEF get_key
    <3>2. QED
      BY <2>1, <2>2, <3>1 DEF RingInv, WaitingAreKeys
  <2>4. TypeOK'
    BY <2>3, AdvanceInRange DEF RingInv, TypeOK, get_key
  <2>5. WaitingAreKeys'
    BY <2>1, <2>2 DEF RingInv, WaitingAreKeys
  <2>6. QED
    BY <2>4, <2>5 DEF RingInv
<1>3. QED
  BY <1>1, <1>2

(* The buffer's state keeps its types, and whatever get_key finds between  *)
(* the indices was put there by put_key.                                   *)
THEOREM RingSafe == Spec => []RingInv
<1>1. Init => RingInv
  BY InitRingInv
<1>2. RingInv /\ [Next]_ringVars => RingInv'
  <2>1. ASSUME RingInv, UNCHANGED ringVars PROVE RingInv'
    BY <2>1 DEF RingInv, TypeOK, WaitingAreKeys, Count, SlotOf, ringVars
  <2>2. QED
    BY <2>1, PutKeepsRingInv, GetKeepsRingInv DEF Next, Put, Get
<1>3. QED
  BY <1>1, <1>2, PTL DEF Spec

(* Both indices stay in the array and every word keeps its type.           *)
THEOREM RingTypeCorrect == Spec => []TypeOK
<1>1. RingInv => TypeOK
  BY DEF RingInv
<1>2. QED
  BY <1>1, RingSafe, PTL

(* The slots between the indices hold keys that put_key wrote, so get_key  *)
(* never hands out a slot that was not filled.                             *)
THEOREM WaitingKeysAreReal == Spec => []WaitingAreKeys
<1>1. RingInv => WaitingAreKeys
  BY DEF RingInv
<1>2. QED
  BY <1>1, RingSafe, PTL

(* The absorbing state of the fullness test of line 55: once both indices  *)
(* are on the last slot neither call moves them again, for any length.     *)
THEOREM DeafIsForever == Spec => DeafForever
<1>1. [Next]_ringVars => (Deaf => Deaf')
  <2> SUFFICES ASSUME [Next]_ringVars, Deaf
               PROVE  Deaf'
    OBVIOUS
  <2>1. is_key_buf_empty /\ is_key_buf_full
    BY BufLenAssumption DEF Deaf, is_key_buf_empty, is_key_buf_full
  <2>2. ASSUME NEW k \in Key, put_key(k) PROVE Deaf'
    BY <2>1, <2>2 DEF put_key, Deaf
  <2>3. CASE get_key
    BY <2>1, <2>3 DEF get_key, Deaf
  <2>4. CASE UNCHANGED ringVars
    BY <2>4 DEF ringVars, Deaf
  <2>5. QED
    BY <2>2, <2>3, <2>4 DEF Next, Put, Get
<1>2. QED
  BY <1>1, PTL DEF Spec, DeafForever

-----------------------------------------------------------------------------
(* The refinement: the keys between the indices, oldest first, are the     *)
(* queue of LossyFifo.                                                     *)
WaitingShape ==
  /\ Waiting \in Seq(Key)
  /\ Len(Waiting) = Count
  /\ Count \in 0 .. BUF_LEN - 1
  /\ \A n \in 1 .. Count : Waiting[n] = g_key[SlotOf(n)]

(* The keys waiting are a sequence of Count keys.                          *)
LEMMA WaitingIsSequence == RingInv => WaitingShape
<1> SUFFICES ASSUME RingInv PROVE WaitingShape
  OBVIOUS
<1>1. Count \in 0 .. BUF_LEN - 1
  BY CountInRange DEF RingInv, TypeOK
<1>2. Waiting \in [1 .. Count -> Key]
  BY DEF Waiting, RingInv, WaitingAreKeys
<1>3. QED
  BY <1>1, <1>2, BufLenAssumption DEF WaitingShape, Waiting

(* The same of the next state.                                             *)
LEMMA WaitingIsSequenceNext == RingInv' => WaitingShape'
BY WaitingIsSequence, PTL

(* With the indices equal, the queue is empty.                             *)
LEMMA EmptyWaiting ==
  ASSUME RingInv, Count = 0
  PROVE  Waiting = <<>>
BY WaitingIsSequence, EmptySeq DEF WaitingShape

(* put_key is a press: the key is appended, refused, or costs all keys.    *)
LEMMA PutRefines ==
  ASSUME RingInv, RingInv', NEW k \in Key, put_key(k)
  PROVE  Fifo!Press(k)
<1>1. UNCHANGED out
  BY DEF put_key
<1>2. CASE is_key_buf_full
  <2>1. Waiting' = Waiting
    BY <1>2 DEF put_key, Waiting, Count, SlotOf
  <2>2. QED
    BY <1>1, <2>1 DEF Fifo!Press
<1>3. CASE ~is_key_buf_full
  <2>1. /\ g_key' = [g_key EXCEPT ![g_key_w] = k] /\ g_key_r' = g_key_r
        /\ \/ Count = BUF_LEN - 1 /\ Count' = 0
           \/ /\ Count < BUF_LEN - 1 /\ Count' = Count + 1
              /\ SlotOf(Count + 1) = g_key_w
    BY <1>3, PutMovesEnd DEF RingInv
  <2>2. CASE Count' = 0 /\ Count = BUF_LEN - 1
    <3>1. Waiting' = <<>>
      BY <2>2, WaitingIsSequenceNext, EmptySeq DEF WaitingShape
    <3>2. QED
      BY <1>1, <2>2, <3>1, WaitingIsSequence DEF Fifo!Press, WaitingShape
  <2>3. CASE Count' = Count + 1 /\ Count < BUF_LEN - 1
    <3>1. \A n : SlotOf(n)' = SlotOf(n)
      BY <2>1 DEF SlotOf
    <3>2. \A n \in 1 .. Count : g_key'[SlotOf(n)] = g_key[SlotOf(n)]
      BY <2>1, CountInRange DEF RingInv, TypeOK
    <3>3. g_key'[SlotOf(Count + 1)] = k
      BY <2>1, <2>3, BufLenAssumption DEF RingInv, TypeOK
    <3>4. /\ Append(Waiting, k) \in Seq(Key)
          /\ Len(Append(Waiting, k)) = Count + 1
          /\ \A n \in 1 .. Count : Append(Waiting, k)[n] = Waiting[n]
          /\ Append(Waiting, k)[Count + 1] = k
      BY WaitingIsSequence, AppendProperties DEF WaitingShape
    <3>5. \A n \in 1 .. Count + 1 : Waiting'[n] = Append(Waiting, k)[n]
      BY <2>3, <3>1, <3>2, <3>3, <3>4, WaitingIsSequence,
         WaitingIsSequenceNext DEF WaitingShape
    <3>6. Waiting' = Append(Waiting, k)
      BY <2>3, <3>4, <3>5, WaitingIsSequenceNext, SeqEqual DEF WaitingShape
    <3>7. QED
      BY <1>1, <2>3, <3>6, WaitingIsSequence DEF Fifo!Press, WaitingShape
  <2>4. QED
    BY <2>1, <2>2, <2>3
<1>4. QED
  BY <1>2, <1>3

(* get_key is a take: the head leaves, or there was none.                  *)
LEMMA GetRefines ==
  ASSUME RingInv, RingInv', get_key
  PROVE  Fifo!Take
<1>1. CASE is_key_buf_empty
  <2>1. Waiting' = Waiting /\ out' = NoKey
    BY <1>1 DEF get_key, Waiting, Count, SlotOf
  <2>2. Waiting = <<>>
    BY <1>1, CountInRange, EmptyWaiting DEF RingInv, TypeOK
  <2>3. QED
    BY <2>1, <2>2 DEF Fifo!Take
<1>2. CASE ~is_key_buf_empty
  <2>1. /\ g_key' = g_key /\ Count >= 1 /\ Count' = Count - 1
        /\ SlotOf(1) = g_key_r
        /\ \A n \in 1 .. Count - 1 : SlotOf(n)' = SlotOf(n + 1)
    BY <1>2, GetMovesFront DEF RingInv
  <2>2. Waiting # <<>> /\ Head(Waiting) = g_key[g_key_r]
    BY <2>1, WaitingIsSequence, EmptySeq DEF WaitingShape
  <2>3. /\ Tail(Waiting) \in Seq(Key)
        /\ Len(Tail(Waiting)) = Count - 1
        /\ \A n \in 1 .. Count - 1 : Tail(Waiting)[n] = Waiting[n + 1]
    BY <2>2, WaitingIsSequence, HeadTailProperties DEF WaitingShape
  <2>4. \A n \in 1 .. Count - 1 : Waiting'[n] = Tail(Waiting)[n]
    BY <2>1, <2>3, WaitingIsSequence, WaitingIsSequenceNext DEF WaitingShape
  <2>5. Waiting' = Tail(Waiting)
    BY <2>1, <2>3, <2>4, WaitingIsSequenceNext, SeqEqual DEF WaitingShape
  <2>6. QED
    BY <1>2, <2>2, <2>5 DEF Fifo!Take, get_key
<1>3. QED
  BY <1>1, <1>2

(* The buffer of key_drv.c implements the lossy queue for every length and *)
(* every set of keys: keys leave in the order they came, none twice.       *)
THEOREM RingImplementsFifo == Spec => ImplementsFifo
<1>1. Init => Fifo!Init
  <2>1. ASSUME Init PROVE RingInv /\ Count = 0 /\ out = NoKey
    BY <2>1, InitRingInv DEF Init, RingInit, Count
  <2>2. QED
    BY <2>1, EmptyWaiting DEF Fifo!Init
<1>2. RingInv /\ RingInv' /\ [Next]_ringVars => [Fifo!Next]_(Fifo!vars)
  <2>1. ASSUME UNCHANGED ringVars PROVE UNCHANGED Fifo!vars
    BY <2>1 DEF ringVars, Fifo!vars, Waiting, Count, SlotOf
  <2>2. QED
    BY <2>1, PutRefines, GetRefines DEF Next, Put, Get, Fifo!Next
<1>3. QED
  BY <1>1, <1>2, RingSafe, PTL DEF Spec, ImplementsFifo, Fifo!Spec
=============================================================================
