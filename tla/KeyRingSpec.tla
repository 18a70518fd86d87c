----------------------------- MODULE KeyRingSpec -----------------------------
(***************************************************************************)
(* The key buffer on its own: put_key and get_key called one at a time, as *)
(* when a single reader is never preempted inside get_key.                 *)
(***************************************************************************)
EXTENDS KeyRing, Sequences

CONSTANTS
  Key,        \* the words put_key is called with
  Zero        \* the zero word of a slot never written

ASSUME KeyAssumption == NoKey \notin Key

Init == RingInit(Zero)

Put == \E k \in Key : put_key(k)
Get == get_key

Next == Put \/ Get

Spec == Init /\ [][Next]_ringVars

-----------------------------------------------------------------------------
(* Every index stays inside the array, and a slot or a result is a key or  *)
(* its start value.                                                        *)
TypeOK ==
  /\ g_key \in [Slots -> Key \cup {Zero}]
  /\ g_key_r \in Slots
  /\ g_key_w \in Slots
  /\ out \in Key \cup {NoKey}

(* Every slot between the read and the write index holds a key that was    *)
(* put: a reader never meets a slot that put_key has not yet filled,       *)
(* although put_key checks no bound of its own (lines 57-62).              *)
WaitingAreKeys == \A n \in 1 .. Count : g_key[SlotOf(n)] \in Key

\* What put_key and get_key keep true together.
RingInv == TypeOK /\ WaitingAreKeys

(* Once both indices are on the last slot the buffer is dead: is_key_buf_  *)
(* full refuses every key, and get_key never moves the read index away     *)
(* (lines 55, 58, 66).  A deaf buffer stays deaf.                          *)
DeafForever == [][Deaf => Deaf']_ringVars

-----------------------------------------------------------------------------
\* The keys waiting, oldest first: the abstract queue.
Waiting == [n \in 1 .. Count |-> g_key[SlotOf(n)]]

Fifo == INSTANCE LossyFifo WITH queue <- Waiting, Capacity <- BUF_LEN - 1

(* The buffer implements the lossy queue: with one call at a time, what    *)
(* get_key returns is what a queue would return, in order, whatever the    *)
(* indices have done (lines 57-71).                                        *)
ImplementsFifo == Fifo!Spec
=============================================================================
