------------------------------ MODULE LossyFifo ------------------------------
(***************************************************************************)
(* What the key buffer promises its readers, and no more: keys come out in *)
(* the order they went in, none twice and none invented.  A press may be   *)
(* refused at any time, and a press that does not fit may cost every key   *)
(* still waiting.                                                          *)
(***************************************************************************)
EXTENDS Naturals, Sequences

CONSTANTS
  Key,        \* the values that can be put
  Capacity,   \* how many keys can wait
  NoKey       \* what Take returns when no key waits

VARIABLES
  queue,      \* the keys waiting, oldest first
  out         \* what the last Take returned

vars == <<queue, out>>

Init == queue = <<>> /\ out = NoKey

Press(k) ==
  /\ \/ Len(queue) < Capacity /\ queue' = Append(queue, k)
     \/ Len(queue) = Capacity /\ queue' = <<>>
     \/ queue' = queue
  /\ UNCHANGED out

Take ==
  \/ queue # <<>> /\ out' = Head(queue) /\ queue' = Tail(queue)
  \/ queue = <<>> /\ out' = NoKey /\ UNCHANGED queue

Next == Take \/ \E k \in Key : Press(k)

Spec == Init /\ [][Next]_vars
=============================================================================
