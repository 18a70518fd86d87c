----------------------------- MODULE MCStageRun ------------------------------
(* Small instances of the ten key drivers for TLC. *)
EXTENDS StageRun

AllStages == 1 .. 10

\* Five edges take the counters of stages 03 to 05 past the largest int and
\* around the buffer; three reports lap a ring, and from stage 07 on the
\* timer added at probe makes the first one.
SafetyEdges ==
  [s \in 1 .. 10 |-> CASE s <= 2 -> 4 [] s \in 3 .. 5 -> 5
                        [] s \in 6 .. 7 -> 3 [] s >= 8 -> 2]
LiveEdges == [s \in 1 .. 10 |-> 2]

\* The first key may sit on gpio 0; the rings do not look at the word.
BothGpios == [s \in 1 .. 10 |-> IF s <= 5 THEN {0, 1} ELSE {1}]
NotZero == [s \in 1 .. 10 |-> {1}]
=============================================================================
