----------------------------- MODULE MCKeyDriver -----------------------------
(* Small instances of the key driver for TLC. *)
EXTENDS KeyDriver

\* The keys of the device-tree node, first key first.
OneKey == {"K1"}
TwoKeys == {"K1", "K2"}
First == "K1"

\* The handlers keys_irq starts besides the timer: none, those of stage 07, and
\* those the later stages add.
TimerOnly == {}
Stage07 == {"task"}
SinceStage08 == {"work", "thread"}

AllCalls == {"read", "poll", "fasync", "nonblock"}
OnlyRead == {"read"}

OneReader == {"p"}
TwoReaders == {"p", "q"}
=============================================================================
