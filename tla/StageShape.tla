---------------------------- MODULE StageShape ----------------------------
(***************************************************************************)
(* Where the handlers and the system call of StageRun can be: what is left *)
(* of each is a suffix of one of the stage's programs, so the step that    *)
(* comes next and the one after it are known.  The proofs about StageRun   *)
(* rest on these facts and never look at a sequence themselves.            *)
(***************************************************************************)
EXTENDS StageRun, SequenceTheorems, TLAPS

-----------------------------------------------------------------------------
(* The programs of KeyStages as the tuples they are.                        *)

(* What `\o' makes of short tuples.                                        *)
LEMMA Concat11 == ASSUME NEW a, NEW b PROVE <<a>> \o <<b>> = <<a, b>>
<1>1. <<a>> \in Seq({a, b}) /\ <<b>> \in Seq({a, b}) /\ <<a, b>> \in Seq({a, b})
  OBVIOUS
<1>2. Len(<<a>> \o <<b>>) = 2
  BY <1>1, ConcatProperties
<1>3. \A i \in 1 .. 2 : (<<a>> \o <<b>>)[i] = <<a, b>>[i]
  BY <1>1, ConcatProperties
<1> QED
  BY <1>1, <1>2, <1>3, ConcatProperties, SeqEqual

(* One step before two.                                                    *)
LEMMA Concat12 ==
  ASSUME NEW a, NEW b, NEW c PROVE <<a>> \o <<b, c>> = <<a, b, c>>
<1>1. /\ <<a>> \in Seq({a, b, c}) /\ <<b, c>> \in Seq({a, b, c})
      /\ <<a, b, c>> \in Seq({a, b, c})
  OBVIOUS
<1>2. Len(<<a>> \o <<b, c>>) = 3
  BY <1>1, ConcatProperties
<1>3. \A i \in 1 .. 3 : (<<a>> \o <<b, c>>)[i] = <<a, b, c>>[i]
  BY <1>1, ConcatProperties
<1> QED
  BY <1>1, <1>2, <1>3, ConcatProperties, SeqEqual

(* One step before three.                                                  *)
LEMMA Concat13 ==
  ASSUME NEW a, NEW b, NEW c, NEW d
  PROVE  <<a>> \o <<b, c, d>> = <<a, b, c, d>>
<1> DEFINE S == {a, b, c, d}
<1>1. <<a>> \in Seq(S) /\ <<b, c, d>> \in Seq(S) /\ <<a, b, c, d>> \in Seq(S)
  OBVIOUS
<1>2. Len(<<a>> \o <<b, c, d>>) = 4
  BY <1>1, ConcatProperties
<1>3. \A i \in 1 .. 4 : (<<a>> \o <<b, c, d>>)[i] = <<a, b, c, d>>[i]
  BY <1>1, ConcatProperties
<1> QED
  BY <1>1, <1>2, <1>3, ConcatProperties, SeqEqual

(* Two steps before two.                                                   *)
LEMMA Concat22 ==
  ASSUME NEW a, NEW b, NEW c, NEW d
  PROVE  <<a, b>> \o <<c, d>> = <<a, b, c, d>>
<1> DEFINE S == {a, b, c, d}
<1>1. <<a, b>> \in Seq(S) /\ <<c, d>> \in Seq(S) /\ <<a, b, c, d>> \in Seq(S)
  OBVIOUS
<1>2. Len(<<a, b>> \o <<c, d>>) = 4
  BY <1>1, ConcatProperties
<1>3. \A i \in 1 .. 4 : (<<a, b>> \o <<c, d>>)[i] = <<a, b, c, d>>[i]
  BY <1>1, ConcatProperties
<1> QED
  BY <1>1, <1>2, <1>3, ConcatProperties, SeqEqual

(* Three steps before one.                                                 *)
LEMMA Concat31 ==
  ASSUME NEW a, NEW b, NEW c, NEW d
  PROVE  <<a, b, c>> \o <<d>> = <<a, b, c, d>>
<1> DEFINE S == {a, b, c, d}
<1>1. <<a, b, c>> \in Seq(S) /\ <<d>> \in Seq(S) /\ <<a, b, c, d>> \in Seq(S)
  OBVIOUS
<1>2. Len(<<a, b, c>> \o <<d>>) = 4
  BY <1>1, ConcatProperties
<1>3. \A i \in 1 .. 4 : (<<a, b, c>> \o <<d>>)[i] = <<a, b, c, d>>[i]
  BY <1>1, ConcatProperties
<1> QED
  BY <1>1, <1>2, <1>3, ConcatProperties, SeqEqual

(* Four steps before one.                                                  *)
LEMMA Concat41 ==
  ASSUME NEW a, NEW b, NEW c, NEW d, NEW e
  PROVE  <<a, b, c, d>> \o <<e>> = <<a, b, c, d, e>>
<1> DEFINE S == {a, b, c, d, e}
<1>1. <<a, b, c, d>> \in Seq(S) /\ <<e>> \in Seq(S) /\ <<a, b, c, d, e>> \in Seq(S)
  OBVIOUS
<1>2. Len(<<a, b, c, d>> \o <<e>>) = 5
  BY <1>1, ConcatProperties
<1>3. \A i \in 1 .. 5 : (<<a, b, c, d>> \o <<e>>)[i] = <<a, b, c, d, e>>[i]
  BY <1>1, ConcatProperties
<1> QED
  BY <1>1, <1>2, <1>3, ConcatProperties, SeqEqual

(* The interrupt handlers of the ten stages.                               *)
LEMMA IrqPrograms ==
  keys_irq = << <<"sample">>,
                <<"sample", "store_word", "wake_up">>,
                <<"sample", "store_slot", "inc_w", "wake_up">>,
                <<"sample", "store_slot", "inc_w", "wake_up">>,
                <<"sample", "store_slot", "inc_w", "wake_up", "kill_fasync">>,
                <<"sample", "put_ring", "wake_up", "kill_fasync">>,
                <<"tasklet_schedule", "mod_timer">>,
                <<"tasklet_schedule", "schedule_work", "mod_timer">>,
                <<"tasklet_schedule", "schedule_work", "mod_timer">>,
                <<"tasklet_schedule", "schedule_work", "mod_timer", "wake_thread">> >>
<1>1. keys_irq02 = <<"sample", "store_word", "wake_up">>
  BY Concat12 DEF keys_irq02, Sample
<1>2. keys_irq03 = <<"sample", "store_slot", "inc_w", "wake_up">>
  BY Concat13 DEF keys_irq03, Sample
<1>3. keys_irq05 = <<"sample", "store_slot", "inc_w", "wake_up", "kill_fasync">>
  BY <1>2, Concat41 DEF keys_irq05, keys_irq04
<1>4. keys_irq06 = <<"sample", "put_ring", "wake_up", "kill_fasync">>
  <2>1. Sample \o put_key06 = <<"sample", "put_ring">>
    BY Concat11 DEF Sample, put_key06
  <2> QED
    BY <2>1, Concat22 DEF keys_irq06
<1>5. keys_irq10 = <<"tasklet_schedule", "schedule_work", "mod_timer", "wake_thread">>
  BY Concat31 DEF keys_irq10, keys_irq09, keys_irq08
<1> QED
  BY <1>1, <1>2, <1>3, <1>4, <1>5
     DEF keys_irq, keys_irq01, keys_irq04, keys_irq07, keys_irq08, keys_irq09, Sample

(* The timer's handler is the same in the stages that have one.            *)
LEMMA TimerPrograms ==
  LET p == <<"sample", "put_ring", "wake_up", "kill_fasync">>
  IN  key_timer_expire = <<p, p, p, p>>
<1>1. Sample \o put_key06 = <<"sample", "put_ring">>
  BY Concat11 DEF Sample, put_key06
<1>2. <<"sample", "put_ring">> \o <<"wake_up", "kill_fasync">>
        = <<"sample", "put_ring", "wake_up", "kill_fasync">>
  BY Concat22
<1> QED
  BY <1>1, <1>2 DEF key_timer_expire, key_timer_expire07, key_timer_expire08,
     key_timer_expire09, key_timer_expire10, put_key07, put_key08, put_key09, put_key10

(* The read of the stages with a ring.                                     *)
LEMMA RingRead ==
  LET p == <<"EAGAIN_if_empty", "wait_ring", "get_load", "get_store", "return4">>
  IN  /\ keys_read06 = p /\ keys_read07 = p /\ keys_read08 = p
      /\ keys_read09 = p /\ keys_read10 = p
<1>1. <<"EAGAIN_if_empty", "wait_ring">> \o get_key06
        = <<"EAGAIN_if_empty", "wait_ring", "get_load", "get_store">>
  BY Concat22 DEF get_key06
<1>2. <<"EAGAIN_if_empty", "wait_ring", "get_load", "get_store">> \o <<"return4">>
        = <<"EAGAIN_if_empty", "wait_ring", "get_load", "get_store", "return4">>
  BY Concat41
<1> QED
  BY <1>1, <1>2 DEF keys_read06, keys_read07, keys_read08, keys_read09, keys_read10,
     get_key07, get_key08, get_key09, get_key10


(* The deferred handlers a stage has, and that all they do is read.         *)
LEMMA DeferredPrograms ==
  /\ stage \in 1 .. 6 => DOMAIN deferred_funcs[stage] = {}
  /\ stage = 7 => DOMAIN deferred_funcs[stage] = {"task"}
  /\ stage \in 8 .. 9 => DOMAIN deferred_funcs[stage] = {"task", "work"}
  /\ stage = 10 => DOMAIN deferred_funcs[stage] = {"task", "work", "thread"}
<1>1. CASE stage \in 1 .. 6
  BY <1>1 DEF deferred_funcs, Stages
<1>2. CASE stage = 7
  BY <1>2 DEF deferred_funcs, Stages
<1>3. CASE stage = 8
  BY <1>3 DEF deferred_funcs, Stages
<1>4. CASE stage = 9
  BY <1>4 DEF deferred_funcs, Stages
<1>5. CASE stage = 10
  BY <1>5 DEF deferred_funcs, Stages
<1> QED
  BY <1>1, <1>2, <1>3, <1>4, <1>5

-----------------------------------------------------------------------------
(* The shape of a state.                                                    *)

\* The step that comes next in what is left of a program.
NextOf(p) == IF p = << >> THEN "idle" ELSE Head(p)
InHard == NextOf(hard)
InSoft == NextOf(soft)
InCall == NextOf(kpc)

\* What can be left of the handlers that keep a word, that fill slots (with
\* and without the signal), that fill a ring, and that only schedule others.
WordForms == {<<"sample", "store_word", "wake_up">>, <<"store_word", "wake_up">>,
              <<"wake_up">>}
SlotForms == {<<"sample", "store_slot", "inc_w", "wake_up">>,
              <<"store_slot", "inc_w", "wake_up">>, <<"inc_w", "wake_up">>,
              <<"wake_up">>}
SigioForms == {<<"sample", "store_slot", "inc_w", "wake_up", "kill_fasync">>,
               <<"store_slot", "inc_w", "wake_up", "kill_fasync">>,
               <<"inc_w", "wake_up", "kill_fasync">>,
               <<"wake_up", "kill_fasync">>, <<"kill_fasync">>}
RingForms == {<<"sample", "put_ring", "wake_up", "kill_fasync">>,
              <<"put_ring", "wake_up", "kill_fasync">>,
              <<"wake_up", "kill_fasync">>, <<"kill_fasync">>}
TaskForms == {<<"tasklet_schedule", "mod_timer">>, <<"mod_timer">>}
WorkForms == {<<"tasklet_schedule", "schedule_work", "mod_timer">>,
              <<"schedule_work", "mod_timer">>, <<"mod_timer">>}
ThreadForms == {<<"tasklet_schedule", "schedule_work", "mod_timer", "wake_thread">>,
                <<"schedule_work", "mod_timer", "wake_thread">>,
                <<"mod_timer", "wake_thread">>, <<"wake_thread">>}

HardShape ==
  \/ hard = << >>
  \/ stage = 1 /\ hard = <<"sample">>
  \/ stage = 2 /\ hard \in WordForms
  \/ stage \in 3 .. 4 /\ hard \in SlotForms
  \/ stage = 5 /\ hard \in SigioForms
  \/ stage = 6 /\ hard \in RingForms
  \/ stage = 7 /\ hard \in TaskForms
  \/ stage \in 8 .. 9 /\ hard \in WorkForms
  \/ stage = 10 /\ hard \in ThreadForms

SoftShape ==
  \/ soft = << >>
  \/ stage \in 7 .. 10 /\ soft \in RingForms

CallShape ==
  \/ call = "user" /\ kpc = << >>
  \/ call = "read" /\ stage = 2
       /\ kpc \in {<<"wait_word", "copy_word", "clear_word", "return4">>,
                   <<"copy_word", "clear_word", "return4">>,
                   <<"clear_word", "return4">>, <<"return4">>}
  \/ call = "read" /\ stage \in 3 .. 5
       /\ kpc \in {<<"wait_slot", "copy_slot", "inc_r", "return4">>,
                   <<"copy_slot", "inc_r", "return4">>,
                   <<"inc_r", "return4">>, <<"return4">>}
  \/ call = "read" /\ stage >= 6
       /\ kpc \in {<<"EAGAIN_if_empty", "wait_ring", "get_load", "get_store", "return4">>,
                   <<"wait_ring", "get_load", "get_store", "return4">>,
                   <<"get_load", "get_store", "return4">>,
                   <<"get_store", "return4">>, <<"return4">>}
  \/ call = "poll" /\ stage = 4
       /\ kpc \in {<<"poll_wait", "poll_test">>, <<"poll_test">>}
  \/ call = "fasync" /\ stage = 5 /\ kpc = <<"fasync_helper">>

TodoShape ==
  \/ stage <= 3 /\ todo = << >>
  \/ stage = 4 /\ todo \in {<< >>, <<"read_if_in">>}
  \/ stage = 5 /\ todo \in {<< >>, <<"fasync">>}
  \/ stage >= 6 /\ todo \in Seq({"set_nonblock", "read", "clear_nonblock"})

Waits == {"wait_word", "wait_slot", "wait_ring"}

WhereShape ==
  \/ where = "run"
  \/ where = "queued" /\ InCall \in Waits \cup {"poll_test"}
  \/ where = "asleep" /\ InCall \in Waits \cup {"poll_wait"}

SigioShape ==
  /\ fasync => stage = 5 /\ todo = << >> /\ call # "fasync"
  /\ "SIGIO" \in sig => fasync
  /\ inSig => fasync /\ call = "read"
  /\ stage = 5 /\ call = "read" => inSig
  /\ stage = 5 /\ call = "fasync" => todo = << >>
  /\ stage = 5 /\ ~fasync => reads = 0 /\ lastSeq = 0

PlainTypes ==
  /\ stage \in RunStages /\ gpio \in GpiosOf[stage]
  /\ level \in 0 .. 1 /\ latched \in BOOLEAN
  /\ edges \in 0 .. EdgesOf[stage] /\ stops \in 0 .. MaxStops
  /\ val \in [{"hard", "soft"} -> 0 .. 1]
  /\ pend \subseteq HandlersOf(stage) \ {"irq"}
  /\ seen \in [HandlersOf(stage) -> 0 .. 1]
  /\ nonblock \in BOOLEAN /\ fasync \in BOOLEAN /\ inSig \in BOOLEAN
  /\ nonblock => stage >= 6
  /\ sig \subseteq {"SIGIO", "SIGCONT"}
  /\ ret \in {"none", "4", "EAGAIN", "in", "timeout", "0"}
  /\ flags \subseteq Happenings
  /\ reads \in 0 .. BUF_LEN

\* Where everything is, and the variables whose types do not depend on how
\* many keys there have been.
Shape == /\ PlainTypes /\ HardShape /\ SoftShape /\ CallShape /\ TodoShape
         /\ WhereShape /\ SigioShape

-----------------------------------------------------------------------------
(* From one step to the next.                                               *)

\* The program p is at step s and has q left after it.
After(p, s, q) == p # << >> /\ Head(p) = s /\ Tail(p) = q

(* The suffixes of the handler that keeps one word.                        *)
LEMMA WordTails ==
  /\ After(<<"sample", "store_word", "wake_up">>, "sample",
           <<"store_word", "wake_up">>)
  /\ After(<<"store_word", "wake_up">>, "store_word", <<"wake_up">>)
  /\ After(<<"wake_up">>, "wake_up", << >>)
BY DEF After

(* The suffixes of the handler that fills slots.                           *)
LEMMA SlotTails ==
  /\ After(<<"sample", "store_slot", "inc_w", "wake_up">>, "sample",
           <<"store_slot", "inc_w", "wake_up">>)
  /\ After(<<"store_slot", "inc_w", "wake_up">>, "store_slot",
           <<"inc_w", "wake_up">>)
  /\ After(<<"inc_w", "wake_up">>, "inc_w", <<"wake_up">>)
  /\ After(<<"wake_up">>, "wake_up", << >>)
BY DEF After

(* The suffixes of the one that also signals.                              *)
LEMMA SigioTails ==
  /\ After(<<"sample", "store_slot", "inc_w", "wake_up", "kill_fasync">>,
           "sample",
           <<"store_slot", "inc_w", "wake_up", "kill_fasync">>)
  /\ After(<<"store_slot", "inc_w", "wake_up", "kill_fasync">>, "store_slot",
           <<"inc_w", "wake_up", "kill_fasync">>)
  /\ After(<<"inc_w", "wake_up", "kill_fasync">>, "inc_w",
           <<"wake_up", "kill_fasync">>)
  /\ After(<<"wake_up", "kill_fasync">>, "wake_up", <<"kill_fasync">>)
  /\ After(<<"kill_fasync">>, "kill_fasync", << >>)
BY DEF After

(* The suffixes of the handlers that fill a ring.                          *)
LEMMA RingTails ==
  /\ After(<<"sample", "put_ring", "wake_up", "kill_fasync">>, "sample",
           <<"put_ring", "wake_up", "kill_fasync">>)
  /\ After(<<"put_ring", "wake_up", "kill_fasync">>, "put_ring",
           <<"wake_up", "kill_fasync">>)
  /\ After(<<"wake_up", "kill_fasync">>, "wake_up", <<"kill_fasync">>)
  /\ After(<<"kill_fasync">>, "kill_fasync", << >>)
BY DEF After

(* The suffixes of the handler of stage 07.                                *)
LEMMA TaskTails ==
  /\ After(<<"tasklet_schedule", "mod_timer">>, "tasklet_schedule",
           <<"mod_timer">>)
  /\ After(<<"mod_timer">>, "mod_timer", << >>)
BY DEF After

(* The suffixes of the handler of stages 08 and 09.                        *)
LEMMA WorkTails ==
  /\ After(<<"tasklet_schedule", "schedule_work", "mod_timer">>,
           "tasklet_schedule",
           <<"schedule_work", "mod_timer">>)
  /\ After(<<"schedule_work", "mod_timer">>, "schedule_work", <<"mod_timer">>)
  /\ After(<<"mod_timer">>, "mod_timer", << >>)
BY DEF After

(* The suffixes of the handler of stage 10.                                *)
LEMMA ThreadTails ==
  /\ After(<<"tasklet_schedule", "schedule_work", "mod_timer", "wake_thread">>,
           "tasklet_schedule",
           <<"schedule_work", "mod_timer", "wake_thread">>)
  /\ After(<<"schedule_work", "mod_timer", "wake_thread">>, "schedule_work",
           <<"mod_timer", "wake_thread">>)
  /\ After(<<"mod_timer", "wake_thread">>, "mod_timer", <<"wake_thread">>)
  /\ After(<<"wake_thread">>, "wake_thread", << >>)
BY DEF After

(* The suffixes of the file operations.                                    *)
LEMMA CallTails ==
  /\ After(<<"wait_word", "copy_word", "clear_word", "return4">>, "wait_word",
           <<"copy_word", "clear_word", "return4">>)
  /\ After(<<"copy_word", "clear_word", "return4">>, "copy_word",
           <<"clear_word", "return4">>)
  /\ After(<<"clear_word", "return4">>, "clear_word", <<"return4">>)
  /\ After(<<"return4">>, "return4", << >>)
  /\ After(<<"wait_slot", "copy_slot", "inc_r", "return4">>, "wait_slot",
           <<"copy_slot", "inc_r", "return4">>)
  /\ After(<<"copy_slot", "inc_r", "return4">>, "copy_slot",
           <<"inc_r", "return4">>)
  /\ After(<<"inc_r", "return4">>, "inc_r", <<"return4">>)
  /\ After(<<"EAGAIN_if_empty", "wait_ring", "get_load", "get_store", "return4">>,
           "EAGAIN_if_empty",
           <<"wait_ring", "get_load", "get_store", "return4">>)
  /\ After(<<"wait_ring", "get_load", "get_store", "return4">>, "wait_ring",
           <<"get_load", "get_store", "return4">>)
  /\ After(<<"get_load", "get_store", "return4">>, "get_load",
           <<"get_store", "return4">>)
  /\ After(<<"get_store", "return4">>, "get_store", <<"return4">>)
  /\ After(<<"poll_wait", "poll_test">>, "poll_wait", <<"poll_test">>)
  /\ After(<<"poll_test">>, "poll_test", << >>)
  /\ After(<<"fasync_helper">>, "fasync_helper", << >>)
BY DEF After

(* A step of the process is one its system call is at.                      *)
LEMMA AtStepIs ==
  ASSUME NEW s, s # "idle"
  PROVE  AtStep(s) <=> InCall = s
BY DEF AtStep, InCall, NextOf

\* From a step of the interrupt handler to the next.
HardMove ==
  \/ InHard = "sample" /\ stage = 1 /\ InHard' = "idle"
  \/ InHard = "sample" /\ stage = 2 /\ InHard' = "store_word"
  \/ InHard = "sample" /\ stage \in 3 .. 5 /\ InHard' = "store_slot"
  \/ InHard = "sample" /\ stage = 6 /\ InHard' = "put_ring"
  \/ InHard = "store_word" /\ stage = 2 /\ InHard' = "wake_up"
  \/ InHard = "store_slot" /\ stage \in 3 .. 5 /\ InHard' = "inc_w"
  \/ InHard = "inc_w" /\ stage \in 3 .. 5 /\ InHard' = "wake_up"
  \/ InHard = "put_ring" /\ stage = 6 /\ InHard' = "wake_up"
  \/ InHard = "wake_up" /\ stage \in 2 .. 4 /\ InHard' = "idle"
  \/ InHard = "wake_up" /\ stage \in 5 .. 6 /\ InHard' = "kill_fasync"
  \/ InHard = "kill_fasync" /\ stage \in 5 .. 6 /\ InHard' = "idle"
  \/ InHard = "tasklet_schedule" /\ stage = 7 /\ InHard' = "mod_timer"
  \/ InHard = "tasklet_schedule" /\ stage \in 8 .. 10 /\ InHard' = "schedule_work"
  \/ InHard = "schedule_work" /\ stage \in 8 .. 10 /\ InHard' = "mod_timer"
  \/ InHard = "mod_timer" /\ stage \in 7 .. 9 /\ InHard' = "idle"
  \/ InHard = "mod_timer" /\ stage = 10 /\ InHard' = "wake_thread"
  \/ InHard = "wake_thread" /\ stage = 10 /\ InHard' = "idle"

\* Which stages have a step in their interrupt handler.
HardPlace ==
  \/ InHard = "idle" /\ hard = << >>
  \/ InHard = "sample" /\ stage \in 1 .. 6
  \/ InHard = "store_word" /\ stage = 2
  \/ InHard \in {"store_slot", "inc_w"} /\ stage \in 3 .. 5
  \/ InHard = "put_ring" /\ stage = 6
  \/ InHard = "wake_up" /\ stage \in 2 .. 6
  \/ InHard = "kill_fasync" /\ stage \in 5 .. 6
  \/ InHard \in {"tasklet_schedule", "mod_timer"} /\ stage \in 7 .. 10
  \/ InHard = "schedule_work" /\ stage \in 8 .. 10
  \/ InHard = "wake_thread" /\ stage = 10

(* What is left of the interrupt handler names a step of it.                *)
LEMMA HardPlaces ==
  ASSUME HardShape, stage \in Stages
  PROVE  HardPlace /\ (hard = << >> <=> InHard = "idle")
<1>1. CASE hard = << >>
  BY <1>1 DEF HardPlace, InHard, NextOf
<1>2. CASE stage = 1 /\ hard = <<"sample">>
  BY <1>2 DEF HardPlace, InHard, NextOf
<1>3. CASE stage = 2 /\ hard \in WordForms
  BY <1>3, WordTails DEF WordForms, HardPlace, InHard, NextOf, After
<1>4. CASE stage \in 3 .. 4 /\ hard \in SlotForms
  BY <1>4, SlotTails DEF SlotForms, HardPlace, InHard, NextOf, After
<1>5. CASE stage = 5 /\ hard \in SigioForms
  BY <1>5, SigioTails DEF SigioForms, HardPlace, InHard, NextOf, After
<1>6. CASE stage = 6 /\ hard \in RingForms
  BY <1>6, RingTails DEF RingForms, HardPlace, InHard, NextOf, After
<1>7. CASE stage = 7 /\ hard \in TaskForms
  BY <1>7, TaskTails DEF TaskForms, HardPlace, InHard, NextOf, After
<1>8. CASE stage \in 8 .. 9 /\ hard \in WorkForms
  BY <1>8, WorkTails DEF WorkForms, HardPlace, InHard, NextOf, After
<1>9. CASE stage = 10 /\ hard \in ThreadForms
  BY <1>9, ThreadTails DEF ThreadForms, HardPlace, InHard, NextOf, After
<1> QED
  BY <1>1, <1>2, <1>3, <1>4, <1>5, <1>6, <1>7, <1>8, <1>9 DEF HardShape

(* The interrupt handler goes on to its next step.                          *)
LEMMA HardAdvances ==
  ASSUME HardShape, stage \in Stages, hard # << >>, hard' = Tail(hard), stage' = stage
  PROVE  HardShape' /\ HardMove
<1>2. CASE stage = 1 /\ hard = <<"sample">>
  BY <1>2 DEF HardShape, HardMove, InHard, NextOf
<1>3. CASE stage = 2 /\ hard \in WordForms
  <2>1. /\ hard' \in WordForms \cup {<< >>}
        /\ \/ InHard = "sample" /\ InHard' = "store_word"
           \/ InHard = "store_word" /\ InHard' = "wake_up"
           \/ InHard = "wake_up" /\ InHard' = "idle"
    BY <1>3, WordTails DEF WordForms, InHard, NextOf, After
  <2> QED
    BY <1>3, <2>1 DEF HardShape, HardMove
<1>4. CASE stage \in 3 .. 4 /\ hard \in SlotForms
  <2>1. /\ hard' \in SlotForms \cup {<< >>}
        /\ \/ InHard = "sample" /\ InHard' = "store_slot"
           \/ InHard = "store_slot" /\ InHard' = "inc_w"
           \/ InHard = "inc_w" /\ InHard' = "wake_up"
           \/ InHard = "wake_up" /\ InHard' = "idle"
    BY <1>4, SlotTails DEF SlotForms, InHard, NextOf, After
  <2> QED
    BY <1>4, <2>1 DEF HardShape, HardMove
<1>5. CASE stage = 5 /\ hard \in SigioForms
  <2>1. /\ hard' \in SigioForms \cup {<< >>}
        /\ \/ InHard = "sample" /\ InHard' = "store_slot"
           \/ InHard = "store_slot" /\ InHard' = "inc_w"
           \/ InHard = "inc_w" /\ InHard' = "wake_up"
           \/ InHard = "wake_up" /\ InHard' = "kill_fasync"
           \/ InHard = "kill_fasync" /\ InHard' = "idle"
    BY <1>5, SigioTails DEF SigioForms, InHard, NextOf, After
  <2> QED
    BY <1>5, <2>1 DEF HardShape, HardMove
<1>6. CASE stage = 6 /\ hard \in RingForms
  <2>1. /\ hard' \in RingForms \cup {<< >>}
        /\ \/ InHard = "sample" /\ InHard' = "put_ring"
           \/ InHard = "put_ring" /\ InHard' = "wake_up"
           \/ InHard = "wake_up" /\ InHard' = "kill_fasync"
           \/ InHard = "kill_fasync" /\ InHard' = "idle"
    BY <1>6, RingTails DEF RingForms, InHard, NextOf, After
  <2> QED
    BY <1>6, <2>1 DEF HardShape, HardMove
<1>7. CASE stage = 7 /\ hard \in TaskForms
  <2>1. /\ hard' \in TaskForms \cup {<< >>}
        /\ \/ InHard = "tasklet_schedule" /\ InHard' = "mod_timer"
           \/ InHard = "mod_timer" /\ InHard' = "idle"
    BY <1>7, TaskTails DEF TaskForms, InHard, NextOf, After
  <2> QED
    BY <1>7, <2>1 DEF HardShape, HardMove
<1>8. CASE stage \in 8 .. 9 /\ hard \in WorkForms
  <2>1. /\ hard' \in WorkForms \cup {<< >>}
        /\ \/ InHard = "tasklet_schedule" /\ InHard' = "schedule_work"
           \/ InHard = "schedule_work" /\ InHard' = "mod_timer"
           \/ InHard = "mod_timer" /\ InHard' = "idle"
    BY <1>8, WorkTails DEF WorkForms, InHard, NextOf, After
  <2> QED
    BY <1>8, <2>1 DEF HardShape, HardMove
<1>9. CASE stage = 10 /\ hard \in ThreadForms
  <2>1. /\ hard' \in ThreadForms \cup {<< >>}
        /\ \/ InHard = "tasklet_schedule" /\ InHard' = "schedule_work"
           \/ InHard = "schedule_work" /\ InHard' = "mod_timer"
           \/ InHard = "mod_timer" /\ InHard' = "wake_thread"
           \/ InHard = "wake_thread" /\ InHard' = "idle"
    BY <1>9, ThreadTails DEF ThreadForms, InHard, NextOf, After
  <2> QED
    BY <1>9, <2>1 DEF HardShape, HardMove
<1> QED
  BY <1>2, <1>3, <1>4, <1>5, <1>6, <1>7, <1>8, <1>9 DEF HardShape

(* An interrupt starts the handler of its stage.                            *)
LEMMA HardStarts ==
  ASSUME stage \in Stages, hard' = keys_irq[stage], stage' = stage
  PROVE  /\ HardShape'
         /\ InHard' = IF stage <= 6 THEN "sample" ELSE "tasklet_schedule"
<1>1. HardShape'
  BY IrqPrograms
     DEF HardShape, WordForms, SlotForms, SigioForms, RingForms, TaskForms, WorkForms,
         ThreadForms, Stages
<1>2. InHard' = IF stage <= 6 THEN "sample" ELSE "tasklet_schedule"
  BY IrqPrograms, WordTails, SlotTails, SigioTails, RingTails, TaskTails, WorkTails,
     ThreadTails DEF InHard, NextOf, Stages, After
<1> QED
  BY <1>1, <1>2

\* From a step of the timer's handler to the next.
SoftMove ==
  \/ InSoft = "sample" /\ InSoft' = "put_ring"
  \/ InSoft = "put_ring" /\ InSoft' = "wake_up"
  \/ InSoft = "wake_up" /\ InSoft' = "kill_fasync"
  \/ InSoft = "kill_fasync" /\ InSoft' = "idle"

(* What is left of the timer's handler names a step of it.                  *)
LEMMA SoftPlaces ==
  ASSUME SoftShape
  PROVE  /\ soft = << >> <=> InSoft = "idle"
         /\ InSoft \in {"idle", "sample", "put_ring", "wake_up", "kill_fasync"}
         /\ InSoft # "idle" => stage >= 7
BY RingTails DEF SoftShape, RingForms, InSoft, NextOf, After

(* The timer's handler goes on to its next step.                            *)
LEMMA SoftAdvances ==
  ASSUME SoftShape, soft # << >>, soft' = Tail(soft), stage' = stage
  PROVE  SoftShape' /\ SoftMove
<1>0. stage \in 7 .. 10 /\ soft \in RingForms
  BY DEF SoftShape
<1>1. /\ soft' \in RingForms \cup {<< >>}
      /\ \/ InSoft = "sample" /\ InSoft' = "put_ring"
         \/ InSoft = "put_ring" /\ InSoft' = "wake_up"
         \/ InSoft = "wake_up" /\ InSoft' = "kill_fasync"
         \/ InSoft = "kill_fasync" /\ InSoft' = "idle"
  BY <1>0, RingTails DEF RingForms, InSoft, NextOf, After
<1> QED
  BY <1>0, <1>1 DEF SoftShape, SoftMove

(* The timer starts its handler.                                            *)
LEMMA SoftStarts ==
  ASSUME stage \in 7 .. 10, soft' = key_timer_expire[stage - 6], stage' = stage
  PROVE  SoftShape' /\ InSoft' = "sample"
<1>1. soft' = <<"sample", "put_ring", "wake_up", "kill_fasync">>
  BY TimerPrograms
<1> QED
  BY <1>1 DEF SoftShape, RingForms, InSoft, NextOf

\* Which call a step is of, and which stages have it.
CallPlace ==
  \/ call = "user" /\ InCall = "idle"
  \/ /\ call = "read" /\ stage = 2
     /\ InCall \in {"wait_word", "copy_word", "clear_word", "return4"}
  \/ /\ call = "read" /\ stage \in 3 .. 5
     /\ InCall \in {"wait_slot", "copy_slot", "inc_r", "return4"}
  \/ /\ call = "read" /\ stage >= 6
     /\ InCall \in {"EAGAIN_if_empty", "wait_ring", "get_load", "get_store", "return4"}
  \/ call = "poll" /\ stage = 4 /\ InCall \in {"poll_wait", "poll_test"}
  \/ call = "fasync" /\ stage = 5 /\ InCall = "fasync_helper"

(* What is left of a system call names a step of it.                        *)
LEMMA CallPlaces ==
  ASSUME CallShape
  PROVE  CallPlace /\ (kpc = << >> <=> InCall = "idle")
BY CallTails DEF CallShape, CallPlace, InCall, NextOf, After

\* The step after s in its system call.
CallNext(s) ==
  CASE s = "wait_word" -> "copy_word"
    [] s = "copy_word" -> "clear_word"
    [] s \in {"clear_word", "inc_r", "get_store"} -> "return4"
    [] s = "wait_slot" -> "copy_slot"
    [] s = "copy_slot" -> "inc_r"
    [] s = "EAGAIN_if_empty" -> "wait_ring"
    [] s = "wait_ring" -> "get_load"
    [] s = "get_load" -> "get_store"
    [] s = "poll_wait" -> "poll_test"

(* A system call goes on to its next step.                                  *)
LEMMA CallAdvances ==
  ASSUME CallShape, kpc # << >>, kpc' = Tail(kpc), call' = call, stage' = stage,
         InCall \notin {"return4", "poll_test", "fasync_helper"}
  PROVE  CallShape' /\ InCall' = CallNext(InCall)
<1>1. CASE call = "user"
  BY <1>1 DEF CallShape
<1>2. CASE call = "read" /\ stage = 2
  BY <1>2, CallTails DEF CallShape, CallNext, InCall, NextOf, After
<1>3. CASE call = "read" /\ stage \in 3 .. 5
  BY <1>3, CallTails DEF CallShape, CallNext, InCall, NextOf, After
<1>4. CASE call = "read" /\ stage >= 6
  BY <1>4, CallTails DEF CallShape, CallNext, InCall, NextOf, After
<1>5. CASE call = "poll" \/ call = "fasync"
  BY <1>5, CallTails DEF CallShape, CallNext, InCall, NextOf, After
<1> QED
  BY <1>1, <1>2, <1>3, <1>4, <1>5 DEF CallShape

(* get_key on an empty buffer skips the step that moves the index.          *)
LEMMA EmptyLoadSkips ==
  ASSUME CallShape, InCall = "get_load", kpc' = Tail(Tail(kpc)), call' = call,
         stage' = stage
  PROVE  CallShape' /\ InCall' = "return4"
<1>1. kpc = <<"get_load", "get_store", "return4">> /\ call = "read" /\ stage >= 6
  BY CallTails DEF CallShape, InCall, NextOf, After
<1> QED
  BY <1>1, CallTails DEF CallShape, InCall, NextOf, After

(* The process enters the call it makes at its first step.                  *)
LEMMA CallBegins ==
  ASSUME stage \in Stages, stage' = stage, NEW c, Begin(c)
  PROVE  /\ c = "read" /\ stage >= 2 =>
              /\ CallShape'
              /\ InCall' = IF stage = 2 THEN "wait_word"
                           ELSE IF stage <= 5 THEN "wait_slot" ELSE "EAGAIN_if_empty"
         /\ c = "poll" /\ stage = 4 => CallShape' /\ InCall' = "poll_wait"
         /\ c = "fasync" /\ stage = 5 => CallShape' /\ InCall' = "fasync_helper"
<1>1. CASE c = "read" /\ stage = 2
  BY <1>1, CallTails
     DEF Begin, keys_fops, keys_fops02, keys_read02, CallShape, InCall, NextOf, After
<1>2. CASE c = "read" /\ stage \in 3 .. 5
  BY <1>2, CallTails
     DEF Begin, keys_fops, keys_fops03, keys_fops04, keys_fops05, keys_read03,
         keys_read04, keys_read05, CallShape, InCall, NextOf, After
<1>3. CASE c = "read" /\ stage \in 6 .. 10
  BY <1>3, CallTails, RingRead
     DEF Begin, keys_fops, keys_fops06, keys_fops07, keys_fops08, keys_fops09,
         keys_fops10, CallShape, InCall, NextOf, After
<1>4. CASE c = "poll" /\ stage = 4
  BY <1>4, CallTails
     DEF Begin, keys_fops, keys_fops04, keys_poll04, CallShape, InCall, NextOf, After
<1>5. CASE c = "fasync" /\ stage = 5
  BY <1>5, CallTails
     DEF Begin, keys_fops, keys_fops05, keys_fasync05, CallShape, InCall, NextOf, After
<1> QED
  BY <1>1, <1>2, <1>3, <1>4, <1>5 DEF Stages

(* A poll that finds nothing starts over.                                   *)
LEMMA PollRestarts ==
  ASSUME stage = 4, stage' = stage, call = "poll", call' = call,
         kpc' = keys_fops[stage].poll
  PROVE  CallShape' /\ InCall' = "poll_wait"
BY CallTails DEF keys_fops, keys_fops04, keys_poll04, CallShape, InCall, NextOf, After

(* Between two calls nothing is left of one.                                *)
LEMMA CallEnds ==
  ASSUME kpc' = << >>, call' = "user"
  PROVE  CallShape' /\ InCall' = "idle"
BY DEF CallShape, InCall, NextOf

-----------------------------------------------------------------------------
(* Every step keeps the shape.                                              *)

(* What does not move stays where it is.                                    *)
LEMMA SamePlaces ==
  /\ hard' = hard => InHard' = InHard
  /\ soft' = soft => InSoft' = InSoft
  /\ kpc' = kpc => InCall' = InCall
BY DEF InHard, InSoft, InCall, NextOf

(* The handlers of a stage.                                                 *)
LEMMA HandlersAre ==
  ASSUME stage \in Stages
  PROVE  /\ stage <= 6 => HandlersOf(stage) = {"irq"}
         /\ stage = 7 => HandlersOf(stage) = {"timer", "task"}
         /\ stage \in 8 .. 9 => HandlersOf(stage) = {"timer", "task", "work"}
         /\ stage = 10 => HandlersOf(stage) = {"timer", "task", "work", "thread"}
<1>1. CASE stage \in 1 .. 6
  BY <1>1, DeferredPrograms DEF HandlersOf
<1>2. CASE stage = 7
  BY <1>2, DeferredPrograms DEF HandlersOf
<1>3. CASE stage \in 8 .. 9
  BY <1>3, DeferredPrograms DEF HandlersOf
<1>4. CASE stage = 10
  BY <1>4, DeferredPrograms DEF HandlersOf
<1> QED
  BY <1>1, <1>2, <1>3, <1>4 DEF Stages

(* The test programs, as far as the calls go.                               *)
LEMMA TestPrograms ==
  ASSUME stage \in Stages
  PROVE  /\ stage = 1 => button_test[stage].loop = << >>
         /\ stage <= 3 => button_test[stage].once = << >>
         /\ stage \in 2 .. 3 => button_test[stage].loop = <<"read">>
         /\ stage = 4 => /\ button_test[stage].once = << >>
                         /\ button_test[stage].loop = <<"poll", "read_if_in">>
         /\ stage = 5 => /\ button_test[stage].once = <<"fasync">>
                         /\ button_test[stage].loop = << >>
         /\ stage >= 6 =>
              /\ button_test[stage].once \in Seq({"set_nonblock", "read", "clear_nonblock"})
              /\ button_test[stage].loop = <<"read">>
<1> DEFINE S == {"set_nonblock", "read", "clear_nonblock"}
           reading == [i \in 1 .. NonblockReads |-> "read"]
<1>1. reading \in Seq(S)
  BY NonblockReadsAssumption
<1>2. <<"set_nonblock">> \in Seq(S) /\ <<"clear_nonblock">> \in Seq(S)
  OBVIOUS
<1>3. <<"set_nonblock">> \o reading \in Seq(S)
  BY <1>1, <1>2, ConcatProperties
<1>4. (<<"set_nonblock">> \o reading) \o <<"clear_nonblock">> \in Seq(S)
  BY <1>2, <1>3, ConcatProperties
<1>5. button_test06.once \in Seq(S) /\ button_test06.loop = <<"read">>
  BY <1>4 DEF button_test06
<1>6. CASE stage \in 1 .. 5
  BY <1>6 DEF button_test, button_test02, button_test03, button_test04, button_test05
<1>7. CASE stage \in 6 .. 10
  BY <1>5, <1>7 DEF button_test, button_test07, button_test08, button_test09, button_test10
<1> QED
  BY <1>6, <1>7 DEF Stages

(* Every variable of a state is in its place from the start.                *)
LEMMA InitShape ==
  ASSUME Init
  PROVE  Shape
<1>1. stage \in Stages
  BY RunStagesAssumption DEF Init
<1>2. PlainTypes
  <2>1. pend \subseteq HandlersOf(stage) \ {"irq"}
    BY <1>1, HandlersAre DEF Init, Stages
  <2>2. edges \in 0 .. EdgesOf[stage] /\ stops \in 0 .. MaxStops
    BY <1>1, RunBounds DEF Init
  <2>3. reads \in 0 .. BUF_LEN
    BY BufAssumption DEF Init
  <2>4. val \in [{"hard", "soft"} -> 0 .. 1]
    BY DEF Init
  <2>5. seen \in [HandlersOf(stage) -> 0 .. 1]
    BY DEF Init
  <2> QED
    BY <2>1, <2>2, <2>3, <2>4, <2>5 DEF Init, PlainTypes
<1>3. TodoShape
  <2>1. todo = button_test[stage].once
    BY DEF Init
  <2>2. CASE stage \in 1 .. 5
    <3>1. /\ stage <= 3 => todo = << >>
          /\ stage = 4 => todo = << >>
          /\ stage = 5 => todo = <<"fasync">>
      BY <1>1, <2>1, TestPrograms
    <3> QED
      BY <2>2, <3>1 DEF TodoShape
  <2>3. CASE stage \in 6 .. 10
    BY <2>1, <2>3, TestPrograms DEF TodoShape, Stages
  <2> QED
    BY <1>1, <2>2, <2>3 DEF Stages
<1>4. HardShape /\ SoftShape /\ CallShape
  <2>1. hard = << >> /\ soft = << >> /\ kpc = << >> /\ call = "user"
    BY DEF Init
  <2> QED
    BY <2>1 DEF HardShape, SoftShape, CallShape
<1>5. WhereShape /\ SigioShape
  BY DEF Init, WhereShape, SigioShape
<1> QED
  BY <1>2, <1>3, <1>4, <1>5 DEF Shape

(* What a step of a handler leaves alone.                                   *)
LEMMA HandlerFrame ==
  ASSUME NEW c \in {"hard", "soft"}, NEW s, Shape, HandlerStep(c, s)
  PROVE  /\ reads' = reads /\ lastSeq' = lastSeq /\ g_key_r' = g_key_r
         /\ where' \in {where, "run"}
         /\ sig' \subseteq {"SIGIO", "SIGCONT"}
         /\ "SIGIO" \in sig' => "SIGIO" \in sig \/ fasync
<1> USE DEF Shape, PlainTypes
<1>1. CASE s = "sample" /\ Sampled(c)
  BY <1>1 DEF Sampled, histVars, bufVars
<1>2. CASE s = "store_word" /\ StoredWord(c)
  BY <1>2 DEF StoredWord, Stored
<1>3. CASE s = "store_slot" /\ StoredSlot(c)
  BY <1>3 DEF StoredSlot, Stored
<1>4. CASE s = "inc_w" /\ WriteAdvanced
  BY <1>4 DEF WriteAdvanced, histVars
<1>5. CASE s = "put_ring" /\ PutInRing(c)
  BY <1>5 DEF PutInRing
<1>6. CASE s = "wake_up" /\ Woken
  BY <1>6 DEF Woken, histVars, bufVars
<1>7. CASE s = "kill_fasync" /\ Signalled
  BY <1>7 DEF Signalled, bufVars
<1>8. CASE \E h : Starts(h)
  BY <1>8 DEF Starts, histVars, bufVars
<1> QED
  BY <1>1, <1>2, <1>3, <1>4, <1>5, <1>6, <1>7, <1>8 DEF HandlerStep

(* A handler's step leaves every variable in its type.                      *)
LEMMA HandlerTypes ==
  ASSUME NEW c \in {"hard", "soft"}, NEW s, Shape, HandlerStep(c, s), stage' = stage,
         s \in {"tasklet_schedule", "mod_timer"} => stage \in 7 .. 10,
         s = "schedule_work" => stage \in 8 .. 10, s = "wake_thread" => stage = 10
  PROVE  /\ val' \in [{"hard", "soft"} -> 0 .. 1]
         /\ pend' \subseteq HandlersOf(stage) \ {"irq"}
         /\ seen' \in [HandlersOf(stage) -> 0 .. 1]
         /\ flags' \subseteq Happenings
<1> USE DEF Shape, PlainTypes
<1>0. stage \in Stages
  BY RunStagesAssumption
<1>1. CASE s = "sample" /\ Sampled(c)
  BY <1>1 DEF Sampled, histVars
<1>2. CASE s = "store_word" /\ StoredWord(c)
  BY <1>2 DEF StoredWord, Stored, Happenings
<1>3. CASE s = "store_slot" /\ StoredSlot(c)
  BY <1>3 DEF StoredSlot, Stored, Happenings
<1>4. CASE s = "inc_w" /\ WriteAdvanced
  BY <1>4 DEF WriteAdvanced, histVars
<1>5. CASE s = "put_ring" /\ PutInRing(c)
  BY <1>5 DEF PutInRing, Happenings
<1>6. CASE s = "wake_up" /\ Woken
  BY <1>6 DEF Woken, histVars
<1>7. CASE s = "kill_fasync" /\ Signalled
  BY <1>7 DEF Signalled
<1>8. CASE s = "tasklet_schedule" /\ Starts("task")
  BY <1>0, <1>8, HandlersAre DEF Starts, histVars
<1>9. CASE s = "schedule_work" /\ Starts("work")
  BY <1>0, <1>9, HandlersAre DEF Starts, histVars
<1>10. CASE s = "wake_thread" /\ Starts("thread")
  BY <1>0, <1>10, HandlersAre DEF Starts, histVars
<1>11. CASE s = "mod_timer" /\ Starts("timer")
  BY <1>0, <1>11, HandlersAre DEF Starts, histVars
<1> QED
  BY <1>1, <1>2, <1>3, <1>4, <1>5, <1>6, <1>7, <1>8, <1>9, <1>10, <1>11 DEF HandlerStep

(* A step of the interrupt handler, and where it goes.                      *)
LEMMA HardStepShape ==
  ASSUME Shape, HardStep
  PROVE  /\ Shape' /\ HardMove /\ InHard # "idle"
         /\ InSoft' = InSoft /\ InCall' = InCall /\ stage' = stage
         /\ HandlerStep("hard", InHard)
<1> USE DEF Shape
<1>0. stage \in Stages
  BY RunStagesAssumption DEF PlainTypes
<1>1. /\ hard # << >> /\ hard' = Tail(hard) /\ HandlerStep("hard", InHard)
      /\ UNCHANGED <<stage, gpio, level, latched, edges, stops, soft, kpc, call, todo,
                     key, snap, nonblock, fasync, inSig, ret>>
  BY DEF HardStep, InHard, NextOf, progVars, lineVars, procVars
<1>2. HardShape' /\ HardMove /\ HardPlace /\ InHard # "idle"
  BY <1>0, <1>1, HardAdvances, HardPlaces
<1>3. InSoft' = InSoft /\ InCall' = InCall
  BY <1>1, SamePlaces
<1>4. PlainTypes'
  <2>1. /\ InHard \in {"tasklet_schedule", "mod_timer"} => stage \in 7 .. 10
        /\ InHard = "schedule_work" => stage \in 8 .. 10
        /\ InHard = "wake_thread" => stage = 10
    BY <1>2 DEF HardPlace
  <2> QED
    BY <1>1, <2>1, HandlerFrame, HandlerTypes DEF PlainTypes
<1>5. SoftShape' /\ CallShape' /\ TodoShape'
  BY <1>1 DEF SoftShape, CallShape, TodoShape
<1>6. WhereShape' /\ SigioShape'
  BY <1>1, <1>3, HandlerFrame DEF WhereShape, SigioShape
<1> QED
  BY <1>1, <1>2, <1>3, <1>4, <1>5, <1>6

(* A step of the timer's handler, and where it goes.                        *)
LEMMA SoftStepShape ==
  ASSUME Shape, SoftStep
  PROVE  /\ Shape' /\ SoftMove /\ InHard = "idle" /\ InHard' = "idle"
         /\ InCall' = InCall /\ stage' = stage /\ stage \in 7 .. 10
         /\ HandlerStep("soft", InSoft)
<1> USE DEF Shape
<1>1. /\ hard = << >> /\ hard' = hard /\ soft # << >> /\ soft' = Tail(soft)
      /\ HandlerStep("soft", InSoft)
      /\ UNCHANGED <<stage, gpio, level, latched, edges, stops, kpc, call, todo,
                     key, snap, nonblock, fasync, inSig, ret>>
  BY DEF SoftStep, InSoft, NextOf, progVars, lineVars, procVars
<1>2. SoftShape' /\ SoftMove /\ stage \in 7 .. 10
  BY <1>1, SoftAdvances DEF SoftShape
<1>3. InHard = "idle" /\ InHard' = "idle" /\ InCall' = InCall
  BY <1>1, SamePlaces DEF InHard, NextOf
<1>4. PlainTypes'
  BY <1>1, <1>2, HandlerFrame, HandlerTypes DEF PlainTypes, SoftMove
<1>5. HardShape' /\ CallShape' /\ TodoShape'
  BY <1>1 DEF HardShape, CallShape, TodoShape
<1>6. WhereShape' /\ SigioShape'
  BY <1>1, <1>3, HandlerFrame DEF WhereShape, SigioShape
<1> QED
  BY <1>1, <1>2, <1>3, <1>4, <1>5, <1>6

(* What a step that moves neither handler leaves in place.                  *)
LEMMA HandlersStay ==
  ASSUME Shape, UNCHANGED <<stage, hard, soft>>
  PROVE  HardShape' /\ SoftShape' /\ InHard' = InHard /\ InSoft' = InSoft
BY SamePlaces DEF Shape, HardShape, SoftShape

(* What a step outside the process leaves in place.                         *)
LEMMA ProcessStays ==
  ASSUME Shape, UNCHANGED <<stage, kpc, call, todo, fasync, inSig, sig, reads, lastSeq>>,
         where' \in {where, "run"}
  PROVE  CallShape' /\ TodoShape' /\ WhereShape' /\ SigioShape' /\ InCall' = InCall
<1>1. InCall' = InCall
  BY SamePlaces
<1> QED
  BY <1>1 DEF Shape, CallShape, TodoShape, WhereShape, SigioShape

(* An edge changes the line and the latch.                                  *)
LEMMA EdgeShape ==
  ASSUME Shape, Edge
  PROVE  /\ Shape' /\ stage' = stage
         /\ InHard' = InHard /\ InSoft' = InSoft /\ InCall' = InCall
<1> USE DEF Edge, progVars, cpuVars, bufVars, procVars, sleepVars, histVars
<1>1. /\ CallShape' /\ TodoShape' /\ WhereShape' /\ SigioShape' /\ InCall' = InCall
      /\ HardShape' /\ SoftShape' /\ InHard' = InHard /\ InSoft' = InSoft
  BY ProcessStays, HandlersStay
<1>2. EdgesOf[stage] \in Nat
  BY RunBounds, RunStagesAssumption DEF Shape, PlainTypes
<1>3. PlainTypes'
  BY <1>2 DEF Shape, PlainTypes
<1> QED
  BY <1>1, <1>3 DEF Shape

(* An interrupt starts its handler when none runs.                          *)
LEMMA InterruptShape ==
  ASSUME Shape, Interrupt
  PROVE  /\ Shape' /\ stage' = stage /\ InHard = "idle"
         /\ InHard' = IF stage <= 6 THEN "sample" ELSE "tasklet_schedule"
         /\ InSoft' = InSoft /\ InCall' = InCall
<1> USE DEF Interrupt, progVars, bufVars, procVars, sleepVars, histVars
<1>1. CallShape' /\ TodoShape' /\ WhereShape' /\ SigioShape' /\ InCall' = InCall
  BY ProcessStays
<1>2. stage \in Stages
  BY RunStagesAssumption DEF Shape, PlainTypes
<1>3. /\ HardShape'
      /\ InHard' = IF stage <= 6 THEN "sample" ELSE "tasklet_schedule"
  BY <1>2, HardStarts
<1>4. SoftShape' /\ InSoft' = InSoft
  BY SamePlaces DEF Shape, SoftShape
<1>5. PlainTypes' /\ InHard = "idle"
  BY DEF Shape, PlainTypes, InHard, NextOf
<1> QED
  BY <1>1, <1>3, <1>4, <1>5 DEF Shape

(* The timer starts its handler when none runs.                             *)
LEMMA TimerShape ==
  ASSUME Shape, TimerFires
  PROVE  /\ Shape' /\ stage' = stage /\ stage \in 7 .. 10
         /\ InHard = "idle" /\ InHard' = "idle"
         /\ InSoft = "idle" /\ InSoft' = "sample" /\ InCall' = InCall
<1> USE DEF TimerFires, progVars, lineVars, bufVars, procVars, sleepVars, histVars
<1>1. CallShape' /\ TodoShape' /\ WhereShape' /\ SigioShape' /\ InCall' = InCall
  BY ProcessStays
<1>2. stage \in Stages /\ "timer" \in HandlersOf(stage)
  BY RunStagesAssumption DEF Shape, PlainTypes
<1>3. stage \in 7 .. 10
  BY <1>2, HandlersAre DEF Stages
<1>4. SoftShape' /\ InSoft' = "sample"
  BY <1>3, SoftStarts
<1>5. HardShape' /\ InHard = "idle" /\ InHard' = "idle" /\ InSoft = "idle"
  BY DEF HardShape, InHard, InSoft, NextOf
<1>6. PlainTypes'
  BY DEF Shape, PlainTypes
<1> QED
  BY <1>1, <1>3, <1>4, <1>5, <1>6 DEF Shape

(* The tasklet, the work and the thread read the level.                     *)
LEMMA DeferredShape ==
  ASSUME Shape, NEW h \in {"task", "work", "thread"}, DeferredRun(h)
  PROVE  /\ Shape' /\ stage' = stage
         /\ InHard' = InHard /\ InSoft' = InSoft /\ InCall' = InCall
<1> USE DEF DeferredRun, progVars, lineVars, bufVars, procVars, sleepVars, histVars
<1>1. /\ CallShape' /\ TodoShape' /\ WhereShape' /\ SigioShape' /\ InCall' = InCall
      /\ HardShape' /\ SoftShape' /\ InHard' = InHard /\ InSoft' = InSoft
  BY ProcessStays, HandlersStay
<1>2. PlainTypes'
  BY DEF Shape, PlainTypes
<1> QED
  BY <1>1, <1>2 DEF Shape

(* A stop moves nothing but the process out of its sleep.                   *)
LEMMA JobStopShape ==
  ASSUME Shape, JobStop
  PROVE  /\ Shape' /\ stage' = stage
         /\ InHard' = InHard /\ InSoft' = InSoft /\ InCall' = InCall
<1> USE DEF JobStop, progVars, lineVars, cpuVars, bufVars, procVars, histVars
<1>1. HardShape' /\ SoftShape' /\ InHard' = InHard /\ InSoft' = InSoft
  BY HandlersStay
<1>2. InCall' = InCall
  BY SamePlaces
<1>3. CallShape' /\ TodoShape'
  BY DEF Shape, CallShape, TodoShape
<1>4. WhereShape' /\ SigioShape'
  BY <1>2 DEF Shape, WhereShape, SigioShape
<1>5. PlainTypes'
  BY RunBounds DEF Shape, PlainTypes
<1> QED
  BY <1>1, <1>2, <1>3, <1>4, <1>5 DEF Shape

-----------------------------------------------------------------------------
(* The steps of the process.                                                *)

\* No handler runs.
NoHandler == InHard = "idle" /\ InSoft = "idle"

(* The process runs only when no handler does, and starts none.             *)
LEMMA ProcessAlone ==
  ASSUME Shape, hard = << >>, soft = << >>, UNCHANGED <<stage, hard, soft>>
  PROVE  HardShape' /\ SoftShape' /\ NoHandler /\ NoHandler'
BY HandlersStay DEF InHard, InSoft, NextOf, NoHandler

(* SIGIO, which only stage 05 asks for, starts a read.                      *)
LEMMA SigHandlerShape ==
  ASSUME Shape, SigHandler
  PROVE  /\ Shape' /\ stage' = stage /\ NoHandler /\ NoHandler'
         /\ stage = 5 /\ InCall = "idle" /\ InCall' = "wait_slot" /\ where = "run"
<1> USE DEF SigHandler, CanRun, progVars, lineVars, cpuVars, bufVars, histVars
<1>1. HardShape' /\ SoftShape' /\ NoHandler /\ NoHandler'
  BY ProcessAlone
<1>2. stage = 5 /\ fasync /\ todo = << >>
  BY DEF Shape, SigioShape
<1>3. call' = "read" /\ CallShape' /\ InCall' = "wait_slot"
  BY <1>2, CallBegins DEF Begin, Stages
<1>4. InCall = "idle" /\ where = "run" /\ WhereShape'
  BY CallPlaces DEF Shape, CallPlace, WhereShape, Waits
<1>5. TodoShape' /\ SigioShape'
  BY <1>2, <1>3 DEF Shape, TodoShape, SigioShape
<1>6. PlainTypes'
  BY DEF Shape, PlainTypes
<1> QED
  BY <1>1, <1>2, <1>3, <1>4, <1>5, <1>6 DEF Shape

\* What main does next, by stage.
MainMove ==
  \/ /\ call' = "read" /\ nonblock' = nonblock
     /\ \/ stage = 2 /\ InCall' = "wait_word"
        \/ stage \in 3 .. 4 /\ InCall' = "wait_slot"
        \/ stage \in 6 .. 10 /\ InCall' = "EAGAIN_if_empty"
  \/ stage = 4 /\ call' = "poll" /\ InCall' = "poll_wait" /\ nonblock' = nonblock
  \/ stage = 5 /\ call' = "fasync" /\ InCall' = "fasync_helper" /\ nonblock' = nonblock
  \/ call' = "user" /\ InCall' = "idle" /\ stage \in {4, 6, 7, 8, 9, 10}

(* main makes its next call.                                                *)
LEMMA MainShape ==
  ASSUME Shape, Main
  PROVE  /\ Shape' /\ stage' = stage /\ NoHandler /\ NoHandler'
         /\ InCall = "idle" /\ where = "run" /\ MainMove
<1> DEFINE left == IF todo = << >> THEN button_test[stage].loop ELSE todo
<1>1. /\ CanRun /\ call = "user" /\ ~inSig /\ left # << >> /\ todo' = Tail(left)
      /\ CASE Head(left) \in {"read", "poll", "fasync"} ->
                Begin(Head(left)) /\ UNCHANGED nonblock
           [] Head(left) = "read_if_in" ->
                /\ IF ret = "in" THEN Begin("read") ELSE UNCHANGED <<call, kpc>>
                /\ UNCHANGED nonblock
           [] Head(left) \in {"set_nonblock", "clear_nonblock"} ->
                /\ nonblock' = (Head(left) = "set_nonblock")
                /\ UNCHANGED <<call, kpc>>
      /\ UNCHANGED <<stage, gpio, level, latched, edges, hard, soft, val, pend, seen,
                     key, snap, fasync, inSig, ret, where, sig, stops, lastSeq, reads,
                     flags>>
  BY DEF Main, progVars, lineVars, cpuVars, sleepVars, histVars
<1> HIDE DEF left
<1>2. HardShape' /\ SoftShape' /\ NoHandler /\ NoHandler'
  BY <1>1, ProcessAlone DEF CanRun
<1>3. InCall = "idle" /\ where = "run" /\ WhereShape'
  BY <1>1, CallPlaces DEF Shape, CallPlace, WhereShape, Waits
<1>4. stage \in Stages
  BY RunStagesAssumption DEF Shape, PlainTypes
<1>5. UNCHANGED <<call, kpc>> => call' = "user" /\ CallShape' /\ InCall' = "idle"
  BY <1>1, <1>3, SamePlaces DEF Shape, CallShape
<1>6. \A c : Begin(c) => call' = c
  BY DEF Begin
<1>7. CASE stage = 1
  BY <1>1, <1>7, TestPrograms DEF Shape, TodoShape, Stages, left
<1>8. CASE stage \in 2 .. 3
  <2>1. Head(left) = "read" /\ Tail(left) = << >>
    <3>1. left = <<"read">>
      BY <1>4, <1>8, TestPrograms DEF Shape, TodoShape, left
    <3> QED
      BY <3>1
  <2>2. Begin("read") /\ nonblock' = nonblock /\ todo' = << >>
    BY <1>1, <2>1
  <2>3. CallShape' /\ call' = "read" /\ InCall' = IF stage = 2 THEN "wait_word" ELSE "wait_slot"
    BY <1>1, <1>4, <1>8, <2>2, CallBegins DEF Begin
  <2>4. TodoShape' /\ SigioShape' /\ MainMove /\ PlainTypes'
    BY <1>1, <1>8, <2>2, <2>3
       DEF Shape, TodoShape, SigioShape, MainMove, PlainTypes
  <2> QED
    BY <1>1, <1>2, <1>3, <2>3, <2>4 DEF Shape
<1>9. CASE stage = 4 /\ todo = << >>
  <2>1. Head(left) = "poll" /\ Tail(left) = <<"read_if_in">>
    <3>1. left = <<"poll", "read_if_in">>
      BY <1>4, <1>9, TestPrograms DEF left
    <3> QED
      BY <3>1
  <2>2. Begin("poll") /\ nonblock' = nonblock /\ todo' = <<"read_if_in">>
    BY <1>1, <2>1
  <2>3. CallShape' /\ call' = "poll" /\ InCall' = "poll_wait"
    BY <1>1, <1>4, <1>9, <2>2, CallBegins DEF Begin
  <2>4. TodoShape'
    BY <1>1, <1>9, <2>2 DEF TodoShape
  <2>5. SigioShape' /\ MainMove /\ PlainTypes'
    BY <1>1, <1>9, <2>2, <2>3 DEF Shape, SigioShape, MainMove, PlainTypes
  <2> QED
    BY <1>1, <1>2, <1>3, <2>2, <2>3, <2>4, <2>5 DEF Shape
<1>10. CASE stage = 4 /\ todo # << >>
  <2>1. Head(left) = "read_if_in" /\ Tail(left) = << >>
    <3>1. left = <<"read_if_in">>
      BY <1>10 DEF Shape, TodoShape, left
    <3> QED
      BY <3>1
  <2>2. /\ nonblock' = nonblock /\ todo' = << >>
        /\ Begin("read") \/ UNCHANGED <<call, kpc>>
    BY <1>1, <2>1
  <2>3. /\ CallShape'
        /\ \/ call' = "read" /\ InCall' = "wait_slot"
           \/ call' = "user" /\ InCall' = "idle"
    BY <1>1, <1>4, <1>5, <1>10, <2>2, CallBegins DEF Begin
  <2>4. TodoShape' /\ SigioShape' /\ MainMove /\ PlainTypes'
    BY <1>1, <1>10, <2>2, <2>3
       DEF Shape, TodoShape, SigioShape, MainMove, PlainTypes
  <2> QED
    BY <1>1, <1>2, <1>3, <2>3, <2>4 DEF Shape
<1>11. CASE stage = 5
  <2>1. todo # << >> /\ Head(left) = "fasync" /\ Tail(left) = << >>
    <3>1. left = <<"fasync">> /\ todo # << >>
      BY <1>1, <1>4, <1>11, TestPrograms DEF Shape, TodoShape, left
    <3> QED
      BY <3>1
  <2>2. Begin("fasync") /\ nonblock' = nonblock /\ todo' = << >>
    BY <1>1, <2>1
  <2>3. CallShape' /\ call' = "fasync" /\ InCall' = "fasync_helper"
    BY <1>1, <1>4, <1>11, <2>2, CallBegins DEF Begin
  <2>4. TodoShape' /\ SigioShape' /\ MainMove /\ PlainTypes'
    BY <1>1, <1>11, <2>1, <2>2, <2>3
       DEF Shape, TodoShape, SigioShape, MainMove, PlainTypes
  <2> QED
    BY <1>1, <1>2, <1>3, <2>3, <2>4 DEF Shape
<1>12. CASE stage \in 6 .. 10
  <2> DEFINE S == {"set_nonblock", "read", "clear_nonblock"}
  <2>1. left \in Seq(S)
    <3>1. <<"read">> \in Seq(S)
      OBVIOUS
    <3>2. todo \in Seq(S)
      BY <1>12 DEF Shape, TodoShape
    <3>3. button_test[stage].loop = <<"read">>
      BY <1>4, <1>12, TestPrograms
    <3> QED
      BY <3>1, <3>2, <3>3 DEF left
  <2>2. Head(left) \in S /\ todo' \in Seq(S)
    BY <1>1, <2>1, HeadTailProperties
  <2>3. \/ Begin("read") /\ nonblock' = nonblock
        \/ nonblock' \in BOOLEAN /\ UNCHANGED <<call, kpc>>
    BY <1>1, <2>2
  <2>4. /\ CallShape' /\ nonblock' \in BOOLEAN
        /\ \/ call' = "read" /\ InCall' = "EAGAIN_if_empty" /\ nonblock' = nonblock
           \/ call' = "user" /\ InCall' = "idle"
    BY <1>1, <1>4, <1>5, <1>12, <2>3, CallBegins DEF Begin, Shape, PlainTypes
  <2>5. TodoShape' /\ SigioShape' /\ MainMove /\ PlainTypes'
    BY <1>1, <1>12, <2>2, <2>4
       DEF Shape, TodoShape, SigioShape, MainMove, PlainTypes
  <2> QED
    BY <1>1, <1>2, <1>3, <2>4, <2>5 DEF Shape
<1> QED
  BY <1>4, <1>7, <1>8, <1>9, <1>10, <1>11, <1>12 DEF Stages

(* The wait of a read ends, goes on, or finds its index outside the buffer. *)
LEMMA WaitShape ==
  ASSUME Shape, Wait
  PROVE  /\ Shape' /\ stage' = stage /\ NoHandler /\ NoHandler' /\ InCall \in Waits
         /\ call = "read"
         /\ \/ /\ InCall' = CallNext(InCall) /\ where' = "run" /\ ReadCondition
               /\ flags' = flags
            \/ /\ InCall' = CallNext(InCall) /\ where' = "run" /\ ~ReadCondition
               /\ flags' = flags \cup {"intr"} /\ where = "queued"
            \/ InCall' = InCall /\ where' = "queued" /\ flags' = flags
            \/ /\ InCall' = InCall /\ where' = "asleep" /\ where = "queued"
               /\ ~ReadCondition /\ flags' = flags
            \/ /\ InCall' = InCall /\ where' = where /\ stage \in 3 .. 5
               /\ ~InBuffer(Slot(g_key_r)) /\ flags' = flags \cup {"stray"}
         /\ ~("stray" \in flags') /\ stage \in 3 .. 5 => InBuffer(Slot(g_key_r))
<1>1. /\ CanRun /\ AtWait
      /\ UNCHANGED <<stage, gpio, level, latched, edges, stops, hard, soft, val, pend,
                     seen, call, todo, nonblock, fasync, inSig, ret, sig, lastSeq, reads>>
  BY DEF Wait, progVars, lineVars, cpuVars
<1>2. HardShape' /\ SoftShape' /\ NoHandler /\ NoHandler'
  BY <1>1, ProcessAlone DEF CanRun
<1>3. /\ InCall \in Waits /\ call = "read" /\ kpc # << >>
      /\ AtStep("wait_slot") <=> InCall = "wait_slot"
      /\ InCall = "wait_slot" <=> stage \in 3 .. 5
  <2>1. InCall \in Waits /\ (AtStep("wait_slot") <=> InCall = "wait_slot") /\ kpc # << >>
    BY <1>1, AtStepIs DEF AtWait, Waits, AtStep
  <2> QED
    BY <2>1, CallPlaces DEF Shape, CallPlace, Waits
<1>4. \/ /\ kpc' = Tail(kpc) /\ where' = "run" /\ ReadCondition /\ flags' = flags
      \/ /\ kpc' = Tail(kpc) /\ where' = "run" /\ ~ReadCondition
         /\ flags' = flags \cup {"intr"} /\ where = "queued"
      \/ kpc' = kpc /\ where' = "queued" /\ flags' = flags
      \/ /\ kpc' = kpc /\ where' = "asleep" /\ where = "queued"
         /\ ~ReadCondition /\ flags' = flags
      \/ /\ kpc' = kpc /\ where' = where /\ stage \in 3 .. 5
         /\ ~InBuffer(Slot(g_key_r)) /\ flags' = flags \cup {"stray"}
  BY <1>3 DEF Wait
<1>5. ~("stray" \in flags') /\ stage \in 3 .. 5 => InBuffer(Slot(g_key_r))
  BY <1>3 DEF Wait
<1>6. kpc' = Tail(kpc) => CallShape' /\ InCall' = CallNext(InCall)
  BY <1>1, <1>3, CallAdvances DEF Shape, Waits
<1>7. kpc' = kpc => CallShape' /\ InCall' = InCall
  BY <1>1, SamePlaces DEF Shape, CallShape
<1>8. TodoShape' /\ SigioShape'
  BY <1>1 DEF Shape, TodoShape, SigioShape
<1>9. CallShape' /\ WhereShape'
  BY <1>3, <1>4, <1>6, <1>7 DEF Shape, WhereShape
<1>10. PlainTypes'
  BY <1>1, <1>4 DEF Shape, PlainTypes, Happenings
<1> QED
  BY <1>1, <1>2, <1>3, <1>4, <1>5, <1>6, <1>7, <1>8, <1>9, <1>10 DEF Shape

\* A step of keys_read between its wait and its return.
ReadMove ==
  \/ /\ InCall = "copy_word" /\ InCall' = "clear_word" /\ stage = 2
     /\ key' = slots[0] /\ UNCHANGED <<slots, g_key_r, g_key_w, snap>>
  \/ /\ InCall = "clear_word" /\ InCall' = "return4" /\ stage = 2
     /\ slots' = [slots EXCEPT ![0] = NoWord]
     /\ UNCHANGED <<key, snap, g_key_r, g_key_w>>
  \/ /\ InCall = "copy_slot" /\ InCall' = "inc_r" /\ stage \in 3 .. 5
     /\ InBuffer(Slot(g_key_r)) /\ key' = slots[Slot(g_key_r)]
     /\ UNCHANGED <<slots, g_key_r, g_key_w, snap>>
  \/ /\ InCall = "inc_r" /\ InCall' = "return4" /\ stage \in 3 .. 5
     /\ g_key_r' = Wrap(g_key_r) /\ UNCHANGED <<slots, g_key_w, key, snap>>
  \/ /\ InCall = "get_load" /\ InCall' = "get_store" /\ stage \in 6 .. 10
     /\ g_key_r # g_key_w /\ key' = slots[g_key_r] /\ snap' = g_key_r
     /\ UNCHANGED <<slots, g_key_r, g_key_w>>
  \/ /\ InCall = "get_load" /\ InCall' = "return4" /\ stage \in 6 .. 10
     /\ g_key_r = g_key_w /\ key' = MinusOne
     /\ UNCHANGED <<slots, g_key_r, g_key_w, snap>>
  \/ /\ InCall = "get_store" /\ InCall' = "return4" /\ stage \in 6 .. 10
     /\ g_key_r' = (snap + 1) % BUF_LEN /\ UNCHANGED <<slots, g_key_w, key, snap>>

(* A step of keys_read between its wait and its return.                     *)
LEMMA ReadStepShape ==
  ASSUME Shape, ReadStep
  PROVE  /\ Shape' /\ stage' = stage /\ NoHandler /\ NoHandler'
         /\ call = "read" /\ where = "run" /\ ReadMove
<1>1. /\ CanRun
      /\ UNCHANGED <<stage, gpio, level, latched, edges, stops, hard, soft, val, pend,
                     seen, call, todo, nonblock, fasync, inSig, ret, where, sig,
                     lastSeq, reads, flags>>
  BY DEF ReadStep, progVars, lineVars, cpuVars, sleepVars, histVars
<1>2. HardShape' /\ SoftShape' /\ NoHandler /\ NoHandler'
  BY <1>1, ProcessAlone DEF CanRun
<1>3. InCall # "idle" => kpc # << >>
  BY DEF InCall, NextOf
<1>4. \/ /\ InCall = "copy_word" /\ key' = slots[0]
         /\ kpc' = Tail(kpc) /\ UNCHANGED <<slots, g_key_r, g_key_w, snap>>
      \/ /\ InCall = "clear_word" /\ slots' = [slots EXCEPT ![0] = NoWord]
         /\ kpc' = Tail(kpc) /\ UNCHANGED <<key, snap, g_key_r, g_key_w>>
      \/ /\ InCall = "copy_slot" /\ InBuffer(Slot(g_key_r))
         /\ key' = slots[Slot(g_key_r)]
         /\ kpc' = Tail(kpc) /\ UNCHANGED <<slots, g_key_r, g_key_w, snap>>
      \/ /\ InCall = "inc_r" /\ g_key_r' = Wrap(g_key_r)
         /\ kpc' = Tail(kpc) /\ UNCHANGED <<slots, g_key_w, key, snap>>
      \/ /\ InCall = "get_load" /\ g_key_r # g_key_w
         /\ key' = slots[g_key_r] /\ snap' = g_key_r
         /\ kpc' = Tail(kpc) /\ UNCHANGED <<slots, g_key_r, g_key_w>>
      \/ /\ InCall = "get_load" /\ g_key_r = g_key_w
         /\ key' = MinusOne
         /\ kpc' = Tail(Tail(kpc)) /\ UNCHANGED <<slots, g_key_r, g_key_w, snap>>
      \/ /\ InCall = "get_store" /\ g_key_r' = (snap + 1) % BUF_LEN
         /\ kpc' = Tail(kpc) /\ UNCHANGED <<slots, g_key_w, key, snap>>
  BY AtStepIs DEF ReadStep, bufVars, is_key_buf_empty
<1>5. CallPlace
  BY CallPlaces DEF Shape
<1>6. stage \in Stages
  BY RunStagesAssumption DEF Shape, PlainTypes
<1>7. CallShape' /\ ReadMove /\ call = "read"
  <2>1. CASE kpc' = Tail(kpc) /\ InCall # "idle"
            /\ InCall \notin {"return4", "poll_test", "fasync_helper"}
            /\ ~(InCall = "get_load" /\ g_key_r = g_key_w)
    <3>1. CallShape' /\ InCall' = CallNext(InCall)
      BY <1>1, <1>3, <2>1, CallAdvances DEF Shape
    <3>2. call = "read"
      BY <1>4, <1>5, <2>1 DEF CallPlace
    <3>3. CASE stage = 2
      BY <1>4, <1>5, <2>1, <3>1, <3>3 DEF CallPlace, CallNext, ReadMove
    <3>4. CASE stage \in 3 .. 5
      BY <1>4, <1>5, <2>1, <3>1, <3>4 DEF CallPlace, CallNext, ReadMove
    <3>5. CASE stage \in 6 .. 10
      BY <1>4, <1>5, <2>1, <3>1, <3>5 DEF CallPlace, CallNext, ReadMove
    <3> QED
      BY <1>5, <1>6, <3>1, <3>2, <3>3, <3>4, <3>5 DEF CallPlace, Stages
  <2>2. CASE InCall = "get_load" /\ g_key_r = g_key_w
    <3>1. kpc' = Tail(Tail(kpc))
      BY <1>4, <2>2
    <3>2. CallShape' /\ InCall' = "return4"
      BY <1>1, <2>2, <3>1, EmptyLoadSkips DEF Shape
    <3> QED
      BY <1>4, <1>5, <1>6, <2>2, <3>2 DEF CallPlace, ReadMove, Stages
  <2> QED
    BY <1>4, <2>1, <2>2
<1>8. TodoShape' /\ SigioShape' /\ where = "run" /\ WhereShape'
  BY <1>1, <1>4, <1>5 DEF Shape, TodoShape, SigioShape, WhereShape, Waits, CallPlace
<1>9. PlainTypes'
  BY <1>1 DEF Shape, PlainTypes
<1> QED
  BY <1>1, <1>2, <1>7, <1>8, <1>9 DEF Shape

(* A call returns.                                                          *)
LEMMA ReturnShape ==
  ASSUME Shape, NEW r \in {"4", "EAGAIN", "in", "timeout", "0"}, Return(r),
         call # "user", call # "fasync",
         UNCHANGED <<stage, gpio, level, latched, edges, stops, hard, soft, val, pend,
                     seen, todo, nonblock, fasync>>,
         where' = "run", flags' \subseteq Happenings, reads' \in 0 .. BUF_LEN
  PROVE  Shape' /\ InCall' = "idle" /\ InHard' = InHard /\ InSoft' = InSoft
<1>1. HardShape' /\ SoftShape' /\ InHard' = InHard /\ InSoft' = InSoft
  BY HandlersStay
<1>2. CallShape' /\ InCall' = "idle" /\ WhereShape'
  BY CallEnds DEF Return, WhereShape
<1>3. TodoShape'
  BY DEF Shape, TodoShape
<1>4. stage = 5 /\ call = "read" => fasync
  BY DEF Shape, SigioShape
<1>5. stage = 5 => call = "read"
  BY CallPlaces DEF Shape, CallPlace
<1>6. SigioShape'
  BY <1>4, <1>5 DEF Shape, SigioShape, Return
<1>7. PlainTypes'
  BY DEF Shape, PlainTypes, Return
<1> QED
  BY <1>1, <1>2, <1>3, <1>6, <1>7 DEF Shape

(* A read returns 4.                                                        *)
LEMMA ReadReturnsShape ==
  ASSUME Shape, ReadReturns
  PROVE  /\ Shape' /\ stage' = stage /\ NoHandler /\ NoHandler'
         /\ InCall = "return4" /\ InCall' = "idle" /\ call = "read" /\ where' = "run"
<1>1. /\ CanRun /\ InCall = "return4" /\ Return("4")
      /\ reads' = IF reads < BUF_LEN THEN reads + 1 ELSE reads
      /\ flags' = flags \ {"promised"}
      /\ UNCHANGED <<stage, gpio, level, latched, edges, stops, hard, soft, val, pend,
                     seen, todo, nonblock, fasync, where>>
  BY AtStepIs DEF ReadReturns, progVars, lineVars, cpuVars
<1>2. call = "read" /\ where = "run"
  BY <1>1, CallPlaces DEF Shape, CallPlace, WhereShape, Waits
<1>3. reads' \in 0 .. BUF_LEN /\ flags' \subseteq Happenings
  BY <1>1, BufAssumption DEF Shape, PlainTypes
<1>4. NoHandler /\ NoHandler'
  BY <1>1, ProcessAlone DEF CanRun
<1> QED
  BY <1>1, <1>2, <1>3, <1>4, ReturnShape

(* The test for O_NONBLOCK returns EAGAIN or goes on.                       *)
LEMMA NonblockTestShape ==
  ASSUME Shape, NonblockTest
  PROVE  /\ Shape' /\ stage' = stage /\ NoHandler /\ NoHandler'
         /\ InCall = "EAGAIN_if_empty" /\ stage \in 6 .. 10 /\ where = "run"
         /\ where' = "run"
         /\ \/ InCall' = "idle"
            \/ InCall' = "wait_ring" /\ ~(g_key_r = g_key_w /\ nonblock)
<1>1. /\ CanRun /\ InCall = "EAGAIN_if_empty"
      /\ IF g_key_r = g_key_w /\ nonblock
         THEN Return("EAGAIN")
         ELSE kpc' = Tail(kpc) /\ UNCHANGED <<call, ret, inSig, sig>>
      /\ UNCHANGED <<stage, gpio, level, latched, edges, stops, hard, soft, val, pend,
                     seen, todo, nonblock, fasync, where, flags, reads, lastSeq>>
  BY AtStepIs DEF NonblockTest, is_key_buf_empty, progVars, lineVars, cpuVars, histVars
<1>2. /\ call = "read" /\ where = "run" /\ stage \in 6 .. 10 /\ kpc # << >>
      /\ flags \subseteq Happenings /\ reads \in 0 .. BUF_LEN
  BY <1>1, CallPlaces, RunStagesAssumption
     DEF Shape, CallPlace, WhereShape, Waits, PlainTypes, Stages
<1>3. NoHandler /\ NoHandler'
  BY <1>1, ProcessAlone DEF CanRun
<1>4. CASE Return("EAGAIN")
  BY <1>1, <1>2, <1>3, <1>4, ReturnShape
<1>5. CASE /\ kpc' = Tail(kpc) /\ UNCHANGED <<call, ret, inSig, sig>>
           /\ ~(g_key_r = g_key_w /\ nonblock)
  <2>1. CallShape' /\ InCall' = "wait_ring"
    BY <1>1, <1>2, <1>5, CallAdvances DEF Shape, CallNext
  <2>2. HardShape' /\ SoftShape'
    BY <1>1, HandlersStay
  <2>3. TodoShape' /\ SigioShape' /\ WhereShape'
    BY <1>1, <1>2, <1>5 DEF Shape, TodoShape, SigioShape, WhereShape
  <2>4. PlainTypes'
    BY <1>1, <1>5 DEF Shape, PlainTypes
  <2> QED
    BY <1>1, <1>2, <1>3, <1>5, <2>1, <2>2, <2>3, <2>4 DEF Shape
<1> QED
  BY <1>1, <1>4, <1>5

(* A step of poll: it queues, returns, or goes to sleep until it is woken.  *)
LEMMA PollStepShape ==
  ASSUME Shape, PollStep
  PROVE  /\ Shape' /\ stage' = stage /\ NoHandler /\ NoHandler' /\ stage = 4
         /\ call = "poll"
         /\ \/ /\ InCall = "poll_wait" /\ InCall' = "poll_test" /\ where' = "queued"
               /\ call' = "poll" /\ flags' = flags
            \/ /\ InCall = "poll_test" /\ InCall' = "idle" /\ where' = "run"
               /\ g_key_r # g_key_w /\ flags' = flags \cup {"promised"}
            \/ /\ InCall = "poll_test" /\ InCall' = "poll_wait" /\ call' = "poll"
               /\ g_key_r = g_key_w /\ where' \in {"run", "asleep"} /\ flags' = flags
<1>1. /\ CanRun
      /\ \/ /\ InCall = "poll_wait" /\ where' = "queued" /\ kpc' = Tail(kpc)
            /\ UNCHANGED <<call, ret, inSig, sig, flags>>
         \/ /\ InCall = "poll_test" /\ g_key_r # g_key_w /\ Return("in")
            /\ where' = "run" /\ flags' = flags \cup {"promised"}
         \/ /\ InCall = "poll_test" /\ g_key_r = g_key_w /\ where' \in {"run", "asleep"}
            /\ kpc' = keys_fops[stage].poll
            /\ UNCHANGED <<call, ret, inSig, sig, flags>>
      /\ UNCHANGED <<stage, gpio, level, latched, edges, stops, hard, soft, val, pend,
                     seen, todo, nonblock, fasync, reads, lastSeq>>
  BY AtStepIs DEF PollStep, is_key_buf_empty, progVars, lineVars, cpuVars
<1>2. /\ call = "poll" /\ stage = 4 /\ kpc # << >>
      /\ flags \subseteq Happenings /\ reads \in 0 .. BUF_LEN
  BY <1>1, CallPlaces DEF Shape, CallPlace, PlainTypes
<1>3. HardShape' /\ SoftShape' /\ NoHandler /\ NoHandler'
  BY <1>1, ProcessAlone DEF CanRun
<1>4. CASE InCall = "poll_wait"
  <2>1. CallShape' /\ InCall' = "poll_test"
    BY <1>1, <1>2, <1>4, CallAdvances DEF Shape, CallNext
  <2>2. TodoShape' /\ SigioShape'
    BY <1>1, <1>2, <1>4 DEF Shape, TodoShape, SigioShape
  <2>3. WhereShape' /\ PlainTypes'
    BY <1>1, <1>2, <1>4, <2>1 DEF Shape, WhereShape, PlainTypes
  <2> QED
    BY <1>1, <1>2, <1>3, <1>4, <2>1, <2>2, <2>3 DEF Shape
<1>5. CASE InCall = "poll_test" /\ g_key_r # g_key_w
  <2>1. flags' \subseteq Happenings
    BY <1>1, <1>2, <1>5 DEF Happenings
  <2> QED
    BY <1>1, <1>2, <1>3, <1>5, <2>1, ReturnShape
<1>6. CASE InCall = "poll_test" /\ g_key_r = g_key_w
  <2>1. CallShape' /\ InCall' = "poll_wait"
    BY <1>1, <1>2, <1>6, PollRestarts
  <2>2. TodoShape' /\ SigioShape'
    BY <1>1, <1>2, <1>6 DEF Shape, TodoShape, SigioShape
  <2>3. WhereShape' /\ PlainTypes'
    BY <1>1, <1>2, <1>6, <2>1 DEF Shape, WhereShape, PlainTypes
  <2> QED
    BY <1>1, <1>2, <1>3, <1>6, <2>1, <2>2, <2>3 DEF Shape
<1> QED
  BY <1>1, <1>4, <1>5, <1>6

(* poll gives up after its five seconds.                                    *)
LEMMA PollTimeoutShape ==
  ASSUME Shape, PollTimeout
  PROVE  /\ Shape' /\ stage' = stage /\ NoHandler /\ NoHandler' /\ stage = 4
         /\ call = "poll" /\ InCall' = "idle" /\ where' = "run"
         /\ \/ flags' = flags
            \/ g_key_r # g_key_w /\ flags' = flags \cup {"promised"}
<1>1. /\ hard = << >> /\ soft = << >> /\ call = "poll" /\ where' = "run"
      /\ Return("timeout") \/ Return("in")
      /\ \/ flags' = flags
         \/ g_key_r # g_key_w /\ flags' = flags \cup {"promised"}
      /\ UNCHANGED <<stage, gpio, level, latched, edges, stops, hard, soft, val, pend,
                     seen, todo, nonblock, fasync, reads, lastSeq>>
  BY DEF PollTimeout, is_key_buf_empty, progVars, lineVars, cpuVars
<1>2. stage = 4 /\ flags' \subseteq Happenings /\ reads' \in 0 .. BUF_LEN
  BY <1>1 DEF Shape, CallShape, PlainTypes, Happenings
<1>3. NoHandler /\ NoHandler'
  BY <1>1, ProcessAlone
<1> QED
  BY <1>1, <1>2, <1>3, ReturnShape

(* Stage 05 asks for SIGIO, once.                                           *)
LEMMA FasyncStepShape ==
  ASSUME Shape, FasyncStep
  PROVE  /\ Shape' /\ stage' = stage /\ NoHandler /\ NoHandler' /\ stage = 5
         /\ ~fasync /\ InCall' = "idle" /\ where' = "run"
<1>1. /\ CanRun /\ InCall = "fasync_helper" /\ fasync' = TRUE /\ Return("0")
      /\ UNCHANGED <<stage, gpio, level, latched, edges, stops, hard, soft, val, pend,
                     seen, todo, nonblock, where, flags, reads, lastSeq>>
  BY AtStepIs DEF FasyncStep, progVars, lineVars, cpuVars
<1>2. stage = 5 /\ call = "fasync" /\ where = "run" /\ todo = << >> /\ ~fasync /\ ~inSig
  BY <1>1, CallPlaces DEF Shape, CallPlace, WhereShape, Waits, SigioShape
<1>3. HardShape' /\ SoftShape' /\ NoHandler /\ NoHandler'
  BY <1>1, ProcessAlone DEF CanRun
<1>4. CallShape' /\ InCall' = "idle"
  BY <1>1, CallEnds DEF Return
<1>5. TodoShape' /\ SigioShape' /\ WhereShape'
  BY <1>1, <1>2 DEF Shape, TodoShape, SigioShape, WhereShape, Return
<1>6. PlainTypes'
  BY <1>1, <1>2 DEF Shape, PlainTypes, Return
<1> QED
  BY <1>1, <1>2, <1>3, <1>4, <1>5, <1>6 DEF Shape

(* A step that changes nothing.                                             *)
LEMMA StutterShape ==
  ASSUME Shape, UNCHANGED vars
  PROVE  /\ Shape' /\ stage' = stage
         /\ InHard' = InHard /\ InSoft' = InSoft /\ InCall' = InCall
<1> USE DEF vars, progVars, lineVars, cpuVars, bufVars, procVars, sleepVars, histVars
<1>1. /\ CallShape' /\ TodoShape' /\ WhereShape' /\ SigioShape' /\ InCall' = InCall
      /\ HardShape' /\ SoftShape' /\ InHard' = InHard /\ InSoft' = InSoft
  BY ProcessStays, HandlersStay
<1>2. PlainTypes'
  BY DEF Shape, PlainTypes
<1> QED
  BY <1>1, <1>2 DEF Shape

(* Every step keeps the shape.                                              *)
LEMMA ShapeKept ==
  ASSUME Shape, [Next]_vars
  PROVE  Shape'
BY EdgeShape, InterruptShape, TimerShape, DeferredShape, HardStepShape, SoftStepShape,
   JobStopShape, SigHandlerShape, MainShape, WaitShape, ReadStepShape,
   ReadReturnsShape, NonblockTestShape, PollStepShape, PollTimeoutShape,
   FasyncStepShape, StutterShape
   DEF Next, Handlers, Process

(* What is left of a handler and of a system call is always a suffix of a   *)
(* program of its stage, and the process waits only where a program says.   *)
THEOREM ProgramsAreFollowed == Spec => []Shape
<1>1. Init => Shape
  BY InitShape
<1>2. Shape /\ [Next]_vars => Shape'
  BY ShapeKept
<1> QED
  BY <1>1, <1>2, PTL DEF Spec
=============================================================================
