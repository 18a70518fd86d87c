--------------------------- MODULE StageRunProofs ----------------------------
(***************************************************************************)
(* Safety of the ten key drivers with their test programs, for every       *)
(* buffer length, width of int, number of edges and of stops: types, the   *)
(* end of the counters, edges, sleeps, and what reads get out of the       *)
(* buffers.                                                                *)
(***************************************************************************)
EXTENDS StageShape

-----------------------------------------------------------------------------
(* What the parts leave to each other.                                      *)

(* The process and a stop leave the line, the handlers and the write index  *)
(* alone, and put no key.                                                   *)
LEMMA ProcessFrame ==
  ASSUME Process \/ JobStop
  PROVE  UNCHANGED <<stage, gpio, level, latched, edges, hard, soft, val, pend, seen,
                     g_key_w, puts>>
<1> USE DEF progVars, lineVars, cpuVars, bufVars, histVars, sleepVars
<1>1. CASE JobStop
  BY <1>1 DEF JobStop
<1>2. CASE SigHandler
  BY <1>2 DEF SigHandler
<1>3. CASE Main
  BY <1>3 DEF Main
<1>4. CASE Wait
  BY <1>4 DEF Wait
<1>5. CASE ReadStep
  BY <1>5 DEF ReadStep
<1>6. CASE ReadReturns
  BY <1>6 DEF ReadReturns
<1>7. CASE NonblockTest
  BY <1>7 DEF NonblockTest
<1>8. CASE PollStep
  BY <1>8 DEF PollStep
<1>9. CASE PollTimeout
  BY <1>9 DEF PollTimeout
<1>10. CASE FasyncStep
  BY <1>10 DEF FasyncStep
<1> QED
  BY <1>1, <1>2, <1>3, <1>4, <1>5, <1>6, <1>7, <1>8, <1>9, <1>10 DEF Process

(* The process and a stop move neither handler.                             *)
LEMMA ProcessKeepsHandlers ==
  ASSUME Process \/ JobStop
  PROVE  InHard' = InHard /\ InSoft' = InSoft
BY ProcessFrame, SamePlaces

-----------------------------------------------------------------------------
(* A key is put for an edge.                                                *)

One(p) == IF p THEN 1 ELSE 0

\* The steps of an interrupt handler after which a key is still put.
BeforePut == {"sample", "store_word", "store_slot", "put_ring",
              "tasklet_schedule", "schedule_work", "mod_timer"}

\* Keys that edges seen so far may still put.
Owed == One(latched) + One(InHard \in BeforePut) + One("timer" \in pend)
        + One(InSoft \in {"sample", "put_ring"})

\* Every key put, and every one still owed, has an edge of its own, but for
\* the one that the timer added at probe puts.
PutsHaveEdges ==
  /\ puts \in Nat
  /\ puts + Owed <= edges + One(stage >= 7)

(* The first key a stage from 07 on puts is nobody's; nothing is owed       *)
(* otherwise.                                                               *)
LEMMA InitBudget ==
  ASSUME Init
  PROVE  PutsHaveEdges
<1>1. /\ latched = FALSE /\ InHard = "idle" /\ InSoft = "idle" /\ puts = 0 /\ edges = 0
      /\ pend = IF stage >= 7 THEN {"timer"} ELSE {}
  BY DEF Init, InHard, InSoft, NextOf
<1> QED
  BY <1>1 DEF PutsHaveEdges, Owed, One, BeforePut

(* Which keys the steps of a handler put, and what they schedule.           *)
LEMMA HandlerPuts ==
  ASSUME NEW c \in {"hard", "soft"}, NEW s, HandlerStep(c, s)
  PROVE  /\ puts' = puts \/ puts' = puts + 1
         /\ s \notin {"store_word", "store_slot", "put_ring"} => puts' = puts
         /\ pend' = pend \/ s = "mod_timer"
              \/ ("timer" \in pend' <=> "timer" \in pend)
BY DEF HandlerStep, Sampled, StoredWord, StoredSlot, Stored, WriteAdvanced, PutInRing,
       Woken, Signalled, Starts, histVars

(* Every step keeps the account of keys and edges.                          *)
LEMMA BudgetKept ==
  ASSUME Shape, PutsHaveEdges, [Next]_vars
  PROVE  PutsHaveEdges'
<1> USE DEF PutsHaveEdges, Owed, One
<1>0. edges \in Nat /\ latched \in BOOLEAN
  BY RunBounds, RunStagesAssumption DEF Shape, PlainTypes
<1>1. CASE Edge
  BY <1>0, <1>1, EdgeShape DEF Edge, cpuVars, histVars
<1>2. CASE Interrupt
  <2>1. /\ latched /\ ~latched' /\ InHard = "idle" /\ InHard' \in BeforePut
        /\ InSoft' = InSoft /\ UNCHANGED <<puts, edges, stage, pend>>
    BY <1>2, InterruptShape DEF Interrupt, BeforePut, histVars
  <2>2. InHard \notin BeforePut
    BY <2>1 DEF BeforePut
  <2> QED
    BY <1>0, <2>1, <2>2
<1>3. CASE TimerFires
  BY <1>0, <1>3, TimerShape DEF TimerFires, lineVars, histVars, BeforePut
<1>4. CASE \E h \in {"task", "work", "thread"} : DeferredRun(h)
  <2>1. /\ InHard' = InHard /\ InSoft' = InSoft
        /\ UNCHANGED <<puts, edges, stage, latched>>
        /\ "timer" \in pend' <=> "timer" \in pend
    BY <1>4, DeferredShape DEF DeferredRun, lineVars, histVars
  <2> QED
    BY <1>0, <2>1
<1>5. CASE HardStep
  <2>1. /\ UNCHANGED <<latched, edges, stage>> /\ InSoft' = InSoft /\ HardMove
        /\ HandlerStep("hard", InHard)
    BY <1>5, HardStepShape DEF HardStep, lineVars
  <2>2. CASE InHard = "mod_timer"
    BY <1>0, <2>1, <2>2, HandlerPuts DEF HardMove, BeforePut
  <2>3. CASE InHard # "mod_timer"
    <3>1. "timer" \in pend' <=> "timer" \in pend
      BY <2>1, <2>3, HandlerPuts
    <3>2. puts' = puts \/ (puts' = puts + 1 /\ InHard \in {"store_word", "store_slot", "put_ring"})
      BY <2>1, HandlerPuts
    <3>3. InHard' \in BeforePut => InHard \in BeforePut
      BY <2>1 DEF HardMove, BeforePut
    <3>4. InHard \in {"store_word", "store_slot", "put_ring"} =>
            InHard \in BeforePut /\ InHard' \notin BeforePut
      BY <2>1 DEF HardMove, BeforePut
    <3> QED
      BY <1>0, <2>1, <3>1, <3>2, <3>3, <3>4
  <2> QED
    BY <2>2, <2>3
<1>6. CASE SoftStep
  <2>1. /\ UNCHANGED <<latched, edges, stage>> /\ InHard' = InHard /\ SoftMove
        /\ HandlerStep("soft", InSoft)
    BY <1>6, SoftStepShape DEF SoftStep, lineVars
  <2>2. "timer" \in pend' <=> "timer" \in pend
    BY <2>1, HandlerPuts DEF SoftMove
  <2>3. puts' = puts \/ (puts' = puts + 1 /\ InSoft = "put_ring")
    BY <2>1, HandlerPuts DEF SoftMove
  <2> QED
    BY <1>0, <2>1, <2>2, <2>3 DEF SoftMove
<1>7. CASE Process \/ JobStop
  BY <1>7, ProcessFrame, ProcessKeepsHandlers
<1>8. CASE UNCHANGED vars
  BY <1>8, StutterShape DEF vars, lineVars, cpuVars, histVars
<1> QED
  BY <1>1, <1>2, <1>3, <1>4, <1>5, <1>6, <1>7, <1>8 DEF Next, Handlers

(* A put finds the account with a key still owed, so the number of keys     *)
(* stays within what the words can number.                                  *)
LEMMA PutsBounded ==
  ASSUME Shape, PutsHaveEdges
  PROVE  /\ puts \in 0 .. MaxEdges + 1
         /\ InHard \in {"store_word", "store_slot", "put_ring"} \/ InSoft = "put_ring"
              => puts + 1 \in 0 .. MaxEdges + 1
<1>1. edges \in Nat /\ edges <= MaxEdges /\ MaxEdges \in Nat
  BY RunBounds, RunStagesAssumption DEF Shape, PlainTypes
<1>2. /\ One(latched) \in 0 .. 1 /\ One(InHard \in BeforePut) \in 0 .. 1
      /\ One("timer" \in pend) \in 0 .. 1 /\ One(stage >= 7) \in 0 .. 1
      /\ One(InSoft \in {"sample", "put_ring"}) \in 0 .. 1
  BY DEF One
<1>3. puts \in 0 .. MaxEdges + 1
  BY <1>1, <1>2 DEF PutsHaveEdges, Owed
<1>4. CASE InHard \in {"store_word", "store_slot", "put_ring"}
  <2>1. One(InHard \in BeforePut) = 1
    BY <1>4 DEF One, BeforePut
  <2> QED
    BY <1>1, <1>2, <2>1 DEF PutsHaveEdges, Owed
<1>5. CASE InSoft = "put_ring"
  <2>1. One(InSoft \in {"sample", "put_ring"}) = 1
    BY <1>5 DEF One
  <2> QED
    BY <1>1, <1>2, <2>1 DEF PutsHaveEdges, Owed
<1> QED
  BY <1>3, <1>4, <1>5

-----------------------------------------------------------------------------
(* Types that depend on the number of keys.                                 *)

\* The buffer, the keys, and the two indices: ints that count in stages 03 to
\* 05 and slots from stage 06 on.
BufferTypes ==
  /\ slots \in [0 .. BUF_LEN - 1 -> Word] /\ key \in Word
  /\ lastSeq \in 0 .. MaxEdges + 1 /\ snap \in 0 .. BUF_LEN - 1
  /\ g_key_r \in -Half .. Half - 1 /\ g_key_w \in -Half .. Half - 1
  /\ stage >= 6 => g_key_r \in 0 .. BUF_LEN - 1 /\ g_key_w \in 0 .. BUF_LEN - 1

\* Keys that raised no SIGIO of their own are keys put: what counts them is
\* still ahead when a key has just been put.
UnsignalledArePut ==
  /\ unsignalled \in Nat
  /\ unsignalled + One(stage = 5 /\ InHard \in {"inc_w", "wake_up", "kill_fasync"}) <= puts

(* An int goes from its largest value to its smallest.                      *)
LEMMA WrapIsInt ==
  ASSUME NEW x \in -Half .. Half - 1
  PROVE  Wrap(x) \in -Half .. Half - 1
BY HalfAssumption, BufAssumption DEF Wrap

(* The next slot of a ring.                                                 *)
LEMMA NextSlot ==
  ASSUME NEW i \in 0 .. BUF_LEN - 1
  PROVE  (i + 1) % BUF_LEN = IF i = BUF_LEN - 1 THEN 0 ELSE i + 1
<1>1. CASE i = BUF_LEN - 1
  BY <1>1, BufAssumption
<1>2. CASE i # BUF_LEN - 1
  BY <1>2, BufAssumption
<1> QED
  BY <1>1, <1>2

(* The program starts with an empty buffer.                                 *)
LEMMA InitBuffer ==
  ASSUME Init
  PROVE  BufferTypes /\ UnsignalledArePut
<1>1. NoWord \in Word
  BY RunBounds DEF NoWord, Word
<1>2. InHard = "idle" /\ unsignalled = 0 /\ puts = 0
  BY DEF Init, InHard, NextOf
<1>3. UnsignalledArePut
  BY <1>2 DEF UnsignalledArePut, One
<1> QED
  BY <1>1, <1>3, RunBounds, BufAssumption, HalfAssumption DEF Init, BufferTypes

(* A new word is a word.                                                    *)
LEMMA NewWordTyped ==
  ASSUME Shape, PutsHaveEdges, NEW c \in {"hard", "soft"},
         InHard \in {"store_word", "store_slot", "put_ring"} \/ InSoft = "put_ring"
  PROVE  NewWord(c) \in Word
BY PutsBounded DEF NewWord, Word, Shape, PlainTypes

(* The handlers keep the types of the buffer.                               *)
LEMMA HandlerBuffer ==
  ASSUME NEW c \in {"hard", "soft"}, NEW s, HandlerStep(c, s), BufferTypes,
         s \in {"store_word", "store_slot", "put_ring"} => NewWord(c) \in Word,
         s = "put_ring" => stage >= 6, s = "inc_w" => ~(stage >= 6),
         UNCHANGED <<stage, key, snap>>
  PROVE  BufferTypes'
<1> USE DEF BufferTypes
<1>1. CASE s = "sample" /\ Sampled(c)
  BY <1>1 DEF Sampled, bufVars, histVars
<1>2. CASE s = "store_word" /\ StoredWord(c)
  BY <1>2 DEF StoredWord, Stored
<1>3. CASE s = "store_slot" /\ StoredSlot(c)
  BY <1>3 DEF StoredSlot, Stored
<1>4. CASE s = "inc_w" /\ WriteAdvanced
  <2>1. g_key_w' \in -Half .. Half - 1
    BY <1>4, WrapIsInt DEF WriteAdvanced
  <2> QED
    BY <1>4, <2>1 DEF WriteAdvanced, histVars
<1>5. CASE s = "put_ring" /\ PutInRing(c)
  <2>1. g_key_w' \in 0 .. BUF_LEN - 1 /\ g_key_w' \in -Half .. Half - 1
    BY <1>5, NextSlot, BufAssumption, HalfAssumption DEF PutInRing
  <2>2. slots' \in [0 .. BUF_LEN - 1 -> Word]
    BY <1>5 DEF PutInRing
  <2> QED
    BY <1>5, <2>1, <2>2 DEF PutInRing
<1>6. CASE s = "wake_up" /\ Woken
  BY <1>6 DEF Woken, bufVars, histVars
<1>7. CASE s = "kill_fasync" /\ Signalled
  BY <1>7 DEF Signalled, bufVars
<1>8. CASE \E h : Starts(h)
  BY <1>8 DEF Starts, bufVars, histVars
<1> QED
  BY <1>1, <1>2, <1>3, <1>4, <1>5, <1>6, <1>7, <1>8 DEF HandlerStep

(* Every step keeps the types of the buffer.                                *)
LEMMA BufferKept ==
  ASSUME Shape, PutsHaveEdges, BufferTypes, [Next]_vars
  PROVE  BufferTypes'
<1> USE DEF BufferTypes
<1>1. CASE Edge \/ Interrupt \/ TimerFires \/ UNCHANGED vars
            \/ \E h \in {"task", "work", "thread"} : DeferredRun(h)
  BY <1>1 DEF Edge, Interrupt, TimerFires, DeferredRun, vars, progVars, bufVars, procVars,
     histVars
<1>2. CASE HardStep
  <2>1. /\ HandlerStep("hard", InHard) /\ HardMove
        /\ UNCHANGED <<stage, key, snap>>
    BY <1>2, HardStepShape DEF HardStep, procVars
  <2>2. /\ InHard = "put_ring" => stage >= 6
        /\ InHard = "inc_w" => ~(stage >= 6)
    BY <2>1 DEF HardMove
  <2> QED
    BY <2>1, <2>2, HandlerBuffer, NewWordTyped
<1>3. CASE SoftStep
  <2>1. /\ HandlerStep("soft", InSoft) /\ SoftMove /\ stage \in 7 .. 10
        /\ UNCHANGED <<stage, key, snap>>
    BY <1>3, SoftStepShape DEF SoftStep, procVars
  <2> QED
    BY <2>1, HandlerBuffer, NewWordTyped DEF SoftMove
<1>4. CASE ReadStep
  <2>1. ReadMove /\ stage' = stage /\ lastSeq' = lastSeq
    BY <1>4, ReadStepShape DEF ReadStep, histVars
  <2>2. NoWord \in Word /\ MinusOne \in Word
    BY RunBounds DEF NoWord, MinusOne, Word
  <2>3. CASE InCall = "inc_r"
    BY <2>1, <2>3, WrapIsInt DEF ReadMove
  <2>4. CASE InCall = "get_store"
    <3>1. g_key_r' \in 0 .. BUF_LEN - 1
      BY <2>1, <2>4, NextSlot, BufAssumption DEF ReadMove
    <3>2. g_key_r' \in -Half .. Half - 1
      BY <3>1, BufAssumption, HalfAssumption
    <3> QED
      BY <2>1, <2>4, <3>1, <3>2 DEF ReadMove
  <2>5. CASE InCall \in {"copy_word", "copy_slot"}
    BY <2>1, <2>5, BufAssumption DEF ReadMove, InBuffer
  <2>6. CASE InCall \in {"clear_word", "get_load"}
    BY <2>1, <2>2, <2>6 DEF ReadMove
  <2> QED
    BY <2>1, <2>3, <2>4, <2>5, <2>6 DEF ReadMove
<1>5. CASE ReadReturns
  <2>1. key.seq \in 0 .. MaxEdges + 1
    BY DEF Word
  <2> QED
    BY <1>5, <2>1 DEF ReadReturns, progVars, bufVars
<1>6. CASE JobStop \/ SigHandler \/ Main \/ NonblockTest
  BY <1>6 DEF JobStop, SigHandler, Main, NonblockTest, progVars, bufVars, procVars,
     sleepVars, histVars
<1>7. CASE Wait \/ PollStep \/ PollTimeout \/ FasyncStep
  BY <1>7 DEF Wait, PollStep, PollTimeout, FasyncStep, progVars, bufVars
<1> QED
  BY <1>1, <1>2, <1>3, <1>4, <1>5, <1>6, <1>7 DEF Next, Handlers, Process

(* Only a signal that finds one pending counts a key as unsignalled.        *)
LEMMA HandlerUnsignalled ==
  ASSUME NEW c \in {"hard", "soft"}, NEW s, HandlerStep(c, s)
  PROVE  \/ unsignalled' = unsignalled
         \/ unsignalled' = unsignalled + 1 /\ s = "kill_fasync" /\ fasync
BY DEF HandlerStep, Sampled, StoredWord, StoredSlot, Stored, WriteAdvanced, PutInRing,
       Woken, Signalled, Starts, histVars

(* A slot is stored with a key that counts.                                 *)
LEMMA SlotStorePuts ==
  ASSUME NEW c \in {"hard", "soft"}, HandlerStep(c, "store_slot")
  PROVE  StoredSlot(c) /\ puts' = puts + 1
BY DEF HandlerStep, StoredSlot, Stored

(* Keys that raised no SIGIO stay keys that were put.                       *)
LEMMA UnsignalledKept ==
  ASSUME Shape, PutsHaveEdges, UnsignalledArePut, [Next]_vars
  PROVE  UnsignalledArePut'
<1> USE DEF UnsignalledArePut, One, PutsHaveEdges
<1>1. CASE Edge \/ TimerFires \/ UNCHANGED vars
            \/ \E h \in {"task", "work", "thread"} : DeferredRun(h)
  BY <1>1, EdgeShape, TimerShape, DeferredShape, StutterShape
     DEF Edge, TimerFires, DeferredRun, vars, histVars
<1>2. CASE Interrupt
  BY <1>2, InterruptShape DEF Interrupt, histVars
<1>3. CASE HardStep
  <2>1. /\ HandlerStep("hard", InHard) /\ HardMove /\ stage' = stage
        /\ fasync => stage = 5
    BY <1>3, HardStepShape DEF Shape, SigioShape
  <2>2. CASE InHard = "kill_fasync"
    <3>1. InHard' = "idle" /\ puts' = puts
      BY <2>1, <2>2, HandlerPuts DEF HardMove
    <3> QED
      BY <2>1, <2>2, <3>1, HandlerUnsignalled
  <2>3. CASE InHard = "store_slot"
    <3>1. InHard' = "inc_w" /\ puts' = puts + 1 /\ unsignalled' = unsignalled
      BY <2>1, <2>3, HandlerUnsignalled, SlotStorePuts DEF HardMove
    <3> QED
      BY <2>1, <2>3, <3>1
  <2>4. CASE InHard \notin {"kill_fasync", "store_slot"}
    <3>1. puts' >= puts /\ unsignalled' = unsignalled
      BY <2>1, <2>4, HandlerUnsignalled, HandlerPuts
    <3>2. /\ InHard' \in {"inc_w", "wake_up", "kill_fasync"} /\ stage = 5
               => InHard \in {"inc_w", "wake_up", "kill_fasync"}
      BY <2>1, <2>4 DEF HardMove
    <3>3. puts' \in Nat
      BY <2>1, HandlerPuts
    <3> QED
      BY <2>1, <3>1, <3>2, <3>3
  <2> QED
    BY <2>2, <2>3, <2>4
<1>4. CASE SoftStep
  <2>1. HandlerStep("soft", InSoft) /\ stage' = stage /\ stage \in 7 .. 10 /\ ~fasync
    BY <1>4, SoftStepShape DEF Shape, SigioShape
  <2>2. puts' >= puts /\ puts' \in Nat /\ unsignalled' = unsignalled
    BY <2>1, HandlerUnsignalled, HandlerPuts
  <2> QED
    BY <2>1, <2>2
<1>5. CASE FasyncStep
  BY <1>5, FasyncStepShape DEF FasyncStep, NoHandler
<1>6. CASE JobStop \/ SigHandler \/ Main \/ Wait \/ ReadStep \/ ReadReturns
            \/ NonblockTest \/ PollStep \/ PollTimeout
  <2>1. unsignalled' = unsignalled
    BY <1>6 DEF JobStop, SigHandler, Main, Wait, ReadStep, ReadReturns, NonblockTest,
       PollStep, PollTimeout, sleepVars, histVars
  <2> QED
    BY <1>6, <2>1, ProcessFrame, ProcessKeepsHandlers DEF Process
<1> QED
  BY <1>1, <1>2, <1>3, <1>4, <1>5, <1>6 DEF Next, Handlers, Process

-----------------------------------------------------------------------------
(* Types.                                                                   *)

\* What the types rest on.
Typed == Shape /\ PutsHaveEdges /\ BufferTypes /\ UnsignalledArePut

(* The types and what they rest on hold throughout.                         *)
THEOREM StagesTyped == Spec => []Typed
<1>1. Init => Typed
  BY InitShape, InitBudget, InitBuffer DEF Typed
<1>2. Typed /\ [Next]_vars => Typed'
  <2> SUFFICES ASSUME Typed, [Next]_vars PROVE Typed'
    OBVIOUS
  <2>1. Shape'
    BY ShapeKept DEF Typed
  <2> QED
    BY <2>1, BudgetKept, BufferKept, UnsignalledKept DEF Typed
<1> QED
  BY <1>1, <1>2, PTL DEF Spec

(* The steps of a program of the stage are among its Steps.                 *)
LEMMA StepsAre ==
  /\ \A i \in DOMAIN keys_irq[stage] : keys_irq[stage][i] \in Steps
  /\ \A c \in DOMAIN keys_fops[stage] : \A i \in DOMAIN keys_fops[stage][c] :
        keys_fops[stage][c][i] \in Steps
  /\ \A i \in 1 .. 4 : \A j \in DOMAIN key_timer_expire[i] :
        key_timer_expire[i][j] \in Steps
BY DEF Steps

(* The elements of short tuples.                                            *)
LEMMA TupleElements ==
  ASSUME NEW S, NEW p, \A i \in DOMAIN p : p[i] \in S
  PROVE  /\ \A a : p = <<a>> => a \in S
         /\ \A a, b : p = <<a, b>> => {a, b} \subseteq S
         /\ \A a, b, c : p = <<a, b, c>> => {a, b, c} \subseteq S
         /\ \A a, b, c, d : p = <<a, b, c, d>> => {a, b, c, d} \subseteq S
         /\ \A a, b, c, d, e : p = <<a, b, c, d, e>> => {a, b, c, d, e} \subseteq S
<1>1. ASSUME NEW a, p = <<a>> PROVE a \in S
  <2>1. 1 \in DOMAIN p /\ p[1] = a
    BY <1>1
  <2> QED
    BY <2>1
<1>2. ASSUME NEW a, NEW b, p = <<a, b>> PROVE {a, b} \subseteq S
  <2>1. {1, 2} \subseteq DOMAIN p /\ p[1] = a /\ p[2] = b
    BY <1>2
  <2> QED
    BY <2>1
<1>3. ASSUME NEW a, NEW b, NEW c, p = <<a, b, c>> PROVE {a, b, c} \subseteq S
  <2>1. {1, 2, 3} \subseteq DOMAIN p /\ p[1] = a /\ p[2] = b /\ p[3] = c
    BY <1>3
  <2> QED
    BY <2>1
<1>4. ASSUME NEW a, NEW b, NEW c, NEW d, p = <<a, b, c, d>>
      PROVE  {a, b, c, d} \subseteq S
  <2>1. {1, 2, 3, 4} \subseteq DOMAIN p /\ p[1] = a /\ p[2] = b /\ p[3] = c /\ p[4] = d
    BY <1>4
  <2> QED
    BY <2>1
<1>5. ASSUME NEW a, NEW b, NEW c, NEW d, NEW e, p = <<a, b, c, d, e>>
      PROVE  {a, b, c, d, e} \subseteq S
  <2>1. /\ {1, 2, 3, 4, 5} \subseteq DOMAIN p
        /\ p[1] = a /\ p[2] = b /\ p[3] = c /\ p[4] = d /\ p[5] = e
    BY <1>5
  <2> QED
    BY <2>1
<1> QED
  BY <1>1, <1>2, <1>3, <1>4, <1>5

(* The steps of the interrupt handler of each stage.                        *)
LEMMA IrqSteps ==
  ASSUME stage \in Stages
  PROVE  /\ stage = 1 => "sample" \in Steps
         /\ stage = 2 => {"sample", "store_word", "wake_up"} \subseteq Steps
         /\ stage \in 3 .. 5 => {"sample", "store_slot", "inc_w", "wake_up"} \subseteq Steps
         /\ stage = 5 => "kill_fasync" \in Steps
         /\ stage \in 7 .. 10 => {"tasklet_schedule", "mod_timer"} \subseteq Steps
         /\ stage \in 8 .. 10 => "schedule_work" \in Steps
         /\ stage = 10 => "wake_thread" \in Steps
         /\ {"sample", "put_ring", "wake_up", "kill_fasync"} \subseteq Steps
<1>1. {"sample", "put_ring", "wake_up", "kill_fasync"} \subseteq Steps
  <2>1. key_timer_expire[1] = <<"sample", "put_ring", "wake_up", "kill_fasync">>
    BY TimerPrograms
  <2> QED
    BY <2>1, StepsAre, TupleElements
<1>2. CASE stage = 1
  <2>1. keys_irq[stage] = <<"sample">>
    BY <1>2, IrqPrograms
  <2> QED
    BY <1>1, <1>2, <2>1, StepsAre, TupleElements
<1>3. CASE stage = 2
  <2>1. keys_irq[stage] = <<"sample", "store_word", "wake_up">>
    BY <1>3, IrqPrograms
  <2> QED
    BY <1>1, <1>3, <2>1, StepsAre, TupleElements
<1>4. CASE stage \in 3 .. 4
  <2>1. keys_irq[stage] = <<"sample", "store_slot", "inc_w", "wake_up">>
    BY <1>4, IrqPrograms
  <2> QED
    BY <1>1, <1>4, <2>1, StepsAre, TupleElements
<1>5. CASE stage = 5
  <2>1. keys_irq[stage] = <<"sample", "store_slot", "inc_w", "wake_up", "kill_fasync">>
    BY <1>5, IrqPrograms
  <2> QED
    BY <1>1, <1>5, <2>1, StepsAre, TupleElements
<1>6. CASE stage = 6
  BY <1>1, <1>6
<1>7. CASE stage = 7
  <2>1. keys_irq[stage] = <<"tasklet_schedule", "mod_timer">>
    BY <1>7, IrqPrograms
  <2> QED
    BY <1>1, <1>7, <2>1, StepsAre, TupleElements
<1>8. CASE stage \in 8 .. 9
  <2>1. keys_irq[stage] = <<"tasklet_schedule", "schedule_work", "mod_timer">>
    BY <1>8, IrqPrograms
  <2> QED
    BY <1>1, <1>8, <2>1, StepsAre, TupleElements
<1>9. CASE stage = 10
  <2>1. keys_irq[stage]
          = <<"tasklet_schedule", "schedule_work", "mod_timer", "wake_thread">>
    BY <1>9, IrqPrograms
  <2> QED
    BY <1>1, <1>9, <2>1, StepsAre, TupleElements
<1> QED
  BY <1>2, <1>3, <1>4, <1>5, <1>6, <1>7, <1>8, <1>9 DEF Stages

(* The steps of the system calls of each stage.                             *)
LEMMA CallSteps ==
  ASSUME stage \in Stages
  PROVE  /\ stage = 2 => {"wait_word", "copy_word", "clear_word", "return4"} \subseteq Steps
         /\ stage \in 3 .. 5 =>
              {"wait_slot", "copy_slot", "inc_r", "return4"} \subseteq Steps
         /\ stage = 4 => {"poll_wait", "poll_test"} \subseteq Steps
         /\ stage = 5 => "fasync_helper" \in Steps
         /\ stage \in 6 .. 10 =>
              {"EAGAIN_if_empty", "wait_ring", "get_load", "get_store", "return4"}
                \subseteq Steps
<1>1. CASE stage = 2
  <2>1. /\ "read" \in DOMAIN keys_fops[stage]
        /\ keys_fops[stage]["read"] = <<"wait_word", "copy_word", "clear_word", "return4">>
    BY <1>1 DEF keys_fops, keys_fops02, keys_read02
  <2> QED
    BY <1>1, <2>1, StepsAre, TupleElements
<1>2. CASE stage \in 3 .. 5
  <2>1. /\ "read" \in DOMAIN keys_fops[stage]
        /\ keys_fops[stage]["read"] = <<"wait_slot", "copy_slot", "inc_r", "return4">>
    BY <1>2 DEF keys_fops, keys_fops03, keys_fops04, keys_fops05, keys_read03,
       keys_read04, keys_read05
  <2>2. stage = 4 =>
          /\ "poll" \in DOMAIN keys_fops[stage]
          /\ keys_fops[stage]["poll"] = <<"poll_wait", "poll_test">>
    BY DEF keys_fops, keys_fops04, keys_poll04
  <2>3. stage = 5 =>
          /\ "fasync" \in DOMAIN keys_fops[stage]
          /\ keys_fops[stage]["fasync"] = <<"fasync_helper">>
    BY DEF keys_fops, keys_fops05, keys_fasync05
  <2>4. {"wait_slot", "copy_slot", "inc_r", "return4"} \subseteq Steps
    BY <2>1, StepsAre, TupleElements
  <2>5. stage = 4 => {"poll_wait", "poll_test"} \subseteq Steps
    BY <2>2, StepsAre, TupleElements
  <2>6. stage = 5 => "fasync_helper" \in Steps
    BY <2>3, StepsAre, TupleElements
  <2> QED
    BY <1>2, <2>4, <2>5, <2>6
<1>3. CASE stage \in 6 .. 10
  <2>1. /\ "read" \in DOMAIN keys_fops[stage]
        /\ keys_fops[stage]["read"]
             = <<"EAGAIN_if_empty", "wait_ring", "get_load", "get_store", "return4">>
    BY <1>3, RingRead DEF keys_fops, keys_fops06, keys_fops07, keys_fops08, keys_fops09,
       keys_fops10
  <2> QED
    BY <1>3, <2>1, StepsAre, TupleElements
<1> QED
  BY <1>1, <1>2, <1>3 DEF Stages

(* Programs made of members of a set are sequences over it.                 *)
LEMMA FormsAreSeqs ==
  ASSUME NEW S
  PROVE  /\ {"sample", "store_word", "wake_up"} \subseteq S => WordForms \subseteq Seq(S)
         /\ {"sample", "store_slot", "inc_w", "wake_up"} \subseteq S
              => SlotForms \subseteq Seq(S)
         /\ {"sample", "store_slot", "inc_w", "wake_up", "kill_fasync"} \subseteq S
              => SigioForms \subseteq Seq(S)
         /\ {"sample", "put_ring", "wake_up", "kill_fasync"} \subseteq S
              => RingForms \subseteq Seq(S)
         /\ {"tasklet_schedule", "mod_timer"} \subseteq S => TaskForms \subseteq Seq(S)
         /\ {"tasklet_schedule", "schedule_work", "mod_timer"} \subseteq S
              => WorkForms \subseteq Seq(S)
         /\ {"tasklet_schedule", "schedule_work", "mod_timer", "wake_thread"} \subseteq S
              => ThreadForms \subseteq Seq(S)
<1>1. ASSUME "sample" \in S, "store_word" \in S, "wake_up" \in S
      PROVE  /\ <<"sample", "store_word", "wake_up">> \in Seq(S)
             /\ <<"store_word", "wake_up">> \in Seq(S) /\ <<"wake_up">> \in Seq(S)
  BY <1>1
<1>2. ASSUME "sample" \in S, "store_slot" \in S, "inc_w" \in S, "wake_up" \in S
      PROVE  /\ <<"sample", "store_slot", "inc_w", "wake_up">> \in Seq(S)
             /\ <<"store_slot", "inc_w", "wake_up">> \in Seq(S)
             /\ <<"inc_w", "wake_up">> \in Seq(S) /\ <<"wake_up">> \in Seq(S)
  BY <1>2
<1>3. ASSUME "sample" \in S, "store_slot" \in S, "inc_w" \in S, "wake_up" \in S,
             "kill_fasync" \in S
      PROVE  /\ <<"sample", "store_slot", "inc_w", "wake_up", "kill_fasync">> \in Seq(S)
             /\ <<"store_slot", "inc_w", "wake_up", "kill_fasync">> \in Seq(S)
             /\ <<"inc_w", "wake_up", "kill_fasync">> \in Seq(S)
             /\ <<"wake_up", "kill_fasync">> \in Seq(S) /\ <<"kill_fasync">> \in Seq(S)
  BY <1>3
<1>4. ASSUME "sample" \in S, "put_ring" \in S, "wake_up" \in S, "kill_fasync" \in S
      PROVE  /\ <<"sample", "put_ring", "wake_up", "kill_fasync">> \in Seq(S)
             /\ <<"put_ring", "wake_up", "kill_fasync">> \in Seq(S)
             /\ <<"wake_up", "kill_fasync">> \in Seq(S) /\ <<"kill_fasync">> \in Seq(S)
  BY <1>4
<1>5. ASSUME "tasklet_schedule" \in S, "mod_timer" \in S
      PROVE  <<"tasklet_schedule", "mod_timer">> \in Seq(S) /\ <<"mod_timer">> \in Seq(S)
  BY <1>5
<1>6. ASSUME "tasklet_schedule" \in S, "schedule_work" \in S, "mod_timer" \in S
      PROVE  /\ <<"tasklet_schedule", "schedule_work", "mod_timer">> \in Seq(S)
             /\ <<"schedule_work", "mod_timer">> \in Seq(S) /\ <<"mod_timer">> \in Seq(S)
  BY <1>6
<1>7. ASSUME "tasklet_schedule" \in S, "schedule_work" \in S, "mod_timer" \in S,
             "wake_thread" \in S
      PROVE  /\ <<"tasklet_schedule", "schedule_work", "mod_timer", "wake_thread">> \in Seq(S)
             /\ <<"schedule_work", "mod_timer", "wake_thread">> \in Seq(S)
             /\ <<"mod_timer", "wake_thread">> \in Seq(S) /\ <<"wake_thread">> \in Seq(S)
  BY <1>7
<1>8. {"sample", "store_word", "wake_up"} \subseteq S => WordForms \subseteq Seq(S)
  BY <1>1 DEF WordForms
<1>9. {"sample", "store_slot", "inc_w", "wake_up"} \subseteq S => SlotForms \subseteq Seq(S)
  BY <1>2 DEF SlotForms
<1>10. {"sample", "store_slot", "inc_w", "wake_up", "kill_fasync"} \subseteq S
         => SigioForms \subseteq Seq(S)
  BY <1>3 DEF SigioForms
<1>11. {"sample", "put_ring", "wake_up", "kill_fasync"} \subseteq S
         => RingForms \subseteq Seq(S)
  BY <1>4 DEF RingForms
<1>12. {"tasklet_schedule", "mod_timer"} \subseteq S => TaskForms \subseteq Seq(S)
  BY <1>5 DEF TaskForms
<1>13. {"tasklet_schedule", "schedule_work", "mod_timer"} \subseteq S
         => WorkForms \subseteq Seq(S)
  BY <1>6 DEF WorkForms
<1>14. {"tasklet_schedule", "schedule_work", "mod_timer", "wake_thread"} \subseteq S
         => ThreadForms \subseteq Seq(S)
  BY <1>7 DEF ThreadForms
<1> QED
  BY <1>8, <1>9, <1>10, <1>11, <1>12, <1>13, <1>14

(* What is left of a handler is steps of the stage.                         *)
LEMMA HandlersAreSteps ==
  ASSUME Shape
  PROVE  hard \in Seq(Steps) /\ soft \in Seq(Steps)
<1>0. stage \in Stages
  BY RunStagesAssumption DEF Shape, PlainTypes
<1>1. << >> \in Seq(Steps)
  OBVIOUS
<1>2. RingForms \subseteq Seq(Steps)
  BY <1>0, IrqSteps, FormsAreSeqs
<1>3. soft \in Seq(Steps)
  BY <1>1, <1>2 DEF Shape, SoftShape
<1>4. CASE hard = << >>
  BY <1>1, <1>3, <1>4
<1>5. CASE stage = 1 /\ hard = <<"sample">>
  <2>1. ASSUME "sample" \in Steps PROVE <<"sample">> \in Seq(Steps)
    BY <2>1
  <2> QED
    BY <1>0, <1>3, <1>5, <2>1, IrqSteps
<1>6. CASE stage = 2 /\ hard \in WordForms
  BY <1>0, <1>3, <1>6, IrqSteps, FormsAreSeqs
<1>7. CASE stage \in 3 .. 4 /\ hard \in SlotForms
  BY <1>0, <1>3, <1>7, IrqSteps, FormsAreSeqs
<1>8. CASE stage = 5 /\ hard \in SigioForms
  <2>1. {"sample", "store_slot", "inc_w", "wake_up", "kill_fasync"} \subseteq Steps
    BY <1>0, <1>8, IrqSteps
  <2> QED
    BY <1>3, <1>8, <2>1, FormsAreSeqs
<1>9. CASE stage = 6 /\ hard \in RingForms
  BY <1>2, <1>3, <1>9
<1>10. CASE stage = 7 /\ hard \in TaskForms
  BY <1>0, <1>3, <1>10, IrqSteps, FormsAreSeqs
<1>11. CASE stage \in 8 .. 9 /\ hard \in WorkForms
  <2>1. {"tasklet_schedule", "schedule_work", "mod_timer"} \subseteq Steps
    BY <1>0, <1>11, IrqSteps
  <2> QED
    BY <1>3, <1>11, <2>1, FormsAreSeqs
<1>12. CASE stage = 10 /\ hard \in ThreadForms
  <2>1. {"tasklet_schedule", "schedule_work", "mod_timer", "wake_thread"} \subseteq Steps
    BY <1>0, <1>12, IrqSteps
  <2> QED
    BY <1>3, <1>12, <2>1, FormsAreSeqs
<1> QED
  BY <1>4, <1>5, <1>6, <1>7, <1>8, <1>9, <1>10, <1>11, <1>12 DEF Shape, HardShape

(* What is left of a system call is steps of the stage.                     *)
LEMMA CallIsSteps ==
  ASSUME Shape
  PROVE  kpc \in Seq(Steps)
<1>0. stage \in Stages
  BY RunStagesAssumption DEF Shape, PlainTypes
<1>1. << >> \in Seq(Steps)
  OBVIOUS
<1>2. CASE call = "read" /\ stage = 2
  <2>1. ASSUME "wait_word" \in Steps, "copy_word" \in Steps, "clear_word" \in Steps,
               "return4" \in Steps
        PROVE  /\ <<"wait_word", "copy_word", "clear_word", "return4">> \in Seq(Steps)
               /\ <<"copy_word", "clear_word", "return4">> \in Seq(Steps)
               /\ <<"clear_word", "return4">> \in Seq(Steps)
               /\ <<"return4">> \in Seq(Steps)
    BY <2>1
  <2>2. {"wait_word", "copy_word", "clear_word", "return4"} \subseteq Steps
    BY <1>0, <1>2, CallSteps
  <2>3. kpc \in {<<"wait_word", "copy_word", "clear_word", "return4">>,
                 <<"copy_word", "clear_word", "return4">>,
                 <<"clear_word", "return4">>, <<"return4">>}
    BY <1>2 DEF Shape, CallShape
  <2> QED
    BY <2>1, <2>2, <2>3
<1>3. CASE call = "read" /\ stage \in 3 .. 5
  <2>1. ASSUME "wait_slot" \in Steps, "copy_slot" \in Steps, "inc_r" \in Steps,
               "return4" \in Steps
        PROVE  /\ <<"wait_slot", "copy_slot", "inc_r", "return4">> \in Seq(Steps)
               /\ <<"copy_slot", "inc_r", "return4">> \in Seq(Steps)
               /\ <<"inc_r", "return4">> \in Seq(Steps) /\ <<"return4">> \in Seq(Steps)
    BY <2>1
  <2>2. {"wait_slot", "copy_slot", "inc_r", "return4"} \subseteq Steps
    BY <1>0, <1>3, CallSteps
  <2>3. kpc \in {<<"wait_slot", "copy_slot", "inc_r", "return4">>,
                 <<"copy_slot", "inc_r", "return4">>,
                 <<"inc_r", "return4">>, <<"return4">>}
    BY <1>3 DEF Shape, CallShape
  <2> QED
    BY <2>1, <2>2, <2>3
<1>4. CASE call = "read" /\ stage \in 6 .. 10
  <2>1. ASSUME "EAGAIN_if_empty" \in Steps, "wait_ring" \in Steps, "get_load" \in Steps,
               "get_store" \in Steps, "return4" \in Steps
        PROVE  /\ <<"EAGAIN_if_empty", "wait_ring", "get_load", "get_store", "return4">>
                     \in Seq(Steps)
               /\ <<"wait_ring", "get_load", "get_store", "return4">> \in Seq(Steps)
               /\ <<"get_load", "get_store", "return4">> \in Seq(Steps)
               /\ <<"get_store", "return4">> \in Seq(Steps) /\ <<"return4">> \in Seq(Steps)
    BY <2>1
  <2>2. {"EAGAIN_if_empty", "wait_ring", "get_load", "get_store", "return4"} \subseteq Steps
    BY <1>0, <1>4, CallSteps
  <2>3. kpc \in {<<"EAGAIN_if_empty", "wait_ring", "get_load", "get_store", "return4">>,
                 <<"wait_ring", "get_load", "get_store", "return4">>,
                 <<"get_load", "get_store", "return4">>,
                 <<"get_store", "return4">>, <<"return4">>}
    BY <1>4 DEF Shape, CallShape
  <2> QED
    BY <2>1, <2>2, <2>3
<1>5. CASE call = "poll" /\ stage = 4
  <2>1. ASSUME "poll_wait" \in Steps, "poll_test" \in Steps
        PROVE  <<"poll_wait", "poll_test">> \in Seq(Steps) /\ <<"poll_test">> \in Seq(Steps)
    BY <2>1
  <2>2. {"poll_wait", "poll_test"} \subseteq Steps
    BY <1>0, <1>5, CallSteps
  <2> QED
    BY <1>5, <2>1, <2>2 DEF Shape, CallShape
<1>6. CASE call = "fasync" /\ stage = 5
  <2>1. ASSUME "fasync_helper" \in Steps PROVE <<"fasync_helper">> \in Seq(Steps)
    BY <2>1
  <2> QED
    BY <1>0, <1>6, <2>1, CallSteps DEF Shape, CallShape
<1>7. CASE call = "user" /\ kpc = << >>
  BY <1>1, <1>7
<1> QED
  BY <1>0, <1>2, <1>3, <1>4, <1>5, <1>6, <1>7 DEF Shape, CallShape, Stages

(* Every variable of every stage keeps its type.                            *)
THEOREM StageTypeCorrect == Spec => []TypeOK
<1>1. Typed => TypeOK
  <2> SUFFICES ASSUME Typed PROVE TypeOK
    OBVIOUS
  <2> USE DEF Typed
  <2>1. hard \in Seq(Steps) /\ soft \in Seq(Steps) /\ kpc \in Seq(Steps)
    BY HandlersAreSteps, CallIsSteps
  <2>2. edges \in 0 .. MaxEdges /\ stops \in 0 .. MaxStops
    BY RunBounds, RunStagesAssumption DEF Shape, PlainTypes
  <2>3. call \in {"user", "read", "poll", "fasync"}
    BY DEF Shape, CallShape
  <2>4. where \in {"run", "queued", "asleep"}
    BY DEF Shape, WhereShape
  <2>5. {puts, lastSeq, unsignalled} \subseteq 0 .. MaxEdges + 1
    BY PutsBounded, RunBounds DEF BufferTypes, UnsignalledArePut, One
  <2>6. /\ slots \in [0 .. BUF_LEN - 1 -> Word] /\ key \in Word
        /\ {g_key_r, g_key_w} \subseteq -Half .. Half - 1
        /\ snap \in 0 .. BUF_LEN - 1
    BY DEF BufferTypes
  <2> QED
    BY <2>1, <2>2, <2>3, <2>4, <2>5, <2>6 DEF TypeOK, Shape, PlainTypes
<1> QED
  BY <1>1, StagesTyped, PTL

-----------------------------------------------------------------------------
(* The end of the counters.                                                 *)

(* The remainder of a counter that has not wrapped is a slot.               *)
LEMMA SlotInBuffer ==
  ASSUME NEW x \in Nat
  PROVE  InBuffer(Slot(x)) /\ Slot(x) = x % BUF_LEN
BY BufAssumption DEF InBuffer, Slot, CRem

(* A word is stored outside the buffer only through a counter that wrapped. *)
LEMMA StoreStrays ==
  ASSUME NEW c \in {"hard", "soft"}, NEW s, HandlerStep(c, s), ~Halted, Halted',
         g_key_w \in Int
  PROVE  g_key_w < 0 /\ g_key_w' = g_key_w /\ s = "store_slot"
<1>1. CASE s = "store_slot" /\ StoredSlot(c)
  <2>1. ~InBuffer(Slot(g_key_w)) /\ g_key_w' = g_key_w
    BY <1>1 DEF StoredSlot, Stored, Halted
  <2> QED
    BY <1>1, <2>1, SlotInBuffer
<1>2. CASE s = "store_word" /\ StoredWord(c)
  BY <1>2, BufAssumption DEF StoredWord, Stored, Halted, InBuffer
<1>3. CASE s = "put_ring" /\ PutInRing(c)
  BY <1>3 DEF PutInRing, Halted
<1>4. CASE s \notin {"store_slot", "store_word", "put_ring"}
  BY <1>4 DEF HandlerStep, Sampled, WriteAdvanced, Woken, Signalled, Starts, Halted,
     histVars
<1> QED
  BY <1>1, <1>2, <1>3, <1>4 DEF HandlerStep

(* An index that leaves the buffer has wrapped, and nothing moves after.    *)
LEMMA StrayKept ==
  ASSUME Shape, BufferTypes, StrayNeedsOverflow, [Next]_vars
  PROVE  StrayNeedsOverflow'
<1> USE DEF StrayNeedsOverflow
<1>0. g_key_w \in Int /\ g_key_r \in Int
  BY HalfAssumption DEF BufferTypes
<1>1. CASE UNCHANGED vars
  BY <1>1 DEF vars, bufVars, histVars, Halted
<1>2. CASE Next
  <2>1. ~Halted
    BY <1>2 DEF Next, Edge, JobStop, Handlers, Interrupt, HardStep, TimerFires, SoftStep,
       DeferredRun, Process, SigHandler, Main, Wait, ReadStep, ReadReturns, NonblockTest,
       PollStep, PollTimeout, FasyncStep, CanRun
  <2>2. CASE Edge \/ Interrupt \/ TimerFires
            \/ \E h \in {"task", "work", "thread"} : DeferredRun(h)
    BY <2>1, <2>2 DEF Edge, Interrupt, TimerFires, DeferredRun, histVars, Halted
  <2>3. CASE HardStep
    BY <1>0, <2>1, <2>3, HardStepShape, StoreStrays
  <2>4. CASE SoftStep
    BY <1>0, <2>1, <2>4, SoftStepShape, StoreStrays
  <2>5. CASE Wait
    <3>1. Halted' => stage \in 3 .. 5 /\ ~InBuffer(Slot(g_key_r))
      BY <2>1, <2>5, WaitShape DEF Halted
    <3>2. g_key_r' = g_key_r
      BY <2>5 DEF Wait, bufVars
    <3> QED
      BY <1>0, <3>1, <3>2, SlotInBuffer
  <2>6. CASE Process /\ ~Wait
    <3>1. CASE SigHandler \/ Main \/ ReadStep \/ NonblockTest \/ FasyncStep
      BY <2>1, <3>1 DEF SigHandler, Main, ReadStep, NonblockTest, FasyncStep, Halted,
         histVars
    <3>2. CASE PollStep \/ PollTimeout \/ ReadReturns
      <4>1. flags' \subseteq flags \cup {"promised"}
        BY <3>2, PollStepShape, PollTimeoutShape DEF ReadReturns
      <4> QED
        BY <2>1, <4>1 DEF Halted
    <3> QED
      BY <2>6, <3>1, <3>2 DEF Process
  <2>7. CASE JobStop
    BY <2>1, <2>7 DEF JobStop, Halted, histVars
  <2> QED
    BY <1>2, <2>2, <2>3, <2>4, <2>5, <2>6, <2>7 DEF Next, Handlers
<1> QED
  BY <1>1, <1>2

(* An index leaves the buffer only after a counter has passed the largest   *)
(* int, whatever that is.                                                   *)
THEOREM StrayOnlyByOverflow == Spec => []StrayNeedsOverflow
<1>1. Init => StrayNeedsOverflow
  BY DEF Init, StrayNeedsOverflow, Halted
<1>2. Typed /\ StrayNeedsOverflow /\ [Next]_vars => StrayNeedsOverflow'
  BY StrayKept DEF Typed
<1> QED
  BY <1>1, <1>2, StagesTyped, PTL DEF Spec

-----------------------------------------------------------------------------
(* No edge is forgotten.                                                    *)

\* The steps of an interrupt handler after which handler h still reads.
ReadsAfter(h) ==
  CASE h = "irq" -> {"sample"}
    [] h = "task" -> {"tasklet_schedule"}
    [] h = "work" -> {"tasklet_schedule", "schedule_work"}
    [] h = "timer" -> {"tasklet_schedule", "schedule_work", "mod_timer"}
    [] h = "thread" -> {"tasklet_schedule", "schedule_work", "mod_timer", "wake_thread"}

\* A handler that has not read the level the key has now is going to.
EdgeOwed ==
  \A h \in HandlersOf(stage) : seen[h] # level =>
    \/ latched \/ h \in pend
    \/ InHard \in ReadsAfter(h)
    \/ h = "timer" /\ InSoft = "sample"

(* What a step of a handler does to the handlers and what they have read.   *)
LEMMA HandlerReads ==
  ASSUME NEW c \in {"hard", "soft"}, NEW s, HandlerStep(c, s)
  PROVE  /\ s = "sample" =>
              /\ seen' = [seen EXCEPT ![IF c = "hard" THEN "irq" ELSE "timer"] = level]
              /\ pend' = pend
         /\ s # "sample" => seen' = seen /\ pend \subseteq pend'
         /\ s = "tasklet_schedule" => "task" \in pend'
         /\ s = "schedule_work" => "work" \in pend'
         /\ s = "mod_timer" => "timer" \in pend'
         /\ s = "wake_thread" => "thread" \in pend'
BY DEF HandlerStep, Sampled, StoredWord, StoredSlot, Stored, WriteAdvanced, PutInRing,
       Woken, Signalled, Starts

(* A step of the interrupt handler that a handler waits for either makes it *)
(* pending or is followed by one it still waits for.                        *)
LEMMA ReadsMove ==
  ASSUME HardMove, NEW h \in HandlersOf(stage), stage \in Stages, InHard \in ReadsAfter(h),
         InHard # "sample"
  PROVE  \/ InHard' \in ReadsAfter(h)
         \/ h = "task" /\ InHard = "tasklet_schedule"
         \/ h = "work" /\ InHard = "schedule_work"
         \/ h = "timer" /\ InHard = "mod_timer"
         \/ h = "thread" /\ InHard = "wake_thread"
<1>1. CASE stage <= 6
  BY <1>1, HandlersAre DEF ReadsAfter
<1>2. CASE stage = 7
  BY <1>2, HandlersAre DEF ReadsAfter, HardMove
<1>3. CASE stage \in 8 .. 9
  BY <1>3, HandlersAre DEF ReadsAfter, HardMove
<1>4. CASE stage = 10
  BY <1>4, HandlersAre DEF ReadsAfter, HardMove
<1> QED
  BY <1>1, <1>2, <1>3, <1>4 DEF Stages

(* An interrupt is one that every handler of the stage waits for.           *)
LEMMA InterruptReads ==
  ASSUME stage \in Stages, NEW h \in HandlersOf(stage),
         InHard' = IF stage <= 6 THEN "sample" ELSE "tasklet_schedule"
  PROVE  InHard' \in ReadsAfter(h)
<1>1. CASE stage <= 6
  BY <1>1, HandlersAre DEF ReadsAfter
<1>2. CASE stage = 7
  BY <1>2, HandlersAre DEF ReadsAfter
<1>3. CASE stage \in 8 .. 9
  BY <1>3, HandlersAre DEF ReadsAfter
<1>4. CASE stage = 10
  BY <1>4, HandlersAre DEF ReadsAfter
<1> QED
  BY <1>1, <1>2, <1>3, <1>4 DEF Stages

(* Every step keeps an edge owed to those that have not read it.            *)
LEMMA EdgeOwedKept ==
  ASSUME Shape, EdgeOwed, [Next]_vars
  PROVE  EdgeOwed'
<1>0. stage \in Stages /\ seen \in [HandlersOf(stage) -> 0 .. 1]
  BY RunStagesAssumption DEF Shape, PlainTypes
<1>1. CASE Edge
  BY <1>1 DEF Edge, EdgeOwed
<1>2. CASE Interrupt
  <2>1. stage' = stage /\ InHard' = IF stage <= 6 THEN "sample" ELSE "tasklet_schedule"
    BY <1>2, InterruptShape
  <2> QED
    BY <1>0, <2>1, InterruptReads DEF EdgeOwed
<1>3. CASE TimerFires
  <2>1. /\ stage' = stage /\ InHard' = InHard /\ InSoft' = "sample"
        /\ pend' = pend \ {"timer"} /\ UNCHANGED <<seen, level, latched>>
    BY <1>3, TimerShape DEF TimerFires, lineVars
  <2> QED
    BY <2>1 DEF EdgeOwed
<1>4. CASE \E d \in {"task", "work", "thread"} : DeferredRun(d)
  <2>1. PICK d \in {"task", "work", "thread"} : DeferredRun(d)
    BY <1>4
  <2>2. /\ stage' = stage /\ InHard' = InHard /\ InSoft' = InSoft
        /\ pend' = pend \ {d} /\ seen' = [seen EXCEPT ![d] = level]
        /\ UNCHANGED <<level, latched>>
    BY <2>1, DeferredShape DEF DeferredRun, lineVars
  <2>3. \A h \in HandlersOf(stage) : h # d => seen'[h] = seen[h]
    BY <1>0, <2>2
  <2>4. d \in HandlersOf(stage) => seen'[d] = level
    BY <1>0, <2>2
  <2> QED
    BY <2>2, <2>3, <2>4 DEF EdgeOwed
<1>5. CASE HardStep
  <2>1. /\ stage' = stage /\ HardMove /\ InSoft' = InSoft /\ HandlerStep("hard", InHard)
        /\ UNCHANGED <<level, latched>>
    BY <1>5, HardStepShape DEF HardStep, lineVars
  <2>2. CASE InHard = "sample"
    <3>1. stage <= 6 /\ HandlersOf(stage) = {"irq"}
      BY <1>0, <2>1, <2>2, HandlersAre DEF HardMove
    <3>2. seen'["irq"] = level
      BY <1>0, <2>1, <2>2, <3>1, HandlerReads
    <3> QED
      BY <2>1, <3>1, <3>2 DEF EdgeOwed
  <2>3. CASE InHard # "sample"
    <3>1. seen' = seen /\ pend \subseteq pend'
      BY <2>1, <2>3, HandlerReads
    <3>2. ASSUME NEW h \in HandlersOf(stage), InHard \in ReadsAfter(h)
          PROVE  InHard' \in ReadsAfter(h) \/ h \in pend'
      BY <1>0, <2>1, <2>3, <3>2, HandlerReads, ReadsMove
    <3> QED
      BY <2>1, <3>1, <3>2 DEF EdgeOwed
  <2> QED
    BY <2>2, <2>3
<1>6. CASE SoftStep
  <2>1. /\ stage' = stage /\ SoftMove /\ InHard' = InHard /\ HandlerStep("soft", InSoft)
        /\ UNCHANGED <<level, latched>>
    BY <1>6, SoftStepShape DEF SoftStep, lineVars
  <2>2. CASE InSoft = "sample"
    <3>1. seen' = [seen EXCEPT !["timer"] = level] /\ pend' = pend
      BY <2>1, <2>2, HandlerReads
    <3> QED
      BY <1>0, <2>1, <3>1 DEF EdgeOwed
  <2>3. CASE InSoft # "sample"
    <3>1. seen' = seen /\ pend \subseteq pend'
      BY <2>1, <2>3, HandlerReads
    <3> QED
      BY <2>1, <2>3, <3>1 DEF EdgeOwed
  <2> QED
    BY <2>2, <2>3
<1>7. CASE Process \/ JobStop
  BY <1>7, ProcessFrame, ProcessKeepsHandlers DEF EdgeOwed
<1>8. CASE UNCHANGED vars
  BY <1>8, StutterShape DEF vars, lineVars, cpuVars, EdgeOwed
<1> QED
  BY <1>1, <1>2, <1>3, <1>4, <1>5, <1>6, <1>7, <1>8 DEF Next, Handlers

(* Once nothing runs or is scheduled every handler has read the level.      *)
THEOREM EdgesAreRead == Spec => []NoEdgeForgotten
<1>1. Init => EdgeOwed
  BY DEF Init, EdgeOwed
<1>2. Shape /\ EdgeOwed /\ [Next]_vars => EdgeOwed'
  BY EdgeOwedKept
<1>3. Shape /\ EdgeOwed => NoEdgeForgotten
  <2> SUFFICES ASSUME Shape, EdgeOwed, Quiet, NEW h \in DOMAIN seen PROVE seen[h] = level
    BY DEF NoEdgeForgotten
  <2>1. InHard = "idle" /\ InSoft = "idle" /\ ~latched /\ pend = {}
    BY DEF Quiet, InHard, InSoft, NextOf
  <2>2. h \in HandlersOf(stage) /\ stage \in Stages
    BY RunStagesAssumption DEF Shape, PlainTypes
  <2>3. "idle" \notin ReadsAfter(h)
    <3>1. h \in {"irq", "timer", "task", "work", "thread"}
      BY <2>2, HandlersAre DEF Stages
    <3> QED
      BY <3>1 DEF ReadsAfter
  <2> QED
    BY <2>1, <2>2, <2>3 DEF EdgeOwed
<1> QED
  BY <1>1, <1>2, <1>3, ProgramsAreFollowed, PTL DEF Spec

-----------------------------------------------------------------------------
(* Who sleeps, and why.                                                     *)

\* Between a key that is there and the wake-up that says so.
WakeAhead == InHard \in {"inc_w", "wake_up"} \/ InSoft = "wake_up"

\* What a sleeping process waits for is not there, or it is about to be
\* woken; and a read that does not block waits with a key in the ring.
SleepInv ==
  /\ where = "asleep" /\ ReadCondition /\ ~Halted => WakeAhead
  /\ where = "asleep" /\ call = "poll" /\ g_key_r # g_key_w /\ ~Halted => WakeAhead
  /\ InCall = "wait_ring" /\ nonblock =>
       "overrun" \in flags \/ (g_key_r # g_key_w /\ where # "asleep")

(* The condition of a wait is about the step the process is at and the      *)
(* buffer, and nothing else.                                                *)
LEMMA ReadyIs ==
  ReadCondition <=>
    \/ InCall = "wait_word" /\ ~IsZero(slots[0])
    \/ InCall = "wait_slot" /\ ~IsZero(slots[Slot(g_key_r)])
    \/ InCall = "wait_ring" /\ g_key_r # g_key_w
BY AtStepIs DEF ReadCondition, is_key_buf_empty

(* The condition of a wait is kept with them.                               *)
LEMMA ReadySame ==
  ASSUME InCall' = InCall, UNCHANGED <<slots, g_key_r, g_key_w, gpio>>
  PROVE  ReadCondition' <=> ReadCondition
<1>1. ReadCondition' <=>
        \/ InCall' = "wait_word" /\ ~IsZero(slots[0])'
        \/ InCall' = "wait_slot" /\ ~IsZero(slots[Slot(g_key_r)])'
        \/ InCall' = "wait_ring" /\ g_key_r' # g_key_w'
  BY DEF ReadCondition, is_key_buf_empty, AtStep, InCall, NextOf
<1>2. /\ IsZero(slots[0])' <=> IsZero(slots[0])
      /\ IsZero(slots[Slot(g_key_r)])' <=> IsZero(slots[Slot(g_key_r)])
  BY DEF IsZero
<1> QED
  BY <1>1, <1>2, ReadyIs

(* What a step of a handler does to the buffer and to a sleeper.            *)
LEMMA HandlerWakes ==
  ASSUME NEW c \in {"hard", "soft"}, NEW s, HandlerStep(c, s)
  PROVE  /\ g_key_r' = g_key_r /\ flags \subseteq flags'
         /\ s = "wake_up" => where' = "run"
         /\ s \notin {"store_word", "store_slot", "put_ring", "inc_w"} =>
              UNCHANGED <<slots, g_key_w, flags>>
         /\ s = "inc_w" => UNCHANGED <<slots, flags>>
         /\ s \in {"store_word", "store_slot"} => g_key_w' = g_key_w
         /\ s = "put_ring" => \/ UNCHANGED <<slots, g_key_w, flags>>
                              \/ g_key_w' # g_key_r
                              \/ "overrun" \in flags'
<1>1. CASE s = "sample" /\ Sampled(c)
  BY <1>1 DEF Sampled, bufVars, histVars
<1>2. CASE s = "store_word" /\ StoredWord(c)
  BY <1>2 DEF StoredWord, Stored
<1>3. CASE s = "store_slot" /\ StoredSlot(c)
  BY <1>3 DEF StoredSlot, Stored
<1>4. CASE s = "inc_w" /\ WriteAdvanced
  BY <1>4 DEF WriteAdvanced, histVars
<1>5. CASE s = "put_ring" /\ PutInRing(c)
  BY <1>5 DEF PutInRing
<1>6. CASE s = "wake_up" /\ Woken
  BY <1>6 DEF Woken, bufVars, histVars
<1>7. CASE s = "kill_fasync" /\ Signalled
  BY <1>7 DEF Signalled, bufVars
<1>8. CASE \E h : Starts(h) /\ s \in {"tasklet_schedule", "schedule_work", "wake_thread",
                                      "mod_timer"}
  BY <1>8 DEF Starts, bufVars, histVars
<1> QED
  BY <1>1, <1>2, <1>3, <1>4, <1>5, <1>6, <1>7, <1>8 DEF HandlerStep

(* A step of a handler leaves no sleeper over a key without a wake-up.      *)
LEMMA HandlerSleep ==
  ASSUME NEW c \in {"hard", "soft"}, NEW s, HandlerStep(c, s), Shape, SleepInv,
         UNCHANGED <<gpio, call, nonblock>>, InCall' = InCall,
         s \in {"store_word", "store_slot", "put_ring", "inc_w"} => WakeAhead',
         s # "wake_up" /\ WakeAhead => WakeAhead',
         nonblock => s \notin {"store_slot", "inc_w", "store_word"}
  PROVE  SleepInv'
<1>1. g_key_r' = g_key_r /\ where' \in {where, "run"} /\ flags \subseteq flags'
  BY HandlerWakes, HandlerFrame
<1>2. CASE s \in {"store_word", "store_slot", "put_ring", "inc_w"}
  <2>1. /\ where' = "asleep" /\ ReadCondition' /\ ~Halted' => WakeAhead'
        /\ where' = "asleep" /\ call' = "poll" /\ g_key_r' # g_key_w' /\ ~Halted'
             => WakeAhead'
    BY <1>2
  <2>2. ASSUME InCall' = "wait_ring", nonblock'
        PROVE  "overrun" \in flags' \/ (g_key_r' # g_key_w' /\ where' # "asleep")
    <3>1. s = "put_ring" /\ ("overrun" \in flags \/ (g_key_r # g_key_w /\ where # "asleep"))
      BY <1>2, <2>2 DEF SleepInv
    <3>2. \/ UNCHANGED <<slots, g_key_w, flags>> \/ g_key_w' # g_key_r
          \/ "overrun" \in flags'
      BY <3>1, HandlerWakes
    <3> QED
      BY <1>1, <3>1, <3>2
  <2> QED
    BY <2>1, <2>2 DEF SleepInv
<1>3. CASE s \notin {"store_word", "store_slot", "put_ring", "inc_w", "wake_up"}
  <2>1. UNCHANGED <<slots, g_key_w, flags>>
    BY <1>3, HandlerWakes
  <2>2. ReadCondition' <=> ReadCondition
    BY <1>1, <2>1, ReadySame
  <2> QED
    BY <1>1, <1>3, <2>1, <2>2 DEF SleepInv, Halted
<1>4. CASE s = "wake_up"
  <2>1. where' = "run" /\ UNCHANGED <<slots, g_key_w, flags>>
    BY <1>4, HandlerWakes
  <2> QED
    BY <1>1, <2>1 DEF SleepInv
<1> QED
  BY <1>2, <1>3, <1>4

(* Every step keeps the reasons for sleeping.                               *)
LEMMA SleepKept ==
  ASSUME Shape, SleepInv, [Next]_vars
  PROVE  SleepInv'
<1> USE DEF SleepInv
<1>1. CASE Edge \/ Interrupt \/ TimerFires \/ UNCHANGED vars
            \/ \E h \in {"task", "work", "thread"} : DeferredRun(h)
  <2>1. UNCHANGED <<slots, g_key_r, g_key_w, gpio, where, call, nonblock, flags>>
    BY <1>1 DEF Edge, Interrupt, TimerFires, DeferredRun, vars, progVars, bufVars,
       procVars, sleepVars, histVars
  <2>2. InCall' = InCall
    BY <1>1, EdgeShape, InterruptShape, TimerShape, DeferredShape, StutterShape
  <2>3. WakeAhead => WakeAhead'
    BY <1>1, EdgeShape, InterruptShape, TimerShape, DeferredShape, StutterShape
       DEF WakeAhead
  <2> QED
    BY <2>1, <2>2, <2>3, ReadySame DEF Halted
<1>2. CASE HardStep
  <2>1. /\ HandlerStep("hard", InHard) /\ HardMove /\ InCall' = InCall /\ InSoft' = InSoft
        /\ UNCHANGED <<gpio, call, nonblock>>
    BY <1>2, HardStepShape DEF HardStep, progVars, procVars
  <2>2. /\ InHard \in {"store_word", "store_slot", "put_ring", "inc_w"} => WakeAhead'
        /\ InHard # "wake_up" /\ WakeAhead => WakeAhead'
    BY <2>1 DEF HardMove, WakeAhead
  <2>3. nonblock => InHard \notin {"store_slot", "inc_w", "store_word"}
    BY <2>1 DEF HardMove, Shape, PlainTypes
  <2> QED
    BY <2>1, <2>2, <2>3, HandlerSleep
<1>3. CASE SoftStep
  <2>1. /\ HandlerStep("soft", InSoft) /\ SoftMove /\ InCall' = InCall
        /\ InHard = "idle" /\ InHard' = "idle"
        /\ UNCHANGED <<gpio, call, nonblock>>
    BY <1>3, SoftStepShape DEF SoftStep, progVars, procVars
  <2>2. /\ InSoft \in {"store_word", "store_slot", "put_ring", "inc_w"} => WakeAhead'
        /\ InSoft # "wake_up" /\ WakeAhead => WakeAhead'
        /\ InSoft \notin {"store_slot", "inc_w", "store_word"}
    BY <2>1 DEF SoftMove, WakeAhead
  <2> QED
    BY <2>1, <2>2, HandlerSleep
<1>4. CASE JobStop
  <2>1. /\ InCall' = InCall /\ where' = IF where = "asleep" THEN "run" ELSE where
        /\ UNCHANGED <<g_key_r, g_key_w, nonblock, flags>>
    BY <1>4, JobStopShape DEF JobStop, bufVars, procVars, histVars
  <2>2. where' # "asleep"
    BY <2>1
  <2> QED
    BY <2>1, <2>2
<1>5. CASE SigHandler
  BY <1>5, SigHandlerShape DEF SigHandler, sleepVars
<1>6. CASE Main
  BY <1>6, MainShape DEF Main, sleepVars, MainMove
<1>7. CASE Wait
  <2>1. UNCHANGED <<slots, g_key_r, g_key_w, gpio, call, nonblock>>
    BY <1>7 DEF Wait, progVars, bufVars
  <2>2. CASE InCall' = CallNext(InCall) /\ where' = "run"
    <3>1. InCall' # "wait_ring"
      BY <1>7, <2>2, WaitShape DEF CallNext, Waits
    <3> QED
      BY <2>2, <3>1
  <2>3. CASE InCall' = InCall /\ where' = "queued" /\ flags' = flags
    BY <2>1, <2>3
  <2>4. CASE /\ InCall' = InCall /\ where' = "asleep" /\ ~ReadCondition
             /\ flags' = flags
    <3>1. ~ReadCondition'
      BY <2>1, <2>4, ReadySame
    <3>2. call = "read"
      BY <1>7, WaitShape
    <3>3. InCall = "wait_ring" => g_key_r = g_key_w
      BY <2>4, ReadyIs
    <3> QED
      BY <2>1, <2>4, <3>1, <3>2, <3>3
  <2>5. CASE /\ InCall' = InCall /\ where' = where /\ flags' = flags \cup {"stray"}
    BY <2>1, <2>5 DEF Halted
  <2> QED
    BY <1>7, <2>2, <2>3, <2>4, <2>5, WaitShape
<1>8. CASE ReadStep
  <2>1. ReadMove /\ where' = "run"
    BY <1>8, ReadStepShape DEF ReadStep, sleepVars
  <2>2. InCall' # "wait_ring"
    BY <2>1 DEF ReadMove
  <2> QED
    BY <2>1, <2>2
<1>9. CASE ReadReturns
  BY <1>9, ReadReturnsShape
<1>10. CASE NonblockTest
  <2>1. UNCHANGED <<g_key_r, g_key_w, nonblock>>
    BY <1>10 DEF NonblockTest, bufVars
  <2> QED
    BY <1>10, <2>1, NonblockTestShape
<1>11. CASE PollStep
  <2>1. UNCHANGED <<g_key_r, g_key_w>>
    BY <1>11 DEF PollStep, bufVars
  <2>2. InCall' \notin {"wait_word", "wait_slot", "wait_ring"}
    BY <1>11, PollStepShape
  <2>3. ~ReadCondition'
    BY <2>2 DEF ReadCondition, AtStep, InCall, NextOf
  <2> QED
    BY <1>11, <2>1, <2>2, <2>3, PollStepShape
<1>12. CASE PollTimeout
  BY <1>12, PollTimeoutShape
<1>13. CASE FasyncStep
  BY <1>13, FasyncStepShape
<1> QED
  BY <1>1, <1>2, <1>3, <1>4, <1>5, <1>6, <1>7, <1>8, <1>9, <1>10, <1>11, <1>12, <1>13
     DEF Next, Handlers, Process

(* No process sleeps over a key that it waits for.                          *)
THEOREM SleepersAreWoken == Spec => []SleepIsJustified
<1>1. Init => SleepInv
  BY DEF Init, SleepInv, InCall, NextOf
<1>2. Shape /\ SleepInv /\ [Next]_vars => SleepInv'
  BY SleepKept
<1>3. Shape /\ SleepInv => SleepIsJustified
  <2> SUFFICES ASSUME Shape, SleepInv, where = "asleep", ~Halted
               PROVE  /\ Quiet /\ call = "read" => ~ReadCondition
                      /\ Quiet /\ call = "poll" => is_key_buf_empty
                      /\ call = "read" /\ nonblock => "overrun" \in flags
    BY DEF SleepIsJustified
  <2>1. Quiet => ~WakeAhead
    BY DEF Quiet, WakeAhead, InHard, InSoft, NextOf
  <2>2. call = "read" /\ nonblock => InCall = "wait_ring"
    BY CallPlaces DEF Shape, PlainTypes, WhereShape, Waits, CallPlace
  <2> QED
    BY <2>1, <2>2 DEF SleepInv, is_key_buf_empty
<1> QED
  BY <1>1, <1>2, <1>3, ProgramsAreFollowed, PTL DEF Spec

-----------------------------------------------------------------------------
(* What the buffers of the ten key drivers hold and what reads get out of   *)
(* them: one word in stage 02, slots named by counters in stages 03 to 05,  *)
(* a ring from stage 06 on.                                                 *)
-----------------------------------------------------------------------------
(* Stage 02: one word.                                                      *)

\* The word is the newest key or none; a read in progress has a key that no
\* earlier one returned; and unless a key came between the copy and the
\* clearing, an empty word means that the newest key has been handed out, or
\* is about to be.
WordInv ==
  stage = 2 =>
    /\ ~Halted
    /\ slots[0].seq \in {0, puts} /\ key.seq <= puts /\ lastSeq <= puts
    /\ InCall \in {"return4", "clear_word"} => key.seq = 0 \/ key.seq > lastSeq
    /\ slots[0].seq # 0 => slots[0].seq > lastSeq
    /\ InCall = "return4" /\ slots[0].seq # 0 => slots[0].seq > key.seq
    /\ "clobbered" \notin flags =>
         /\ InCall = "clear_word" => slots[0].seq = key.seq
         /\ slots[0].seq = 0 => \/ lastSeq = puts
                                \/ InCall = "return4" /\ key.seq = puts

(* The sequence numbers are numbers.                                        *)
LEMMA SeqsAreNat ==
  ASSUME BufferTypes
  PROVE  /\ key.seq \in Nat /\ lastSeq \in Nat
         /\ \A i \in 0 .. BUF_LEN - 1 : slots[i].seq \in Nat
         /\ 0 \in 0 .. BUF_LEN - 1 /\ DOMAIN slots = 0 .. BUF_LEN - 1
         /\ NoWord.seq = 0 /\ MinusOne.seq = 0
<1>1. \A w \in Word : w.seq \in Nat
  BY RunBounds DEF Word
<1>2. key.seq \in Nat /\ \A i \in 0 .. BUF_LEN - 1 : slots[i].seq \in Nat
  BY <1>1 DEF BufferTypes
<1> QED
  BY <1>2, RunBounds, BufAssumption DEF BufferTypes, NoWord, MinusOne

(* The handler of stage 02 stores the newest key.                           *)
LEMMA WordStored ==
  ASSUME stage = 2, HardStep, Shape, BufferTypes, InHard = "store_word"
  PROVE  /\ slots'[0].seq = puts + 1 /\ puts' = puts + 1
         /\ UNCHANGED <<key, lastSeq>> /\ InCall' = InCall /\ stage' = stage
         /\ flags' = flags \cup (IF InCall = "clear_word" THEN {"clobbered"} ELSE {})
<1>1. StoredWord("hard")
  BY HardStepShape DEF HandlerStep
<1>2. InBuffer(0) /\ DOMAIN slots = 0 .. BUF_LEN - 1 /\ 0 \in DOMAIN slots
  BY SeqsAreNat DEF InBuffer
<1>3. /\ slots' = [slots EXCEPT ![0] = NewWord("hard")] /\ puts' = puts + 1
      /\ flags' = flags \cup (IF AtStep("clear_word") THEN {"clobbered"} ELSE {})
      /\ lastSeq' = lastSeq
  BY <1>1, <1>2 DEF StoredWord, Stored
<1>4. slots'[0].seq = puts + 1
  BY <1>2, <1>3 DEF NewWord
<1>5. AtStep("clear_word") <=> InCall = "clear_word"
  BY AtStepIs
<1> QED
  BY <1>3, <1>4, <1>5, HardStepShape DEF HardStep, procVars

(* Every step keeps what is said of the word.                               *)
LEMMA WordKept ==
  ASSUME Shape, PutsHaveEdges, BufferTypes, WordInv, [Next]_vars
  PROVE  WordInv'
<1> SUFFICES ASSUME stage = 2, stage' = stage
             PROVE  WordInv'
  BY EdgeShape, InterruptShape, TimerShape, DeferredShape, HardStepShape, SoftStepShape,
     JobStopShape, ProcessFrame, StutterShape DEF Next, Handlers, WordInv
<1> USE DEF WordInv
<1>0. /\ puts \in Nat /\ key.seq \in Nat /\ lastSeq \in Nat /\ slots[0].seq \in Nat
  BY SeqsAreNat DEF PutsHaveEdges
<1>1. CASE Edge \/ Interrupt \/ TimerFires \/ JobStop \/ UNCHANGED vars
            \/ \E h \in {"task", "work", "thread"} : DeferredRun(h)
  <2>1. InCall' = InCall
    BY <1>1, EdgeShape, InterruptShape, TimerShape, DeferredShape, JobStopShape,
       StutterShape
  <2>2. UNCHANGED <<slots, key, lastSeq, puts, flags>>
    BY <1>1 DEF Edge, Interrupt, TimerFires, DeferredRun, JobStop, vars, bufVars,
       procVars, histVars
  <2> QED
    BY <2>1, <2>2 DEF Halted
<1>2. CASE HardStep
  <2>1. /\ HandlerStep("hard", InHard) /\ HardMove /\ InCall' = InCall
        /\ UNCHANGED <<key, stage>>
    BY <1>2, HardStepShape DEF HardStep, procVars
  <2>2. CASE InHard = "store_word"
    <3>1. /\ slots'[0].seq = puts + 1 /\ puts' = puts + 1
          /\ UNCHANGED <<key, lastSeq>>
          /\ flags' = flags \cup (IF InCall = "clear_word" THEN {"clobbered"} ELSE {})
      BY <1>2, <2>2, WordStored
    <3>2. ~Halted'
      BY <3>1 DEF Halted
    <3> QED
      BY <1>0, <2>1, <3>1, <3>2
  <2>3. CASE InHard \in {"sample", "wake_up"}
    <3>1. UNCHANGED <<slots, flags, puts, lastSeq>>
      BY <2>1, <2>3, HandlerWakes, HandlerPuts, HandlerFrame
    <3> QED
      BY <2>1, <3>1 DEF Halted
  <2> QED
    BY <2>1, <2>2, <2>3 DEF HardMove
<1>3. CASE SoftStep
  BY <1>3, SoftStepShape
<1>4. CASE SigHandler \/ PollStep \/ PollTimeout \/ FasyncStep \/ NonblockTest
  BY <1>4, SigHandlerShape, PollStepShape, PollTimeoutShape, FasyncStepShape,
     NonblockTestShape
<1>5. CASE Main
  <2>1. UNCHANGED <<slots, key, lastSeq, puts, flags>>
    BY <1>5 DEF Main, bufVars, histVars
  <2>2. InCall = "idle" /\ InCall' \notin {"return4", "clear_word"}
    BY <1>5, MainShape DEF MainMove
  <2> QED
    BY <2>1, <2>2 DEF Halted
<1>6. CASE Wait
  <2>1. UNCHANGED <<slots, key, lastSeq, puts>>
    BY <1>6 DEF Wait, bufVars
  <2>2. /\ InCall \in Waits /\ InCall' \notin {"return4", "clear_word"}
        /\ flags' \in {flags, flags \cup {"intr"}}
    BY <1>6, WaitShape DEF Waits, CallNext
  <2> QED
    BY <2>1, <2>2 DEF Halted, Waits
<1>7. CASE ReadStep
  <2>1. ReadMove /\ UNCHANGED <<lastSeq, puts, flags>>
    BY <1>7, ReadStepShape DEF ReadStep, histVars
  <2>2. CASE InCall = "copy_word" /\ InCall' = "clear_word"
    BY <1>0, <2>1, <2>2 DEF ReadMove, Halted
  <2>3. CASE InCall = "clear_word" /\ InCall' = "return4"
    <3>1. slots' = [slots EXCEPT ![0] = NoWord] /\ key' = key
      BY <2>1, <2>3 DEF ReadMove
    <3>2. slots'[0].seq = 0
      BY <3>1, SeqsAreNat
    <3> QED
      BY <1>0, <2>1, <2>3, <3>1, <3>2 DEF Halted
  <2> QED
    BY <2>1, <2>2, <2>3 DEF ReadMove
<1>8. CASE ReadReturns
  <2>1. /\ InCall = "return4" /\ InCall' = "idle" /\ UNCHANGED <<slots, key, puts>>
        /\ lastSeq' = (IF key.seq > lastSeq THEN key.seq ELSE lastSeq)
        /\ flags' = flags \ {"promised"}
    BY <1>8, ReadReturnsShape DEF ReadReturns, bufVars
  <2> QED
    BY <1>0, <2>1 DEF Halted
<1> QED
  BY <1>1, <1>2, <1>3, <1>4, <1>5, <1>6, <1>7, <1>8 DEF Next, Handlers, Process

(* The one word of stage 02 is the newest key, or it has been read.         *)
THEOREM WordIsNewest == Spec => []WordInv
<1>1. Init => WordInv
  <2> SUFFICES ASSUME Init PROVE WordInv
    OBVIOUS
  <2>1. /\ InCall = "idle" /\ puts = 0 /\ lastSeq = 0 /\ key = NoWord
        /\ slots[0] = NoWord /\ flags = {}
    BY BufAssumption DEF Init, InCall, NextOf
  <2> QED
    BY <2>1 DEF WordInv, NoWord, Halted
<1>2. Typed /\ WordInv /\ [Next]_vars => WordInv'
  BY WordKept DEF Typed
<1> QED
  BY <1>1, <1>2, StagesTyped, PTL DEF Spec

(* When the reader of stage 02 is asleep again and nothing runs, the newest *)
(* key has been read, but for the key clobbered or with a zero word.        *)
THEOREM NewestIsRead == Spec => []NewestKeyKept
<1>1. Typed /\ WordInv /\ SleepIsJustified => NewestKeyKept
  <2> SUFFICES ASSUME Shape, BufferTypes, WordInv, SleepIsJustified,
                      stage = 2, Quiet, where = "asleep", gpio # 0
               PROVE  lastSeq = puts \/ "clobbered" \in flags
    BY DEF Typed, NewestKeyKept
  <2>1. InCall = "wait_word" /\ call = "read"
    BY CallPlaces DEF Shape, WhereShape, CallPlace, Waits
  <2>2. ~ReadCondition
    BY <2>1 DEF WordInv, SleepIsJustified
  <2>3. slots[0].seq = 0
    BY <2>1, <2>2, ReadyIs DEF IsZero
  <2> QED
    BY <2>1, <2>3 DEF WordInv
<1> QED
  BY <1>1, StagesTyped, WordIsNewest, SleepersAreWoken, PTL

-----------------------------------------------------------------------------
(* Stages 03 to 05: counters.                                               *)

\* Keys that the write counter has been moved past.
Counted == puts - One(InHard = "inc_w")

\* The write counter is the number of keys, as an int holds it.  The slot of
\* the smallest int is inside the buffer only where BUF_LEN divides Half, and
\* the slot after it never is, so two keys past the largest int are the last.
CounterInv ==
  stage \in 3 .. 5 =>
    /\ g_key_w = IF Counted < Half THEN Counted ELSE Counted - 2 * Half
    /\ Counted <= Half + 1
    /\ Counted > Half /\ ~Halted => InBuffer(Slot(-Half))
    /\ InHard = "inc_w" /\ ~Halted => InBuffer(Slot(g_key_w))

(* Remainders on the first two rounds of the buffer.                        *)
LEMMA FirstRound ==
  ASSUME NEW x \in 0 .. BUF_LEN - 1
  PROVE  x % BUF_LEN = x
BY BufAssumption

(* And on the second.                                                       *)
LEMMA SecondRound ==
  ASSUME NEW x \in BUF_LEN .. 2 * BUF_LEN - 1
  PROVE  x % BUF_LEN = x - BUF_LEN
BY BufAssumption

(* BUF_LEN does not divide a number and the one before it.                  *)
LEMMA NotTwice ==
  ASSUME NEW x \in Nat, x > 0, x % BUF_LEN = 0
  PROVE  (x - 1) % BUF_LEN # 0
BY BufAssumption

(* Where the slots of the two smallest ints are.                            *)
LEMMA SmallestSlots ==
  /\ InBuffer(Slot(-Half)) => Slot(-Half) = 0 /\ Half % BUF_LEN = 0
  /\ ~(InBuffer(Slot(-Half)) /\ InBuffer(Slot(-Half + 1)))
<1>1. Half \in Nat /\ Half > 1 /\ Half % BUF_LEN \in Nat /\ (Half - 1) % BUF_LEN \in Nat
  BY HalfAssumption, BufAssumption
<1>2. Slot(-Half) = -(Half % BUF_LEN)
  <2>1. -(-Half) = Half /\ ~(-Half >= 0)
    BY <1>1
  <2> QED
    BY <2>1 DEF Slot, CRem
<1>3. Slot(-Half + 1) = -((Half - 1) % BUF_LEN)
  <2>1. -(-Half + 1) = Half - 1 /\ ~(-Half + 1 >= 0)
    BY <1>1
  <2> QED
    BY <2>1 DEF Slot, CRem
<1>4. InBuffer(Slot(-Half)) => Half % BUF_LEN = 0
  BY <1>1, <1>2, BufAssumption DEF InBuffer
<1>5. InBuffer(Slot(-Half + 1)) => (Half - 1) % BUF_LEN = 0
  BY <1>1, <1>3, BufAssumption DEF InBuffer
<1> QED
  BY <1>1, <1>2, <1>4, <1>5, NotTwice

(* The slot that key number puts + 1 goes to.                               *)
LEMMA StoreGoesTo ==
  ASSUME CounterInv, stage \in 3 .. 5, InHard # "inc_w", puts \in Nat, ~Halted,
         InBuffer(Slot(g_key_w))
  PROVE  Slot(g_key_w) = puts % BUF_LEN
<1>1. Counted = puts
  BY DEF Counted, One
<1>2. CASE puts < Half
  BY <1>1, <1>2, SlotInBuffer DEF CounterInv
<1>3. CASE puts = Half
  <2>1. g_key_w = -Half
    BY <1>1, <1>3, HalfAssumption DEF CounterInv
  <2> QED
    BY <1>3, <2>1, SmallestSlots
<1>4. CASE puts = Half + 1
  <2>1. g_key_w = -Half + 1 /\ InBuffer(Slot(-Half))
    BY <1>1, <1>4, HalfAssumption DEF CounterInv
  <2> QED
    BY <2>1, SmallestSlots
<1> QED
  BY <1>1, <1>2, <1>3, <1>4, HalfAssumption DEF CounterInv

(* What the handler of stages 03 to 05 does to a slot.                      *)
LEMMA SlotStored ==
  ASSUME HandlerStep("hard", "store_slot"), BufferTypes
  PROVE  /\ puts' = puts + 1 /\ UNCHANGED <<g_key_w, g_key_r, lastSeq, reads, unsignalled>>
         /\ flags \subseteq flags' /\ flags' \subseteq flags \cup {"overrun", "stray"}
         /\ g_key_w - g_key_r \in {BUF_LEN, BUF_LEN - 2 * Half} =>
              flags' \cap {"overrun", "stray"} # {}
         /\ InBuffer(Slot(g_key_w)) =>
              /\ g_key_w - g_key_r \in {BUF_LEN, BUF_LEN - 2 * Half} => "overrun" \in flags'
              /\ slots'[Slot(g_key_w)].seq = puts + 1
              /\ \A i \in 0 .. BUF_LEN - 1 : i # Slot(g_key_w) => slots'[i] = slots[i]
         /\ ~InBuffer(Slot(g_key_w)) => slots' = slots /\ Halted'
         /\ ~Halted' => InBuffer(Slot(g_key_w))
<1>1. StoredSlot("hard")
  BY DEF HandlerStep
<1>2. DOMAIN slots = 0 .. BUF_LEN - 1
  BY DEF BufferTypes
<1>3. CASE InBuffer(Slot(g_key_w))
  <2>1. /\ slots' = [slots EXCEPT ![Slot(g_key_w)] = NewWord("hard")]
        /\ flags' = flags \cup (IF g_key_w - g_key_r \in {BUF_LEN, BUF_LEN - 2 * Half}
                                THEN {"overrun"} ELSE {})
        /\ puts' = puts + 1 /\ UNCHANGED <<g_key_w, g_key_r, lastSeq, reads, unsignalled>>
    BY <1>1, <1>3 DEF StoredSlot, Stored
  <2>2. slots'[Slot(g_key_w)].seq = puts + 1
    BY <1>2, <1>3, <2>1 DEF NewWord, InBuffer
  <2>3. \A i \in 0 .. BUF_LEN - 1 : i # Slot(g_key_w) => slots'[i] = slots[i]
    BY <1>2, <2>1
  <2> QED
    BY <1>3, <2>1, <2>2, <2>3
<1>4. CASE ~InBuffer(Slot(g_key_w))
  BY <1>1, <1>4 DEF StoredSlot, Stored, Halted
<1> QED
  BY <1>3, <1>4

(* Every step keeps the write counter the number of keys.                   *)
LEMMA CounterKept ==
  ASSUME Shape, PutsHaveEdges, BufferTypes, CounterInv, [Next]_vars
  PROVE  CounterInv'
<1> SUFFICES ASSUME stage \in 3 .. 5, stage' = stage
             PROVE  CounterInv'
  BY EdgeShape, InterruptShape, TimerShape, DeferredShape, HardStepShape, SoftStepShape,
     JobStopShape, ProcessFrame, StutterShape DEF Next, Handlers, CounterInv
<1>0. puts \in Nat /\ Half \in Nat /\ Half > 1
  BY HalfAssumption, BufAssumption DEF PutsHaveEdges
<1>1. ASSUME InHard' # "inc_w", InHard # "inc_w",
             UNCHANGED <<puts, g_key_w>>, Halted' <=> Halted
      PROVE  CounterInv'
  <2>1. Counted' = Counted
    BY <1>1 DEF Counted, One
  <2> QED
    BY <1>1, <2>1 DEF CounterInv
<1>2. ASSUME InHard' = InHard, UNCHANGED <<puts, g_key_w>>, ~Halted' => ~Halted
      PROVE  CounterInv'
  <2>1. Counted' = Counted
    BY <1>2 DEF Counted, One
  <2>2. InBuffer(Slot(g_key_w))' <=> InBuffer(Slot(g_key_w))
    BY <1>2
  <2> QED
    BY <1>2, <2>1, <2>2 DEF CounterInv
<1>3. CASE Edge \/ TimerFires \/ UNCHANGED vars
            \/ \E h \in {"task", "work", "thread"} : DeferredRun(h)
  <2>1. InHard' = InHard
    BY <1>3, EdgeShape, TimerShape, DeferredShape, StutterShape
  <2>2. UNCHANGED <<puts, g_key_w, flags>>
    BY <1>3 DEF Edge, TimerFires, DeferredRun, vars, bufVars, histVars
  <2> QED
    BY <1>2, <2>1, <2>2 DEF Halted
<1>4. CASE Interrupt
  <2>1. InHard = "idle" /\ InHard' # "inc_w"
    BY <1>4, InterruptShape
  <2>2. UNCHANGED <<puts, g_key_w, flags>>
    BY <1>4 DEF Interrupt, bufVars, histVars
  <2> QED
    BY <1>1, <2>1, <2>2 DEF Halted
<1>5. CASE HardStep
  <2>1. HandlerStep("hard", InHard) /\ HardMove /\ ~Halted
    BY <1>5, HardStepShape DEF HardStep
  <2>2. CASE InHard = "store_slot"
    <3>1. /\ puts' = puts + 1 /\ g_key_w' = g_key_w /\ InHard' = "inc_w"
          /\ ~Halted' => InBuffer(Slot(g_key_w))
      BY <2>1, <2>2, SlotStored DEF HardMove
    <3>2. Counted' = Counted
      BY <1>0, <2>2, <3>1 DEF Counted, One
    <3>3. InBuffer(Slot(g_key_w))' <=> InBuffer(Slot(g_key_w))
      BY <3>1
    <3> QED
      BY <2>1, <3>1, <3>2, <3>3 DEF CounterInv
  <2>3. CASE InHard = "inc_w"
    <3>1. /\ InHard' = "wake_up" /\ g_key_w' = Wrap(g_key_w)
          /\ UNCHANGED <<puts, flags>>
      BY <2>1, <2>3 DEF HardMove, HandlerStep, WriteAdvanced, histVars
    <3>2. Counted = puts - 1 /\ Counted' = puts
      BY <1>0, <2>3, <3>1 DEF Counted, One
    <3>3. /\ g_key_w = IF Counted < Half THEN Counted ELSE Counted - 2 * Half
          /\ Counted <= Half + 1 /\ InBuffer(Slot(g_key_w))
          /\ Counted > Half => InBuffer(Slot(-Half))
      BY <2>1, <2>3 DEF CounterInv
    <3>4. Counted # Half + 1
      <4> SUFFICES ASSUME Counted = Half + 1 PROVE FALSE
        OBVIOUS
      <4>1. g_key_w = -Half + 1
        BY <1>0, <3>3
      <4> QED
        BY <1>0, <3>3, <4>1, SmallestSlots
    <3>5. Counted = Half => InBuffer(Slot(-Half))
      <4> SUFFICES ASSUME Counted = Half PROVE InBuffer(Slot(-Half))
        OBVIOUS
      <4>1. g_key_w = -Half
        BY <1>0, <3>3
      <4> QED
        BY <3>3, <4>1
    <3>6. g_key_w' = IF Counted' < Half THEN Counted' ELSE Counted' - 2 * Half
      BY <1>0, <3>1, <3>2, <3>3, <3>4 DEF Wrap
    <3> QED
      BY <1>0, <3>1, <3>2, <3>3, <3>4, <3>5, <3>6 DEF CounterInv
  <2>4. CASE InHard \in {"sample", "wake_up", "kill_fasync"}
    <3>1. InHard' # "inc_w" /\ UNCHANGED <<puts, g_key_w, flags>>
      BY <2>1, <2>4, HandlerWakes, HandlerPuts DEF HardMove
    <3> QED
      BY <1>1, <2>4, <3>1 DEF Halted
  <2> QED
    BY <2>1, <2>2, <2>3, <2>4 DEF HardMove
<1>6. CASE SoftStep
  BY <1>6, SoftStepShape
<1>7. CASE Process \/ JobStop
  <2>1. InHard' = InHard /\ UNCHANGED <<puts, g_key_w>>
    BY <1>7, ProcessFrame, ProcessKeepsHandlers
  <2>2. ~Halted
    BY <1>7 DEF JobStop, Process, SigHandler, Main, Wait, ReadStep, ReadReturns,
       NonblockTest, PollStep, PollTimeout, FasyncStep, CanRun
  <2> QED
    BY <1>2, <2>1, <2>2
<1> QED
  BY <1>3, <1>4, <1>5, <1>6, <1>7 DEF Next, Handlers

(* The write counter of stages 03 to 05 counts the keys.                    *)
THEOREM WriterCounts == Spec => []CounterInv
<1>1. Init => CounterInv
  <2> SUFFICES ASSUME Init PROVE CounterInv
    OBVIOUS
  <2>1. InHard = "idle" /\ puts = 0 /\ g_key_w = 0
    BY DEF Init, InHard, NextOf
  <2> QED
    BY <2>1, HalfAssumption, BufAssumption DEF CounterInv, Counted, One
<1>2. Typed /\ CounterInv /\ [Next]_vars => CounterInv'
  BY CounterKept DEF Typed
<1> QED
  BY <1>1, <1>2, StagesTyped, PTL DEF Spec

\* Keys that the read index has been moved past.
Taken == reads + One(InCall = "return4")

\* On the reader's first round its index is the number of reads, and no slot
\* ahead of it is older than that round.
ReaderAt ==
  stage \in 3 .. 5 /\ reads < BUF_LEN =>
    g_key_r = IF Taken < Half THEN Taken ELSE Taken - 2 * Half

\* Slots that the reader has not come to hold their own keys or none, until
\* the writer laps the reader; a read has the key it is due, or none where a
\* signal ended its wait.
SlotsAhead ==
  stage \in 3 .. 5 /\ reads < BUF_LEN /\ "overrun" \notin flags =>
    /\ lastSeq <= reads
    /\ \A i \in 0 .. BUF_LEN - 1 :
         i >= Taken => slots[i].seq = IF i < puts THEN i + 1 ELSE 0
    /\ puts <= Taken + BUF_LEN \/ Halted
    /\ InCall \in {"inc_r", "return4"} => key.seq \in {0, reads + 1}
    /\ "intr" \notin flags =>
         /\ lastSeq = reads
         /\ InCall \in {"copy_slot", "inc_r", "return4"} => reads < puts
         /\ InCall \in {"inc_r", "return4"} => key.seq = reads + 1

(* A key stored on the reader's first round fills the slot of its own       *)
(* number, or one behind the reader, or laps it.                            *)
LEMMA SlotStoredAhead ==
  ASSUME Shape, PutsHaveEdges, BufferTypes, CounterInv, ReaderAt, SlotsAhead, HardStep,
         InHard = "store_slot", stage \in 3 .. 5
  PROVE  SlotsAhead'
<1> SUFFICES ASSUME reads' < BUF_LEN, "overrun" \notin flags'
             PROVE  SlotsAhead'
  BY DEF SlotsAhead
<1>1. /\ HandlerStep("hard", "store_slot") /\ InCall' = InCall /\ stage' = stage
      /\ ~Halted /\ key' = key
  BY HardStepShape DEF HardStep, procVars
<1>2. /\ puts' = puts + 1 /\ reads' = reads /\ lastSeq' = lastSeq
      /\ flags \subseteq flags' /\ flags' \subseteq flags \cup {"overrun", "stray"}
  BY <1>1, SlotStored
<1>3. /\ puts \in Nat /\ reads \in Nat /\ reads < BUF_LEN /\ BUF_LEN \in Nat
      /\ Half \in Nat /\ Half >= BUF_LEN /\ BUF_LEN > 1
      /\ Taken \in 0 .. BUF_LEN /\ Taken' = Taken /\ "overrun" \notin flags
      /\ "intr" \in flags' <=> "intr" \in flags
  BY <1>1, <1>2, BufAssumption, HalfAssumption DEF PutsHaveEdges, Shape, PlainTypes, Taken, One
<1>4. /\ \A i \in 0 .. BUF_LEN - 1 :
           i >= Taken => slots[i].seq = IF i < puts THEN i + 1 ELSE 0
      /\ puts <= Taken + BUF_LEN
  BY <1>1, <1>3 DEF SlotsAhead
<1>5. g_key_r = IF Taken < Half THEN Taken ELSE Taken - 2 * Half
  BY <1>3 DEF ReaderAt
<1>6. /\ g_key_w = IF puts < Half THEN puts ELSE puts - 2 * Half
      /\ puts <= Half + 1
  <2>1. Counted = puts
    BY <1>3 DEF Counted, One
  <2> QED
    BY <2>1 DEF CounterInv
<1>7. puts' <= Taken + BUF_LEN \/ Halted'
  <2> SUFFICES ASSUME puts = Taken + BUF_LEN, ~Halted' PROVE FALSE
    BY <1>2, <1>3, <1>4
  <2>1. InBuffer(Slot(g_key_w))
    BY <1>1, SlotStored
  <2>2. ~(g_key_w - g_key_r \in {BUF_LEN, BUF_LEN - 2 * Half})
    BY <1>1, <2>1, SlotStored
  <2>3. CASE Taken < Half
    BY <1>3, <1>5, <1>6, <2>2, <2>3
  <2>4. CASE Taken >= Half
    BY <1>3, <1>5, <1>6, <2>4
  <2> QED
    BY <1>3, <2>3, <2>4
<1>8. \A i \in 0 .. BUF_LEN - 1 :
        i >= Taken => slots'[i].seq = IF i < puts' THEN i + 1 ELSE 0
  <2> SUFFICES ASSUME NEW i \in 0 .. BUF_LEN - 1, i >= Taken
               PROVE  slots'[i].seq = IF i < puts + 1 THEN i + 1 ELSE 0
    BY <1>2
  <2>1. slots[i].seq = IF i < puts THEN i + 1 ELSE 0
    BY <1>4
  <2>2. CASE ~InBuffer(Slot(g_key_w))
    <3>1. slots' = slots
      BY <1>1, <2>2, SlotStored
    <3>2. puts >= Half
      BY <1>3, <1>6, <2>2, SlotInBuffer
    <3> QED
      BY <1>3, <2>1, <3>1, <3>2
  <2>3. CASE InBuffer(Slot(g_key_w))
    <3>1. Slot(g_key_w) = puts % BUF_LEN
      BY <1>1, <1>3, <2>3, StoreGoesTo
    <3>2. /\ ~(g_key_w - g_key_r \in {BUF_LEN, BUF_LEN - 2 * Half})
          /\ slots'[Slot(g_key_w)].seq = puts + 1
          /\ i # Slot(g_key_w) => slots'[i] = slots[i]
      BY <1>1, <2>3, SlotStored
    <3>3. CASE puts < BUF_LEN
      <4>1. Slot(g_key_w) = puts
        BY <1>3, <3>1, <3>3, FirstRound
      <4> QED
        BY <1>3, <2>1, <3>2, <3>3, <4>1
    <3>4. CASE puts >= BUF_LEN
      <4>1. puts # Taken + BUF_LEN
        BY <1>3, <1>5, <1>6, <3>2
      <4>2. Slot(g_key_w) = puts - BUF_LEN
        BY <1>3, <1>4, <3>1, <3>4, <4>1, SecondRound
      <4> QED
        BY <1>3, <1>4, <2>1, <3>2, <3>4, <4>1, <4>2
    <3> QED
      BY <1>3, <3>3, <3>4
  <2> QED
    BY <2>2, <2>3
<1> QED
  BY <1>1, <1>2, <1>3, <1>7, <1>8 DEF SlotsAhead

(* What a read has in hand in stages 03 to 05 is the key it is due.         *)
LEMMA SlotCopied ==
  ASSUME Shape, PutsHaveEdges, BufferTypes, ReaderAt, SlotsAhead, stage \in 3 .. 5,
         reads < BUF_LEN, InCall \in {"wait_slot", "copy_slot"}
  PROVE  /\ Slot(g_key_r) = reads /\ Taken = reads
         /\ reads \in 0 .. BUF_LEN - 1
         /\ "overrun" \notin flags =>
              slots[Slot(g_key_r)].seq = IF reads < puts THEN reads + 1 ELSE 0
<1>1. reads \in 0 .. BUF_LEN - 1 /\ Taken = reads /\ Half \in Nat /\ Half >= BUF_LEN
  BY HalfAssumption, BufAssumption DEF Shape, PlainTypes, Taken, One
<1>2. g_key_r = reads
  BY <1>1, BufAssumption DEF ReaderAt
<1>3. Slot(g_key_r) = reads
  BY <1>1, <1>2, SlotInBuffer, FirstRound, BufAssumption
<1> QED
  BY <1>1, <1>3 DEF SlotsAhead

(* Every step keeps what is said of the slots ahead of the reader.          *)
LEMMA SlotsKept ==
  ASSUME Shape, PutsHaveEdges, BufferTypes, CounterInv, ReaderAt, SlotsAhead, [Next]_vars
  PROVE  ReaderAt' /\ SlotsAhead'
<1> SUFFICES ASSUME stage \in 3 .. 5, stage' = stage
             PROVE  ReaderAt' /\ SlotsAhead'
  BY EdgeShape, InterruptShape, TimerShape, DeferredShape, HardStepShape, SoftStepShape,
     JobStopShape, ProcessFrame, StutterShape DEF Next, Handlers, ReaderAt, SlotsAhead
<1>0. /\ puts \in Nat /\ reads \in Nat /\ lastSeq \in Nat /\ key.seq \in Nat
      /\ BUF_LEN \in Nat /\ Half \in Nat /\ Half >= BUF_LEN /\ BUF_LEN > 1
      /\ Taken \in Int
  BY SeqsAreNat, BufAssumption, HalfAssumption
     DEF PutsHaveEdges, Shape, PlainTypes, Taken, One
<1>1. ASSUME InCall' = InCall \/ {InCall, InCall'} \cap {"copy_slot", "inc_r", "return4"} = {},
             UNCHANGED <<slots, g_key_r, key, puts, lastSeq, reads>>,
             flags \subseteq flags', flags' \ flags \subseteq {"intr", "stray", "promised"}
      PROVE  ReaderAt' /\ SlotsAhead'
  <2>1. Taken' = Taken
    BY <1>1 DEF Taken, One
  <2> QED
    BY <1>1, <2>1 DEF ReaderAt, SlotsAhead, Halted
<1>2. CASE Edge \/ Interrupt \/ TimerFires \/ JobStop \/ UNCHANGED vars
            \/ \E h \in {"task", "work", "thread"} : DeferredRun(h)
  <2>1. InCall' = InCall
    BY <1>2, EdgeShape, InterruptShape, TimerShape, DeferredShape, JobStopShape,
       StutterShape
  <2>2. UNCHANGED <<slots, g_key_r, key, puts, lastSeq, reads, flags>>
    BY <1>2 DEF Edge, Interrupt, TimerFires, DeferredRun, JobStop, vars, bufVars,
       procVars, histVars
  <2> QED
    BY <1>1, <2>1, <2>2
<1>3. CASE HardStep
  <2>1. /\ HandlerStep("hard", InHard) /\ HardMove /\ InCall' = InCall /\ key' = key
    BY <1>3, HardStepShape DEF HardStep, procVars
  <2>2. CASE InHard = "store_slot"
    <3>1. Taken' = Taken /\ UNCHANGED <<g_key_r, reads>>
      BY <2>1, <2>2, SlotStored DEF Taken, One
    <3> QED
      BY <1>3, <2>2, <3>1, SlotStoredAhead DEF ReaderAt
  <2>3. CASE InHard \in {"sample", "inc_w", "wake_up", "kill_fasync"}
    <3>1. UNCHANGED <<slots, g_key_r, puts, lastSeq, reads, flags>>
      BY <2>1, <2>3, HandlerWakes, HandlerPuts, HandlerFrame
    <3> QED
      BY <1>1, <2>1, <3>1
  <2> QED
    BY <2>1, <2>2, <2>3 DEF HardMove
<1>4. CASE SoftStep
  BY <1>4, SoftStepShape
<1>5. CASE SigHandler \/ Main \/ FasyncStep \/ NonblockTest
  <2>1. UNCHANGED <<slots, g_key_r, key, puts, lastSeq, reads, flags>>
    BY <1>5 DEF SigHandler, Main, FasyncStep, NonblockTest, bufVars, histVars
  <2>2. {InCall, InCall'} \cap {"copy_slot", "inc_r", "return4"} = {}
    <3>1. CASE SigHandler \/ NonblockTest
      BY <3>1, SigHandlerShape, NonblockTestShape
    <3>2. CASE Main
      BY <3>2, MainShape DEF MainMove
    <3>3. CASE FasyncStep
      <4>1. InCall = "fasync_helper"
        BY <3>3, AtStepIs DEF FasyncStep
      <4> QED
        BY <3>3, <4>1, FasyncStepShape
    <3> QED
      BY <1>5, <3>1, <3>2, <3>3
  <2> QED
    BY <1>1, <2>1, <2>2
<1>6. CASE PollStep \/ PollTimeout
  <2>1. UNCHANGED <<slots, g_key_r, key, puts, lastSeq, reads>>
    BY <1>6 DEF PollStep, PollTimeout, bufVars
  <2>2. /\ {InCall, InCall'} \cap {"copy_slot", "inc_r", "return4"} = {}
        /\ flags \subseteq flags' /\ flags' \ flags \subseteq {"promised"}
    <3>1. InCall \notin {"copy_slot", "inc_r", "return4"}
      BY <1>6, PollStepShape, PollTimeoutShape, CallPlaces DEF Shape, CallPlace
    <3> QED
      BY <1>6, <3>1, PollStepShape, PollTimeoutShape
  <2> QED
    BY <1>1, <2>1, <2>2
<1>7. CASE Wait
  <2>1. /\ UNCHANGED <<slots, g_key_r, key, puts, lastSeq, reads>>
        /\ InCall = "wait_slot"
    <3>1. InCall = "wait_slot"
      BY <1>7, WaitShape, CallPlaces DEF Shape, CallPlace, Waits
    <3> QED
      BY <1>7, <3>1 DEF Wait, bufVars
  <2>2. CASE InCall' = InCall /\ flags' \in {flags, flags \cup {"stray"}}
    BY <1>1, <2>1, <2>2
  <2>3. CASE InCall' = "copy_slot" /\ flags' = flags \cup {"intr"}
    <3>1. Taken' = Taken
      BY <2>1, <2>3 DEF Taken, One
    <3> QED
      BY <2>1, <2>3, <3>1 DEF ReaderAt, SlotsAhead, Halted
  <2>4. CASE InCall' = "copy_slot" /\ flags' = flags /\ ReadCondition
    <3>1. Taken' = Taken
      BY <2>1, <2>4 DEF Taken, One
    <3>2. reads < BUF_LEN /\ "overrun" \notin flags => reads < puts
      BY <2>1, <2>4, ReadyIs, SlotCopied DEF IsZero
    <3> QED
      BY <2>1, <2>4, <3>1, <3>2 DEF ReaderAt, SlotsAhead, Halted
  <2> QED
    BY <1>7, <2>1, <2>2, <2>3, <2>4, WaitShape DEF CallNext
<1>8. CASE ReadStep
  <2>1. ReadMove /\ UNCHANGED <<puts, lastSeq, reads, flags>>
    BY <1>8, ReadStepShape DEF ReadStep, histVars
  <2>2. CASE InCall = "copy_slot" /\ InCall' = "inc_r"
    <3>1. key' = slots[Slot(g_key_r)] /\ UNCHANGED <<slots, g_key_r>> /\ Taken' = Taken
      BY <2>1, <2>2 DEF ReadMove, Taken, One
    <3> QED
      BY <1>0, <2>1, <2>2, <3>1, SlotCopied DEF ReaderAt, SlotsAhead, Halted
  <2>3. CASE InCall = "inc_r" /\ InCall' = "return4"
    <3>1. UNCHANGED <<slots, key>> /\ g_key_r' = Wrap(g_key_r)
      BY <2>1, <2>3 DEF ReadMove
    <3>2. Taken = reads /\ Taken' = reads + 1
      BY <1>0, <2>1, <2>3 DEF Taken, One
    <3>3. ReaderAt'
      BY <1>0, <2>1, <3>1, <3>2 DEF ReaderAt, Wrap
    <3> QED
      BY <1>0, <2>1, <2>3, <3>1, <3>2, <3>3 DEF SlotsAhead, Halted
  <2> QED
    BY <2>1, <2>2, <2>3 DEF ReadMove
<1>9. CASE ReadReturns
  <2>1. /\ InCall = "return4" /\ InCall' = "idle"
        /\ UNCHANGED <<slots, g_key_r, key, puts>>
        /\ lastSeq' = (IF key.seq > lastSeq THEN key.seq ELSE lastSeq)
        /\ reads' = (IF reads < BUF_LEN THEN reads + 1 ELSE reads)
        /\ flags' = flags \ {"promised"}
    BY <1>9, ReadReturnsShape DEF ReadReturns, bufVars
  <2>2. Taken = reads + 1 /\ Taken' = reads'
    BY <1>0, <2>1 DEF Taken, One
  <2> QED
    BY <1>0, <2>1, <2>2 DEF ReaderAt, SlotsAhead, Halted
<1> QED
  BY <1>2, <1>3, <1>4, <1>5, <1>6, <1>7, <1>8, <1>9 DEF Next, Handlers, Process

(* On the first round reads take the slots in the order of the keys.        *)
THEOREM SlotsInOrder == Spec => [](ReaderAt /\ SlotsAhead)
<1>1. Init => ReaderAt /\ SlotsAhead
  <2> SUFFICES ASSUME Init PROVE ReaderAt /\ SlotsAhead
    OBVIOUS
  <2>1. /\ InCall = "idle" /\ puts = 0 /\ lastSeq = 0 /\ reads = 0 /\ g_key_r = 0
        /\ flags = {} /\ \A i \in 0 .. BUF_LEN - 1 : slots[i].seq = 0
    BY DEF Init, InCall, NextOf, NoWord
  <2>2. Taken = 0
    BY <2>1 DEF Taken, One
  <2> QED
    BY <2>1, <2>2, HalfAssumption, BufAssumption DEF ReaderAt, SlotsAhead
<1>2. Typed /\ CounterInv /\ (ReaderAt /\ SlotsAhead) /\ [Next]_vars
        => (ReaderAt /\ SlotsAhead)'
  BY SlotsKept DEF Typed
<1> QED
  BY <1>1, <1>2, StagesTyped, WriterCounts, PTL DEF Spec

-----------------------------------------------------------------------------
(* Stages 06 to 10: a ring.                                                 *)

\* The slot after i; how far b is ahead of a; how many keys ago slot i was
\* written.
NextOne(i) == IF i = BUF_LEN - 1 THEN 0 ELSE i + 1
Ahead(a, b) == IF a <= b THEN b - a ELSE b - a + BUF_LEN
Age(i) == IF i < g_key_w THEN g_key_w - 1 - i ELSE g_key_w - 1 - i + BUF_LEN

\* Each slot holds the key it got last; the keys between the indices are
\* newer than any returned; the read in progress has one newer still; and
\* without an interrupted wait or an overrun the account is exact.
RingInv ==
  stage >= 6 =>
    /\ \A i \in 0 .. BUF_LEN - 1 :
         slots[i].seq = IF puts > Age(i) THEN puts - Age(i) ELSE 0
    /\ lastSeq + Ahead(g_key_r, g_key_w) <= puts
    /\ InCall = "get_store" =>
         /\ snap = g_key_r /\ key.seq > lastSeq
         /\ key.seq + Ahead(NextOne(g_key_r), g_key_w) <= puts
    /\ InCall = "return4" =>
         /\ key.seq = 0 \/ key.seq > lastSeq
         /\ key.seq + Ahead(g_key_r, g_key_w) <= puts
    /\ flags \cap {"intr", "overrun"} = {} =>
         /\ InCall # "return4" => lastSeq + Ahead(g_key_r, g_key_w) = puts
         /\ InCall = "return4" => key.seq + Ahead(g_key_r, g_key_w) = puts
         /\ InCall \in {"get_load", "get_store"} => g_key_r # g_key_w
         /\ InCall \in {"get_store", "return4"} => key.seq = lastSeq + 1

(* How the distances change when an index moves on.                         *)
LEMMA AheadMoves ==
  ASSUME NEW a \in 0 .. BUF_LEN - 1, NEW b \in 0 .. BUF_LEN - 1
  PROVE  /\ Ahead(a, b) \in 0 .. BUF_LEN - 1 /\ (Ahead(a, b) = 0 <=> a = b)
         /\ NextOne(a) \in 0 .. BUF_LEN - 1
         /\ Ahead(a, NextOne(b)) = IF NextOne(b) = a THEN 0 ELSE Ahead(a, b) + 1
         /\ NextOne(b) = a => Ahead(a, b) = BUF_LEN - 1
         /\ a # b => Ahead(NextOne(a), b) = Ahead(a, b) - 1
         /\ NextOne(NextOne(a)) # NextOne(a)
BY BufAssumption DEF Ahead, NextOne

(* The slot a read takes is as old as the next one is behind the writer.    *)
LEMMA AgeIs ==
  ASSUME g_key_w \in 0 .. BUF_LEN - 1, NEW i \in 0 .. BUF_LEN - 1
  PROVE  Age(i) = Ahead(NextOne(i), g_key_w)
BY BufAssumption DEF Age, Ahead, NextOne

(* The ring's variables in the stages that have one.                        *)
LEMMA RingTypes ==
  ASSUME Shape, PutsHaveEdges, BufferTypes, stage >= 6
  PROVE  /\ g_key_r \in 0 .. BUF_LEN - 1 /\ g_key_w \in 0 .. BUF_LEN - 1
         /\ snap \in 0 .. BUF_LEN - 1 /\ puts \in Nat /\ lastSeq \in Nat /\ key.seq \in Nat
         /\ BUF_LEN \in Nat /\ BUF_LEN > 1 /\ stage \in 6 .. 10
BY SeqsAreNat, BufAssumption, RunStagesAssumption
   DEF BufferTypes, PutsHaveEdges, Shape, PlainTypes, Stages

(* put_key in a ring: nothing, or the next key in the next slot.            *)
LEMMA RingPut ==
  ASSUME NEW c \in {"hard", "soft"}, HandlerStep(c, "put_ring"), BufferTypes, stage >= 6
  PROVE  /\ UNCHANGED <<g_key_r, lastSeq>>
         /\ \/ UNCHANGED <<slots, g_key_w, puts, flags>>
            \/ /\ g_key_w' = NextOne(g_key_w) /\ puts' = puts + 1
               /\ slots'[g_key_w].seq = puts + 1
               /\ \A i \in 0 .. BUF_LEN - 1 : i # g_key_w => slots'[i] = slots[i]
               /\ flags' = IF NextOne(g_key_w) = g_key_r THEN flags \cup {"overrun"}
                                                         ELSE flags
<1>1. PutInRing(c)
  BY DEF HandlerStep
<1>2. DOMAIN slots = 0 .. BUF_LEN - 1 /\ g_key_w \in 0 .. BUF_LEN - 1
  BY DEF BufferTypes
<1>3. (g_key_w + 1) % BUF_LEN = NextOne(g_key_w)
  BY <1>2, NextSlot DEF NextOne
<1>4. CASE is_key_buf_full
  BY <1>1, <1>4 DEF PutInRing
<1>5. CASE ~is_key_buf_full
  <2>1. /\ slots' = [slots EXCEPT ![g_key_w] = NewWord(c)]
        /\ g_key_w' = NextOne(g_key_w) /\ puts' = puts + 1
        /\ flags' = (IF NextOne(g_key_w) = g_key_r THEN flags \cup {"overrun"} ELSE flags)
        /\ UNCHANGED <<g_key_r, lastSeq>>
    BY <1>1, <1>3, <1>5 DEF PutInRing
  <2>2. slots'[g_key_w].seq = puts + 1
    BY <1>2, <2>1 DEF NewWord
  <2>3. \A i \in 0 .. BUF_LEN - 1 : i # g_key_w => slots'[i] = slots[i]
    BY <1>2, <2>1
  <2> QED
    BY <2>1, <2>2, <2>3
<1> QED
  BY <1>4, <1>5

(* The handlers keep the account of the ring.                               *)
LEMMA RingPutKept ==
  ASSUME Shape, PutsHaveEdges, BufferTypes, RingInv, stage >= 6, stage' = stage,
         NEW c \in {"hard", "soft"}, HandlerStep(c, "put_ring"),
         UNCHANGED <<key, snap>>, InCall' = InCall
  PROVE  RingInv'
<1>1. /\ g_key_r \in 0 .. BUF_LEN - 1 /\ g_key_w \in 0 .. BUF_LEN - 1
      /\ puts \in Nat /\ lastSeq \in Nat /\ key.seq \in Nat
      /\ BUF_LEN \in Nat /\ BUF_LEN > 1
  BY RingTypes
<1>2. g_key_r' = g_key_r /\ lastSeq' = lastSeq
  BY RingPut
<1>3. CASE UNCHANGED <<slots, g_key_w, puts, flags>>
  BY <1>2, <1>3 DEF RingInv, Age
<1>4. CASE /\ g_key_w' = NextOne(g_key_w) /\ puts' = puts + 1
           /\ slots'[g_key_w].seq = puts + 1
           /\ \A i \in 0 .. BUF_LEN - 1 : i # g_key_w => slots'[i] = slots[i]
           /\ flags' = IF NextOne(g_key_w) = g_key_r THEN flags \cup {"overrun"} ELSE flags
  <2> DEFINE d == Ahead(g_key_r, g_key_w)
             e == Ahead(NextOne(g_key_r), g_key_w)
  <2>1. /\ d \in 0 .. BUF_LEN - 1 /\ e \in 0 .. BUF_LEN - 1
        /\ Ahead(g_key_r, g_key_w)' = IF NextOne(g_key_w) = g_key_r THEN 0 ELSE d + 1
        /\ Ahead(NextOne(g_key_r), g_key_w)'
             = IF NextOne(g_key_w) = NextOne(g_key_r) THEN 0 ELSE e + 1
    <3>1. NextOne(g_key_r) \in 0 .. BUF_LEN - 1
      BY <1>1, AheadMoves
    <3>2. /\ Ahead(g_key_r, g_key_w)' = Ahead(g_key_r, NextOne(g_key_w))
          /\ Ahead(NextOne(g_key_r), g_key_w)' = Ahead(NextOne(g_key_r), NextOne(g_key_w))
      BY <1>2, <1>4 DEF Ahead, NextOne
    <3> QED
      BY <1>1, <3>1, <3>2, AheadMoves
  <2>2. \A i \in 0 .. BUF_LEN - 1 :
          slots'[i].seq = IF puts' > Age(i)' THEN puts' - Age(i)' ELSE 0
    <3> SUFFICES ASSUME NEW i \in 0 .. BUF_LEN - 1
                 PROVE  slots'[i].seq = IF puts' > Age(i)' THEN puts' - Age(i)' ELSE 0
      OBVIOUS
    <3>1. CASE i = g_key_w
      <4>1. Age(i)' = 0
        BY <1>1, <1>4, <3>1 DEF Age, NextOne
      <4> QED
        BY <1>1, <1>4, <3>1, <4>1
    <3>2. CASE i # g_key_w
      <4>1. Age(i)' = Age(i) + 1 /\ Age(i) \in Int
        BY <1>1, <1>4, <3>2 DEF Age, NextOne
      <4>2. slots'[i].seq = IF puts > Age(i) THEN puts - Age(i) ELSE 0
        BY <1>4, <3>2 DEF RingInv
      <4> QED
        BY <1>1, <1>4, <4>1, <4>2
    <3> QED
      BY <3>1, <3>2
  <2>3. flags' \cap {"intr", "overrun"} = {} =>
          flags \cap {"intr", "overrun"} = {} /\ NextOne(g_key_w) # g_key_r
    BY <1>4
  <2> HIDE DEF d, e
  <2>4. /\ lastSeq + d <= puts
        /\ InCall = "get_store" => snap = g_key_r /\ key.seq > lastSeq /\ key.seq + e <= puts
        /\ InCall = "return4" =>
             (key.seq = 0 \/ key.seq > lastSeq) /\ key.seq + d <= puts
        /\ flags \cap {"intr", "overrun"} = {} =>
             /\ InCall # "return4" => lastSeq + d = puts
             /\ InCall = "return4" => key.seq + d = puts
             /\ InCall \in {"get_store", "return4"} => key.seq = lastSeq + 1
    BY DEF RingInv, d, e
  <2>5. /\ (lastSeq + Ahead(g_key_r, g_key_w) <= puts)'
        /\ InCall' = "get_store" =>
             /\ snap' = g_key_r' /\ key'.seq > lastSeq'
             /\ (key.seq + Ahead(NextOne(g_key_r), g_key_w) <= puts)'
        /\ InCall' = "return4" =>
             /\ key'.seq = 0 \/ key'.seq > lastSeq'
             /\ (key.seq + Ahead(g_key_r, g_key_w) <= puts)'
    BY <1>1, <1>2, <1>4, <2>1, <2>4
  <2>6. flags' \cap {"intr", "overrun"} = {} =>
             /\ InCall' # "return4" => (lastSeq + Ahead(g_key_r, g_key_w) = puts)'
             /\ InCall' = "return4" => (key.seq + Ahead(g_key_r, g_key_w) = puts)'
             /\ InCall' \in {"get_load", "get_store"} => g_key_r' # g_key_w'
             /\ InCall' \in {"get_store", "return4"} => key'.seq = lastSeq' + 1
    BY <1>1, <1>2, <1>4, <2>1, <2>3, <2>4
  <2> QED
    BY <2>2, <2>5, <2>6 DEF RingInv
<1> QED
  BY <1>3, <1>4, RingPut

(* Every step keeps the account of the ring.                                *)
LEMMA RingKept ==
  ASSUME Shape, PutsHaveEdges, BufferTypes, RingInv, [Next]_vars
  PROVE  RingInv'
<1> SUFFICES ASSUME stage >= 6, stage' = stage
             PROVE  RingInv'
  BY EdgeShape, InterruptShape, TimerShape, DeferredShape, HardStepShape, SoftStepShape,
     JobStopShape, ProcessFrame, StutterShape DEF Next, Handlers, RingInv
<1>0. /\ g_key_r \in 0 .. BUF_LEN - 1 /\ g_key_w \in 0 .. BUF_LEN - 1
      /\ puts \in Nat /\ lastSeq \in Nat /\ key.seq \in Nat /\ stage \in 6 .. 10
  BY RingTypes
<1>1. ASSUME InCall' = InCall \/ {InCall, InCall'} \cap {"get_load", "get_store", "return4"} = {},
             UNCHANGED <<slots, g_key_r, g_key_w, key, snap, puts, lastSeq>>,
             flags' \cap {"intr", "overrun"} = {} => flags \cap {"intr", "overrun"} = {}
      PROVE  RingInv'
  <2>1. /\ Ahead(g_key_r, g_key_w)' = Ahead(g_key_r, g_key_w)
        /\ Ahead(NextOne(g_key_r), g_key_w)' = Ahead(NextOne(g_key_r), g_key_w)
        /\ \A i \in 0 .. BUF_LEN - 1 : Age(i)' = Age(i)
    BY <1>1 DEF Ahead, NextOne, Age
  <2> QED
    BY <1>1, <2>1 DEF RingInv
<1>2. CASE Edge \/ Interrupt \/ TimerFires \/ JobStop \/ UNCHANGED vars
            \/ \E h \in {"task", "work", "thread"} : DeferredRun(h)
  <2>1. InCall' = InCall
    BY <1>2, EdgeShape, InterruptShape, TimerShape, DeferredShape, JobStopShape,
       StutterShape
  <2>2. UNCHANGED <<slots, g_key_r, g_key_w, key, snap, puts, lastSeq, flags>>
    BY <1>2 DEF Edge, Interrupt, TimerFires, DeferredRun, JobStop, vars, bufVars,
       procVars, histVars
  <2> QED
    BY <1>1, <2>1, <2>2
<1>3. ASSUME NEW c \in {"hard", "soft"}, NEW s, HandlerStep(c, s), InCall' = InCall,
             UNCHANGED <<key, snap>>, s \notin {"store_word", "store_slot", "inc_w"}
      PROVE  RingInv'
  <2>1. CASE s = "put_ring"
    BY <1>3, <2>1, RingPutKept
  <2>2. CASE s # "put_ring"
    <3>1. UNCHANGED <<slots, g_key_r, g_key_w, puts, lastSeq, flags>>
      BY <1>3, <2>2, HandlerWakes, HandlerPuts, HandlerFrame
    <3> QED
      BY <1>1, <1>3, <3>1
  <2> QED
    BY <2>1, <2>2
<1>4. CASE HardStep
  <2>1. /\ HandlerStep("hard", InHard) /\ HardMove /\ InCall' = InCall
        /\ UNCHANGED <<key, snap>>
    BY <1>4, HardStepShape DEF HardStep, procVars
  <2> QED
    BY <1>3, <2>1 DEF HardMove
<1>5. CASE SoftStep
  <2>1. /\ HandlerStep("soft", InSoft) /\ SoftMove /\ InCall' = InCall
        /\ UNCHANGED <<key, snap>>
    BY <1>5, SoftStepShape DEF SoftStep, procVars
  <2> QED
    BY <1>3, <2>1 DEF SoftMove
<1>6. CASE SigHandler \/ PollStep \/ PollTimeout \/ FasyncStep
  BY <1>6, SigHandlerShape, PollStepShape, PollTimeoutShape, FasyncStepShape
<1>7. CASE Main \/ NonblockTest
  <2>1. UNCHANGED <<slots, g_key_r, g_key_w, key, snap, puts, lastSeq, flags>>
    BY <1>7 DEF Main, NonblockTest, bufVars, histVars
  <2>2. {InCall, InCall'} \cap {"get_load", "get_store", "return4"} = {}
    BY <1>7, MainShape, NonblockTestShape DEF MainMove
  <2> QED
    BY <1>1, <2>1, <2>2
<1>8. CASE Wait
  <2>1. UNCHANGED <<slots, g_key_r, g_key_w, key, snap, puts, lastSeq>>
    BY <1>8 DEF Wait, bufVars
  <2>2. InCall = "wait_ring"
    BY <1>8, WaitShape, CallPlaces DEF Shape, CallPlace, Waits
  <2>3. CASE InCall' = InCall /\ flags' = flags
    BY <1>1, <2>1, <2>3
  <2>4. CASE InCall' = "get_load"
             /\ ((ReadCondition /\ flags' = flags) \/ flags' = flags \cup {"intr"})
    <3>1. ReadCondition => g_key_r # g_key_w
      BY <2>2, ReadyIs
    <3>2. /\ Ahead(g_key_r, g_key_w)' = Ahead(g_key_r, g_key_w)
          /\ \A i \in 0 .. BUF_LEN - 1 : Age(i)' = Age(i)
      BY <2>1 DEF Ahead, Age
    <3> QED
      BY <2>1, <2>2, <2>4, <3>1, <3>2 DEF RingInv
  <2> QED
    BY <1>8, <2>2, <2>3, <2>4, WaitShape DEF CallNext
<1>9. CASE ReadStep
  <2>1. ReadMove /\ UNCHANGED <<puts, lastSeq, flags>>
    BY <1>9, ReadStepShape DEF ReadStep, histVars
  <2>2. CASE /\ InCall = "get_load" /\ InCall' = "get_store" /\ g_key_r # g_key_w
             /\ key' = slots[g_key_r] /\ snap' = g_key_r
             /\ UNCHANGED <<slots, g_key_r, g_key_w>>
    <3>1. /\ Ahead(g_key_r, g_key_w)' = Ahead(g_key_r, g_key_w)
          /\ Ahead(NextOne(g_key_r), g_key_w)' = Ahead(NextOne(g_key_r), g_key_w)
          /\ \A i \in 0 .. BUF_LEN - 1 : Age(i)' = Age(i)
      BY <2>2 DEF Ahead, NextOne, Age
    <3>2. /\ Age(g_key_r) = Ahead(g_key_r, g_key_w) - 1
          /\ Age(g_key_r) = Ahead(NextOne(g_key_r), g_key_w)
          /\ Ahead(g_key_r, g_key_w) \in Nat
      BY <1>0, <2>2, AgeIs, AheadMoves
    <3>3. lastSeq + Ahead(g_key_r, g_key_w) <= puts
      BY DEF RingInv
    <3>4. key'.seq = puts - Age(g_key_r)
      BY <1>0, <2>2, <3>2, <3>3 DEF RingInv
    <3> QED
      BY <1>0, <2>1, <2>2, <3>1, <3>2, <3>3, <3>4 DEF RingInv
  <2>3. CASE /\ InCall = "get_load" /\ InCall' = "return4" /\ g_key_r = g_key_w
             /\ key' = MinusOne /\ UNCHANGED <<slots, g_key_r, g_key_w, snap>>
    <3>1. /\ Ahead(g_key_r, g_key_w)' = Ahead(g_key_r, g_key_w)
          /\ \A i \in 0 .. BUF_LEN - 1 : Age(i)' = Age(i)
      BY <2>3 DEF Ahead, Age
    <3>2. Ahead(g_key_r, g_key_w) = 0 /\ key'.seq = 0
      BY <1>0, <2>3, AheadMoves DEF MinusOne
    <3> QED
      BY <1>0, <2>1, <2>3, <3>1, <3>2 DEF RingInv
  <2>4. CASE /\ InCall = "get_store" /\ InCall' = "return4"
             /\ g_key_r' = (snap + 1) % BUF_LEN /\ UNCHANGED <<slots, g_key_w, key, snap>>
    <3>1. g_key_r' = NextOne(g_key_r)
      BY <1>0, <2>4, NextSlot DEF RingInv, NextOne
    <3>2. /\ Ahead(g_key_r, g_key_w)' = Ahead(NextOne(g_key_r), g_key_w)
          /\ \A i \in 0 .. BUF_LEN - 1 : Age(i)' = Age(i)
      BY <2>4, <3>1 DEF Ahead, NextOne, Age
    <3>3. /\ g_key_r # g_key_w =>
               Ahead(NextOne(g_key_r), g_key_w) = Ahead(g_key_r, g_key_w) - 1
          /\ Ahead(NextOne(g_key_r), g_key_w) \in Nat /\ Ahead(g_key_r, g_key_w) \in Nat
      BY <1>0, AheadMoves
    <3>4. /\ \A i \in 0 .. BUF_LEN - 1 :
               slots[i].seq = IF puts > Age(i) THEN puts - Age(i) ELSE 0
          /\ key.seq > lastSeq /\ key.seq + Ahead(NextOne(g_key_r), g_key_w) <= puts
          /\ flags \cap {"intr", "overrun"} = {} =>
               /\ lastSeq + Ahead(g_key_r, g_key_w) = puts
               /\ g_key_r # g_key_w /\ key.seq = lastSeq + 1
      BY <2>4 DEF RingInv
    <3> QED
      BY <1>0, <2>1, <2>4, <3>2, <3>3, <3>4 DEF RingInv
  <2> QED
    BY <2>1, <2>2, <2>3, <2>4 DEF ReadMove
<1>10. CASE ReadReturns
  <2>1. /\ InCall = "return4" /\ InCall' = "idle"
        /\ UNCHANGED <<slots, g_key_r, g_key_w, key, snap, puts>>
        /\ lastSeq' = (IF key.seq > lastSeq THEN key.seq ELSE lastSeq)
        /\ flags' = flags \ {"promised"}
    BY <1>10, ReadReturnsShape DEF ReadReturns, bufVars
  <2>2. /\ Ahead(g_key_r, g_key_w)' = Ahead(g_key_r, g_key_w)
        /\ \A i \in 0 .. BUF_LEN - 1 : Age(i)' = Age(i)
    BY <2>1 DEF Ahead, Age
  <2> QED
    BY <1>0, <2>1, <2>2 DEF RingInv
<1> QED
  BY <1>2, <1>4, <1>5, <1>6, <1>7, <1>8, <1>9, <1>10 DEF Next, Handlers, Process

(* The ring holds the newest keys, and the reader is behind by those        *)
(* between the indices, or by more after a loss.                            *)
THEOREM RingIsAccountedFor == Spec => []RingInv
<1>1. Init => RingInv
  <2> SUFFICES ASSUME Init PROVE RingInv
    OBVIOUS
  <2>1. /\ InCall = "idle" /\ puts = 0 /\ lastSeq = 0 /\ g_key_r = 0 /\ g_key_w = 0
        /\ \A i \in 0 .. BUF_LEN - 1 : slots[i].seq = 0
    BY DEF Init, InCall, NextOf, NoWord
  <2> QED
    BY <2>1, BufAssumption DEF RingInv, Age, Ahead
<1>2. Typed /\ RingInv /\ [Next]_vars => RingInv'
  BY RingKept DEF Typed
<1> QED
  BY <1>1, <1>2, StagesTyped, PTL DEF Spec

-----------------------------------------------------------------------------
(* What reads return.                                                       *)

(* Only stages 03 to 05 hand a key out twice or late, and only after a      *)
(* round of the buffer or an overrun.                                       *)
THEOREM RepeatsNeedARound == Spec => []RepeatsOnlyAfterRound
<1>1. Typed /\ WordInv /\ SlotsAhead /\ RingInv => RepeatsOnlyAfterRound
  <2> SUFFICES ASSUME Typed, WordInv, SlotsAhead, RingInv,
                      AtStep("return4"), key.seq > 0, key.seq <= lastSeq
               PROVE  stage \in 3 .. 5 /\ (reads = BUF_LEN \/ "overrun" \in flags)
    BY DEF RepeatsOnlyAfterRound
  <2>1. /\ InCall = "return4" /\ stage \in Stages /\ reads \in 0 .. BUF_LEN
        /\ key.seq \in Nat /\ lastSeq \in Nat
    BY AtStepIs, SeqsAreNat, RunStagesAssumption DEF Typed, Shape, PlainTypes
  <2>2. stage # 1
    BY <2>1, CallPlaces DEF Typed, Shape, CallPlace
  <2>3. stage # 2
    BY <2>1 DEF WordInv
  <2>4. ~(stage >= 6)
    BY <2>1 DEF RingInv
  <2>5. reads < BUF_LEN /\ stage \in 3 .. 5 => "overrun" \in flags
    BY <2>1 DEF SlotsAhead, Shape, PlainTypes
  <2> QED
    BY <2>1, <2>2, <2>3, <2>4, <2>5, BufAssumption DEF Stages
<1> QED
  BY <1>1, StagesTyped, WordIsNewest, SlotsInOrder, RingIsAccountedFor, PTL

(* Until a signal ends a wait, the writer laps the reader or a round is     *)
(* over, a read returns exactly the next key.                               *)
THEOREM ReadsAreNext == Spec => []NextKeyUnlessInterrupted
<1>1. Typed /\ SlotsAhead /\ RingInv => NextKeyUnlessInterrupted
  <2> SUFFICES ASSUME Typed, SlotsAhead, RingInv, AtStep("return4"), stage >= 3,
                      flags \cap {"intr", "overrun"} = {}, stage >= 6 \/ reads < BUF_LEN
               PROVE  key.seq = lastSeq + 1
    BY DEF NextKeyUnlessInterrupted
  <2>1. InCall = "return4" /\ stage \in Stages
    BY AtStepIs, RunStagesAssumption DEF Typed, Shape, PlainTypes
  <2>2. CASE stage >= 6
    BY <2>1, <2>2 DEF RingInv
  <2>3. CASE stage \in 3 .. 5 /\ reads < BUF_LEN
    BY <2>1, <2>3 DEF SlotsAhead
  <2> QED
    BY <2>1, <2>2, <2>3 DEF Stages
<1> QED
  BY <1>1, StagesTyped, SlotsInOrder, RingIsAccountedFor, PTL

-----------------------------------------------------------------------------
(* Only poll promises.                                                      *)

\* Stage 04 is the one with poll.
OnlyPollPromises == "promised" \in flags => stage = 4

(* No other stage ever says that there is something to read.                *)
THEOREM PromisesArePolls == Spec => []OnlyPollPromises
<1>1. Init => OnlyPollPromises
  BY DEF Init, OnlyPollPromises
<1>2. Shape /\ OnlyPollPromises /\ [Next]_vars => OnlyPollPromises'
  <2> SUFFICES ASSUME Shape, OnlyPollPromises, [Next]_vars PROVE OnlyPollPromises'
    OBVIOUS
  <2>1. CASE HardStep \/ SoftStep
    <3>1. /\ stage' = stage
          /\ \E c \in {"hard", "soft"} : \E s : HandlerStep(c, s)
      BY <2>1, HardStepShape, SoftStepShape
    <3>2. flags' \subseteq flags \cup {"clobbered", "overrun", "stray"}
      BY <3>1 DEF HandlerStep, Sampled, StoredWord, StoredSlot, Stored, WriteAdvanced,
         PutInRing, Woken, Signalled, Starts, histVars
    <3> QED
      BY <3>1, <3>2 DEF OnlyPollPromises
  <2>2. CASE Wait \/ ReadReturns \/ PollStep \/ PollTimeout
    <3>1. flags' \subseteq flags \cup {"intr", "stray"} \/ stage = 4
      BY <2>2, WaitShape, PollStepShape, PollTimeoutShape DEF ReadReturns
    <3> QED
      BY <2>2, <3>1, ProcessFrame DEF OnlyPollPromises, Process
  <2>3. CASE Edge \/ Interrupt \/ TimerFires \/ JobStop \/ UNCHANGED vars
              \/ \E h \in {"task", "work", "thread"} : DeferredRun(h)
    BY <2>3 DEF Edge, Interrupt, TimerFires, DeferredRun, JobStop, vars, progVars,
       histVars, OnlyPollPromises
  <2>4. CASE SigHandler \/ Main \/ ReadStep \/ NonblockTest \/ FasyncStep
    BY <2>4 DEF SigHandler, Main, ReadStep, NonblockTest, FasyncStep, progVars, histVars,
       OnlyPollPromises
  <2> QED
    BY <2>1, <2>2, <2>3, <2>4 DEF Next, Handlers, Process
<1> QED
  BY <1>1, <1>2, ProgramsAreFollowed, PTL DEF Spec

-----------------------------------------------------------------------------
(* Stage 05: one read for each signal.                                      *)

\* Keys whose signal has been dealt with, one way or the other.
Raised == puts - One(InHard \in {"inc_w", "wake_up", "kill_fasync"})

\* Each of them found a signal pending, or has been read, or is the one whose
\* signal is pending, or the one whose handler runs.
SigioInv ==
  stage = 5 /\ fasync /\ flags = {} /\ reads < BUF_LEN =>
    Raised = unsignalled + reads + One("SIGIO" \in sig) + One(inSig)

(* The handler keeps the account of the signals.                            *)
LEMMA SignalRaised ==
  ASSUME Shape, PutsHaveEdges, UnsignalledArePut, BufferTypes, SigioInv, HardStep,
         stage = 5, stage' = stage
  PROVE  SigioInv'
<1>1. /\ HandlerStep("hard", InHard) /\ HardMove /\ UNCHANGED <<fasync, inSig>>
  BY HardStepShape DEF HardStep, procVars
<1>2. puts \in Nat /\ unsignalled \in Nat /\ reads \in Nat
  BY DEF PutsHaveEdges, UnsignalledArePut, Shape, PlainTypes
<1>3. flags \subseteq flags' /\ reads' = reads
  BY <1>1, HandlerWakes, HandlerFrame
<1>4. CASE InHard = "kill_fasync"
  <2>1. Signalled /\ InHard' = "idle"
    BY <1>1, <1>4 DEF HandlerStep, HardMove
  <2>2. /\ UNCHANGED <<puts, flags>>
        /\ fasync => /\ "SIGIO" \in sig'
                     /\ unsignalled' = unsignalled + One("SIGIO" \in sig)
    BY <1>2, <2>1 DEF Signalled, One
  <2> QED
    BY <1>1, <1>2, <1>3, <1>4, <2>1, <2>2 DEF SigioInv, Raised, One
<1>5. CASE InHard = "store_slot"
  <2>1. /\ puts' = puts + 1 /\ unsignalled' = unsignalled /\ InHard' = "inc_w"
        /\ flags' \subseteq flags \cup {"overrun", "stray"} /\ sig' = sig
    BY <1>1, <1>5, SlotStored DEF HardMove, HandlerStep, StoredSlot, Stored
  <2> QED
    BY <1>1, <1>2, <1>3, <1>5, <2>1 DEF SigioInv, Raised, One
<1>6. CASE InHard \in {"sample", "inc_w", "wake_up"}
  <2>1. UNCHANGED <<puts, unsignalled, flags, sig>>
    BY <1>1, <1>6 DEF HandlerStep, Sampled, WriteAdvanced, Woken, histVars
  <2>2. One(InHard \in {"inc_w", "wake_up", "kill_fasync"})'
          = One(InHard \in {"inc_w", "wake_up", "kill_fasync"})
    BY <1>1, <1>6 DEF HardMove, One
  <2> QED
    BY <1>1, <1>3, <2>1, <2>2 DEF SigioInv, Raised, One
<1> QED
  BY <1>1, <1>4, <1>5, <1>6 DEF HardMove

(* Every step keeps it.                                                     *)
LEMMA SigioKept ==
  ASSUME Shape, PutsHaveEdges, UnsignalledArePut, BufferTypes, OnlyPollPromises, SigioInv,
         [Next]_vars
  PROVE  SigioInv'
<1> SUFFICES ASSUME stage = 5, stage' = stage
             PROVE  SigioInv'
  BY EdgeShape, InterruptShape, TimerShape, DeferredShape, HardStepShape, SoftStepShape,
     JobStopShape, ProcessFrame, StutterShape DEF Next, Handlers, SigioInv
<1>0. puts \in Nat /\ unsignalled \in Nat /\ reads \in 0 .. BUF_LEN /\ BUF_LEN \in Nat
  BY BufAssumption DEF PutsHaveEdges, UnsignalledArePut, Shape, PlainTypes
<1>1. ASSUME One(InHard \in {"inc_w", "wake_up", "kill_fasync"})'
               = One(InHard \in {"inc_w", "wake_up", "kill_fasync"}),
             UNCHANGED <<puts, unsignalled, reads, inSig, fasync>>,
             "SIGIO" \in sig' <=> "SIGIO" \in sig,
             flags \subseteq flags', flags' \ flags \subseteq {"intr", "stray"}
      PROVE  SigioInv'
  BY <1>1 DEF SigioInv, Raised, One
<1>2. CASE Edge \/ Interrupt \/ TimerFires \/ UNCHANGED vars
            \/ \E h \in {"task", "work", "thread"} : DeferredRun(h)
  <2>1. One(InHard \in {"inc_w", "wake_up", "kill_fasync"})'
          = One(InHard \in {"inc_w", "wake_up", "kill_fasync"})
    BY <1>2, EdgeShape, InterruptShape, TimerShape, DeferredShape, StutterShape DEF One
  <2>2. UNCHANGED <<puts, unsignalled, reads, inSig, fasync, sig, flags>>
    BY <1>2 DEF Edge, Interrupt, TimerFires, DeferredRun, vars, procVars, sleepVars,
       histVars
  <2> QED
    BY <1>1, <2>1, <2>2
<1>3. CASE HardStep
  BY <1>3, SignalRaised
<1>4. CASE SoftStep
  BY <1>4, SoftStepShape
<1>5. ASSUME Process \/ JobStop
      PROVE  One(InHard \in {"inc_w", "wake_up", "kill_fasync"})'
               = One(InHard \in {"inc_w", "wake_up", "kill_fasync"})
  BY <1>5, ProcessKeepsHandlers DEF One
<1>6. CASE JobStop
  <2>1. sig' = sig \cup {"SIGCONT"}
        /\ UNCHANGED <<puts, unsignalled, reads, inSig, fasync, flags>>
    BY <1>6 DEF JobStop, procVars, histVars
  <2> QED
    BY <1>1, <1>5, <1>6, <2>1
<1>7. CASE Main \/ ReadStep \/ Wait
  <2>1. UNCHANGED <<puts, unsignalled, reads, inSig, fasync, sig>>
    BY <1>7 DEF Main, ReadStep, Wait, sleepVars, histVars
  <2>2. flags \subseteq flags' /\ flags' \ flags \subseteq {"intr", "stray"}
    BY <1>7, WaitShape DEF Main, ReadStep, histVars
  <2> QED
    BY <1>1, <1>5, <1>7, <2>1, <2>2 DEF Process
<1>8. CASE SigHandler
  <2>1. /\ ~inSig /\ "SIGIO" \in sig /\ inSig' = TRUE /\ sig' = sig \ {"SIGIO"}
        /\ UNCHANGED <<puts, unsignalled, reads, fasync, flags>>
    BY <1>8 DEF SigHandler, histVars
  <2> QED
    BY <1>0, <1>5, <1>8, <2>1 DEF SigioInv, Raised, One, Process
<1>9. CASE ReadReturns
  <2>1. inSig
    BY <1>9, ReadReturnsShape DEF Shape, SigioShape
  <2>2. /\ inSig' = FALSE /\ sig' = sig \ {"SIGCONT"}
        /\ reads' = (IF reads < BUF_LEN THEN reads + 1 ELSE reads)
        /\ flags' = flags \ {"promised"} /\ UNCHANGED <<puts, unsignalled, fasync>>
    BY <1>9 DEF ReadReturns, Return
  <2>3. flags' = flags
    BY <2>2 DEF OnlyPollPromises
  <2> QED
    BY <1>0, <1>5, <1>9, <2>1, <2>2, <2>3 DEF SigioInv, Raised, One, Process
<1>10. CASE FasyncStep
  <2>1. /\ fasync' = TRUE /\ unsignalled' = puts /\ sig' = sig \ {"SIGCONT"}
        /\ inSig' = FALSE /\ UNCHANGED <<puts, reads, flags>>
    BY <1>10 DEF FasyncStep, Return
  <2>2. "SIGIO" \notin sig /\ reads = 0
    BY <1>10, FasyncStepShape DEF Shape, SigioShape
  <2>3. InHard' = "idle"
    BY <1>10, FasyncStepShape DEF NoHandler
  <2> QED
    BY <1>0, <2>1, <2>2, <2>3 DEF SigioInv, Raised, One
<1>11. CASE NonblockTest \/ PollStep \/ PollTimeout
  BY <1>11, NonblockTestShape, PollStepShape, PollTimeoutShape
<1> QED
  BY <1>2, <1>3, <1>4, <1>6, <1>7, <1>8, <1>9, <1>10, <1>11 DEF Next, Handlers, Process

(* Signals are accounted for.                                               *)
THEOREM SignalsAreAccountedFor == Spec => []SigioInv
<1>1. Init => SigioInv
  BY DEF Init, SigioInv
<1>2. Typed /\ OnlyPollPromises /\ SigioInv /\ [Next]_vars => SigioInv'
  BY SigioKept DEF Typed
<1> QED
  BY <1>1, <1>2, StagesTyped, PromisesArePolls, PTL DEF Spec

(* When all is quiet stage 05 is behind by the keys whose signal found one  *)
(* pending, and by no others.                                               *)
THEOREM BehindBySignals == Spec => []BehindByCoalescedSignals
<1>1. Typed /\ SigioInv /\ SlotsAhead => BehindByCoalescedSignals
  <2> SUFFICES ASSUME Typed, SigioInv, SlotsAhead, stage = 5, Quiet, call = "user", ~inSig,
                      sig = {}, flags = {}, reads < BUF_LEN, fasync
               PROVE  puts - lastSeq = unsignalled
    BY DEF BehindByCoalescedSignals
  <2>1. /\ puts \in Nat /\ unsignalled \in Nat /\ lastSeq = reads /\ reads \in Nat
    BY DEF Typed, PutsHaveEdges, UnsignalledArePut, Shape, PlainTypes, SlotsAhead
  <2>2. InHard = "idle"
    BY DEF Quiet, InHard, NextOf
  <2> QED
    BY <2>1, <2>2 DEF SigioInv, Raised, One
<1> QED
  BY <1>1, StagesTyped, SignalsAreAccountedFor, SlotsInOrder, PTL

-----------------------------------------------------------------------------
(* Stage 04: poll.                                                          *)

\* Slots that keys have come to are not empty and the others are; until the
\* writer's round is over the reader is not ahead of it, and it is behind it
\* once poll has said so.
PollInv ==
  stage = 4 =>
    /\ \A i \in 0 .. BUF_LEN - 1 : i < puts => slots[i].seq # 0
    /\ \A i \in 0 .. BUF_LEN - 1 : i >= puts => slots[i].seq = 0
    /\ puts < BUF_LEN /\ "intr" \notin flags =>
         /\ g_key_r >= 0 /\ g_key_r + One(InCall \in {"copy_slot", "inc_r"}) <= puts
         /\ "promised" \in flags /\ InCall # "return4" => g_key_r < puts
    /\ "promised" \in flags /\ call = "read" /\ gpio # 0 /\ "intr" \notin flags =>
         where # "asleep"

(* A key stored in stage 04 leaves no slot before it empty.                 *)
LEMMA PollStored ==
  ASSUME Shape, PutsHaveEdges, BufferTypes, CounterInv, PollInv, HardStep, stage = 4,
         InHard = "store_slot"
  PROVE  PollInv'
<1>1. /\ HandlerStep("hard", "store_slot") /\ InCall' = InCall /\ stage' = stage
      /\ ~Halted /\ UNCHANGED <<call, gpio>>
  BY HardStepShape DEF HardStep, procVars, progVars
<1>2. /\ puts' = puts + 1 /\ g_key_r' = g_key_r
      /\ flags \subseteq flags' /\ flags' \subseteq flags \cup {"overrun", "stray"}
      /\ where' \in {where, "run"}
  BY <1>1, SlotStored, HandlerFrame
<1>3. puts \in Nat /\ BUF_LEN \in Nat /\ Half \in Nat /\ Half >= BUF_LEN /\ g_key_r \in Int
  BY BufAssumption, HalfAssumption DEF PutsHaveEdges, BufferTypes
<1>4. \A i \in 0 .. BUF_LEN - 1 :
        (i < puts' => slots'[i].seq # 0) /\ (i >= puts' => slots'[i].seq = 0)
  <2> SUFFICES ASSUME NEW i \in 0 .. BUF_LEN - 1
               PROVE  /\ i < puts + 1 => slots'[i].seq # 0
                      /\ i >= puts + 1 => slots'[i].seq = 0
    BY <1>2
  <2>1. (i < puts => slots[i].seq # 0) /\ (i >= puts => slots[i].seq = 0)
    BY DEF PollInv
  <2>2. CASE ~InBuffer(Slot(g_key_w))
    <3>1. slots' = slots
      BY <1>1, <2>2, SlotStored
    <3>2. Counted = puts
      BY <1>3 DEF Counted, One
    <3>3. puts >= Half
      BY <1>3, <2>2, <3>2, SlotInBuffer DEF CounterInv
    <3> QED
      BY <1>3, <2>1, <3>1, <3>3
  <2>3. CASE InBuffer(Slot(g_key_w))
    <3>1. Slot(g_key_w) = puts % BUF_LEN
      BY <1>1, <1>3, <2>3, StoreGoesTo
    <3>2. /\ slots'[Slot(g_key_w)].seq = puts + 1
          /\ i # Slot(g_key_w) => slots'[i] = slots[i]
      BY <1>1, <2>3, SlotStored
    <3>3. CASE puts < BUF_LEN
      <4>1. Slot(g_key_w) = puts
        BY <1>3, <3>1, <3>3, FirstRound
      <4> QED
        BY <1>3, <2>1, <3>2, <4>1
    <3>4. CASE puts >= BUF_LEN
      BY <1>3, <2>1, <3>2, <3>4
    <3> QED
      BY <1>3, <3>3, <3>4
  <2> QED
    BY <2>2, <2>3
<1>5. puts' < BUF_LEN /\ "intr" \notin flags' =>
        /\ g_key_r' >= 0 /\ (g_key_r + One(InCall \in {"copy_slot", "inc_r"}) <= puts)'
        /\ "promised" \in flags' /\ InCall' # "return4" => g_key_r' < puts'
  BY <1>1, <1>2, <1>3 DEF PollInv, One
<1> QED
  BY <1>1, <1>2, <1>4, <1>5 DEF PollInv

(* Every step keeps what is said of poll and its reader.                    *)
LEMMA PollKept ==
  ASSUME Shape, PutsHaveEdges, BufferTypes, CounterInv, PollInv, [Next]_vars
  PROVE  PollInv'
<1> SUFFICES ASSUME stage = 4, stage' = stage
             PROVE  PollInv'
  BY EdgeShape, InterruptShape, TimerShape, DeferredShape, HardStepShape, SoftStepShape,
     JobStopShape, ProcessFrame, StutterShape DEF Next, Handlers, PollInv
<1>0. /\ puts \in Nat /\ g_key_r \in Int /\ BUF_LEN \in Nat /\ Half \in Nat
      /\ Half >= BUF_LEN /\ BUF_LEN > 1
  BY BufAssumption, HalfAssumption DEF PutsHaveEdges, BufferTypes
<1>1. ASSUME InCall' = InCall \/ {InCall, InCall'} \cap {"copy_slot", "inc_r", "return4"} = {},
             UNCHANGED <<slots, g_key_r, puts, gpio>>,
             flags \subseteq flags', flags' \ flags \subseteq {"intr", "stray"},
             where' = "asleep" /\ call' = "read" => where = "asleep" /\ call = "read"
      PROVE  PollInv'
  <2>1. One(InCall \in {"copy_slot", "inc_r"})' = One(InCall \in {"copy_slot", "inc_r"})
    BY <1>1 DEF One
  <2>2. InCall' # "return4" => InCall # "return4"
    BY <1>1
  <2> QED
    BY <1>1, <2>1, <2>2 DEF PollInv
<1>2. CASE Edge \/ Interrupt \/ TimerFires \/ JobStop \/ UNCHANGED vars
            \/ \E h \in {"task", "work", "thread"} : DeferredRun(h)
  <2>1. InCall' = InCall
    BY <1>2, EdgeShape, InterruptShape, TimerShape, DeferredShape, JobStopShape,
       StutterShape
  <2>2. UNCHANGED <<slots, g_key_r, puts, flags, gpio, call>>
        /\ (where' = "asleep" => where = "asleep")
    BY <1>2 DEF Edge, Interrupt, TimerFires, DeferredRun, JobStop, vars, progVars, bufVars,
       procVars, sleepVars, histVars
  <2> QED
    BY <1>1, <2>1, <2>2
<1>3. CASE HardStep
  <2>1. /\ HandlerStep("hard", InHard) /\ HardMove /\ InCall' = InCall
        /\ UNCHANGED <<gpio, call>>
    BY <1>3, HardStepShape DEF HardStep, procVars, progVars
  <2>2. CASE InHard = "store_slot"
    BY <1>3, <2>2, PollStored
  <2>3. CASE InHard \in {"sample", "inc_w", "wake_up"}
    <3>1. UNCHANGED <<slots, g_key_r, puts, flags>> /\ where' \in {where, "run"}
      BY <2>1, <2>3, HandlerWakes, HandlerPuts, HandlerFrame
    <3> QED
      BY <1>1, <2>1, <3>1
  <2> QED
    BY <2>1, <2>2, <2>3 DEF HardMove
<1>4. CASE SoftStep \/ SigHandler \/ FasyncStep \/ NonblockTest
  BY <1>4, SoftStepShape, SigHandlerShape, FasyncStepShape, NonblockTestShape
<1>5. CASE Main
  <2>1. UNCHANGED <<slots, g_key_r, puts, flags, gpio>> /\ where' = "run"
    BY <1>5, MainShape DEF Main, progVars, bufVars, sleepVars, histVars
  <2>2. {InCall, InCall'} \cap {"copy_slot", "inc_r", "return4"} = {}
    BY <1>5, MainShape DEF MainMove
  <2> QED
    BY <1>1, <2>1, <2>2
<1>6. CASE Wait
  <2>1. /\ UNCHANGED <<slots, g_key_r, puts, gpio, call>> /\ InCall = "wait_slot"
    <3>1. InCall = "wait_slot"
      BY <1>6, WaitShape, CallPlaces DEF Shape, CallPlace, Waits
    <3> QED
      BY <1>6, <3>1 DEF Wait, progVars, bufVars
  <2>2. CASE InCall' = "copy_slot" /\ where' = "run" /\ flags' = flags \cup {"intr"}
    BY <2>1, <2>2 DEF PollInv
  <2>3. CASE InCall' = "copy_slot" /\ where' = "run" /\ flags' = flags /\ ReadCondition
    <3>1. puts < BUF_LEN /\ "intr" \notin flags => g_key_r < puts
      <4> SUFFICES ASSUME puts < BUF_LEN, "intr" \notin flags PROVE g_key_r < puts
        OBVIOUS
      <4>1. g_key_r >= 0 /\ g_key_r <= puts
        BY <1>0, <2>1 DEF PollInv, One
      <4>2. Slot(g_key_r) = g_key_r /\ g_key_r \in 0 .. BUF_LEN - 1
        BY <1>0, <4>1, SlotInBuffer, FirstRound
      <4>3. slots[g_key_r].seq # 0
        BY <2>1, <2>3, <4>2, ReadyIs DEF IsZero
      <4> QED
        BY <1>0, <4>1, <4>2, <4>3 DEF PollInv
    <3> QED
      BY <1>0, <2>1, <2>3, <3>1 DEF PollInv, One
  <2>4. CASE InCall' = InCall /\ where' = "queued" /\ flags' = flags
    BY <1>1, <2>1, <2>4
  <2>5. CASE /\ InCall' = InCall /\ where' = "asleep" /\ ~ReadCondition
             /\ flags' = flags
    <3>1. ASSUME "promised" \in flags, gpio # 0, "intr" \notin flags PROVE FALSE
      <4>1. slots[Slot(g_key_r)].seq = 0
        BY <2>1, <2>5, <3>1, ReadyIs DEF IsZero
      <4>2. InBuffer(Slot(g_key_r))
        <5>1. ~Halted /\ ~("stray" \in flags')
          BY <1>6, <2>5 DEF Wait, CanRun, Halted
        <5> QED
          BY <1>6, <5>1, WaitShape
      <4>3. puts < BUF_LEN
        BY <1>0, <4>1, <4>2 DEF PollInv, InBuffer
      <4>4. g_key_r >= 0 /\ g_key_r < puts
        BY <2>1, <3>1, <4>3 DEF PollInv
      <4>5. Slot(g_key_r) = g_key_r
        BY <1>0, <4>3, <4>4, SlotInBuffer, FirstRound
      <4> QED
        BY <1>0, <4>1, <4>3, <4>4, <4>5 DEF PollInv
    <3> QED
      BY <2>1, <2>5, <3>1 DEF PollInv, One
  <2>6. CASE /\ InCall' = InCall /\ where' = where /\ flags' = flags \cup {"stray"}
    BY <1>1, <2>1, <2>6
  <2> QED
    BY <1>6, <2>1, <2>2, <2>3, <2>4, <2>5, <2>6, WaitShape DEF CallNext
<1>7. CASE ReadStep
  <2>1. /\ ReadMove /\ where' = "run" /\ UNCHANGED <<puts, flags, gpio>>
    BY <1>7, ReadStepShape DEF ReadStep, progVars, sleepVars, histVars
  <2>2. CASE InCall = "copy_slot" /\ InCall' = "inc_r" /\ UNCHANGED <<slots, g_key_r>>
    BY <2>1, <2>2 DEF PollInv, One
  <2>3. CASE InCall = "inc_r" /\ InCall' = "return4" /\ slots' = slots
             /\ g_key_r' = Wrap(g_key_r)
    BY <1>0, <2>1, <2>3 DEF PollInv, One, Wrap
  <2> QED
    BY <2>1, <2>2, <2>3 DEF ReadMove
<1>8. CASE ReadReturns
  <2>1. /\ InCall = "return4" /\ InCall' = "idle" /\ where' = "run"
        /\ UNCHANGED <<slots, g_key_r, puts>> /\ flags' = flags \ {"promised"}
    BY <1>8, ReadReturnsShape DEF ReadReturns, bufVars
  <2> QED
    BY <2>1 DEF PollInv, One
<1>9. CASE PollStep \/ PollTimeout
  <2>1. /\ UNCHANGED <<slots, g_key_r, g_key_w, puts, gpio>>
    BY <1>9 DEF PollStep, PollTimeout, progVars, bufVars
  <2>2. /\ call = "poll" /\ InHard = "idle"
        /\ InCall \notin {"copy_slot", "inc_r", "return4"}
    <3>1. call = "poll" /\ InHard = "idle"
      BY <1>9, PollStepShape, PollTimeoutShape DEF NoHandler
    <3> QED
      BY <3>1, CallPlaces DEF Shape, CallPlace
  <2>3. CASE /\ flags' = flags /\ InCall' \in {"idle", "poll_wait", "poll_test"}
             /\ call' # "read" \/ where' = "run"
    BY <2>1, <2>2, <2>3, <1>1
  <2>4. CASE /\ InCall' = "idle" /\ where' = "run" /\ g_key_r # g_key_w
             /\ flags' = flags \cup {"promised"}
    <3>1. puts < BUF_LEN => g_key_w = puts
      <4>1. Counted = puts
        BY <1>0, <2>2 DEF Counted, One
      <4> QED
        BY <1>0, <4>1 DEF CounterInv
    <3> QED
      BY <1>0, <2>1, <2>2, <2>4, <3>1 DEF PollInv, One
  <2> QED
    BY <1>9, <2>3, <2>4, PollStepShape, PollTimeoutShape
<1> QED
  BY <1>2, <1>3, <1>4, <1>5, <1>6, <1>7, <1>8, <1>9 DEF Next, Handlers, Process

(* What poll promises the read of stage 04 finds.                           *)
THEOREM PollTellsTheTruth == Spec => []PollKeepsItsWord
<1>1. Init => PollInv
  <2> SUFFICES ASSUME Init, stage = 4 PROVE PollInv
    BY DEF PollInv
  <2>1. /\ InCall = "idle" /\ puts = 0 /\ g_key_r = 0 /\ flags = {}
        /\ \A i \in 0 .. BUF_LEN - 1 : slots[i].seq = 0
    BY DEF Init, InCall, NextOf, NoWord
  <2> QED
    BY <2>1 DEF PollInv, One
<1>2. Typed /\ CounterInv /\ PollInv /\ [Next]_vars => PollInv'
  BY PollKept DEF Typed
<1>3. OnlyPollPromises /\ PollInv => PollKeepsItsWord
  BY DEF OnlyPollPromises, PollInv, PollKeepsItsWord
<1> QED
  BY <1>1, <1>2, <1>3, StagesTyped, WriterCounts, PromisesArePolls, PTL DEF Spec
=============================================================================
