--------------------------- MODULE KeyDriverProofs ---------------------------
(***************************************************************************)
(* Safety of the key driver, for every buffer length, set of keys, set of  *)
(* deferred handlers and set of readers.                                   *)
(***************************************************************************)
EXTENDS KeyDriver, KeyRingLemmas

USE DEF vars, ringVars, hwVars, timerVars, procVars, kernVars, countVars

(* The state a successful probe leaves has its types.                      *)
LEMMA InitTypeOK == Init => TypeOK
<1> SUFFICES ASSUME Init PROVE TypeOK
  OBVIOUS
<1>1. ZeroWord \in Event
  BY DEF ZeroWord, Event
<1>2. /\ g_key \in [Slots -> Event] /\ g_key_r \in Slots /\ g_key_w \in Slots
      /\ out \in Event \cup {NoKey}
  BY <1>1, BufLenAssumption DEF Init, RingInit, Slots
<1>3. /\ pending \in [Keys -> SUBSET Handlers]
      /\ seen \in [Handlers -> [Keys -> 0 .. 1]]
  BY DEF Init, Handlers
<1>4. /\ pc \in [Readers -> Places]
      /\ \A p \in Readers : pc[p] \notin Holding
  BY DEF Init, Places, Holding
<1>5. /\ snap \in [Readers -> Slots]
      /\ key \in [Readers -> Event \cup {NoKey}]
      /\ sig \in [Readers -> SUBSET Signals]
      /\ inSig \in [Readers -> BOOLEAN]
  BY BufLenAssumption DEF Init, Slots
<1>6. ret \in [Readers -> {"none", "4", "EAGAIN", "POLLIN", "0", "EINTR"}]
  BY DEF Init
<1>7. edges \in 0 .. MaxEdges /\ stops \in 0 .. MaxStops
  BY BoundsAssumption DEF Init
<1>8. QED
  BY <1>2, <1>3, <1>4, <1>5, <1>6, <1>7 DEF Init, TypeOK

(* The keys and their handlers keep the types.                             *)
LEMMA HandlersKeepTypes ==
  ASSUME TypeOK, NEW k \in Keys,
         Edge(k) \/ keys_irq(k) \/ DeferredHandler(k) \/ TimerSample(k)
  PROVE  TypeOK'
<1>1. CASE Edge(k)
  BY <1>1, BoundsAssumption DEF Edge, TypeOK
<1>2. CASE keys_irq(k)
  BY <1>2 DEF keys_irq, Started, TypeOK
<1>3. ASSUME NEW h \in Handlers, DeferredRun(h, k) PROVE TypeOK'
  BY <1>3 DEF DeferredRun, TypeOK
<1>4. CASE DeferredHandler(k)
  BY <1>3, <1>4 DEF DeferredHandler, key_task_func, key_work_func,
     keys_thread_irq, Handlers
<1>5. CASE TimerSample(k)
  BY <1>5 DEF TimerSample, Disarmed, TypeOK, Handlers
<1>6. QED
  BY <1>1, <1>2, <1>4, <1>5

(* The report of the timer handler keeps the types.                        *)
LEMMA ReportKeepsTypes ==
  ASSUME TypeOK, TimerReport
  PROVE  TypeOK'
<1> DEFINE word == [gpio |-> FirstKey, val |-> soft.val,
                    src |-> soft.src, seq |-> puts + 1]
<1>1. word \in Event
  BY KeysAssumption DEF TimerReport, TypeOK, Event
<1>2. g_key' \in [Slots -> Event] /\ g_key_w' \in Slots
  BY <1>1, AdvanceInRange DEF TimerReport, put_key, TypeOK
<1>3. sig' \in [Readers -> SUBSET Signals]
  BY DEF TimerReport, TypeOK, Signals
<1>4. lapped' \in BOOLEAN
  BY DEF TimerReport
<1>5. QED
  BY <1>2, <1>3, <1>4 DEF TimerReport, put_key, wake_up_interruptible, TypeOK

(* A process inside read keeps the types.                                  *)
LEMMA ReadKeepsTypes ==
  ASSUME TypeOK, NEW p \in Readers, InRead(p)
  PROVE  TypeOK'
<1> USE DEF At, Goto, Return
<1>1. CASE CheckLoad(p)
  BY <1>1 DEF CheckLoad, LoadReadIndex, TypeOK, Places, Testing, Holding
<1>2. CASE CheckNonblock(p)
  <2>1. /\ pc' \in [Readers -> Places]
        /\ \A q \in Readers : pc'[q] \in Holding => pc[q] \in Holding
    BY <1>2 DEF CheckNonblock, TypeOK, Places, Passed, Holding
  <2>2. /\ inSig' \in [Readers -> BOOLEAN]
        /\ ret' \in [Readers -> {"none", "4", "EAGAIN", "POLLIN", "0", "EINTR"}]
    BY <1>2 DEF CheckNonblock, TypeOK
  <2>3. QED
    BY <1>2, <2>1, <2>2 DEF CheckNonblock, TypeOK
<1>3. CASE WaitTest(p)
  BY <1>3 DEF WaitTest, TypeOK, Places, Holding
<1>4. CASE Prepare(p)
  BY <1>4 DEF Prepare, TypeOK, Places, Holding
<1>5. CASE Retest(p)
  BY <1>5 DEF Retest, TypeOK, Places, Holding, is_key_buf_empty
<1>6. CASE Awake(p)
  BY <1>6 DEF Awake, AfterSleep, TypeOK, Places, Holding
<1>7. CASE GetFirst(p)
  BY <1>7 DEF GetFirst, LoadReadIndex, TypeOK, Places, Testing, Holding
<1>8. CASE GetTest(p)
  <2>1. /\ pc' \in [Readers -> Places]
        /\ \A q \in Readers : pc'[q] \in Holding => q # p /\ pc[q] \in Holding
    BY <1>8 DEF GetTest, TypeOK, Places, Passed, Holding
  <2>2. /\ key' = [key EXCEPT ![p] = NoKey] \/ key' = key
        /\ out' = NoKey \/ out' = out
    BY <1>8 DEF GetTest
  <2>3. /\ key' \in [Readers -> Event \cup {NoKey}]
        /\ \A q \in Readers : q # p => key'[q] = key[q]
    BY <2>2 DEF TypeOK
  <2>4. /\ inSig' \in [Readers -> BOOLEAN]
        /\ ret' \in [Readers -> {"none", "4", "EAGAIN", "POLLIN", "0", "EINTR"}]
    BY <1>8 DEF GetTest, TypeOK
  <2>5. UNCHANGED <<g_key, g_key_r, g_key_w, hwVars, timerVars, snap, O_NONBLOCK,
                    kernVars, countVars>>
    BY <1>8 DEF GetTest
  <2>6. QED
    BY <2>1, <2>2, <2>3, <2>4, <2>5 DEF TypeOK
<1>9. CASE GetIndex(p) \/ GetNext(p)
  <2>1. /\ pc' \in [Readers -> Places]
        /\ \A q \in Readers : pc'[q] \in Holding => pc[q] \in Holding
    BY <1>9 DEF GetIndex, GetNext, TypeOK, Places, Passed, Holding
  <2>2. snap' \in [Readers -> Slots] /\ torn' \in BOOLEAN
    BY <1>9 DEF GetIndex, GetNext, ReuseOrReload, LoadReadIndex, TypeOK
  <2>3. QED
    BY <1>9, <2>1, <2>2 DEF GetIndex, GetNext, ReuseOrReload, TypeOK
<1>10. CASE GetLoad(p)
  BY <1>10 DEF GetLoad, TypeOK, Places, Holding
<1>11. CASE GetStore(p)
  BY <1>11, AdvanceInRange DEF GetStore, NextIndex, TypeOK, Places, Holding, Event
<1>12. QED
  BY <1>1, <1>2, <1>3, <1>4, <1>5, <1>6, <1>7, <1>8, <1>9, <1>10, <1>11
     DEF InRead, InGetKey

(* A process in poll, at a system call or at a signal keeps the types.     *)
LEMMA OtherCallsKeepTypes ==
  ASSUME TypeOK, NEW p \in Readers,
         InPoll(p) \/ SystemCall(p) \/ TakeSignal(p) \/ JobStop(p)
  PROVE  TypeOK'
<1> USE DEF At, Goto, Return
<1>1. CASE PollQueue(p)
  BY <1>1 DEF PollQueue, TypeOK, Places, Holding
<1>2. CASE PollTest(p)
  BY <1>2 DEF PollTest, TypeOK, Places, Holding
<1>3. CASE PollAwake(p)
  BY <1>3 DEF PollAwake, TypeOK, Places, Holding
<1>4. CASE Read(p)
  BY <1>4 DEF Read, EnterRead, TypeOK, Places, Holding
<1>5. CASE Poll(p)
  BY <1>5 DEF Poll, TypeOK, Places, Holding
<1>6. ASSUME NEW on \in BOOLEAN, keys_fasync(p, on) PROVE TypeOK'
  BY <1>6 DEF keys_fasync, TypeOK
<1>7. ASSUME NEW on \in BOOLEAN, SetNonblock(p, on) PROVE TypeOK'
  BY <1>7 DEF SetNonblock, TypeOK
<1>8. CASE sig_func(p)
  BY <1>8 DEF sig_func, EnterRead, TypeOK, Places, Holding
<1>9. CASE JobContinue(p)
  BY <1>9 DEF JobContinue, TypeOK
<1>10. CASE JobStop(p)
  BY <1>10, BoundsAssumption DEF JobStop, TypeOK, Signals
<1>11. QED
  BY <1>1, <1>2, <1>3, <1>4, <1>5, <1>6, <1>7, <1>8, <1>9, <1>10
     DEF InPoll, SystemCall, TakeSignal

(* Every variable keeps its type and both indices stay inside the array,   *)
(* however interrupts, timer and processes interleave.                     *)
THEOREM DriverTypeCorrect == Spec => []TypeOK
<1>1. TypeOK /\ UNCHANGED vars => TypeOK'
  BY DEF TypeOK
<1>2. TypeOK /\ [Next]_vars => TypeOK'
  BY <1>1, HandlersKeepTypes, ReportKeepsTypes, ReadKeepsTypes,
     OtherCallsKeepTypes DEF Next
<1>3. QED
  BY <1>2, InitTypeOK, PTL DEF Spec

-----------------------------------------------------------------------------
(* Only the keys and their handlers touch what NoEdgeForgotten is about.   *)
LEMMA ProcessesLeaveHandlers ==
  ASSUME TimerReport \/ (\E p \in Readers : InRead(p) \/ InPoll(p) \/ SystemCall(p)
                                           \/ TakeSignal(p) \/ JobStop(p))
  PROVE  UNCHANGED <<level, irq, pending, seen>>
<1>1. ASSUME NEW p \in Readers, InRead(p) PROVE UNCHANGED <<level, irq, pending, seen>>
  BY <1>1 DEF InRead, CheckLoad, CheckNonblock, WaitTest, Prepare, Retest, Awake,
     InGetKey, GetFirst, GetTest, GetIndex, GetLoad, GetNext, GetStore, ReuseOrReload
<1>2. ASSUME NEW p \in Readers, InPoll(p) PROVE UNCHANGED <<level, irq, pending, seen>>
  BY <1>2 DEF InPoll, PollQueue, PollTest, PollAwake
<1>3. ASSUME NEW p \in Readers, SystemCall(p) \/ TakeSignal(p) \/ JobStop(p)
      PROVE  UNCHANGED <<level, irq, pending, seen>>
  BY <1>3 DEF SystemCall, Read, Poll, EnterRead, keys_fasync, SetNonblock,
     TakeSignal, sig_func, JobContinue, JobStop
<1>4. QED
  BY <1>1, <1>2, <1>3 DEF TimerReport

(* No edge is forgotten: for every set of deferred handlers, a handler     *)
(* whose last look is out of date is pending or about to be (lines 73-79). *)
THEOREM EdgesAreOwed == Spec => []NoEdgeForgotten
<1>1. Init => NoEdgeForgotten
  BY DEF Init, NoEdgeForgotten
<1>2. TypeOK /\ NoEdgeForgotten /\ [Next]_vars => NoEdgeForgotten'
  <2> SUFFICES ASSUME TypeOK, NoEdgeForgotten, [Next]_vars
               PROVE  NoEdgeForgotten'
    OBVIOUS
  <2>1. ASSUME NEW k \in Keys, Edge(k) PROVE NoEdgeForgotten'
    BY <2>1 DEF Edge, NoEdgeForgotten, TypeOK
  <2>2. ASSUME NEW k \in Keys, keys_irq(k) PROVE NoEdgeForgotten'
    BY <2>2 DEF keys_irq, Started, NoEdgeForgotten, TypeOK
  <2>3. ASSUME NEW k \in Keys, NEW h \in Handlers, DeferredRun(h, k)
        PROVE  NoEdgeForgotten'
    BY <2>3 DEF DeferredRun, NoEdgeForgotten, TypeOK
  <2>4. ASSUME NEW k \in Keys, DeferredHandler(k) PROVE NoEdgeForgotten'
    BY <2>3, <2>4 DEF DeferredHandler, key_task_func, key_work_func,
       keys_thread_irq, Handlers
  <2>5. ASSUME NEW k \in Keys, TimerSample(k) PROVE NoEdgeForgotten'
    BY <2>5 DEF TimerSample, Disarmed, NoEdgeForgotten, TypeOK, Handlers
  <2>6. ASSUME UNCHANGED <<level, irq, pending, seen>> PROVE NoEdgeForgotten'
    BY <2>6 DEF NoEdgeForgotten
  <2>7. QED
    BY <2>1, <2>2, <2>4, <2>5, <2>6, ProcessesLeaveHandlers DEF Next
<1>3. QED
  BY <1>1, <1>2, DriverTypeCorrect, PTL DEF Spec

-----------------------------------------------------------------------------
(* What a step does to the key buffer and to the calls of get_key.         *)
Inside(p) == pc[p] \in Passed \cup Holding
GoesByIndex(p) == pc[p] \in Testing \cup Passed \cup Holding

BufferKept == UNCHANGED <<g_key, g_key_r, g_key_w, puts, lastSeq, lapped>>
Kept(q) == pc'[q] = pc[q] /\ snap'[q] = snap[q] /\ key'[q] = key[q]
OthersKept(p) == \A q \in Readers \ {p} : Kept(q)

\* The buffer is untouched, and no process enters get_key or moves in it.
Quiet ==
  /\ BufferKept /\ torn' = torn
  /\ \A p \in Readers : GoesByIndex(p)' => Kept(p)

\* p loads the read index for a test.
LoadsIndex(p) ==
  /\ BufferKept /\ OthersKept(p) /\ torn' = torn
  /\ pc'[p] \in Testing /\ snap'[p] = g_key_r

\* p has tested the index it loaded, and finds a key.
PassesTest(p) ==
  /\ BufferKept /\ OthersKept(p) /\ torn' = torn
  /\ pc[p] \in Testing /\ ~TestedEmpty(p)
  /\ pc'[p] = "index" /\ snap'[p] = snap[p]

\* p goes on with the index it has, or with the one in memory.
TakesIndexAgain(p) ==
  /\ BufferKept /\ OthersKept(p)
  /\ \/ pc[p] = "index" /\ pc'[p] = "load"
     \/ pc[p] = "next" /\ pc'[p] = "store"
  /\ key'[p] = key[p] /\ snap'[p] \in {snap[p], g_key_r}
  /\ torn' = (torn \/ snap'[p] # snap[p])

(* Every step is of one of seven kinds as far as the buffer goes.          *)
LEMMA StepKinds ==
  ASSUME TypeOK, [Next]_vars
  PROVE  \/ Quiet
         \/ TimerReport
         \/ \E p \in Readers : \/ LoadsIndex(p) \/ PassesTest(p)
                              \/ TakesIndexAgain(p) \/ GetLoad(p) \/ GetStore(p)
<1> USE DEF BufferKept, Kept, OthersKept, GoesByIndex, Testing, Passed, Holding
<1>1. ASSUME NEW k \in Keys,
             Edge(k) \/ keys_irq(k) \/ DeferredHandler(k) \/ TimerSample(k)
      PROVE  Quiet
  BY <1>1 DEF Edge, keys_irq, DeferredHandler, key_task_func, key_work_func,
     keys_thread_irq, DeferredRun, TimerSample, Quiet
<1>2. ASSUME NEW p \in Readers, CheckLoad(p) \/ GetFirst(p) PROVE LoadsIndex(p)
  BY <1>2 DEF CheckLoad, GetFirst, LoadReadIndex, Goto, LoadsIndex, TypeOK
<1>3. ASSUME NEW p \in Readers, CheckNonblock(p) PROVE Quiet \/ PassesTest(p)
  BY <1>3 DEF CheckNonblock, At, Return, Goto, Quiet, PassesTest, TypeOK
<1>4. ASSUME NEW p \in Readers, WaitTest(p) \/ Prepare(p) \/ Awake(p) PROVE Quiet
  BY <1>4 DEF WaitTest, Prepare, Awake, AfterSleep, Goto, Quiet, TypeOK
<1>5. ASSUME NEW p \in Readers, Retest(p) PROVE Quiet
  BY <1>5 DEF Retest, Goto, Quiet, TypeOK
<1>6. ASSUME NEW p \in Readers, GetTest(p) PROVE Quiet \/ PassesTest(p)
  BY <1>6 DEF GetTest, At, Return, Goto, Quiet, PassesTest, TypeOK
<1>7. ASSUME NEW p \in Readers, GetIndex(p) \/ GetNext(p) PROVE TakesIndexAgain(p)
  BY <1>7 DEF GetIndex, GetNext, ReuseOrReload, LoadReadIndex, At, Goto,
     TakesIndexAgain, TypeOK
<1>8. ASSUME NEW p \in Readers, InPoll(p) PROVE Quiet
  BY <1>8 DEF InPoll, PollQueue, PollTest, PollAwake, Return, Goto, Quiet, TypeOK
<1>9. ASSUME NEW p \in Readers, SystemCall(p) \/ TakeSignal(p) \/ JobStop(p)
      PROVE  Quiet
  BY <1>9 DEF SystemCall, Read, Poll, EnterRead, keys_fasync, SetNonblock,
     TakeSignal, sig_func, JobContinue, JobStop, Goto, Quiet, TypeOK
<1>10. CASE UNCHANGED vars
  BY <1>10 DEF Quiet
<1>11. QED
  BY <1>1, <1>2, <1>3, <1>4, <1>5, <1>6, <1>7, <1>8, <1>9, <1>10
     DEF Next, InRead, InGetKey

(* The deaf buffer again, now with the timer handler and any number of     *)
(* processes: once both indices are on the last slot and nobody is inside  *)
(* get_key, no later press is ever accepted.                               *)
THEOREM StuckIsForever == Spec => StuckForever
<1>1. TypeOK /\ [Next]_vars => (Stuck => Stuck')
  <2> SUFFICES ASSUME TypeOK, [Next]_vars, Stuck
               PROVE  Stuck'
    OBVIOUS
  <2>1. is_key_buf_empty /\ is_key_buf_full
    BY BufLenAssumption DEF Stuck, Deaf, is_key_buf_empty, is_key_buf_full
  <2>2. CASE Quiet
    BY <2>2 DEF Quiet, BufferKept, GoesByIndex, Kept, Stuck, Deaf
  <2>3. CASE TimerReport
    BY <2>1, <2>3 DEF TimerReport, put_key, Stuck, Deaf
  <2>4. ASSUME NEW p \in Readers, LoadsIndex(p) PROVE Stuck'
    BY <2>4 DEF LoadsIndex, BufferKept, OthersKept, Kept, Stuck, Deaf, Testing,
       Passed, Holding
  <2>5. ASSUME NEW p \in Readers,
               PassesTest(p) \/ TakesIndexAgain(p) \/ GetLoad(p) \/ GetStore(p)
        PROVE  FALSE
    BY <2>1, <2>5 DEF PassesTest, TakesIndexAgain, GetLoad, GetStore, At, Stuck,
       TestedEmpty, is_key_buf_empty, Passed, Holding
  <2>6. QED
    BY <2>2, <2>3, <2>4, <2>5, StepKinds
<1>2. QED
  BY <1>1, DriverTypeCorrect, PTL DEF Spec, StuckForever

-----------------------------------------------------------------------------
(* One reader.                                                             *)
OneReader == \A p, q \in Readers : p = q

(* With one reader no wake-up is lost: the test before the sleep and the   *)
(* queueing before the test leave no gap for the report of line 120.       *)
THEOREM NoWakeupIsLost == Spec => [](OneReader => NoLostWakeup)
<1>1. Init => (OneReader => NoLostWakeup)
  BY DEF Init, NoLostWakeup
<1>2. /\ TypeOK /\ (OneReader => NoLostWakeup) /\ [Next]_vars
      => (OneReader => NoLostWakeup)'
  <2> SUFFICES ASSUME TypeOK, OneReader, NoLostWakeup, [Next]_vars
               PROVE  NoLostWakeup'
    BY DEF OneReader
  <2>1. ASSUME NEW k \in Keys,
               Edge(k) \/ keys_irq(k) \/ DeferredHandler(k) \/ TimerSample(k)
        PROVE  NoLostWakeup'
    BY <2>1 DEF Edge, keys_irq, DeferredHandler, key_task_func, key_work_func,
       keys_thread_irq, DeferredRun, TimerSample, NoLostWakeup, is_key_buf_empty
  <2>2. CASE TimerReport
    BY <2>2 DEF TimerReport, wake_up_interruptible, NoLostWakeup
  <2>3. ASSUME NEW p \in Readers, InRead(p) PROVE NoLostWakeup'
    <3>1. CASE CheckNonblock(p) \/ GetTest(p)
      BY <2>3, <3>1 DEF CheckNonblock, GetTest, Return, Goto, NoLostWakeup, TypeOK,
         is_key_buf_empty
    <3>2. CASE WaitTest(p) \/ Prepare(p) \/ Awake(p) \/ GetLoad(p)
      BY <3>2 DEF WaitTest, Prepare, Awake, AfterSleep, GetLoad, At, Goto,
         OneReader, NoLostWakeup, TypeOK, is_key_buf_empty
    <3>3. CASE Retest(p)
      BY <3>3 DEF Retest, Goto, NoLostWakeup, TypeOK, is_key_buf_empty
    <3>4. CASE CheckLoad(p) \/ GetFirst(p) \/ GetIndex(p) \/ GetNext(p)
      BY <3>4 DEF CheckLoad, GetFirst, GetIndex, GetNext, ReuseOrReload, Goto,
         NoLostWakeup, TypeOK, is_key_buf_empty
    <3>5. CASE GetStore(p)
      BY <3>5 DEF GetStore, Return, Goto, OneReader, NoLostWakeup, TypeOK
    <3>6. QED
      BY <2>3, <3>1, <3>2, <3>3, <3>4, <3>5 DEF InRead, InGetKey
  <2>4. ASSUME NEW p \in Readers, InPoll(p) PROVE NoLostWakeup'
    <3>1. CASE PollQueue(p) \/ PollAwake(p)
      BY <3>1 DEF PollQueue, PollAwake, At, Goto, OneReader, NoLostWakeup, TypeOK,
         is_key_buf_empty
    <3>2. CASE PollTest(p)
      BY <3>2 DEF PollTest, keys_poll, Return, Goto, NoLostWakeup, TypeOK,
         is_key_buf_empty
    <3>3. QED
      BY <2>4, <3>1, <3>2 DEF InPoll
  <2>5. ASSUME NEW p \in Readers, SystemCall(p) \/ TakeSignal(p) \/ JobStop(p)
        PROVE  NoLostWakeup'
    BY <2>5 DEF SystemCall, Read, Poll, EnterRead, keys_fasync, SetNonblock,
       TakeSignal, sig_func, JobContinue, JobStop, Goto, NoLostWakeup, TypeOK,
       is_key_buf_empty
  <2>6. CASE UNCHANGED vars
    BY <2>6 DEF NoLostWakeup, is_key_buf_empty
  <2>7. QED
    BY <2>1, <2>2, <2>3, <2>4, <2>5, <2>6 DEF Next
<1>3. QED
  BY <1>1, <1>2, DriverTypeCorrect, PTL DEF Spec

-----------------------------------------------------------------------------
(* The order of the keys.  A slot's age says how many keys ago put_key     *)
(* wrote it: 1 for the slot behind the write index, BUF_LEN for the slot   *)
(* it writes next.                                                         *)
AgeOf(i) == IF i < g_key_w THEN g_key_w - i ELSE g_key_w - i + BUF_LEN

\* Every slot holds the key its age says, or still the zero word.
Numbered ==
  \A i \in Slots :
    g_key[i].seq = IF AgeOf(i) <= puts THEN puts + 1 - AgeOf(i) ELSE 0

\* What a reader has taken is older than what it has yet to take, wherever
\* it is in get_key and however often the writer has overtaken it.
InOrder ==
  /\ lastSeq <= puts - Count
  /\ \A p \in Readers :
       /\ GoesByIndex(p) => snap[p] = g_key_r
       /\ Inside(p) => lastSeq <= puts - AgeOf(g_key_r)
       /\ pc[p] \in Holding =>
            lastSeq < key[p].seq /\ key[p].seq <= puts + 1 - AgeOf(g_key_r)

\* Before the first lap nothing is missing.
Complete ==
  ~lapped => /\ puts = lastSeq + Count
             /\ \A p \in Readers :
                  /\ Inside(p) => ~is_key_buf_empty
                  /\ pc[p] \in Holding => key[p].seq = lastSeq + 1

OrderInv == Numbered /\ InOrder /\ Complete

LEMMA InitOrderInv == Init => OrderInv
BY BufLenAssumption
   DEF Init, RingInit, ZeroWord, OrderInv, Numbered, InOrder, Complete, AgeOf,
       Count, GoesByIndex, Inside, Testing, Passed, Holding, Slots, is_key_buf_empty

(* The count of waiting keys in terms of the age of the read index.        *)
LEMMA CountIsAge ==
  ASSUME g_key_r \in Slots, g_key_w \in Slots
  PROVE  /\ AgeOf(g_key_r) \in 1 .. BUF_LEN
         /\ is_key_buf_empty <=> AgeOf(g_key_r) = BUF_LEN
         /\ Count = IF is_key_buf_empty THEN 0 ELSE AgeOf(g_key_r)
BY BufLenAssumption DEF Slots, AgeOf, Count, is_key_buf_empty

(* Steps outside get_key and the timer report keep the order.              *)
LEMMA QuietKeepsOrder ==
  ASSUME TypeOK, OrderInv, Quiet
  PROVE  OrderInv'
<1>1. /\ UNCHANGED <<Count, is_key_buf_empty>>
      /\ \A i : AgeOf(i)' = AgeOf(i)
  BY DEF Quiet, BufferKept, Count, is_key_buf_empty, AgeOf
<1>2. \A p \in Readers : GoesByIndex(p)' => Kept(p)
  BY DEF Quiet
<1>3. QED
  BY <1>1, <1>2 DEF Quiet, BufferKept, Kept, OrderInv, Numbered, InOrder, Complete,
     GoesByIndex, Inside, AgeOf

(* Entering get_key: a key waits, so the reader is behind it; going on     *)
(* with the index in memory changes nothing.                               *)
LEMMA EnteringKeepsOrder ==
  ASSUME TypeOK, OneReader, OrderInv, NEW p \in Readers,
         LoadsIndex(p) \/ PassesTest(p) \/ TakesIndexAgain(p)
  PROVE  OrderInv'
<1>1. /\ UNCHANGED <<Count, is_key_buf_empty>>
      /\ \A i : AgeOf(i)' = AgeOf(i)
  BY DEF LoadsIndex, PassesTest, TakesIndexAgain, BufferKept, Count, is_key_buf_empty,
     AgeOf
<1>2. \A q \in Readers : q = p
  BY DEF OneReader
<1>3. Numbered'
  BY <1>1 DEF LoadsIndex, PassesTest, TakesIndexAgain, BufferKept, OrderInv, Numbered
<1>4. CASE LoadsIndex(p)
  BY <1>1, <1>2, <1>3, <1>4 DEF LoadsIndex, BufferKept, OrderInv, InOrder, Complete,
     GoesByIndex, Inside, Testing, Passed, Holding, AgeOf
<1>5. CASE PassesTest(p)
  <2>1. snap[p] = g_key_r /\ ~is_key_buf_empty
    BY <1>5 DEF PassesTest, TestedEmpty, is_key_buf_empty, OrderInv, InOrder, GoesByIndex
  <2>2. Count = AgeOf(g_key_r)
    BY <2>1, CountIsAge DEF TypeOK
  <2>3. InOrder'
    BY <1>1, <1>2, <1>5, <2>1, <2>2 DEF PassesTest, BufferKept, OrderInv, InOrder,
       GoesByIndex, Inside, Testing, Passed, Holding, AgeOf
  <2>4. Complete'
    BY <1>1, <1>2, <1>5, <2>1 DEF PassesTest, BufferKept, OrderInv, Complete, Inside,
       Testing, Passed, Holding
  <2>5. QED
    BY <1>3, <2>3, <2>4 DEF OrderInv
<1>6. CASE TakesIndexAgain(p)
  <2>1. /\ Inside(p) /\ snap[p] = g_key_r /\ snap'[p] = g_key_r
        /\ pc'[p] \in Holding => pc[p] \in Holding
    BY <1>6 DEF TakesIndexAgain, OrderInv, InOrder, GoesByIndex, Inside, Passed, Holding
  <2>2. InOrder'
    BY <1>1, <1>2, <1>6, <2>1 DEF TakesIndexAgain, BufferKept, OrderInv, InOrder, AgeOf
  <2>3. Complete'
    BY <1>1, <1>2, <1>6, <2>1 DEF TakesIndexAgain, BufferKept, OrderInv, Complete
  <2>4. QED
    BY <1>3, <2>2, <2>3 DEF OrderInv
<1>7. QED
  BY <1>4, <1>5, <1>6

(* The load takes the key its slot's age names.                            *)
LEMMA LoadKeepsOrder ==
  ASSUME TypeOK, OneReader, OrderInv, NEW p \in Readers, GetLoad(p)
  PROVE  OrderInv'
<1>1. /\ UNCHANGED <<Count, is_key_buf_empty>>
      /\ \A i : AgeOf(i)' = AgeOf(i)
  BY DEF GetLoad, Count, is_key_buf_empty, AgeOf
<1>2. /\ pc[p] = "load" /\ pc'[p] = "next"
      /\ key'[p] = g_key[g_key_r]
      /\ UNCHANGED <<g_key, g_key_r, g_key_w, snap, puts, lastSeq, lapped>>
  BY DEF GetLoad, At, Goto, OrderInv, InOrder, GoesByIndex, Passed, TypeOK
<1>3. /\ snap[p] = g_key_r /\ lastSeq <= puts - AgeOf(g_key_r)
      /\ AgeOf(g_key_r) \in 1 .. BUF_LEN /\ lastSeq \in Nat /\ puts \in Nat
  BY <1>2, CountIsAge DEF OrderInv, InOrder, GoesByIndex, Inside, Passed, TypeOK
<1>4. key'[p].seq = puts + 1 - AgeOf(g_key_r)
  BY <1>2, <1>3, BufLenAssumption DEF OrderInv, Numbered, TypeOK
<1>5. \A q \in Readers : q = p
  BY DEF OneReader
<1>6. Numbered'
  BY <1>1, <1>2 DEF OrderInv, Numbered
<1>7. InOrder'
  BY <1>1, <1>2, <1>3, <1>4, <1>5, BufLenAssumption DEF OrderInv, InOrder,
     Passed, Holding, AgeOf
<1>8. Complete'
  <2>1. ~lapped => Count = AgeOf(g_key_r) /\ ~is_key_buf_empty
    BY <1>2, CountIsAge DEF OrderInv, Complete, Inside, Passed, TypeOK
  <2>2. QED
    BY <1>1, <1>2, <1>3, <1>4, <1>5, <2>1 DEF OrderInv, Complete
<1>9. QED
  BY <1>6, <1>7, <1>8 DEF OrderInv

(* The store moves the read index past the key handed out.                 *)
LEMMA StoreKeepsOrder ==
  ASSUME TypeOK, OneReader, OrderInv, NEW p \in Readers, GetStore(p)
  PROVE  OrderInv'
<1>1. /\ pc[p] = "store" /\ pc'[p] = "user"
      /\ g_key_r' = Advance(g_key_r) /\ lastSeq' = key[p].seq
      /\ UNCHANGED <<g_key, g_key_w, puts, lapped>>
  BY DEF GetStore, At, Goto, Return, NextIndex, OrderInv, InOrder, GoesByIndex, Holding,
     TypeOK
<1>2. \A q \in Readers : q = p
  BY DEF OneReader
<1>3. /\ lastSeq < key[p].seq /\ key[p].seq <= puts + 1 - AgeOf(g_key_r)
      /\ key[p].seq \in Nat /\ puts \in Nat /\ lastSeq \in Nat
  BY <1>1 DEF OrderInv, InOrder, Holding, TypeOK, Event
<1>4. Count' = AgeOf(g_key_r) - 1
  <2>1. g_key_r' = IF g_key_r = BUF_LEN - 1 THEN 0 ELSE g_key_r + 1
    BY <1>1, AdvanceWraps DEF TypeOK
  <2>2. QED
    BY <1>1, <2>1, BufLenAssumption DEF Count, AgeOf, Slots, TypeOK
<1>5. Numbered'
  BY <1>1 DEF OrderInv, Numbered, AgeOf
<1>6. InOrder'
  <2>1. AgeOf(g_key_r) \in Nat
    BY CountIsAge, BufLenAssumption DEF TypeOK
  <2>2. lastSeq' <= puts' - Count'
    BY <1>1, <1>3, <1>4, <2>1
  <2>3. QED
    BY <1>1, <1>2, <2>2 DEF InOrder, GoesByIndex, Inside, Testing, Passed, Holding
<1>7. Complete'
  <2>1. ~lapped => AgeOf(g_key_r) = Count
    BY <1>1, CountIsAge DEF OrderInv, Complete, Inside, Holding, TypeOK
  <2>2. Count \in Nat
    BY CountInRange, BufLenAssumption DEF TypeOK
  <2>3. ~lapped' => puts' = lastSeq' + Count'
    BY <1>1, <1>3, <1>4, <2>1, <2>2 DEF OrderInv, Complete, Holding
  <2>4. QED
    BY <1>1, <1>2, <2>3 DEF Complete, Inside, Passed, Holding
<1>8. QED
  BY <1>5, <1>6, <1>7 DEF OrderInv

(* A report makes every slot one key older; the slot it fills is the       *)
(* youngest.  A reader inside get_key only falls further behind, also when *)
(* the write index passes it.                                              *)
LEMMA ReportKeepsOrder ==
  ASSUME TypeOK, OrderInv, TimerReport
  PROVE  OrderInv'
<1>1. UNCHANGED <<g_key_r, pc, snap, key, lastSeq, torn>>
  BY DEF TimerReport, put_key
<1>2. CASE is_key_buf_full
  <2>1. UNCHANGED <<g_key, g_key_w, puts>> /\ lapped' = lapped
    BY <1>2 DEF TimerReport, put_key, TypeOK
  <2>2. Quiet
    BY <1>1, <2>1 DEF Quiet, BufferKept, Kept
  <2>3. QED
    BY <2>2, QuietKeepsOrder
<1>3. CASE ~is_key_buf_full
  <2>1. /\ puts' = puts + 1 /\ g_key_w' = Advance(g_key_w)
        /\ lapped' = (lapped \/ g_key_w' = g_key_r)
        /\ g_key' = [g_key EXCEPT ![g_key_w] =
             [gpio |-> FirstKey, val |-> soft.val, src |-> soft.src, seq |-> puts + 1]]
    BY <1>3 DEF TimerReport, put_key
  <2>2. \A i \in Slots :
          AgeOf(i)' = IF i = g_key_w THEN 1 ELSE AgeOf(i) + 1
    <3>1. g_key_w' = IF g_key_w = BUF_LEN - 1 THEN 0 ELSE g_key_w + 1
      BY <2>1, AdvanceWraps DEF TypeOK
    <3>2. g_key_w \in 0 .. BUF_LEN - 1 /\ BUF_LEN \in Nat
      BY BufLenAssumption DEF Slots, TypeOK
    <3>3. TAKE i \in Slots
    <3>4. i \in 0 .. BUF_LEN - 1
      BY DEF Slots
    <3>5. QED
      BY <3>1, <3>2, <3>4 DEF AgeOf
  <2>3. \A i \in Slots : AgeOf(i) \in 1 .. BUF_LEN
    BY BufLenAssumption DEF AgeOf, Slots, TypeOK
  <2>4. AgeOf(g_key_r)' <= AgeOf(g_key_r) + 1
    BY <1>1, <2>2, <2>3, BufLenAssumption DEF TypeOK
  <2>5. Numbered'
    <3> SUFFICES ASSUME NEW i \in Slots
                 PROVE  g_key'[i].seq = IF AgeOf(i)' <= puts'
                                          THEN puts' + 1 - AgeOf(i)' ELSE 0
      BY DEF Numbered, AgeOf
    <3>1. CASE i = g_key_w
      BY <2>1, <2>2, <3>1 DEF TypeOK
    <3>2. CASE i # g_key_w
      <4>1. g_key'[i] = g_key[i]
        BY <2>1, <3>2 DEF TypeOK
      <4>2. g_key[i].seq = IF AgeOf(i) <= puts THEN puts + 1 - AgeOf(i) ELSE 0
        BY DEF OrderInv, Numbered
      <4>3. QED
        BY <2>1, <2>2, <2>3, <3>2, <4>1, <4>2, BufLenAssumption DEF TypeOK
    <3>3. QED
      BY <3>1, <3>2
  <2>6. \/ Count = BUF_LEN - 1 /\ Count' = 0 /\ g_key_w' = g_key_r
        \/ /\ Count < BUF_LEN - 1 /\ Count' = Count + 1
           /\ g_key_w' # g_key_r
    BY <1>1, <2>1, CountAfterPut DEF TypeOK
  <2>7. Count \in Nat /\ puts \in Nat /\ lastSeq \in Nat /\ AgeOf(g_key_r) \in Nat
    BY <2>3, CountInRange, BufLenAssumption DEF TypeOK
  <2>8. InOrder'
    <3>1. lastSeq' <= puts' - Count'
      BY <1>1, <2>1, <2>6, <2>7, BufLenAssumption DEF OrderInv, InOrder
    <3>2. ASSUME NEW p \in Readers, Inside(p)'
          PROVE  lastSeq' <= puts' - AgeOf(g_key_r)'
      <4>1. lastSeq <= puts - AgeOf(g_key_r)
        BY <1>1, <3>2 DEF OrderInv, InOrder, Inside
      <4>2. AgeOf(g_key_r)' \in Int
        BY <2>2, <2>3, <1>1, BufLenAssumption DEF TypeOK
      <4>3. QED
        BY <1>1, <2>1, <2>4, <2>7, <4>1, <4>2
    <3>3. ASSUME NEW p \in Readers, pc'[p] \in Holding
          PROVE  lastSeq' < key'[p].seq /\ key'[p].seq <= puts' + 1 - AgeOf(g_key_r)'
      <4>1. lastSeq < key[p].seq /\ key[p].seq <= puts + 1 - AgeOf(g_key_r)
        BY <1>1, <3>3 DEF OrderInv, InOrder
      <4>2. AgeOf(g_key_r)' \in Int /\ key[p].seq \in Nat
        BY <2>2, <2>3, <1>1, <3>3, BufLenAssumption DEF TypeOK, Event
      <4>3. QED
        BY <1>1, <2>1, <2>4, <2>7, <4>1, <4>2
    <3>4. \A p \in Readers : GoesByIndex(p)' => snap'[p] = g_key_r'
      BY <1>1 DEF OrderInv, InOrder, GoesByIndex
    <3>5. QED
      BY <3>1, <3>2, <3>3, <3>4 DEF InOrder
  <2>9. Complete'
    <3>1. ~lapped' => ~lapped /\ Count' = Count + 1 /\ ~is_key_buf_empty'
      BY <2>1, <2>6, <1>1 DEF is_key_buf_empty
    <3>2. QED
      BY <1>1, <2>1, <2>7, <3>1 DEF OrderInv, Complete, Inside
  <2>10. QED
    BY <2>5, <2>8, <2>9 DEF OrderInv
<1>4. QED
  BY <1>2, <1>3

(* The order of the keys is an invariant of the driver with one reader.    *)
THEOREM OrderIsKept == Spec => [](OneReader => OrderInv)
<1>1. Init => (OneReader => OrderInv)
  BY InitOrderInv
<1>2. /\ TypeOK /\ (OneReader => OrderInv) /\ [Next]_vars
      => (OneReader => OrderInv)'
  <2> SUFFICES ASSUME TypeOK, OneReader, OrderInv, [Next]_vars
               PROVE  OrderInv'
    BY DEF OneReader
  <2>1. QED
    BY StepKinds, QuietKeepsOrder, ReportKeepsOrder, EnteringKeepsOrder,
       LoadKeepsOrder, StoreKeepsOrder
<1>3. QED
  BY <1>1, <1>2, DriverTypeCorrect, PTL DEF Spec

(* With one reader, what read hands out is always younger than what it     *)
(* handed out before, even when the writer laps it inside get_key.         *)
THEOREM KeysAreNeverReordered == Spec => [](OneReader => KeysComeInOrder)
<1>1. OrderInv => KeysComeInOrder
  BY DEF OrderInv, InOrder, KeysComeInOrder, Holding
<1>2. QED
  BY <1>1, OrderIsKept, PTL

(* With one reader, every accepted key is handed out or still waits, until *)
(* the write index laps the read index for the first time.                 *)
THEOREM NothingIsLostBeforeLap == Spec => [](OneReader => NothingLostBeforeLap)
<1>1. OrderInv => NothingLostBeforeLap
  BY DEF OrderInv, Complete, NothingLostBeforeLap
<1>2. QED
  BY <1>1, OrderIsKept, PTL

(* With one reader, nobody moves the read index between its first load for *)
(* a test and its store.                                                   *)
THEOREM ReadIndexIsOwned == Spec => [](OneReader => OneReaderOwnsReadIndex)
<1>1. OrderInv => OneReaderOwnsReadIndex
  BY DEF OrderInv, InOrder, GoesByIndex, OneReaderOwnsReadIndex
<1>2. QED
  BY <1>1, OrderIsKept, PTL

-----------------------------------------------------------------------------
(* Any number of readers.  A slot that put_key has written holds a real    *)
(* key, and until every slot has been written no index, not even one that  *)
(* a process loaded long ago, is beyond the first unwritten one, and none  *)
(* that has passed its test is on it.                                      *)
Filling ==
  puts < BUF_LEN =>
    /\ g_key_w = puts /\ g_key_r <= puts
    /\ \A p \in Readers : /\ pc[p] \in Testing => snap[p] <= puts
                          /\ Inside(p) => snap[p] < puts

Written == \A i \in Slots : i < puts => g_key[i].seq \in 1 .. puts

Put == \A p \in Readers : pc[p] \in Holding => key[p].seq \in 1 .. puts

HandedOut == ~torn => Filling /\ Written /\ Put

(* The timer handler writes the first unwritten slot, or, once there is    *)
(* none, overwrites one.                                                   *)
LEMMA ReportKeepsHandedOut ==
  ASSUME TypeOK, Filling, Written, Put, TimerReport
  PROVE  Filling' /\ Written' /\ Put'
<1>1. UNCHANGED <<g_key_r, pc, snap, key>>
  BY DEF TimerReport, put_key
<1>2. CASE is_key_buf_full
  <2>1. UNCHANGED <<g_key, g_key_w, puts>>
    BY <1>2 DEF TimerReport, put_key, TypeOK
  <2>2. QED
    BY <1>1, <2>1 DEF Filling, Written, Put, Inside
<1>3. CASE ~is_key_buf_full
  <2>1. /\ puts' = puts + 1 /\ puts \in Nat
        /\ g_key_w' = IF g_key_w = BUF_LEN - 1 THEN 0 ELSE g_key_w + 1
        /\ g_key' = [g_key EXCEPT ![g_key_w] =
             [gpio |-> FirstKey, val |-> soft.val, src |-> soft.src, seq |-> puts + 1]]
    BY <1>3, AdvanceWraps DEF TimerReport, put_key, TypeOK
  <2>2. Filling'
    BY <1>1, <2>1, BufLenAssumption DEF Filling, Inside, Slots, TypeOK
  <2>3. Written'
    <3> SUFFICES ASSUME NEW i \in Slots, i < puts'
                 PROVE  g_key'[i].seq \in 1 .. puts'
      BY DEF Written
    <3>1. CASE i = g_key_w
      BY <2>1, <3>1 DEF TypeOK
    <3>2. CASE i # g_key_w
      <4>1. i < puts
        BY <2>1, <3>2, BufLenAssumption DEF Filling, Slots
      <4>2. g_key'[i] = g_key[i]
        BY <2>1, <3>2 DEF TypeOK
      <4>3. QED
        BY <2>1, <4>1, <4>2 DEF Written
    <3>3. QED
      BY <3>1, <3>2
  <2>4. Put'
    BY <1>1, <2>1 DEF Put
  <2>5. QED
    BY <2>2, <2>3, <2>4
<1>4. QED
  BY <1>2, <1>3

(* A process inside get_key takes a key from a written slot, and stores an *)
(* index that is at most that of the first unwritten one, as long as it    *)
(* goes by the index it has tested.                                        *)
LEMMA GetKeyKeepsHandedOut ==
  ASSUME TypeOK, Filling, Written, Put, ~torn', NEW p \in Readers,
         \/ LoadsIndex(p) \/ PassesTest(p) \/ TakesIndexAgain(p)
         \/ GetLoad(p) \/ GetStore(p)
  PROVE  Filling' /\ Written' /\ Put'
<1> USE DEF Filling, Written, Put, Inside, Testing, Passed, Holding
<1>1. puts \in Nat /\ BUF_LEN \in Nat /\ g_key_r \in Nat /\ snap[p] \in Nat
  BY BufLenAssumption DEF TypeOK, Slots
<1>2. CASE LoadsIndex(p)
  BY <1>1, <1>2 DEF LoadsIndex, BufferKept, OthersKept, Kept
<1>3. CASE PassesTest(p)
  <2>1. puts < BUF_LEN => snap[p] < puts
    BY <1>1, <1>3 DEF PassesTest, TestedEmpty
  <2>2. QED
    BY <1>1, <1>3, <2>1 DEF PassesTest, BufferKept, OthersKept, Kept
<1>4. CASE TakesIndexAgain(p)
  <2>1. snap'[p] = snap[p] /\ (pc'[p] \in Holding => pc[p] \in Holding)
    BY <1>4 DEF TakesIndexAgain
  <2>2. QED
    BY <1>1, <1>4, <2>1 DEF TakesIndexAgain, BufferKept, OthersKept, Kept
<1>5. CASE GetLoad(p)
  <2>1. /\ UNCHANGED <<g_key, g_key_r, g_key_w, puts, snap>>
        /\ pc[p] = "load" /\ key' = [key EXCEPT ![p] = g_key[snap[p]]]
        /\ pc' = [pc EXCEPT ![p] = "next"]
    BY <1>5 DEF GetLoad, At, Goto
  <2>2. snap[p] \in Slots /\ snap[p] < puts
    BY <2>1, BufLenAssumption DEF Slots, TypeOK
  <2>3. g_key[snap[p]].seq \in 1 .. puts
    BY <2>2
  <2>4. Filling' /\ Written'
    BY <2>1 DEF TypeOK
  <2>5. Put'
    BY <2>1, <2>3 DEF TypeOK
  <2>6. QED
    BY <2>4, <2>5
<1>6. CASE GetStore(p)
  <2>1. /\ UNCHANGED <<g_key, g_key_w, puts, snap, key>>
        /\ pc[p] = "store" /\ pc' = [pc EXCEPT ![p] = "user"]
        /\ g_key_r' = IF snap[p] = BUF_LEN - 1 THEN 0 ELSE snap[p] + 1
    BY <1>6, AdvanceWraps DEF GetStore, At, Goto, Return, NextIndex, TypeOK
  <2>2. Filling'
    BY <2>1, BufLenAssumption DEF Slots, TypeOK
  <2>3. Written' /\ Put'
    BY <2>1 DEF TypeOK
  <2>4. QED
    BY <2>2, <2>3
<1>7. QED
  BY <1>2, <1>3, <1>4, <1>5, <1>6

(* Whatever the number of processes whose get_key calls overlap, and       *)
(* wherever they are preempted between two accesses of lines 64-71, a key  *)
(* handed out was put before, until a get_key goes by another index than   *)
(* the one it has tested.                                                  *)
THEOREM NothingIsInvented == Spec => []NothingInvented
<1>1. Init => HandedOut
  <2> SUFFICES ASSUME Init PROVE Filling /\ Written /\ Put
    BY DEF HandedOut
  <2>1. QED
    BY BufLenAssumption
       DEF Init, RingInit, Filling, Written, Put, Inside, Testing, Passed, Holding, Slots
<1>2. TypeOK /\ HandedOut /\ [Next]_vars => HandedOut'
  <2> SUFFICES ASSUME TypeOK, HandedOut, [Next]_vars, ~torn'
               PROVE  Filling' /\ Written' /\ Put'
    BY DEF HandedOut
  <2>1. ~torn
    BY StepKinds DEF Quiet, TimerReport, LoadsIndex, PassesTest, TakesIndexAgain,
       GetLoad, GetStore
  <2>2. Filling /\ Written /\ Put
    BY <2>1 DEF HandedOut
  <2>3. CASE Quiet
    BY <2>2, <2>3 DEF Quiet, BufferKept, Kept, GoesByIndex, Filling, Written, Put, Inside
  <2>4. QED
    BY <2>2, <2>3, StepKinds, ReportKeepsHandedOut, GetKeyKeepsHandedOut
<1>3. HandedOut => NothingInvented
  BY DEF HandedOut, Put, Holding, NothingInvented
<1>4. QED
  BY <1>1, <1>2, <1>3, DriverTypeCorrect, PTL DEF Spec
=============================================================================
