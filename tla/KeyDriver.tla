------------------------------ MODULE KeyDriver ------------------------------
(***************************************************************************)
(* The running key driver of                                               *)
(* src/06_gpio_irq/10_read_key_irq_poll_fasync_block_timer_tasklet_work_   *)
(* thread/key_drv.c, after a successful probe: key edges, the interrupt    *)
(* handler, the debounce timer, the other deferred handlers, and processes *)
(* inside read, poll and fasync.  The key buffer comes from KeyRing.       *)
(*                                                                         *)
(* Scheduling is that of the board's single CPU: a hard interrupt may run  *)
(* between any two steps, a softirq (the timer handler) between any two    *)
(* steps of a process, and no process runs while a softirq does.           *)
(***************************************************************************)
EXTENDS KeyRing, FiniteSets

CONSTANTS
  Keys,        \* the keys of the device-tree node
  FirstKey,    \* the key at g_p_keys[0]
  Deferred,    \* handlers keys_irq starts besides the timer: {"task"} in
               \* stage 07, {"task", "work"} in 08 and 09, all three in 10
  Readers,     \* processes that hold the device file open
  Calls,       \* the system calls they make
  Idle,        \* no timer handler is running
  MaxEdges,    \* bound: level changes of the keys
  MaxStops     \* bound: job-control stops (Ctrl-Z, fg) of the readers

ASSUME KeysAssumption == FirstKey \in Keys /\ NoKey \notin Keys
ASSUME IdleAssumption == Idle \notin [src : Keys, val : 0 .. 1]
ASSUME DeferredAssumption == Deferred \subseteq {"task", "work", "thread"}
ASSUME BoundsAssumption == MaxEdges \in Nat /\ MaxStops \in Nat

Handlers == {"timer"} \cup Deferred

VARIABLES
  level,       \* level[k]: what gpiod_get_value would return for the key now
  irq,         \* irq[k]: the GPIO controller has latched an edge of the key
  pending,     \* pending[k]: the handlers armed or scheduled for the key
  soft,        \* the running timer handler: Idle, or its key and its val
  waitq,       \* the processes queued on gpio_key_wait and not yet woken
  key_fasync,  \* the processes registered for SIGIO
  pc,          \* pc[p]: where the process is
  snap,        \* snap[p]: g_key_r as the process last loaded it
  key,         \* key[p]: the local variable key of keys_read
  O_NONBLOCK,  \* O_NONBLOCK[p]: the flag in the process's file->f_flags
  sig,         \* sig[p]: the signals pending for the process
  inSig,       \* inSig[p]: the process is in its SIGIO handler
  edges,       \* how many level changes have happened
  stops        \* how many job-control stops have happened

\* History, read by the properties and by no guard.
VARIABLES
  seen,        \* seen[h][k]: the level the handler h last read
  puts,        \* how many keys put_key has accepted
  lastSeq,     \* the number of the last key a read took out
  lapped,      \* g_key_w has caught up with g_key_r from behind
  torn,        \* a get_key has used another index than the one it tested
  ret          \* ret[p]: what the last read or poll returned

hwVars == <<level, irq, edges>>
timerVars == <<pending, soft, seen>>
procVars == <<pc, snap, key, O_NONBLOCK, inSig, ret>>
kernVars == <<waitq, key_fasync, sig, stops>>
countVars == <<puts, lastSeq, lapped, torn>>
vars == <<ringVars, hwVars, timerVars, procVars, kernVars, countVars>>

\* A word (gpio << 8) | val; src and seq are history: the key that was
\* sampled, and the word's number in the order of put_key.
Event == [gpio : Keys \cup {NoKey}, val : 0 .. 1,
          src : Keys \cup {NoKey}, seq : Nat]
ZeroWord == [gpio |-> NoKey, val |-> 0, src |-> NoKey, seq |-> 0]

Signals == {"SIGIO", "SIGCONT"}

\* After a successful probe every timer is armed, with expires = ~0, so it
\* fires once although no key has moved.
Init ==
  /\ RingInit(ZeroWord)
  /\ level \in [Keys -> 0 .. 1]
  /\ irq = [k \in Keys |-> FALSE]
  /\ pending = [k \in Keys |-> {"timer"}]
  /\ soft = Idle
  /\ seen = [h \in Handlers |-> level]
  /\ waitq = {} /\ key_fasync = {}
  /\ pc = [p \in Readers |-> "user"]
  /\ snap = [p \in Readers |-> 0]
  /\ key = [p \in Readers |-> NoKey]
  /\ O_NONBLOCK \in [Readers -> BOOLEAN]
  /\ sig = [p \in Readers |-> {}]
  /\ inSig = [p \in Readers |-> FALSE]
  /\ edges = 0 /\ stops = 0
  /\ puts = 0 /\ lastSeq = 0 /\ lapped = FALSE /\ torn = FALSE
  /\ ret = [p \in Readers |-> "none"]

-----------------------------------------------------------------------------
(* Keys and handlers.                                                      *)

\* The key is pressed, released, or bounces; both edges interrupt.
Edge(k) ==
  /\ edges < MaxEdges
  /\ edges' = edges + 1
  /\ level' = [level EXCEPT ![k] = 1 - @]
  /\ irq' = [irq EXCEPT ![k] = TRUE]
  /\ UNCHANGED <<ringVars, timerVars, procVars, kernVars, countVars>>

\* (Faulty form: the timer is not re-armed while a timer handler runs.)
StartedUnlessRunning(k) ==
  IF soft = Idle THEN Handlers ELSE (Handlers \ {"timer"}) \cup pending[k]

\* The calls of keys_irq: mod_timer arms or re-arms the timer, also while its
\* handler runs; scheduling a handler twice before it runs is once.
Started(k) == Handlers

\* The latch is cleared before the handler runs.
keys_irq(k) ==
  /\ irq[k]
  /\ irq' = [irq EXCEPT ![k] = FALSE]
  /\ pending' = [pending EXCEPT ![k] = Started(k)]
  /\ UNCHANGED <<ringVars, level, edges, soft, seen, procVars, kernVars,
                 countVars>>

\* tasklet, work and thread read the level and log it.
DeferredRun(h, k) ==
  /\ soft = Idle
  /\ h \in pending[k]
  /\ pending' = [pending EXCEPT ![k] = @ \ {h}]
  /\ seen' = [seen EXCEPT ![h][k] = level[k]]
  /\ UNCHANGED <<ringVars, hwVars, soft, procVars, kernVars, countVars>>

key_task_func(k) == "task" \in Deferred /\ DeferredRun("task", k)
key_work_func(k) == "work" \in Deferred /\ DeferredRun("work", k)
keys_thread_irq(k) == "thread" \in Deferred /\ DeferredRun("thread", k)

\* Its handler starts: the timer fires once.
Disarmed(k) == pending[k] \ {"timer"}

\* key_timer_expire up to gpiod_get_value; the kernel has detached the timer.
TimerSample(k) ==
  /\ soft = Idle
  /\ "timer" \in pending[k]
  /\ pending' = [pending EXCEPT ![k] = Disarmed(k)]
  /\ soft' = [src |-> k, val |-> level[k]]
  /\ seen' = [seen EXCEPT !["timer"][k] = level[k]]
  /\ UNCHANGED <<ringVars, hwVars, procVars, kernVars, countVars>>

\* (Faulty form: nobody is woken.)
NotWoken == waitq

\* wake_up_interruptible wakes and unqueues every process on the queue.
wake_up_interruptible == {}

\* The rest of key_timer_expire.  The word carries the gpio of the first
\* key, whichever key was sampled.
TimerReport ==
  /\ soft # Idle
  /\ put_key([gpio |-> FirstKey, val |-> soft.val,
              src |-> soft.src, seq |-> puts + 1])
  /\ puts' = IF is_key_buf_full THEN puts ELSE puts + 1
  /\ lapped' = (lapped \/ (~is_key_buf_full /\ Advance(g_key_w) = g_key_r))
  /\ waitq' = wake_up_interruptible
  /\ sig' = [p \in Readers |-> IF p \in key_fasync THEN sig[p] \cup {"SIGIO"}
                                                   ELSE sig[p]]
  /\ soft' = Idle
  /\ UNCHANGED <<hwVars, pending, seen, procVars, key_fasync, stops, lastSeq,
                 torn>>

-----------------------------------------------------------------------------
(* Processes.  A step of a process needs the CPU: no softirq is running.   *)

At(p, place) == soft = Idle /\ pc[p] = place
Goto(p, place) == pc' = [pc EXCEPT ![p] = place]
Deliverable(p) == IF inSig[p] THEN sig[p] \ {"SIGIO"} ELSE sig[p]
signal_pending(p) == Deliverable(p) # {}

\* (Faulty form: the wait is not interruptible.)
Uninterruptible(p) == FALSE

\* The wait of keys_read is interruptible.
wait_interruptible(p) == signal_pending(p)

\* A system call returns; a SIGIO handler makes one call and returns too.
Return(p, r) ==
  /\ Goto(p, "user")
  /\ inSig' = [inSig EXCEPT ![p] = FALSE]
  /\ ret' = [ret EXCEPT ![p] = r]

EnterRead(p) ==
  /\ Goto(p, "check")
  /\ UNCHANGED <<ringVars, hwVars, timerVars, snap, key, O_NONBLOCK, ret,
                 waitq, key_fasync, stops, countVars>>

\* A process that has a signal to take makes no system call before it.
Read(p) ==
  /\ At(p, "user") /\ ~signal_pending(p)
  /\ EnterRead(p)
  /\ UNCHANGED <<inSig, sig>>

\* sig_func: the SIGIO handler reads one key.
sig_func(p) ==
  /\ At(p, "user") /\ "SIGIO" \in Deliverable(p)
  /\ sig' = [sig EXCEPT ![p] = @ \ {"SIGIO"}]
  /\ inSig' = [inSig EXCEPT ![p] = TRUE]
  /\ EnterRead(p)

\* The first operand of a test g_key_r == g_key_w; the object file in the
\* repository loads it first, as the source has it.
LoadReadIndex(p) == snap' = [snap EXCEPT ![p] = g_key_r]
TestedEmpty(p) == snap[p] = g_key_w

CheckLoad(p) ==
  /\ At(p, "check")
  /\ Goto(p, "checked")
  /\ LoadReadIndex(p)
  /\ UNCHANGED <<ringVars, hwVars, timerVars, key, O_NONBLOCK, inSig, ret,
                 kernVars, countVars>>

\* keys_read's own test.  A compiler may use this test and its load of
\* g_key_r for get_key too (the object file does), or test again in
\* wait_event_interruptible.
CheckNonblock(p) ==
  /\ At(p, "checked")
  /\ \/ /\ TestedEmpty(p) /\ O_NONBLOCK[p]
        /\ Return(p, "EAGAIN")
     \/ /\ ~(TestedEmpty(p) /\ O_NONBLOCK[p])
        /\ Goto(p, "wait")
        /\ UNCHANGED <<inSig, ret>>
     \/ /\ ~TestedEmpty(p)
        /\ Goto(p, "index")
        /\ UNCHANGED <<inSig, ret>>
  /\ UNCHANGED <<ringVars, hwVars, timerVars, snap, key, O_NONBLOCK, kernVars,
                 countVars>>

\* wait_event_interruptible: its test before any waiting.
WaitTest(p) ==
  /\ At(p, "wait")
  /\ Goto(p, IF is_key_buf_empty THEN "prepare" ELSE "get")
  /\ UNCHANGED <<ringVars, hwVars, timerVars, snap, key, O_NONBLOCK, inSig,
                 ret, kernVars, countVars>>

\* prepare_to_wait_event queues the process, or notes a pending signal.
Prepare(p) ==
  /\ At(p, "prepare")
  /\ IF wait_interruptible(p)
       THEN Goto(p, "retestSig") /\ waitq' = waitq \ {p}
       ELSE Goto(p, "retest") /\ waitq' = waitq \cup {p}
  /\ UNCHANGED <<ringVars, hwVars, timerVars, snap, key, O_NONBLOCK, inSig,
                 ret, key_fasync, sig, stops, countVars>>

\* The test inside the loop; only an empty buffer lets the signal end it.
Retest(p) ==
  /\ \/ /\ At(p, "retest")
        /\ Goto(p, IF is_key_buf_empty THEN "asleep" ELSE "get")
     \/ At(p, "retestSig") /\ Goto(p, "get")
  /\ waitq' = IF is_key_buf_empty THEN waitq ELSE waitq \ {p}
  /\ UNCHANGED <<ringVars, hwVars, timerVars, snap, key, O_NONBLOCK, inSig,
                 ret, key_fasync, sig, stops, countVars>>

\* wait_event_interruptible loops: a woken process tests again.
AfterSleep == "prepare"

\* schedule returns when the process was woken or a signal arrives.
Awake(p) ==
  /\ At(p, "asleep")
  /\ p \notin waitq \/ wait_interruptible(p)
  /\ Goto(p, AfterSleep)
  /\ UNCHANGED <<ringVars, hwVars, timerVars, snap, key, O_NONBLOCK, inSig,
                 ret, kernVars, countVars>>

\* get_key, preempted between any two of its accesses.  keys_read ignores
\* what wait_event_interruptible returned and returns 4 always.
GetFirst(p) ==
  /\ At(p, "get")
  /\ Goto(p, "test")
  /\ LoadReadIndex(p)
  /\ UNCHANGED <<ringVars, hwVars, timerVars, key, O_NONBLOCK, inSig, ret,
                 kernVars, countVars>>

GetTest(p) ==
  /\ At(p, "test")
  /\ IF TestedEmpty(p)
       THEN /\ out' = NoKey
            /\ key' = [key EXCEPT ![p] = NoKey]
            /\ Return(p, "4")
       ELSE /\ Goto(p, "index")
            /\ UNCHANGED <<out, key, inSig, ret>>
  /\ UNCHANGED <<g_key, g_key_r, g_key_w, hwVars, timerVars, snap, O_NONBLOCK,
                 kernVars, countVars>>

\* g_key_r occurs again in the index of the slot and in the sum that is
\* stored.  A compiler loads it again or uses the loaded value; the object
\* file loads it once for all three.
ReuseOrReload(p) ==
  /\ UNCHANGED snap \/ LoadReadIndex(p)
  /\ torn' = (torn \/ snap'[p] # snap[p])
  /\ UNCHANGED <<ringVars, hwVars, timerVars, key, O_NONBLOCK, inSig, ret,
                 kernVars, puts, lastSeq, lapped>>

GetIndex(p) == At(p, "index") /\ Goto(p, "load") /\ ReuseOrReload(p)

GetLoad(p) ==
  /\ At(p, "load")
  /\ key' = [key EXCEPT ![p] = g_key[snap[p]]]
  /\ Goto(p, "next")
  /\ UNCHANGED <<ringVars, hwVars, timerVars, snap, O_NONBLOCK, inSig, ret,
                 kernVars, countVars>>

GetNext(p) == At(p, "next") /\ Goto(p, "store") /\ ReuseOrReload(p)

\* (Faulty form: the index is stored back as it was loaded.)
IndexUnmoved(p) == snap[p]

NextIndex(p) == Advance(snap[p])

GetStore(p) ==
  /\ At(p, "store")
  /\ g_key_r' = NextIndex(p)
  /\ out' = key[p]
  /\ lastSeq' = key[p].seq
  /\ Return(p, "4")
  /\ UNCHANGED <<g_key, g_key_w, hwVars, timerVars, snap, key, O_NONBLOCK,
                 kernVars, puts, lapped, torn>>

\* poll: the kernel's loop around keys_poll.  poll_wait queues the process;
\* its entry stays queued until the call returns.
Poll(p) ==
  /\ At(p, "user") /\ ~signal_pending(p)
  /\ Goto(p, "pollq")
  /\ UNCHANGED <<ringVars, hwVars, timerVars, snap, key, O_NONBLOCK, inSig,
                 ret, kernVars, countVars>>

PollQueue(p) ==
  /\ At(p, "pollq")
  /\ Goto(p, "polltest")
  /\ waitq' = waitq \cup {p}
  /\ UNCHANGED <<ringVars, hwVars, timerVars, snap, key, O_NONBLOCK, inSig,
                 ret, key_fasync, sig, stops, countVars>>

\* keys_poll returns POLLIN | POLLRDNORM.
keys_poll == ~is_key_buf_empty

\* The poll loop: an empty buffer ends the call after the timeout or on
\* a signal, otherwise the process sleeps.
PollTest(p) ==
  /\ At(p, "polltest") \/ At(p, "polllast")
  /\ \/ /\ keys_poll
        /\ Return(p, "POLLIN")
        /\ waitq' = waitq \ {p}
     \/ /\ ~keys_poll
        /\ pc[p] = "polllast" \/ signal_pending(p)
        /\ Return(p, IF signal_pending(p) THEN "EINTR" ELSE "0")
        /\ waitq' = waitq \ {p}
     \/ /\ ~keys_poll /\ pc[p] = "polltest" /\ ~signal_pending(p)
        /\ Goto(p, "pollsleep")
        /\ UNCHANGED <<inSig, ret, waitq>>
  /\ UNCHANGED <<ringVars, hwVars, timerVars, snap, key, O_NONBLOCK,
                 key_fasync, sig, stops, countVars>>

PollAwake(p) ==
  /\ At(p, "pollsleep")
  /\ \/ Goto(p, "pollq") /\ (p \notin waitq \/ signal_pending(p))
     \/ Goto(p, "polllast")                         \* the timeout
  /\ UNCHANGED <<ringVars, hwVars, timerVars, snap, key, O_NONBLOCK, inSig,
                 ret, kernVars, countVars>>

\* fcntl(F_SETFL) with O_ASYNC set or cleared calls keys_fasync.
keys_fasync(p, on) ==
  /\ At(p, "user") /\ ~signal_pending(p)
  /\ key_fasync' = IF on THEN key_fasync \cup {p} ELSE key_fasync \ {p}
  /\ UNCHANGED <<ringVars, hwVars, timerVars, procVars, waitq, sig, stops,
                 countVars>>

\* fcntl(F_SETFL) with O_NONBLOCK set or cleared.
SetNonblock(p, on) ==
  /\ At(p, "user") /\ ~signal_pending(p)
  /\ O_NONBLOCK' = [O_NONBLOCK EXCEPT ![p] = on]
  /\ UNCHANGED <<ringVars, hwVars, timerVars, pc, snap, key, inSig, ret,
                 kernVars, countVars>>

\* The user stops the process and continues it: a pending signal that ends
\* an interruptible wait and that the process never sees.
JobStop(p) ==
  /\ soft = Idle
  /\ stops < MaxStops
  /\ stops' = stops + 1
  /\ sig' = [sig EXCEPT ![p] = @ \cup {"SIGCONT"}]
  /\ UNCHANGED <<ringVars, hwVars, timerVars, procVars, waitq, key_fasync,
                 countVars>>

JobContinue(p) ==
  /\ At(p, "user") /\ "SIGCONT" \in sig[p]
  /\ sig' = [sig EXCEPT ![p] = @ \ {"SIGCONT"}]
  /\ UNCHANGED <<ringVars, hwVars, timerVars, procVars, waitq, key_fasync,
                 stops, countVars>>

-----------------------------------------------------------------------------
InGetKey(p) == \/ GetFirst(p) \/ GetTest(p) \/ GetIndex(p) \/ GetLoad(p)
               \/ GetNext(p) \/ GetStore(p)
InRead(p) == \/ CheckLoad(p) \/ CheckNonblock(p) \/ WaitTest(p) \/ Prepare(p)
             \/ Retest(p) \/ Awake(p) \/ InGetKey(p)
InPoll(p) == PollQueue(p) \/ PollTest(p) \/ PollAwake(p)
TakeSignal(p) == sig_func(p) \/ JobContinue(p)
SystemCall(p) ==
  \/ "read" \in Calls /\ Read(p)
  \/ "poll" \in Calls /\ Poll(p)
  \/ "fasync" \in Calls /\ \E on \in BOOLEAN : keys_fasync(p, on)
  \/ "nonblock" \in Calls /\ \E on \in BOOLEAN : SetNonblock(p, on)
DeferredHandler(k) ==
  key_task_func(k) \/ key_work_func(k) \/ keys_thread_irq(k)

Next ==
  \/ \E k \in Keys :
       Edge(k) \/ keys_irq(k) \/ DeferredHandler(k) \/ TimerSample(k)
  \/ TimerReport
  \/ \E p \in Readers : \/ SystemCall(p) \/ InRead(p) \/ InPoll(p)
                        \/ TakeSignal(p) \/ JobStop(p)

Spec == Init /\ [][Next]_vars

\* Interrupts and deferred handlers run, timers fire, and the scheduler runs
\* a process that is inside a call or has a signal to take.  Keys, users and
\* new system calls owe nothing.
Fairness ==
  /\ \A k \in Keys : /\ WF_vars(keys_irq(k)) /\ WF_vars(TimerSample(k))
                     /\ \A h \in Deferred : WF_vars(DeferredRun(h, k))
  /\ WF_vars(TimerReport)
  /\ \A p \in Readers : /\ WF_vars(InRead(p)) /\ WF_vars(InPoll(p))
                        /\ WF_vars(TakeSignal(p))

FairSpec == Spec /\ Fairness

-----------------------------------------------------------------------------
(* Properties.  "One reader" means that Readers has one element.           *)

\* Where a reader goes by a value of g_key_r it has loaded: it is about to
\* test it, has passed the test, or has its key.
Testing == {"checked", "test"}
Passed == {"index", "load"}
Holding == {"next", "store"}
Places == {"user", "check", "wait", "prepare", "retest", "retestSig", "asleep",
           "get", "pollq", "polltest", "polllast", "pollsleep"}
          \cup Testing \cup Passed \cup Holding

(* Types of the state; the indices never leave the array. *)
TypeOK ==
  /\ g_key \in [Slots -> Event]
  /\ g_key_r \in Slots /\ g_key_w \in Slots
  /\ out \in Event \cup {NoKey}
  /\ level \in [Keys -> 0 .. 1]
  /\ irq \in [Keys -> BOOLEAN]
  /\ pending \in [Keys -> SUBSET Handlers]
  /\ soft \in [src : Keys, val : 0 .. 1] \cup {Idle}
  /\ seen \in [Handlers -> [Keys -> 0 .. 1]]
  /\ waitq \subseteq Readers /\ key_fasync \subseteq Readers
  /\ pc \in [Readers -> Places]
  /\ snap \in [Readers -> Slots]
  /\ key \in [Readers -> Event \cup {NoKey}]
  /\ \A p \in Readers : pc[p] \in Holding => key[p] \in Event
  /\ O_NONBLOCK \in [Readers -> BOOLEAN]
  /\ sig \in [Readers -> SUBSET Signals]
  /\ inSig \in [Readers -> BOOLEAN]
  /\ edges \in 0 .. MaxEdges /\ stops \in 0 .. MaxStops
  /\ puts \in Nat /\ lastSeq \in Nat /\ lapped \in BOOLEAN /\ torn \in BOOLEAN
  /\ ret \in [Readers -> {"none", "4", "EAGAIN", "POLLIN", "0", "EINTR"}]

(* A handler whose last look at a key is out of date is still owed a run:  *)
(* the edge is latched or the handler is pending.  Coalesced interrupts,   *)
(* re-armed timers and tasklets scheduled twice never leave the last edge  *)
(* of a bouncing key unseen (lines 73-79).                                 *)
NoEdgeForgotten ==
  \A h \in Handlers, k \in Keys :
    seen[h][k] # level[k] => irq[k] \/ h \in pending[k]

(* A process sleeps in read or poll on the wait queue only while the       *)
(* buffer is empty: between the test of line 90 or 99 and the sleep no     *)
(* wake-up of line 120 is lost.  One reader.                               *)
NoLostWakeup ==
  \A p \in Readers :
    pc[p] \in {"asleep", "pollsleep"} /\ p \in waitq => is_key_buf_empty

(* What a read is about to hand out is younger than everything handed out  *)
(* before: no key twice, none out of order, though the timer handler may   *)
(* overtake the read index between get_key's load and store.  One reader.  *)
KeysComeInOrder ==
  \A p \in Readers : pc[p] = "store" => key[p].seq > lastSeq

(* Until the write index first laps the read index, every key put_key      *)
(* accepted was handed out or waits between the indices.  One reader.      *)
NothingLostBeforeLap == ~lapped => puts = lastSeq + Count

(* A buffer with both indices on its last slot refuses every key for ever  *)
(* when nobody inside get_key has passed its test or goes by another read  *)
(* index (lines 55, 58, 66).                                               *)
Stuck ==
  /\ Deaf
  /\ \A p \in Readers : /\ pc[p] \notin Passed \cup Holding
                        /\ pc[p] \in Testing => snap[p] = g_key_r
StuckForever == [][Stuck => Stuck']_vars

(* Any number of readers whose get_key calls overlap hand out only keys    *)
(* that were put, never the zero word of an unwritten slot, until one of   *)
(* them loads g_key_r again behind its test (lines 67, 68) and finds that  *)
(* another process has moved it.                                           *)
NothingInvented ==
  ~torn => \A p \in Readers : pc[p] = "store" => key[p].seq \in 1 .. puts

(* The index a reader goes by, from its test to its store, is the one in   *)
(* memory: nobody else moves g_key_r meanwhile.  One reader.               *)
OneReaderOwnsReadIndex ==
  \A p \in Readers :
    pc[p] \in Testing \cup Passed \cup Holding => snap[p] = g_key_r

(* When the keys come to rest, every handler has seen their last level.    *)
HandlersCatchUp ==
  <>[](\A h \in Handlers, k \in Keys : seen[h][k] = level[k])

(* A process asleep in read or poll while the timer reports is woken.      *)
ReportWakesSleepers ==
  \A p \in Readers :
    (pc[p] \in {"asleep", "pollsleep"} /\ soft # Idle)
      ~> pc[p] \notin {"asleep", "pollsleep"}

(* A SIGIO that kill_fasync sent is taken, also by a process that sleeps   *)
(* in read or poll or is in the handler of an earlier one (line 121): it   *)
(* stays pending only when that handler's own read goes to sleep.          *)
SigioIsTaken ==
  \A p \in Readers :
    "SIGIO" \in sig[p] ~> \/ "SIGIO" \notin sig[p]
                          \/ inSig[p] /\ pc[p] = "asleep"

-----------------------------------------------------------------------------
(* What the driver's test program takes for granted; the code breaks each. *)

(* button_test.c line 54 takes a read that returns 4 for one that carries  *)
(* a key.  keys_read returns 4 after an interrupted wait too (line 90-93). *)
FourCarriesKey ==
  \A p \in Readers : pc[p] = "user" /\ ret[p] = "4" => key[p] # NoKey

(* The endless loop of button_test.c line 53 goes on getting buttons: a    *)
(* reader asleep when the timer reports a key comes back with one.  It     *)
(* does not once the buffer is deaf.                                       *)
BlockedReaderIsServed ==
  \A p \in Readers : (pc[p] = "asleep" /\ soft # Idle) ~> pc[p] = "user"

(* "get button 0x%x" (button_test.c line 44) names the button by the gpio  *)
(* in the word.  Line 119 always puts in the gpio of the first key.        *)
WordNamesItsKey ==
  \A p \in Readers : pc[p] = "store" => key[p].gpio = key[p].src
=============================================================================
