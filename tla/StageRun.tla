------------------------------ MODULE StageRun -------------------------------
(***************************************************************************)
(* The machine the programs of KeyStages run on: one key, one CPU, and the *)
(* stage's own test program as the one process.  A hard interrupt runs     *)
(* between any two steps and to its end; the timer's softirq keeps         *)
(* processes out.  Stages 02 to 05 wait for the word itself to be nonzero, *)
(* so a word of gpio 0 and level 0 is a key nobody sees: gpio is 0 or not. *)
(***************************************************************************)
EXTENDS KeyStages, Integers, FiniteSets

CONSTANTS
  RunStages,   \* the stages this instance runs
  GpiosOf,     \* the numbers the first key's gpio may have, per stage
  BUF_LEN,     \* slots of g_key (120 in the code)
  Half,        \* counters are ints: Half - 1 is the largest (2^31 - 1)
  MaxEdges,    \* bound: level changes of the key, over all stages
  EdgesOf,     \* bound: level changes of the key in each stage
  MaxStops     \* bound: job-control stops of the process

ASSUME RunStagesAssumption == RunStages \subseteq Stages
ASSUME GpiosAssumption == GpiosOf \in [Stages -> SUBSET Nat]
ASSUME BufAssumption == BUF_LEN \in Nat /\ BUF_LEN > 1
ASSUME HalfAssumption == Half \in Nat /\ Half >= BUF_LEN
ASSUME RunBounds ==
  MaxEdges \in Nat /\ MaxStops \in Nat /\ EdgesOf \in [Stages -> 0 .. MaxEdges]

VARIABLES
  stage, gpio,        \* which driver is loaded, and the first key's gpio
  level, latched,     \* the key's line; an edge the controller has latched
  edges, stops,       \* how many edges and stops there have been
  hard, soft,         \* what is left of the running interrupt and timer handler
  val,                \* the local val of each of the two
  pend,               \* the handlers armed or scheduled
  slots, g_key_r, g_key_w,
  kpc,                \* what is left of the process's system call
  call,               \* its name, and "user" outside one
  todo,               \* the calls of main that are left before it loops
  where,              \* "run", "queued" on gpio_key_wait, or "asleep" on it
  key, snap,          \* the key being read; g_key_r as get_key loaded it
  nonblock, fasync,   \* O_NONBLOCK of the file; registered for SIGIO
  sig, inSig,         \* pending signals; the process is in sig_func
  ret,                \* what the last call returned
  \* History.
  seen,               \* the level each handler read last
  puts, lastSeq,      \* keys accepted; number of the last key a read returned
  reads,              \* reads that returned 4, counted up to BUF_LEN
  unsignalled,        \* keys put that raised no SIGIO of their own
  flags               \* what has happened, of Happenings

progVars == <<stage, gpio>>
lineVars == <<level, latched, edges>>
cpuVars == <<hard, soft, val, pend, seen>>
bufVars == <<slots, g_key_r, g_key_w>>
procVars == <<kpc, call, todo, key, snap, nonblock, fasync, inSig, ret>>
sleepVars == <<where, sig, stops>>
histVars == <<puts, lastSeq, reads, unsignalled, flags>>
vars == <<progVars, lineVars, cpuVars, bufVars, procVars, sleepVars, histVars>>

Happenings == {"intr",       \* a signal ended a wait
               "clobbered",  \* a word came between the copy and the clearing
               "overrun",    \* the writer took a slot not yet read
               "stray",      \* an index left the buffer
               "promised"}   \* poll said POLLIN and no read has returned since
Word == [val : -1 .. 1, seq : 0 .. MaxEdges + 1]
NoWord == [val |-> 0, seq |-> 0]
MinusOne == [val |-> -1, seq |-> 0]

HandlersOf(s) == (IF s >= 7 THEN {"timer"} ELSE {"irq"})
                   \cup DOMAIN deferred_funcs[s]

\* After a successful probe, with the test program started.  The timer of
\* stages 07 on was added with an expiry that has passed.
Init ==
  /\ stage \in RunStages /\ gpio \in GpiosOf[stage]
  /\ level \in 0 .. 1 /\ latched = FALSE /\ edges = 0 /\ stops = 0
  /\ hard = << >> /\ soft = << >>
  /\ val = [c \in {"hard", "soft"} |-> 0]
  /\ pend = IF stage >= 7 THEN {"timer"} ELSE {}
  /\ slots = [i \in 0 .. BUF_LEN - 1 |-> NoWord]
  /\ g_key_r = 0 /\ g_key_w = 0
  /\ kpc = << >> /\ call = "user" /\ todo = button_test[stage].once
  /\ where = "run" /\ key = NoWord /\ snap = 0
  /\ nonblock = FALSE /\ fasync = FALSE /\ sig = {} /\ inSig = FALSE
  /\ ret = "none"
  /\ seen = [h \in HandlersOf(stage) |-> level]
  /\ puts = 0 /\ lastSeq = 0 /\ reads = 0 /\ unsignalled = 0 /\ flags = {}

-----------------------------------------------------------------------------
(* Numbers as C has them.                                                   *)

\* (Faulty form: an int without end.)
NoWrap(x) == x + 1

\* The int that follows x.
Wrap(x) == IF x + 1 = Half THEN -Half ELSE x + 1

\* The remainder takes the sign of the dividend.
CRem(x, n) == IF x >= 0 THEN x % n ELSE -((-x) % n)

\* (Faulty form: the index runs one past the last slot.)
SlotOneMore(i) == CRem(i, BUF_LEN + 1)

\* The index expression of stages 03 to 05.
Slot(i) == CRem(i, BUF_LEN)

InBuffer(i) == i \in 0 .. BUF_LEN - 1

\* The word as an int: (gpio << 8) | val; nothing was ever stored at seq 0.
IsZero(wd) == wd.seq = 0 \/ (gpio = 0 /\ wd.val = 0)

\* (Faulty form: the buffer counts as empty one key too late.)
EmptyOneLate == g_key_r = g_key_w + 1

is_key_buf_empty == g_key_r = g_key_w
is_key_buf_full == g_key_r + 1 = BUF_LEN
-----------------------------------------------------------------------------
(* The key and the handlers.                                                *)

Halted == "stray" \in flags
AtStep(s) == kpc # << >> /\ Head(kpc) = s

\* The key is pressed, released, or bounces; both edges interrupt.
Edge ==
  /\ ~Halted /\ edges < EdgesOf[stage]
  /\ edges' = edges + 1 /\ level' = 1 - level /\ latched' = TRUE
  /\ UNCHANGED <<progVars, cpuVars, bufVars, procVars, sleepVars, histVars>>

\* The CPU takes the interrupt: the latch is cleared, then keys_irq runs.
Interrupt ==
  /\ ~Halted /\ latched /\ hard = << >>
  /\ latched' = FALSE /\ hard' = keys_irq[stage]
  /\ UNCHANGED <<progVars, level, edges, soft, val, pend, seen, bufVars,
                 procVars, sleepVars, histVars>>

\* The timer fires, once, when no handler runs.
TimerFires ==
  /\ ~Halted /\ hard = << >> /\ soft = << >> /\ "timer" \in pend
  /\ pend' = pend \ {"timer"} /\ soft' = key_timer_expire[stage - 6]
  /\ UNCHANGED <<progVars, lineVars, hard, val, seen, bufVars, procVars,
                 sleepVars, histVars>>

\* Tasklet, work and thread run after the handlers, and only read the level.
DeferredRun(h) ==
  /\ ~Halted /\ hard = << >> /\ soft = << >>
  /\ h \in pend \cap DOMAIN deferred_funcs[stage]
  /\ deferred_funcs[stage][h] = Sample
  /\ pend' = pend \ {h} /\ seen' = [seen EXCEPT ![h] = level]
  /\ UNCHANGED <<progVars, lineVars, hard, soft, val, bufVars, procVars,
                 sleepVars, histVars>>

\* gpiod_get_value in context c.
Sampled(c) ==
  /\ val' = [val EXCEPT ![c] = level]
  /\ seen' = [seen EXCEPT ![IF c = "hard" THEN "irq" ELSE "timer"] = level]
  /\ UNCHANGED <<pend, bufVars, where, sig, histVars>>

NewWord(c) == [val |-> val[c], seq |-> puts + 1]

\* g_key = word, or g_key[g_key_w % BUF_LEN] = word.  A word stored outside
\* the array lands in some other variable, and nothing is said from then on.
Stored(c, i, happens) ==
  /\ IF InBuffer(i)
     THEN /\ slots' = [slots EXCEPT ![i] = NewWord(c)]
          /\ flags' = flags \cup happens
     ELSE slots' = slots /\ flags' = flags \cup {"stray"}
  /\ puts' = puts + 1
  /\ UNCHANGED <<val, seen, pend, g_key_r, g_key_w, where, sig, reads,
                 lastSeq, unsignalled>>

StoredWord(c) ==
  Stored(c, 0, IF AtStep("clear_word") THEN {"clobbered"} ELSE {})

StoredSlot(c) ==
  Stored(c, Slot(g_key_w),
         IF g_key_w - g_key_r \in {BUF_LEN, BUF_LEN - 2 * Half}
         THEN {"overrun"} ELSE {})

WriteAdvanced ==
  /\ g_key_w' = Wrap(g_key_w)
  /\ UNCHANGED <<val, seen, pend, slots, g_key_r, where, sig, histVars>>

\* put_key: only the read index is looked at before the slot is written.
PutInRing(c) ==
  /\ IF is_key_buf_full
     THEN UNCHANGED <<slots, g_key_w, puts, flags>>
     ELSE /\ slots' = [slots EXCEPT ![g_key_w] = NewWord(c)]
          /\ g_key_w' = (g_key_w + 1) % BUF_LEN
          /\ puts' = puts + 1
          /\ flags' = IF g_key_w' = g_key_r
                      THEN flags \cup {"overrun"} ELSE flags
  /\ UNCHANGED <<val, seen, pend, g_key_r, where, sig, reads, lastSeq,
                 unsignalled>>

\* wake_up_interruptible: the process tests its condition again.
Woken ==
  /\ where' = "run"
  /\ UNCHANGED <<val, seen, pend, bufVars, sig, histVars>>

\* kill_fasync: SIGIO is one bit.  It ends a sleep unless it is blocked, as
\* it is while its handler runs.
Signalled ==
  /\ IF fasync /\ "SIGIO" \notin sig
     THEN /\ sig' = sig \cup {"SIGIO"}
          /\ where' = IF where = "asleep" /\ ~inSig THEN "run" ELSE where
     ELSE UNCHANGED <<sig, where>>
  /\ unsignalled' = IF fasync /\ "SIGIO" \in sig THEN unsignalled + 1
                                              ELSE unsignalled
  /\ UNCHANGED <<val, seen, pend, bufVars, puts, lastSeq, reads, flags>>

Starts(h) ==
  /\ pend' = pend \cup {h}
  /\ UNCHANGED <<val, seen, bufVars, where, sig, histVars>>

\* One step of the handler in context c.
HandlerStep(c, s) ==
  \/ s = "sample" /\ Sampled(c)
  \/ s = "store_word" /\ StoredWord(c)
  \/ s = "store_slot" /\ StoredSlot(c)
  \/ s = "inc_w" /\ WriteAdvanced
  \/ s = "put_ring" /\ PutInRing(c)
  \/ s = "wake_up" /\ Woken
  \/ s = "kill_fasync" /\ Signalled
  \/ s = "tasklet_schedule" /\ Starts("task")
  \/ s = "schedule_work" /\ Starts("work")
  \/ s = "wake_thread" /\ Starts("thread")
  \/ s = "mod_timer" /\ Starts("timer")

HardStep ==
  /\ ~Halted /\ hard # << >> /\ hard' = Tail(hard)
  /\ HandlerStep("hard", Head(hard))
  /\ UNCHANGED <<progVars, lineVars, soft, procVars, stops>>

SoftStep ==
  /\ ~Halted /\ hard = << >> /\ soft # << >> /\ soft' = Tail(soft)
  /\ HandlerStep("soft", Head(soft))
  /\ UNCHANGED <<progVars, lineVars, hard, procVars, stops>>
-----------------------------------------------------------------------------
(* The process.                                                             *)

CanRun == ~Halted /\ hard = << >> /\ soft = << >> /\ where # "asleep"

Deliverable == IF inSig THEN sig \ {"SIGIO"} ELSE sig

\* Control-Z and fg while the process is inside read: the wait ends.  Other
\* calls are restarted, which leaves no trace.
JobStop ==
  /\ ~Halted /\ stops < MaxStops /\ call = "read"
  /\ stops' = stops + 1
  /\ sig' = sig \cup {"SIGCONT"}
  /\ where' = IF where = "asleep" THEN "run" ELSE where
  /\ UNCHANGED <<progVars, lineVars, cpuVars, bufVars, procVars, histVars>>

Begin(c) == call' = c /\ kpc' = keys_fops[stage][c]

\* SIGIO runs sig_func, which reads.
SigHandler ==
  /\ CanRun /\ call = "user" /\ ~inSig /\ "SIGIO" \in sig
  /\ button_test[stage].sig = <<"read">>
  /\ inSig' = TRUE /\ sig' = sig \ {"SIGIO"}
  /\ Begin("read")
  /\ UNCHANGED <<progVars, lineVars, cpuVars, bufVars, todo, key, snap,
                 nonblock, fasync, ret, where, stops, histVars>>

\* main makes its next call, or skips the read poll did not promise.
Main ==
  LET left == IF todo = << >> THEN button_test[stage].loop ELSE todo
  IN  /\ CanRun /\ call = "user" /\ ~inSig /\ Deliverable = {} /\ left # << >>
      /\ todo' = Tail(left)
      /\ CASE Head(left) \in {"read", "poll", "fasync"} ->
                Begin(Head(left)) /\ UNCHANGED nonblock
           [] Head(left) = "read_if_in" ->
                /\ IF ret = "in" THEN Begin("read") ELSE UNCHANGED <<call, kpc>>
                /\ UNCHANGED nonblock
           [] Head(left) \in {"set_nonblock", "clear_nonblock"} ->
                /\ nonblock' = (Head(left) = "set_nonblock")
                /\ UNCHANGED <<call, kpc>>
      /\ UNCHANGED <<progVars, lineVars, cpuVars, bufVars, key, snap, fasync,
                     inSig, ret, sleepVars, histVars>>

\* The call is over; a read made by sig_func ends the handler.
Return(r) ==
  /\ kpc' = << >> /\ call' = "user" /\ ret' = r /\ inSig' = FALSE
  /\ sig' = sig \ {"SIGCONT"}

ReadCondition ==
  \/ AtStep("wait_word") /\ ~IsZero(slots[0])
  \/ AtStep("wait_slot") /\ ~IsZero(slots[Slot(g_key_r)])
  \/ AtStep("wait_ring") /\ ~is_key_buf_empty

AtWait == \E s \in {"wait_word", "wait_slot", "wait_ring"} : AtStep(s)

\* wait_event_interruptible, whose result every stage ignores: test, queue,
\* test again, then sleep or give up for a signal.
Wait ==
  /\ CanRun /\ AtWait
  /\ IF AtStep("wait_slot") /\ ~InBuffer(Slot(g_key_r))
     THEN flags' = flags \cup {"stray"} /\ UNCHANGED <<kpc, where>>
     ELSE \/ /\ ReadCondition
             /\ kpc' = Tail(kpc) /\ where' = "run" /\ UNCHANGED flags
          \/ /\ ~ReadCondition /\ where = "run"
             /\ where' = "queued" /\ UNCHANGED <<kpc, flags>>
          \/ /\ ~ReadCondition /\ where = "queued"
             /\ IF Deliverable # {}
                THEN /\ kpc' = Tail(kpc) /\ where' = "run"
                     /\ flags' = flags \cup {"intr"}
                ELSE where' = "asleep" /\ UNCHANGED <<kpc, flags>>
  /\ UNCHANGED <<progVars, lineVars, cpuVars, bufVars, call, todo, key, snap,
                 nonblock, fasync, inSig, ret, sig, stops, puts, lastSeq,
                 reads, unsignalled>>

\* A step of keys_read that looks at the buffer or moves its read index.
ReadStep ==
  /\ CanRun
  /\ \/ /\ AtStep("copy_word") /\ key' = slots[0]
        /\ kpc' = Tail(kpc) /\ UNCHANGED <<bufVars, snap>>
     \/ /\ AtStep("clear_word") /\ slots' = [slots EXCEPT ![0] = NoWord]
        /\ kpc' = Tail(kpc) /\ UNCHANGED <<key, snap, g_key_r, g_key_w>>
     \/ /\ AtStep("copy_slot") /\ InBuffer(Slot(g_key_r))
        /\ key' = slots[Slot(g_key_r)]
        /\ kpc' = Tail(kpc) /\ UNCHANGED <<bufVars, snap>>
     \/ /\ AtStep("inc_r") /\ g_key_r' = Wrap(g_key_r)
        /\ kpc' = Tail(kpc) /\ UNCHANGED <<slots, g_key_w, key, snap>>
     \/ /\ AtStep("get_load") /\ ~is_key_buf_empty
        /\ key' = slots[g_key_r] /\ snap' = g_key_r
        /\ kpc' = Tail(kpc) /\ UNCHANGED bufVars
     \/ /\ AtStep("get_load") /\ is_key_buf_empty
        /\ key' = MinusOne
        /\ kpc' = Tail(Tail(kpc)) /\ UNCHANGED <<bufVars, snap>>
     \/ /\ AtStep("get_store") /\ g_key_r' = (snap + 1) % BUF_LEN
        /\ kpc' = Tail(kpc) /\ UNCHANGED <<slots, g_key_w, key, snap>>
  /\ UNCHANGED <<progVars, lineVars, cpuVars, call, todo, nonblock, fasync,
                 inSig, ret, sleepVars, histVars>>

\* copy_to_user has filled the buffer and the read returns 4, always.
ReadReturns ==
  /\ CanRun /\ AtStep("return4")
  /\ Return("4")
  /\ lastSeq' = IF key.seq > lastSeq THEN key.seq ELSE lastSeq
  /\ reads' = IF reads < BUF_LEN THEN reads + 1 ELSE reads
  /\ flags' = flags \ {"promised"}
  /\ UNCHANGED <<progVars, lineVars, cpuVars, bufVars, todo, key, snap,
                 nonblock, fasync, where, stops, puts, unsignalled>>

\* The file is O_NONBLOCK and the buffer empty; otherwise the read goes on.
NonblockTest ==
  /\ CanRun /\ AtStep("EAGAIN_if_empty")
  /\ IF is_key_buf_empty /\ nonblock
     THEN Return("EAGAIN")
     ELSE kpc' = Tail(kpc) /\ UNCHANGED <<call, ret, inSig, sig>>
  /\ UNCHANGED <<progVars, lineVars, cpuVars, bufVars, todo, key, snap,
                 nonblock, fasync, where, stops, histVars>>

\* poll queues the process, looks at the indices and sleeps on 0; a wake-up
\* makes it look again.
PollStep ==
  /\ CanRun
  /\ \/ /\ AtStep("poll_wait") /\ where' = "queued" /\ kpc' = Tail(kpc)
        /\ UNCHANGED <<call, ret, inSig, sig, flags>>
     \/ /\ AtStep("poll_test") /\ ~is_key_buf_empty
        /\ Return("in") /\ where' = "run"
        /\ flags' = flags \cup {"promised"}
     \/ /\ AtStep("poll_test") /\ is_key_buf_empty
        /\ where' = IF where = "queued" THEN "asleep" ELSE "run"
        /\ kpc' = keys_fops[stage].poll
        /\ UNCHANGED <<call, ret, inSig, sig, flags>>
  /\ UNCHANGED <<progVars, lineVars, cpuVars, bufVars, todo, key, snap,
                 nonblock, fasync, stops, puts, lastSeq, reads, unsignalled>>

\* Five seconds without a wake-up: the file is looked at once more.
PollTimeout ==
  /\ ~Halted /\ hard = << >> /\ soft = << >>
  /\ call = "poll" /\ where = "asleep" /\ where' = "run"
  /\ Return(IF is_key_buf_empty THEN "timeout" ELSE "in")
  /\ flags' = IF is_key_buf_empty THEN flags ELSE flags \cup {"promised"}
  /\ UNCHANGED <<progVars, lineVars, cpuVars, bufVars, todo, key, snap,
                 nonblock, fasync, stops, puts, lastSeq, reads, unsignalled>>

FasyncStep ==
  /\ CanRun /\ AtStep("fasync_helper")
  /\ fasync' = TRUE /\ Return("0")
  /\ unsignalled' = puts
  /\ UNCHANGED <<progVars, lineVars, cpuVars, bufVars, todo, key, snap,
                 nonblock, where, stops, puts, lastSeq, reads, flags>>

Handlers == Interrupt \/ HardStep \/ TimerFires \/ SoftStep
Process == \/ SigHandler \/ Main \/ Wait \/ ReadStep \/ ReadReturns
           \/ NonblockTest \/ PollStep \/ PollTimeout \/ FasyncStep

Next ==
  \/ Edge \/ JobStop \/ Handlers \/ Process
  \/ \E h \in {"task", "work", "thread"} : DeferredRun(h)

Spec == Init /\ [][Next]_vars

\* The CPU takes interrupts and timers before it goes back to the process,
\* and the process is not starved.
FairSpec == Spec /\ WF_vars(Handlers) /\ WF_vars(Process)
                 /\ WF_vars(\E h \in {"task", "work", "thread"} : DeferredRun(h))
-----------------------------------------------------------------------------
(* Properties.                                                              *)

Steps == UNION {{p[i] : i \in DOMAIN p} :
                  p \in {keys_irq[stage]} \cup
                        {keys_fops[stage][c] : c \in DOMAIN keys_fops[stage]}
                        \cup {key_timer_expire[i] : i \in 1 .. 4}}

\* Every variable holds a value of its C type or of its kernel meaning.
TypeOK ==
  /\ stage \in RunStages /\ gpio \in GpiosOf[stage]
  /\ level \in 0 .. 1 /\ latched \in BOOLEAN
  /\ edges \in 0 .. MaxEdges /\ stops \in 0 .. MaxStops
  /\ hard \in Seq(Steps) /\ soft \in Seq(Steps) /\ kpc \in Seq(Steps)
  /\ val \in [{"hard", "soft"} -> 0 .. 1]
  /\ pend \subseteq HandlersOf(stage)
  /\ slots \in [0 .. BUF_LEN - 1 -> Word]
  /\ {g_key_r, g_key_w} \subseteq -Half .. Half - 1
  /\ call \in {"user", "read", "poll", "fasync"}
  /\ where \in {"run", "queued", "asleep"}
  /\ key \in Word /\ snap \in 0 .. BUF_LEN - 1
  /\ {nonblock, fasync, inSig} \subseteq BOOLEAN
  /\ sig \subseteq {"SIGIO", "SIGCONT"}
  /\ ret \in {"none", "4", "EAGAIN", "in", "timeout", "0"}
  /\ seen \in [HandlersOf(stage) -> 0 .. 1]
  /\ {puts, lastSeq, unsignalled} \subseteq 0 .. MaxEdges + 1
  /\ reads \in 0 .. BUF_LEN
  /\ flags \subseteq Happenings

\* No handler runs or is about to.
Quiet == ~latched /\ hard = << >> /\ soft = << >> /\ pend = {}

\* A process does not stay asleep over a key it waits for: in every stage
\* whatever fills the buffer also wakes whoever waits, and a key that comes
\* between the test and the sleep is seen.  A read of a file with O_NONBLOCK
\* sleeps only if the writer has lapped it between its two tests.
SleepIsJustified ==
  where = "asleep" /\ ~Halted =>
    /\ Quiet /\ call = "read" => ~ReadCondition
    /\ Quiet /\ call = "poll" => is_key_buf_empty
    /\ call = "read" /\ nonblock => "overrun" \in flags

\* An edge is never forgotten: once nothing is running or scheduled, every
\* handler of the stage has read the level the key has now, though edges
\* came while handlers ran and scheduling one twice is once.
NoEdgeForgotten == Quiet => \A h \in DOMAIN seen : seen[h] = level

\* The index expressions leave the buffer only once a counter has passed the
\* largest int: until then the remainder keeps them in.
StrayNeedsOverflow == Halted => g_key_w < 0 \/ g_key_r < 0

\* A key is handed out twice, or after a later one, only by the stages that
\* wait for the slot and not for the indices, and there only after a round
\* of the buffer or an overrun: slots are never cleared.
RepeatsOnlyAfterRound ==
  AtStep("return4") /\ key.seq > 0 /\ key.seq <= lastSeq =>
    stage \in 3 .. 5 /\ (reads = BUF_LEN \/ "overrun" \in flags)

\* Until a signal ends a wait, the writer laps the reader, or (where slots
\* are waited for) a round is over, a read returns exactly the next key.  An
\* interrupted read of stages 03 to 05 moves the index past a key that has
\* not come, and the reader is ahead of the writer from then on.
NextKeyUnlessInterrupted ==
  AtStep("return4") /\ stage >= 3 /\ flags \cap {"intr", "overrun"} = {}
    /\ (stage >= 6 \/ reads < BUF_LEN) => key.seq = lastSeq + 1

\* Stage 02 keeps one key.  When the reader is asleep again the newest key
\* has been read, unless it came between the copy and the clearing or was the
\* zero word.
NewestKeyKept ==
  stage = 2 /\ Quiet /\ where = "asleep" /\ gpio # 0 =>
    lastSeq = puts \/ "clobbered" \in flags

\* The read after a poll that said POLLIN does not block, although poll looks
\* at the indices and read at the slot, unless the key is the zero word or an
\* interrupted read has put the indices out of step.
PollKeepsItsWord ==
  "promised" \in flags /\ call = "read" /\ gpio # 0 /\ "intr" \notin flags =>
    where # "asleep"

\* Stage 05 reads one key for each SIGIO it handles.  When all is quiet the
\* keys it is behind by are exactly those whose SIGIO found one pending, or
\* came before it asked for signals: the handler never finds the buffer empty.
BehindByCoalescedSignals ==
  stage = 5 /\ Quiet /\ call = "user" /\ ~inSig /\ sig = {} /\ gpio # 0
    /\ flags = {} /\ reads < BUF_LEN /\ fasync =>
      puts - lastSeq = unsignalled

\* A key that is accepted is read (or overwritten by a later one that is):
\* the reader of stages 02, 03, 04 and 06 to 10 gets it in the end, unless
\* one of the known losses has happened.
Lossy == flags \cap {"intr", "clobbered", "overrun", "stray"} # {}
         \/ (stage >= 6 /\ is_key_buf_full)
PressIsServed ==
  stage # 5 /\ stage # 1 /\ gpio # 0 =>
    \A n \in 1 .. MaxEdges + 1 : puts >= n ~> (lastSeq >= n \/ Lossy)
=============================================================================
