# A verification project for linux-arm-study

The repository is a course of Linux device drivers for ARM boards: hello
drivers, LED drivers for eight boards and for the platform bus, a polled button
driver, a GPIO-descriptor LED driver and, in ten stages, an interrupt-driven key
driver that ends with poll, SIGIO, blocking reads, a debounce timer, a tasklet, a
work item and a threaded interrupt: twenty-three drivers, each with a test
program. This directory models them in TLA+, checks small instances with TLC and
proves with TLAPS the safety properties of the key drivers, of the last one and of
all ten stages with their test programs, of what processes do to each other's LEDs,
pins, pointers and texts in the other drivers, and of the loading and binding of all of
them.

There are two depths. The last key driver holds most of what is hard; it has
state machines with one action per handler, an abstract specification and
proofs. Every driver, that one included, is also run as a *program*: the sequence
of the steps in which it touches what it shares with others, executed by a small
machine that interleaves them.

Short names used below: **stage N** is `src/06_gpio_irq/NN_*/key_drv.c`; line
numbers without a file are those of stage 10,
`src/06_gpio_irq/10_read_key_irq_poll_fasync_block_timer_tasklet_work_thread/key_drv.c`.

## 1. Inventory

| Part | State | Operations | Hard behaviour | What makes it correct |
|---|---|---|---|---|
| Key buffer, stages 06-10 (l. 33-71) | `g_key[BUF_LEN]`, `g_key_r`, `g_key_w` | `is_key_buf_empty`, `is_key_buf_full`, `put_key`, `get_key` | no lock; the fullness test does not look at the write index | keys come out once, in order; none is invented; what is lost is known |
| Key driver at run time, stages 07-10 (l. 73-158) | the buffer, per-key timer, tasklet, work; `gpio_key_wait`, `key_fasync` | `keys_irq`, `key_timer_expire`, `key_task_func`, `key_work_func`, `keys_thread_irq`, `keys_read`, `keys_poll`, `keys_fasync` | interrupt, softirq and process code interleave; sleeping and waking; signals | no wake-up lost, no last edge of a bouncing key unseen, sleep only for a reason, poll tells the truth |
| Its probe and remove (l. 161-244) | `g_p_keys`, requested lines, device nodes | `keys_probe` with each failure, `keys_remove` | interrupts arrive during both; errors at each step | nothing but the work item runs on freed memory |
| Early key drivers, stages 01-06 | nothing (01); one word (02); slots and unreduced counters (03-05); the ring (06) | interrupt puts, read takes, poll, SIGIO | filled in hard-interrupt context; the wait tests the word, poll the indices; counters overflow | the reader gets the next key, and each way to get another one is known |
| LED drivers for boards (`02_led_drv/01..03`) | mapped registers of a GPIO bank, `p_led_opr` | `led_init`, `led_ctl` per board; load and unload | unlocked read-modify-write; pointers mapped on first use; node made before its operations | a LED shows what was last written to it; no null pointer is followed |
| Simple LED drivers (`02_led_drv/00`) | mapped registers | load, unload, open, write | a refused class is not looked at | unload follows no bad pointer |
| LED driver on the platform bus (`02_led_drv/04`, `05`) | table of pins, counter, class, nodes | load and unload of two modules, probe, remove, open, write | order of modules; loops that do not advance; nodes that survive | the slots name the bound devices |
| Polled button driver (`04_button`) | table of buttons, counter, nodes | the same, and read | as above | as above |
| GPIO-descriptor LED (`05_gpio_and_pinctrl/01_led`) | one descriptor, class | probe, remove, open, write | error path that counts as success | remove follows no bad pointer |
| Hello and mmap drivers (`01`, `01b`, `07_mmap`) | a buffer | read, write, mmap; load and unload | the buffer is shared without a lock; refusals | the string read is one write's; unload leaves nothing |
| Signal example, delay helper | none | - | - | - |

How the parts of the key driver interact:

    key edge --> keys_irq --mod_timer (HZ/50)--> key_timer_expire --put_key--> g_key[]
                    |                                |                            |
                    |                                +-- wake_up_interruptible    | get_key
                    |                                |      (gpio_key_wait)       v
                    |                                +-- kill_fasync --SIGIO--> process in
                    +-- tasklet, work, thread (log the level)        keys_read / keys_poll

How a driver in two modules (04, 05, button) interacts:

    leddrv / button_fdrv                      chip_led / button_drv
    chrdev, class <--- register ops ---------- init, exit
    open, read, write --> ops->init, ctl -->   registers of the pins in the table
    nodes <--- create_led_device ------------- probe (adds a slot)
    nodes <--- destroy (or not) -------------- remove (clears the slot)

`PROJECT.json` lists every part with its sources, and every hazard at its line
with the properties that cover it.

## 2. Modules

| Module | What it is | Code |
|---|---|---|
| `KeyRing` | the buffer: operators and actions of the four helpers | l. 33-71 |
| `LossyFifo` | what the buffer promises: a bounded queue that may refuse a key, and may lose everything it holds when a key is put | abstract |
| `KeyRingSpec` | `KeyRing` alone, with its invariants and the mapping to `LossyFifo` | l. 33-71 |
| `KeyDriver` | the running driver: keys, interrupts, deferred handlers, processes in read, poll, fasync, signals | l. 73-158 |
| `KeyLifecycle` | probe and remove of stage 10 against interrupts and handlers | l. 161-244 |
| `KeyStages` | the handlers, file operations and test programs of the ten stages, as programs | stages 01-10 |
| `StageRun` | the machine that runs them: one key, one CPU, one process | stages 01-10 |
| `DriverPrograms` | load, unload, probe and remove of the thirteen other drivers, as programs | `01`-`05`, `07` |
| `KeyPrograms` | the same of the ten key drivers; extends `DriverPrograms` | stages 01-10 |
| `DriverLife` | the module loader, the driver core, a process with a node open, interrupts: whoever calls those programs | all |
| `RegisterPrograms` | what open, write, read and mmap do to registers, pointers and buffers, per board, and the test programs | `01`-`05`, `07` |
| `DeviceTable` | the nineteen drivers of those nodes: programs, registers after reset, what a pin needs | `01`-`05`, `07` |
| `DeviceFiles` | processes running those test programs at the same time | `01`-`05`, `07` |
| `MCKeyRing`, `MCKeyDriver`, `MCKeyLifecycle`, `MCStageRun`, `MCDriverLife`, `MCDeviceFiles` | constants for TLC | |
| `KeyRingLemmas`, `KeyRingProofs`, `KeyDriverProofs`, `KeyLifecycleProofs` | lemmas and theorems about the last key driver | |
| `StageShape`, `StageRunProofs` | lemmas and theorems about the ten stages | |
| `DeviceFacts`, `DeviceFilesProofs` | what the drivers of `DeviceTable` have in common; theorems about `DeviceFiles` | |
| `DriverLifeProofs` | lemmas about the programs of `DriverPrograms` and `KeyPrograms`; theorems about `DriverLife` | |

### KeyRing, KeyRingSpec, LossyFifo

`g_key`, `g_key_r` and `g_key_w` are the variables of the code; `out` is what the
last `get_key` returned. `Advance` is the step of an index, `(i + 1) % BUF_LEN`. The code's
`is_key_buf_full` compares `g_key_r + 1` with `BUF_LEN`: it does not look at
`g_key_w` at all. The model keeps this. Two things follow, and both are
checked and proved:

* nothing stops the write index from lapping the read index. When they meet, a
  full buffer looks empty, and all keys in it are gone. Hence the abstract queue
  is *lossy*: `ImplementsFifo` says that, apart from these losses of everything
  at once and from refusals, the ring is a queue (order, no duplicates, no
  invented key, never more than BUF_LEN - 1 keys);
* when both indices stand on the last slot, no key is accepted again
  (`DeafForever`).

### KeyDriver

One action per handler, split where another context can come in between:

| Action | Code |
|---|---|
| `Edge` | the user moves a key; the GPIO controller latches the edge |
| `keys_irq` | l. 73-79: `tasklet_schedule`, `mod_timer`, `schedule_work`, `IRQ_WAKE_THREAD` |
| `TimerSample`, `TimerReport` | l. 112-122, split at the sampled level: the line may change in between |
| `key_task_func`, `key_work_func`, `keys_thread_irq` | l. 124-158 |
| `Read`, `CheckLoad`, `CheckNonblock`, `WaitTest`, `Prepare`, `Retest`, `Awake` | l. 81-90 with the loop of `wait_event_interruptible` |
| `GetFirst`, `GetTest`, `GetIndex`, `GetLoad`, `GetNext`, `GetStore` | l. 64-71, one action for each access of `get_key` to shared memory: `g_key_r`, `g_key_w`, `g_key_r` as index, the slot, `g_key_r` as operand, the store |
| `Poll`, `PollQueue`, `PollTest`, `PollAwake` | l. 96-100 with the kernel's loop around it |
| `keys_fasync`, `SetNonblock` | l. 102-111 and the flag in `file->f_flags` |
| `sig_func` | the SIGIO handler of the test program, which reads one key |
| `JobStop`, `JobContinue` | a stopped and continued process: a signal that ends a wait and that the program never sees |

The constant `Deferred` selects the stage by what `keys_irq` starts besides the
timer: `{"task"}` is stage 07, `{"task", "work"}` 08 and 09, all three stage 10; the code of
the buffer, of read, poll and fasync is the same text in all four. `Calls` says
which system calls the processes make.

*Scheduling.* The drivers are built for boards with one CPU in use. A hard
interrupt can come between any two steps; a softirq (the timer handler) between
any two steps of a process; while a softirq runs no process does (`soft = Idle`
guards every step of a process).

*Granularity.* The two tests whose loads decide which slot is read, `keys_read`'s own
and that of `get_key`, load `g_key_r` and `g_key_w` in two steps, in the order of the
source. The tests of the wait and of poll are one step each: `get_key` tests again
whatever they say (and the object file kept in the repository, `key_drv.o`, reads both
indices of the wait's test with one `ldrd`). With two readers a test in two steps could
send a process to sleep for a reason that has passed; nothing is claimed about that.

*The compiler.* Nothing in the code is volatile, so where `g_key_r` occurs again, as
index of the slot (l. 67) and as operand of the sum (l. 68), a compiler may load it again or
use what it loaded for the test. `ReuseOrReload` has both outcomes. `key_drv.o` loads it
once. Nor need `keys_read` test again in `get_key`: `key_drv.o` uses the first test for the path that
does not wait, so `CheckNonblock` goes straight to `index`, or to a new test.

*History variables* (`seen`, `puts`, `lastSeq`, `lapped`, `torn`, `ret`, and `src`, `seq`
inside a word) are read by the properties and by no guard.

### KeyLifecycle

One action per call of `keys_probe` that can fail and per call of `keys_remove`
that takes a handler's chance away. Arrays are numbered in the order of
allocation; `line[i]` is the array whose key owns the interrupt line (its
`dev_id`); `pending[a][i]` are the handlers armed or scheduled for a key of that
array. The label `out` frees nothing, as in the code. Interrupts and handlers
interleave with every step.

### Programs

The ten key drivers repeat each other with changes, and so do the LED drivers. A
module per driver would say the same thing twenty times. Instead a function is
written as the sequence of its steps on shared state, in the order of the code,
with what a compiler or the hardware may not reorder as one step. What differs
between two drivers is then what differs between two sequences, and a reader
can lay a sequence beside the function. `StageRun`, `DriverLife` and `DeviceFiles`
give each kind of step its meaning as an action.

### KeyStages, StageRun

`KeyStages` holds, per stage, `keys_irq`, `key_timer_expire`, the other handlers,
the file operations and `main` and `sig_func` of `button_test.c`. `StageRun` runs
one stage: `Interrupt` starts `keys_irq`, which runs step by step to its end
(`hard`); the timer handler (`soft`) yields only to interrupts; processes run
otherwise. `slots`, `g_key_r` and `g_key_w` are the buffer; the counters of stages
03 to 05 are ints of 2 * `Half` values (`Wrap`) and `%` is C's (`CRem`), so a negative
counter indexes before the array and the run ends (`stray`). A key on gpio 0 whose
level is 0 is the word 0, which the stages that wait for the slot take for no key.
`where` follows the process through the wait queue. `flags` records what has
happened (a signal ended a wait, the writer lapped the reader, ...), for the
properties only.

### DriverPrograms, KeyPrograms, DriverLife

A step *takes* something that may be refused (a number, a class, an interrupt
line, a gpio), *makes* or *drops* something, or *needs* a pointer to be good. Error
paths are what the code undoes before it returns. `DriverLife` has

* the loader: `text` of the two modules, `Load`, `Unload`. A module that is used by the
  other one cannot go before it;
* the driver core: a device is probed when it and the driver are there and
  removed when either goes, also in the middle of `module_init`. The code of a
  probe that returned 0 after failing binds the device (`failure = "bound"`);
* `cls`, the class pointer: null, good, an `ERR_PTR`, or stale;
* `held`, what exists: registrations, nodes, mappings, armed handlers, each with the
  array it was made for;
* `user`, a process with a node open, which keeps the module with the file operations in place.
  `Open` and `Use` call what the node leads to (`Calls`): the file operations of `m1`, through
  them the operations of a board or of `m2`. They follow a bad pointer when that is not
  there (`Gone`): `p_led_opr` not set yet, `m2` unloaded, `m1` unloaded with its
  number still registered. They also make the mappings that the code makes when a node is opened or
  toggled and that nothing undoes (`Mapped`: the boards of 02, clock and toggle of 05);
* interrupts and the handlers they start, on whatever array they were given. A handler
  follows a bad pointer when the code of `m1` is out, when its array has been freed,
  or, if it is the one that records the key, when `g_p_keys` is freed (`Astray`);
* `oops`: a bad pointer has been followed, by the code of a module, a caller or a handler,
  or a slot was stored past the end of its array; the kernel stops.

Where the model has one name for the things of two loads (a handler whose array is not
the one `g_p_keys` names, operations of an `m2` that was loaded twice), whether the pointer
still leads somewhere is a nondeterministic choice (`OfAnother`, `MayBeGone`).

### RegisterPrograms, DeviceTable, DeviceFiles

A register is the set of its bits that are 1. `*r |= x` is a load and a store;
set and clear registers (am335x, rk3288 and rk3399 clock and mux, stm32mp157
`BSRR`) are one store. `MapOnce` is the test of the first pointer and the
`ioremap` of each. The hello drivers' buffer has two pieces, and each is copied in a step of its
own: a read asks for both, a write gives those its string reaches, one (`Ending`) or two, and leaves
the rest as it was. The mapping of 07 is write-combining, past the kernel's cache of
the same memory, so the kernel may read there what was mapped in or what it had before
(`Fetchable`). `DeviceTable`
gives each driver its programs, its registers and its pins, and `DeviceFiles`
runs one program per process: open, the calls the test program may make with its
arguments, close.

### Faulty forms

Some modules hold definitions marked *(Faulty form: ...)*. No action uses them.
They are plausible bugs: `PROJECT.json` pairs each property with one faulty form
of a definition it depends on, and the property fails when the definition is
replaced. They show that each property can be broken by the code.

## 3. Runs

| Run | Instance | Question |
|---|---|---|
| `ring` (`MCKeyRing.cfg`) | BUF_LEN 4, two keys | is the buffer alone a lossy queue, and does it stay deaf |
| `driver_one` (`MCDriverOne.cfg`) | BUF_LEN 3, one key, one reader, all calls, work and thread beside the timer, 3 edges | all safety properties of one reader |
| `driver_live` (`MCDriverLive.cfg`) | BUF_LEN 2, one key, stage 07's handlers, all calls, 2 edges, 1 stop, fair | is every last edge seen by every handler, are sleepers woken and signals taken (but for one: a SIGIO that comes while the handler of an earlier one reads stays pending as long as that read sleeps) |
| `driver_two` (`MCDriverTwo.cfg`) | BUF_LEN 3, two readers, the timer only, 2 edges | what survives when two processes read |
| `lifecycle` (`MCKeyLifecycle.cfg`) | two keys, two probes, fair | probe and remove of stage 10 against interrupts |
| `stage_run` (`MCStageRun.cfg`) | all ten stages; BUF_LEN 3, ints of 8 values, 2 to 5 edges, 1 stop, first key on gpio 0 or not | what each stage's test program reads, what it misses, what poll promises, what overflow does |
| `stage_live` (`MCStageLive.cfg`) | all ten stages; BUF_LEN 4, 2 edges, fair | is every press read in the end |
| `driver_life` (`MCDriverLife.cfg`) | all 23 drivers; 2 keys, 2 devices on the bus, 2 loads, 2 or 3 binds | which sequence of loads, failures, binds and unloads follows a bad pointer or leaves something behind |
| `device_files` (`MCDeviceFiles.cfg`) | all drivers but 04 and the key drivers, two processes that run the test program twice each | what two processes do to each other's LEDs, pins, pointers and texts |
| `interrupted_read` (`MCDriverFour.cfg`) | BUF_LEN 2, 1 stop | finding 1 |
| `deaf_reader` (`MCDriverDeaf.cfg`) | BUF_LEN 2, fair | finding 2 |
| `wrong_key` (`MCDriverName.cfg`) | two keys | finding 3 |

**Bounds.** `BUF_LEN` is 120 in the code (`#define BUF_LEN 120`). With 3 or 4 slots and 4 or more
reports (each edge can make one, and the timer armed at probe makes one) the
write index wraps, laps the read index, and the deaf state is reached; with 2
slots every put laps. `MaxEdges` and `EdgesOf` bound the changes of a key, `MaxStops` the
job-control stops, `MaxProbes` the calls of `keys_probe`; two probes are the
fewest in which a leak of the first meets the second. None of the theorems in
section 5 depends on these numbers.

In `stage_run`, `Half` = 4 makes the largest int 3: five presses take the counters of
stages 03 to 05 past it and around the buffer, as 2^31 presses do in the code. The
buffer's length does not divide the number of ints here (3 and 8) or in the code (120
and 2^32), so the overflow breaks the order of the slots in both. Stage 06 and later
reduce their indices and need fewer edges. `NonblockReads` is the number of reads a
test program makes with `O_NONBLOCK` set (one here; more repeat it).
`stage_live` has an int that does not overflow and a ring that two edges do not fill,
so that only the losses it names excuse a missing key.

In `driver_life` two loads are the fewest in which what an unload left meets the
next load, two binds the fewest in which a failed probe meets a good one, and
three the fewest in which a device of 05 or of the button driver comes back while another one
is bound. `CAP` (100 in the code) is 3, and 05 and the button driver are bound up to four times:
neither compares its counter with the size of the array, so the fourth slot is stored
past the end (`SlotAdded`, which ends in `oops`). In `device_files` a
program that is run twice opens a pin again while the other process uses it, and writes a short
string over a long one.

**Deadlock** checking is off for all runs but `ring`, because the systems
really stop: the keys come to rest and no process has to make a call; after
`MaxProbes` probes the device may stay unbound; modules are not loaded again;
test programs end, or the kernel has followed a bad pointer or stored past the slots (`oops`)
or outside the buffer (`stray`).

**Fairness** (`FairSpec`). Weak fairness of: an interrupt that is latched, a timer
that is armed, a tasklet, work item or interrupt thread that is scheduled, the
running handler, a process inside a system call (the scheduler runs it),
a process that has a signal to take, and the driver core inside `keys_remove`.
The kernel gives these. Keys, users and probes owe nothing, nor does a new system
call in `KeyDriver`; in `StageRun` the process is the stage's test program, whose
`main` goes on calling. The timer's expiry is an action like the others:
`mod_timer` during a bounce moves it, but the number of edges is finite.

**One reader.** With two readers `NoLostWakeup`, `KeysComeInOrder` and
`NothingLostBeforeLap` do not hold: `get_key` is not atomic, and two processes
inside it both store an index computed from what they loaded. The driver has no
lock and its test programs open the device once, so these are properties of one
reader. The run `driver_two` shows what is left (`NothingInvented`): a reader that goes
by the index it has tested gets a key that was put. One that loads the index again may find
that the other process has moved it past the last key, and then hands out a slot that
was never written, or stores an index beyond it (`torn`); after that nothing is claimed.

## 4. What the runs show

### Findings

1. **A read that was interrupted answers 4 without a key** (`interrupted_read`).
   `keys_read` ignores the result of `wait_event_interruptible` (l. 90) and
   copies the -1 of `get_key` to the user. `button_test.c` takes 4 for a key.
2. **The buffer goes deaf** (`deaf_reader`). After 119 keys, all read in time, both
   indices are on slot 119, `is_key_buf_full` is true for ever and the reader
   sleeps for ever while the timer keeps reporting.
3. **The word names the wrong key** (`wrong_key`). `key_timer_expire` samples
   `pkeys->desc` but composes the word from `g_p_keys->gpio`, the first key's
   (l. 119).

### Behaviour no document denies

The properties of the passing runs name each exception to what one would wish;
no other exception exists in the instance.

*Keys* (`stage_run`): a word stored between the copy and the clearing of stage 02
is lost (`NewestKeyKept`); stages 03 to 05 hand out old keys once a round of the
buffer is over, because they wait for a slot that is never cleared
(`RepeatsOnlyAfterRound`); an interrupted read moves their read counter past a key
that has not come, and then poll and read disagree (`NextKeyUnlessInterrupted`,
`PollKeepsItsWord`); the counters index before the array after an overflow
(`StrayNeedsOverflow`); stage 05 stays behind by one key for each SIGIO that found
one pending (`BehindByCoalescedSignals`); a read with `O_NONBLOCK` may sleep, if
the buffer is lapped between its two tests (`SleepIsJustified`).

*Loading and binding* (`driver_life`): `OopsNeedsUnchecked` names every way to a bad pointer.

* In the code of the modules: the first probe of the platform-bus driver 04 follows
  a null pointer, since `device_create` has its arguments shifted; the simple LED
  drivers unload through a class they never looked at; the GPIO LED driver returns
  `false` from a failed probe, which is success, and its remove follows the freed
  class; 05 and the button driver store past their slots when they are bound more often than
  there are slots while one device stays.
* In what a process calls: the templates 01 and 03 make the node before the
  operations it needs are there; `leddrv` of 05 and `button_fdrv` keep the
  operations of a module that may be unloaded, and after a refused class their number
  stays registered when they go.
* In handlers: stage 01 keeps its lines when it is unloaded, and the next key jumps into
  what was there; so do the lines, timers and work items a failed probe leaves, and the
  tasklet of stage 07 and work item of 08 to 10 that remove does not stop.

What stays behind (`NothingElseOutlives`): driver `01b` leaves a region and a cdev when its class
is refused; 05 and the button driver leave their nodes, because remove creates instead of destroying,
or does neither; the boards of 02 leave the registers they map at the first open, 05 its clock and,
when toggled, its data register; a gpio and stage 01's interrupt lines stay taken; a failed probe
of a key driver leaves its array, lines and handlers (and
`LeaksAreForever` for stage 10). The timer of a failed probe reads
the array that a later probe allocated and a later remove freed (`HandlersReadLive`).
A process that is inside finds the code, operations, registers and buffer of the module with the file operations
(`CallsFindTheirs`); of the operations in `m2` this says that they are set, not
that their code is still there.

*Files* (`device_files`): boards whose LEDs share a data register lose updates
(`LedsShowTheLastWrite`); opening a pin again takes its function away from whoever
uses it, for a moment (`OpenPinsStayConfigured`); a second process that opens a
board while the first maps its registers follows a null pointer
(`NullOnlyWhileMapping`); texts of the hello drivers tear when a write overlaps another copying,
and only then, although a short write leaves the end of a longer text behind it: a string is
read as far as its NUL (`ReadReturnsOneWrite`). The mapping of 07 starts at the page and not at the
buffer: when these differ, what is put there is never read back. When they agree nothing is
claimed, because the mapping is an alias of the kernel's memory with another cache attribute.

The work item of stages 08 to 10 is not cancelled by remove and may run on the freed array
(`OnlyWorkOutlives`). The timer is armed at probe with `expires = ~0`, so each key
makes one report nobody caused.

## 5. Proofs

All theorems hold for every value of the constants, under the assumptions named
in the modules: `BUF_LEN` is a natural number of at least 2 (`BufLenAssumption`),
`NoKey` is no key, `Idle` is no running handler, the bounds are naturals.

`KeyRingProofs` (buffer alone): `RingTypeCorrect`; `RingSafe` (the ring invariant);
`WaitingKeysAreReal` (the slots between the indices hold keys that were put);
`DeafIsForever`; `RingImplementsFifo`, the refinement: every step of the ring is a
step of `LossyFifo` or a stutter. Its proof goes through the number of waiting
keys (`Count`) and the slot of the n-th one (`SlotOf`), with lemmas in
`KeyRingLemmas` about `Advance`.

`KeyDriverProofs` (running driver, any set of keys, any `Deferred`, any processes):

| Theorem | Property | Argument |
|---|---|---|
| `DriverTypeCorrect` | `TypeOK` | inductive by itself, one step per action |
| `EdgesAreOwed` | `NoEdgeForgotten` | inductive with the types |
| `StuckIsForever` | `StuckForever` | an action property from the types |
| `ReadIndexIsOwned` | `OneReaderOwnsReadIndex` | one reader; only `GetStore` writes `g_key_r` |
| `NoWakeupIsLost` | `NoLostWakeup` | one reader; inductive with the types: a process goes to sleep only after a test that follows its queueing, and the one step that fills the buffer empties the queue |
| `OrderIsKept`, `KeysAreNeverReordered` | the order invariant, `KeysComeInOrder` | see below |
| `NothingIsLostBeforeLap` | `NothingLostBeforeLap` | part of the order invariant |
| `NothingIsInvented` | `NothingInvented` | any number of readers; see below |

Theorems about one reader have the form `Spec => [](OneReader => Inv)`; the others hold for
any number.

*The order invariant.* `KeysComeInOrder` is not inductive: it says nothing of the
slots not yet read, and the timer may overwrite any of them while a reader is
inside `get_key`. The invariant gives every slot an *age*, its distance behind the
write index going round the ring (`AgeOf`): a slot of age a was written last as
number `puts - a`, or never if that number is not positive. From it, the slot under
the read index is younger than the last key handed out, whether or not the ring
was lapped, and what the reader loaded stays younger than `lastSeq` until it
stores. `NothingLostBeforeLap` follows because before the first lap the read
index has age `Count`.

*Any number of readers.* Two readers break the order, and the read index may move
backwards. `NothingInvented` survives while no `get_key` has gone by another index than
it tested (`~torn`), because until every slot has been written
(`puts < BUF_LEN`) the write index equals `puts`, no index, in memory or in a
process that loaded it long ago, is beyond it, and one that has passed its test is before
it (`Filling`); afterwards there is no unwritten slot to read (`Written`). The test may be out of date by the
time it is made, since its two loads are apart: what makes it good is that the write index never
goes back before the first round is over.

`KeyLifecycleProofs` (any number of keys and of probes): `LifecycleSafe`, the
invariant `LifeInv`, and from it `LifecycleTypeCorrect`, `OnlyTheWorkOutlives`,
`LineOwnersLive`, `UnboundHasNoNode`, `BoundHasAll` and the action property
`LeaksAreForever`; the last three are proved and in no run. None of the stated properties is inductive. Kernel calls stop one kind of handler each, so
`LoopInv` says what the calls made so far have stopped for key `i`: after
`free_irq` its line has no owner, so nothing is started again; then the thread is
gone, then the timer, then the tasklet; the keys before `i` are `Silent`. When the
loop ends every key is silent and `kfree` is safe but for the work item. In the
other direction, probe owns the lines of the keys before `i`, which gives
`BoundIsComplete` and, since a bound driver owns every line, `LeakIsForever`.

`StageShape`, `StageRunProofs` (all ten stages and their test programs; any length of
the buffer of at least 2, any width of an int, any bound on edges and stops:
`BufAssumption`, `RunBounds`, and `HalfAssumption`, which says that an int counts at
least once around the buffer):

| Theorem | Property | Argument |
|---|---|---|
| `ProgramsAreFollowed` | the invariant `Shape` | what a handler or the process has left to run is a rest of a function of its stage |
| `StageTypeCorrect` | `TypeOK` | `Shape`, the types of the buffer and three counts bounded by the edges |
| `StrayOnlyByOverflow` | `StrayNeedsOverflow` | inductive with the types and the range of C's remainder |
| `EdgesAreRead` | `NoEdgeForgotten` | `EdgeOwed`: a handler that has not seen the level is pending, latched, or about to sample |
| `SleepersAreWoken` | `SleepIsJustified` | `SleepInv`: between the store of a key and the end of the handler a wake-up is ahead (`WakeAhead`), and a process that has queued itself tests once more before it sleeps |
| `WordIsNewest`, `NewestIsRead` | `NewestKeyKept` | `WordInv` orders the word of stage 02, what `keys_read` holds of it and what was read last |
| `RepeatsNeedARound` | `RepeatsOnlyAfterRound` | `SlotsAhead` for stages 03 to 05, `RingInv` for 06 to 10 |
| `ReadsAreNext` | `NextKeyUnlessInterrupted` | the same |
| `SignalsAreAccountedFor`, `BehindBySignals` | `BehindByCoalescedSignals` | `SigioInv`: reports signalled = reports read + signals that found one pending + the pending one + the one whose handler runs |
| `PollTellsTheTruth` | `PollKeepsItsWord` | `PollInv`: the slots of stage 04 fill from the left, so an index that is behind the writer names a full slot |

*Shape.* The programs of `KeyStages` are data, and a step only takes the head of what
is left. What a property needs to know is the converse: at which places of which
function a handler or the process may stand, and what its variables are there. `Shape`
lists these places per stage, and each later proof looks a step up in it instead of
taking the programs apart again.

*Counters and ages.* The write counter of stages 03 to 05 is the number of reports
until it passes the largest int (`CounterInv`); it then jumps to the smallest,
which names a slot in the buffer only if `BUF_LEN` divides `Half`, so `Half` + 1 reports are the most a
run can see. On the first round the read counter is the number of reads (`ReaderAt`) and
the slots ahead of it hold the reports in order (`SlotsAhead`). For the ring of stages 06
to 10, `RingInv` gives every slot its age, as the order invariant of `KeyDriver`
does; here the exact form `lastSeq + Ahead = puts` holds until a signal ends a wait or the
writer laps the reader, and an inequality after that.

`DeviceFilesProofs` (any of the nineteen drivers of `DeviceTable`, any set of processes,
any bound on runs):

| Theorem | Property | Argument |
|---|---|---|
| `Positions` | the invariant `Shape` | a process is at a step of the program its driver has for what it asked, and has the rest of it left |
| `FileTypes` | `TypeOK` | `Shape`, the bits a process has loaded to change (`BitsInv`), the page (`PageInv`) and how much of its text a process has (`GotInv`) |
| `NullOnlyWhileMappingHolds` | `NullOnlyWhileMapping` | `MapInv`: once the first pointer is set, every pointer is set or will be by somebody past the test; whoever is past the test has found or set the first |
| `LedsShowTheLastWriteHolds` | `LedsShowTheLastWrite` | inductive with `Shape`: a store that is not a race changes the LED's own bit, to the level asked for |
| `OpenPinsStayConfiguredHolds` | `OpenPinsStayConfigured` | `PinsInv` and `ClearedInv`, see below |
| `ReadReturnsOneWriteHolds` | `ReadReturnsOneWrite` | `TextInv`: while nothing was blurred, at most one process is between its two stores, nobody fetches meanwhile, and when there is none the first piece ends its text or the second is of the same (`Whole`); `MapTextInv`: what was put into the mapping is in the buffer only if the buffer starts the page |

*Nineteen drivers, one proof.* The proofs never look into a program. They use what
`DeviceFacts` says every driver of the table satisfies (`FileFits`): a change of a
register follows its load at once; a store to a data register changes the bit of the
LED it is meant for; only an open, and only of the own pin, settles what a pin needs;
an open of a lazy driver tests one pointer and maps all of them, that one first; the
hello drivers copy both pieces in order, or a string that ends in the first. `TableAssumption` states this of the
whole table. It is assumed in the proofs, and TLAPS does not prove it: the
programs are built with the folds of the community modules, which the provers cannot
compute. But it has no variable and no parameter, only the table as it is
written, so TLC's evaluation of it is not a check of an instance but decides it.
`MCDriverLife` extends `DeviceFacts` for that purpose: `MCDeviceFiles` does not, so
that there a driver with a fault shows as a violated property and not as a violated
assumption. (With each of the five faulty forms of `device_files` the assumption is
false.)

*Pins.* `OpenPinsStayConfigured` is about open pins only, and a pin that is being
opened is not yet configured. `PinsInv` therefore speaks of every process that has
no store to the register ahead of it (`Settled`), and its third case of another
process that still has one (`OpensAgain`). A driver that clears a function before it
sets it needs more: when its last store lands, the bits that are to be 0 must be 0 both in
the register and in what the process loaded before that store, although other processes open
the same pin in between. `ClearedInv` says so from the first store of an open on.

`DriverLifeProofs` (any of the twenty-three drivers, any number of keys of a key
driver and of LEDs of a board, any number of loads and of probes, any length of the
slot arrays: `ProgramsAssumption`, `LifeAssumption`, `DriversAssumption`):

| Theorem | Property | Argument |
|---|---|---|
| `LifePositions` | the invariants `Positions`, `DataTypes` | what runs is a rest of a function of the driver; a device that is being probed has a slot to come |
| `LifeTypes` | `TypeOK` | from these: the counter is at most the number of probes, and stays within the array because the store past its end stops the kernel; when that may happen is `LifeClass`'s |
| `LifeGuarded` | the invariants `TextInv`, `BoundInv` | devices are bound only while their module is loaded and registered: `platform_driver_unregister` unbinds them before the registration goes, and the module cannot fail to load after it registered |
| `LifeSlots` | `SlotsNameBoundDevices` | `SlotInv`: the slot of a device that is probed comes last, that of one that is removed goes first |
| `LifeHandlers` | `HandlersReadLive` | `HandlerInv`, below |
| `LifeClass` | `OopsNeedsUnchecked` | `ClassInv` for the modules' code, `CallsExcused` for calls, `HandlersExcused` for handlers, below |
| `LifeCustody` | the invariant `CustodyInv` | what is held has code ahead that gives it back, below |
| `LifeLeaves` | `NothingElseOutlives` | from custody, and `HandlerInv` for the keys' own resources |
| `LifeCalls` | `CallsFindTheirs` | `CharInv` and `UserInv`, below; that a driver is loaded afresh without nodes comes from custody |

*Handlers and their array.* `HandlersReadLive` says nothing of the code that is still to
run, so it is not inductive. `HandlerInv` adds it in four parts. `HeldFits`: what a probe started belongs to an array that
is allocated. `ProbeHas`: a probe past its `kzalloc` has its array. `RemoveStops`: for
whatever remains of the array that remove will free, the step that stops it is still ahead, and
ahead of the `kfree`; it is what fails if the `kfree` moves up or a timer is not
deleted. `CleanHas`: until a probe fails, nothing of an earlier array is left when a
new one is allocated. The last one is why `failed` is needed: a probe that is refused
half way leaves its lines requested, and the next probe overwrites `g_p_keys`. That modules
and other drivers do nothing of all this is `DriversOther`; what stands where in the ten
drivers' functions is `KeyProbe`, `KeyRemove` and the lemmas before them.

*The class and its users.* A driver that makes a node or takes one away goes through its class
pointer, and follows a bad one when the class was refused or has been destroyed. `ClassInv`
says where the class is: while the code that makes it runs, either it is there or what is left of
that code makes it before it uses it (`Making`); while the code that destroys it
runs, either it is there or what is left does not ask for it (`Dropping`); between the two
it is there. In most drivers the two ends are `init` and `exit` of the first module
(`ModuleClass`), in the GPIO driver and the key drivers from stage 02 on `probe` and `remove`
(`DeviceClass`), and then all other code of the driver has nothing to do with it (`Plain`).
These are predicates on the rest of a program and not on places, so one step of
a program keeps them for every driver at once (`ClassSteps`), and `DriversClass` says that each
driver but 04 has this shape. `Sound` is the hypothesis the property allows: neither 04, nor one of the four
drivers of `Unchecked` after a refusal, nor more binds than slots. What it takes from the rest is that a
refused `need` gives up and the module goes out or the device stays unbound (`GivesUp`).

*Who else follows a bad pointer.* `OopsNeedsUnchecked` is a statement about the moment of the
step, and nothing moves after it (`Stopped`), so it is enough that whoever goes astray is excused
before the step (`Excused`). A process that calls with `m1` out has found a node that an
unload left, and by `NothingElseOutlives` only 05 and the button driver leave nodes; operations
are missing only in the templates, because the `init` of 02 has made its nodes last (`CharInv`).
A handler that goes astray is one of `NotStopped`, or is of stage 01, or comes from a failed
probe: any other has its array, which is the one `g_p_keys` names, and then the module is not out
(`HandlerInv`, `BoundInv`).

*Custody.* `NothingElseOutlives` speaks of the moment when both modules are out, and nothing in
that state says why so little is held. `CustodyInv` says of everything the kernel holds that it
is in somebody's custody (`InCustody`): either its name is one the driver is known to leave
(`MayStay`: by design at any time, by failure after a refusal), or the `exit` of a module that is
loaded gives it back (`ByModuleExit`), or the `remove` of a bound device does (`ByRemove`).
While an `init` or `probe` still runs, this asks more: each step that can fail either undoes
the thing or may leave it (`Safe`), and what has not been brought yet will be as safe
(`Careful`, a relation between what is left of `init` and the whole of `exit`). While an `exit` or
`remove` runs, what is left of it gives the thing back, cannot fail and brings nothing more
(`Calm`). `DCustody` shows that each driver starts that way, and fails where one does not: it
needs "chrdev" in `LeftByFailure` for `leddrv` and "region" and "cdev" for `hello01b`, because
their failure paths do not undo them. Two facts of the drivers carry the step of binding: a
driver whose `remove` gives anything back has one device at most (the last clause
of `CustodyFits`), so its things are not another device's; and an array is in custody only while
`g_p_keys` names it. When all is out and quiet nobody has custody, and only `MayStay` is
left; the lines, timers, tasks, work items and threads of keys, which custody leaves alone, are
those of `CleanHas`, hence of `NotStopped` (`KeysLeft`).

*Calls.* `CallsFindTheirs` needs to know why a process that opened a node while the module was
still loading finds its operations. `CharInv` says of the drivers in one module that whatever
their calls use (`Theirs`) is held, or still to be made by what is left of `init`
(`Furnishes`); and that once there is a node, or a process inside, what is left of `init` cannot
fail and makes nothing more (`TameAll`), but for the operations of the templates 01 and 03
(`MakesOps`). With that a process inside finds everything there, and cannot lose
the code by a failing `init`. Loading again starts without nodes: an unloaded driver holds
none, by custody. For the other drivers `UserInv` has only the code to keep: the module with the file
operations is pinned while a process is inside. Its `init` cannot fail (keys, GPIO LED); in 05 and the
button driver it can, and keeps its number registered, but nobody is let in without
operations, which are gone when `m1` is loaded afresh and come from an `m2` that is loaded only after it; and
no code of 04 makes a node. Whether the code of the operations is still there is not
claimed: `m2` is not pinned by an open file.

*Programs as data.* The loops of the programs have as many rounds as there are keys or
LEDs, so no proof can run through them. `Grid` and `Loops` say what step stands at which
place of a loop, once; everything else about a program is the conjunction of what
holds of its parts (`CatFits`, `LoopsFit`, `CarefulCat`). `DriversFit` collects it for all drivers,
with `DriversClass`, `DCustody` and `DChar` for the later theorems, and the proofs about
`DriverLife` use those and the places (`Pos`) only.

*Model-checked only:* liveness (`HandlersCatchUp`, `ReportWakesSleepers`, `SigioIsTaken`,
`RemoveFinishes`, `PressIsServed`), which is out of the prover's reach. Every invariant and
action property of the passing runs is also proved.

## 6. What is not modelled

* the `*_src_bin` copies, except the two boards that exist only there: they differ
  from the modelled files in white space and, for the am335x in four of them, in which pad is used;
* `signal.c` and the delay loops, which keep no state anyone else reads;
* open, write and `led_ctl` of the platform-bus driver 04, and the loop of its remove: its
  first probe follows a null pointer, so no node of it exists and nothing is ever bound;
* in 05 and the button driver, incomplete device-tree properties (the test `err == ERR` at
  `05_led_drv_template_bus_device_tree/chip_led.c:124` can never be true), and how many
  mappings 05 has left: one name stands for all of them;
* an open of a node whose slot was cleared (a shift by -1, not defined by C);
* `request_thread_irq`, which the kernel does not have, in stages 05 to 08, and a struct that
  stage 08 does not declare: both are modelled as what they must mean, since these stages do not compile as they are;
* a failing `copy_to_user` (the code ignores the result), and failures for want of memory or
  address space outside the class and the nodes: `kmalloc`, `kzalloc`, `ioremap` (`MapOnce`
  always sets the pointer) and `platform_driver_register` succeed;
* what a read through the mapping of 07 sees, as long as its attribute differs from the kernel's;
* the printk calls, and the names of device files;
* two CPUs, and a device file of the key drivers held open across remove while a
  process sleeps in it.

## 7. Plan

1. *Done:* `KeyRing`, `LossyFifo`, `KeyDriver`, `KeyLifecycle` and their proofs,
   `NothingInvented` for any number of readers included.
2. *Done:* the early key drivers (`KeyStages`, `StageRun`), the boards, buttons and
   buffers (`RegisterPrograms`, `DeviceFiles`), the drivers' lives (`DriverPrograms`,
   `KeyPrograms`, `DriverLife`).
3. *Done:* proofs for the new modules, every safety property of `StageRun`, of
   `DeviceFiles` and of `DriverLife`.
4. Composition of `KeyDriver` and `KeyLifecycle`: processes that sleep in a driver
   across its remove.
