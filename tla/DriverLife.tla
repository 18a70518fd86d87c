----------------------------- MODULE DriverLife ------------------------------
(***************************************************************************)
(* Loading, binding, opening, unbinding and unloading the drivers of the   *)
(* repository.  One driver, drv, is chosen; its modules run the programs   *)
(* of DriverPrograms and KeyPrograms while devices come and go, a process  *)
(* opens and closes a node, and interrupts start handlers.  A driver in    *)
(* two modules has m1 with the file operations and m2 with the devices.    *)
(***************************************************************************)
EXTENDS KeyPrograms

CONSTANTS
  Drivers,     \* the drivers of this instance, of DOMAIN Driver
  MaxLoads,    \* bound: how often a module is loaded
  MaxBinds,    \* bound: how often a device is probed, for each driver
  CAP          \* entries of g_led_resource and button_res (100 in the code)

ASSUME LifeAssumption ==
  /\ MaxLoads \in Nat /\ CAP \in Nat
  /\ \A d \in Drivers : MaxBinds[d] \in Nat

Module(init, exit) == [init |-> init, exit |-> exit]
Simple(init, exit) ==
  [m1 |-> Module(init, exit), m2 |-> Module(<< >>, << >>), probe |-> << >>,
   remove |-> << >>, failure |-> "unbound", starts |-> {}, devices |-> {}]
OnBus(m1, m2, probe, remove, devices) ==
  [m1 |-> m1, m2 |-> m2, probe |-> probe, remove |-> remove,
   failure |-> "unbound", starts |-> {}, devices |-> devices]

KeyDrivers == {"key01", "key02", "key03", "key04", "key05", "key06", "key07",
               "key08", "key09", "key10"}
StageOf == [key01 |-> 1, key02 |-> 2, key03 |-> 3, key04 |-> 4, key05 |-> 5,
            key06 |-> 6, key07 |-> 7, key08 |-> 8, key09 |-> 9, key10 |-> 10]
KeyDriverOf(s) ==
  [OnBus(keys_driver[s], Module(<< >>, << >>), keys_probe[s], keys_remove[s],
         {1}) EXCEPT !.starts = Starts[s]]

CharDriver ==
  [hello01 |-> Simple(hello_init01, hello_exit01),
   hello01b |-> Simple(hello_init01b, hello_exit01b),
   hello07 |-> Simple(hello_init07, hello_exit07),
   led_simple |-> Simple(led_init_simple, led_exit_simple),
   led_imx6ull |-> Simple(led_init_imx6ull, led_exit_imx6ull),
   led_stm32mp157 |-> Simple(led_init_stm32mp157, led_exit_stm32mp157),
   led01 |-> Simple(led_init01, led_exit01),
   led02 |-> Simple(led_init02, led_exit02),
   led03 |-> Simple(led_init03, led_exit03)]

BusDriver ==
  [led04 |-> OnBus(Module(led_init04, led_exit04),
                   Module(led_drv_init04, led_drv_exit04),
                   led_drv_probe04, led_drv_remove04, {1}),
   led05 |-> OnBus(Module(led_init05, led_exit05),
                   Module(led_drv_init05, led_drv_exit05),
                   led_drv_probe05, led_drv_remove05, {1, 2}),
   button |-> OnBus(Module(button_fdrv_init, button_fdrv_exit),
                    Module(button_drv_init, button_drv_exit),
                    button_probe, button_remove, {1, 2}),
   gpio_led |-> [OnBus(Module(gpio_led_init, gpio_led_exit),
                       Module(<< >>, << >>), gpio_led_probe, gpio_led_remove,
                       {1}) EXCEPT !.failure = "bound"]]

Driver ==
  [d \in DOMAIN CharDriver \cup DOMAIN BusDriver \cup KeyDrivers |->
     IF d \in DOMAIN CharDriver THEN CharDriver[d]
     ELSE IF d \in DOMAIN BusDriver THEN BusDriver[d]
     ELSE KeyDriverOf(StageOf[d])]

ASSUME DriversAssumption == Drivers \subseteq DOMAIN Driver

TwoModules == {"led04", "led05", "button"}

VARIABLES
  drv,         \* the driver
  text,        \* of each module: "out", "coming", "live" or "going"
  run,         \* the module code running: [mod, kind, prog]
  bus,         \* the driver core's call running: [dev, kind, prog]
  held,        \* what the kernel holds for the driver: <<name, index, array>>
  cls,         \* the class pointer: "null", "ok", "err" or "stale"
  gpk,         \* g_p_keys: the number of the array it names, freed or not
  arrays,      \* how many arrays have been allocated
  bound,       \* the bound devices
  slot, cnt,   \* g_led_resource[i].pin (0 for -1) and g_led_cnt; or button_*
  user,        \* a process is outside the driver or has its node open
  loads, binds,
  failed,      \* history: something the driver asked for was refused
  oops         \* the kernel has followed a bad pointer, and stops

runVars == <<text, run>>
busVars == <<bus, bound, binds>>
slotVars == <<slot, cnt>>
keyVars == <<gpk, arrays>>
vars == <<drv, text, run, bus, held, cls, gpk, arrays, bound, slot, cnt, user,
          loads, binds, failed, oops>>

Idle == [mod |-> "m1", kind |-> "idle", prog |-> << >>]
BusIdle == [dev |-> 0, kind |-> "idle", prog |-> << >>]

Init ==
  /\ drv \in Drivers
  /\ text = [m \in {"m1", "m2"} |-> "out"]
  /\ run = Idle /\ bus = BusIdle
  /\ held = {} /\ cls = "null" /\ gpk = 0 /\ arrays = 0
  /\ bound = {} /\ slot = [i \in 0 .. CAP - 1 |-> 0] /\ cnt = 0
  /\ user = "outside"
  /\ loads = [m \in {"m1", "m2"} |-> 0] /\ binds = 0
  /\ failed = FALSE /\ oops = FALSE

D == Driver[drv]
BusModule == IF drv \in TwoModules THEN "m2" ELSE "m1"
-----------------------------------------------------------------------------
(* What a step does.                                                        *)

Static(r, i) == <<r, i, 0>>
PerKey == {"line", "timer", "task", "work", "thread"}
Named(r, i) == IF r \in PerKey THEN <<r, i, gpk>> ELSE Static(r, i)
Prog(c) == IF c = "run" THEN run.prog ELSE bus.prog

\* The program goes on; or its function returns an error: the module is not
\* loaded, the device not bound (or bound all the same, for gpio_led).
GoesOn(c) ==
  /\ run' = IF c = "run" THEN [run EXCEPT !.prog = Tail(@)] ELSE run
  /\ bus' = IF c = "bus" THEN [bus EXCEPT !.prog = Tail(@)] ELSE bus
  /\ UNCHANGED <<text, bound>>
Fails(c) ==
  /\ run' = IF c = "run" THEN Idle ELSE run
  /\ text' = IF c = "run" THEN [text EXCEPT ![run.mod] = "out"] ELSE text
  /\ bus' = IF c = "bus" THEN BusIdle ELSE bus
  /\ bound' = IF c = "bus" /\ D.failure = "bound" THEN bound \cup {bus.dev}
                                                    ELSE bound

\* A line has one owner, as has a descriptor; a node needs its class and a
\* free name.
CanTake(r, i) ==
  CASE r = "line" -> \A h \in held : h[1] = "line" => h[2] # i
    [] r = "gpiod" -> Static("gpiod", i) \notin held
    [] r = "node" -> cls = "ok" /\ Static("node", i) \notin held
    [] OTHER -> TRUE

ClassAfter(r, taken) == IF r # "class" THEN cls ELSE IF taken THEN "ok" ELSE "err"

Got(c, s) ==
  /\ CanTake(s.r, s.i)
  /\ held' = held \cup {Named(s.r, s.i)} /\ cls' = ClassAfter(s.r, TRUE)
  /\ GoesOn(c) /\ UNCHANGED <<failed, oops, keyVars, slotVars>>

\* Refused, for want of memory or of what it needs.  A result nobody looks
\* at is nothing to the caller; a node on a freed class is a bad pointer.
Refused(c, s) ==
  /\ failed' = TRUE
  /\ cls' = IF "class" \in s.undo THEN "stale" ELSE ClassAfter(s.r, FALSE)
  /\ held' = held \ {Static(u, 0) : u \in s.undo}
  /\ IF s.op = "take" THEN GoesOn(c) ELSE Fails(c)
  /\ oops' = (oops \/ (s.r = "node" /\ cls = "stale"))
  /\ UNCHANGED <<keyVars, slotVars>>

Made(c, s) ==
  /\ held' = held \cup {Named(s.r, s.i)}
  /\ GoesOn(c) /\ UNCHANGED <<cls, failed, oops, keyVars, slotVars>>

\* What is not there is not missed, except through a bad class pointer:
\* device_destroy follows an error pointer, and both follow a freed one.
Dropped(c, s) ==
  /\ held' = held \ {Named(s.r, s.i)}
  /\ cls' = IF s.r = "class" /\ cls = "ok" THEN "stale" ELSE cls
  /\ oops' = (oops \/ (s.r = "node" /\ cls \in {"err", "stale"})
                   \/ (s.r = "class" /\ cls = "stale"))
  /\ GoesOn(c) /\ UNCHANGED <<failed, keyVars, slotVars>>

Awaited(c, s) ==
  /\ Named(s.r, s.i) \notin held
  /\ GoesOn(c) /\ UNCHANGED <<held, cls, failed, oops, keyVars, slotVars>>

\* of_gpio_count, of_get_gpio_flags.
PropertyRead(c) ==
  /\ \/ GoesOn(c) /\ UNCHANGED failed
     \/ Fails(c) /\ failed' = TRUE
  /\ UNCHANGED <<held, cls, oops, keyVars, slotVars>>

KeysAllocated(c) ==
  /\ arrays' = arrays + 1 /\ gpk' = arrays + 1
  /\ held' = held \cup {<<"array", 0, arrays + 1>>}
  /\ GoesOn(c) /\ UNCHANGED <<cls, failed, oops, slotVars>>
KeysFreed(c) ==
  /\ held' = held \ {<<"array", 0, gpk>>}
  /\ GoesOn(c) /\ UNCHANGED <<cls, failed, oops, keyVars, slotVars>>

\* The slots of chip_led.c of 05 and of button_drv.c.
Match == {i \in 0 .. cnt - 1 : slot[i] = bus.dev}

\* (Faulty form: the counter is advanced for the node and for the slot.)
SlotAddedTwice(c) ==
  /\ slot' = [slot EXCEPT ![cnt] = bus.dev] /\ cnt' = cnt + 2
  /\ GoesOn(c) /\ UNCHANGED <<held, cls, failed, oops, keyVars>>

\* g_led_cnt is not compared with the size of the array: the store after the
\* last slot goes through a bad pointer.
SlotAdded(c) ==
  /\ UNCHANGED <<held, cls, failed, keyVars>>
  /\ \/ /\ cnt < CAP
        /\ slot' = [slot EXCEPT ![cnt] = bus.dev] /\ cnt' = cnt + 1
        /\ GoesOn(c) /\ UNCHANGED oops
     \/ /\ cnt >= CAP /\ oops' = TRUE
        /\ UNCHANGED <<run, bus, text, bound, slotVars>>

\* led_class_create_dev(g_led_cnt): the result is not looked at.
SlotNode(c) ==
  /\ \/ CanTake("node", cnt) /\ held' = held \cup {Static("node", cnt)}
        /\ UNCHANGED failed
     \/ UNCHANGED held /\ failed' = (failed \/ CanTake("node", cnt))
  /\ GoesOn(c) /\ UNCHANGED <<cls, oops, keyVars, slotVars>>

\* The first slot with the device's pin is cleared, and its node asked for
\* again where it should go.
SlotCleared(c) ==
  /\ IF Match = {} THEN UNCHANGED <<slot, held>>
     ELSE LET i == CHOOSE i \in Match : \A j \in Match : i <= j
          IN  /\ slot' = [slot EXCEPT ![i] = 0]
              /\ held' \in {held, held \cup {Static("node", i)}}
  /\ GoesOn(c) /\ UNCHANGED <<cnt, cls, failed, oops, keyVars>>
SlotsReset(c) ==
  /\ cnt' = IF \A i \in 0 .. cnt - 1 : slot[i] = 0 THEN 0 ELSE cnt
  /\ GoesOn(c) /\ UNCHANGED <<slot, held, cls, failed, oops, keyVars>>

\* (Faulty form: can_find is never set.)
NoOthers == {}

\* can_find: the loop saw a pin that is neither cleared nor the device's.
Others == {i \in 0 .. cnt - 1 : slot[i] \notin {0, bus.dev}}

\* button_remove: slots with the pin are cleared until one is that follows
\* another device's; the counter is reset when no other was seen.
SlotsSwept(c) ==
  LET stop == {i \in Match : \E j \in Others : j < i}
      last == IF stop = {} THEN cnt
              ELSE CHOOSE i \in stop : \A j \in stop : i <= j
  IN  /\ slot' = [i \in DOMAIN slot |->
                    IF i \in Match /\ i <= last THEN 0 ELSE slot[i]]
      /\ cnt' = IF Others = {} THEN 0 ELSE cnt
      /\ GoesOn(c) /\ UNCHANGED <<held, cls, failed, oops, keyVars>>

Nothing(c) ==
  GoesOn(c) /\ UNCHANGED <<held, cls, failed, oops, keyVars, slotVars>>

\* platform_driver_unregister removes the bound devices first.
Unbound(c) ==
  /\ bus.kind = "idle" /\ UNCHANGED <<held, cls, failed, oops, keyVars, slotVars>>
  /\ IF bound = {} THEN GoesOn(c)
     ELSE /\ \E d \in bound :
               bus' = [dev |-> d, kind |-> "remove", prog |-> D.remove]
          /\ UNCHANGED <<run, text, bound>>

StepOf(c) ==
  LET s == Head(Prog(c))
  IN  \/ s.op \in {"take", "need"} /\ (Got(c, s) \/ Refused(c, s))
      \/ s.op = "make" /\ Made(c, s)
      \/ s.op = "drop" /\ Dropped(c, s)
      \/ s.op = "await" /\ Awaited(c, s)
      \/ s.op = "read" /\ PropertyRead(c)
      \/ s.op = "kzalloc" /\ KeysAllocated(c)
      \/ s.op = "kfree" /\ KeysFreed(c)
      \/ s.op = "free_irq_of_another" /\ Nothing(c)
      \/ s.op = "node_of_next_slot" /\ SlotNode(c)
      \/ s.op = "add_slot" /\ SlotAdded(c)
      \/ s.op = "clear_slot" /\ SlotCleared(c)
      \/ s.op = "reset_if_all_clear" /\ SlotsReset(c)
      \/ s.op = "clear_slot_and_look_on" /\ SlotsSwept(c)
      \/ s.op = "unbind" /\ Unbound(c)
      \/ /\ s.op = "oops" /\ oops' = TRUE
         /\ UNCHANGED <<run, bus, text, bound, held, cls, failed, keyVars,
                        slotVars>>

ModuleStep ==
  /\ ~oops /\ run.prog # << >> /\ StepOf("run")
  /\ UNCHANGED <<drv, user, loads, binds>>
BusStep ==
  /\ ~oops /\ bus.prog # << >> /\ StepOf("bus")
  /\ UNCHANGED <<drv, user, loads, binds>>

-----------------------------------------------------------------------------
(* The kernel's module loader, driver core and interrupts; a process.       *)

\* insmod: the module's own data is fresh.  m2 uses symbols of m1.
Load(m) ==
  /\ ~oops /\ run.kind = "idle" /\ text[m] = "out" /\ loads[m] < MaxLoads
  /\ m = "m2" => drv \in TwoModules /\ text["m1"] = "live"
  /\ loads' = [loads EXCEPT ![m] = @ + 1]
  /\ text' = [text EXCEPT ![m] = "coming"]
  /\ run' = [mod |-> m, kind |-> "init", prog |-> D[m].init]
  /\ cls' = IF m = "m1" THEN "null" ELSE cls
  /\ held' = IF m = "m1" THEN held \ {Static("ops", 0)} ELSE held
  /\ gpk' = IF m = BusModule THEN 0 ELSE gpk
  /\ slot' = IF m = BusModule THEN [i \in DOMAIN slot |-> 0] ELSE slot
  /\ cnt' = IF m = BusModule THEN 0 ELSE cnt
  /\ UNCHANGED <<drv, bus, arrays, bound, user, binds, failed, oops>>

\* (Faulty form: .owner is not set.)
PinnedByModule(m) == m = "m1" => text["m2"] = "out"

\* .owner counts the open files of m1, and m2 pins m1.
Unpinned(m) == m = "m1" => user = "outside" /\ text["m2"] = "out"

\* rmmod.
Unload(m) ==
  /\ ~oops /\ run.kind = "idle" /\ text[m] = "live" /\ Unpinned(m)
  /\ text' = [text EXCEPT ![m] = "going"]
  /\ run' = [mod |-> m, kind |-> "exit", prog |-> D[m].exit]
  /\ UNCHANGED <<drv, bus, held, cls, gpk, arrays, bound, slotVars, user,
                 loads, binds, failed, oops>>

ModuleDone ==
  /\ ~oops /\ run.kind # "idle" /\ run.prog = << >>
  /\ text' = [text EXCEPT ![run.mod] = IF run.kind = "init" THEN "live" ELSE "out"]
  /\ run' = Idle
  /\ UNCHANGED <<drv, bus, held, cls, gpk, arrays, bound, slotVars, user,
                 loads, binds, failed, oops>>

\* A device appears, or is bound again.
Bind(d) ==
  /\ ~oops /\ Static("pdrv", 0) \in held /\ run.kind # "exit"
  /\ bus.kind = "idle" /\ d \in D.devices \ bound /\ binds < MaxBinds[drv]
  /\ binds' = binds + 1
  /\ bus' = [dev |-> d, kind |-> "probe", prog |-> D.probe]
  /\ UNCHANGED <<drv, runVars, held, cls, gpk, arrays, bound, slotVars, user,
                 loads, failed, oops>>

Unbind(d) ==
  /\ ~oops /\ bus.kind = "idle" /\ d \in bound /\ run.kind # "exit"
  /\ bus' = [dev |-> d, kind |-> "remove", prog |-> D.remove]
  /\ UNCHANGED <<drv, runVars, held, cls, gpk, arrays, bound, slotVars, user,
                 loads, binds, failed, oops>>

BusDone ==
  /\ ~oops /\ bus.kind # "idle" /\ bus.prog = << >>
  /\ bound' = IF bus.kind = "probe" THEN bound \cup {bus.dev}
                                    ELSE bound \ {bus.dev}
  /\ bus' = BusIdle
  /\ UNCHANGED <<drv, runVars, held, cls, gpk, arrays, slotVars, user, loads,
                 binds, failed, oops>>

\* What a process calls through a pointer that is bad: file operations in a
\* module that has gone, operations not set yet (01 to 03, which do not look),
\* or set by an m2 that has gone, which an open file does not pin.  Where the
\* model has one name for those of two loads it may be either.
OpsElsewhere == {"led05", "button"}
HasOps == Static("ops", 0) \in held
Gone ==
  \/ text["m1"] = "out"
  \/ drv \in {"led01", "led02", "led03"} /\ ~HasOps
  \/ drv \in OpsElsewhere /\ text["m2"] = "out"
MayBeGone ==
  \/ drv \in OpsElsewhere /\ text["m2"] = "coming" /\ loads["m2"] > 1
  \/ drv \in TwoModules /\ failed /\ loads["m1"] > 1

\* The boards of 02 map their registers when a node is opened first, chip_led.c
\* of 05 its clock register at every open and its data register at a toggle:
\* taken as one mapping, which nothing undoes.
Mapped == IF drv \in {"led02", "led05"} THEN {Static("map", 0)} ELSE {}
Calls ==
  /\ oops' \in BOOLEAN
  /\ Gone => oops'
  /\ oops' => Gone \/ MayBeGone
  /\ held' = IF oops' THEN held ELSE held \cup Mapped
  /\ UNCHANGED <<drv, runVars, busVars, cls, gpk, arrays, slotVars, loads,
                 failed>>

\* A process opens a node; a module that is going refuses, as do leddrv of 05
\* and button_fdrv without operations.
Registered == \E r \in {"chrdev", "cdev"} : Static(r, 0) \in held
Open ==
  /\ ~oops /\ user = "outside" /\ Registered
  /\ \E h \in held : h[1] = "node"
  /\ text["m1"] # "going"
  /\ Calls /\ user' = IF oops' THEN "outside" ELSE "inside"
  /\ drv \in OpsElsewhere => HasOps \/ oops'

\* It reads or writes.
Use == ~oops /\ user = "inside" /\ Calls /\ UNCHANGED user
Close ==
  /\ ~oops /\ user = "inside" /\ user' = "outside"
  /\ UNCHANGED <<drv, runVars, busVars, held, cls, gpk, arrays, slotVars,
                 loads, failed, oops>>

\* What an interrupt, a timer, a tasklet, a work item or a thread calls is
\* code of m1, and what it is given is in its array, where the timer, the
\* tasklet and the work item are too.  The handler that records the key, which
\* is the timer's from stage 07 on, reads g_p_keys as well.
Records(h) ==
  \/ h[1] = "timer"
  \/ h[1] = "line" /\ StageOf[drv] \in 2 .. 6
Astray(h) ==
  \/ text["m1"] = "out"
  \/ <<"array", 0, h[3]>> \notin held
  \/ Records(h) /\ <<"array", 0, gpk>> \notin held

\* One of an array that g_p_keys no longer names: maybe code of an earlier
\* load, long freed.
OfAnother(h) == h[3] # gpk

\* The handler runs, and after is what the kernel holds then.
Handles(h, after) ==
  /\ oops' \in BOOLEAN
  /\ Astray(h) => oops'
  /\ oops' => Astray(h) \/ OfAnother(h)
  /\ held' = IF oops' THEN held ELSE after
  /\ UNCHANGED <<drv, runVars, busVars, cls, gpk, arrays, slotVars, user,
                 loads, failed>>

\* A key interrupts; later a handler it started runs.
Interrupt ==
  /\ ~oops
  /\ \E h \in held :
       /\ h[1] = "line"
       /\ Handles(h, held \cup {<<s, h[2], h[3]>> : s \in D.starts})
HandlerRuns ==
  /\ ~oops
  /\ \E h \in held : h[1] \in PerKey \ {"line"} /\ Handles(h, held \ {h})

Next ==
  \/ ModuleStep \/ BusStep \/ ModuleDone \/ BusDone
  \/ \E m \in {"m1", "m2"} : Load(m) \/ Unload(m)
  \/ \E d \in D.devices : Bind(d) \/ Unbind(d)
  \/ Open \/ Use \/ Close \/ Interrupt \/ HandlerRuns

Spec == Init /\ [][Next]_vars

-----------------------------------------------------------------------------
(* Properties.                                                              *)

Ops == {"take", "need", "make", "drop", "await", "read", "kzalloc", "kfree",
        "free_irq_of_another", "node_of_next_slot", "add_slot", "clear_slot",
        "reset_if_all_clear", "clear_slot_and_look_on", "unbind", "oops"}
Names == PerKey \cup {"chrdev", "region", "cdev", "class", "node", "buf", "map",
                      "ops", "pdrv", "gpiod", "array"}

\* Types.  g_led_cnt never passes the size of its array, and g_p_keys names an
\* array that was allocated.
TypeOK ==
  /\ drv \in Drivers
  /\ text \in [{"m1", "m2"} -> {"out", "coming", "live", "going"}]
  /\ run.mod \in {"m1", "m2"} /\ run.kind \in {"idle", "init", "exit"}
  /\ bus.dev \in D.devices \cup {0} /\ bus.kind \in {"idle", "probe", "remove"}
  /\ \A s \in ToSet(run.prog \o bus.prog) : s.op \in Ops
  /\ \A h \in held : h[1] \in Names /\ h[2] \in Nat /\ h[3] \in 0 .. arrays
  /\ cls \in {"null", "ok", "err", "stale"} /\ gpk \in 0 .. arrays
  /\ bound \subseteq D.devices
  /\ slot \in [0 .. CAP - 1 -> D.devices \cup {0}] /\ cnt \in 0 .. CAP
  /\ user \in {"outside", "inside"} /\ failed \in BOOLEAN /\ oops \in BOOLEAN

Left == {h[1] : h \in held}

\* The handlers remove does not stop.
NotStopped == CASE drv = "key07" -> {"task"}
                [] drv \in {"key08", "key09", "key10"} -> {"work"}
                [] OTHER -> {}

\* Which drivers follow a bad pointer, in the code of their modules, in what
\* the driver core and a process call, and in their handlers: leddrv 04 at its
\* first probe, because its arguments to device_create are shifted; leddrv 05
\* and button_fdrv, with more binds than slots, through operations that were
\* unloaded, or through the number a refused class leaves registered; the
\* templates (01, 03), opened before p_led_opr is set; the simple LED drivers,
\* which unload through a class that was refused; the GPIO driver, bound after
\* a probe that undid itself; and of the key drivers only handlers: those of
\* key_drv 01, whose lines outlive it, those a failed probe has left, and the
\* tasklet (07) or work item (08 to 10) that remove does not stop.  (Memory
\* and mappings do not run out here.)
OopsNeedsUnchecked ==
  oops =>
    \/ drv = "led04"
    \/ drv \in OpsElsewhere /\ (binds > CAP \/ failed \/ text["m2"] = "out" \/ MayBeGone)
    \/ drv \in {"led01", "led03"} /\ ~HasOps
    \/ failed /\ drv \in {"led_simple", "led_imx6ull", "led_stm32mp157", "gpio_led"}
    \/ \E h \in held : /\ h[1] \in PerKey /\ (Astray(h) \/ OfAnother(h))
                       /\ h[1] \in NotStopped \/ drv = "key01" \/ failed

\* What unloading leaves behind, of everything the driver took: the buffer of
\* 07_mmap, the mappings opening makes in 02 and 05, and so on.  No other
\* registration, handler, node or mapping outlives the code it belongs to.
LeftByDesign ==
  CASE drv = "hello07" -> {"buf"}
    [] drv = "key01" -> {"line", "array"}
    [] drv = "key07" -> {"task"}
    [] drv \in {"key08", "key09", "key10"} -> {"work"}
    [] drv = "led02" -> {"map"}
    [] drv = "led05" -> {"node", "map"}
    [] drv = "button" -> {"node"}
    [] drv = "gpio_led" -> {"gpiod"}
    [] OTHER -> {}
LeftByFailure ==
  CASE drv \in KeyDrivers -> {"array", "line"} \cup D.starts
    [] drv = "hello01b" -> {"region", "cdev"}
    [] drv \in TwoModules -> {"chrdev"}
    [] OTHER -> {}
NothingElseOutlives ==
  text = [m \in {"m1", "m2"} |-> "out"] =>
    Left \ {"ops"} \subseteq
      LeftByDesign \cup (IF failed THEN LeftByFailure ELSE {})

\* A process with a node open finds the code of m1 loaded, its operations set,
\* its mapped registers and its buffer.  The operations of leddrv 05 and of
\* button_fdrv are set too, but they are in m2, which may have gone: whether
\* their code is there is not claimed.
CallsFindTheirs ==
  user = "inside" =>
    /\ text["m1"] \in {"coming", "live"}
    /\ drv \in {"led01", "led02", "led03"} \cup OpsElsewhere => HasOps
    /\ drv = "led_imx6ull" => \A m \in 1 .. 3 : Static("map", m) \in held
    /\ drv = "led_stm32mp157" => \A m \in 1 .. 4 : Static("map", m) \in held
    /\ drv = "hello07" => Static("buf", 0) \in held

\* An interrupt, timer, tasklet, work item or thread that may still run was
\* given an array that is still allocated, even after failed probes, because
\* those free nothing.  The handler that records the key, which is the timer's
\* from stage 07 on, reads g_p_keys instead: that array is there too, unless
\* a probe has failed.
HandlersReadLive ==
  \A h \in held : h[1] \in PerKey \ NotStopped =>
    /\ <<"array", 0, h[3]>> \in held
    /\ Records(h) => failed \/ <<"array", 0, gpk>> \in held

\* Between two calls of the driver core the slots name exactly the bound
\* devices, each once, in whatever order they were bound and unbound.
SlotsNameBoundDevices ==
  drv \in {"led05", "button"} /\ bus.kind = "idle" =>
    LET used == {i \in 0 .. cnt - 1 : slot[i] # 0}
    IN  /\ {slot[i] : i \in used} = bound
        /\ \A i, j \in used : slot[i] = slot[j] => i = j
=============================================================================
