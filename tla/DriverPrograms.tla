--------------------------- MODULE DriverPrograms ----------------------------
(***************************************************************************)
(* What the drivers of the repository do when they are loaded, bound,      *)
(* unbound and unloaded, as programs: sequences of steps that take and     *)
(* give back what the kernel hands out.  DriverLife says what a step does. *)
(* A resource is a name and an index: the minor of a node, the number of a *)
(* key.                                                                    *)
(***************************************************************************)
EXTENDS Naturals, SequencesExt

CONSTANTS
  NKeys,       \* keys of the device-tree node
  NLeds        \* LEDs a board has

ASSUME ProgramsAssumption == NKeys \in Nat \ {0} /\ NLeds \in Nat \ {0}

KeyIndex == 1 .. NKeys

Step(op, r, i, undo) == [op |-> op, r |-> r, i |-> i, undo |-> undo]

Take(r, i) == Step("take", r, i, {})      \* may fail; nobody looks
Need(r, i, undo) == Step("need", r, i, undo)  \* on failure, undo and fail
Make(r, i) == Step("make", r, i, {})      \* cannot fail
Drop(r, i) == Step("drop", r, i, {})      \* given back
Await(r, i) == Step("await", r, i, {})    \* waits until it is not pending
Read == Step("read", "none", 0, {})       \* a property that may be missing
Do(op) == Step(op, "none", 0, {})         \* a step on the driver's own data

\* A loop of n rounds, each of as many steps as the first.
For(n, Body(_)) ==
  LET b == Len(Body(1))
  IN  [j \in 1 .. n * b |-> Body((j - 1) \div b + 1)[((j - 1) % b) + 1]]

-----------------------------------------------------------------------------
(* Character devices.                                                       *)

hello_init01 ==
  <<Take("chrdev", 0), Need("class", 0, {"chrdev"}), Take("node", 0)>>

hello_exit01 == <<Drop("node", 0), Drop("class", 0), Drop("chrdev", 0)>>

\* unregister_chrdev, which the failure path calls, looks for a region of 256
\* minors and finds none: this one has a single minor.
hello_init01b ==
  <<Take("region", 0), Take("cdev", 0), Need("class", 0, {}), Take("node", 0)>>
hello_exit01b ==
  <<Drop("node", 0), Drop("class", 0), Drop("cdev", 0), Drop("region", 0)>>

\* The buffer is never freed.
hello_init07 ==
  <<Take("chrdev", 0), Make("buf", 0), Need("class", 0, {"chrdev"}),
    Take("node", 0)>>
hello_exit07 == hello_exit01

led_init_simple == <<Take("chrdev", 0), Take("class", 0), Take("node", 0)>>
led_exit_simple == hello_exit01

\* Three registers are mapped, for the simple driver of the imx6ull; four for
\* the one of the stm32mp157.  They are unmapped first.
led_init_imx6ull ==
  <<Take("chrdev", 0), Make("map", 1), Make("map", 2), Make("map", 3),
    Take("class", 0), Take("node", 0)>>
led_exit_imx6ull ==
  <<Drop("map", 1), Drop("map", 2), Drop("map", 3)>> \o hello_exit01
led_init_stm32mp157 ==
  <<Take("chrdev", 0), Make("map", 1), Make("map", 2), Make("map", 3),
    Make("map", 4), Take("class", 0), Take("node", 0)>>
led_exit_stm32mp157 ==
  <<Drop("map", 1), Drop("map", 2), Drop("map", 3), Drop("map", 4)>>
    \o hello_exit01

\* The template sets p_led_opr after the nodes exist; the drivers for boards
\* read the number of LEDs from it and set it before.
led_init01 ==
  <<Take("chrdev", 0), Need("class", 0, {"chrdev"}), Take("node", 0),
    Take("node", 1), Make("ops", 0)>>

LedNode(m) == <<Take("node", m - 1)>>
LedNodeGone(m) == <<Drop("node", m - 1)>>

\* (Faulty form: the nodes come first here too.)
led_init02_nodes_first ==
  <<Take("chrdev", 0), Need("class", 0, {"chrdev"})>>
    \o For(NLeds, LedNode) \o <<Make("ops", 0)>>

led_init02 ==
  <<Take("chrdev", 0), Need("class", 0, {"chrdev"}), Make("ops", 0)>>
    \o For(NLeds, LedNode)
led_init03 == led_init01

\* Node 0 is destroyed twice.
led_exit01 ==
  <<Drop("node", 0), Drop("node", 1), Drop("node", 0), Drop("class", 0),
    Drop("chrdev", 0)>>

\* (Faulty form: the number stays registered.)
led_exit02_keeps_chrdev == For(NLeds, LedNodeGone) \o <<Drop("class", 0)>>

led_exit02 ==
  For(NLeds, LedNodeGone)
    \o <<Drop("node", 0), Drop("class", 0), Drop("chrdev", 0)>>
led_exit03 == led_exit01

-----------------------------------------------------------------------------
(* Drivers in two modules: leddrv.ko or button_fdrv.ko makes the class, and *)
(* chip_led.ko or button_drv.ko, bound to devices, makes the nodes and the  *)
(* operations.  The number stays registered when the class fails.           *)

led_init04 == <<Need("chrdev", 0, {}), Need("class", 0, {})>>
led_exit04 == <<Drop("class", 0), Drop("chrdev", 0)>>
led_init05 == led_init04
led_exit05 == led_exit04
button_fdrv_init == led_init04
button_fdrv_exit == led_exit04

\* The minor is passed where device_create takes the format: a null pointer
\* for the first device, which the kernel dereferences.
led_class_create_dev04 == Do("oops")

\* The probe loops over the device's pins.  Remove never advances its index,
\* so it would not end; no device is ever bound for it to be called.
led_drv_probe04 == <<led_class_create_dev04, Do("add_slot")>>
led_drv_remove04 == <<Do("spin")>>
led_drv_init04 == <<Make("pdrv", 0), Make("ops", 0)>>
led_drv_exit04 == <<Do("unbind"), Drop("pdrv", 0)>>

\* led_res is filled from the device tree (taken to be complete), the node
\* made, and the slot taken; on remove the node is made once more.
led_drv_probe05 == <<Do("node_of_next_slot"), Do("add_slot")>>
led_drv_remove05 == <<Do("clear_slot"), Do("reset_if_all_clear")>>
led_drv_init05 == led_drv_init04
led_drv_exit05 == led_drv_exit04

button_probe == led_drv_probe05
button_remove == <<Do("clear_slot_and_look_on")>>
button_drv_init == led_drv_init04
button_drv_exit == led_drv_exit04

-----------------------------------------------------------------------------
(* The LED driver on a GPIO descriptor.  Its probe undoes what it did and   *)
(* then returns false, which is 0: the device is bound.  Remove keeps the   *)
(* descriptor.                                                              *)

gpio_led_probe ==
  <<Need("gpiod", 0, {}), Need("chrdev", 0, {"gpiod"}),
    Need("class", 0, {"chrdev", "gpiod"}),
    Need("node", 0, {"class", "chrdev", "gpiod"})>>
gpio_led_remove == <<Drop("node", 0), Drop("class", 0), Drop("chrdev", 0)>>
gpio_led_init == <<Make("pdrv", 0)>>
gpio_led_exit == <<Do("unbind"), Drop("pdrv", 0)>>
=============================================================================
