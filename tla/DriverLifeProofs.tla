-------------------------- MODULE DriverLifeProofs ---------------------------
(***************************************************************************)
(* What TLAPS proves of DriverLife, for every set of its drivers, any      *)
(* number of keys and LEDs and any bounds.                                 *)
(***************************************************************************)
EXTENDS DriverLife, SequenceTheorems, WellFoundedInduction, TLAPS

-----------------------------------------------------------------------------
(* The programs of the drivers.                                             *)

\* What a step can name, and the steps that may be taken.
Wares == Names \ {"array"}
StepSet ==
  {s \in [op : Ops, r : Wares \cup {"none"}, i : Nat, undo : SUBSET Wares] :
     s.op \in {"take", "need", "make"} => s.r \in Wares}

SlotOps == {"node_of_next_slot", "add_slot", "clear_slot",
            "reset_if_all_clear", "clear_slot_and_look_on"}

\* What a module runs when it is loaded or unloaded.
ModuleFits(p) ==
  p \in Seq(StepSet) /\ \A i \in 1 .. Len(p) : p[i].op \notin SlotOps

\* A slot is added in the last step of a probe and nowhere else.
ProbeFits(p) ==
  p \in Seq(StepSet) /\ \A i \in 1 .. Len(p) : p[i].op = "add_slot" => i = Len(p)
RemoveFits(p) ==
  p \in Seq(StepSet) /\ \A i \in 1 .. Len(p) : p[i].op # "add_slot"

\* What the proofs use of every driver.  No device is ever bound to led04.
DriverFits(d) ==
  LET v == Driver[d]
  IN  /\ \A m \in {"m1", "m2"} : ModuleFits(v[m].init) /\ ModuleFits(v[m].exit)
      /\ ProbeFits(v.probe) /\ (d # "led04" => RemoveFits(v.remove))
      /\ d \notin TwoModules => ModuleFits(v.probe)
      /\ v.devices \subseteq {1, 2} /\ v.starts \subseteq PerKey \ {"line"}
      /\ d = "led04" => Len(v.probe) = 2 /\ v.probe[1].op = "oops"

(* The rounds of a loop and their steps are its places.                     *)
LEMMA Grid ==
  ASSUME NEW n \in Nat, NEW b \in 1 .. 4
  PROVE  /\ n * b \in Nat
         /\ \A j \in 1 .. n * b :
              /\ (j - 1) \div b + 1 \in 1 .. n /\ ((j - 1) % b) + 1 \in 1 .. b
              /\ j = ((j - 1) \div b) * b + ((j - 1) % b) + 1
         /\ \A k \in 1 .. n, c \in 1 .. b :
              /\ (k - 1) * b + c \in 1 .. n * b
              /\ ((k - 1) * b + c - 1) \div b + 1 = k
              /\ (((k - 1) * b + c - 1) % b) + 1 = c
<1>1. CASE b = 1
  BY <1>1
<1>2. CASE b = 2
  BY <1>2
<1>3. CASE b = 3
  BY <1>3
<1>4. CASE b = 4
  BY <1>4
<1> QED
  BY <1>1, <1>2, <1>3, <1>4

(* The loops: of b steps a round, each round of its own number.             *)
LEMMA Loops ==
  /\ For(NLeds, LedNode) = [j \in 1 .. NLeds |-> Take("node", j - 1)]
  /\ For(NLeds, LedNodeGone) = [j \in 1 .. NLeds |-> Drop("node", j - 1)]
  /\ For(NKeys, KeyIrq) =
       [j \in 1 .. NKeys * 2 |-> KeyIrq((j - 1) \div 2 + 1)[((j - 1) % 2) + 1]]
  /\ For(NKeys, KeyTimed) =
       [j \in 1 .. NKeys * 3 |-> KeyTimed((j - 1) \div 3 + 1)[((j - 1) % 3) + 1]]
  /\ For(NKeys, FreeIrq) =
       [j \in 1 .. NKeys * 2 |-> FreeIrq((j - 1) \div 2 + 1)[((j - 1) % 2) + 1]]
  /\ For(NKeys, FreeTimed) =
       [j \in 1 .. NKeys * 3 |-> FreeTimed((j - 1) \div 3 + 1)[((j - 1) % 3) + 1]]
  /\ For(NKeys, FreeAll) =
       [j \in 1 .. NKeys * 4 |-> FreeAll((j - 1) \div 4 + 1)[((j - 1) % 4) + 1]]
<1>1. /\ Len(LedNode(1)) = 1 /\ Len(LedNodeGone(1)) = 1 /\ Len(KeyIrq(1)) = 2
      /\ Len(KeyTimed(1)) = 3 /\ Len(FreeIrq(1)) = 2 /\ Len(FreeTimed(1)) = 3
      /\ Len(FreeAll(1)) = 4
  BY DEF LedNode, LedNodeGone, KeyIrq, KeyTimed, FreeIrq, FreeTimed, FreeAll
<1>2. For(NLeds, LedNode) = [j \in 1 .. NLeds |-> Take("node", j - 1)]
  <2>1. For(NLeds, LedNode) =
          [j \in 1 .. NLeds * 1 |-> LedNode((j - 1) \div 1 + 1)[((j - 1) % 1) + 1]]
    BY <1>1 DEF For
  <2>2. NLeds * 1 = NLeds
    BY ProgramsAssumption
  <2>3. ASSUME NEW j \in 1 .. NLeds
        PROVE  LedNode((j - 1) \div 1 + 1)[((j - 1) % 1) + 1] = Take("node", j - 1)
    BY ProgramsAssumption DEF LedNode
  <2> QED
    BY <2>1, <2>2, <2>3
<1>3. For(NLeds, LedNodeGone) = [j \in 1 .. NLeds |-> Drop("node", j - 1)]
  <2>1. For(NLeds, LedNodeGone) =
          [j \in 1 .. NLeds * 1 |->
             LedNodeGone((j - 1) \div 1 + 1)[((j - 1) % 1) + 1]]
    BY <1>1 DEF For
  <2>2. NLeds * 1 = NLeds
    BY ProgramsAssumption
  <2>3. ASSUME NEW j \in 1 .. NLeds
        PROVE  LedNodeGone((j - 1) \div 1 + 1)[((j - 1) % 1) + 1] = Drop("node", j - 1)
    BY ProgramsAssumption DEF LedNodeGone
  <2> QED
    BY <2>1, <2>2, <2>3
<1> QED
  BY <1>1, <1>2, <1>3 DEF For

(* Each loop is a sequence of steps, none of them with a slot.              *)
LEMMA LoopsFit ==
  \A p \in {For(NLeds, LedNode), For(NLeds, LedNodeGone), For(NKeys, KeyIrq),
            For(NKeys, KeyTimed), For(NKeys, FreeIrq), For(NKeys, FreeTimed),
            For(NKeys, FreeAll)} : ModuleFits(p)
<1> DEFINE Good(s) == s \in StepSet /\ s.op \notin SlotOps
<1>1. \A k \in Nat : /\ Good(Take("node", k)) /\ Good(Drop("node", k))
                     /\ \A r \in PerKey : /\ Good(Need(r, k, {})) /\ Good(Make(r, k))
                                          /\ Good(Drop(r, k)) /\ Good(Await(r, k))
                     /\ Good(Read)
  BY DEF Take, Drop, Need, Make, Await, Read, Step, StepSet, Ops, Wares, Names, PerKey,
     SlotOps
<1>2. ASSUME NEW k \in Nat
      PROVE  /\ \A c \in 1 .. 2 : Good(KeyIrq(k)[c]) /\ Good(FreeIrq(k)[c])
             /\ \A c \in 1 .. 3 : Good(KeyTimed(k)[c]) /\ Good(FreeTimed(k)[c])
             /\ \A c \in 1 .. 4 : Good(FreeAll(k)[c])
  BY <1>1 DEF KeyIrq, FreeIrq, KeyTimed, FreeTimed, FreeAll, PerKey
<1> HIDE DEF Good
<1>3. NKeys * 2 \in Nat /\ NKeys * 3 \in Nat /\ NKeys * 4 \in Nat
  BY ProgramsAssumption
<1>4. \A j \in 1 .. NKeys * 2 : /\ Good(For(NKeys, KeyIrq)[j])
                                /\ Good(For(NKeys, FreeIrq)[j])
  BY Loops, Grid, <1>2, ProgramsAssumption
<1>5. \A j \in 1 .. NKeys * 3 : /\ Good(For(NKeys, KeyTimed)[j])
                                /\ Good(For(NKeys, FreeTimed)[j])
  BY Loops, Grid, <1>2, ProgramsAssumption
<1>6. \A j \in 1 .. NKeys * 4 : Good(For(NKeys, FreeAll)[j])
  BY Loops, Grid, <1>2, ProgramsAssumption
<1>7. \A j \in 1 .. NLeds : /\ Good(For(NLeds, LedNode)[j])
                            /\ Good(For(NLeds, LedNodeGone)[j])
  BY Loops, <1>1, ProgramsAssumption
<1>8. ASSUME NEW n \in Nat, NEW f, f = [j \in 1 .. n |-> f[j]],
             \A j \in 1 .. n : Good(f[j])
      PROVE  ModuleFits(f)
  BY <1>8 DEF Good, ModuleFits
<1>9. ModuleFits(For(NLeds, LedNode)) /\ ModuleFits(For(NLeds, LedNodeGone))
  BY <1>7, <1>8, Loops, ProgramsAssumption
<1>10. ModuleFits(For(NKeys, KeyIrq)) /\ ModuleFits(For(NKeys, FreeIrq))
  BY <1>3, <1>4, <1>8, Loops
<1>11. ModuleFits(For(NKeys, KeyTimed)) /\ ModuleFits(For(NKeys, FreeTimed))
  BY <1>3, <1>5, <1>8, Loops
<1>12. ModuleFits(For(NKeys, FreeAll))
  BY <1>3, <1>6, <1>8, Loops
<1> QED
  BY <1>9, <1>10, <1>11, <1>12

(* Programs that fit may follow one another.                                *)
LEMMA CatFits ==
  ASSUME NEW p, NEW q
  PROVE  /\ ModuleFits(p) /\ ModuleFits(q) => ModuleFits(p \o q)
         /\ ProbeFits(p) /\ ProbeFits(q) /\ RemoveFits(p) => ProbeFits(p \o q)
         /\ RemoveFits(p) /\ RemoveFits(q) => RemoveFits(p \o q)
<1>1. ASSUME p \in Seq(StepSet), q \in Seq(StepSet)
      PROVE  /\ p \o q \in Seq(StepSet)
             /\ Len(p \o q) = Len(p) + Len(q)
             /\ \A i \in 1 .. Len(p \o q) :
                  \/ i \in 1 .. Len(p) /\ (p \o q)[i] = p[i]
                  \/ i - Len(p) \in 1 .. Len(q) /\ (p \o q)[i] = q[i - Len(p)]
  BY <1>1
<1> QED
  BY <1>1 DEF ModuleFits, ProbeFits, RemoveFits

(* Programs that are written out.                                           *)
LEMMA TuplesFit ==
  /\ \A p \in {hello_init01, hello_exit01, hello_init01b, hello_exit01b,
               hello_init07, led_init_simple, led_init_imx6ull,
               led_exit_imx6ull, led_init_stm32mp157, led_exit_stm32mp157,
               led_init01, led_exit01, led_init04, led_exit04, led_drv_init04,
               led_drv_exit04, gpio_led_init, gpio_led_exit, << >>} :
       ModuleFits(p)
  /\ ModuleFits(gpio_led_probe)
  /\ \A p \in {led_drv_probe04, led_drv_probe05, gpio_led_probe, << >>} :
       ProbeFits(p)
  /\ \A p \in {led_drv_remove05, button_remove, gpio_led_remove,
               keys_remove01, << >>} : RemoveFits(p)
<1> DEFINE Good(s) == s \in StepSet /\ s.op \notin SlotOps
<1>1. \A k \in Nat : \A r \in Wares : \A u \in SUBSET Wares :
        /\ Good(Take(r, k)) /\ Good(Need(r, k, u)) /\ Good(Make(r, k))
        /\ Good(Drop(r, k))
  BY DEF Take, Drop, Need, Make, Step, StepSet, Ops, SlotOps
<1>2. Good(Do("unbind")) /\ Do("oops") \in StepSet
  BY DEF Do, Step, StepSet, Ops, SlotOps, Wares, Names
<1>3. \A o \in SlotOps \cup {"free_irq_of_another"} :
        Do(o) \in StepSet /\ Do(o).op = o
  BY DEF Do, Step, StepSet, Ops, SlotOps, Wares, Names
<1>4. Do("oops").op = "oops"
  BY DEF Do, Step
<1> HIDE DEF Good
<1>5. /\ \A a : Good(a) => ModuleFits(<<a>>) /\ ProbeFits(<<a>>) /\ RemoveFits(<<a>>)
      /\ \A a, b : Good(a) /\ Good(b) => ModuleFits(<<a, b>>)
      /\ \A a, b, c : Good(a) /\ Good(b) /\ Good(c) =>
           ModuleFits(<<a, b, c>>) /\ RemoveFits(<<a, b, c>>)
      /\ \A a, b, c, d : Good(a) /\ Good(b) /\ Good(c) /\ Good(d) =>
           ModuleFits(<<a, b, c, d>>) /\ ProbeFits(<<a, b, c, d>>)
      /\ \A a, b, c, d, e : Good(a) /\ Good(b) /\ Good(c) /\ Good(d) /\ Good(e) =>
           ModuleFits(<<a, b, c, d, e>>)
      /\ \A a, b, c, d, e, f :
           Good(a) /\ Good(b) /\ Good(c) /\ Good(d) /\ Good(e) /\ Good(f) =>
             ModuleFits(<<a, b, c, d, e, f>>)
      /\ \A a, b, c, d, e, f, g :
           Good(a) /\ Good(b) /\ Good(c) /\ Good(d) /\ Good(e) /\ Good(f) /\ Good(g) =>
             ModuleFits(<<a, b, c, d, e, f, g>>)
  BY DEF Good, ModuleFits, ProbeFits, RemoveFits, SlotOps
<1>6. \A s : Good(s) => s \in StepSet /\ s.op # "add_slot"
  BY DEF Good, SlotOps
<1>7. ModuleFits(hello_init01)
  BY <1>1, <1>2, <1>5 DEF hello_init01, Wares, Names
<1>8. ModuleFits(hello_exit01)
  BY <1>1, <1>2, <1>5 DEF hello_exit01, Wares, Names
<1>9. ModuleFits(hello_init01b)
  BY <1>1, <1>2, <1>5 DEF hello_init01b, Wares, Names
<1>10. ModuleFits(hello_exit01b)
  BY <1>1, <1>2, <1>5 DEF hello_exit01b, Wares, Names
<1>11. ModuleFits(hello_init07)
  BY <1>1, <1>2, <1>5 DEF hello_init07, Wares, Names
<1>12. ModuleFits(led_init_simple)
  BY <1>1, <1>2, <1>5 DEF led_init_simple, Wares, Names
<1>13. ModuleFits(led_init_imx6ull)
  <2>1. /\ Good(Take("chrdev", 0)) /\ Good(Make("map", 1)) /\ Good(Make("map", 2))
        /\ Good(Make("map", 3)) /\ Good(Take("class", 0)) /\ Good(Take("node", 0))
    BY <1>1 DEF Wares, Names
  <2>2. ModuleFits(<<Take("chrdev", 0), Make("map", 1), Make("map", 2), Make("map", 3),
                     Take("class", 0), Take("node", 0)>>)
    BY <2>1, <1>5, Zenon
  <2> QED
    BY <2>2 DEF led_init_imx6ull
<1>14. ModuleFits(led_exit_imx6ull)
  <2>1. ModuleFits(<<Drop("map", 1), Drop("map", 2), Drop("map", 3)>>)
    BY <1>1, <1>5 DEF Wares, Names
  <2> QED
    BY <2>1, <1>8, CatFits DEF led_exit_imx6ull
<1>15. ModuleFits(led_init_stm32mp157)
  <2>1. /\ Good(Take("chrdev", 0)) /\ Good(Make("map", 1)) /\ Good(Make("map", 2))
        /\ Good(Make("map", 3)) /\ Good(Make("map", 4)) /\ Good(Take("class", 0))
        /\ Good(Take("node", 0))
    BY <1>1 DEF Wares, Names
  <2>2. ModuleFits(<<Take("chrdev", 0), Make("map", 1), Make("map", 2), Make("map", 3),
                     Make("map", 4), Take("class", 0), Take("node", 0)>>)
    BY <2>1, <1>5, Zenon
  <2> QED
    BY <2>2 DEF led_init_stm32mp157
<1>16. ModuleFits(led_exit_stm32mp157)
  <2>1. ModuleFits(<<Drop("map", 1), Drop("map", 2), Drop("map", 3), Drop("map", 4)>>)
    BY <1>1, <1>5 DEF Wares, Names
  <2> QED
    BY <2>1, <1>8, CatFits DEF led_exit_stm32mp157
<1>17. ModuleFits(led_init01)
  BY <1>1, <1>2, <1>5 DEF led_init01, Wares, Names
<1>18. ModuleFits(led_exit01)
  BY <1>1, <1>2, <1>5 DEF led_exit01, Wares, Names
<1>19. ModuleFits(led_init04)
  BY <1>1, <1>2, <1>5 DEF led_init04, Wares, Names
<1>20. ModuleFits(led_exit04)
  BY <1>1, <1>2, <1>5 DEF led_exit04, Wares, Names
<1>21. ModuleFits(led_drv_init04)
  BY <1>1, <1>2, <1>5 DEF led_drv_init04, Wares, Names
<1>22. ModuleFits(led_drv_exit04)
  BY <1>1, <1>2, <1>5 DEF led_drv_exit04, Wares, Names
<1>23. ModuleFits(gpio_led_init)
  BY <1>1, <1>2, <1>5 DEF gpio_led_init, Wares, Names
<1>24. ModuleFits(gpio_led_exit)
  BY <1>1, <1>2, <1>5 DEF gpio_led_exit, Wares, Names
<1>25. ModuleFits(<< >>) /\ ProbeFits(<< >>) /\ RemoveFits(<< >>)
  BY DEF ModuleFits, ProbeFits, RemoveFits
<1>26. ProbeFits(led_drv_probe04) /\ ProbeFits(led_drv_probe05)
  BY <1>3, <1>4, <1>2 DEF ProbeFits, led_drv_probe04, led_drv_probe05, SlotOps,
     led_class_create_dev04
<1>27. /\ ProbeFits(gpio_led_probe) /\ RemoveFits(gpio_led_remove)
       /\ ModuleFits(gpio_led_probe)
  BY <1>1, <1>5 DEF gpio_led_probe, gpio_led_remove, Wares, Names
<1>28. RemoveFits(led_drv_remove05) /\ RemoveFits(button_remove)
        /\ RemoveFits(keys_remove01)
  BY <1>3 DEF RemoveFits, led_drv_remove05, button_remove, keys_remove01, SlotOps
<1> QED
  BY <1>7, <1>8, <1>9, <1>10, <1>11, <1>12, <1>13, <1>14, <1>15, <1>16,
     <1>17, <1>18, <1>19, <1>20, <1>21, <1>22, <1>23, <1>24, <1>25, <1>26,
     <1>27, <1>28

(* The programs of the drivers with loops.                                  *)
LEMMA LoopedFit ==
  /\ ModuleFits(led_init02) /\ ModuleFits(led_exit02)
  /\ \A p \in {keys_probe01, keys_probe02, keys_probe07} : ModuleFits(p) /\ ProbeFits(p)
  /\ RemoveFits(keys_remove02) /\ RemoveFits(keys_remove07)
  /\ RemoveFits(keys_remove08)
  /\ ModuleFits(keys_driver01.init) /\ ModuleFits(keys_driver01.exit)
  /\ ModuleFits(Begin) /\ ModuleFits(Nodes) /\ ModuleFits(NoNodes)
<1> DEFINE Good(s) == s \in StepSet /\ s.op \notin SlotOps
<1>1. \A k \in Nat : \A r \in Wares : \A u \in SUBSET Wares :
        /\ Good(Take(r, k)) /\ Good(Need(r, k, u)) /\ Good(Make(r, k))
        /\ Good(Drop(r, k))
  BY DEF Take, Drop, Need, Make, Step, StepSet, Ops, SlotOps
<1>2. Good(Do("unbind")) /\ Good(Do("kzalloc")) /\ Good(Do("kfree")) /\ Good(Read)
  BY DEF Do, Read, Step, StepSet, Ops, SlotOps, Wares, Names
<1> HIDE DEF Good
<1>3. /\ \A a : Good(a) => ModuleFits(<<a>>)
      /\ \A a, b : Good(a) /\ Good(b) => ModuleFits(<<a, b>>)
      /\ \A a, b, c : Good(a) /\ Good(b) /\ Good(c) => ModuleFits(<<a, b, c>>)
      /\ \A a, b, c, d : Good(a) /\ Good(b) /\ Good(c) /\ Good(d) =>
           ModuleFits(<<a, b, c, d>>)
  BY DEF Good, ModuleFits
<1>4. ModuleFits(Begin) /\ ModuleFits(Nodes) /\ ModuleFits(NoNodes)
  BY <1>1, <1>2, <1>3 DEF Begin, Nodes, NoNodes, Wares, Names
<1>5. \A p : ModuleFits(p) => ProbeFits(p) /\ RemoveFits(p)
  BY DEF ModuleFits, ProbeFits, RemoveFits, SlotOps
<1>6. ModuleFits(led_init02) /\ ModuleFits(led_exit02)
  <2>1. ModuleFits(<<Take("chrdev", 0), Need("class", 0, {"chrdev"}), Make("ops", 0)>>)
    BY <1>1, <1>3 DEF Wares, Names
  <2>2. ModuleFits(<<Drop("node", 0), Drop("class", 0), Drop("chrdev", 0)>>)
    BY <1>1, <1>3 DEF Wares, Names
  <2> QED
    BY <2>1, <2>2, LoopsFit, CatFits DEF led_init02, led_exit02
<1>7. ModuleFits(keys_probe01) /\ ModuleFits(keys_probe02) /\ ModuleFits(keys_probe07)
  <2>1. ModuleFits(Begin \o For(NKeys, KeyIrq)) /\ ModuleFits(Begin \o For(NKeys, KeyTimed))
    BY <1>4, LoopsFit, CatFits
  <2> QED
    BY <2>1, <1>4, CatFits DEF keys_probe01, keys_probe02, keys_probe07
<1>8. ModuleFits(keys_remove02) /\ ModuleFits(keys_remove07) /\ ModuleFits(keys_remove08)
  BY <1>4, LoopsFit, CatFits DEF keys_remove02, keys_remove07, keys_remove08
<1>9. ModuleFits(keys_driver01.init) /\ ModuleFits(keys_driver01.exit)
  BY <1>1, <1>2, <1>3 DEF keys_driver01, Wares, Names
<1> QED
  BY <1>4, <1>5, <1>6, <1>7, <1>8, <1>9

(* The records of the drivers.                                              *)
LEMMA CharDriverIs ==
  /\ Driver["hello01"] = Simple(hello_init01, hello_exit01)
  /\ Driver["hello01b"] = Simple(hello_init01b, hello_exit01b)
  /\ Driver["hello07"] = Simple(hello_init07, hello_exit07)
  /\ Driver["led_simple"] = Simple(led_init_simple, led_exit_simple)
  /\ Driver["led_imx6ull"] = Simple(led_init_imx6ull, led_exit_imx6ull)
  /\ Driver["led_stm32mp157"] = Simple(led_init_stm32mp157, led_exit_stm32mp157)
  /\ Driver["led01"] = Simple(led_init01, led_exit01)
  /\ Driver["led02"] = Simple(led_init02, led_exit02)
  /\ Driver["led03"] = Simple(led_init03, led_exit03)
  BY DEF Driver, CharDriver

(* The drivers with a bus.                                                  *)
LEMMA BusDriverIs ==
  /\ Driver["led04"] = OnBus(Module(led_init04, led_exit04),
                             Module(led_drv_init04, led_drv_exit04),
                             led_drv_probe04, led_drv_remove04, {1})
  /\ Driver["led05"] = OnBus(Module(led_init04, led_exit04),
                             Module(led_drv_init04, led_drv_exit04),
                             led_drv_probe05, led_drv_remove05, {1, 2})
  /\ Driver["button"] = OnBus(Module(led_init04, led_exit04),
                              Module(led_drv_init04, led_drv_exit04),
                              led_drv_probe05, button_remove, {1, 2})
  /\ Driver["gpio_led"] =
       [OnBus(Module(gpio_led_init, gpio_led_exit), Module(<< >>, << >>),
              gpio_led_probe, gpio_led_remove, {1}) EXCEPT !.failure = "bound"]
  BY DEF Driver, CharDriver, BusDriver, led_init05, led_exit05, led_drv_init05,
     led_drv_exit05, button_fdrv_init, button_fdrv_exit, button_drv_init,
     button_drv_exit, button_probe

(* The key drivers.                                                         *)
LEMMA KeyDriverIs ==
  \A d \in KeyDrivers : /\ Driver[d] = KeyDriverOf(StageOf[d])
                        /\ StageOf[d] \in Stages
<1>1. ASSUME NEW d \in KeyDrivers
      PROVE  Driver[d] = KeyDriverOf(StageOf[d])
  <2>1. d \notin DOMAIN CharDriver
    BY DEF KeyDrivers, CharDriver
  <2>2. d \notin DOMAIN BusDriver
    BY DEF KeyDrivers, BusDriver
  <2> QED
    BY <2>1, <2>2 DEF Driver
<1>2. \A d \in KeyDrivers : StageOf[d] \in Stages
  BY DEF KeyDrivers, StageOf, Stages
<1> QED
  BY <1>1, <1>2

(* There are no other drivers.                                              *)
LEMMA DriverNames ==
  DOMAIN Driver =
    {"hello01", "hello01b", "hello07", "led_simple", "led_imx6ull",
     "led_stm32mp157", "led01", "led02", "led03"}
      \cup {"led04", "led05", "button", "gpio_led"} \cup KeyDrivers
  BY DEF Driver, CharDriver, BusDriver

(* The programs of the key drivers.                                         *)
LEMMA KeyProgramsAre ==
  \A s \in Stages :
    /\ keys_driver[s] = keys_driver01
    /\ keys_probe[s] = IF s = 1 THEN keys_probe01
                       ELSE IF s < 7 THEN keys_probe02 ELSE keys_probe07
    /\ keys_remove[s] = IF s = 1 THEN keys_remove01
                        ELSE IF s < 7 THEN keys_remove02
                        ELSE IF s = 7 THEN keys_remove07 ELSE keys_remove08
<1>1. \A s \in Stages : keys_driver[s] = keys_driver01
  BY DEF Stages, keys_driver, keys_driver02, keys_driver03, keys_driver04,
     keys_driver05, keys_driver06, keys_driver07, keys_driver08, keys_driver09,
     keys_driver10
<1>2. \A s \in Stages :
        keys_probe[s] = IF s = 1 THEN keys_probe01
                        ELSE IF s < 7 THEN keys_probe02 ELSE keys_probe07
  BY DEF Stages, keys_probe, keys_probe03, keys_probe04, keys_probe05,
     keys_probe06, keys_probe08, keys_probe09, keys_probe10
<1>3. \A s \in Stages :
        keys_remove[s] = IF s = 1 THEN keys_remove01
                         ELSE IF s < 7 THEN keys_remove02
                         ELSE IF s = 7 THEN keys_remove07 ELSE keys_remove08
  BY DEF Stages, keys_remove, keys_remove03, keys_remove04, keys_remove05,
     keys_remove06, keys_remove09, keys_remove10
<1> QED
  BY <1>1, <1>2, <1>3

(* The fields of a key driver.                                              *)
LEMMA KeyFields ==
  ASSUME NEW s \in Stages
  PROVE  LET v == KeyDriverOf(s)
         IN  /\ v.m1.init = keys_driver01.init /\ v.m1.exit = keys_driver01.exit
             /\ v.m2.init = << >> /\ v.m2.exit = << >>
             /\ v.probe = keys_probe[s] /\ v.remove = keys_remove[s]
             /\ v.devices = {1} /\ v.starts = Starts[s] /\ v.failure = "unbound"
  BY KeyProgramsAre DEF KeyDriverOf, OnBus, Module

(* Every driver fits.                                                       *)
LEMMA DriversFit == \A d \in DOMAIN Driver : DriverFits(d)
<1>1. ASSUME NEW p, NEW q, ModuleFits(p), ModuleFits(q), NEW d,
             Driver[d] = Simple(p, q), d # "led04"
      PROVE  DriverFits(d)
  BY <1>1, TuplesFit DEF DriverFits, Simple, Module, TwoModules
<1>2. DriverFits("hello01")
  BY <1>1, CharDriverIs, TuplesFit
<1>3. DriverFits("hello01b")
  BY <1>1, CharDriverIs, TuplesFit
<1>4. DriverFits("hello07")
  BY <1>1, CharDriverIs, TuplesFit DEF hello_exit07
<1>5. DriverFits("led_simple")
  BY <1>1, CharDriverIs, TuplesFit DEF led_exit_simple
<1>6. DriverFits("led_imx6ull")
  BY <1>1, CharDriverIs, TuplesFit
<1>7. DriverFits("led_stm32mp157")
  BY <1>1, CharDriverIs, TuplesFit
<1>8. DriverFits("led01")
  BY <1>1, CharDriverIs, TuplesFit
<1>9. DriverFits("led02")
  BY <1>1, CharDriverIs, TuplesFit, LoopedFit
<1>10. DriverFits("led03")
  BY <1>1, CharDriverIs, TuplesFit DEF led_init03, led_exit03
<1>11. DriverFits("led04")
  BY BusDriverIs, TuplesFit DEF DriverFits, OnBus, Module, led_drv_probe04,
     led_class_create_dev04, Do, Step, TwoModules
<1>12. DriverFits("led05")
  BY BusDriverIs, TuplesFit DEF DriverFits, OnBus, Module, TwoModules
<1>13. DriverFits("button")
  BY BusDriverIs, TuplesFit DEF DriverFits, OnBus, Module, TwoModules
<1>14. DriverFits("gpio_led")
  BY BusDriverIs, TuplesFit DEF DriverFits, OnBus, Module, TwoModules
<1>15. ASSUME NEW d \in KeyDrivers
      PROVE  DriverFits(d)
  <2> DEFINE s == StageOf[d]
  <2>1. s \in Stages /\ Driver[d] = KeyDriverOf(s) /\ d # "led04"
    BY KeyDriverIs DEF KeyDrivers
  <2> HIDE DEF s
  <2>2. ProbeFits(keys_probe[s]) /\ ModuleFits(keys_probe[s]) /\ RemoveFits(keys_remove[s])
    BY <2>1, KeyProgramsAre, LoopedFit, TuplesFit DEF Stages
  <2>3. Starts[s] \subseteq PerKey \ {"line"}
    BY <2>1 DEF Starts, StartedBy, PerKey
  <2> QED
    BY <2>1, <2>2, <2>3, KeyFields, LoopedFit, TuplesFit DEF DriverFits
<1> QED
  BY <1>2, <1>3, <1>4, <1>5, <1>6, <1>7, <1>8, <1>9, <1>10, <1>11, <1>12, <1>13, <1>14, <1>15,
     DriverNames

-----------------------------------------------------------------------------
(* What runs, and the types.                                                *)

RunProgram ==
  CASE run.kind = "init" -> D[run.mod].init
    [] run.kind = "exit" -> D[run.mod].exit
    [] OTHER -> << >>
BusProgram ==
  CASE bus.kind = "probe" -> D.probe
    [] bus.kind = "remove" -> D.remove
    [] OTHER -> << >>
Program(c) == IF c = "run" THEN RunProgram ELSE BusProgram

\* The place of the next step.
Pos(c) == Len(Program(c)) - Len(Prog(c)) + 1

IsRest(p, q) ==
  /\ p \in Seq(StepSet) /\ Len(p) <= Len(q)
  /\ \A i \in 1 .. Len(p) : p[i] = q[Len(q) - Len(p) + i]

\* What is left to run is a rest of what was begun.
Positions ==
  /\ drv \in Drivers
  /\ text \in [{"m1", "m2"} -> {"out", "coming", "live", "going"}]
  /\ run \in [mod : {"m1", "m2"}, kind : {"idle", "init", "exit"},
              prog : Seq(StepSet)]
  /\ bus \in [dev : {0, 1, 2}, kind : {"idle", "probe", "remove"},
              prog : Seq(StepSet)]
  /\ IsRest(run.prog, RunProgram) /\ IsRest(bus.prog, BusProgram)
  /\ bus.kind # "idle" => bus.dev \in D.devices
  /\ bus.dev \in D.devices \cup {0} /\ bound \subseteq D.devices
  /\ drv = "led04" => /\ bound = {} /\ bus.kind # "remove"
                      /\ bus.kind = "probe" => bus.prog = D.probe

\* A device that is being probed has a slot to come, unless it has it.
DataTypes ==
  /\ held \subseteq Names \X Nat \X (0 .. arrays)
  /\ cls \in {"null", "ok", "err", "stale"}
  /\ arrays \in Nat /\ gpk \in 0 .. arrays
  /\ slot \in [0 .. CAP - 1 -> D.devices \cup {0}]
  /\ cnt \in 0 .. binds /\ cnt <= CAP /\ binds \in 0 .. MaxBinds[drv]
  /\ bus.kind = "probe" /\ bus.prog # << >> => cnt < binds
  /\ user \in {"outside", "inside"} /\ failed \in BOOLEAN /\ oops \in BOOLEAN

(* The driver fits.                                                         *)
LEMMA DFits ==
  ASSUME drv \in Drivers
  PROVE  /\ \A m \in {"m1", "m2"} : ModuleFits(D[m].init) /\ ModuleFits(D[m].exit)
         /\ ProbeFits(D.probe) /\ (drv # "led04" => RemoveFits(D.remove))
         /\ drv \notin TwoModules => ModuleFits(D.probe)
         /\ D.devices \subseteq {1, 2} /\ D.starts \subseteq PerKey \ {"line"}
         /\ drv = "led04" => Len(D.probe) = 2 /\ D.probe[1].op = "oops"
  BY DriversFit, DriversAssumption DEF DriverFits, D

(* Whatever runs is a sequence of steps; the next one is that of its place. *)
LEMMA NextStep ==
  ASSUME Positions, NEW c \in {"run", "bus"}, Prog(c) # << >>
  PROVE  /\ Program(c) \in Seq(StepSet) /\ Prog(c) \in Seq(StepSet)
         /\ Pos(c) \in 1 .. Len(Program(c))
         /\ Head(Prog(c)) = Program(c)[Pos(c)] /\ Head(Prog(c)) \in StepSet
         /\ Len(Prog(c)) = Len(Program(c)) - Pos(c) + 1
         /\ c = "run" => run.kind # "idle" /\ Head(Prog(c)).op \notin SlotOps
         /\ c = "bus" => /\ bus.kind # "idle"
                         /\ Head(Prog(c)).op = "add_slot" =>
                              /\ bus.kind = "probe" /\ Len(Prog(c)) = 1
                              /\ drv \in OpsElsewhere
                         /\ drv = "led04" => Head(Prog(c)).op = "oops"
<1>1. RunProgram \in Seq(StepSet) /\ \A i \in 1 .. Len(RunProgram) : RunProgram[i].op \notin SlotOps
  BY DFits DEF RunProgram, Positions, ModuleFits
<1>2. /\ BusProgram \in Seq(StepSet)
      /\ \A i \in 1 .. Len(BusProgram) :
           BusProgram[i].op = "add_slot" =>
             bus.kind = "probe" /\ i = Len(BusProgram) /\ drv \in TwoModules
  BY DFits DEF BusProgram, Positions, ProbeFits, RemoveFits, ModuleFits, SlotOps
<1>3. Program(c) \in Seq(StepSet) /\ IsRest(Prog(c), Program(c))
  BY <1>1, <1>2 DEF Program, Prog, Positions
<1>4. /\ Pos(c) \in 1 .. Len(Program(c)) /\ Prog(c) \in Seq(StepSet)
      /\ Head(Prog(c)) = Program(c)[Pos(c)] /\ Head(Prog(c)) \in StepSet
      /\ Len(Prog(c)) = Len(Program(c)) - Pos(c) + 1
  <2> DEFINE p == Prog(c)
             q == Program(c)
  <2>1. p \in Seq(StepSet) /\ q \in Seq(StepSet) /\ p # << >>
    BY <1>3 DEF IsRest
  <2>2. Len(p) \in Nat /\ Len(q) \in Nat /\ Len(p) > 0 /\ Len(p) <= Len(q)
    BY <2>1, <1>3, EmptySeq DEF IsRest
  <2>3. Head(p) = p[1] /\ p[1] \in StepSet /\ p[1] = q[Len(q) - Len(p) + 1]
    BY <2>1, <2>2, <1>3 DEF IsRest
  <2> QED
    BY <2>1, <2>2, <2>3 DEF Pos
<1>5. ASSUME c = "run"
      PROVE  run.kind # "idle" /\ Head(Prog(c)).op \notin SlotOps
  <2>1. Len(RunProgram) > 0 /\ Program(c) = RunProgram
    BY <1>4, <1>5 DEF Program
  <2>2. run.kind # "idle"
    BY <2>1 DEF RunProgram
  <2>3. Head(Prog(c)).op \notin SlotOps
    BY <2>1, <1>1, <1>4
  <2> QED
    BY <2>2, <2>3
<1>6. ASSUME c = "bus"
      PROVE  /\ bus.kind # "idle"
             /\ Head(Prog(c)).op = "add_slot" =>
                  /\ bus.kind = "probe" /\ Len(Prog(c)) = 1
                  /\ drv \in OpsElsewhere
             /\ drv = "led04" => Head(Prog(c)).op = "oops"
  <2>1. Program(c) = BusProgram /\ Prog(c) = bus.prog
    BY <1>6 DEF Program, Prog
  <2>2. bus.kind # "idle"
    BY <2>1, <1>4 DEF BusProgram
  <2>3. Head(Prog(c)).op = "add_slot" =>
          bus.kind = "probe" /\ Len(Prog(c)) = 1 /\ drv \in TwoModules
    BY <2>1, <1>4, <1>2
  <2>4. ASSUME drv = "led04"
        PROVE  Head(Prog(c)).op = "oops"
    <3>1. bus.kind = "probe" /\ bus.prog = D.probe
      BY <2>2, <2>4 DEF Positions
    <3>2. Prog(c) = D.probe /\ Program(c) = D.probe
      BY <3>1, <2>1 DEF BusProgram
    <3>3. D.probe[1].op = "oops"
      BY <2>4, DFits DEF Positions
    <3>4. Head(D.probe) = D.probe[1]
      BY <3>2, <1>3, <1>4
    <3> QED
      BY <3>2, <3>3, <3>4
  <2> QED
    BY <2>2, <2>3, <2>4 DEF TwoModules, OpsElsewhere
<1> QED
  BY <1>3, <1>4, <1>5, <1>6

(* A step that goes on leaves the rest behind it.                           *)
LEMMA GoOn ==
  ASSUME Positions, NEW c \in {"run", "bus"}, Prog(c) # << >>, GoesOn(c),
         drv' = drv, ~(c = "bus" /\ drv = "led04")
  PROVE  /\ Positions' /\ D' = D /\ Program(c)' = Program(c)
         /\ Pos(c)' = Pos(c) + 1 /\ Prog(c)' = Tail(Prog(c))
         /\ Len(Prog(c)') = Len(Prog(c)) - 1
         /\ c = "run" => bus' = bus /\ run'.kind = run.kind /\ run'.mod = run.mod
         /\ c = "bus" => run' = run /\ bus'.kind = bus.kind /\ bus'.dev = bus.dev
<1>1. D' = D
  BY DEF D
<1>2. /\ Program(c) \in Seq(StepSet) /\ Prog(c) \in Seq(StepSet)
      /\ Pos(c) \in 1 .. Len(Program(c)) /\ IsRest(Prog(c), Program(c))
  BY NextStep DEF Positions, Program, Prog
<1>3. ASSUME NEW p \in Seq(StepSet), NEW q, Len(q) \in Nat, IsRest(p, q), p # << >>
      PROVE  /\ IsRest(Tail(p), q) /\ Len(Tail(p)) = Len(p) - 1
             /\ Tail(p) \in Seq(StepSet)
  <2>1. /\ Tail(p) \in Seq(StepSet) /\ Len(Tail(p)) = Len(p) - 1
        /\ \A i \in 1 .. Len(Tail(p)) : Tail(p)[i] = p[i + 1]
        /\ Len(p) \in Nat /\ Len(p) >= 1
    BY <1>3
  <2> QED
    BY <2>1, <1>3 DEF IsRest
<1>4. /\ IsRest(Tail(Prog(c)), Program(c)) /\ Len(Tail(Prog(c))) = Len(Prog(c)) - 1
      /\ Tail(Prog(c)) \in Seq(StepSet)
  BY <1>2, <1>3
<1>5. CASE c = "run"
  <2>1. /\ run' = [run EXCEPT !.prog = Tail(@)] /\ bus' = bus /\ text' = text
        /\ bound' = bound
    BY <1>5 DEF GoesOn
  <2>2. /\ run'.prog = Tail(run.prog) /\ run'.kind = run.kind /\ run'.mod = run.mod
        /\ run' \in [mod : {"m1", "m2"}, kind : {"idle", "init", "exit"},
                     prog : Seq(StepSet)]
    BY <2>1, <1>4, <1>5 DEF Positions, Prog
  <2>3. RunProgram' = RunProgram /\ BusProgram' = BusProgram
    BY <2>1, <2>2, <1>1 DEF RunProgram, BusProgram
  <2>4. Program(c)' = Program(c) /\ Prog(c)' = Tail(Prog(c))
    BY <2>2, <2>3, <1>5 DEF Program, Prog
  <2>5. Pos(c)' = Pos(c) + 1
    BY <2>4, <1>4, <1>2, LenProperties DEF Pos
  <2>6. IsRest(run'.prog, RunProgram')
    BY <2>2, <2>3, <1>4, <1>5 DEF Program, Prog
  <2>7. Positions'
    BY <2>1, <2>2, <2>3, <2>6, <1>1 DEF Positions
  <2> QED
    BY <2>1, <2>2, <2>4, <2>5, <2>7, <1>1, <1>4, <1>5
<1>6. CASE c = "bus"
  <2>1. /\ bus' = [bus EXCEPT !.prog = Tail(@)] /\ run' = run /\ text' = text
        /\ bound' = bound
    BY <1>6 DEF GoesOn
  <2>2. /\ bus'.prog = Tail(bus.prog) /\ bus'.kind = bus.kind /\ bus'.dev = bus.dev
        /\ bus' \in [dev : {0, 1, 2}, kind : {"idle", "probe", "remove"},
                     prog : Seq(StepSet)]
    BY <2>1, <1>4, <1>6 DEF Positions, Prog
  <2>3. RunProgram' = RunProgram /\ BusProgram' = BusProgram
    BY <2>1, <2>2, <1>1 DEF RunProgram, BusProgram
  <2>4. Program(c)' = Program(c) /\ Prog(c)' = Tail(Prog(c))
    BY <2>2, <2>3, <1>6 DEF Program, Prog
  <2>5. Pos(c)' = Pos(c) + 1
    BY <2>4, <1>4, <1>2, LenProperties DEF Pos
  <2>6. IsRest(bus'.prog, BusProgram')
    BY <2>2, <2>3, <1>4, <1>6 DEF Program, Prog
  <2>7. Positions'
    BY <2>1, <2>2, <2>3, <2>6, <1>1, <1>6 DEF Positions
  <2> QED
    BY <2>1, <2>2, <2>4, <2>5, <2>7, <1>1, <1>4, <1>6
<1> QED
  BY <1>5, <1>6

(* A step that fails leaves nothing to run.                                 *)
LEMMA Failing ==
  ASSUME Positions, NEW c \in {"run", "bus"}, Prog(c) # << >>, Fails(c),
         drv' = drv, ~(c = "bus" /\ drv = "led04")
  PROVE  /\ Positions' /\ D' = D
         /\ c = "run" => bus' = bus /\ run'.kind = "idle"
         /\ c = "bus" => run' = run /\ bus'.kind = "idle"
<1>1. D' = D
  BY DEF D
<1>2. IsRest(<< >>, << >>)
  BY DEF IsRest
<1>3. CASE c = "run"
  <2>1. /\ run' = Idle /\ bus' = bus /\ bound' = bound
        /\ text' = [text EXCEPT ![run.mod] = "out"]
    BY <1>3 DEF Fails
  <2>2. RunProgram' = << >> /\ run'.prog = << >> /\ BusProgram' = BusProgram
    BY <2>1, <1>1 DEF RunProgram, BusProgram, Idle
  <2> QED
    BY <2>1, <2>2, <1>1, <1>2, <1>3 DEF Positions, Idle
<1>4. CASE c = "bus"
  <2>1. /\ bus' = BusIdle /\ run' = run /\ text' = text
        /\ bound' = bound \/ bound' = bound \cup {bus.dev}
    BY <1>4 DEF Fails
  <2>2. RunProgram' = RunProgram /\ bus'.prog = << >> /\ BusProgram' = << >>
    BY <2>1, <1>1 DEF RunProgram, BusProgram, BusIdle
  <2>3. bus.kind # "idle"
    BY NextStep, <1>4
  <2> QED
    BY <2>1, <2>2, <2>3, <1>1, <1>2, <1>4 DEF Positions, BusIdle
<1> QED
  BY <1>3, <1>4

(* The core begins to probe or remove a device.                             *)
LEMMA Begun ==
  ASSUME Positions, drv' = drv, NEW d \in D.devices, NEW k \in {"probe", "remove"},
         bus' = [dev |-> d, kind |-> k,
                 prog |-> IF k = "probe" THEN D.probe ELSE D.remove],
         k = "remove" => drv # "led04", UNCHANGED <<run, text, bound>>
  PROVE  Positions' /\ D' = D
<1>1. D' = D
  BY DEF D
<1>2. \A p \in Seq(StepSet) : IsRest(p, p)
  BY DEF IsRest
<1>3. RunProgram' = RunProgram
  BY <1>1 DEF RunProgram
<1>4. BusProgram' = bus'.prog /\ bus'.prog \in Seq(StepSet)
  BY <1>1, DFits DEF BusProgram, Positions, ProbeFits, RemoveFits
<1>5. d \in {1, 2}
  BY DFits DEF Positions
<1> QED
  BY <1>1, <1>2, <1>3, <1>4, <1>5 DEF Positions

(* What a step may be.                                                      *)
LEMMA StepMoves ==
  ASSUME Positions, NEW c \in {"run", "bus"}, Prog(c) # << >>, StepOf(c),
         drv' = drv
  PROVE  \/ GoesOn(c) /\ ~(c = "bus" /\ drv = "led04")
         \/ Fails(c) /\ ~(c = "bus" /\ drv = "led04")
         \/ /\ Head(Prog(c)).op \in {"oops", "add_slot"} /\ oops'
            /\ UNCHANGED <<run, bus, text, bound, slotVars>>
         \/ /\ Head(Prog(c)).op = "unbind" /\ bus.kind = "idle"
            /\ UNCHANGED <<run, text, bound>>
            /\ \E d \in bound : bus' = [dev |-> d, kind |-> "remove", prog |-> D.remove]
<1> DEFINE s == Head(Prog(c))
<1>1. CASE s.op = "oops"
  BY <1>1 DEF StepOf
<1>2. CASE s.op = "unbind"
  <2>1. Unbound(c)
    BY <1>2 DEF StepOf
  <2>2. ~(c = "bus" /\ drv = "led04")
    BY NextStep, <1>2
  <2> QED
    BY <2>1, <2>2, <1>2 DEF Unbound
<1>3. CASE s.op = "add_slot"
  <2>1. ~(c = "bus" /\ drv = "led04")
    BY NextStep, <1>3
  <2>2. GoesOn(c) \/ (oops' /\ UNCHANGED <<run, bus, text, bound, slotVars>>)
    BY <1>3 DEF StepOf, SlotAdded
  <2> QED
    BY <2>1, <2>2, <1>3
<1>4. CASE s.op \notin {"oops", "unbind", "add_slot"}
  <2>1. ~(c = "bus" /\ drv = "led04")
    BY NextStep, <1>4
  <2>2. GoesOn(c) \/ Fails(c)
    BY <1>4 DEF StepOf, Got, Refused, Made, Dropped, Awaited, PropertyRead,
       KeysAllocated, KeysFreed, Nothing, SlotNode, SlotCleared, SlotsReset,
       SlotsSwept
  <2> QED
    BY <2>1, <2>2
<1> QED
  BY <1>1, <1>2, <1>3, <1>4

(* A step keeps the places.                                                 *)
LEMMA StepPositions ==
  ASSUME Positions, NEW c \in {"run", "bus"}, Prog(c) # << >>, StepOf(c),
         drv' = drv
  PROVE  Positions'
<1>1. CASE GoesOn(c) /\ ~(c = "bus" /\ drv = "led04")
  BY <1>1, GoOn
<1>2. CASE Fails(c) /\ ~(c = "bus" /\ drv = "led04")
  BY <1>2, Failing
<1>3. CASE UNCHANGED <<run, bus, text, bound>>
  BY <1>3 DEF Positions, RunProgram, BusProgram, D
<1>4. ASSUME UNCHANGED <<run, text, bound>>, NEW d \in bound,
             bus' = [dev |-> d, kind |-> "remove", prog |-> D.remove]
      PROVE  Positions'
  <2>1. d \in D.devices /\ drv # "led04"
    BY <1>4 DEF Positions
  <2> QED
    BY <1>4, <2>1, Begun
<1> QED
  BY <1>1, <1>2, <1>3, <1>4, StepMoves

(* A set of numbers that is not empty has a first.                          *)
LEMMA FirstOfSome ==
  ASSUME NEW S \in SUBSET Nat, S # {}
  PROVE  \E i \in S : \A j \in S : i <= j
<1> DEFINE R == OpToRel(<, Nat)
<1>1. \A y, i \in Nat : y < i => <<y, i>> \in R
  BY Zenon DEF OpToRel
<1>2. IsWellFoundedOn(R, Nat)
  BY NatLessThanWellFounded, Zenon
<1> HIDE DEF R
<1>3. \E i \in S : \A y \in S : ~(<<y, i>> \in R)
  BY <1>2, WFMin
<1>4. PICK i \in S : \A y \in S : ~(<<y, i>> \in R)
  BY <1>3
<1>5. ASSUME NEW j \in S
      PROVE  i <= j
  <2>1. ~(j < i)
    BY <1>1, <1>4
  <2> QED
    BY <2>1
<1> QED
  BY <1>5

\* The types of what the kernel holds, without the counters.
HeldTypes ==
  /\ held \subseteq Names \X Nat \X (0 .. arrays)
  /\ arrays \in Nat /\ gpk \in 0 .. arrays
  /\ cls \in {"null", "ok", "err", "stale"}
  /\ failed \in BOOLEAN /\ oops \in BOOLEAN

(* A step keeps the types of what is held.                                  *)
LEMMA StepHeldTypes ==
  ASSUME Positions, DataTypes, NEW c \in {"run", "bus"}, Prog(c) # << >>, StepOf(c)
  PROVE  HeldTypes'
<1> DEFINE s == Head(Prog(c))
<1>1. s \in StepSet
  BY NextStep
<1>2. HeldTypes /\ cnt \in Nat
  BY LifeAssumption DEF HeldTypes, DataTypes
<1>3. ASSUME s.op \in {"take", "need", "make"}
      PROVE  Named(s.r, s.i) \in Names \X Nat \X (0 .. arrays)
  BY <1>1, <1>2, <1>3 DEF StepSet, Wares, Named, Static, HeldTypes
<1>4. CASE s.op \in {"take", "need"} /\ Got(c, s)
  BY <1>2, <1>3, <1>4 DEF Got, HeldTypes, keyVars, slotVars, ClassAfter
<1>5. CASE Refused(c, s)
  BY <1>2, <1>5 DEF Refused, HeldTypes, keyVars, slotVars, ClassAfter
<1>6. CASE s.op = "make" /\ Made(c, s)
  BY <1>2, <1>3, <1>6 DEF Made, HeldTypes, keyVars, slotVars
<1>7. CASE Dropped(c, s)
  BY <1>2, <1>7 DEF Dropped, HeldTypes, keyVars, slotVars
<1>8. CASE Awaited(c, s) \/ Nothing(c) \/ Unbound(c) \/ PropertyRead(c)
  BY <1>2, <1>8 DEF Awaited, Nothing, Unbound, PropertyRead, HeldTypes, keyVars,
     slotVars
<1>9. CASE KeysAllocated(c)
  <2>1. /\ arrays' = arrays + 1 /\ gpk' = arrays + 1
        /\ held' = held \cup {<<"array", 0, arrays + 1>>}
        /\ UNCHANGED <<cls, failed, oops>>
    BY <1>9 DEF KeysAllocated
  <2>2. <<"array", 0, arrays + 1>> \in Names \X Nat \X (0 .. arrays + 1)
    BY <1>2 DEF Names, HeldTypes
  <2>3. held \subseteq Names \X Nat \X (0 .. arrays + 1)
    BY <1>2 DEF HeldTypes
  <2> QED
    BY <1>2, <2>1, <2>2, <2>3 DEF HeldTypes
<1>10. CASE KeysFreed(c)
  BY <1>2, <1>10 DEF KeysFreed, HeldTypes, keyVars, slotVars
<1>11. CASE SlotNode(c)
  <2>1. Static("node", cnt) \in Names \X Nat \X (0 .. arrays)
    BY <1>2 DEF Static, Names, HeldTypes
  <2> QED
    BY <1>2, <2>1, <1>11 DEF SlotNode, HeldTypes, keyVars, slotVars
<1>12. CASE SlotAdded(c) \/ SlotsReset(c) \/ SlotsSwept(c)
  BY <1>2, <1>12 DEF SlotAdded, SlotsReset, SlotsSwept, HeldTypes, keyVars
<1>13. CASE SlotCleared(c)
  <2>1. \A i \in 0 .. cnt - 1 : Static("node", i) \in Names \X Nat \X (0 .. arrays)
    BY <1>2 DEF Static, Names, HeldTypes
  <2>2. held' \subseteq Names \X Nat \X (0 .. arrays)
    <3>1. CASE Match = {}
      BY <3>1, <1>2, <1>13 DEF SlotCleared, HeldTypes
    <3>2. CASE Match # {}
      <4> DEFINE i == CHOOSE i \in Match : \A j \in Match : i <= j
      <4>1. held' \in {held, held \cup {Static("node", i)}}
        BY <3>2, <1>13 DEF SlotCleared
      <4>2. Match \subseteq 0 .. cnt - 1
        BY DEF Match
      <4>3. \E i_1 \in Match : \A j \in Match : i_1 <= j
        BY <3>2, <4>2, <1>2, FirstOfSome
      <4>4. i \in Match
        BY <4>3
      <4> HIDE DEF i
      <4> QED
        BY <4>1, <4>2, <4>4, <2>1, <1>2 DEF HeldTypes
    <3> QED
      BY <3>1, <3>2
  <2> QED
    BY <1>2, <2>2, <1>13 DEF SlotCleared, HeldTypes, keyVars
<1>14. CASE s.op = "oops" /\ oops' = TRUE /\ UNCHANGED <<held, cls, failed, keyVars>>
  BY <1>2, <1>14 DEF HeldTypes, keyVars
<1> QED
  BY <1>4, <1>5, <1>6, <1>7, <1>8, <1>9, <1>10, <1>11, <1>12, <1>13, <1>14
     DEF StepOf

\* The types of the slots and what counts them.
SlotTypes ==
  /\ slot \in [0 .. CAP - 1 -> D.devices \cup {0}]
  /\ cnt \in 0 .. binds /\ cnt <= CAP /\ binds \in 0 .. MaxBinds[drv]
  /\ bus.kind = "probe" /\ bus.prog # << >> => cnt < binds

(* A step keeps the slots and their counter within bounds.                  *)
LEMMA StepSlotTypes ==
  ASSUME Positions, DataTypes, NEW c \in {"run", "bus"}, Prog(c) # << >>, StepOf(c),
         UNCHANGED <<drv, binds>>
  PROVE  SlotTypes'
<1> DEFINE s == Head(Prog(c))
<1>1. s \in StepSet /\ D' = D /\ binds \in Nat /\ cnt \in Nat /\ CAP \in Nat
  <2>1. s \in StepSet /\ D' = D
    BY NextStep DEF D
  <2>2. binds \in 0 .. MaxBinds[drv] /\ MaxBinds[drv] \in Nat /\ CAP \in Nat
    BY LifeAssumption DEF DataTypes, Positions
  <2> QED
    BY <2>1, <2>2 DEF DataTypes
<1>2. /\ s.op = "add_slot" => bus.kind = "probe" /\ bus.prog # << >> /\ c = "bus"
      /\ s.op = "add_slot" /\ cnt < CAP => bus'.prog = << >>
  <2>1. ASSUME s.op = "add_slot"
        PROVE  bus.kind = "probe" /\ bus.prog # << >> /\ c = "bus"
    BY <2>1, NextStep DEF SlotOps, Prog
  <2>2. ASSUME s.op = "add_slot", cnt < CAP
        PROVE  bus'.prog = << >>
    <3>1. c = "bus" /\ bus.kind = "probe" /\ Len(Prog(c)) = 1
      BY <2>2, NextStep DEF SlotOps
    <3>2. GoesOn(c) /\ ~(c = "bus" /\ drv = "led04")
      <4>1. ~(c = "bus" /\ drv = "led04")
        BY <2>2, NextStep
      <4>2. ~(cnt >= CAP)
        BY <2>2, <1>1
      <4>3. GoesOn(c)
        BY <2>2, <4>2 DEF StepOf, SlotAdded
      <4> QED
        BY <4>1, <4>3
    <3>3. Prog(c)' = Tail(Prog(c)) /\ Prog(c) \in Seq(StepSet)
      BY <3>2, GoOn, NextStep
    <3>4. Prog(c)' = << >>
      BY <3>3, <3>1, EmptySeq
    <3> QED
      BY <3>1, <3>4 DEF Prog
  <2> QED
    BY <2>1, <2>2
<1>3. bus'.kind = "probe" /\ bus'.prog # << >> => bus.kind = "probe" /\ bus.prog # << >>
  <2>1. CASE GoesOn(c) /\ ~(c = "bus" /\ drv = "led04")
    BY <2>1, GoOn DEF Prog
  <2>2. CASE Fails(c) /\ ~(c = "bus" /\ drv = "led04")
    BY <2>2, Failing DEF Prog
  <2>3. CASE UNCHANGED bus
    BY <2>3
  <2>4. CASE \E d \in bound : bus' = [dev |-> d, kind |-> "remove", prog |-> D.remove]
    BY <2>4
  <2> QED
    BY <2>1, <2>2, <2>3, <2>4, StepMoves
<1>4. SlotTypes
  BY DEF DataTypes, SlotTypes
<1>5. ASSUME UNCHANGED slotVars
      PROVE  SlotTypes'
  BY <1>1, <1>3, <1>4, <1>5 DEF SlotTypes, slotVars
<1>6. CASE s.op = "add_slot" /\ cnt >= CAP
  <2>1. UNCHANGED slotVars
    BY <1>1, <1>6 DEF StepOf, SlotAdded
  <2> QED
    BY <2>1, <1>5
<1>7. CASE s.op = "add_slot" /\ cnt < CAP
  <2>1. slot' = [slot EXCEPT ![cnt] = bus.dev] /\ cnt' = cnt + 1
    BY <1>1, <1>7 DEF StepOf, SlotAdded
  <2>2. cnt < binds /\ bus'.prog = << >>
    BY <1>2, <1>4, <1>7 DEF SlotTypes
  <2>3. slot' \in [0 .. CAP - 1 -> D.devices \cup {0}]
    BY <2>1, <1>4 DEF SlotTypes, Positions
  <2> QED
    BY <2>1, <2>2, <2>3, <1>1, <1>4, <1>7 DEF SlotTypes
<1>8. CASE s.op = "clear_slot"
  <2>1. /\ cnt' = cnt
        /\ \/ slot' = slot
           \/ \E i : slot' = [slot EXCEPT ![i] = 0]
    BY <1>8 DEF StepOf, SlotCleared
  <2>2. slot' \in [0 .. CAP - 1 -> D.devices \cup {0}]
    BY <2>1, <1>4 DEF SlotTypes
  <2> QED
    BY <2>1, <2>2, <1>1, <1>3, <1>4 DEF SlotTypes
<1>9. CASE s.op = "reset_if_all_clear"
  <2>1. slot' = slot /\ cnt' \in {0, cnt}
    BY <1>9 DEF StepOf, SlotsReset
  <2> QED
    BY <2>1, <1>1, <1>3, <1>4 DEF SlotTypes
<1>10. CASE s.op = "clear_slot_and_look_on"
  <2>1. cnt' \in {0, cnt} /\ \E P : slot' = [i \in DOMAIN slot |-> IF i \in Match /\ P[i] THEN 0 ELSE slot[i]]
    <3> DEFINE stop == {i \in Match : \E j \in Others : j < i}
               last == IF stop = {} THEN cnt
                       ELSE CHOOSE i \in stop : \A j \in stop : i <= j
               P == [i \in DOMAIN slot |-> i <= last]
    <3>1. /\ slot' = [i \in DOMAIN slot |->
                        IF i \in Match /\ i <= last THEN 0 ELSE slot[i]]
          /\ cnt' \in {0, cnt}
      BY <1>10 DEF StepOf, SlotsSwept
    <3> HIDE DEF last
    <3>2. slot' = [i \in DOMAIN slot |-> IF i \in Match /\ P[i] THEN 0 ELSE slot[i]]
      BY <3>1
    <3> QED
      BY <3>1, <3>2
  <2>2. slot' \in [0 .. CAP - 1 -> D.devices \cup {0}]
    BY <2>1, <1>4 DEF SlotTypes
  <2> QED
    BY <2>1, <2>2, <1>1, <1>3, <1>4 DEF SlotTypes
<1>11. CASE s.op \notin {"add_slot", "clear_slot", "reset_if_all_clear",
                         "clear_slot_and_look_on"}
  <2>1. UNCHANGED slotVars
    BY <1>11 DEF StepOf, Got, Refused, Made, Dropped, Awaited, PropertyRead,
       KeysAllocated, KeysFreed, Nothing, SlotNode, Unbound
  <2> QED
    BY <2>1, <1>5
<1> QED
  BY <1>1, <1>6, <1>8, <1>9, <1>10, <1>11, <1>7

(* Every step of a module or of the driver core keeps the types.            *)
LEMMA StepTypes ==
  ASSUME Positions, DataTypes, NEW c \in {"run", "bus"}, Prog(c) # << >>, StepOf(c),
         UNCHANGED <<drv, user, loads, binds>>
  PROVE  Positions' /\ DataTypes'
<1>1. Positions' /\ HeldTypes' /\ SlotTypes'
  BY StepPositions, StepHeldTypes, StepSlotTypes
<1>2. user' \in {"outside", "inside"}
  BY DEF DataTypes
<1> QED
  BY <1>1, <1>2 DEF DataTypes, HeldTypes, SlotTypes

(* Loading begins a program.                                                *)
LEMMA LoadTypes ==
  ASSUME Positions, DataTypes, NEW m \in {"m1", "m2"}, Load(m)
  PROVE  Positions' /\ DataTypes'
<1>1. D' = D
  BY DEF Load, D
<1>2. /\ run' = [mod |-> m, kind |-> "init", prog |-> D[m].init]
      /\ D[m].init \in Seq(StepSet)
  BY DFits DEF Load, Positions, ModuleFits
<1>3. /\ RunProgram' = D[m].init /\ run'.prog = D[m].init
      /\ BusProgram' = BusProgram /\ bus' = bus
  BY <1>1, <1>2 DEF RunProgram, BusProgram, Load
<1>4. IsRest(D[m].init, D[m].init)
  BY <1>2 DEF IsRest
<1>5. Positions'
  BY <1>1, <1>2, <1>3, <1>4 DEF Positions, Load
<1>6. held' \subseteq held /\ cls' \in {"null", cls} /\ gpk' \in {0, gpk}
  BY DEF Load
<1>7. slot' \in [0 .. CAP - 1 -> D.devices \cup {0}] /\ cnt' \in {0, cnt}
  BY DEF Load, DataTypes
<1>8. UNCHANGED <<drv, bus, arrays, bound, user, binds, failed, oops>>
  BY DEF Load
<1>9. binds \in Nat /\ CAP \in Nat
  BY LifeAssumption DEF DataTypes, Positions
<1>10. DataTypes'
  BY <1>1, <1>6, <1>7, <1>8, <1>9 DEF DataTypes
<1> QED
  BY <1>5, <1>10

(* So does unloading.                                                       *)
LEMMA UnloadTypes ==
  ASSUME Positions, DataTypes, NEW m \in {"m1", "m2"}, Unload(m)
  PROVE  Positions' /\ DataTypes'
<1>1. D' = D
  BY DEF Unload, D
<1>2. /\ run' = [mod |-> m, kind |-> "exit", prog |-> D[m].exit]
      /\ D[m].exit \in Seq(StepSet)
  BY DFits DEF Unload, Positions, ModuleFits
<1>3. /\ RunProgram' = D[m].exit /\ run'.prog = D[m].exit
      /\ BusProgram' = BusProgram /\ bus' = bus
  BY <1>1, <1>2 DEF RunProgram, BusProgram, Unload
<1>4. IsRest(D[m].exit, D[m].exit)
  BY <1>2 DEF IsRest
<1>5. Positions'
  BY <1>1, <1>2, <1>3, <1>4 DEF Positions, Unload
<1>6. DataTypes'
  BY <1>1 DEF DataTypes, Unload, slotVars
<1> QED
  BY <1>5, <1>6

(* A module whose code has run runs no more.                                *)
LEMMA ModuleDoneTypes ==
  ASSUME Positions, DataTypes, ModuleDone
  PROVE  Positions' /\ DataTypes'
<1>1. D' = D
  BY DEF ModuleDone, D
<1>2. /\ RunProgram' = << >> /\ run'.prog = << >> /\ run' = Idle
      /\ BusProgram' = BusProgram /\ bus' = bus
  BY <1>1 DEF RunProgram, BusProgram, ModuleDone, Idle
<1>3. IsRest(<< >>, << >>)
  BY DEF IsRest
<1>4. Positions'
  BY <1>1, <1>2, <1>3 DEF Positions, ModuleDone, Idle
<1>5. DataTypes'
  BY <1>1 DEF DataTypes, ModuleDone, slotVars
<1> QED
  BY <1>4, <1>5

(* Binding begins a probe, which has a slot to come.                        *)
LEMMA BindTypes ==
  ASSUME Positions, DataTypes, NEW d \in D.devices, Bind(d)
  PROVE  Positions' /\ DataTypes'
<1>1. Positions' /\ D' = D
  <2>1. /\ bus' = [dev |-> d, kind |-> "probe", prog |-> D.probe]
        /\ UNCHANGED <<drv, run, text, bound>>
    BY DEF Bind, runVars
  <2> QED
    BY <2>1, Begun
<1>2. /\ binds' = binds + 1 /\ binds < MaxBinds[drv] /\ binds \in Nat
      /\ MaxBinds[drv] \in Nat
      /\ UNCHANGED <<drv, held, cls, gpk, arrays, slotVars, user, failed, oops>>
  BY LifeAssumption DEF Bind, DataTypes, Positions
<1>3. cnt < binds' /\ cnt \in 0 .. binds'
  BY <1>2 DEF DataTypes
<1>4. DataTypes'
  BY <1>1, <1>2, <1>3 DEF DataTypes, slotVars
<1> QED
  BY <1>1, <1>4

(* Unbinding begins a remove.                                               *)
LEMMA UnbindTypes ==
  ASSUME Positions, DataTypes, NEW d \in D.devices, Unbind(d)
  PROVE  Positions' /\ DataTypes'
<1>1. Positions' /\ D' = D
  <2>1. /\ bus' = [dev |-> d, kind |-> "remove", prog |-> D.remove]
        /\ UNCHANGED <<drv, run, text, bound>> /\ d \in bound
    BY DEF Unbind, runVars
  <2>2. drv # "led04"
    BY <2>1 DEF Positions
  <2> QED
    BY <2>1, <2>2, Begun
<1>2. bus'.kind = "remove"
  BY DEF Unbind
<1>3. DataTypes'
  BY <1>1, <1>2 DEF DataTypes, Unbind, slotVars
<1> QED
  BY <1>1, <1>3

(* The core is done with a device.                                          *)
LEMMA BusDoneTypes ==
  ASSUME Positions, DataTypes, BusDone
  PROVE  Positions' /\ DataTypes'
<1>1. D' = D
  BY DEF BusDone, D
<1>2. /\ BusProgram' = << >> /\ bus'.prog = << >> /\ bus' = BusIdle
      /\ RunProgram' = RunProgram /\ run' = run /\ text' = text
  BY <1>1 DEF RunProgram, BusProgram, BusDone, BusIdle, runVars
<1>3. IsRest(<< >>, << >>)
  BY DEF IsRest
<1>4. drv # "led04"
  <2>1. ASSUME drv = "led04"
        PROVE  FALSE
    <3>1. bus.prog = D.probe /\ bus.prog = << >>
      BY <2>1 DEF BusDone, Positions
    <3> QED
      BY <3>1, <2>1, DFits DEF Positions
  <2> QED
    BY <2>1
<1>5. bound' \subseteq D.devices
  BY DEF BusDone, Positions
<1>6. Positions'
  BY <1>1, <1>2, <1>3, <1>4, <1>5 DEF Positions, BusDone, BusIdle
<1>7. DataTypes'
  BY <1>1, <1>2 DEF DataTypes, BusDone, slotVars, BusIdle
<1> QED
  BY <1>6, <1>7

(* What a process and the handlers leave alone.                             *)
LEMMA OutsideKeeps ==
  ASSUME Open \/ Use \/ Close \/ Interrupt \/ HandlerRuns
  PROVE  UNCHANGED <<drv, run, text, bus, bound, binds, cls, gpk, arrays, slot,
                     cnt, loads, failed>>
  BY DEF Open, Use, Close, Interrupt, HandlerRuns, Calls, Handles, runVars,
     busVars, slotVars

(* What the kernel holds after them.                                        *)
LEMMA OutsideHolds ==
  /\ Open \/ Use => held' = held \/ held' = held \cup Mapped
  /\ Close => held' = held
  /\ Interrupt => \/ held' = held
                  \/ \E h \in held :
                       /\ h[1] = "line"
                       /\ held' = held \cup {<<s, h[2], h[3]>> : s \in D.starts}
  /\ HandlerRuns => \/ held' = held
                    \/ \E h \in held :
                         h[1] \in PerKey \ {"line"} /\ held' = held \ {h}
<1>1. Open \/ Use => held' = held \/ held' = held \cup Mapped
  BY DEF Open, Use, Calls
<1>2. Close => held' = held
  BY DEF Close
<1>3. Interrupt => \/ held' = held
                   \/ \E h \in held :
                        /\ h[1] = "line"
                        /\ held' = held \cup {<<s, h[2], h[3]>> : s \in D.starts}
  BY Zenon DEF Interrupt, Handles
<1>4. HandlerRuns => \/ held' = held
                     \/ \E h \in held :
                          h[1] \in PerKey \ {"line"} /\ held' = held \ {h}
  BY Zenon DEF HandlerRuns, Handles
<1> QED
  BY <1>1, <1>2, <1>3, <1>4

(* Who is inside, and whether the kernel goes on.                           *)
LEMMA OutsideGoes ==
  ASSUME Open \/ Use \/ Close \/ Interrupt \/ HandlerRuns
  PROVE  /\ user' = user \/ user' \in {"outside", "inside"}
         /\ ~oops /\ (oops' = oops \/ oops' \in BOOLEAN)
  BY DEF Open, Use, Close, Interrupt, HandlerRuns, Calls, Handles

(* Processes, interrupts and handlers change no program.                    *)
LEMMA OutsideTypes ==
  ASSUME Positions, DataTypes, Open \/ Use \/ Close \/ Interrupt \/ HandlerRuns
  PROVE  Positions' /\ DataTypes'
<1>1. /\ UNCHANGED <<drv, runVars, busVars, arrays, gpk, cls, slotVars, failed>>
      /\ user' \in {"outside", "inside"} /\ oops' \in BOOLEAN
  BY OutsideKeeps, OutsideGoes DEF runVars, busVars, slotVars, DataTypes
<1>2. Positions'
  BY <1>1 DEF Positions, RunProgram, BusProgram, runVars, busVars, D
<1>3. held' \subseteq Names \X Nat \X (0 .. arrays)
  <2>1. CASE held' = held \/ held' = held \cup Mapped \/ held' \subseteq held
    BY <2>1 DEF DataTypes, Mapped, Static, Names
  <2>2. ASSUME NEW h \in held, held' = held \cup {<<s, h[2], h[3]>> : s \in D.starts}
        PROVE  held' \subseteq Names \X Nat \X (0 .. arrays)
    <3>2. D.starts \subseteq Names
      BY DFits DEF Positions, Names
    <3>3. h[2] \in Nat /\ h[3] \in 0 .. arrays
      BY DEF DataTypes
    <3>4. {<<s, h[2], h[3]>> : s \in D.starts} \subseteq Names \X Nat \X (0 .. arrays)
      BY <3>2, <3>3
    <3> QED
      BY <2>2, <3>4 DEF DataTypes
  <2> QED
    BY <2>1, <2>2, OutsideHolds
<1>4. DataTypes'
  BY <1>1, <1>3 DEF DataTypes, slotVars, busVars, D
<1> QED
  BY <1>2, <1>4

(* Nothing runs at first.                                                   *)
LEMMA InitTypes ==
  ASSUME Init
  PROVE  Positions /\ DataTypes
<1>1. RunProgram = << >> /\ BusProgram = << >>
  BY DEF Init, RunProgram, BusProgram, Idle, BusIdle
<1>2. IsRest(<< >>, << >>)
  BY DEF IsRest
<1>3. Positions
  BY <1>1, <1>2 DEF Init, Positions, Idle, BusIdle
<1>4. MaxBinds[drv] \in Nat /\ CAP \in Nat
  BY LifeAssumption DEF Init
<1>5. slot \in [0 .. CAP - 1 -> D.devices \cup {0}] /\ bus.kind = "idle"
  BY DEF Init, BusIdle
<1>6. /\ held \subseteq Names \X Nat \X (0 .. arrays)
      /\ cls \in {"null", "ok", "err", "stale"}
      /\ user \in {"outside", "inside"} /\ failed \in BOOLEAN /\ oops \in BOOLEAN
  BY DEF Init
<1>7. /\ arrays \in Nat /\ gpk \in 0 .. arrays
      /\ cnt \in 0 .. binds /\ cnt <= CAP /\ binds \in 0 .. MaxBinds[drv]
  BY <1>4 DEF Init
<1>8. DataTypes
  BY <1>5, <1>6, <1>7 DEF DataTypes
<1> QED
  BY <1>3, <1>8

(* Every step keeps the places and the types.                               *)
LEMMA NextTypes ==
  ASSUME Positions, DataTypes, [Next]_vars
  PROVE  Positions' /\ DataTypes'
<1>1. CASE ModuleStep
  BY <1>1, StepTypes DEF ModuleStep, Prog
<1>2. CASE BusStep
  BY <1>2, StepTypes DEF BusStep, Prog
<1>3. CASE ModuleDone
  BY <1>3, ModuleDoneTypes
<1>4. CASE BusDone
  BY <1>4, BusDoneTypes
<1>5. CASE \E m \in {"m1", "m2"} : Load(m) \/ Unload(m)
  BY <1>5, LoadTypes, UnloadTypes
<1>6. CASE \E d \in D.devices : Bind(d) \/ Unbind(d)
  BY <1>6, BindTypes, UnbindTypes
<1>7. CASE Open \/ Use \/ Close \/ Interrupt \/ HandlerRuns
  BY <1>7, OutsideTypes
<1>8. CASE UNCHANGED vars
  BY <1>8 DEF vars, Positions, DataTypes, RunProgram, BusProgram, D
<1> QED
  BY <1>1, <1>2, <1>3, <1>4, <1>5, <1>6, <1>7, <1>8 DEF Next

(* What a driver has left to run is always a rest of what it began.         *)
THEOREM LifePositions == Spec => [](Positions /\ DataTypes)
<1>1. Init => Positions /\ DataTypes
  BY InitTypes
<1>2. Positions /\ DataTypes /\ [Next]_vars => (Positions /\ DataTypes)'
  BY NextTypes
<1> QED
  BY <1>1, <1>2, PTL DEF Spec

(* The types; and the slots in use stay inside their array: the store after *)
(* the last of them is the bad pointer LifeClass is about.                  *)
THEOREM LifeTypes == Spec => []TypeOK
<1>1. ASSUME Positions, DataTypes
      PROVE  TypeOK
  <2>1. \A h \in held : h[1] \in Names /\ h[2] \in Nat /\ h[3] \in 0 .. arrays
    BY <1>1 DEF DataTypes
  <2>2. cnt \in 0 .. CAP
    BY <1>1, LifeAssumption DEF DataTypes, Positions
  <2>3. \A s \in ToSet(run.prog \o bus.prog) : s.op \in Ops
    <3>1. run.prog \in Seq(StepSet) /\ bus.prog \in Seq(StepSet)
      BY <1>1 DEF Positions
    <3>2. run.prog \o bus.prog \in Seq(StepSet)
      BY <3>1
    <3>3. ToSet(run.prog \o bus.prog) \subseteq StepSet
      <4> DEFINE p == run.prog \o bus.prog
      <4>1. p \in Seq(StepSet)
        BY <3>2
      <4> HIDE DEF p
      <4>2. ToSet(p) \subseteq StepSet
        BY <4>1 DEF ToSet
      <4> QED
        BY <4>2 DEF p
    <3> QED
      BY <3>3 DEF StepSet
  <2> QED
    BY <1>1, <2>1, <2>2, <2>3 DEF TypeOK, Positions, DataTypes
<1> QED
  BY <1>1, LifePositions, PTL

-----------------------------------------------------------------------------
(* Devices are bound only while their module is there.                      *)

\* Programs that register no driver with the bus.
NoPdrv(p) ==
  \A i \in 1 .. Len(p) : p[i].op \in {"take", "need", "make"} => p[i].r # "pdrv"

\* What loads the module with the devices cannot fail; what unloads it first
\* unbinds them.  Nothing else registers a driver with the bus.
GuardFits(d) ==
  LET v == Driver[d]
      b == IF d \in TwoModules THEN "m2" ELSE "m1"
  IN  /\ \A m \in {"m1", "m2"} :
           /\ NoPdrv(v[m].exit)
           /\ v.devices = {} \/ m # b => NoPdrv(v[m].init)
      /\ NoPdrv(v.probe) /\ NoPdrv(v.remove)
      /\ v.devices # {} => /\ v[b].exit = <<Do("unbind"), Drop("pdrv", 0)>>
                           /\ \A i \in 1 .. Len(v[b].init) : v[b].init[i].op = "make"

(* Neither does one after another.                                          *)
LEMMA CatNoPdrv ==
  ASSUME NEW p \in Seq(StepSet), NEW q \in Seq(StepSet), NoPdrv(p), NoPdrv(q)
  PROVE  NoPdrv(p \o q)
<1>1. /\ Len(p \o q) = Len(p) + Len(q)
      /\ \A i \in 1 .. Len(p \o q) :
           \/ i \in 1 .. Len(p) /\ (p \o q)[i] = p[i]
           \/ i - Len(p) \in 1 .. Len(q) /\ (p \o q)[i] = q[i - Len(p)]
  OBVIOUS
<1> QED
  BY <1>1 DEF NoPdrv

(* Nor do the loops.                                                        *)
LEMMA LoopsNoPdrv ==
  \A p \in {For(NLeds, LedNode), For(NLeds, LedNodeGone), For(NKeys, KeyIrq),
            For(NKeys, KeyTimed), For(NKeys, FreeIrq), For(NKeys, FreeTimed),
            For(NKeys, FreeAll)} : NoPdrv(p) /\ p \in Seq(StepSet)
<1> DEFINE Good(s) == s.r # "pdrv"
<1>1. \A k : /\ Good(Take("node", k)) /\ Good(Drop("node", k)) /\ Good(Read)
             /\ \A r \in PerKey : /\ Good(Need(r, k, {})) /\ Good(Make(r, k))
                                  /\ Good(Drop(r, k)) /\ Good(Await(r, k))
  BY DEF Take, Drop, Need, Make, Await, Read, Step, PerKey
<1>2. ASSUME NEW k \in Nat
      PROVE  /\ \A c \in 1 .. 2 : Good(KeyIrq(k)[c]) /\ Good(FreeIrq(k)[c])
             /\ \A c \in 1 .. 3 : Good(KeyTimed(k)[c]) /\ Good(FreeTimed(k)[c])
             /\ \A c \in 1 .. 4 : Good(FreeAll(k)[c])
  BY <1>1 DEF KeyIrq, FreeIrq, KeyTimed, FreeTimed, FreeAll, PerKey
<1> HIDE DEF Good
<1>3. NKeys * 2 \in Nat /\ NKeys * 3 \in Nat /\ NKeys * 4 \in Nat
  BY ProgramsAssumption
<1>4. \A j \in 1 .. NKeys * 2 : /\ Good(For(NKeys, KeyIrq)[j])
                                /\ Good(For(NKeys, FreeIrq)[j])
  BY Loops, Grid, <1>2, ProgramsAssumption
<1>5. \A j \in 1 .. NKeys * 3 : /\ Good(For(NKeys, KeyTimed)[j])
                                /\ Good(For(NKeys, FreeTimed)[j])
  BY Loops, Grid, <1>2, ProgramsAssumption
<1>6. \A j \in 1 .. NKeys * 4 : Good(For(NKeys, FreeAll)[j])
  BY Loops, Grid, <1>2, ProgramsAssumption
<1>7. \A j \in 1 .. NLeds : /\ Good(For(NLeds, LedNode)[j])
                            /\ Good(For(NLeds, LedNodeGone)[j])
  BY Loops, <1>1, ProgramsAssumption
<1>8. ASSUME NEW n \in Nat, NEW f, f = [j \in 1 .. n |-> f[j]],
             \A j \in 1 .. n : Good(f[j])
      PROVE  NoPdrv(f)
  BY <1>8 DEF Good, NoPdrv
<1>9. NoPdrv(For(NLeds, LedNode)) /\ NoPdrv(For(NLeds, LedNodeGone))
  BY <1>7, <1>8, Loops, ProgramsAssumption
<1>10. NoPdrv(For(NKeys, KeyIrq)) /\ NoPdrv(For(NKeys, FreeIrq))
  BY <1>3, <1>4, <1>8, Loops
<1>11. NoPdrv(For(NKeys, KeyTimed)) /\ NoPdrv(For(NKeys, FreeTimed))
  BY <1>3, <1>5, <1>8, Loops
<1>12. NoPdrv(For(NKeys, FreeAll))
  BY <1>3, <1>6, <1>8, Loops
<1> QED
  BY <1>9, <1>10, <1>11, <1>12, LoopsFit DEF ModuleFits

(* Nor do the key drivers.                                                  *)
LEMMA KeysNoPdrv ==
  /\ \A s \in Stages : NoPdrv(keys_probe[s]) /\ NoPdrv(keys_remove[s])
  /\ NoPdrv(led_init02) /\ NoPdrv(led_exit02)
<1>1. \A p \in {Begin, Nodes, NoNodes, keys_remove01} : NoPdrv(p)
  BY DEF NoPdrv, Begin, Nodes, NoNodes, Read, Do, Need, Take, Drop, Step, keys_remove01
<1>2. \A p \in {Begin, Nodes, NoNodes} : p \in Seq(StepSet)
  BY LoopedFit DEF ModuleFits
<1>3. NoPdrv(keys_probe01) /\ keys_probe01 \in Seq(StepSet)
  BY <1>1, <1>2, LoopsNoPdrv, CatNoPdrv, LoopedFit DEF keys_probe01, ProbeFits
<1>4. NoPdrv(keys_probe02)
  BY <1>1, <1>2, <1>3, CatNoPdrv DEF keys_probe02, keys_probe01
<1>5. NoPdrv(keys_probe07)
  <2>1. NoPdrv(Begin \o For(NKeys, KeyTimed)) /\ Begin \o For(NKeys, KeyTimed) \in Seq(StepSet)
    BY <1>1, <1>2, LoopsNoPdrv, CatNoPdrv
  <2> QED
    BY <2>1, <1>1, <1>2, CatNoPdrv DEF keys_probe07
<1>6. NoPdrv(keys_remove02) /\ NoPdrv(keys_remove07) /\ NoPdrv(keys_remove08)
  BY <1>1, <1>2, LoopsNoPdrv, CatNoPdrv DEF keys_remove02, keys_remove07, keys_remove08
<1>7. NoPdrv(led_init02) /\ NoPdrv(led_exit02)
  <2> DEFINE a == <<Take("chrdev", 0), Need("class", 0, {"chrdev"}), Make("ops", 0)>>
             z == <<Drop("node", 0), Drop("class", 0), Drop("chrdev", 0)>>
  <2>1. /\ a \in Seq(StepSet) /\ z \in Seq(StepSet) /\ NoPdrv(a) /\ NoPdrv(z)
    BY DEF NoPdrv, Make, Need, Take, Drop, Step, StepSet, Ops, Wares, Names
  <2> HIDE DEF a, z
  <2>2. NoPdrv(a \o For(NLeds, LedNode)) /\ NoPdrv(For(NLeds, LedNodeGone) \o z)
    BY <2>1, LoopsNoPdrv, CatNoPdrv
  <2> QED
    BY <2>2 DEF a, z, led_init02, led_exit02
<1> QED
  BY <1>1, <1>3, <1>4, <1>5, <1>6, <1>7, KeyProgramsAre

(* Every driver keeps to that.                                              *)
LEMMA DriversGuard == \A d \in DOMAIN Driver : GuardFits(d)
<1>1. ASSUME NEW p, NEW q, NoPdrv(p), NoPdrv(q), NEW d, Driver[d] = Simple(p, q)
      PROVE  GuardFits(d)
  BY <1>1 DEF GuardFits, Simple, Module, NoPdrv
<1>2. GuardFits("hello01")
  <2>1. NoPdrv(hello_init01) /\ NoPdrv(hello_exit01)
    BY DEF NoPdrv, hello_init01, hello_exit01, Take, Need,
       Make, Drop, Step
  <2> QED
    BY <2>1, <1>1, CharDriverIs
<1>3. GuardFits("hello01b")
  <2>1. NoPdrv(hello_init01b) /\ NoPdrv(hello_exit01b)
    BY DEF NoPdrv, hello_init01b, hello_exit01b, Take, Need,
       Make, Drop, Step
  <2> QED
    BY <2>1, <1>1, CharDriverIs
<1>4. GuardFits("hello07")
  <2>1. NoPdrv(hello_init07) /\ NoPdrv(hello_exit07)
    BY DEF NoPdrv, hello_init07, hello_exit07, hello_exit01, Take, Need,
       Make, Drop, Step
  <2> QED
    BY <2>1, <1>1, CharDriverIs
<1>5. GuardFits("led_simple")
  <2>1. NoPdrv(led_init_simple) /\ NoPdrv(led_exit_simple)
    BY DEF NoPdrv, led_init_simple, led_exit_simple, hello_exit01, Take, Need,
       Make, Drop, Step
  <2> QED
    BY <2>1, <1>1, CharDriverIs
<1>6. GuardFits("led_imx6ull")
  <2>1. NoPdrv(led_init_imx6ull) /\ NoPdrv(led_exit_imx6ull)
    BY DEF NoPdrv, led_init_imx6ull, led_exit_imx6ull, hello_exit01, Take, Need,
       Make, Drop, Step
  <2> QED
    BY <2>1, <1>1, CharDriverIs
<1>7. GuardFits("led_stm32mp157")
  <2>1. NoPdrv(led_init_stm32mp157) /\ NoPdrv(led_exit_stm32mp157)
    BY DEF NoPdrv, led_init_stm32mp157, led_exit_stm32mp157, hello_exit01, Take, Need,
       Make, Drop, Step
  <2> QED
    BY <2>1, <1>1, CharDriverIs
<1>8. GuardFits("led01")
  <2>1. NoPdrv(led_init01) /\ NoPdrv(led_exit01)
    BY DEF NoPdrv, led_init01, led_exit01, Take, Need,
       Make, Drop, Step
  <2> QED
    BY <2>1, <1>1, CharDriverIs
<1>9. GuardFits("led02")
  BY <1>1, CharDriverIs, KeysNoPdrv
<1>10. GuardFits("led03")
  <2>1. NoPdrv(led_init03) /\ NoPdrv(led_exit03)
    BY DEF NoPdrv, led_init03, led_init01, led_exit03, led_exit01, Take, Need,
       Make, Drop, Step
  <2> QED
    BY <2>1, <1>1, CharDriverIs
<1>11. NoPdrv(<< >>)
  BY DEF NoPdrv
<1>12. NoPdrv(led_init04)
  BY DEF NoPdrv, led_init04, Take, Need, Make, Drop, Do, Step
<1>13. NoPdrv(led_exit04)
  BY DEF NoPdrv, led_exit04, Take, Need, Make, Drop, Do, Step
<1>14. NoPdrv(led_drv_exit04)
  BY DEF NoPdrv, led_drv_exit04, Take, Need, Make, Drop, Do, Step
<1>15. NoPdrv(led_drv_probe04)
  BY DEF NoPdrv, led_drv_probe04, led_class_create_dev04, Take, Need, Make, Drop, Do, Step
<1>16. NoPdrv(led_drv_remove04)
  BY DEF NoPdrv, led_drv_remove04, Take, Need, Make, Drop, Do, Step
<1>17. NoPdrv(led_drv_probe05)
  BY DEF NoPdrv, led_drv_probe05, Take, Need, Make, Drop, Do, Step
<1>18. NoPdrv(led_drv_remove05)
  BY DEF NoPdrv, led_drv_remove05, Take, Need, Make, Drop, Do, Step
<1>19. NoPdrv(button_remove)
  BY DEF NoPdrv, button_remove, Take, Need, Make, Drop, Do, Step
<1>20. NoPdrv(gpio_led_exit)
  BY DEF NoPdrv, gpio_led_exit, Take, Need, Make, Drop, Do, Step
<1>21. NoPdrv(gpio_led_probe)
  BY DEF NoPdrv, gpio_led_probe, Take, Need, Make, Drop, Do, Step
<1>22. NoPdrv(gpio_led_remove)
  BY DEF NoPdrv, gpio_led_remove, Take, Need, Make, Drop, Do, Step
<1>23. /\ \A i \in 1 .. Len(led_drv_init04) : led_drv_init04[i].op = "make"
      /\ \A i \in 1 .. Len(gpio_led_init) : gpio_led_init[i].op = "make"
  BY DEF led_drv_init04, gpio_led_init, Make, Step
<1>24. /\ led_drv_exit04 = <<Do("unbind"), Drop("pdrv", 0)>>
      /\ gpio_led_exit = <<Do("unbind"), Drop("pdrv", 0)>>
  BY DEF led_drv_exit04, gpio_led_exit
<1>25. ASSUME NEW d, NEW b \in {"m1", "m2"}, b = IF d \in TwoModules THEN "m2" ELSE "m1",
             NEW o \in {"m1", "m2"}, o # b, Driver[d].devices # {},
             NoPdrv(Driver[d][b].exit), NoPdrv(Driver[d][o].exit),
             NoPdrv(Driver[d][o].init), NoPdrv(Driver[d].probe),
             NoPdrv(Driver[d].remove),
             Driver[d][b].exit = <<Do("unbind"), Drop("pdrv", 0)>>,
             \A i \in 1 .. Len(Driver[d][b].init) : Driver[d][b].init[i].op = "make"
      PROVE  GuardFits(d)
  BY <1>25 DEF GuardFits
<1>26. GuardFits("led04")
  <2>1. LET v == Driver["led04"]
        IN  /\ v.m1 = Module(led_init04, led_exit04)
            /\ v.m2 = Module(led_drv_init04, led_drv_exit04)
            /\ v.probe = led_drv_probe04 /\ v.remove = led_drv_remove04
            /\ v.devices # {}
    BY BusDriverIs DEF OnBus
  <2>2. LET v == Driver["led04"]
        IN  /\ v["m1"].init = led_init04 /\ v["m1"].exit = led_exit04
            /\ v["m2"].init = led_drv_init04 /\ v["m2"].exit = led_drv_exit04
    BY <2>1 DEF Module
  <2>3. "m2" = IF "led04" \in TwoModules THEN "m2" ELSE "m1"
    BY DEF TwoModules
  <2>4. LET v == Driver["led04"]
        IN  NoPdrv(v["m2"].exit) /\ NoPdrv(v["m1"].exit) /\ NoPdrv(v["m1"].init)
    BY <2>2, <1>12, <1>13, <1>14
  <2>5. NoPdrv(Driver["led04"].probe) /\ NoPdrv(Driver["led04"].remove)
    BY <2>1, <1>15, <1>16
  <2>6. Driver["led04"]["m2"].exit = <<Do("unbind"), Drop("pdrv", 0)>>
    BY <2>2, <1>24, Zenon
  <2>7. LET p == Driver["led04"]["m2"].init
        IN  \A i \in 1 .. Len(p) : p[i].op = "make"
    BY <2>2, <1>23
  <2> QED
    BY <2>1, <2>3, <2>4, <2>5, <2>6, <2>7, <1>25
<1>27. GuardFits("led05")
  <2>1. LET v == Driver["led05"]
        IN  /\ v.m1 = Module(led_init04, led_exit04)
            /\ v.m2 = Module(led_drv_init04, led_drv_exit04)
            /\ v.probe = led_drv_probe05 /\ v.remove = led_drv_remove05
            /\ v.devices # {}
    BY BusDriverIs DEF OnBus
  <2>2. LET v == Driver["led05"]
        IN  /\ v["m1"].init = led_init04 /\ v["m1"].exit = led_exit04
            /\ v["m2"].init = led_drv_init04 /\ v["m2"].exit = led_drv_exit04
    BY <2>1 DEF Module
  <2>3. "m2" = IF "led05" \in TwoModules THEN "m2" ELSE "m1"
    BY DEF TwoModules
  <2>4. LET v == Driver["led05"]
        IN  NoPdrv(v["m2"].exit) /\ NoPdrv(v["m1"].exit) /\ NoPdrv(v["m1"].init)
    BY <2>2, <1>12, <1>13, <1>14
  <2>5. NoPdrv(Driver["led05"].probe) /\ NoPdrv(Driver["led05"].remove)
    BY <2>1, <1>17, <1>18
  <2>6. Driver["led05"]["m2"].exit = <<Do("unbind"), Drop("pdrv", 0)>>
    BY <2>2, <1>24, Zenon
  <2>7. LET p == Driver["led05"]["m2"].init
        IN  \A i \in 1 .. Len(p) : p[i].op = "make"
    BY <2>2, <1>23
  <2> QED
    BY <2>1, <2>3, <2>4, <2>5, <2>6, <2>7, <1>25
<1>28. GuardFits("button")
  <2>1. LET v == Driver["button"]
        IN  /\ v.m1 = Module(led_init04, led_exit04)
            /\ v.m2 = Module(led_drv_init04, led_drv_exit04)
            /\ v.probe = led_drv_probe05 /\ v.remove = button_remove
            /\ v.devices # {}
    BY BusDriverIs DEF OnBus
  <2>2. LET v == Driver["button"]
        IN  /\ v["m1"].init = led_init04 /\ v["m1"].exit = led_exit04
            /\ v["m2"].init = led_drv_init04 /\ v["m2"].exit = led_drv_exit04
    BY <2>1 DEF Module
  <2>3. "m2" = IF "button" \in TwoModules THEN "m2" ELSE "m1"
    BY DEF TwoModules
  <2>4. LET v == Driver["button"]
        IN  NoPdrv(v["m2"].exit) /\ NoPdrv(v["m1"].exit) /\ NoPdrv(v["m1"].init)
    BY <2>2, <1>12, <1>13, <1>14
  <2>5. NoPdrv(Driver["button"].probe) /\ NoPdrv(Driver["button"].remove)
    BY <2>1, <1>17, <1>19
  <2>6. Driver["button"]["m2"].exit = <<Do("unbind"), Drop("pdrv", 0)>>
    BY <2>2, <1>24, Zenon
  <2>7. LET p == Driver["button"]["m2"].init
        IN  \A i \in 1 .. Len(p) : p[i].op = "make"
    BY <2>2, <1>23
  <2> QED
    BY <2>1, <2>3, <2>4, <2>5, <2>6, <2>7, <1>25
<1>29. GuardFits("gpio_led")
  <2>1. LET v == Driver["gpio_led"]
        IN  /\ v.m1 = Module(gpio_led_init, gpio_led_exit)
            /\ v.m2 = Module(<< >>, << >>)
            /\ v.probe = gpio_led_probe /\ v.remove = gpio_led_remove
            /\ v.devices # {}
    BY BusDriverIs DEF OnBus
  <2>2. LET v == Driver["gpio_led"]
        IN  /\ v["m1"].init = gpio_led_init /\ v["m1"].exit = gpio_led_exit
            /\ v["m2"].init = << >> /\ v["m2"].exit = << >>
    BY <2>1 DEF Module
  <2>3. "m1" = IF "gpio_led" \in TwoModules THEN "m2" ELSE "m1"
    BY DEF TwoModules
  <2>4. LET v == Driver["gpio_led"]
        IN  NoPdrv(v["m1"].exit) /\ NoPdrv(v["m2"].exit) /\ NoPdrv(v["m2"].init)
    BY <2>2, <1>20, <1>11
  <2>5. NoPdrv(Driver["gpio_led"].probe) /\ NoPdrv(Driver["gpio_led"].remove)
    BY <2>1, <1>21, <1>22
  <2>6. Driver["gpio_led"]["m1"].exit = <<Do("unbind"), Drop("pdrv", 0)>>
    BY <2>2, <1>24, Zenon
  <2>7. LET p == Driver["gpio_led"]["m1"].init
        IN  \A i \in 1 .. Len(p) : p[i].op = "make"
    BY <2>2, <1>23
  <2> QED
    BY <2>1, <2>3, <2>4, <2>5, <2>6, <2>7, <1>25
<1>30. ASSUME NEW d \in KeyDrivers
      PROVE  GuardFits(d)
  <2> DEFINE s == StageOf[d]
  <2>1. s \in Stages /\ Driver[d] = KeyDriverOf(s) /\ d \notin TwoModules
    BY KeyDriverIs DEF KeyDrivers, TwoModules
  <2> HIDE DEF s
  <2>2. NoPdrv(keys_driver01.exit) /\ NoPdrv(<< >>)
        /\ keys_driver01.exit = <<Do("unbind"), Drop("pdrv", 0)>>
        /\ \A i \in 1 .. Len(keys_driver01.init) : keys_driver01.init[i].op = "make"
    BY DEF NoPdrv, keys_driver01, Do, Drop, Make, Step
  <2> QED
    BY <2>1, <2>2, KeyFields, KeysNoPdrv DEF GuardFits
<1> QED
  BY <1>2, <1>3, <1>4, <1>5, <1>6, <1>7, <1>8, <1>9, <1>10, <1>26, <1>27, <1>28, <1>29, <1>30,
     DriverNames

(* What a step adds to what is held.                                        *)
LEMMA HeldGrows ==
  ASSUME Positions, DataTypes, NEW c \in {"run", "bus"}, Prog(c) # << >>, StepOf(c),
         NEW h \in held', h \notin held
  PROVE  LET s == Head(Prog(c))
         IN  \/ /\ s.op \in {"take", "need", "make"} /\ h = Named(s.r, s.i)
                /\ GoesOn(c) /\ (s.op # "make" => CanTake(s.r, s.i))
             \/ s.op = "kzalloc" /\ h = <<"array", 0, arrays + 1>> /\ GoesOn(c)
             \/ /\ s.op \in {"node_of_next_slot", "clear_slot"} /\ GoesOn(c)
                /\ \E i : h = Static("node", i)
<1> DEFINE s == Head(Prog(c))
<1>1. CASE s.op \in {"take", "need"}
  <2>1. Got(c, s) \/ Refused(c, s)
    BY <1>1 DEF StepOf
  <2>2. Got(c, s)
    BY <2>1 DEF Refused
  <2> QED
    BY <1>1, <2>2 DEF Got
<1>2. CASE s.op = "make"
  BY <1>2 DEF StepOf, Made
<1>3. CASE s.op = "kzalloc"
  BY <1>3 DEF StepOf, KeysAllocated
<1>4. CASE s.op = "node_of_next_slot"
  BY <1>4 DEF StepOf, SlotNode
<1>5. CASE s.op = "clear_slot"
  <2>1. SlotCleared(c)
    BY <1>5 DEF StepOf
  <2>2. Match # {}
    BY <2>1 DEF SlotCleared
  <2>3. \E i : held' \in {held, held \cup {Static("node", i)}}
    BY <2>1, <2>2 DEF SlotCleared
  <2> QED
    BY <2>1, <2>3, <1>5 DEF SlotCleared
<1>6. CASE s.op \notin {"take", "need", "make", "kzalloc", "node_of_next_slot", "clear_slot"}
  BY <1>6 DEF StepOf, Dropped, Awaited, PropertyRead, KeysFreed, Nothing, SlotAdded,
     SlotsReset, SlotsSwept, Unbound
<1> QED
  BY <1>1, <1>2, <1>3, <1>4, <1>5, <1>6

(* What a step takes away.                                                  *)
LEMMA HeldShrinks ==
  ASSUME Positions, DataTypes, NEW c \in {"run", "bus"}, Prog(c) # << >>, StepOf(c),
         NEW h \in held, h \notin held'
  PROVE  LET s == Head(Prog(c))
         IN  \/ /\ s.op \in {"take", "need"} /\ Refused(c, s)
                /\ \E u \in s.undo : h = Static(u, 0)
             \/ s.op = "drop" /\ h = Named(s.r, s.i) /\ GoesOn(c)
             \/ s.op = "kfree" /\ h = <<"array", 0, gpk>> /\ GoesOn(c)
<1> DEFINE s == Head(Prog(c))
<1>1. CASE s.op \in {"take", "need"}
  <2>1. Got(c, s) \/ Refused(c, s)
    BY <1>1 DEF StepOf
  <2>2. Refused(c, s)
    BY <2>1 DEF Got
  <2> QED
    BY <1>1, <2>2 DEF Refused
<1>2. CASE s.op = "drop"
  BY <1>2 DEF StepOf, Dropped
<1>3. CASE s.op = "kfree"
  BY <1>3 DEF StepOf, KeysFreed
<1>4. CASE s.op = "clear_slot"
  <2>1. held' = held \/ \E i : held' \in {held, held \cup {Static("node", i)}}
    BY <1>4 DEF StepOf, SlotCleared
  <2> QED
    BY <2>1
<1>5. CASE s.op \notin {"take", "need", "drop", "kfree", "clear_slot"}
  BY <1>5 DEF StepOf, Made, Awaited, PropertyRead, KeysAllocated, Nothing, SlotNode,
     SlotAdded, SlotsReset, SlotsSwept, Unbound
<1> QED
  BY <1>1, <1>2, <1>3, <1>4, <1>5

Quiet == bound = {} /\ bus.kind = "idle"
PdrvHeld == Static("pdrv", 0) \in held

(* So is the chosen one.                                                    *)
LEMMA DGuard ==
  ASSUME drv \in Drivers
  PROVE  /\ BusModule \in {"m1", "m2"}
         /\ \A m \in {"m1", "m2"} :
              /\ NoPdrv(D[m].exit)
              /\ D.devices = {} \/ m # BusModule => NoPdrv(D[m].init)
         /\ NoPdrv(D.probe) /\ NoPdrv(D.remove)
         /\ D.devices # {} =>
              /\ D[BusModule].exit = <<Do("unbind"), Drop("pdrv", 0)>>
              /\ \A i \in 1 .. Len(D[BusModule].init) : D[BusModule].init[i].op = "make"
<1>1. drv \in DOMAIN Driver /\ GuardFits(drv)
  BY DriversGuard, DriversAssumption
<1>2. BusModule = (IF drv \in TwoModules THEN "m2" ELSE "m1")
  BY DEF BusModule
<1> QED
  BY <1>1, <1>2, Zenon DEF GuardFits, D

(* Only the module with the devices registers with the bus.                 *)
LEMMA PdrvComes ==
  ASSUME Positions, DataTypes, [Next]_vars, ~PdrvHeld, PdrvHeld'
  PROVE  /\ ModuleStep /\ run.kind = "init" /\ run.mod = BusModule
         /\ D.devices # {} /\ GoesOn("run")
<1> DEFINE h == Static("pdrv", 0)
<1>1. h \in held' /\ h \notin held
  BY DEF PdrvHeld
<1>2. drv \in Drivers
  BY DEF Positions
<1>3. ASSUME NEW c \in {"run", "bus"}, Prog(c) # << >>, StepOf(c)
      PROVE  /\ c = "run" /\ run.kind = "init" /\ run.mod = BusModule
             /\ D.devices # {} /\ GoesOn(c)
  <2> DEFINE s == Head(Prog(c))
  <2>1. s.op \in {"take", "need", "make"} /\ h = Named(s.r, s.i) /\ GoesOn(c)
    BY <1>1, <1>3, HeldGrows DEF Static
  <2>2. s.r = "pdrv"
    BY <2>1 DEF Named, Static
  <2>3. Pos(c) \in 1 .. Len(Program(c)) /\ s = Program(c)[Pos(c)]
    BY <1>3, NextStep
  <2>4. ~NoPdrv(Program(c))
    BY <2>1, <2>2, <2>3 DEF NoPdrv
  <2>5. NoPdrv(BusProgram) /\ NoPdrv(<< >>)
    <3>1. NoPdrv(<< >>)
      BY DEF NoPdrv
    <3>2. NoPdrv(D.probe) /\ NoPdrv(D.remove)
      BY DGuard, <1>2
    <3> QED
      BY <3>1, <3>2 DEF BusProgram
  <2>6. c = "run" /\ ~NoPdrv(RunProgram)
    BY <2>4, <2>5, <1>3 DEF Program
  <2>7. run.kind = "init" /\ ~NoPdrv(D[run.mod].init)
    <3>1. run.mod \in {"m1", "m2"} /\ run.kind \in {"idle", "init", "exit"}
      BY DEF Positions
    <3>2. NoPdrv(D[run.mod].exit)
      BY <3>1, DGuard, <1>2
    <3> QED
      BY <2>5, <2>6, <3>1, <3>2 DEF RunProgram
  <2>8. run.mod = BusModule /\ D.devices # {}
    BY <2>7, DGuard, <1>2 DEF Positions
  <2> QED
    BY <2>1, <2>6, <2>7, <2>8
<1>4. CASE ModuleStep
  BY <1>3, <1>4 DEF ModuleStep, Prog
<1>5. CASE BusStep
  BY <1>3, <1>5 DEF BusStep, Prog
<1>6. CASE ModuleDone \/ BusDone \/ Close \/ HandlerRuns \/ UNCHANGED vars
  BY <1>1, <1>6, OutsideHolds DEF ModuleDone, BusDone, vars
<1>7. CASE Open \/ Use
  BY <1>1, <1>7, OutsideHolds DEF Static, Mapped
<1>8. CASE \E m \in {"m1", "m2"} : Load(m) \/ Unload(m)
  BY <1>1, <1>8 DEF Load, Unload
<1>9. CASE \E d \in D.devices : Bind(d) \/ Unbind(d)
  BY <1>1, <1>9 DEF Bind, Unbind
<1>10. CASE Interrupt
  <2>1. PICK g \in held : held' = held \cup {<<s, g[2], g[3]>> : s \in D.starts}
    BY <1>1, <1>10, OutsideHolds
  <2>2. "pdrv" \notin D.starts
    BY DFits, <1>2 DEF PerKey
  <2> QED
    BY <1>1, <2>1, <2>2 DEF Static
<1> QED
  BY <1>4, <1>5, <1>6, <1>8, <1>9, <1>10, <1>7 DEF Next

(* Nothing is bound or unbound while nothing is bound and the driver is not *)
(* registered, or is being unloaded.                                        *)
LEMMA QuietStays ==
  ASSUME Positions, DataTypes, [Next]_vars, Quiet,
         ~PdrvHeld \/ run.kind = "exit" \/ D.devices = {}
  PROVE  Quiet'
<1>1. bus.prog = << >>
  <2>1. BusProgram = << >> /\ IsRest(bus.prog, << >>)
    BY DEF Quiet, BusProgram, Positions
  <2> QED
    BY <2>1, EmptySeq DEF IsRest
<1>2. CASE ModuleStep
  <2>1. run.prog # << >> /\ StepOf("run") /\ drv' = drv
    BY <1>2 DEF ModuleStep
  <2>2. CASE GoesOn("run") \/ Fails("run")
    BY <2>2 DEF GoesOn, Fails, Quiet
  <2>3. CASE UNCHANGED <<run, bus, text, bound>>
    BY <2>3 DEF Quiet
  <2>4. CASE \E d \in bound : bus' = [dev |-> d, kind |-> "remove", prog |-> D.remove]
    BY <2>4 DEF Quiet
  <2> QED
    BY <2>1, <2>2, <2>3, <2>4, StepMoves DEF Prog
<1>3. CASE ModuleDone \/ Open \/ Use \/ Close \/ Interrupt \/ HandlerRuns \/ UNCHANGED vars
  BY <1>3, OutsideKeeps DEF ModuleDone, busVars, vars, Quiet
<1>4. CASE \E m \in {"m1", "m2"} : Load(m) \/ Unload(m)
  BY <1>4 DEF Load, Unload, Quiet
<1>5. CASE \E d \in D.devices : Bind(d) \/ Unbind(d)
  BY <1>5 DEF Bind, Unbind, Quiet, PdrvHeld
<1>6. ~BusStep /\ ~BusDone
  BY <1>1 DEF BusStep, BusDone, Quiet
<1> QED
  BY <1>2, <1>3, <1>4, <1>5, <1>6 DEF Next

\* A module is coming while its init runs and going while its exit does.
TextInv ==
  /\ \A m \in {"m1", "m2"} :
       m # run.mod \/ run.kind = "idle" => text[m] \in {"out", "live"}
  /\ run.kind = "init" => text[run.mod] = "coming"
  /\ run.kind = "exit" => text[run.mod] = "going"
  /\ text["m2"] # "out" => text["m1"] = "live" /\ drv \in TwoModules

\* The driver is registered only while its module is there, and unloading
\* unbinds every device before the registration goes.
BoundInv ==
  /\ text[BusModule] = "out" \/ D.devices = {} => Quiet /\ ~PdrvHeld
  /\ run.kind = "exit" /\ run.mod = BusModule /\ D.devices # {} =>
       /\ Pos("run") > 1 => Quiet
       /\ Pos("run") > 2 => ~PdrvHeld

(* What a module's step does to the modules.                                *)
LEMMA TextStays ==
  ASSUME Positions, DataTypes, [Next]_vars, TextInv
  PROVE  TextInv'
<1>1. CASE ModuleStep
  <2>1. Prog("run") # << >> /\ StepOf("run") /\ drv' = drv
    BY <1>1 DEF ModuleStep, Prog
  <2>2. CASE GoesOn("run")
    <3>1. run'.mod = run.mod /\ run'.kind = run.kind
      BY <2>1, <2>2, GoOn
    <3>2. text' = text
      BY <2>2 DEF GoesOn
    <3> QED
      BY <2>1, <3>1, <3>2 DEF TextInv
  <2>3. CASE Fails("run")
    <3>1. run' = Idle /\ text' = [text EXCEPT ![run.mod] = "out"]
      BY <2>3 DEF Fails
    <3>2. run.kind # "idle" /\ run.mod \in {"m1", "m2"} /\ run.kind \in {"idle", "init", "exit"}
      BY <2>1, NextStep DEF Positions
    <3> QED
      BY <2>1, <3>1, <3>2 DEF TextInv, Idle, Positions
  <2>4. CASE UNCHANGED <<run, text>>
    BY <2>1, <2>4 DEF TextInv
  <2> QED
    BY <2>1, <2>2, <2>3, <2>4, StepMoves
<1>2. CASE BusStep
  <2>1. Prog("bus") # << >> /\ StepOf("bus") /\ drv' = drv
    BY <1>2 DEF BusStep, Prog
  <2>2. UNCHANGED <<run, text>>
    BY <2>1, StepMoves DEF GoesOn, Fails
  <2> QED
    BY <2>1, <2>2 DEF TextInv
<1>3. CASE ModuleDone
  BY <1>3 DEF ModuleDone, TextInv, Idle, Positions
<1>4. CASE BusDone \/ Open \/ Use \/ Close \/ Interrupt \/ HandlerRuns \/ UNCHANGED vars
  BY <1>4, OutsideKeeps DEF BusDone, runVars, vars, TextInv
<1>5. CASE \E m \in {"m1", "m2"} : Load(m)
  BY <1>5 DEF Load, TextInv, Positions
<1>6. CASE \E m \in {"m1", "m2"} : Unload(m)
  BY <1>6 DEF Unload, Unpinned, TextInv, Positions
<1>7. CASE \E d \in D.devices : Bind(d) \/ Unbind(d)
  BY <1>7 DEF Bind, Unbind, runVars, TextInv
<1> QED
  BY <1>1, <1>2, <1>3, <1>4, <1>5, <1>6, <1>7 DEF Next

(* The module with the devices loads and unloads without failing.           *)
LEMMA BusModuleGoesOn ==
  ASSUME Positions, DataTypes, ModuleStep, run.mod = BusModule, D.devices # {}
  PROVE  LET s == Head(Prog("run"))
         IN  /\ run.kind = "init" => s.op = "make"
             /\ run.kind = "exit" =>
                  \/ Pos("run") = 1 /\ Unbound("run")
                  \/ Pos("run") = 2 /\ s = Drop("pdrv", 0) /\ Dropped("run", s)
             /\ text' = text
<1> DEFINE s == Head(Prog("run"))
<1>1. Prog("run") # << >> /\ StepOf("run") /\ drv' = drv
  BY DEF ModuleStep, Prog
<1>2. /\ Pos("run") \in 1 .. Len(RunProgram) /\ s = RunProgram[Pos("run")]
      /\ run.kind # "idle"
  BY <1>1, NextStep DEF Program
<1>3. drv \in Drivers /\ run.kind \in {"idle", "init", "exit"}
  BY DEF Positions
<1>4. ASSUME run.kind = "init"
      PROVE  s.op = "make"
  BY <1>2, <1>3, <1>4, DGuard DEF RunProgram
<1>5. ASSUME run.kind = "exit"
      PROVE  \/ Pos("run") = 1 /\ s.op = "unbind"
             \/ Pos("run") = 2 /\ s = Drop("pdrv", 0) /\ s.op = "drop"
  <2>1. RunProgram = <<Do("unbind"), Drop("pdrv", 0)>>
    BY <1>3, <1>5, DGuard DEF RunProgram
  <2>2. Do("unbind").op = "unbind" /\ Drop("pdrv", 0).op = "drop"
    BY DEF Do, Drop, Step
  <2> QED
    BY <1>2, <2>1, <2>2
<1>6. ASSUME s.op = "unbind"
      PROVE  Unbound("run") /\ text' = text
  BY <1>1, <1>6 DEF StepOf, Unbound, GoesOn
<1>7. ASSUME s.op = "drop"
      PROVE  Dropped("run", s) /\ text' = text
  BY <1>1, <1>7 DEF StepOf, Dropped, GoesOn
<1>8. ASSUME s.op = "make"
      PROVE  text' = text
  BY <1>1, <1>8 DEF StepOf, Made, GoesOn
<1> QED
  BY <1>2, <1>3, <1>4, <1>5, <1>6, <1>7, <1>8

(* Every step keeps what binding relies on.                                 *)
LEMMA BoundStays ==
  ASSUME Positions, DataTypes, [Next]_vars, TextInv, BoundInv
  PROVE  BoundInv'
<1>1. D' = D /\ BusModule' = BusModule /\ BusModule \in {"m1", "m2"} /\ drv \in Drivers
  <2>1. drv' = drv
    BY OutsideKeeps DEF Next, ModuleStep, BusStep, ModuleDone, BusDone, Load,
       Unload, Bind, Unbind, vars
  <2> QED
    BY <2>1, DGuard DEF D, BusModule, Positions
<1>2. ASSUME text[BusModule] = "out" \/ D.devices = {}
      PROVE  Quiet' /\ ~PdrvHeld'
  <2>1. Quiet /\ ~PdrvHeld
    BY <1>2 DEF BoundInv
  <2>2. Quiet'
    BY <2>1, QuietStays
  <2>3. ~PdrvHeld'
    BY <1>2, <2>1, PdrvComes DEF TextInv
  <2> QED
    BY <2>2, <2>3
<1>3. ASSUME text[BusModule] # "out", text'[BusModule] = "out", D.devices # {}
      PROVE  Quiet' /\ ~PdrvHeld'
  <2>1. CASE ModuleStep
    <3>1. CASE run.mod = BusModule
      BY <2>1, <3>1, <1>3, BusModuleGoesOn
    <3>2. CASE run.mod # BusModule
      <4>1. text' = text \/ text' = [text EXCEPT ![run.mod] = "out"]
        BY <2>1, StepMoves DEF ModuleStep, Prog, GoesOn, Fails
      <4> QED
        BY <4>1, <3>2, <1>1, <1>3 DEF Positions
    <3> QED
      BY <3>1, <3>2
  <2>2. CASE ModuleDone
    <3>1. run.mod = BusModule /\ run.kind = "exit" /\ run.prog = << >>
      BY <2>2, <1>1, <1>3 DEF ModuleDone, Positions
    <3>2. Pos("run") = 3
      <4>1. RunProgram = <<Do("unbind"), Drop("pdrv", 0)>>
        BY <3>1, <1>1, <1>3, DGuard DEF RunProgram
      <4>2. Len(RunProgram) = 2
        BY <4>1
      <4>3. Pos("run") = Len(RunProgram) - Len(run.prog) + 1
        BY DEF Pos, Program, Prog
      <4>4. Len(run.prog) = 0
        BY <3>1
      <4> HIDE DEF RunProgram
      <4> QED
        BY <4>2, <4>3, <4>4
    <3>3. Quiet /\ ~PdrvHeld
      BY <3>1, <3>2, <1>3 DEF BoundInv
    <3> QED
      BY <2>2, <3>3 DEF ModuleDone, Quiet, PdrvHeld
  <2>3. CASE ~ModuleStep /\ ~ModuleDone
    <3>1. BusStep => text' = text
      BY StepMoves DEF BusStep, Prog, GoesOn, Fails
    <3>2. text'[BusModule] = text[BusModule] \/ text'[BusModule] # "out"
      BY <2>3, <3>1, <1>1, OutsideKeeps DEF Next, BusDone, Load, Unload, Bind,
         Unbind, runVars, vars, Positions
    <3> QED
      BY <3>2, <1>3
  <2> QED
    BY <2>1, <2>2, <2>3
<1>4. ASSUME run'.kind = "exit", run'.mod = BusModule, D.devices # {}
      PROVE  /\ Pos("run")' > 1 => Quiet'
             /\ Pos("run")' > 2 => ~PdrvHeld'
  <2>1. CASE ModuleStep
    <3>1. Prog("run") # << >> /\ StepOf("run") /\ drv' = drv
      BY <2>1 DEF ModuleStep, Prog
    <3>2. run.kind = "exit" /\ run.mod = BusModule
      <4>1. CASE GoesOn("run")
        BY <3>1, <4>1, <1>4, GoOn
      <4>2. CASE Fails("run")
        BY <4>2, <1>4 DEF Fails, Idle
      <4>3. CASE run' = run
        BY <4>3, <1>4
      <4> QED
        BY <3>1, <4>1, <4>2, <4>3, StepMoves
    <3>3. CASE Pos("run") = 1 /\ Unbound("run")
      <4>1. CASE bound = {}
        <5>1. GoesOn("run") /\ bus.kind = "idle"
          BY <3>3, <4>1 DEF Unbound
        <5>2. Pos("run")' = 2 /\ bus' = bus
          BY <3>1, <3>3, <5>1, GoOn
        <5>3. Quiet'
          BY <4>1, <5>1, <5>2 DEF Quiet, GoesOn
        <5> QED
          BY <5>2, <5>3
      <4>2. CASE bound # {}
        <5>1. run' = run
          BY <3>3, <4>2 DEF Unbound
        <5>2. Pos("run")' = 1
          BY <5>1, <1>1, <3>3 DEF Pos, Program, Prog, RunProgram
        <5> QED
          BY <5>2
      <4> QED
        BY <4>1, <4>2
    <3>4. CASE Pos("run") = 2 /\ Dropped("run", Drop("pdrv", 0))
      <4>1. Quiet
        BY <3>2, <3>4, <1>4 DEF BoundInv
      <4>2. Quiet'
        BY <4>1, <3>2, QuietStays
      <4>3. held' = held \ {Static("pdrv", 0)}
        BY <3>4 DEF Dropped, Drop, Step, Named, PerKey
      <4> QED
        BY <4>2, <4>3 DEF PdrvHeld
    <3> QED
      BY <2>1, <3>2, <3>3, <3>4, <1>4, BusModuleGoesOn
  <2>2. CASE \E m \in {"m1", "m2"} : Unload(m)
    <3>1. Pos("run")' = 1
      <4>1. PICK m \in {"m1", "m2"} : run' = [mod |-> m, kind |-> "exit", prog |-> D[m].exit]
        BY <2>2 DEF Unload
      <4>2. RunProgram' = D[m].exit /\ run'.prog = D[m].exit
        BY <4>1, <1>1 DEF RunProgram
      <4>3. Len(D[m].exit) \in Nat
        BY DFits, <1>1 DEF ModuleFits
      <4> QED
        BY <4>2, <4>3 DEF Pos, Program, Prog
    <3> QED
      BY <3>1
  <2>3. CASE ~ModuleStep /\ ~ \E m \in {"m1", "m2"} : Unload(m)
    <3>1. BusStep => run' = run
      BY StepMoves DEF BusStep, Prog, GoesOn, Fails
    <3>2. run' = run
      BY <2>3, <3>1, <1>4, OutsideKeeps DEF Next, ModuleDone, Idle, BusDone, Load,
         Bind, Unbind, runVars, vars
    <3>3. Pos("run")' = Pos("run")
      BY <3>2, <1>1 DEF Pos, Program, Prog, RunProgram
    <3>4. Pos("run") > 1 => Quiet'
      BY <3>2, <1>4, QuietStays DEF BoundInv
    <3>5. Pos("run") > 2 => ~PdrvHeld'
      BY <2>3, <3>2, <1>4, PdrvComes DEF BoundInv
    <3> QED
      BY <3>3, <3>4, <3>5
  <2> QED
    BY <2>1, <2>2, <2>3
<1> QED
  BY <1>1, <1>2, <1>3, <1>4 DEF BoundInv

Guarded == Positions /\ DataTypes /\ TextInv /\ BoundInv

(* Devices are bound only while the module that serves them is there.       *)
THEOREM LifeGuarded == Spec => []Guarded
<1>1. Init => Guarded
  <2>1. ASSUME Init
        PROVE  TextInv /\ BoundInv
    <3>1. BusModule \in {"m1", "m2"}
      BY DEF BusModule
    <3> QED
      BY <2>1, <3>1 DEF Init, TextInv, BoundInv, Quiet, PdrvHeld, Idle, BusIdle
  <2> QED
    BY <2>1, InitTypes DEF Guarded
<1>2. Guarded /\ [Next]_vars => Guarded'
  BY NextTypes, TextStays, BoundStays DEF Guarded
<1> QED
  BY <1>1, <1>2, PTL DEF Spec

-----------------------------------------------------------------------------
(* The slots of led05 and of the buttons.                                   *)

\* Of the first n slots of f those in use name the devices of B, each once.
SlotsName(f, n, B) ==
  /\ \A i \in 0 .. n - 1 : f[i] # 0 => f[i] \in B
  /\ \A d \in B : \E i \in 0 .. n - 1 : f[i] = d
  /\ \A i, j \in 0 .. n - 1 : f[i] # 0 /\ f[i] = f[j] => i = j

\* While a device is probed its slot comes last; while it is removed its slot
\* goes first.
SlotInv ==
  drv \in {"led05", "button"} =>
    /\ bus.kind = "idle" => SlotsName(slot, cnt, bound)
    /\ bus.kind = "probe" =>
         /\ bus.dev \notin bound
         /\ Pos("bus") \in 1 .. 2 => SlotsName(slot, cnt, bound)
         /\ Pos("bus") = 3 => SlotsName(slot, cnt, bound \cup {bus.dev})
    /\ bus.kind = "remove" =>
         /\ bus.dev \in bound
         /\ Pos("bus") = 1 => SlotsName(slot, cnt, bound)
         /\ Pos("bus") > 1 => SlotsName(slot, cnt, bound \ {bus.dev})

(* The programs of the two drivers.                                         *)
LEMMA SlotDrivers ==
  ASSUME drv \in {"led05", "button"}
  PROVE  /\ D.devices = {1, 2} /\ BusModule = "m2" /\ D.failure = "unbound"
         /\ Len(D.probe) = 2 /\ D.probe[1].op = "node_of_next_slot"
         /\ D.probe[2].op = "add_slot"
         /\ drv = "led05" => /\ Len(D.remove) = 2 /\ D.remove[1].op = "clear_slot"
                             /\ D.remove[2].op = "reset_if_all_clear"
         /\ drv = "button" => /\ Len(D.remove) = 1
                              /\ D.remove[1].op = "clear_slot_and_look_on"
         /\ \A m \in {"m1", "m2"} : D[m].init \in Seq(StepSet) /\ D[m].exit \in Seq(StepSet)
<1>1. /\ D.devices = {1, 2} /\ D.probe = led_drv_probe05 /\ D.failure = "unbound"
      /\ D.remove = IF drv = "led05" THEN led_drv_remove05 ELSE button_remove
      /\ \A m \in {"m1", "m2"} : D[m] \in {Module(led_init04, led_exit04),
                                           Module(led_drv_init04, led_drv_exit04)}
  BY BusDriverIs DEF D, OnBus
<1>2. BusModule = "m2"
  BY DEF BusModule, TwoModules
<1>3. /\ Len(led_drv_probe05) = 2 /\ led_drv_probe05[1].op = "node_of_next_slot"
      /\ led_drv_probe05[2].op = "add_slot" /\ Len(led_drv_remove05) = 2
      /\ led_drv_remove05[1].op = "clear_slot"
      /\ led_drv_remove05[2].op = "reset_if_all_clear" /\ Len(button_remove) = 1
      /\ button_remove[1].op = "clear_slot_and_look_on"
  BY DEF led_drv_probe05, led_drv_remove05, button_remove, Do, Step
<1>4. \A m \in {"m1", "m2"} : D[m].init \in Seq(StepSet) /\ D[m].exit \in Seq(StepSet)
  BY <1>1, TuplesFit DEF Module, ModuleFits
<1> QED
  BY <1>1, <1>2, <1>3, <1>4

(* A new slot names the new device.                                         *)
LEMMA AddNames ==
  ASSUME NEW n \in Nat, NEW m \in Nat, n < m, NEW V, NEW f \in [0 .. m - 1 -> V],
         NEW B, SlotsName(f, n, B), NEW d, d \notin B, d # 0
  PROVE  SlotsName([f EXCEPT ![n] = d], n + 1, B \cup {d})
<1> DEFINE g == [f EXCEPT ![n] = d]
<1>1. /\ g[n] = d /\ \A i \in 0 .. n - 1 : g[i] = f[i]
      /\ \A i \in 0 .. (n + 1) - 1 : i = n \/ i \in 0 .. n - 1
      /\ n \in 0 .. (n + 1) - 1 /\ 0 .. n - 1 \subseteq 0 .. (n + 1) - 1
  OBVIOUS
<1> HIDE DEF g
<1>2. \A i \in 0 .. n - 1 : f[i] # d
  BY DEF SlotsName
<1>3. \A i \in 0 .. (n + 1) - 1 : g[i] # 0 => g[i] \in B \cup {d}
  BY <1>1 DEF SlotsName
<1>4. \A e \in B \cup {d} : \E i \in 0 .. (n + 1) - 1 : g[i] = e
  BY <1>1 DEF SlotsName
<1>5. \A i, j \in 0 .. (n + 1) - 1 : g[i] # 0 /\ g[i] = g[j] => i = j
  BY <1>1, <1>2 DEF SlotsName
<1>6. SlotsName(g, n + 1, B \cup {d})
  BY <1>3, <1>4, <1>5 DEF SlotsName
<1> QED
  BY <1>6 DEF g

(* Clearing the slot of a device leaves the others named.                   *)
LEMMA ClearNames ==
  ASSUME NEW n \in Nat, NEW f, NEW g, NEW B, SlotsName(f, n, B), 0 \notin B,
         NEW i \in 0 .. n - 1, f[i] \in B, g[i] = 0,
         \A j \in 0 .. n - 1 : j # i => g[j] = f[j]
  PROVE  SlotsName(g, n, B \ {f[i]})
<1>1. \A j \in 0 .. n - 1 : j # i => f[j] # f[i]
  BY DEF SlotsName
<1>2. \A j \in 0 .. n - 1 : g[j] # 0 => g[j] \in B \ {f[i]}
  BY <1>1 DEF SlotsName
<1>3. \A e \in B \ {f[i]} : \E j \in 0 .. n - 1 : g[j] = e
  <2>1. ASSUME NEW e \in B \ {f[i]}
        PROVE  \E j \in 0 .. n - 1 : g[j] = e
    <3>1. PICK j \in 0 .. n - 1 : f[j] = e
      BY DEF SlotsName
    <3> QED
      BY <3>1
  <2> QED
    BY <2>1
<1>4. \A j, k \in 0 .. n - 1 : g[j] # 0 /\ g[j] = g[k] => j = k
  BY DEF SlotsName
<1> QED
  BY <1>2, <1>3, <1>4 DEF SlotsName

(* No slot is in use: the counter may start again.                          *)
LEMMA NoNames ==
  ASSUME NEW n, NEW f, NEW B, SlotsName(f, n, B), 0 \notin B,
         \A i \in 0 .. n - 1 : f[i] = 0
  PROVE  B = {} /\ SlotsName(f, 0, B)
  BY DEF SlotsName

(* The slots that were not in use yet do not matter.                        *)
LEMMA NoneName == \A f : SlotsName(f, 0, {})
  BY DEF SlotsName
(* What the steps of probe and remove do to the slots.                      *)
LEMMA ProbeNames ==
  ASSUME Positions, DataTypes, SlotInv, drv \in {"led05", "button"},
         bus.kind = "probe", bus.prog # << >>, StepOf("bus"), drv' = drv
  PROVE  SlotInv'
<1> DEFINE s == Head(bus.prog)
<1>1. /\ Pos("bus") \in 1 .. Len(BusProgram) /\ s = BusProgram[Pos("bus")]
  BY NextStep DEF Prog, Program
<1>2. BusProgram = D.probe
  BY DEF BusProgram
<1>3. /\ Pos("bus") \in 1 .. 2
      /\ Pos("bus") = 1 => s.op = "node_of_next_slot"
      /\ Pos("bus") = 2 => s.op = "add_slot"
  BY <1>1, <1>2, SlotDrivers
<1>4. /\ Pos("bus") = 1 => SlotNode("bus")
      /\ Pos("bus") = 2 => SlotAdded("bus")
  BY <1>3 DEF StepOf, Prog
<1>5. cnt \in Nat /\ CAP \in Nat
  BY LifeAssumption DEF DataTypes, Positions
<1>6. CASE Pos("bus") = 2 /\ cnt >= CAP
  <2>1. UNCHANGED <<bus, bound, slot, cnt>>
    BY <1>4, <1>5, <1>6 DEF SlotAdded, slotVars
  <2>2. Pos("bus")' = Pos("bus")
    BY <2>1 DEF Pos, Program, Prog, BusProgram, D
  <2> QED
    BY <2>1, <2>2 DEF SlotInv
<1>7. ASSUME Pos("bus") = 1 \/ cnt < CAP
      PROVE  /\ Pos("bus")' = Pos("bus") + 1 /\ bus'.kind = "probe"
             /\ bus'.dev = bus.dev /\ bound' = bound
  <2>1. GoesOn("bus")
    BY <1>3, <1>4, <1>5, <1>7 DEF SlotNode, SlotAdded
  <2>2. bound' = bound
    BY <2>1 DEF GoesOn
  <2> QED
    BY <2>1, <2>2, GoOn DEF Prog
<1>8. SlotsName(slot, cnt, bound) /\ bus.dev \notin bound
  BY <1>3 DEF SlotInv
<1>9. CASE Pos("bus") = 1
  <2>1. slot' = slot /\ cnt' = cnt
    BY <1>4, <1>9 DEF SlotNode, slotVars
  <2> QED
    BY <1>7, <1>8, <1>9, <2>1 DEF SlotInv
<1>10. CASE Pos("bus") = 2 /\ cnt < CAP
  <2>1. slot' = [slot EXCEPT ![cnt] = bus.dev] /\ cnt' = cnt + 1
    BY <1>4, <1>5, <1>10 DEF SlotAdded
  <2>2. cnt \in Nat /\ CAP \in Nat /\ cnt < CAP
    BY <1>5, <1>10
  <2>3. slot \in [0 .. CAP - 1 -> D.devices \cup {0}]
    BY DEF DataTypes
  <2>4. bus.dev # 0
    <3>1. D.devices = {1, 2} /\ bus.dev \in D.devices
      BY SlotDrivers DEF Positions
    <3> QED
      BY <3>1
  <2>5. SlotsName(slot', cnt', bound \cup {bus.dev})
    BY <2>1, <2>2, <2>3, <2>4, <1>8, AddNames
  <2>6. /\ Pos("bus")' = 3 /\ bus'.kind = "probe"
        /\ bus'.dev = bus.dev /\ bound' = bound
    BY <1>7, <1>10
  <2> QED
    BY <2>5, <2>6, <1>8 DEF SlotInv
<1> QED
  BY <1>3, <1>5, <1>9, <1>10, <1>6

(* The slot of the device is found, and it alone is cleared.                *)
LEMMA TheSlot ==
  ASSUME Positions, DataTypes, drv \in {"led05", "button"},
         SlotsName(slot, cnt, bound), bus.dev \in bound
  PROVE  \E i \in 0 .. cnt - 1 :
           /\ slot[i] = bus.dev /\ Match = {i} /\ i \in DOMAIN slot
           /\ 0 \notin bound /\ 0 .. cnt - 1 \subseteq DOMAIN slot
<1>1. PICK i \in 0 .. cnt - 1 : slot[i] = bus.dev
  BY DEF SlotsName
<1>2. 0 \notin bound /\ bus.dev # 0
  BY SlotDrivers DEF Positions
<1>3. \A j \in 0 .. cnt - 1 : slot[j] = bus.dev => j = i
  BY <1>1, <1>2 DEF SlotsName
<1>4. Match = {i}
  BY <1>1, <1>3 DEF Match
<1>5. cnt \in Nat /\ CAP \in Nat /\ cnt <= CAP
  BY LifeAssumption DEF DataTypes, Positions
<1>6. DOMAIN slot = 0 .. CAP - 1
  BY DEF DataTypes
<1>7. 0 .. cnt - 1 \subseteq DOMAIN slot
  BY <1>5, <1>6
<1> QED
  BY <1>1, <1>2, <1>4, <1>7

(* What the remove of the button driver does.                               *)
LEMMA SweepNames ==
  ASSUME Positions, DataTypes, drv \in {"led05", "button"},
         SlotsName(slot, cnt, bound), bus.dev \in bound, SlotsSwept("bus")
  PROVE  SlotsName(slot', cnt', bound \ {bus.dev})
<1> DEFINE stop == {i \in Match : \E j \in Others : j < i}
           last == IF stop = {} THEN cnt
                   ELSE CHOOSE i \in stop : \A j \in stop : i <= j
<1>1. /\ slot' = [i \in DOMAIN slot |->
                    IF i \in Match /\ i <= last THEN 0 ELSE slot[i]]
      /\ cnt' = IF Others = {} THEN 0 ELSE cnt
  BY DEF SlotsSwept
<1>2. PICK i \in 0 .. cnt - 1 :
        /\ slot[i] = bus.dev /\ Match = {i} /\ i \in DOMAIN slot
        /\ 0 \notin bound /\ 0 .. cnt - 1 \subseteq DOMAIN slot
  BY TheSlot
<1>3. i <= last
  <2>1. CASE stop = {}
    <3>1. i <= cnt
      BY <1>2 DEF DataTypes
    <3> QED
      BY <2>1, <3>1
  <2>2. CASE stop # {}
    <3>1. stop = {i}
      BY <2>2, <1>2
    <3>2. i <= i
      BY <1>2 DEF DataTypes
    <3> HIDE DEF stop
    <3>3. (CHOOSE k \in stop : \A j \in stop : k <= j) \in stop
      BY <3>1, <3>2
    <3> QED
      BY <2>2, <3>1, <3>2, <3>3
  <2> QED
    BY <2>1, <2>2
<1> HIDE DEF last
<1>4. /\ slot'[i] = 0
      /\ \A j \in 0 .. cnt - 1 : j # i => slot'[j] = slot[j]
  BY <1>1, <1>2, <1>3
<1>5. SlotsName(slot', cnt, bound \ {bus.dev})
  <2>1. cnt \in Nat
    BY LifeAssumption DEF DataTypes, Positions
  <2> QED
    BY <1>2, <1>4, <2>1, ClearNames
<1>6. CASE Others = {}
  <2>1. \A j \in 0 .. cnt - 1 : slot[j] \in {0, bus.dev}
    BY <1>6 DEF Others
  <2>2. \A j \in 0 .. cnt - 1 : slot'[j] = 0
    <3>1. ASSUME NEW j \in 0 .. cnt - 1, j # i
          PROVE  slot'[j] = 0
      <4>1. slot[j] # bus.dev
        BY <1>2, <3>1 DEF Match
      <4> QED
        BY <4>1, <2>1, <1>4, <3>1
    <3> QED
      BY <3>1, <1>4
  <2>3. SlotsName(slot', 0, bound \ {bus.dev})
    BY <1>2, <1>5, <2>2, NoNames
  <2> QED
    BY <2>3, <1>1, <1>6
<1>7. CASE Others # {}
  BY <1>1, <1>5, <1>7
<1> QED
  BY <1>6, <1>7

(* What the steps of remove do.                                             *)
LEMMA RemoveNames ==
  ASSUME Positions, DataTypes, SlotInv, drv \in {"led05", "button"},
         bus.kind = "remove", bus.prog # << >>, StepOf("bus"), drv' = drv
  PROVE  SlotInv'
<1> DEFINE s == Head(bus.prog)
<1>1. /\ Pos("bus") \in 1 .. Len(BusProgram) /\ s = BusProgram[Pos("bus")]
  BY NextStep DEF Prog, Program
<1>2. BusProgram = D.remove
  BY DEF BusProgram
<1>3. \/ drv = "led05" /\ Pos("bus") = 1 /\ s.op = "clear_slot"
      \/ drv = "led05" /\ Pos("bus") = 2 /\ s.op = "reset_if_all_clear"
      \/ drv = "button" /\ Pos("bus") = 1 /\ s.op = "clear_slot_and_look_on"
  BY <1>1, <1>2, SlotDrivers
<1>4. /\ s.op = "clear_slot" => SlotCleared("bus")
      /\ s.op = "reset_if_all_clear" => SlotsReset("bus")
      /\ s.op = "clear_slot_and_look_on" => SlotsSwept("bus")
  BY DEF StepOf, Prog
<1>5. GoesOn("bus")
  BY <1>3, <1>4 DEF SlotCleared, SlotsReset, SlotsSwept
<1>6. /\ Pos("bus")' = Pos("bus") + 1 /\ bus'.kind = "remove" /\ bus'.dev = bus.dev
      /\ bound' = bound
  <2>1. bound' = bound
    BY <1>5 DEF GoesOn
  <2> QED
    BY <1>5, <2>1, GoOn DEF Prog
<1>7. /\ bus.dev \in bound
      /\ Pos("bus") = 1 => SlotsName(slot, cnt, bound)
      /\ Pos("bus") = 2 => SlotsName(slot, cnt, bound \ {bus.dev})
  BY DEF SlotInv
<1>8. ASSUME SlotsName(slot', cnt', bound \ {bus.dev})
      PROVE  SlotInv'
  BY <1>3, <1>6, <1>7, <1>8 DEF SlotInv
<1>9. CASE drv = "led05" /\ Pos("bus") = 1 /\ s.op = "clear_slot"
  <2>1. PICK i \in 0 .. cnt - 1 :
          /\ slot[i] = bus.dev /\ Match = {i} /\ i \in DOMAIN slot
          /\ 0 \notin bound /\ 0 .. cnt - 1 \subseteq DOMAIN slot
    BY <1>7, <1>9, TheSlot
  <2>2. cnt \in Nat
    BY LifeAssumption DEF DataTypes, Positions
  <2>3. (CHOOSE k \in Match : \A j \in Match : k <= j) = i
    <3>1. i <= i
      BY <2>1, <2>2
    <3> DEFINE M == Match
    <3>2. M = {i}
      BY <2>1
    <3> HIDE DEF M
    <3>3. (CHOOSE k \in M : \A j \in M : k <= j) \in M
      BY <3>1, <3>2
    <3>4. (CHOOSE k \in M : \A j \in M : k <= j) = i
      BY <3>2, <3>3
    <3> QED
      BY <3>4 DEF M
  <2>4. slot' = [slot EXCEPT ![i] = 0] /\ cnt' = cnt
    BY <2>1, <2>3, <1>4, <1>9 DEF SlotCleared
  <2>5. slot'[i] = 0 /\ \A j \in 0 .. cnt - 1 : j # i => slot'[j] = slot[j]
    BY <2>1, <2>4
  <2>6. SlotsName(slot', cnt, bound \ {bus.dev})
    BY <2>1, <2>2, <2>5, <1>7, <1>9, ClearNames
  <2> QED
    BY <2>4, <2>6, <1>8
<1>10. CASE drv = "led05" /\ Pos("bus") = 2 /\ s.op = "reset_if_all_clear"
  <2>1. slot' = slot /\ cnt' = IF \A i \in 0 .. cnt - 1 : slot[i] = 0 THEN 0 ELSE cnt
    BY <1>4, <1>10 DEF SlotsReset
  <2>2. 0 \notin bound
    BY SlotDrivers DEF Positions
  <2>3. SlotsName(slot', cnt', bound \ {bus.dev})
    BY <2>1, <2>2, <1>7, <1>10, NoNames
  <2> QED
    BY <2>3, <1>8
<1>11. CASE drv = "button" /\ Pos("bus") = 1 /\ s.op = "clear_slot_and_look_on"
  BY <1>4, <1>7, <1>8, <1>11, SweepNames
<1> QED
  BY <1>3, <1>9, <1>10, <1>11
(* Loading, and what a module runs, leave the slots true.                   *)
LEMMA ModuleNames ==
  ASSUME Guarded, SlotInv, drv \in {"led05", "button"}, ModuleStep
  PROVE  SlotInv'
<1>1. Prog("run") # << >> /\ StepOf("run") /\ drv' = drv /\ Positions
  BY DEF ModuleStep, Prog, Guarded
<1>2. Head(Prog("run")).op \notin SlotOps
  BY <1>1, NextStep
<1>3. UNCHANGED slotVars
  BY <1>1, <1>2 DEF StepOf, Got, Refused, Made, Dropped, Awaited, PropertyRead,
     KeysAllocated, KeysFreed, Nothing, Unbound, SlotOps, slotVars
<1>4. CASE UNCHANGED <<bus, bound>>
  <2>1. Pos("bus")' = Pos("bus")
    BY <1>1, <1>4 DEF Pos, Program, Prog, BusProgram, D
  <2> QED
    BY <1>1, <1>3, <1>4, <2>1 DEF SlotInv, slotVars
<1>5. ASSUME bus.kind = "idle", bound' = bound, NEW d \in bound,
             bus' = [dev |-> d, kind |-> "remove", prog |-> D.remove]
      PROVE  SlotInv'
  <2>1. SlotsName(slot', cnt', bound)
    BY <1>3, <1>5 DEF SlotInv, slotVars
  <2>2. Pos("bus")' = 1
    <3>1. D.remove \in Seq(StepSet)
      BY <1>1, DFits DEF Positions, RemoveFits
    <3>2. BusProgram' = D.remove /\ bus'.prog = D.remove
      BY <1>1, <1>5 DEF BusProgram, D
    <3> QED
      BY <3>1, <3>2 DEF Pos, Program, Prog
  <2> QED
    BY <1>5, <2>1, <2>2 DEF SlotInv
<1> QED
  BY <1>1, <1>4, <1>5, StepMoves DEF GoesOn, Fails

(* Loading the module clears the slots when nothing is bound.               *)
LEMMA LoadNames ==
  ASSUME Guarded, SlotInv, drv \in {"led05", "button"}, NEW m \in {"m1", "m2"}, Load(m)
  PROVE  SlotInv'
<1>1. UNCHANGED <<drv, bus, bound>>
  BY DEF Load
<1>2. Pos("bus")' = Pos("bus")
  BY <1>1 DEF Pos, Program, Prog, BusProgram, D
<1>3. CASE m = "m1"
  <2>1. slot' = slot /\ cnt' = cnt
    BY <1>3, SlotDrivers DEF Load
  <2> QED
    BY <1>1, <1>2, <2>1 DEF SlotInv
<1>4. CASE m = "m2"
  <2>1. cnt' = 0 /\ Quiet
    BY <1>4, SlotDrivers DEF Load, Guarded, BoundInv
  <2>2. SlotsName(slot', cnt', bound')
    BY <1>1, <2>1, NoneName DEF Quiet
  <2> QED
    BY <1>1, <2>1, <2>2 DEF SlotInv, Quiet
<1> QED
  BY <1>3, <1>4

(* The driver core begins a probe or a remove, or ends it.                  *)
LEMMA CoreNames ==
  ASSUME Guarded, SlotInv, drv \in {"led05", "button"},
         BusDone \/ \E d \in D.devices : Bind(d) \/ Unbind(d)
  PROVE  SlotInv'
<1>1. Positions /\ DataTypes
  BY DEF Guarded
<1>2. UNCHANGED <<drv, slot, cnt>> /\ D' = D
  BY DEF BusDone, Bind, Unbind, slotVars, D
<1>3. CASE BusDone
  <2>1. Pos("bus") = Len(BusProgram) + 1
    <3>1. Len(BusProgram) \in Nat
      BY <1>1, <1>3, DFits DEF BusDone, BusProgram, Positions, ProbeFits, RemoveFits
    <3>2. Len(bus.prog) = 0
      BY <1>3 DEF BusDone
    <3>3. Pos("bus") = Len(BusProgram) - Len(bus.prog) + 1
      BY DEF Pos, Program, Prog
    <3> QED
      BY <3>1, <3>2, <3>3
  <2>2. CASE bus.kind = "probe"
    <3>1. BusProgram = D.probe /\ Len(D.probe) = 2
      BY <2>2, SlotDrivers DEF BusProgram
    <3>2. Pos("bus") = 3
      BY <2>1, <3>1
    <3>3. SlotsName(slot, cnt, bound \cup {bus.dev})
      BY <2>2, <3>2 DEF SlotInv
    <3>4. bus' = BusIdle /\ bound' = bound \cup {bus.dev}
      BY <1>3, <2>2 DEF BusDone
    <3> QED
      BY <1>2, <3>3, <3>4 DEF SlotInv, BusIdle
  <2>3. CASE bus.kind = "remove"
    <3>1. BusProgram = D.remove /\ Len(D.remove) \in 1 .. 2
      BY <2>3, SlotDrivers DEF BusProgram
    <3>2. Pos("bus") > 1
      BY <2>1, <3>1
    <3>3. SlotsName(slot, cnt, bound \ {bus.dev})
      BY <2>3, <3>2 DEF SlotInv
    <3>4. bus' = BusIdle /\ bound' = bound \ {bus.dev}
      BY <1>3, <2>3 DEF BusDone
    <3> QED
      BY <1>2, <3>3, <3>4 DEF SlotInv, BusIdle
  <2>4. bus.kind \in {"probe", "remove"}
    BY <1>1, <1>3 DEF BusDone, Positions
  <2> QED
    BY <2>2, <2>3, <2>4
<1>4. ASSUME NEW d \in D.devices, NEW k \in {"probe", "remove"},
             bus' = [dev |-> d, kind |-> k,
                     prog |-> IF k = "probe" THEN D.probe ELSE D.remove]
      PROVE  bus'.kind = k /\ bus'.dev = d /\ Pos("bus")' = 1
  <2>1. D.probe \in Seq(StepSet) /\ D.remove \in Seq(StepSet)
    BY <1>1, DFits DEF Positions, ProbeFits, RemoveFits
  <2>2. BusProgram' = bus'.prog /\ Len(bus'.prog) \in Nat
    BY <1>2, <1>4, <2>1 DEF BusProgram
  <2> QED
    BY <1>4, <2>2 DEF Pos, Program, Prog
<1>5. ASSUME NEW d \in D.devices, Bind(d) \/ Unbind(d)
      PROVE  SlotInv'
  <2>1. /\ bus.kind = "idle" /\ bound' = bound
        /\ \/ d \notin bound /\ bus' = [dev |-> d, kind |-> "probe", prog |-> D.probe]
           \/ d \in bound /\ bus' = [dev |-> d, kind |-> "remove", prog |-> D.remove]
    BY <1>5 DEF Bind, Unbind
  <2> QED
    BY <1>2, <1>4, <2>1 DEF SlotInv
<1> QED
  BY <1>3, <1>5

(* No operation makes the slots name anything but the bound devices.        *)
LEMMA NextNames ==
  ASSUME Guarded, SlotInv, [Next]_vars
  PROVE  SlotInv'
<1>1. drv' = drv
  BY OutsideKeeps DEF Next, ModuleStep, BusStep, ModuleDone, BusDone, Load, Unload,
     Bind, Unbind, vars
<1>2. CASE drv \notin {"led05", "button"}
  BY <1>1, <1>2 DEF SlotInv
<1>3. CASE drv \in {"led05", "button"}
  <2>1. CASE ModuleStep
    BY <1>3, <2>1, ModuleNames
  <2>2. CASE BusStep
    <3>1. bus.prog # << >> /\ StepOf("bus") /\ Positions /\ DataTypes
      BY <2>2 DEF BusStep, Guarded
    <3>2. bus.kind \in {"probe", "remove"}
      BY <3>1, NextStep DEF Prog, Positions
    <3> QED
      BY <1>1, <1>3, <3>1, <3>2, ProbeNames, RemoveNames
  <2>3. CASE \E m \in {"m1", "m2"} : Load(m)
    BY <1>3, <2>3, LoadNames
  <2>4. CASE BusDone \/ \E d \in D.devices : Bind(d) \/ Unbind(d)
    BY <1>3, <2>4, CoreNames
  <2>5. CASE \/ ModuleDone \/ (\E m \in {"m1", "m2"} : Unload(m)) \/ Open \/ Use \/ Close
             \/ Interrupt \/ HandlerRuns \/ UNCHANGED vars
    <3>1. UNCHANGED <<bus, bound, slot, cnt>>
      BY <2>5, OutsideKeeps DEF ModuleDone, Unload, vars, busVars, slotVars
    <3>2. Pos("bus")' = Pos("bus")
      BY <1>1, <3>1 DEF Pos, Program, Prog, BusProgram, D
    <3> QED
      BY <1>1, <3>1, <3>2 DEF SlotInv
  <2> QED
    BY <2>1, <2>2, <2>3, <2>4, <2>5 DEF Next
<1> QED
  BY <1>2, <1>3

(* In whatever order devices come and go, the slots in use name the bound   *)
(* devices, each once: the counter is reset, and a slot cleared, only when  *)
(* no device that stays is lost.                                            *)
THEOREM LifeSlots == Spec => []SlotsNameBoundDevices
<1>1. Init => SlotInv
  BY NoneName DEF Init, BusIdle, SlotInv
<1>2. Guarded /\ SlotInv /\ [Next]_vars => SlotInv'
  BY NextNames
<1>3. ASSUME SlotInv, Guarded
      PROVE  SlotsNameBoundDevices
  <2>1. ASSUME drv \in {"led05", "button"}, bus.kind = "idle"
        PROVE  LET used == {i \in 0 .. cnt - 1 : slot[i] # 0}
               IN  /\ {slot[i] : i \in used} = bound
                   /\ \A i, j \in used : slot[i] = slot[j] => i = j
    <3> DEFINE used == {i \in 0 .. cnt - 1 : slot[i] # 0}
    <3>1. SlotsName(slot, cnt, bound)
      BY <1>3, <2>1 DEF SlotInv
    <3>2. \A i, j \in used : slot[i] = slot[j] => i = j
      BY <3>1 DEF SlotsName
    <3>3. {slot[i] : i \in used} = bound
      <4>1. 0 \notin bound
        BY <1>3, <2>1, SlotDrivers DEF Guarded, Positions
      <4>2. \A i \in used : slot[i] \in bound
        BY <3>1 DEF SlotsName
      <4>3. \A d \in bound : \E i \in used : slot[i] = d
        BY <3>1, <4>1 DEF SlotsName
      <4> QED
        BY <4>2, <4>3
    <3> QED
      BY <3>2, <3>3
  <2> QED
    BY <2>1 DEF SlotsNameBoundDevices
<1> QED
  BY <1>1, <1>2, <1>3, LifeGuarded, PTL DEF Spec

-----------------------------------------------------------------------------
(* What interrupts start reads memory that is there.                        *)

\* Code that has nothing to do with keys.
OtherCode(p) ==
  \A i \in 1 .. Len(p) :
    /\ p[i].op \notin {"kzalloc", "kfree"}
    /\ p[i].op \in {"take", "need", "make"} => p[i].r \notin PerKey

\* Modules have nothing to do with keys; only key drivers have.
OtherFits(d) ==
  LET v == Driver[d]
  IN  /\ \A m \in {"m1", "m2"} : OtherCode(v[m].init) /\ OtherCode(v[m].exit)
      /\ d \notin KeyDrivers => OtherCode(v.probe) /\ OtherCode(v.remove)

(* The programs that are written out.                                       *)
LEMMA OtherPrograms ==
  \A p \in {<<>>, hello_init01, hello_exit01, hello_init01b, hello_exit01b, hello_init07,
            led_init_simple, led_init_imx6ull, led_exit_imx6ull,
            led_init_stm32mp157, led_exit_stm32mp157, led_init01, led_exit01,
            led_init02, led_exit02, led_init04, led_exit04, led_drv_init04,
            led_drv_exit04, led_drv_probe04, led_drv_remove04, led_drv_probe05,
            led_drv_remove05, button_remove, gpio_led_init, gpio_led_exit,
            gpio_led_probe, gpio_led_remove} : OtherCode(p)
<1> DEFINE Good(s) == /\ s.op \notin {"kzalloc", "kfree"}
                      /\ s.op \in {"take", "need", "make"} => s.r \notin PerKey
           Kinds == {"chrdev", "region", "cdev", "class", "node", "buf", "map", "ops",
                     "pdrv", "gpiod"}
<1>1. /\ \A r \in Kinds : \A k, u :
           Good(Take(r, k)) /\ Good(Need(r, k, u)) /\ Good(Make(r, k)) /\ Good(Drop(r, k))
      /\ \A o \in {"oops", "add_slot", "spin", "unbind", "node_of_next_slot",
                   "clear_slot", "reset_if_all_clear", "clear_slot_and_look_on"} :
           Good(Do(o))
  BY DEF Take, Need, Make, Drop, Do, Step, PerKey
<1> HIDE DEF Good
<1>2. \A p : OtherCode(p) <=> \A i \in 1 .. Len(p) : Good(p[i])
  BY DEF OtherCode, Good
<1>3. OtherCode(<<>>)
  BY DEF OtherCode
<1>4. /\ \A a : Good(a) =>
            OtherCode(<<a>>)
      /\ \A a, b : Good(a) /\ Good(b) =>
            OtherCode(<<a, b>>)
      /\ \A a, b, c : Good(a) /\ Good(b) /\ Good(c) =>
            OtherCode(<<a, b, c>>)
      /\ \A a, b, c, d : Good(a) /\ Good(b) /\ Good(c) /\ Good(d) =>
            OtherCode(<<a, b, c, d>>)
      /\ \A a, b, c, d, e : Good(a) /\ Good(b) /\ Good(c) /\ Good(d) /\ Good(e) =>
            OtherCode(<<a, b, c, d, e>>)
      /\ \A a, b, c, d, e, f : Good(a) /\ Good(b) /\ Good(c) /\ Good(d) /\ Good(e) /\ Good(f) =>
            OtherCode(<<a, b, c, d, e, f>>)
      /\ \A a, b, c, d, e, f, g :
           Good(a) /\ Good(b) /\ Good(c) /\ Good(d) /\ Good(e) /\ Good(f) /\ Good(g) =>
            OtherCode(<<a, b, c, d, e, f, g>>)
  <2>1. ASSUME NEW a, Good(a)
       PROVE  OtherCode(<<a>>)
    BY <1>2, <2>1
  <2>2. ASSUME NEW a, NEW b, Good(a), Good(b)
       PROVE  OtherCode(<<a, b>>)
    BY <1>2, <2>2
  <2>3. ASSUME NEW a, NEW b, NEW c, Good(a), Good(b), Good(c)
       PROVE  OtherCode(<<a, b, c>>)
    BY <1>2, <2>3
  <2>4. ASSUME NEW a, NEW b, NEW c, NEW d, Good(a), Good(b), Good(c), Good(d)
       PROVE  OtherCode(<<a, b, c, d>>)
    BY <1>2, <2>4
  <2>5. ASSUME NEW a, NEW b, NEW c, NEW d, NEW e,
               Good(a), Good(b), Good(c), Good(d), Good(e)
       PROVE  OtherCode(<<a, b, c, d, e>>)
    BY <1>2, <2>5
  <2>6. ASSUME NEW a, NEW b, NEW c, NEW d, NEW e, NEW f,
               Good(a), Good(b), Good(c), Good(d), Good(e), Good(f)
       PROVE  OtherCode(<<a, b, c, d, e, f>>)
    BY <1>2, <2>6
  <2>7. ASSUME NEW a, NEW b, NEW c, NEW d, NEW e, NEW f, NEW g,
               Good(a), Good(b), Good(c), Good(d), Good(e), Good(f), Good(g)
       PROVE  OtherCode(<<a, b, c, d, e, f, g>>)
    BY <1>2, <2>7
  <2> QED
    BY <2>1, <2>2, <2>3, <2>4, <2>5, <2>6, <2>7
<1>5. ASSUME NEW p \in Seq(StepSet), NEW q \in Seq(StepSet), OtherCode(p), OtherCode(q)
       PROVE  OtherCode(p \o q)
  <2>1. /\ Len(p \o q) = Len(p) + Len(q)
        /\ \A i \in 1 .. Len(p \o q) :
             \/ i \in 1 .. Len(p) /\ (p \o q)[i] = p[i]
             \/ i - Len(p) \in 1 .. Len(q) /\ (p \o q)[i] = q[i - Len(p)]
    OBVIOUS
  <2> QED
    BY <2>1, <1>5 DEF OtherCode
<1>6. hello_exit01 \in Seq(StepSet) /\ \A k \in Nat : Drop("map", k) \in StepSet
  BY TuplesFit DEF ModuleFits, Drop, Step, StepSet, Ops, Wares, Names
<1>7. OtherCode(hello_init01)
  BY <1>1, <1>4 DEF hello_init01
<1>8. OtherCode(hello_exit01)
  BY <1>1, <1>4 DEF hello_exit01
<1>9. OtherCode(hello_init01b)
  <2>1. /\ Good(Take("region", 0)) /\ Good(Take("cdev", 0))
        /\ Good(Need("class", 0, {})) /\ Good(Take("node", 0))
    BY <1>1
  <2>2. OtherCode(<<Take("region", 0), Take("cdev", 0), Need("class", 0, {}),
                    Take("node", 0)>>)
    BY <2>1, <1>4, Zenon
  <2> QED
    BY <2>2 DEF hello_init01b
<1>10. OtherCode(hello_exit01b)
  <2>1. /\ Good(Drop("node", 0)) /\ Good(Drop("class", 0))
        /\ Good(Drop("cdev", 0)) /\ Good(Drop("region", 0))
    BY <1>1
  <2>2. OtherCode(<<Drop("node", 0), Drop("class", 0), Drop("cdev", 0),
                    Drop("region", 0)>>)
    BY <2>1, <1>4, Zenon
  <2> QED
    BY <2>2 DEF hello_exit01b
<1>11. OtherCode(hello_init07)
  <2>1. /\ Good(Take("chrdev", 0)) /\ Good(Make("buf", 0))
        /\ Good(Need("class", 0, {"chrdev"})) /\ Good(Take("node", 0))
    BY <1>1
  <2>2. OtherCode(<<Take("chrdev", 0), Make("buf", 0),
                    Need("class", 0, {"chrdev"}), Take("node", 0)>>)
    BY <2>1, <1>4, Zenon
  <2> QED
    BY <2>2 DEF hello_init07
<1>12. OtherCode(led_init_simple)
  BY <1>1, <1>4 DEF led_init_simple
<1>13. OtherCode(led_init_imx6ull)
  <2>1. /\ Good(Take("chrdev", 0)) /\ Good(Make("map", 1))
        /\ Good(Make("map", 2)) /\ Good(Make("map", 3))
        /\ Good(Take("class", 0)) /\ Good(Take("node", 0))
    BY <1>1
  <2>2. OtherCode(<<Take("chrdev", 0), Make("map", 1), Make("map", 2),
                    Make("map", 3), Take("class", 0), Take("node", 0)>>)
    BY <2>1, <1>4, Zenon
  <2> QED
    BY <2>2 DEF led_init_imx6ull
<1>14. OtherCode(led_exit_imx6ull)
  <2> DEFINE a == <<Drop("map", 1), Drop("map", 2), Drop("map", 3)>>
  <2>1. /\ Good(Drop("map", 1)) /\ Good(Drop("map", 2))
        /\ Good(Drop("map", 3))
    BY <1>1
  <2>2. OtherCode(a)
    BY <2>1, <1>4, Zenon
  <2>3. a \in Seq(StepSet)
    BY <1>6
  <2> HIDE DEF a
  <2>4. OtherCode(a \o hello_exit01)
    BY <2>2, <2>3, <1>8, <1>5, <1>6
  <2> QED
    BY <2>4 DEF a, led_exit_imx6ull
<1>15. OtherCode(led_init_stm32mp157)
  <2>1. /\ Good(Take("chrdev", 0)) /\ Good(Make("map", 1))
        /\ Good(Make("map", 2)) /\ Good(Make("map", 3)) /\ Good(Make("map", 4))
        /\ Good(Take("class", 0)) /\ Good(Take("node", 0))
    BY <1>1
  <2>2. OtherCode(<<Take("chrdev", 0), Make("map", 1), Make("map", 2),
                    Make("map", 3), Make("map", 4), Take("class", 0),
                    Take("node", 0)>>)
    BY <2>1, <1>4, Zenon
  <2> QED
    BY <2>2 DEF led_init_stm32mp157
<1>16. OtherCode(led_exit_stm32mp157)
  <2> DEFINE a == <<Drop("map", 1), Drop("map", 2), Drop("map", 3), Drop("map", 4)>>
  <2>1. /\ Good(Drop("map", 1)) /\ Good(Drop("map", 2))
        /\ Good(Drop("map", 3)) /\ Good(Drop("map", 4))
    BY <1>1
  <2>2. OtherCode(a)
    BY <2>1, <1>4, Zenon
  <2>3. a \in Seq(StepSet)
    BY <1>6
  <2> HIDE DEF a
  <2>4. OtherCode(a \o hello_exit01)
    BY <2>2, <2>3, <1>8, <1>5, <1>6
  <2> QED
    BY <2>4 DEF a, led_exit_stm32mp157
<1>17. OtherCode(led_init01)
  <2>1. /\ Good(Take("chrdev", 0)) /\ Good(Need("class", 0, {"chrdev"}))
        /\ Good(Take("node", 0)) /\ Good(Take("node", 1))
        /\ Good(Make("ops", 0))
    BY <1>1
  <2>2. OtherCode(<<Take("chrdev", 0), Need("class", 0, {"chrdev"}),
                    Take("node", 0), Take("node", 1), Make("ops", 0)>>)
    BY <2>1, <1>4, Zenon
  <2> QED
    BY <2>2 DEF led_init01
<1>18. OtherCode(led_exit01)
  <2>1. /\ Good(Drop("node", 0)) /\ Good(Drop("node", 1))
        /\ Good(Drop("node", 0)) /\ Good(Drop("class", 0))
        /\ Good(Drop("chrdev", 0))
    BY <1>1
  <2>2. OtherCode(<<Drop("node", 0), Drop("node", 1), Drop("node", 0),
                    Drop("class", 0), Drop("chrdev", 0)>>)
    BY <2>1, <1>4, Zenon
  <2> QED
    BY <2>2 DEF led_exit01
<1>19. OtherCode(led_init04)
  BY <1>1, <1>4 DEF led_init04
<1>20. OtherCode(led_exit04)
  BY <1>1, <1>4 DEF led_exit04
<1>21. OtherCode(led_drv_init04)
  BY <1>1, <1>4 DEF led_drv_init04
<1>22. OtherCode(led_drv_exit04)
  BY <1>1, <1>4 DEF led_drv_exit04
<1>23. OtherCode(led_drv_probe04)
  BY <1>1, <1>4 DEF led_drv_probe04, led_class_create_dev04
<1>24. OtherCode(led_drv_remove04)
  BY <1>1, <1>4 DEF led_drv_remove04
<1>25. OtherCode(led_drv_probe05)
  BY <1>1, <1>4 DEF led_drv_probe05
<1>26. OtherCode(led_drv_remove05)
  BY <1>1, <1>4 DEF led_drv_remove05
<1>27. OtherCode(button_remove)
  BY <1>1, <1>4 DEF button_remove
<1>28. OtherCode(gpio_led_init)
  BY <1>1, <1>4 DEF gpio_led_init
<1>29. OtherCode(gpio_led_exit)
  BY <1>1, <1>4 DEF gpio_led_exit
<1>30. OtherCode(gpio_led_probe)
  <2>1. /\ Good(Need("gpiod", 0, {})) /\ Good(Need("chrdev", 0, {"gpiod"}))
        /\ Good(Need("class", 0, {"chrdev", "gpiod"}))
        /\ Good(Need("node", 0, {"class", "chrdev", "gpiod"}))
    BY <1>1
  <2>2. OtherCode(<<Need("gpiod", 0, {}), Need("chrdev", 0, {"gpiod"}),
                    Need("class", 0, {"chrdev", "gpiod"}),
                    Need("node", 0, {"class", "chrdev", "gpiod"})>>)
    BY <2>1, <1>4, Zenon
  <2> QED
    BY <2>2 DEF gpio_led_probe
<1>31. OtherCode(gpio_led_remove)
  BY <1>1, <1>4 DEF gpio_led_remove
<1>32. OtherCode(led_init02) /\ OtherCode(led_exit02)
  <2> DEFINE S == {s \in StepSet : Good(s)}
             a == <<Take("chrdev", 0), Need("class", 0, {"chrdev"}), Make("ops", 0)>>
             z == <<Drop("node", 0), Drop("class", 0), Drop("chrdev", 0)>>
  <2>1. \A k \in Nat : Take("node", k) \in S /\ Drop("node", k) \in S
    BY <1>1 DEF Take, Drop, Step, StepSet, Ops, Wares, Names
  <2>2. /\ Take("chrdev", 0) \in S /\ Need("class", 0, {"chrdev"}) \in S
        /\ Make("ops", 0) \in S /\ Drop("class", 0) \in S /\ Drop("chrdev", 0) \in S
    BY <1>1 DEF Take, Need, Make, Drop, Step, StepSet, Ops, Wares, Names
  <2> HIDE DEF S
  <2>3. a \in Seq(S) /\ z \in Seq(S)
    BY <2>1, <2>2
  <2>4. For(NLeds, LedNode) \in Seq(S) /\ For(NLeds, LedNodeGone) \in Seq(S)
    BY <2>1, Loops, ProgramsAssumption
  <2> HIDE DEF a, z
  <2>5. a \o For(NLeds, LedNode) \in Seq(S) /\ For(NLeds, LedNodeGone) \o z \in Seq(S)
    BY <2>3, <2>4
  <2>6. led_init02 \in Seq(S) /\ led_exit02 \in Seq(S)
    BY <2>5 DEF a, z, led_init02, led_exit02
  <2>7. \A p \in Seq(S) : OtherCode(p)
    BY <1>2 DEF S
  <2> QED
    BY <2>6, <2>7
<1> QED
  BY <1>3, <1>7, <1>8, <1>9, <1>10, <1>11, <1>12, <1>13, <1>14, <1>15, <1>16, <1>17,
     <1>18, <1>19, <1>20, <1>21, <1>22, <1>23, <1>24, <1>25, <1>26, <1>27, <1>28,
     <1>29, <1>30, <1>31, <1>32

(* Every driver keeps to that.                                              *)
LEMMA DriversOther == \A d \in DOMAIN Driver : OtherFits(d)
<1>1. ASSUME NEW p, NEW q, OtherCode(p), OtherCode(q), NEW d, Driver[d] = Simple(p, q)
      PROVE  OtherFits(d)
  <2>1. OtherCode(<< >>)
    BY OtherPrograms
  <2> QED
    BY <1>1, <2>1 DEF OtherFits, Simple, Module
<1>2. ASSUME NEW p, NEW q, NEW m, NEW n, OtherCode(p), OtherCode(q), OtherCode(m.init),
             OtherCode(m.exit), OtherCode(n.init), OtherCode(n.exit), NEW e, NEW d,
             \/ Driver[d] = OnBus(m, n, p, q, e)
             \/ Driver[d] = [OnBus(m, n, p, q, e) EXCEPT !.failure = "bound"]
      PROVE  OtherFits(d)
  BY <1>2 DEF OtherFits, OnBus
<1>3. OtherFits("hello01")
  <2>1. OtherCode(hello_init01) /\ OtherCode(hello_exit01)
    BY OtherPrograms
  <2> QED
    BY <1>1, <2>1, CharDriverIs
<1>4. OtherFits("hello01b")
  <2>1. OtherCode(hello_init01b) /\ OtherCode(hello_exit01b)
    BY OtherPrograms
  <2> QED
    BY <1>1, <2>1, CharDriverIs
<1>5. OtherFits("hello07")
  <2>1. OtherCode(hello_init07) /\ OtherCode(hello_exit01)
    BY OtherPrograms
  <2> QED
    BY <1>1, <2>1, CharDriverIs DEF hello_exit07
<1>6. OtherFits("led_simple")
  <2>1. OtherCode(led_init_simple) /\ OtherCode(hello_exit01)
    BY OtherPrograms
  <2> QED
    BY <1>1, <2>1, CharDriverIs DEF led_exit_simple
<1>7. OtherFits("led_imx6ull")
  <2>1. OtherCode(led_init_imx6ull) /\ OtherCode(led_exit_imx6ull)
    BY OtherPrograms
  <2> QED
    BY <1>1, <2>1, CharDriverIs
<1>8. OtherFits("led_stm32mp157")
  <2>1. OtherCode(led_init_stm32mp157) /\ OtherCode(led_exit_stm32mp157)
    BY OtherPrograms
  <2> QED
    BY <1>1, <2>1, CharDriverIs
<1>9. OtherFits("led01")
  <2>1. OtherCode(led_init01) /\ OtherCode(led_exit01)
    BY OtherPrograms
  <2> QED
    BY <1>1, <2>1, CharDriverIs
<1>10. OtherFits("led02")
  <2>1. OtherCode(led_init02) /\ OtherCode(led_exit02)
    BY OtherPrograms
  <2> QED
    BY <1>1, <2>1, CharDriverIs
<1>11. OtherFits("led03")
  <2>1. OtherCode(led_init01) /\ OtherCode(led_exit01)
    BY OtherPrograms
  <2> QED
    BY <1>1, <2>1, CharDriverIs DEF led_init03, led_exit03
<1>12. OtherFits("led04")
  <2>1. /\ OtherCode(Module(led_init04, led_exit04).init)
        /\ OtherCode(Module(led_init04, led_exit04).exit)
        /\ OtherCode(Module(led_drv_init04, led_drv_exit04).init)
        /\ OtherCode(Module(led_drv_init04, led_drv_exit04).exit)
    BY OtherPrograms DEF Module
  <2>2. OtherCode(led_drv_probe04) /\ OtherCode(led_drv_remove04)
    BY OtherPrograms
  <2>3. Driver["led04"] = OnBus(Module(led_init04, led_exit04),
                               Module(led_drv_init04, led_drv_exit04),
                               led_drv_probe04, led_drv_remove04, {1})
    BY BusDriverIs
  <2> QED
    BY <2>1, <2>2, <2>3 DEF OtherFits, OnBus
<1>13. OtherFits("led05")
  <2>1. /\ OtherCode(Module(led_init04, led_exit04).init)
        /\ OtherCode(Module(led_init04, led_exit04).exit)
        /\ OtherCode(Module(led_drv_init04, led_drv_exit04).init)
        /\ OtherCode(Module(led_drv_init04, led_drv_exit04).exit)
    BY OtherPrograms DEF Module
  <2>2. OtherCode(led_drv_probe05) /\ OtherCode(led_drv_remove05)
    BY OtherPrograms
  <2>3. Driver["led05"] = OnBus(Module(led_init04, led_exit04),
                               Module(led_drv_init04, led_drv_exit04),
                               led_drv_probe05, led_drv_remove05, {1, 2})
    BY BusDriverIs
  <2> QED
    BY <2>1, <2>2, <2>3 DEF OtherFits, OnBus
<1>14. OtherFits("button")
  <2>1. /\ OtherCode(Module(led_init04, led_exit04).init)
        /\ OtherCode(Module(led_init04, led_exit04).exit)
        /\ OtherCode(Module(led_drv_init04, led_drv_exit04).init)
        /\ OtherCode(Module(led_drv_init04, led_drv_exit04).exit)
    BY OtherPrograms DEF Module
  <2>2. OtherCode(led_drv_probe05) /\ OtherCode(button_remove)
    BY OtherPrograms
  <2>3. Driver["button"] = OnBus(Module(led_init04, led_exit04),
                                Module(led_drv_init04, led_drv_exit04),
                                led_drv_probe05, button_remove, {1, 2})
    BY BusDriverIs
  <2> QED
    BY <2>1, <2>2, <2>3 DEF OtherFits, OnBus
<1>15. OtherFits("gpio_led")
  <2>1. /\ OtherCode(Module(gpio_led_init, gpio_led_exit).init)
        /\ OtherCode(Module(gpio_led_init, gpio_led_exit).exit)
        /\ OtherCode(Module(<< >>, << >>).init) /\ OtherCode(Module(<< >>, << >>).exit)
    BY OtherPrograms DEF Module
  <2>2. OtherCode(gpio_led_probe) /\ OtherCode(gpio_led_remove)
    BY OtherPrograms
  <2> QED
    BY <1>2, <2>1, <2>2, BusDriverIs
<1>16. ASSUME NEW d \in KeyDrivers
      PROVE  OtherFits(d)
  <2> DEFINE s == StageOf[d]
  <2>1. s \in Stages /\ Driver[d] = KeyDriverOf(s)
    BY KeyDriverIs
  <2> HIDE DEF s
  <2>2. OtherCode(keys_driver01.init) /\ OtherCode(keys_driver01.exit) /\ OtherCode(<< >>)
    BY DEF OtherCode, keys_driver01, Do, Drop, Make, Step, PerKey
  <2> QED
    BY <2>1, <2>2, KeyFields DEF OtherFits
<1> QED
  BY <1>3, <1>4, <1>5, <1>6, <1>7, <1>8, <1>9, <1>10, <1>11, <1>12, <1>13, <1>14,
     <1>15, <1>16, DriverNames
(* What the interrupts of a stage start.                                    *)
LEMMA StartsAre ==
  /\ \A s \in 1 .. 6 : Starts[s] = {}
  /\ Starts[7] \subseteq {"timer", "task", "thread"}
  /\ \A s \in 7 .. 10 : "timer" \in Starts[s]
  /\ \A s \in Stages : Starts[s] \subseteq {"timer", "task", "work", "thread"}
<1> DEFINE G == {"sample", "store_word", "wake_up", "store_slot", "inc_w", "kill_fasync",
                 "put_ring"}
<1>1. /\ DOMAIN StartedBy = {"timer", "task", "work", "thread"}
      /\ StartedBy["timer"] = "mod_timer" /\ StartedBy["task"] = "tasklet_schedule"
      /\ StartedBy["work"] = "schedule_work" /\ StartedBy["thread"] = "wake_thread"
  BY DEF StartedBy
<1>2. \A p \in Seq(G) : ToSet(p) \subseteq G
  BY DEF ToSet
<1>3. /\ keys_irq[1] = keys_irq01 /\ keys_irq[2] = keys_irq02
      /\ keys_irq[3] = keys_irq03 /\ keys_irq[4] = keys_irq03
      /\ keys_irq[5] = keys_irq05 /\ keys_irq[6] = keys_irq06 /\ keys_irq[7] = keys_irq07
      /\ keys_irq[8] = keys_irq08 /\ keys_irq[9] = keys_irq08
      /\ keys_irq[10] = keys_irq10
  BY DEF keys_irq, keys_irq04, keys_irq09
<1>4. keys_irq01 \in Seq(G) /\ keys_irq02 \in Seq(G) /\ keys_irq03 \in Seq(G)
  BY DEF keys_irq01, keys_irq02, keys_irq03, Sample
<1>5. keys_irq05 \in Seq(G)
  BY <1>4 DEF keys_irq05, keys_irq04
<1>6. keys_irq06 \in Seq(G)
  BY DEF keys_irq06, Sample, put_key06
<1>7. \A h \in DOMAIN StartedBy : StartedBy[h] \notin G
  BY <1>1
<1> HIDE DEF G
<1>8. \A s \in 1 .. 6 : Starts[s] = {}
  <2>1. \A s \in 1 .. 6 : keys_irq[s] \in Seq(G)
    BY <1>3, <1>4, <1>5, <1>6
  <2> QED
    BY <2>1, <1>2, <1>7 DEF Starts, Stages
<1>9. Starts[7] \subseteq {"timer", "task", "thread"}
  <2>1. "schedule_work" \notin ToSet(keys_irq07)
    BY DEF ToSet, keys_irq07
  <2> QED
    BY <2>1, <1>1, <1>3 DEF Starts, Stages
<1>10. \A s \in 7 .. 10 : "timer" \in Starts[s]
  <2>1. keys_irq07[2] = "mod_timer" /\ keys_irq08[3] = "mod_timer"
        /\ DOMAIN keys_irq07 = 1 .. 2 /\ DOMAIN keys_irq08 = 1 .. 3
    BY DEF keys_irq07, keys_irq08
  <2>2. keys_irq10[3] = "mod_timer" /\ DOMAIN keys_irq10 = 1 .. 4
    BY DEF keys_irq10, keys_irq09, keys_irq08
  <2>3. /\ "mod_timer" \in ToSet(keys_irq07) /\ "mod_timer" \in ToSet(keys_irq08)
        /\ "mod_timer" \in ToSet(keys_irq10)
    BY <2>1, <2>2 DEF ToSet
  <2>4. \A s \in 7 .. 10 : "mod_timer" \in ToSet(keys_irq[s])
    BY <2>3, <1>3
  <2> QED
    BY <2>4, <1>1 DEF Starts, Stages
<1>11. \A s \in Stages : Starts[s] \subseteq {"timer", "task", "work", "thread"}
  BY <1>1 DEF Starts
<1> QED
  BY <1>8, <1>9, <1>10, <1>11

(* The record of a key driver that was chosen.                              *)
LEMMA KeyD ==
  ASSUME drv \in KeyDrivers
  PROVE  LET s == StageOf[drv]
         IN  /\ s \in Stages /\ D.devices = {1} /\ D.failure = "unbound"
             /\ BusModule = "m1" /\ D.starts = Starts[s]
             /\ D.probe = IF s = 1 THEN keys_probe01
                          ELSE IF s < 7 THEN keys_probe02 ELSE keys_probe07
             /\ D.remove = IF s = 1 THEN keys_remove01
                           ELSE IF s < 7 THEN keys_remove02
                           ELSE IF s = 7 THEN keys_remove07 ELSE keys_remove08
             /\ drv = "key01" <=> s = 1
             /\ NotStopped = IF s < 7 THEN {} ELSE IF s = 7 THEN {"task"} ELSE {"work"}
<1> DEFINE s == StageOf[drv]
<1>1. s \in Stages /\ D = KeyDriverOf(s)
  BY KeyDriverIs DEF D
<1>2. /\ drv = "key01" <=> s = 1
      /\ NotStopped = IF s < 7 THEN {} ELSE IF s = 7 THEN {"task"} ELSE {"work"}
  BY DEF KeyDrivers, StageOf, NotStopped
<1>3. BusModule = "m1"
  BY DEF BusModule, TwoModules, KeyDrivers
<1> HIDE DEF s
<1>4. /\ D.probe = keys_probe[s] /\ D.remove = keys_remove[s] /\ D.starts = Starts[s]
      /\ D.devices = {1} /\ D.failure = "unbound"
  BY <1>1, KeyFields
<1> QED
  BY <1>1, <1>2, <1>3, <1>4, KeyProgramsAre DEF s

(* Where the steps of two programs, one after the other, are.               *)
LEMMA Cat ==
  ASSUME NEW p \in Seq(StepSet), NEW q \in Seq(StepSet)
  PROVE  /\ p \o q \in Seq(StepSet) /\ Len(p) \in Nat /\ Len(q) \in Nat
         /\ Len(p \o q) = Len(p) + Len(q)
         /\ \A i \in 1 .. Len(p) : (p \o q)[i] = p[i]
         /\ \A i \in 1 .. Len(p \o q) :
              \/ i \in 1 .. Len(p) /\ (p \o q)[i] = p[i]
              \/ /\ i > Len(p) /\ i - Len(p) \in 1 .. Len(q)
                 /\ (p \o q)[i] = q[i - Len(p)]
  OBVIOUS

(* The places of the loops over the keys.                                   *)
LEMMA KeyGrid ==
  /\ \A j \in 1 .. NKeys * 2 :
       (j - 1) \div 2 + 1 \in KeyIndex /\ ((j - 1) % 2) + 1 \in 1 .. 2
  /\ \A j \in 1 .. NKeys * 3 :
       (j - 1) \div 3 + 1 \in KeyIndex /\ ((j - 1) % 3) + 1 \in 1 .. 3
  BY ProgramsAssumption DEF KeyIndex

(* Probe allocates the array first and then makes lines and timers of it.   *)
LEMMA KeyProbe ==
  ASSUME drv \in KeyDrivers
  PROVE  /\ Len(D.probe) \in Nat /\ Len(D.probe) >= 2
         /\ \A i \in 1 .. Len(D.probe) :
              /\ D.probe[i].op # "kfree" /\ (D.probe[i].op = "kzalloc" <=> i = 2)
              /\ D.probe[i].op \in {"take", "need", "make"} /\ D.probe[i].r \in PerKey =>
                   /\ i > 2 /\ D.probe[i].r \in {"line"} \cup D.starts
                   /\ D.probe[i].i \in KeyIndex
<1> DEFINE t == D.starts
           Good(s) == /\ s.op \notin {"kzalloc", "kfree"}
                      /\ s.op \in {"take", "need", "make"} /\ s.r \in PerKey =>
                           s.r \in {"line"} \cup t /\ s.i \in KeyIndex
           Fine(p) == /\ Len(p) >= 2
                      /\ \A i \in 1 .. Len(p) :
                           \/ i \in 1 .. 2 /\ p[i] = Begin[i]
                           \/ i > 2 /\ Good(p[i])
<1>1. /\ Begin[1].op = "read" /\ Begin[2].op = "kzalloc" /\ Len(Begin) = 2
      /\ Begin \in Seq(StepSet) /\ Nodes \in Seq(StepSet)
      /\ For(NKeys, KeyIrq) \in Seq(StepSet) /\ For(NKeys, KeyTimed) \in Seq(StepSet)
  BY LoopedFit, LoopsFit DEF Begin, Read, Do, Step, ModuleFits
<1>2. \A i \in 1 .. Len(Nodes) : Good(Nodes[i])
  BY DEF Nodes, Need, Take, Step, PerKey
<1>3. \A k \in KeyIndex : \A c \in 1 .. 2 : Good(KeyIrq(k)[c])
  BY DEF KeyIrq, Read, Need, Step
<1>4. "timer" \in t => \A k \in KeyIndex : \A c \in 1 .. 3 : Good(KeyTimed(k)[c])
  BY DEF KeyTimed, Read, Need, Make, Step
<1> HIDE DEF Good, t
<1>5. NKeys * 2 \in Nat /\ NKeys * 3 \in Nat
  BY ProgramsAssumption
<1>6. \A j \in 1 .. Len(For(NKeys, KeyIrq)) : Good(For(NKeys, KeyIrq)[j])
  <2>1. \A j \in 1 .. NKeys * 2 :
          (j - 1) \div 2 + 1 \in KeyIndex /\ ((j - 1) % 2) + 1 \in 1 .. 2
    BY KeyGrid
  <2> QED
    BY <2>1, Loops, <1>3, <1>5
<1>7. ASSUME "timer" \in t
      PROVE  \A j \in 1 .. Len(For(NKeys, KeyTimed)) : Good(For(NKeys, KeyTimed)[j])
  <2>1. \A j \in 1 .. NKeys * 3 :
          (j - 1) \div 3 + 1 \in KeyIndex /\ ((j - 1) % 3) + 1 \in 1 .. 3
    BY KeyGrid
  <2> QED
    BY <2>1, Loops, <1>4, <1>5, <1>7
<1>8. ASSUME NEW p \in Seq(StepSet), \A i \in 1 .. Len(p) : Good(p[i])
      PROVE  /\ Begin \o p \in Seq(StepSet) /\ Fine(Begin \o p)
             /\ Begin \o p \o Nodes \in Seq(StepSet) /\ Fine(Begin \o p \o Nodes)
  <2> DEFINE q == Begin \o p
  <2>1. /\ q \in Seq(StepSet) /\ Len(q) = 2 + Len(p) /\ Len(p) \in Nat
        /\ \A i \in 1 .. Len(q) : \/ i \in 1 .. 2 /\ q[i] = Begin[i]
                                  \/ i > 2 /\ i - 2 \in 1 .. Len(p) /\ q[i] = p[i - 2]
    <3>1. Len(Begin) = 2 /\ Begin \in Seq(StepSet)
      BY <1>1
    <3>2. /\ q \in Seq(StepSet) /\ Len(p) \in Nat /\ Len(q) = Len(Begin) + Len(p)
          /\ \A i \in 1 .. Len(q) :
               \/ i \in 1 .. Len(Begin) /\ q[i] = Begin[i]
               \/ /\ i > Len(Begin) /\ i - Len(Begin) \in 1 .. Len(p)
                  /\ q[i] = p[i - Len(Begin)]
      BY <3>1, Cat, Zenon
    <3> HIDE DEF q
    <3> QED
      BY <3>1, <3>2
  <2>2. Fine(q)
    BY <2>1, <1>8
  <2> HIDE DEF q
  <2>3. /\ q \o Nodes \in Seq(StepSet) /\ Len(q \o Nodes) = Len(q) + Len(Nodes)
        /\ Len(Nodes) \in Nat
        /\ \A i \in 1 .. Len(q \o Nodes) :
             \/ i \in 1 .. Len(q) /\ (q \o Nodes)[i] = q[i]
             \/ /\ i > Len(q) /\ i - Len(q) \in 1 .. Len(Nodes)
                /\ (q \o Nodes)[i] = Nodes[i - Len(q)]
    BY <2>1, <1>1, Cat
  <2>4. Fine(q \o Nodes)
    BY <2>2, <2>3, <1>2
  <2> QED
    BY <2>1, <2>2, <2>3, <2>4 DEF q
<1>9. Fine(D.probe) /\ D.probe \in Seq(StepSet)
  <2> DEFINE s == StageOf[drv]
  <2>1. CASE s = 1
    <3>1. D.probe = Begin \o For(NKeys, KeyIrq)
      BY <2>1, KeyD DEF keys_probe01
    <3> QED
      BY <3>1, <1>1, <1>6, <1>8
  <2>2. CASE s \in 2 .. 6
    <3>1. D.probe = keys_probe02
      BY <2>2, KeyD
    <3>2. D.probe = Begin \o For(NKeys, KeyIrq) \o Nodes
      BY <3>1 DEF keys_probe02
    <3> QED
      BY <3>2, <1>1, <1>6, <1>8
  <2>3. CASE s \in 7 .. 10
    <3>1. "timer" \in t
      BY <2>3, KeyD, StartsAre DEF t
    <3>2. D.probe = keys_probe07
      BY <2>3, KeyD
    <3>3. D.probe = Begin \o For(NKeys, KeyTimed) \o Nodes
      BY <3>2 DEF keys_probe07
    <3> QED
      BY <3>1, <3>3, <1>1, <1>7, <1>8
  <2> QED
    BY <2>1, <2>2, <2>3, KeyD DEF Stages
<1>10. Len(D.probe) \in Nat
  BY <1>9
<1> QED
  BY <1>1, <1>9, <1>10 DEF Good, t

\* The call that stops the handler r of key k.
Stops(s, r, k) == s.op \in {"drop", "await"} /\ s.r = r /\ s.i = k

\* Ahead of place p of remove is the stop of h and, when h is a line, after it
\* the stop of each handler that the line starts.
StopAhead(h, p) ==
  \E j \in 1 .. Len(D.remove) :
    /\ j >= p /\ Stops(D.remove[j], h[1], h[2])
    /\ h[1] = "line" =>
         \A r \in D.starts \ NotStopped :
           \E n \in j + 1 .. Len(D.remove) : Stops(D.remove[n], r, h[2])

(* The rounds of the loops of remove: the line goes first.                  *)
LEMMA RemoveRounds ==
  ASSUME NEW k \in KeyIndex
  PROVE  /\ LET p == For(NKeys, FreeIrq)
            IN  \E j \in 1 .. Len(p) - 1 : /\ Stops(p[j], "line", k)
                                           /\ Stops(p[j + 1], "thread", k)
         /\ LET p == For(NKeys, FreeTimed)
            IN  \E j \in 1 .. Len(p) - 2 : /\ Stops(p[j], "line", k)
                                           /\ Stops(p[j + 1], "thread", k)
                                           /\ Stops(p[j + 2], "timer", k)
         /\ LET p == For(NKeys, FreeAll)
            IN  \E j \in 1 .. Len(p) - 3 : /\ Stops(p[j], "line", k)
                                           /\ Stops(p[j + 1], "thread", k)
                                           /\ Stops(p[j + 2], "timer", k)
                                           /\ Stops(p[j + 3], "task", k)
<1>1. /\ Stops(FreeIrq(k)[1], "line", k) /\ Stops(FreeIrq(k)[2], "thread", k)
      /\ Stops(FreeTimed(k)[1], "line", k) /\ Stops(FreeTimed(k)[2], "thread", k)
      /\ Stops(FreeTimed(k)[3], "timer", k)
      /\ Stops(FreeAll(k)[1], "line", k) /\ Stops(FreeAll(k)[2], "thread", k)
      /\ Stops(FreeAll(k)[3], "timer", k) /\ Stops(FreeAll(k)[4], "task", k)
  BY DEF FreeIrq, FreeTimed, FreeAll, Stops, Drop, Await, Step
<1>2. k \in 1 .. NKeys /\ NKeys \in Nat
  BY ProgramsAssumption DEF KeyIndex
<1>3. LET p == For(NKeys, FreeIrq)
      IN  \E j \in 1 .. Len(p) - 1 : /\ Stops(p[j], "line", k)
                                     /\ Stops(p[j + 1], "thread", k)
  <2> DEFINE p == For(NKeys, FreeIrq)
  <2>1. /\ Len(p) = NKeys * 2
        /\ \A j \in 1 .. NKeys * 2 : p[j] = FreeIrq((j - 1) \div 2 + 1)[((j - 1) % 2) + 1]
    <3>1. NKeys * 2 \in Nat
      BY <1>2
    <3> QED
      BY <3>1, Loops
  <2>2. ASSUME NEW c \in 1 .. 2
        PROVE  (k - 1) * 2 + c \in 1 .. NKeys * 2 /\ p[(k - 1) * 2 + c] = FreeIrq(k)[c]
    <3>1. PICK j \in Int : j = (k - 1) * 2 + c
      BY <1>2
    <3>2. j \in 1 .. NKeys * 2 /\ (j - 1) \div 2 + 1 = k /\ ((j - 1) % 2) + 1 = c
      BY <3>1, <1>2
    <3> HIDE DEF p
    <3>3. p[j] = FreeIrq((j - 1) \div 2 + 1)[((j - 1) % 2) + 1]
      BY <2>1, <3>2
    <3> QED
      BY <3>1, <3>2, <3>3
  <2> HIDE DEF p
  <2>3. (k - 1) * 2 + 1 \in 1 .. Len(p) - 1 /\ (k - 1) * 2 + 2 = (k - 1) * 2 + 1 + 1
    BY <1>2, <2>1
  <2>4. Stops(p[(k - 1) * 2 + 1], "line", k) /\ Stops(p[(k - 1) * 2 + 1 + 1], "thread", k)
    BY <2>2, <2>3, <1>1
  <2> QED
    BY <2>3, <2>4 DEF p
<1>4. LET p == For(NKeys, FreeTimed)
      IN  \E j \in 1 .. Len(p) - 2 : /\ Stops(p[j], "line", k)
                                     /\ Stops(p[j + 1], "thread", k)
                                     /\ Stops(p[j + 2], "timer", k)
  <2> DEFINE p == For(NKeys, FreeTimed)
  <2>1. /\ Len(p) = NKeys * 3
        /\ \A j \in 1 .. NKeys * 3 : p[j] = FreeTimed((j - 1) \div 3 + 1)[((j - 1) % 3) + 1]
    <3>1. NKeys * 3 \in Nat
      BY <1>2
    <3> QED
      BY <3>1, Loops
  <2>2. ASSUME NEW c \in 1 .. 3
        PROVE  (k - 1) * 3 + c \in 1 .. NKeys * 3 /\ p[(k - 1) * 3 + c] = FreeTimed(k)[c]
    <3>1. PICK j \in Int : j = (k - 1) * 3 + c
      BY <1>2
    <3>2. j \in 1 .. NKeys * 3 /\ (j - 1) \div 3 + 1 = k /\ ((j - 1) % 3) + 1 = c
      BY <3>1, <1>2
    <3> HIDE DEF p
    <3>3. p[j] = FreeTimed((j - 1) \div 3 + 1)[((j - 1) % 3) + 1]
      BY <2>1, <3>2
    <3> QED
      BY <3>1, <3>2, <3>3
  <2> HIDE DEF p
  <2>3. /\ (k - 1) * 3 + 1 \in 1 .. Len(p) - 2 /\ (k - 1) * 3 + 2 = (k - 1) * 3 + 1 + 1
        /\ (k - 1) * 3 + 3 = (k - 1) * 3 + 1 + 2
    BY <1>2, <2>1
  <2>4. /\ Stops(p[(k - 1) * 3 + 1], "line", k) /\ Stops(p[(k - 1) * 3 + 1 + 1], "thread", k)
        /\ Stops(p[(k - 1) * 3 + 1 + 2], "timer", k)
    BY <2>2, <2>3, <1>1
  <2> QED
    BY <2>3, <2>4 DEF p
<1>5. LET p == For(NKeys, FreeAll)
      IN  \E j \in 1 .. Len(p) - 3 : /\ Stops(p[j], "line", k)
                                     /\ Stops(p[j + 1], "thread", k)
                                     /\ Stops(p[j + 2], "timer", k)
                                     /\ Stops(p[j + 3], "task", k)
  <2> DEFINE p == For(NKeys, FreeAll)
  <2>1. /\ Len(p) = NKeys * 4
        /\ \A j \in 1 .. NKeys * 4 : p[j] = FreeAll((j - 1) \div 4 + 1)[((j - 1) % 4) + 1]
    <3>1. NKeys * 4 \in Nat
      BY <1>2
    <3> QED
      BY <3>1, Loops
  <2>2. ASSUME NEW c \in 1 .. 4
        PROVE  (k - 1) * 4 + c \in 1 .. NKeys * 4 /\ p[(k - 1) * 4 + c] = FreeAll(k)[c]
    <3>1. PICK j \in Int : j = (k - 1) * 4 + c
      BY <1>2
    <3>2. j \in 1 .. NKeys * 4 /\ (j - 1) \div 4 + 1 = k /\ ((j - 1) % 4) + 1 = c
      BY <3>1, <1>2
    <3> HIDE DEF p
    <3>3. p[j] = FreeAll((j - 1) \div 4 + 1)[((j - 1) % 4) + 1]
      BY <2>1, <3>2
    <3> QED
      BY <3>1, <3>2, <3>3
  <2> HIDE DEF p
  <2>3. /\ (k - 1) * 4 + 1 \in 1 .. Len(p) - 3 /\ (k - 1) * 4 + 2 = (k - 1) * 4 + 1 + 1
        /\ (k - 1) * 4 + 3 = (k - 1) * 4 + 1 + 2 /\ (k - 1) * 4 + 4 = (k - 1) * 4 + 1 + 3
    BY <1>2, <2>1
  <2>4. /\ Stops(p[(k - 1) * 4 + 1], "line", k) /\ Stops(p[(k - 1) * 4 + 1 + 1], "thread", k)
        /\ Stops(p[(k - 1) * 4 + 1 + 2], "timer", k)
        /\ Stops(p[(k - 1) * 4 + 1 + 3], "task", k)
    BY <2>2, <2>3, <1>1
  <2> QED
    BY <2>3, <2>4 DEF p
<1> QED
  BY <1>3, <1>4, <1>5

(* Remove stops every handler it stops at all before it frees the array.    *)
LEMMA KeyRemove ==
  ASSUME drv \in KeyDrivers
  PROVE  /\ Len(D.remove) \in Nat
         /\ \A i \in 1 .. Len(D.remove) :
              /\ D.remove[i].op \notin {"take", "need", "make", "kzalloc"}
              /\ D.remove[i].op = "kfree" => i = Len(D.remove) /\ drv # "key01"
         /\ drv # "key01" =>
              \A k \in KeyIndex : \A r \in ({"line"} \cup D.starts) \ NotStopped :
                \A a : StopAhead(<<r, k, a>>, 1)
<1> DEFINE Good(s) == s.op \notin {"take", "need", "make", "kzalloc", "kfree"}
           s == StageOf[drv]
<1>1. ASSUME NEW p \in Seq(StepSet), \A i \in 1 .. Len(p) : Good(p[i]),
             D.remove = p \o NoNodes
      PROVE  /\ Len(D.remove) \in Nat /\ Len(D.remove) >= Len(p) /\ Len(p) \in Nat
             /\ \A i \in 1 .. Len(p) : D.remove[i] = p[i]
             /\ \A i \in 1 .. Len(D.remove) :
                  /\ D.remove[i].op \notin {"take", "need", "make", "kzalloc"}
                  /\ D.remove[i].op = "kfree" => i = Len(D.remove)
  <2> DEFINE q == p \o NoNodes
  <2>1. /\ Len(q) = Len(p) + 4 /\ Len(p) \in Nat
        /\ \A i \in 1 .. Len(q) : \/ i \in 1 .. Len(p) /\ q[i] = p[i]
                                  \/ /\ i - Len(p) \in 1 .. 4
                                     /\ q[i] = NoNodes[i - Len(p)]
        /\ \A i \in 1 .. Len(p) : q[i] = p[i]
    BY DEF NoNodes
  <2>2. \A i \in 1 .. 4 : /\ NoNodes[i].op \in {"drop", "kfree"}
                          /\ NoNodes[i].op = "kfree" => i = 4
    BY DEF NoNodes, Drop, Do, Step
  <2> HIDE DEF q
  <2>3. \A i \in 1 .. Len(q) : /\ q[i].op \notin {"take", "need", "make", "kzalloc"}
                               /\ q[i].op = "kfree" => i = Len(q)
    BY <2>1, <2>2, <1>1
  <2> QED
    BY <2>1, <2>3, <1>1 DEF q
<1>2. /\ \A k \in Nat : \A c \in 1 .. 2 : Good(FreeIrq(k)[c])
      /\ \A k \in Nat : \A c \in 1 .. 3 : Good(FreeTimed(k)[c])
      /\ \A k \in Nat : \A c \in 1 .. 4 : Good(FreeAll(k)[c])
  BY DEF FreeIrq, FreeTimed, FreeAll, Drop, Await, Step
<1> HIDE DEF Good
<1>3. NKeys * 2 \in Nat /\ NKeys * 3 \in Nat /\ NKeys * 4 \in Nat
  BY ProgramsAssumption
<1>4. /\ \A j \in 1 .. Len(For(NKeys, FreeIrq)) : Good(For(NKeys, FreeIrq)[j])
      /\ \A j \in 1 .. Len(For(NKeys, FreeTimed)) : Good(For(NKeys, FreeTimed)[j])
  BY Loops, Grid, <1>2, <1>3, ProgramsAssumption
<1>5. \A j \in 1 .. Len(For(NKeys, FreeAll)) : Good(For(NKeys, FreeAll)[j])
  BY Loops, Grid, <1>2, <1>3, ProgramsAssumption
<1>6. \A p \in {For(NKeys, FreeIrq), For(NKeys, FreeTimed), For(NKeys, FreeAll)} :
        p \in Seq(StepSet)
  BY LoopsFit DEF ModuleFits
<1>7. ASSUME NEW p \in Seq(StepSet), \A i \in 1 .. Len(p) : D.remove[i] = p[i],
             Len(p) <= Len(D.remove), Len(D.remove) \in Nat, Len(p) \in Nat,
             NEW k, NEW R, "line" \notin R, D.starts \ NotStopped \subseteq R,
             NEW j \in 1 .. Len(p), Stops(p[j], "line", k),
             \A r \in R : \E n \in j + 1 .. Len(p) : Stops(p[n], r, k)
      PROVE  \A r \in ({"line"} \cup D.starts) \ NotStopped : \A a :
               StopAhead(<<r, k, a>>, 1)
  <2>1. j \in 1 .. Len(D.remove) /\ Stops(D.remove[j], "line", k)
    BY <1>7
  <2>2. \A r \in R : \E n \in j + 1 .. Len(D.remove) : Stops(D.remove[n], r, k)
    <3>1. ASSUME NEW r \in R
          PROVE  \E n \in j + 1 .. Len(D.remove) : Stops(D.remove[n], r, k)
      <4>1. PICK n \in j + 1 .. Len(p) : Stops(p[n], r, k)
        BY <1>7
      <4>2. n \in 1 .. Len(p) /\ n \in j + 1 .. Len(D.remove)
        BY <1>7
      <4> QED
        BY <4>1, <4>2, <1>7
    <3> QED
      BY <3>1
  <2>3. ASSUME NEW a
        PROVE  StopAhead(<<"line", k, a>>, 1)
    <3>1. \A r \in D.starts \ NotStopped :
            \E n \in j + 1 .. Len(D.remove) : Stops(D.remove[n], r, k)
      BY <2>2, <1>7
    <3> QED
      BY <2>1, <3>1 DEF StopAhead
  <2>4. ASSUME NEW a, NEW r \in R
        PROVE  StopAhead(<<r, k, a>>, 1)
    <3>1. PICK n \in j + 1 .. Len(D.remove) : Stops(D.remove[n], r, k)
      BY <2>2
    <3>2. n \in 1 .. Len(D.remove) /\ n >= 1 /\ r # "line"
      BY <1>7
    <3> QED
      BY <3>1, <3>2 DEF StopAhead
  <2> QED
    BY <2>3, <2>4, <1>7
<1>8. CASE s \in 2 .. 6
  <2> DEFINE p == For(NKeys, FreeIrq)
  <2>1. D.remove = p \o NoNodes /\ D.starts \ NotStopped = {} /\ drv # "key01"
    <3>1. D.remove = keys_remove02 /\ D.starts = {} /\ drv # "key01"
      BY <1>8, KeyD, StartsAre
    <3> QED
      BY <3>1 DEF keys_remove02
  <2>2. p \in Seq(StepSet) /\ \A i \in 1 .. Len(p) : Good(p[i])
    BY <1>4, <1>6
  <2>3. \A k \in KeyIndex : \E j \in 1 .. Len(p) - 1 : Stops(p[j], "line", k)
    BY RemoveRounds
  <2> HIDE DEF p
  <2>4. /\ Len(D.remove) \in Nat /\ Len(D.remove) >= Len(p) /\ Len(p) \in Nat
        /\ \A i \in 1 .. Len(p) : D.remove[i] = p[i]
        /\ \A i \in 1 .. Len(D.remove) :
             /\ D.remove[i].op \notin {"take", "need", "make", "kzalloc"}
             /\ D.remove[i].op = "kfree" => i = Len(D.remove)
    BY <1>1, <2>1, <2>2
  <2>5. ASSUME NEW k \in KeyIndex
        PROVE  \A r \in ({"line"} \cup D.starts) \ NotStopped : \A a :
                 StopAhead(<<r, k, a>>, 1)
    <3>1. PICK j \in 1 .. Len(p) - 1 : Stops(p[j], "line", k)
      BY <2>3
    <3>2. j \in 1 .. Len(p) /\ Len(p) <= Len(D.remove)
      BY <2>4
    <3> QED
      BY <1>7, <2>1, <2>2, <2>4, <3>1, <3>2
  <2> QED
    BY <2>1, <2>4, <2>5
<1>9. CASE s = 7
  <2> DEFINE p == For(NKeys, FreeTimed)
  <2>1. D.remove = p \o NoNodes /\ D.starts \ NotStopped \subseteq {"timer", "thread"}
        /\ drv # "key01"
    BY <1>9, KeyD, StartsAre DEF keys_remove07
  <2>2. p \in Seq(StepSet) /\ \A i \in 1 .. Len(p) : Good(p[i])
    BY <1>4, <1>6
  <2>3. \A k \in KeyIndex :
          \E j \in 1 .. Len(p) - 2 : /\ Stops(p[j], "line", k)
                                     /\ Stops(p[j + 1], "thread", k)
                                     /\ Stops(p[j + 2], "timer", k)
    BY RemoveRounds
  <2> HIDE DEF p
  <2>4. /\ Len(D.remove) \in Nat /\ Len(D.remove) >= Len(p) /\ Len(p) \in Nat
        /\ \A i \in 1 .. Len(p) : D.remove[i] = p[i]
        /\ \A i \in 1 .. Len(D.remove) :
             /\ D.remove[i].op \notin {"take", "need", "make", "kzalloc"}
             /\ D.remove[i].op = "kfree" => i = Len(D.remove)
    BY <1>1, <2>1, <2>2
  <2>5. ASSUME NEW k \in KeyIndex
        PROVE  \A r \in ({"line"} \cup D.starts) \ NotStopped : \A a :
                 StopAhead(<<r, k, a>>, 1)
    <3>1. PICK j \in 1 .. Len(p) - 2 : /\ Stops(p[j], "line", k)
                                       /\ Stops(p[j + 1], "thread", k)
                                       /\ Stops(p[j + 2], "timer", k)
      BY <2>3
    <3>2. /\ j \in 1 .. Len(p) /\ Len(p) <= Len(D.remove) /\ j + 1 \in j + 1 .. Len(p)
          /\ j + 2 \in j + 1 .. Len(p)
      BY <2>4
    <3>3. \A r \in {"timer", "thread"} : \E n \in j + 1 .. Len(p) : Stops(p[n], r, k)
      BY <3>1, <3>2
    <3> QED
      BY <1>7, <2>1, <2>2, <2>4, <3>1, <3>2, <3>3
  <2> QED
    BY <2>1, <2>4, <2>5
<1>10. CASE s \in 8 .. 10
  <2> DEFINE p == For(NKeys, FreeAll)
  <2>1. D.remove = p \o NoNodes /\ D.starts \ NotStopped \subseteq {"timer", "thread", "task"}
        /\ drv # "key01"
    <3>1. /\ D.remove = keys_remove08 /\ drv # "key01" /\ NotStopped = {"work"}
          /\ D.starts \subseteq {"timer", "task", "work", "thread"}
      BY <1>10, KeyD, StartsAre
    <3> QED
      BY <3>1 DEF keys_remove08
  <2>2. p \in Seq(StepSet) /\ \A i \in 1 .. Len(p) : Good(p[i])
    BY <1>5, <1>6
  <2>3. \A k \in KeyIndex :
          \E j \in 1 .. Len(p) - 3 : /\ Stops(p[j], "line", k)
                                     /\ Stops(p[j + 1], "thread", k)
                                     /\ Stops(p[j + 2], "timer", k)
                                     /\ Stops(p[j + 3], "task", k)
    BY RemoveRounds
  <2> HIDE DEF p
  <2>4. /\ Len(D.remove) \in Nat /\ Len(D.remove) >= Len(p) /\ Len(p) \in Nat
        /\ \A i \in 1 .. Len(p) : D.remove[i] = p[i]
        /\ \A i \in 1 .. Len(D.remove) :
             /\ D.remove[i].op \notin {"take", "need", "make", "kzalloc"}
             /\ D.remove[i].op = "kfree" => i = Len(D.remove)
    BY <1>1, <2>1, <2>2
  <2>5. ASSUME NEW k \in KeyIndex
        PROVE  \A r \in ({"line"} \cup D.starts) \ NotStopped : \A a :
                 StopAhead(<<r, k, a>>, 1)
    <3>1. PICK j \in 1 .. Len(p) - 3 : /\ Stops(p[j], "line", k)
                                       /\ Stops(p[j + 1], "thread", k)
                                       /\ Stops(p[j + 2], "timer", k)
                                       /\ Stops(p[j + 3], "task", k)
      BY <2>3
    <3>2. /\ j \in 1 .. Len(p) /\ Len(p) <= Len(D.remove) /\ j + 1 \in j + 1 .. Len(p)
          /\ j + 2 \in j + 1 .. Len(p) /\ j + 3 \in j + 1 .. Len(p)
      BY <2>4
    <3>3. \A r \in {"timer", "thread", "task"} :
            \E n \in j + 1 .. Len(p) : Stops(p[n], r, k)
      BY <3>1, <3>2
    <3> QED
      BY <1>7, <2>1, <2>2, <2>4, <3>1, <3>2, <3>3
  <2> QED
    BY <2>1, <2>4, <2>5
<1>11. CASE s = 1
  <2>1. D.remove = keys_remove01 /\ drv = "key01"
    BY <1>11, KeyD
  <2>2. Len(keys_remove01) = 1 /\ keys_remove01[1].op = "free_irq_of_another"
    BY DEF keys_remove01, Do, Step
  <2> QED
    BY <2>1, <2>2
<1> QED
  BY <1>8, <1>9, <1>10, <1>11, KeyD DEF Stages

\* What may run without being stopped first.
KeyHeld == {h \in held : h[1] \in PerKey \ NotStopped}

\* Only key drivers have lines and what they start, and its array is there.
HeldFits ==
  \A h \in held : h[1] \in PerKey =>
    /\ drv \in KeyDrivers /\ h[1] \in {"line"} \cup D.starts /\ h[2] \in KeyIndex
    /\ h[1] \notin NotStopped => <<"array", 0, h[3]>> \in held

\* A probe that has its array has not lost it.
ProbeHas ==
  drv \in KeyDrivers /\ bus.kind = "probe" /\ Pos("bus") > 2 =>
    <<"array", 0, gpk>> \in held

\* Remove has still to stop what remains of the array it will free.
RemoveStops ==
  drv \in KeyDrivers \ {"key01"} /\ bus.kind = "remove" =>
    \A h \in KeyHeld : h[3] = gpk => StopAhead(h, Pos("bus"))

\* Unless a probe failed, nothing remains of another array, nor of any when
\* nothing is bound and no probe has gone far.
CleanHas ==
  drv \in KeyDrivers \ {"key01"} /\ ~failed =>
    /\ \A h \in KeyHeld : h[3] = gpk
    /\ \/ bus.kind = "idle" /\ bound = {}
       \/ bus.kind = "probe" /\ Pos("bus") <= 2
       => KeyHeld = {}

HandlerInv == HeldFits /\ ProbeHas /\ RemoveStops /\ CleanHas

(* Nothing about keys happens in modules, nor in other drivers.             *)
LEMMA DOther ==
  ASSUME drv \in Drivers
  PROVE  /\ \A m \in {"m1", "m2"} : OtherCode(D[m].init) /\ OtherCode(D[m].exit)
         /\ drv \notin KeyDrivers => OtherCode(D.probe) /\ OtherCode(D.remove)
         /\ OtherCode(<< >>)
<1>1. drv \in DOMAIN Driver /\ OtherFits(drv)
  BY DriversOther, DriversAssumption
<1>2. OtherCode(<< >>)
  BY DEF OtherCode
<1> QED
  BY <1>1, <1>2, Zenon DEF OtherFits, D

(* A refusal is remembered; only kzalloc changes g_p_keys.                  *)
LEMMA StepKeeps ==
  ASSUME Positions, DataTypes, NEW c \in {"run", "bus"}, Prog(c) # << >>, StepOf(c)
  PROVE  /\ failed => failed'
         /\ Head(Prog(c)).op # "kzalloc" => gpk' = gpk /\ arrays' = arrays
         /\ Head(Prog(c)).op = "kzalloc" => KeysAllocated(c)
<1> DEFINE s == Head(Prog(c))
<1>1. failed \in BOOLEAN
  BY DEF DataTypes
<1>2. failed => failed'
  BY <1>1 DEF StepOf, Got, Refused, Made, Dropped, Awaited, PropertyRead, KeysAllocated,
     KeysFreed, Nothing, SlotNode, SlotAdded, SlotCleared, SlotsReset, SlotsSwept, Unbound
<1>3. s.op # "kzalloc" => gpk' = gpk /\ arrays' = arrays
  BY DEF StepOf, Got, Refused, Made, Dropped, Awaited, PropertyRead, KeysFreed, Nothing,
     SlotNode, SlotAdded, SlotCleared, SlotsReset, SlotsSwept, Unbound, keyVars
<1>4. s.op = "kzalloc" => KeysAllocated(c)
  BY DEF StepOf
<1> QED
  BY <1>2, <1>3, <1>4

(* An array goes only when it is freed.                                     *)
LEMMA ArrayStays ==
  ASSUME Positions, DataTypes, NEW c \in {"run", "bus"}, Prog(c) # << >>, StepOf(c),
         NEW n, <<"array", 0, n>> \in held, <<"array", 0, n>> \notin held'
  PROVE  Head(Prog(c)).op = "kfree" /\ n = gpk /\ GoesOn(c)
<1> DEFINE s == Head(Prog(c))
           h == <<"array", 0, n>>
<1>1. s \in StepSet
  BY NextStep
<1>2. \/ /\ s.op \in {"take", "need"} /\ Refused(c, s)
         /\ \E u \in s.undo : h = Static(u, 0)
      \/ s.op = "drop" /\ h = Named(s.r, s.i) /\ GoesOn(c)
      \/ s.op = "kfree" /\ h = <<"array", 0, gpk>> /\ GoesOn(c)
  BY HeldShrinks
<1>3. \A u \in s.undo : h # Static(u, 0)
  BY <1>1 DEF StepSet, Wares, Static
<1>4. h # Named(s.r, s.i)
  <2>1. s.r # "array"
    BY <1>1 DEF StepSet, Wares
  <2> QED
    BY <2>1 DEF Named, Static
<1> QED
  BY <1>2, <1>3, <1>4

(* A program that has nothing to do with keys leaves them alone.            *)
LEMMA OtherSteps ==
  ASSUME Positions, DataTypes, NEW c \in {"run", "bus"}, Prog(c) # << >>, StepOf(c),
         OtherCode(Program(c))
  PROVE  /\ \A h \in held' : h[1] \in PerKey => h \in held
         /\ \A n : <<"array", 0, n>> \in held => <<"array", 0, n>> \in held'
         /\ gpk' = gpk
<1> DEFINE s == Head(Prog(c))
<1>1. /\ s.op \notin {"kzalloc", "kfree"}
      /\ s.op \in {"take", "need", "make"} => s.r \notin PerKey
  BY NextStep DEF OtherCode
<1>2. ASSUME NEW h \in held', h \notin held
      PROVE  h[1] \notin PerKey
  <2>1. \/ s.op \in {"take", "need", "make"} /\ h = Named(s.r, s.i)
        \/ \E i : h = Static("node", i)
    BY <1>1, <1>2, HeldGrows
  <2> QED
    BY <2>1, <1>1 DEF Named, Static, PerKey
<1> QED
  BY <1>1, <1>2, ArrayStays, StepKeeps

(* What leaves handlers, arrays and bindings alone keeps the invariant.     *)
LEMMA HandlersKept ==
  ASSUME HandlerInv, drv' = drv, gpk' = gpk, bus' = bus, bound' = bound,
         failed => failed', \A h \in held' : h[1] \in PerKey => h \in held,
         \A n : <<"array", 0, n>> \in held => <<"array", 0, n>> \in held'
  PROVE  HandlerInv'
<1>1. D' = D /\ NotStopped' = NotStopped
  BY DEF D, NotStopped
<1>2. Pos("bus")' = Pos("bus")
  BY <1>1 DEF Pos, Program, Prog, BusProgram
<1>3. KeyHeld' \subseteq KeyHeld
  BY <1>1 DEF KeyHeld
<1>4. HeldFits'
  BY <1>1 DEF HandlerInv, HeldFits
<1>5. ProbeHas'
  BY <1>2 DEF HandlerInv, ProbeHas
<1>6. RemoveStops'
  <2>1. ASSUME drv \in KeyDrivers \ {"key01"}, bus.kind = "remove", NEW h \in KeyHeld',
               h[3] = gpk
        PROVE  StopAhead(h, Pos("bus"))'
    <3>1. StopAhead(h, Pos("bus"))
      BY <2>1, <1>3 DEF HandlerInv, RemoveStops
    <3> QED
      BY <3>1, <1>1, <1>2 DEF StopAhead
  <2> QED
    BY <2>1 DEF RemoveStops
<1>7. CleanHas'
  BY <1>2, <1>3 DEF HandlerInv, CleanHas
<1> QED
  BY <1>4, <1>5, <1>6, <1>7 DEF HandlerInv

(* Other drivers have no handlers.                                          *)
LEMMA OtherHandlers ==
  ASSUME Guarded, HandlerInv, [Next]_vars, drv \notin KeyDrivers
  PROVE  HandlerInv'
<1>1. Positions /\ DataTypes /\ drv \in Drivers
  BY DEF Guarded, Positions
<1>2. drv' = drv
  BY OutsideKeeps DEF Next, ModuleStep, BusStep, ModuleDone, BusDone, Load, Unload,
     Bind, Unbind, vars
<1>3. \A h \in held : h[1] \notin PerKey
  BY DEF HandlerInv, HeldFits
<1>4. ASSUME \A h \in held' : h[1] \notin PerKey
      PROVE  HandlerInv'
  BY <1>2, <1>4 DEF HandlerInv, HeldFits, ProbeHas, RemoveStops, CleanHas
<1>5. OtherCode(RunProgram) /\ OtherCode(BusProgram)
  BY <1>1, DOther DEF RunProgram, BusProgram, Positions
<1>6. CASE ModuleStep
  <2>1. Prog("run") # << >> /\ StepOf("run") /\ OtherCode(Program("run"))
    BY <1>5, <1>6 DEF ModuleStep, Prog, Program
  <2> QED
    BY <2>1, <1>1, <1>3, <1>4, OtherSteps
<1>7. CASE BusStep
  <2>1. Prog("bus") # << >> /\ StepOf("bus") /\ OtherCode(Program("bus"))
    BY <1>5, <1>7 DEF BusStep, Prog, Program
  <2> QED
    BY <2>1, <1>1, <1>3, <1>4, OtherSteps
<1>8. CASE Open \/ Use \/ Close \/ Interrupt \/ HandlerRuns
  <2>1. \A h \in Mapped : h[1] \notin PerKey
    BY DEF Mapped, Static, PerKey
  <2>2. \A h \in held : h[1] # "line"
    BY <1>3 DEF PerKey
  <2>3. held' \subseteq held \cup Mapped
    BY <1>8, <2>2, OutsideHolds
  <2> QED
    BY <2>1, <2>3, <1>3, <1>4
<1>9. CASE \/ ModuleDone \/ BusDone \/ UNCHANGED vars
           \/ \E m \in {"m1", "m2"} : Load(m) \/ Unload(m)
           \/ \E d \in D.devices : Bind(d) \/ Unbind(d)
  <2>1. held' \subseteq held
    BY <1>9 DEF ModuleDone, BusDone, Load, Unload, Bind, Unbind, vars
  <2> QED
    BY <2>1, <1>3, <1>4
<1> QED
  BY <1>6, <1>7, <1>8, <1>9 DEF Next

(* Loading and unloading do not touch the keys, except that the module's    *)
(* data is fresh, when nothing is bound, and that unloading unbinds.        *)
LEMMA ModuleHandlers ==
  ASSUME Guarded, HandlerInv, drv \in KeyDrivers, ModuleStep
  PROVE  \/ HandlerInv'
         \/ /\ bus.kind = "idle" /\ UNCHANGED <<drv, held, gpk, bound, failed>>
            /\ \E d \in bound : bus' = [dev |-> d, kind |-> "remove", prog |-> D.remove]
<1>1. Positions /\ DataTypes /\ drv \in Drivers /\ drv' = drv
  BY DEF Guarded, Positions, ModuleStep
<1>2. Prog("run") # << >> /\ StepOf("run") /\ OtherCode(Program("run"))
  <2>1. OtherCode(RunProgram)
    BY <1>1, DOther DEF RunProgram, Positions
  <2> QED
    BY <2>1 DEF ModuleStep, Prog, Program
<1>3. /\ \A h \in held' : h[1] \in PerKey => h \in held
      /\ \A n : <<"array", 0, n>> \in held => <<"array", 0, n>> \in held'
      /\ gpk' = gpk
  BY <1>1, <1>2, OtherSteps
<1>4. failed => failed'
  BY <1>1, <1>2, StepKeeps
<1>5. CASE bus' = bus /\ bound' = bound
  BY <1>1, <1>3, <1>4, <1>5, HandlersKept
<1>6. CASE /\ Head(Prog("run")).op = "unbind" /\ bus.kind = "idle"
           /\ UNCHANGED <<run, text, bound>>
           /\ \E d \in bound : bus' = [dev |-> d, kind |-> "remove", prog |-> D.remove]
  <2>1. Unbound("run")
    BY <1>2, <1>6 DEF StepOf
  <2> QED
    BY <2>1, <1>1, <1>3, <1>6 DEF Unbound
<1>7. GoesOn("run") => bus' = bus /\ bound' = bound
  BY DEF GoesOn
<1>8. Fails("run") => bus' = bus /\ bound' = bound
  BY DEF Fails
<1>9. UNCHANGED <<run, bus, text, bound, slotVars>> => bus' = bus /\ bound' = bound
  OBVIOUS
<1> QED
  BY <1>1, <1>2, <1>5, <1>6, <1>7, <1>8, <1>9, StepMoves

(* The module's data is fresh when nothing is bound.                        *)
LEMMA LoadHandlers ==
  ASSUME Guarded, HandlerInv, drv \in KeyDrivers, NEW m \in {"m1", "m2"}, Load(m)
  PROVE  HandlerInv'
<1>1. m = BusModule
  BY KeyD DEF Load, TwoModules, KeyDrivers
<1>2. /\ UNCHANGED <<drv, bus, bound, failed>> /\ gpk' = 0
      /\ held' \subseteq held
      /\ \A n : <<"array", 0, n>> \in held => <<"array", 0, n>> \in held'
  BY <1>1 DEF Load, Static
<1>3. Quiet
  BY <1>1 DEF Guarded, BoundInv, Load
<1>4. D' = D /\ NotStopped' = NotStopped
  BY <1>2 DEF D, NotStopped
<1>5. KeyHeld' \subseteq KeyHeld
  BY <1>2, <1>4 DEF KeyHeld
<1>6. HeldFits'
  BY <1>2, <1>4 DEF HandlerInv, HeldFits
<1>7. ProbeHas' /\ RemoveStops'
  BY <1>2, <1>3 DEF ProbeHas, RemoveStops, Quiet
<1>8. CleanHas'
  <2>1. drv # "key01" /\ ~failed => KeyHeld = {}
    BY <1>3 DEF HandlerInv, CleanHas, Quiet
  <2> QED
    BY <2>1, <1>2, <1>5 DEF CleanHas
<1> QED
  BY <1>6, <1>7, <1>8 DEF HandlerInv

(* What an interrupt starts is stopped after the line that started it.      *)
LEMMA InterruptHandlers ==
  ASSUME Guarded, HandlerInv, drv \in KeyDrivers, Interrupt
  PROVE  HandlerInv'
<1>1. UNCHANGED <<drv, bus, bound, failed, gpk>>
  BY OutsideKeeps DEF busVars
<1> SUFFICES ASSUME held' # held
             PROVE  HandlerInv'
  BY <1>1, HandlersKept
<1>2. PICK g \in held : /\ g[1] = "line"
                        /\ held' = held \cup {<<r, g[2], g[3]>> : r \in D.starts}
  BY OutsideHolds
<1>3. D' = D /\ NotStopped' = NotStopped
  BY <1>1 DEF D, NotStopped
<1>4. Pos("bus")' = Pos("bus")
  BY <1>1, <1>3 DEF Pos, Program, Prog, BusProgram
<1>5. "line" \in PerKey \ NotStopped /\ "line" \notin D.starts
  <2>1. "line" \notin NotStopped
    BY DEF NotStopped
  <2>2. "line" \notin D.starts
    BY DFits DEF Guarded, Positions
  <2> QED
    BY <2>1, <2>2 DEF PerKey
<1>6. g \in KeyHeld /\ <<"array", 0, g[3]>> \in held /\ g[2] \in KeyIndex
  BY <1>2, <1>5 DEF KeyHeld, HandlerInv, HeldFits
<1>7. ASSUME NEW h \in held', h \notin held
      PROVE  \E r \in D.starts : h = <<r, g[2], g[3]>>
  BY <1>2, <1>7
<1>8. HeldFits'
  <2>1. ASSUME NEW h \in held', h[1] \in PerKey
        PROVE  /\ h[1] \in {"line"} \cup D.starts /\ h[2] \in KeyIndex
               /\ h[1] \notin NotStopped => <<"array", 0, h[3]>> \in held'
    <3>1. CASE h \in held
      BY <2>1, <3>1, <1>2 DEF HandlerInv, HeldFits
    <3>2. CASE h \notin held
      <4>1. PICK r \in D.starts : h = <<r, g[2], g[3]>>
        BY <1>7, <3>2
      <4>2. h[1] = r /\ h[2] = g[2] /\ h[3] = g[3]
        BY <4>1
      <4> QED
        BY <4>2, <1>2, <1>6
    <3> QED
      BY <3>1, <3>2
  <2> QED
    BY <2>1, <1>1, <1>3 DEF HeldFits
<1>9. ProbeHas'
  BY <1>1, <1>2, <1>4 DEF HandlerInv, ProbeHas
<1>10. ASSUME NEW h \in KeyHeld'
       PROVE  h \in KeyHeld \/ (h[3] = g[3] /\ h[2] = g[2] /\ h[1] \in D.starts \ NotStopped)
  <2>1. h \in held' /\ h[1] \in PerKey \ NotStopped
    BY <1>3 DEF KeyHeld
  <2>2. CASE h \in held
    BY <2>1, <2>2 DEF KeyHeld
  <2>3. CASE h \notin held
    <3>1. PICK r \in D.starts : h = <<r, g[2], g[3]>>
      BY <1>7, <2>1, <2>3
    <3> QED
      BY <3>1, <2>1
  <2> QED
    BY <2>2, <2>3
<1>11. RemoveStops'
  <2>1. ASSUME drv # "key01", bus.kind = "remove", NEW h \in KeyHeld', h[3] = gpk
        PROVE  StopAhead(h, Pos("bus"))
    <3>1. CASE h \in KeyHeld
      BY <2>1, <3>1 DEF HandlerInv, RemoveStops
    <3>2. CASE h[3] = g[3] /\ h[2] = g[2] /\ h[1] \in D.starts \ NotStopped
      <4>1. StopAhead(g, Pos("bus"))
        BY <2>1, <3>2, <1>6 DEF HandlerInv, RemoveStops
      <4>2. PICK j \in 1 .. Len(D.remove) :
              /\ j >= Pos("bus")
              /\ \E n \in j + 1 .. Len(D.remove) : Stops(D.remove[n], h[1], h[2])
        BY <4>1, <1>2, <3>2 DEF StopAhead
      <4>3. PICK n \in j + 1 .. Len(D.remove) : Stops(D.remove[n], h[1], h[2])
        BY <4>2
      <4>4. Len(D.remove) \in Nat /\ Pos("bus") \in Int
        <5>1. Len(D.remove) \in Nat
          BY KeyRemove
        <5>2. BusProgram = D.remove /\ bus.prog \in Seq(StepSet)
          BY <2>1 DEF BusProgram, Guarded, Positions
        <5> QED
          BY <5>1, <5>2 DEF Pos, Program, Prog
      <4>5. n \in 1 .. Len(D.remove) /\ n >= Pos("bus")
        BY <4>2, <4>3, <4>4
      <4> QED
        BY <4>3, <4>5, <3>2, <1>5 DEF StopAhead
    <3> QED
      BY <3>1, <3>2, <1>10
  <2>2. ASSUME drv # "key01", bus.kind = "remove", NEW h \in KeyHeld', h[3] = gpk
        PROVE  StopAhead(h, Pos("bus"))'
    <3>1. StopAhead(h, Pos("bus"))
      BY <2>1, <2>2
    <3> QED
      BY <3>1, <1>3, <1>4 DEF StopAhead
  <2> QED
    BY <2>2, <1>1 DEF RemoveStops
<1>12. CleanHas'
  <2>1. ASSUME drv # "key01", ~failed
        PROVE  /\ \A h \in KeyHeld' : h[3] = gpk
               /\ \/ bus.kind = "idle" /\ bound = {}
                  \/ bus.kind = "probe" /\ Pos("bus") <= 2
                  => KeyHeld' = {}
    <3>1. /\ \A h \in KeyHeld : h[3] = gpk
          /\ ~(bus.kind = "idle" /\ bound = {})
          /\ ~(bus.kind = "probe" /\ Pos("bus") <= 2)
      BY <2>1, <1>6 DEF HandlerInv, CleanHas
    <3> QED
      BY <3>1, <1>6, <1>10
  <2> QED
    BY <2>1, <1>1, <1>4 DEF CleanHas
<1> QED
  BY <1>8, <1>9, <1>11, <1>12 DEF HandlerInv

(* The place of a call that just began.                                     *)
LEMMA BeginsAtOne ==
  ASSUME Guarded, drv' = drv, NEW d, NEW k \in {"probe", "remove"}, drv # "led04",
         bus' = [dev |-> d, kind |-> k,
                 prog |-> IF k = "probe" THEN D.probe ELSE D.remove]
  PROVE  Pos("bus")' = 1 /\ bus'.kind = k /\ D' = D /\ NotStopped' = NotStopped
<1>1. D' = D /\ NotStopped' = NotStopped
  BY DEF D, NotStopped
<1>2. D.probe \in Seq(StepSet) /\ D.remove \in Seq(StepSet)
  BY DFits DEF Guarded, Positions, ProbeFits, RemoveFits
<1>3. BusProgram' = bus'.prog /\ Len(bus'.prog) \in Nat
  BY <1>1, <1>2 DEF BusProgram
<1>4. Pos("bus")' = 1
  BY <1>3 DEF Pos, Program, Prog
<1> QED
  BY <1>1, <1>4

(* When remove begins, it has everything it should stop ahead of it.        *)
LEMMA RemoveBegins ==
  ASSUME Guarded, HandlerInv, drv \in KeyDrivers, NEW d \in bound, bus.kind = "idle",
         UNCHANGED <<drv, held, gpk, bound, failed>>,
         bus' = [dev |-> d, kind |-> "remove", prog |-> D.remove]
  PROVE  HandlerInv'
<1>1. Pos("bus")' = 1 /\ bus'.kind = "remove" /\ D' = D /\ NotStopped' = NotStopped
  BY BeginsAtOne DEF KeyDrivers
<1>2. KeyHeld' = KeyHeld
  BY <1>1 DEF KeyHeld
<1>3. HeldFits'
  BY <1>1 DEF HandlerInv, HeldFits
<1>4. ProbeHas' /\ CleanHas'
  BY <1>1, <1>2 DEF HandlerInv, ProbeHas, CleanHas
<1>5. RemoveStops'
  <2>1. ASSUME drv # "key01", NEW h \in KeyHeld
        PROVE  StopAhead(h, 1)
    <3>1. h \in held /\ h[1] \in ({"line"} \cup D.starts) \ NotStopped /\ h[2] \in KeyIndex
      BY <2>1 DEF KeyHeld, HandlerInv, HeldFits
    <3>2. StopAhead(<<h[1], h[2], h[3]>>, 1)
      BY <2>1, <3>1, KeyRemove
    <3> QED
      BY <3>2 DEF StopAhead
  <2>2. ASSUME drv # "key01", NEW h \in KeyHeld
        PROVE  StopAhead(h, Pos("bus"))'
    BY <2>1, <2>2, <1>1 DEF StopAhead
  <2> QED
    BY <2>2, <1>1, <1>2 DEF RemoveStops
<1> QED
  BY <1>3, <1>4, <1>5 DEF HandlerInv

(* When probe begins nothing is bound: there is one device.                 *)
LEMMA ProbeBegins ==
  ASSUME Guarded, HandlerInv, drv \in KeyDrivers, NEW d \in D.devices, Bind(d)
  PROVE  HandlerInv'
<1>1. /\ bus' = [dev |-> d, kind |-> "probe", prog |-> D.probe] /\ bus.kind = "idle"
      /\ d \notin bound /\ UNCHANGED <<drv, held, gpk, bound, failed>>
  BY DEF Bind
<1>2. Pos("bus")' = 1 /\ bus'.kind = "probe" /\ D' = D /\ NotStopped' = NotStopped
  BY <1>1, BeginsAtOne DEF KeyDrivers
<1>3. KeyHeld' = KeyHeld
  BY <1>1, <1>2 DEF KeyHeld
<1>4. bound = {}
  <2>1. D.devices = {1}
    BY KeyD
  <2>2. bound \subseteq D.devices
    BY DEF Guarded, Positions
  <2> QED
    BY <2>1, <2>2, <1>1
<1>5. HeldFits'
  BY <1>1, <1>2 DEF HandlerInv, HeldFits
<1>6. ProbeHas' /\ RemoveStops'
  BY <1>2 DEF ProbeHas, RemoveStops
<1>7. CleanHas'
  BY <1>1, <1>2, <1>3, <1>4 DEF HandlerInv, CleanHas
<1> QED
  BY <1>5, <1>6, <1>7 DEF HandlerInv

(* When remove ends, nothing is left of the array it freed.                 *)
LEMMA CallEnds ==
  ASSUME Guarded, HandlerInv, drv \in KeyDrivers, BusDone
  PROVE  HandlerInv'
<1>1. /\ bus' = BusIdle /\ UNCHANGED <<drv, held, gpk, failed>> /\ bus.prog = << >>
      /\ bus.kind # "idle"
      /\ bus.kind = "probe" => bound' = bound \cup {bus.dev}
  BY DEF BusDone
<1>2. D' = D /\ NotStopped' = NotStopped /\ KeyHeld' = KeyHeld
  BY <1>1 DEF D, NotStopped, KeyHeld
<1>3. HeldFits'
  BY <1>1, <1>2 DEF HandlerInv, HeldFits
<1>4. ProbeHas' /\ RemoveStops'
  BY <1>1 DEF ProbeHas, RemoveStops, BusIdle
<1>5. CleanHas'
  <2>1. ASSUME drv # "key01", ~failed, bus.kind = "remove"
        PROVE  KeyHeld = {}
    <3>1. BusProgram = D.remove /\ Len(D.remove) \in Nat
      BY <2>1, KeyRemove DEF BusProgram
    <3>2. Pos("bus") = Len(BusProgram) - Len(bus.prog) + 1 /\ Len(bus.prog) = 0
      BY <1>1 DEF Pos, Program, Prog
    <3>3. Pos("bus") = Len(D.remove) + 1
      BY <3>1, <3>2
    <3>4. \A h \in KeyHeld : StopAhead(h, Pos("bus"))
      BY <2>1 DEF HandlerInv, RemoveStops, CleanHas
    <3>5. \A h : ~StopAhead(h, Pos("bus"))
      BY <3>1, <3>3 DEF StopAhead
    <3> QED
      BY <3>4, <3>5
  <2>2. bus.kind = "probe" => bound' # {}
    BY <1>1
  <2>3. bus.kind \in {"probe", "remove"}
    BY <1>1 DEF Guarded, Positions
  <2>4. drv # "key01" /\ ~failed => \A h \in KeyHeld : h[3] = gpk
    BY DEF HandlerInv, CleanHas
  <2> QED
    BY <2>1, <2>2, <2>3, <2>4, <1>1, <1>2 DEF CleanHas, BusIdle
<1> QED
  BY <1>3, <1>4, <1>5 DEF HandlerInv

(* A probe that fails frees nothing, and the failure is remembered.         *)
LEMMA CallFails ==
  ASSUME Guarded, HandlerInv, drv \in KeyDrivers, BusStep, Fails("bus"), ~GoesOn("bus")
  PROVE  HandlerInv'
<1> DEFINE s == Head(Prog("bus"))
<1>1. Positions /\ DataTypes /\ Prog("bus") # << >> /\ StepOf("bus") /\ drv' = drv
  BY DEF Guarded, BusStep, Prog
<1>2. failed' = TRUE /\ bus' = BusIdle
  <2>1. ASSUME s.op \in {"take", "need"}
        PROVE  failed' = TRUE
    BY <1>1, <2>1 DEF StepOf, Got, Refused
  <2>2. ASSUME s.op = "read"
        PROVE  failed' = TRUE
    BY <1>1, <2>2 DEF StepOf, PropertyRead
  <2>3. ASSUME s.op = "unbind"
        PROVE  FALSE
    BY <1>1, <2>3, NextStep DEF StepOf, Unbound
  <2>4. ASSUME s.op = "oops"
        PROVE  FALSE
    <3>1. bus' = bus
      BY <1>1, <2>4 DEF StepOf
    <3>2. bus'.kind = "idle" /\ bus.kind # "idle"
      BY <1>1, NextStep DEF Fails, BusIdle
    <3> QED
      BY <3>1, <3>2
  <2>5. s.op # "add_slot"
    BY <1>1, NextStep DEF KeyDrivers, OpsElsewhere
  <2>6. s.op \in {"take", "need", "read", "unbind", "oops"}
    BY <1>1, <2>5 DEF StepOf, Made, Dropped, Awaited, KeysAllocated, KeysFreed, Nothing,
       SlotNode, SlotCleared, SlotsReset, SlotsSwept
  <2> QED
    BY <2>1, <2>2, <2>3, <2>4, <2>6 DEF Fails
<1>3. ASSUME NEW h \in held', h \notin held
      PROVE  FALSE
  BY <1>1, <1>3, HeldGrows
<1>4. \A n : <<"array", 0, n>> \in held => <<"array", 0, n>> \in held'
  BY <1>1, ArrayStays
<1>5. D' = D /\ NotStopped' = NotStopped
  BY <1>1 DEF D, NotStopped
<1>6. HeldFits'
  BY <1>1, <1>3, <1>4, <1>5 DEF HandlerInv, HeldFits
<1>7. ProbeHas' /\ RemoveStops' /\ CleanHas'
  BY <1>2 DEF ProbeHas, RemoveStops, CleanHas, BusIdle
<1> QED
  BY <1>6, <1>7 DEF HandlerInv

(* What probe adds is given the array that was just allocated.              *)
LEMMA ProbeHandlers ==
  ASSUME Guarded, HandlerInv, drv \in KeyDrivers, BusStep, GoesOn("bus"),
         bus.kind = "probe"
  PROVE  HandlerInv'
<1> DEFINE s == Head(Prog("bus"))
           p == Pos("bus")
<1>1. /\ Positions /\ DataTypes /\ Prog("bus") # << >> /\ StepOf("bus") /\ drv' = drv
      /\ bound' = bound /\ drv # "led04"
  BY DEF Guarded, BusStep, Prog, GoesOn, KeyDrivers
<1>2. D' = D /\ NotStopped' = NotStopped
  BY <1>1 DEF D, NotStopped
<1>3. p \in 1 .. Len(D.probe) /\ s = D.probe[p] /\ Len(D.probe) \in Nat
  <2>1. Program("bus") = D.probe
    BY DEF Program, BusProgram
  <2> QED
    BY <2>1, <1>1, NextStep, KeyProbe
<1>4. Pos("bus")' = p + 1 /\ bus'.kind = "probe"
  BY <1>1, GoOn
<1>5. /\ s.op # "kfree" /\ (s.op = "kzalloc" <=> p = 2)
      /\ s.op \in {"take", "need", "make"} /\ s.r \in PerKey =>
           p > 2 /\ s.r \in {"line"} \cup D.starts /\ s.i \in KeyIndex
  BY <1>3, KeyProbe
<1>6. \A n : <<"array", 0, n>> \in held => <<"array", 0, n>> \in held'
  BY <1>1, <1>5, ArrayStays
<1>7. failed => failed'
  BY <1>1, StepKeeps
<1>8. RemoveStops'
  BY <1>4 DEF RemoveStops
<1> HIDE DEF s, p
<1>9. CASE p = 2
  <2>1. /\ gpk' = arrays + 1 /\ held' = held \cup {<<"array", 0, arrays + 1>>}
        /\ failed' = failed
    BY <1>1, <1>5, <1>9, StepKeeps DEF KeysAllocated, s
  <2>2. "array" \notin PerKey
    BY DEF PerKey
  <2>3. \A h \in held' : h[1] \in PerKey => h \in held
    BY <2>1, <2>2
  <2>4. HeldFits'
    BY <2>3, <1>1, <1>2, <1>6 DEF HandlerInv, HeldFits
  <2>5. KeyHeld' \subseteq KeyHeld
    BY <2>3, <1>2 DEF KeyHeld
  <2>6. drv # "key01" /\ ~failed => KeyHeld = {}
    BY <1>9 DEF HandlerInv, CleanHas, p
  <2>7. CleanHas'
    BY <2>1, <2>5, <2>6, <1>1, <1>4, <1>9 DEF CleanHas
  <2>8. ProbeHas'
    BY <2>1 DEF ProbeHas
  <2> QED
    BY <2>4, <2>7, <2>8, <1>8 DEF HandlerInv
<1>10. CASE p # 2
  <2>1. gpk' = gpk
    BY <1>1, <1>5, <1>10, StepKeeps DEF s
  <2>2. ASSUME NEW h \in held', h \notin held, h[1] \in PerKey
        PROVE  /\ p > 2 /\ h[1] \in {"line"} \cup D.starts /\ h[2] \in KeyIndex
               /\ h[3] = gpk
    <3>1. \/ s.op \in {"take", "need", "make"} /\ h = Named(s.r, s.i)
          \/ \E i : h = Static("node", i)
      BY <1>1, <1>5, <1>10, <2>2, HeldGrows DEF s
    <3>2. s.op \in {"take", "need", "make"} /\ h = Named(s.r, s.i)
      BY <3>1, <2>2 DEF Static, PerKey
    <3>3. h[1] = s.r
      BY <3>2 DEF Named, Static
    <3>4. h = <<s.r, s.i, gpk>>
      BY <3>2, <3>3, <2>2 DEF Named
    <3> QED
      BY <3>2, <3>3, <3>4, <2>2, <1>5
  <2>3. p > 2 => <<"array", 0, gpk>> \in held
    BY DEF HandlerInv, ProbeHas, p
  <2>4. HeldFits'
    <3>1. ASSUME NEW h \in held', h[1] \in PerKey
          PROVE  /\ h[1] \in {"line"} \cup D.starts /\ h[2] \in KeyIndex
                 /\ h[1] \notin NotStopped => <<"array", 0, h[3]>> \in held'
      <4>1. CASE h \in held
        BY <3>1, <4>1, <1>6 DEF HandlerInv, HeldFits
      <4>2. CASE h \notin held
        BY <3>1, <4>2, <2>2, <2>3, <1>6
      <4> QED
        BY <4>1, <4>2
    <3> QED
      BY <3>1, <1>1, <1>2 DEF HeldFits
  <2>5. ProbeHas'
    <3>1. p + 1 > 2 => p > 2
      BY <1>3, <1>10
    <3> QED
      BY <3>1, <2>1, <2>3, <1>4, <1>6 DEF ProbeHas
  <2>6. ASSUME drv # "key01", ~failed
        PROVE  /\ \A h \in KeyHeld' : h[3] = gpk
               /\ p + 1 <= 2 => KeyHeld' = {}
    <3>1. /\ \A h \in KeyHeld : h[3] = gpk
          /\ p <= 2 => KeyHeld = {}
      BY <2>6 DEF HandlerInv, CleanHas, p
    <3>2. \A h \in KeyHeld' : h \in KeyHeld \/ (p > 2 /\ h[3] = gpk)
      BY <2>2, <1>2 DEF KeyHeld
    <3>3. p + 1 <= 2 => p <= 2 /\ ~(p > 2)
      BY <1>3
    <3> QED
      BY <3>1, <3>2, <3>3
  <2>7. CleanHas'
    BY <2>1, <2>6, <1>1, <1>4, <1>7 DEF CleanHas
  <2> QED
    BY <2>4, <2>5, <2>7, <1>8 DEF HandlerInv
<1> QED
  BY <1>9, <1>10

(* What remove passes is stopped; what it frees nobody uses.                *)
LEMMA RemoveHandlers ==
  ASSUME Guarded, HandlerInv, drv \in KeyDrivers, BusStep, GoesOn("bus"),
         bus.kind = "remove"
  PROVE  HandlerInv'
<1> DEFINE s == Head(Prog("bus"))
           p == Pos("bus")
<1>1. /\ Positions /\ DataTypes /\ Prog("bus") # << >> /\ StepOf("bus") /\ drv' = drv
      /\ bound' = bound /\ drv # "led04"
  BY DEF Guarded, BusStep, Prog, GoesOn, KeyDrivers
<1>2. D' = D /\ NotStopped' = NotStopped
  BY <1>1 DEF D, NotStopped
<1>3. p \in 1 .. Len(D.remove) /\ s = D.remove[p] /\ Len(D.remove) \in Nat
  <2>1. Program("bus") = D.remove
    BY DEF Program, BusProgram
  <2> QED
    BY <2>1, <1>1, NextStep, KeyRemove
<1>4. Pos("bus")' = p + 1 /\ bus'.kind = "remove"
  BY <1>1, GoOn
<1>5. /\ s.op \notin {"take", "need", "make", "kzalloc"}
      /\ s.op = "kfree" => p = Len(D.remove) /\ drv # "key01"
  BY <1>3, KeyRemove
<1>6. gpk' = gpk /\ (failed => failed')
  BY <1>1, <1>5, StepKeeps
<1>7. \A n : <<"array", 0, n>> \in held /\ <<"array", 0, n>> \notin held' =>
        s.op = "kfree" /\ n = gpk
  BY <1>1, ArrayStays
<1>8. \A h \in held' : h[1] \in PerKey => h \in held
  <2>1. ASSUME NEW h \in held', h \notin held
        PROVE  h[1] \notin PerKey
    <3>1. \E i : h = Static("node", i)
      BY <1>1, <1>5, <2>1, HeldGrows
    <3> QED
      BY <3>1 DEF Static, PerKey
  <2> QED
    BY <2>1
<1>9. KeyHeld' \subseteq KeyHeld
  BY <1>8, <1>2 DEF KeyHeld
<1>10. ASSUME s.op \in {"drop", "await"}, s.r \in PerKey
       PROVE  <<s.r, s.i, gpk>> \notin held'
  <2>1. Named(s.r, s.i) = <<s.r, s.i, gpk>>
    BY <1>10 DEF Named
  <2>2. Dropped("bus", s) \/ Awaited("bus", s)
    BY <1>1, <1>10 DEF StepOf
  <2> QED
    BY <2>1, <2>2 DEF Dropped, Awaited
<1> HIDE DEF s, p
<1>11. ASSUME NEW h \in KeyHeld', h[3] = gpk, drv # "key01"
       PROVE  s.op # "kfree" /\ StopAhead(h, p + 1)
  <2>1. h \in KeyHeld /\ h \in held' /\ h[1] \in PerKey
    BY <1>9, <1>11 DEF KeyHeld
  <2>2. PICK j \in 1 .. Len(D.remove) :
          /\ j >= p /\ Stops(D.remove[j], h[1], h[2])
          /\ h[1] = "line" =>
               \A r \in D.starts \ NotStopped :
                 \E n \in j + 1 .. Len(D.remove) : Stops(D.remove[n], r, h[2])
    <3>1. StopAhead(h, p)
      BY <2>1, <1>11 DEF HandlerInv, RemoveStops, p
    <3> QED
      BY <3>1 DEF StopAhead
  <2>3. j # p
    <3>1. ASSUME j = p
          PROVE  FALSE
      <4>1. s.op \in {"drop", "await"} /\ s.r = h[1] /\ s.i = h[2]
        BY <2>2, <3>1, <1>3 DEF Stops
      <4>2. h = <<h[1], h[2], gpk>>
        BY <2>1, <1>1, <1>11 DEF KeyHeld, DataTypes
      <4> QED
        BY <4>1, <4>2, <2>1, <1>10
    <3> QED
      BY <3>1
  <2>4. j >= p + 1 /\ p # Len(D.remove)
    BY <2>2, <2>3, <1>3
  <2>5. StopAhead(h, p + 1)
    BY <2>2, <2>4 DEF StopAhead
  <2> QED
    BY <2>4, <2>5, <1>5
<1>12. HeldFits'
  <2>1. ASSUME NEW h \in held', h[1] \in PerKey
        PROVE  /\ h[1] \in {"line"} \cup D.starts /\ h[2] \in KeyIndex
               /\ h[1] \notin NotStopped => <<"array", 0, h[3]>> \in held'
    <3>1. h \in held
      BY <2>1, <1>8
    <3>2. ASSUME h[1] \notin NotStopped, <<"array", 0, h[3]>> \notin held'
          PROVE  FALSE
      <4>1. <<"array", 0, h[3]>> \in held
        BY <2>1, <3>1, <3>2 DEF HandlerInv, HeldFits
      <4>2. s.op = "kfree" /\ h[3] = gpk
        BY <4>1, <3>2, <1>7
      <4>3. h \in KeyHeld'
        BY <2>1, <3>2, <1>2 DEF KeyHeld
      <4> QED
        BY <4>2, <4>3, <1>5, <1>11
    <3> QED
      BY <2>1, <3>1, <3>2 DEF HandlerInv, HeldFits
  <2> QED
    BY <2>1, <1>1, <1>2 DEF HeldFits
<1>13. ProbeHas'
  BY <1>4 DEF ProbeHas
<1>14. RemoveStops'
  <2>1. ASSUME NEW h \in KeyHeld', h[3] = gpk, drv # "key01"
        PROVE  StopAhead(h, Pos("bus"))'
    <3>1. StopAhead(h, p + 1)
      BY <1>11, <2>1
    <3> QED
      BY <3>1, <1>2, <1>4 DEF StopAhead
  <2> QED
    BY <2>1, <1>1, <1>6 DEF RemoveStops
<1>15. CleanHas'
  <2>1. drv # "key01" /\ ~failed => \A h \in KeyHeld : h[3] = gpk
    BY DEF HandlerInv, CleanHas
  <2> QED
    BY <2>1, <1>1, <1>4, <1>6, <1>9 DEF CleanHas
<1> QED
  BY <1>12, <1>13, <1>14, <1>15 DEF HandlerInv

(* Every operation keeps what handlers read.                                *)
LEMMA NextHandlers ==
  ASSUME Guarded, HandlerInv, [Next]_vars
  PROVE  HandlerInv'
<1>1. CASE drv \notin KeyDrivers
  BY <1>1, OtherHandlers
<1>2. CASE drv \in KeyDrivers
  <2>1. CASE ModuleStep
    BY <1>2, <2>1, ModuleHandlers, RemoveBegins
  <2>2. CASE BusStep
    <3>1. /\ Positions /\ Prog("bus") # << >> /\ StepOf("bus") /\ drv' = drv
          /\ bus.kind \in {"probe", "remove"}
      BY <2>2, NextStep DEF Guarded, BusStep, Prog, Positions
    <3>2. CASE GoesOn("bus")
      BY <1>2, <2>2, <3>1, <3>2, ProbeHandlers, RemoveHandlers
    <3>3. CASE Fails("bus") /\ ~GoesOn("bus")
      BY <1>2, <2>2, <3>3, CallFails
    <3>4. CASE /\ Head(Prog("bus")).op \in {"oops", "add_slot"}
               /\ UNCHANGED <<run, bus, text, bound>>
      <4>1. Head(Prog("bus")).op = "oops"
        BY <3>1, <3>4, <1>2, NextStep DEF KeyDrivers, OpsElsewhere
      <4>2. UNCHANGED <<held, failed, gpk>>
        BY <3>1, <4>1 DEF StepOf, keyVars
      <4> QED
        BY <4>2, <3>1, <3>4, HandlersKept
    <3> QED
      BY <3>1, <3>2, <3>3, <3>4, StepMoves
  <2>3. CASE \E m \in {"m1", "m2"} : Load(m)
    BY <1>2, <2>3, LoadHandlers
  <2>4. CASE \E d \in D.devices : Bind(d)
    BY <1>2, <2>4, ProbeBegins
  <2>5. CASE \E d \in D.devices : Unbind(d)
    <3>1. PICK d \in D.devices : Unbind(d)
      BY <2>5
    <3>2. /\ d \in bound /\ bus.kind = "idle" /\ UNCHANGED <<drv, held, gpk, bound, failed>>
          /\ bus' = [dev |-> d, kind |-> "remove", prog |-> D.remove]
      BY <3>1 DEF Unbind
    <3> QED
      BY <1>2, <3>2, RemoveBegins
  <2>6. CASE BusDone
    BY <1>2, <2>6, CallEnds
  <2>7. CASE Interrupt
    BY <1>2, <2>7, InterruptHandlers
  <2>8. CASE \/ ModuleDone \/ (\E m \in {"m1", "m2"} : Unload(m)) \/ Open \/ Use \/ Close
             \/ HandlerRuns \/ UNCHANGED vars
    <3>1. /\ UNCHANGED <<drv, gpk, bus, bound, failed>>
          /\ \/ held' = held \/ held' = held \cup Mapped
             \/ \E h \in held : h[1] \in PerKey /\ held' = held \ {h}
      BY <2>8, OutsideKeeps, OutsideHolds DEF ModuleDone, Unload, busVars, vars
    <3>2. \A n : <<"array", 0, n>> \in held => <<"array", 0, n>> \in held'
      BY <3>1 DEF PerKey
    <3>3. \A h \in held' : h[1] \in PerKey => h \in held
      BY <3>1 DEF Mapped, Static, PerKey
    <3> QED
      BY <3>1, <3>2, <3>3, HandlersKept
  <2> QED
    BY <2>1, <2>2, <2>3, <2>4, <2>5, <2>6, <2>7, <2>8 DEF Next
<1> QED
  BY <1>1, <1>2

(* The invariants about the keys hold of every behaviour.                   *)
LEMMA AlwaysHandlers == Spec => [](Guarded /\ HandlerInv)
<1>1. Init => HandlerInv
  BY DEF Init, HandlerInv, HeldFits, ProbeHas, RemoveStops, CleanHas, KeyHeld, BusIdle
<1>2. Guarded /\ HandlerInv /\ [Next]_vars => HandlerInv'
  BY NextHandlers
<1> QED
  BY <1>1, <1>2, LifeGuarded, PTL DEF Spec

(* Every handler that may still run, of those remove stops, has its array,  *)
(* whatever was loaded, bound, refused, unbound and unloaded before; and    *)
(* unless a probe has failed, so has the one that reads g_p_keys.           *)
THEOREM LifeHandlers == Spec => []HandlersReadLive
<1>1. ASSUME HandlerInv, Guarded
      PROVE  HandlersReadLive
  <2>1. ASSUME NEW h \in held, h[1] \in PerKey \ NotStopped
        PROVE  /\ <<"array", 0, h[3]>> \in held
               /\ Records(h) => failed \/ <<"array", 0, gpk>> \in held
    <3>1. /\ <<"array", 0, h[3]>> \in held /\ drv \in KeyDrivers
          /\ h[1] \in {"line"} \cup D.starts
      BY <1>1, <2>1 DEF HandlerInv, HeldFits
    <3>2. Records(h) => drv # "key01"
      <4>1. ASSUME drv = "key01"
            PROVE  ~Records(h)
        <5>1. StageOf[drv] = 1 /\ D.starts = {}
          BY <4>1, <3>1, KeyD, StartsAre
        <5> QED
          BY <5>1, <3>1 DEF Records
      <4> QED
        BY <4>1
    <3>3. drv # "key01" /\ ~failed => h[3] = gpk
      BY <1>1, <2>1, <3>1 DEF HandlerInv, CleanHas, KeyHeld
    <3> QED
      BY <3>1, <3>2, <3>3
  <2> QED
    BY <2>1 DEF HandlersReadLive
<1> QED
  BY <1>1, AlwaysHandlers, PTL

-----------------------------------------------------------------------------
(* Who follows a bad pointer: the class is there while nodes are made and   *)
(* destroyed in it.                                                         *)

Unchecked == {"led_simple", "led_imx6ull", "led_stm32mp157", "gpio_led"}

\* The drivers that make their class when a device is bound.
ByDevice == {"gpio_led"} \cup (KeyDrivers \ {"key01"})
ByModule == DOMAIN CharDriver \cup {"led05", "button"}

\* The class is made, by code that does not go on without it unless it is one
\* of those that look at nothing; and destroyed.
ClassMade(d, s) ==
  s.r = "class" /\ (s.op = "need" \/ (s.op = "take" /\ d \in Unchecked))
ClassGone(s) == s.r = "class" /\ s.op = "drop"

\* A step that has nothing to do with the class; one that may follow the
\* class's creation; one that may precede its destruction, and cannot fail;
\* one that may follow it.
PlainStep(s) == s.op # "oops" /\ s.r \notin {"class", "node"} /\ "class" \notin s.undo
UseStep(s) == /\ s.op # "oops" /\ s.r # "class"
              /\ s.op = "drop" => s.r # "node"
              /\ s.op = "take" => "class" \notin s.undo
DropStep(s) == s.op \notin {"oops", "take", "need", "read"} /\ s.r # "class"
SureStep(s) == PlainStep(s) /\ DropStep(s)

\* Code of a driver that has nothing to do with its class, also without
\* failing, has its class, is about to make it, and is about to destroy it.
Plain(p) == \A i \in 1 .. Len(p) : PlainStep(p[i])
Sure(p) == \A i \in 1 .. Len(p) : SureStep(p[i])
Uses(p) == \A i \in 1 .. Len(p) : UseStep(p[i])
Makes(d, p) ==
  \E c \in 1 .. Len(p) :
    /\ ClassMade(d, p[c])
    /\ \A i \in 1 .. c - 1 : PlainStep(p[i])
    /\ \A i \in c + 1 .. Len(p) : UseStep(p[i])
Drops(p) ==
  \E c \in 1 .. Len(p) :
    /\ ClassGone(p[c])
    /\ \A i \in 1 .. c - 1 : DropStep(p[i])
    /\ \A i \in c + 1 .. Len(p) : SureStep(p[i])

ClassFits(d) ==
  LET v == Driver[d]
  IN  /\ Plain(v.m2.init) /\ Plain(v.m2.exit)
      /\ d \in ByModule =>
           /\ Makes(d, v.m1.init) /\ Drops(v.m1.exit)
           /\ Plain(v.probe) /\ Plain(v.remove)
      /\ d \notin ByModule => Plain(v.m1.init) /\ Plain(v.m1.exit)
      /\ d \in ByDevice =>
           /\ Makes(d, v.probe) /\ Drops(v.remove) /\ v.devices = {1}
           /\ d # "gpio_led" => v.failure = "unbound"
      /\ d = "key01" => Plain(v.probe) /\ Plain(v.remove)

\* The drivers, failures and counts for which the code of the modules follows
\* no bad pointer.
Sound ==
  /\ drv # "led04" /\ (failed => drv \notin Unchecked)
  /\ drv \in OpsElsewhere => binds <= CAP

\* Where the class is made, and where it goes.
Making(p) == Makes(drv, p) \/ (Uses(p) /\ cls = "ok")
Dropping(p) == (Drops(p) /\ cls = "ok") \/ Sure(p)

ModuleClass ==
  /\ text["m1"] = "live" => cls = "ok"
  /\ run.kind = "init" /\ run.mod = "m1" => Making(run.prog)
  /\ run.kind = "exit" /\ run.mod = "m1" => Dropping(run.prog)
  /\ run.mod = "m2" => Plain(run.prog)
  /\ Plain(bus.prog)
DeviceClass ==
  /\ bus.kind = "idle" /\ bound # {} => cls = "ok"
  /\ bus.kind = "probe" => bound = {} /\ Making(bus.prog)
  /\ bus.kind = "remove" => Dropping(bus.prog)
  /\ Plain(run.prog)

ClassInv ==
  Sound /\ ~oops =>
    /\ drv \in ByModule => ModuleClass
    /\ drv \in ByDevice => DeviceClass
    /\ drv = "key01" => Plain(run.prog) /\ Plain(bus.prog)

\* Code that destroys nodes, but keeps the class.
Loose(p) == \A i \in 1 .. Len(p) : DropStep(p[i])

(* One program after another.                                               *)
LEMMA ClassCat ==
  ASSUME NEW d, NEW p \in Seq(StepSet), NEW q \in Seq(StepSet)
  PROVE  /\ Plain(p) /\ Plain(q) => Plain(p \o q)
         /\ Plain(p) /\ Makes(d, q) => Makes(d, p \o q)
         /\ Makes(d, p) /\ Uses(q) => Makes(d, p \o q)
         /\ Loose(p) /\ Drops(q) => Drops(p \o q)
<1> DEFINE r == p \o q
<1>1. /\ Len(p) \in Nat /\ Len(q) \in Nat /\ Len(r) = Len(p) + Len(q)
      /\ \A i \in 1 .. Len(p) : r[i] = p[i]
      /\ \A i \in 1 .. Len(q) : r[Len(p) + i] = q[i]
      /\ \A i \in 1 .. Len(r) : i \in 1 .. Len(p) \/ i - Len(p) \in 1 .. Len(q)
  OBVIOUS
<1>2. \A i \in 1 .. Len(r) : i - Len(p) \in 1 .. Len(q) => r[i] = q[i - Len(p)]
  OBVIOUS
<1> HIDE DEF r
<1>3. Plain(p) /\ Plain(q) => Plain(r)
  BY <1>1, <1>2 DEF Plain
<1>4. ASSUME Plain(p), Makes(d, q)
      PROVE  Makes(d, r)
  <2>1. PICK c \in 1 .. Len(q) :
          /\ ClassMade(d, q[c])
          /\ \A i \in 1 .. c - 1 : PlainStep(q[i])
          /\ \A i \in c + 1 .. Len(q) : UseStep(q[i])
    BY <1>4 DEF Makes
  <2>2. Len(p) + c \in 1 .. Len(r) /\ r[Len(p) + c] = q[c]
    BY <1>1
  <2>3. \A i \in 1 .. Len(p) + c - 1 : PlainStep(r[i])
    <3>1. ASSUME NEW i \in 1 .. Len(p) + c - 1
          PROVE  \/ i \in 1 .. Len(p) /\ r[i] = p[i]
                 \/ i - Len(p) \in 1 .. c - 1 /\ r[i] = q[i - Len(p)]
      BY <1>1, <1>2
    <3> QED
      BY <3>1, <2>1, <1>4 DEF Plain
  <2>4. \A i \in Len(p) + c + 1 .. Len(r) : UseStep(r[i])
    <3>1. ASSUME NEW i \in Len(p) + c + 1 .. Len(r)
          PROVE  i - Len(p) \in c + 1 .. Len(q) /\ r[i] = q[i - Len(p)]
      BY <1>1, <1>2
    <3> QED
      BY <3>1, <2>1
  <2> QED
    BY <2>1, <2>2, <2>3, <2>4 DEF Makes
<1>5. ASSUME Makes(d, p), Uses(q)
      PROVE  Makes(d, r)
  <2>1. PICK c \in 1 .. Len(p) :
          /\ ClassMade(d, p[c])
          /\ \A i \in 1 .. c - 1 : PlainStep(p[i])
          /\ \A i \in c + 1 .. Len(p) : UseStep(p[i])
    BY <1>5 DEF Makes
  <2>2. c \in 1 .. Len(r) /\ r[c] = p[c]
    BY <1>1
  <2>3. \A i \in 1 .. c - 1 : PlainStep(r[i])
    <3>1. \A i \in 1 .. c - 1 : r[i] = p[i]
      BY <1>1
    <3> QED
      BY <3>1, <2>1
  <2>4. \A i \in c + 1 .. Len(r) : UseStep(r[i])
    <3>1. ASSUME NEW i \in c + 1 .. Len(r)
          PROVE  \/ i \in c + 1 .. Len(p) /\ r[i] = p[i]
                 \/ i - Len(p) \in 1 .. Len(q) /\ r[i] = q[i - Len(p)]
      BY <1>1, <1>2
    <3> QED
      BY <3>1, <2>1, <1>5 DEF Uses
  <2> QED
    BY <2>1, <2>2, <2>3, <2>4 DEF Makes
<1>6. ASSUME Loose(p), Drops(q)
      PROVE  Drops(r)
  <2>1. PICK c \in 1 .. Len(q) :
          /\ ClassGone(q[c])
          /\ \A i \in 1 .. c - 1 : DropStep(q[i])
          /\ \A i \in c + 1 .. Len(q) : SureStep(q[i])
    BY <1>6 DEF Drops
  <2>2. Len(p) + c \in 1 .. Len(r) /\ r[Len(p) + c] = q[c]
    BY <1>1
  <2>3. \A i \in 1 .. Len(p) + c - 1 : DropStep(r[i])
    <3>1. ASSUME NEW i \in 1 .. Len(p) + c - 1
          PROVE  \/ i \in 1 .. Len(p) /\ r[i] = p[i]
                 \/ i - Len(p) \in 1 .. c - 1 /\ r[i] = q[i - Len(p)]
      BY <1>1, <1>2
    <3> QED
      BY <3>1, <2>1, <1>6 DEF Loose
  <2>4. \A i \in Len(p) + c + 1 .. Len(r) : SureStep(r[i])
    <3>1. ASSUME NEW i \in Len(p) + c + 1 .. Len(r)
          PROVE  i - Len(p) \in c + 1 .. Len(q) /\ r[i] = q[i - Len(p)]
      BY <1>1, <1>2
    <3> QED
      BY <3>1, <2>1
  <2> QED
    BY <2>1, <2>2, <2>3, <2>4 DEF Drops
<1> QED
  BY <1>3, <1>4, <1>5, <1>6 DEF r

(* Programs that are written out, by what their steps do: the short ones.   *)
LEMMA ShortTuples ==
  ASSUME NEW d
  PROVE  /\ Plain(<< >>) /\ Sure(<< >>)
         /\ \A a, b : PlainStep(a) /\ ClassMade(d, b) =>
                Makes(d, <<a, b>>)
         /\ \A a, b, c : PlainStep(a) /\ ClassMade(d, b) /\ UseStep(c) =>
                Makes(d, <<a, b, c>>)
         /\ \A a, b : ClassGone(a) /\ SureStep(b) =>
                Drops(<<a, b>>)
         /\ \A a, b, c : DropStep(a) /\ ClassGone(b) /\ SureStep(c) =>
                Drops(<<a, b, c>>)
         /\ \A a, b, c, e :
              DropStep(a) /\ ClassGone(b)
              /\ SureStep(c) /\ SureStep(e) =>
                Drops(<<a, b, c, e>>)
         /\ \A a, b, c, e, f :
              DropStep(a) /\ DropStep(b) /\ DropStep(c)
              /\ ClassGone(e) /\ SureStep(f) =>
                Drops(<<a, b, c, e, f>>)
         /\ \A a : PlainStep(a) =>
                Plain(<<a>>)
         /\ \A a, b : PlainStep(a) /\ PlainStep(b) =>
                Plain(<<a, b>>)
         /\ \A a, b, c : DropStep(a) /\ DropStep(b) /\ DropStep(c) =>
                Loose(<<a, b, c>>)
         /\ \A a, b, c, e :
              DropStep(a) /\ DropStep(b)
              /\ DropStep(c) /\ DropStep(e) =>
                Loose(<<a, b, c, e>>)
         /\ \A a : UseStep(a) =>
                Uses(<<a>>)
<1>1. Plain(<< >>) /\ Sure(<< >>)
  BY DEF Plain, Sure
<1>2. ASSUME NEW a, NEW b, PlainStep(a), ClassMade(d, b)
      PROVE  Makes(d, <<a, b>>)
  <2> DEFINE p == <<a, b>>
  <2>1. Len(p) = 2 /\ p[1] = a /\ p[2] = b
    OBVIOUS
  <2> HIDE DEF p
  <2>2. /\ 2 \in 1 .. Len(p) /\ ClassMade(d, p[2])
        /\ \A i \in 1 .. 2 - 1 : PlainStep(p[i])
        /\ \A i \in 2 + 1 .. Len(p) : UseStep(p[i])
    BY <2>1, <1>2
  <2>3. Makes(d, p)
    BY <2>2 DEF Makes
  <2> QED
    BY <2>3 DEF p
<1>3. ASSUME NEW a, NEW b, NEW c, PlainStep(a), ClassMade(d, b), UseStep(c)
      PROVE  Makes(d, <<a, b, c>>)
  <2> DEFINE p == <<a, b, c>>
  <2>1. Len(p) = 3 /\ p[1] = a /\ p[2] = b /\ p[3] = c
    OBVIOUS
  <2> HIDE DEF p
  <2>2. /\ 2 \in 1 .. Len(p) /\ ClassMade(d, p[2])
        /\ \A i \in 1 .. 2 - 1 : PlainStep(p[i])
        /\ \A i \in 2 + 1 .. Len(p) : UseStep(p[i])
    BY <2>1, <1>3
  <2>3. Makes(d, p)
    BY <2>2 DEF Makes
  <2> QED
    BY <2>3 DEF p
<1>4. ASSUME NEW a, NEW b, ClassGone(a), SureStep(b)
      PROVE  Drops(<<a, b>>)
  <2> DEFINE p == <<a, b>>
  <2>1. Len(p) = 2 /\ p[1] = a /\ p[2] = b
    OBVIOUS
  <2> HIDE DEF p
  <2>2. /\ 1 \in 1 .. Len(p) /\ ClassGone(p[1])
        /\ \A i \in 1 .. 1 - 1 : DropStep(p[i])
        /\ \A i \in 1 + 1 .. Len(p) : SureStep(p[i])
    BY <2>1, <1>4
  <2>3. Drops(p)
    BY <2>2 DEF Drops
  <2> QED
    BY <2>3 DEF p
<1>5. ASSUME NEW a, NEW b, NEW c, DropStep(a), ClassGone(b), SureStep(c)
      PROVE  Drops(<<a, b, c>>)
  <2> DEFINE p == <<a, b, c>>
  <2>1. Len(p) = 3 /\ p[1] = a /\ p[2] = b /\ p[3] = c
    OBVIOUS
  <2> HIDE DEF p
  <2>2. /\ 2 \in 1 .. Len(p) /\ ClassGone(p[2])
        /\ \A i \in 1 .. 2 - 1 : DropStep(p[i])
        /\ \A i \in 2 + 1 .. Len(p) : SureStep(p[i])
    BY <2>1, <1>5
  <2>3. Drops(p)
    BY <2>2 DEF Drops
  <2> QED
    BY <2>3 DEF p
<1>6. ASSUME NEW a, NEW b, NEW c, NEW e,
             DropStep(a), ClassGone(b), SureStep(c), SureStep(e)
      PROVE  Drops(<<a, b, c, e>>)
  <2> DEFINE p == <<a, b, c, e>>
  <2>1. Len(p) = 4 /\ p[1] = a /\ p[2] = b /\ p[3] = c /\ p[4] = e
    OBVIOUS
  <2> HIDE DEF p
  <2>2. /\ 2 \in 1 .. Len(p) /\ ClassGone(p[2])
        /\ \A i \in 1 .. 2 - 1 : DropStep(p[i])
        /\ \A i \in 2 + 1 .. Len(p) : SureStep(p[i])
    BY <2>1, <1>6
  <2>3. Drops(p)
    BY <2>2 DEF Drops
  <2> QED
    BY <2>3 DEF p
<1>7. ASSUME NEW a, NEW b, NEW c, NEW e, NEW f,
             DropStep(a), DropStep(b), DropStep(c), ClassGone(e), SureStep(f)
      PROVE  Drops(<<a, b, c, e, f>>)
  <2> DEFINE p == <<a, b, c, e, f>>
  <2>1. Len(p) = 5 /\ p[1] = a /\ p[2] = b /\ p[3] = c /\ p[4] = e /\ p[5] = f
    OBVIOUS
  <2> HIDE DEF p
  <2>2. /\ 4 \in 1 .. Len(p) /\ ClassGone(p[4])
        /\ \A i \in 1 .. 4 - 1 : DropStep(p[i])
        /\ \A i \in 4 + 1 .. Len(p) : SureStep(p[i])
    BY <2>1, <1>7
  <2>3. Drops(p)
    BY <2>2 DEF Drops
  <2> QED
    BY <2>3 DEF p
<1>8. ASSUME NEW a, PlainStep(a)
      PROVE  Plain(<<a>>)
  BY <1>8 DEF Plain
<1>9. ASSUME NEW a, NEW b, PlainStep(a), PlainStep(b)
      PROVE  Plain(<<a, b>>)
  BY <1>9 DEF Plain
<1>10. ASSUME NEW a, NEW b, NEW c, DropStep(a), DropStep(b), DropStep(c)
      PROVE  Loose(<<a, b, c>>)
  BY <1>10 DEF Loose
<1>11. ASSUME NEW a, NEW b, NEW c, NEW e,
             DropStep(a), DropStep(b), DropStep(c), DropStep(e)
      PROVE  Loose(<<a, b, c, e>>)
  BY <1>11 DEF Loose
<1>12. ASSUME NEW a, UseStep(a)
      PROVE  Uses(<<a>>)
  BY <1>12 DEF Uses
<1> QED
  BY <1>1, <1>2, <1>3, <1>4, <1>5, <1>6, <1>7, <1>8, <1>9, <1>10, <1>11, <1>12

(* Four steps, the class third.                                             *)
LEMMA MakesFour ==
  ASSUME NEW d
  PROVE  \A a, b, c, e :
           PlainStep(a) /\ PlainStep(b)
           /\ ClassMade(d, c) /\ UseStep(e) =>
             Makes(d, <<a, b, c, e>>)
<1>1. ASSUME NEW a, NEW b, NEW c, NEW e,
             PlainStep(a), PlainStep(b), ClassMade(d, c), UseStep(e)
      PROVE  Makes(d, <<a, b, c, e>>)
  <2> DEFINE p == <<a, b, c, e>>
  <2>1. Len(p) = 4 /\ p[1] = a /\ p[2] = b /\ p[3] = c /\ p[4] = e
    OBVIOUS
  <2> HIDE DEF p
  <2>2. /\ 3 \in 1 .. Len(p) /\ ClassMade(d, p[3])
        /\ \A i \in 1 .. 3 - 1 : PlainStep(p[i])
        /\ \A i \in 3 + 1 .. Len(p) : UseStep(p[i])
    BY <2>1, <1>1
  <2>3. Makes(d, p)
    BY <2>2 DEF Makes
  <2> QED
    BY <2>3 DEF p
<1> QED
  BY <1>1

(* Five steps, the class second.                                            *)
LEMMA MakesFive ==
  ASSUME NEW d
  PROVE  \A a, b, c, e, f :
           PlainStep(a) /\ ClassMade(d, b) /\ UseStep(c)
           /\ UseStep(e) /\ UseStep(f) =>
             Makes(d, <<a, b, c, e, f>>)
<1>1. ASSUME NEW a, NEW b, NEW c, NEW e, NEW f,
             PlainStep(a), ClassMade(d, b), UseStep(c), UseStep(e), UseStep(f)
      PROVE  Makes(d, <<a, b, c, e, f>>)
  <2> DEFINE p == <<a, b, c, e, f>>
  <2>1. Len(p) = 5 /\ p[1] = a /\ p[2] = b /\ p[3] = c /\ p[4] = e /\ p[5] = f
    OBVIOUS
  <2> HIDE DEF p
  <2>2. /\ 2 \in 1 .. Len(p) /\ ClassMade(d, p[2])
        /\ \A i \in 1 .. 2 - 1 : PlainStep(p[i])
        /\ \A i \in 2 + 1 .. Len(p) : UseStep(p[i])
    BY <2>1, <1>1
  <2>3. Makes(d, p)
    BY <2>2 DEF Makes
  <2> QED
    BY <2>3 DEF p
<1> QED
  BY <1>1

(* Six steps, the class last but one.                                       *)
LEMMA MakesSix ==
  ASSUME NEW d
  PROVE  \A a, b, c, e, f, g :
           PlainStep(a) /\ PlainStep(b) /\ PlainStep(c)
           /\ PlainStep(e) /\ ClassMade(d, f) /\ UseStep(g) =>
             Makes(d, <<a, b, c, e, f, g>>)
<1>1. ASSUME NEW a, NEW b, NEW c, NEW e, NEW f, NEW g,
             PlainStep(a), PlainStep(b), PlainStep(c), PlainStep(e), ClassMade(d, f), UseStep(g)
      PROVE  Makes(d, <<a, b, c, e, f, g>>)
  <2> DEFINE p == <<a, b, c, e, f, g>>
  <2>1. Len(p) = 6 /\ p[1] = a /\ p[2] = b /\ p[3] = c /\ p[4] = e /\ p[5] = f /\ p[6] = g
    OBVIOUS
  <2> HIDE DEF p
  <2>2. /\ 5 \in 1 .. Len(p) /\ ClassMade(d, p[5])
        /\ \A i \in 1 .. 5 - 1 : PlainStep(p[i])
        /\ \A i \in 5 + 1 .. Len(p) : UseStep(p[i])
    BY <2>1, <1>1
  <2>3. Makes(d, p)
    BY <2>2 DEF Makes
  <2> QED
    BY <2>3 DEF p
<1> QED
  BY <1>1

(* And seven.                                                               *)
LEMMA MakesSeven ==
  ASSUME NEW d
  PROVE  \A a, b, c, e, f, g, h :
           PlainStep(a) /\ PlainStep(b) /\ PlainStep(c) /\ PlainStep(e)
           /\ PlainStep(f) /\ ClassMade(d, g) /\ UseStep(h) =>
             Makes(d, <<a, b, c, e, f, g, h>>)
<1>1. ASSUME NEW a, NEW b, NEW c, NEW e, NEW f, NEW g, NEW h,
             PlainStep(a), PlainStep(b), PlainStep(c), PlainStep(e),
             PlainStep(f), ClassMade(d, g), UseStep(h)
      PROVE  Makes(d, <<a, b, c, e, f, g, h>>)
  <2> DEFINE p == <<a, b, c, e, f, g, h>>
  <2>1. Len(p) = 7 /\ p[1] = a /\ p[2] = b /\ p[3] = c /\ p[4] = e /\ p[5] = f
        /\ p[6] = g /\ p[7] = h
    OBVIOUS
  <2> HIDE DEF p
  <2>2. /\ 6 \in 1 .. Len(p) /\ ClassMade(d, p[6])
        /\ \A i \in 1 .. 6 - 1 : PlainStep(p[i])
        /\ \A i \in 6 + 1 .. Len(p) : UseStep(p[i])
    BY <2>1, <1>1
  <2>3. Makes(d, p)
    BY <2>2 DEF Makes
  <2> QED
    BY <2>3 DEF p
<1> QED
  BY <1>1

(* What the steps of these programs do.                                     *)
LEMMA ClassSteps ==
  ASSUME NEW d
  PROVE  /\ \A r \in Names \ {"class", "node"} : \A k :
              /\ PlainStep(Take(r, k)) /\ PlainStep(Make(r, k)) /\ PlainStep(Drop(r, k))
              /\ PlainStep(Await(r, k)) /\ DropStep(Drop(r, k)) /\ DropStep(Await(r, k))
              /\ UseStep(Make(r, k))
              /\ \A u : "class" \notin u => PlainStep(Need(r, k, u))
         /\ \A k : \A u : UseStep(Take("node", k)) /\ UseStep(Need("node", k, u))
         /\ \A k : DropStep(Drop("node", k))
         /\ \A k, u : ClassMade(d, Need("class", k, u))
         /\ d \in Unchecked => \A k : ClassMade(d, Take("class", k))
         /\ \A k : ClassGone(Drop("class", k))
         /\ PlainStep(Read)
         /\ \A o \in Ops \ {"oops"} : PlainStep(Do(o))
         /\ \A r \in Names \ {"class", "node"} : \A k : SureStep(Drop(r, k))
         /\ SureStep(Do("kfree"))
BY DEF Ops, PlainStep, SureStep, UseStep, DropStep, ClassMade, ClassGone, Take, Make, Drop, Await, Need,
   Read, Do, Step

(* The programs that are written out.                                       *)
LEMMA ClassPrograms ==
  ASSUME NEW d
  PROVE  /\ Makes(d, hello_init01) /\ Makes(d, hello_init01b)
         /\ Makes(d, hello_init07) /\ Makes(d, led_init01)
         /\ Makes(d, led_init04) /\ Makes(d, Nodes)
         /\ Makes(d, gpio_led_probe) /\ Drops(hello_exit01)
         /\ Drops(hello_exit01b) /\ Drops(led_exit01) /\ Drops(led_exit04)
         /\ Drops(NoNodes) /\ Drops(gpio_led_remove) /\ Plain(Begin)
         /\ Plain(led_drv_init04) /\ Plain(led_drv_exit04)
         /\ Plain(led_drv_probe05) /\ Plain(led_drv_remove05)
         /\ Plain(button_remove) /\ Plain(gpio_led_init)
         /\ Plain(gpio_led_exit) /\ Plain(keys_remove01)
         /\ d \in Unchecked =>
              /\ Makes(d, led_init_simple)
              /\ Makes(d, led_init_imx6ull)
              /\ Makes(d, led_init_stm32mp157)
<1>1. Makes(d, hello_init01)
  <2>1. /\ PlainStep(Take("chrdev", 0))
        /\ ClassMade(d, Need("class", 0, {"chrdev"})) /\ UseStep(Take("node", 0))
    BY ClassSteps DEF Names, Ops, PerKey
  <2>2. Makes(d, <<Take("chrdev", 0), Need("class", 0, {"chrdev"}), Take("node", 0)>>)
    BY <2>1, ShortTuples, Zenon
  <2> QED
    BY <2>2 DEF hello_init01
<1>2. Makes(d, hello_init01b)
  <2>1. /\ PlainStep(Take("region", 0)) /\ PlainStep(Take("cdev", 0))
        /\ ClassMade(d, Need("class", 0, {})) /\ UseStep(Take("node", 0))
    BY ClassSteps DEF Names, Ops, PerKey
  <2>2. Makes(d, <<Take("region", 0), Take("cdev", 0), Need("class", 0, {}),
                   Take("node", 0)>>)
    BY <2>1, MakesFour, Zenon
  <2> QED
    BY <2>2 DEF hello_init01b
<1>3. Makes(d, hello_init07)
  <2>1. /\ PlainStep(Take("chrdev", 0)) /\ PlainStep(Make("buf", 0))
        /\ ClassMade(d, Need("class", 0, {"chrdev"})) /\ UseStep(Take("node", 0))
    BY ClassSteps DEF Names, Ops, PerKey
  <2>2. Makes(d, <<Take("chrdev", 0), Make("buf", 0), Need("class", 0, {"chrdev"}),
                   Take("node", 0)>>)
    BY <2>1, MakesFour, Zenon
  <2> QED
    BY <2>2 DEF hello_init07
<1>4. ASSUME d \in Unchecked
      PROVE  Makes(d, led_init_simple)
  <2>1. /\ PlainStep(Take("chrdev", 0)) /\ ClassMade(d, Take("class", 0))
        /\ UseStep(Take("node", 0))
    BY ClassSteps, <1>4 DEF Names, Ops, PerKey
  <2>2. Makes(d, <<Take("chrdev", 0), Take("class", 0), Take("node", 0)>>)
    BY <2>1, ShortTuples, Zenon
  <2> QED
    BY <2>2 DEF led_init_simple
<1>5. ASSUME d \in Unchecked
      PROVE  Makes(d, led_init_imx6ull)
  <2>1. /\ PlainStep(Take("chrdev", 0)) /\ PlainStep(Make("map", 1))
        /\ PlainStep(Make("map", 2)) /\ PlainStep(Make("map", 3))
        /\ ClassMade(d, Take("class", 0)) /\ UseStep(Take("node", 0))
    BY ClassSteps, <1>5 DEF Names, Ops, PerKey
  <2>2. Makes(d, <<Take("chrdev", 0), Make("map", 1), Make("map", 2), Make("map", 3),
                   Take("class", 0), Take("node", 0)>>)
    BY <2>1, MakesSix, Zenon
  <2> QED
    BY <2>2 DEF led_init_imx6ull
<1>6. ASSUME d \in Unchecked
      PROVE  Makes(d, led_init_stm32mp157)
  <2>1. /\ PlainStep(Take("chrdev", 0)) /\ PlainStep(Make("map", 1))
        /\ PlainStep(Make("map", 2)) /\ PlainStep(Make("map", 3))
        /\ PlainStep(Make("map", 4)) /\ ClassMade(d, Take("class", 0))
        /\ UseStep(Take("node", 0))
    BY ClassSteps, <1>6 DEF Names, Ops, PerKey
  <2>2. Makes(d, <<Take("chrdev", 0), Make("map", 1), Make("map", 2), Make("map", 3),
                   Make("map", 4), Take("class", 0), Take("node", 0)>>)
    BY <2>1, MakesSeven, Zenon
  <2> QED
    BY <2>2 DEF led_init_stm32mp157
<1>7. Makes(d, led_init01)
  <2>1. /\ PlainStep(Take("chrdev", 0))
        /\ ClassMade(d, Need("class", 0, {"chrdev"})) /\ UseStep(Take("node", 0))
        /\ UseStep(Take("node", 1)) /\ UseStep(Make("ops", 0))
    BY ClassSteps DEF Names, Ops, PerKey
  <2>2. Makes(d, <<Take("chrdev", 0), Need("class", 0, {"chrdev"}), Take("node", 0),
                   Take("node", 1), Make("ops", 0)>>)
    BY <2>1, MakesFive, Zenon
  <2> QED
    BY <2>2 DEF led_init01
<1>8. Makes(d, led_init04)
  <2>1. /\ PlainStep(Need("chrdev", 0, {})) /\ ClassMade(d, Need("class", 0, {}))
    BY ClassSteps DEF Names, Ops, PerKey
  <2>2. Makes(d, <<Need("chrdev", 0, {}), Need("class", 0, {})>>)
    BY <2>1, ShortTuples, Zenon
  <2> QED
    BY <2>2 DEF led_init04
<1>9. Makes(d, Nodes)
  <2>1. /\ PlainStep(Need("chrdev", 0, {}))
        /\ ClassMade(d, Need("class", 0, {"chrdev"})) /\ UseStep(Take("node", 0))
    BY ClassSteps DEF Names, Ops, PerKey
  <2>2. Makes(d, <<Need("chrdev", 0, {}), Need("class", 0, {"chrdev"}),
                   Take("node", 0)>>)
    BY <2>1, ShortTuples, Zenon
  <2> QED
    BY <2>2 DEF Nodes
<1>10. Makes(d, gpio_led_probe)
  <2>1. /\ PlainStep(Need("gpiod", 0, {}))
        /\ PlainStep(Need("chrdev", 0, {"gpiod"}))
        /\ ClassMade(d, Need("class", 0, {"chrdev", "gpiod"}))
        /\ UseStep(Need("node", 0, {"class", "chrdev", "gpiod"}))
    BY ClassSteps DEF Names, Ops, PerKey
  <2>2. Makes(d, <<Need("gpiod", 0, {}), Need("chrdev", 0, {"gpiod"}),
                   Need("class", 0, {"chrdev", "gpiod"}),
                   Need("node", 0, {"class", "chrdev", "gpiod"})>>)
    BY <2>1, MakesFour, Zenon
  <2> QED
    BY <2>2 DEF gpio_led_probe
<1>11. Drops(hello_exit01)
  <2>1. /\ DropStep(Drop("node", 0)) /\ ClassGone(Drop("class", 0))
        /\ SureStep(Drop("chrdev", 0))
    BY ClassSteps DEF Names, Ops, PerKey
  <2>2. Drops(<<Drop("node", 0), Drop("class", 0), Drop("chrdev", 0)>>)
    BY <2>1, ShortTuples, Zenon
  <2> QED
    BY <2>2 DEF hello_exit01
<1>12. Drops(hello_exit01b)
  <2>1. /\ DropStep(Drop("node", 0)) /\ ClassGone(Drop("class", 0))
        /\ SureStep(Drop("cdev", 0)) /\ SureStep(Drop("region", 0))
    BY ClassSteps DEF Names, Ops, PerKey
  <2>2. Drops(<<Drop("node", 0), Drop("class", 0), Drop("cdev", 0),
                Drop("region", 0)>>)
    BY <2>1, ShortTuples, Zenon
  <2> QED
    BY <2>2 DEF hello_exit01b
<1>13. Drops(led_exit01)
  <2>1. /\ DropStep(Drop("node", 0)) /\ DropStep(Drop("node", 1))
        /\ DropStep(Drop("node", 0)) /\ ClassGone(Drop("class", 0))
        /\ SureStep(Drop("chrdev", 0))
    BY ClassSteps DEF Names, Ops, PerKey
  <2>2. Drops(<<Drop("node", 0), Drop("node", 1), Drop("node", 0), Drop("class", 0),
                Drop("chrdev", 0)>>)
    BY <2>1, ShortTuples, Zenon
  <2> QED
    BY <2>2 DEF led_exit01
<1>14. Drops(led_exit04)
  <2>1. /\ ClassGone(Drop("class", 0)) /\ SureStep(Drop("chrdev", 0))
    BY ClassSteps DEF Names, Ops, PerKey
  <2>2. Drops(<<Drop("class", 0), Drop("chrdev", 0)>>)
    BY <2>1, ShortTuples, Zenon
  <2> QED
    BY <2>2 DEF led_exit04
<1>15. Drops(NoNodes)
  <2>1. /\ DropStep(Drop("node", 0)) /\ ClassGone(Drop("class", 0))
        /\ SureStep(Drop("chrdev", 0)) /\ SureStep(Do("kfree"))
    BY ClassSteps DEF Names, Ops, PerKey
  <2>2. Drops(<<Drop("node", 0), Drop("class", 0), Drop("chrdev", 0), Do("kfree")>>)
    BY <2>1, ShortTuples, Zenon
  <2> QED
    BY <2>2 DEF NoNodes
<1>16. Drops(gpio_led_remove)
  <2>1. /\ DropStep(Drop("node", 0)) /\ ClassGone(Drop("class", 0))
        /\ SureStep(Drop("chrdev", 0))
    BY ClassSteps DEF Names, Ops, PerKey
  <2>2. Drops(<<Drop("node", 0), Drop("class", 0), Drop("chrdev", 0)>>)
    BY <2>1, ShortTuples, Zenon
  <2> QED
    BY <2>2 DEF gpio_led_remove
<1>17. Plain(Begin)
  <2>1. /\ PlainStep(Read) /\ PlainStep(Do("kzalloc"))
    BY ClassSteps DEF Names, Ops, PerKey
  <2>2. Plain(<<Read, Do("kzalloc")>>)
    BY <2>1, ShortTuples, Zenon
  <2> QED
    BY <2>2 DEF Begin
<1>18. Plain(led_drv_init04)
  <2>1. /\ PlainStep(Make("pdrv", 0)) /\ PlainStep(Make("ops", 0))
    BY ClassSteps DEF Names, Ops, PerKey
  <2>2. Plain(<<Make("pdrv", 0), Make("ops", 0)>>)
    BY <2>1, ShortTuples, Zenon
  <2> QED
    BY <2>2 DEF led_drv_init04
<1>19. Plain(led_drv_exit04)
  <2>1. /\ PlainStep(Do("unbind")) /\ PlainStep(Drop("pdrv", 0))
    BY ClassSteps DEF Names, Ops, PerKey
  <2>2. Plain(<<Do("unbind"), Drop("pdrv", 0)>>)
    BY <2>1, ShortTuples, Zenon
  <2> QED
    BY <2>2 DEF led_drv_exit04
<1>20. Plain(led_drv_probe05)
  <2>1. /\ PlainStep(Do("node_of_next_slot")) /\ PlainStep(Do("add_slot"))
    BY ClassSteps DEF Names, Ops, PerKey
  <2>2. Plain(<<Do("node_of_next_slot"), Do("add_slot")>>)
    BY <2>1, ShortTuples, Zenon
  <2> QED
    BY <2>2 DEF led_drv_probe05
<1>21. Plain(led_drv_remove05)
  <2>1. /\ PlainStep(Do("clear_slot")) /\ PlainStep(Do("reset_if_all_clear"))
    BY ClassSteps DEF Names, Ops, PerKey
  <2>2. Plain(<<Do("clear_slot"), Do("reset_if_all_clear")>>)
    BY <2>1, ShortTuples, Zenon
  <2> QED
    BY <2>2 DEF led_drv_remove05
<1>22. Plain(button_remove)
  <2>1. /\ PlainStep(Do("clear_slot_and_look_on"))
    BY ClassSteps DEF Names, Ops, PerKey
  <2>2. Plain(<<Do("clear_slot_and_look_on")>>)
    BY <2>1, ShortTuples, Zenon
  <2> QED
    BY <2>2 DEF button_remove
<1>23. Plain(gpio_led_init)
  <2>1. /\ PlainStep(Make("pdrv", 0))
    BY ClassSteps DEF Names, Ops, PerKey
  <2>2. Plain(<<Make("pdrv", 0)>>)
    BY <2>1, ShortTuples, Zenon
  <2> QED
    BY <2>2 DEF gpio_led_init
<1>24. Plain(gpio_led_exit)
  <2>1. /\ PlainStep(Do("unbind")) /\ PlainStep(Drop("pdrv", 0))
    BY ClassSteps DEF Names, Ops, PerKey
  <2>2. Plain(<<Do("unbind"), Drop("pdrv", 0)>>)
    BY <2>1, ShortTuples, Zenon
  <2> QED
    BY <2>2 DEF gpio_led_exit
<1>25. Plain(keys_remove01)
  <2>1. /\ PlainStep(Do("free_irq_of_another"))
    BY ClassSteps DEF Names, Ops, PerKey
  <2>2. Plain(<<Do("free_irq_of_another")>>)
    BY <2>1, ShortTuples, Zenon
  <2> QED
    BY <2>2 DEF keys_remove01
<1> QED
  BY <1>1, <1>2, <1>3, <1>4, <1>5, <1>6, <1>7, <1>8, <1>9, <1>10, <1>11, <1>12,
     <1>13, <1>14, <1>15, <1>16, <1>17, <1>18, <1>19, <1>20, <1>21, <1>22, <1>23,
     <1>24, <1>25

(* The loops.                                                               *)
LEMMA ClassLoops ==
  /\ Uses(For(NLeds, LedNode)) /\ Loose(For(NLeds, LedNodeGone))
  /\ Plain(For(NKeys, KeyIrq)) /\ Plain(For(NKeys, KeyTimed))
  /\ Loose(For(NKeys, FreeIrq)) /\ Loose(For(NKeys, FreeTimed))
  /\ Loose(For(NKeys, FreeAll))
<1>1. NKeys * 2 \in Nat /\ NKeys * 3 \in Nat /\ NKeys * 4 \in Nat /\ NLeds \in Nat
  BY ProgramsAssumption
<1>2. ASSUME NEW k
      PROVE  /\ \A c \in 1 .. 2 : PlainStep(KeyIrq(k)[c]) /\ DropStep(FreeIrq(k)[c])
             /\ \A c \in 1 .. 3 : PlainStep(KeyTimed(k)[c]) /\ DropStep(FreeTimed(k)[c])
             /\ \A c \in 1 .. 4 : DropStep(FreeAll(k)[c])
  <2>1. \A r \in PerKey : /\ PlainStep(Need(r, k, {})) /\ PlainStep(Make(r, k))
                          /\ DropStep(Drop(r, k)) /\ DropStep(Await(r, k))
                          /\ PlainStep(Read)
    BY ClassSteps DEF Names, PerKey
  <2> QED
    BY <2>1 DEF KeyIrq, KeyTimed, FreeIrq, FreeTimed, FreeAll, PerKey
<1>3. Uses(For(NLeds, LedNode)) /\ Loose(For(NLeds, LedNodeGone))
  <2>1. \A k : UseStep(Take("node", k)) /\ DropStep(Drop("node", k))
    BY ClassSteps
  <2> QED
    BY <2>1, <1>1, Loops DEF Uses, Loose
<1>4. Plain(For(NKeys, KeyIrq))
  <2>1. \A j \in 1 .. NKeys * 2 : PlainStep(For(NKeys, KeyIrq)[j])
    BY <1>2, Loops, KeyGrid
  <2> QED
    BY <2>1, <1>1, Loops DEF Plain
<1>5. Plain(For(NKeys, KeyTimed))
  <2>1. \A j \in 1 .. NKeys * 3 : PlainStep(For(NKeys, KeyTimed)[j])
    BY <1>2, Loops, KeyGrid
  <2> QED
    BY <2>1, <1>1, Loops DEF Plain
<1>6. Loose(For(NKeys, FreeIrq))
  <2>1. \A j \in 1 .. NKeys * 2 : DropStep(For(NKeys, FreeIrq)[j])
    BY <1>2, Loops, KeyGrid
  <2> QED
    BY <2>1, <1>1, Loops DEF Loose
<1>7. Loose(For(NKeys, FreeTimed))
  <2>1. \A j \in 1 .. NKeys * 3 : DropStep(For(NKeys, FreeTimed)[j])
    BY <1>2, Loops, KeyGrid
  <2> QED
    BY <2>1, <1>1, Loops DEF Loose
<1>8. Loose(For(NKeys, FreeAll))
  <2>1. \A j \in 1 .. NKeys * 4 : DropStep(For(NKeys, FreeAll)[j])
    <3>1. \A j \in 1 .. NKeys * 4 : ((j - 1) % 4) + 1 \in 1 .. 4
      BY <1>1
    <3> QED
      BY <3>1, <1>2, Loops
  <2> QED
    BY <2>1, <1>1, Loops DEF Loose
<1> QED
  BY <1>3, <1>4, <1>5, <1>6, <1>7, <1>8

(* The programs put together.                                               *)
LEMMA ClassJoined ==
  ASSUME NEW d
  PROVE  /\ Drops(led_exit_imx6ull) /\ Drops(led_exit_stm32mp157)
         /\ Makes(d, led_init02) /\ Drops(led_exit02)
         /\ Plain(keys_probe01) /\ Makes(d, keys_probe02) /\ Makes(d, keys_probe07)
         /\ Drops(keys_remove02) /\ Drops(keys_remove07) /\ Drops(keys_remove08)
         /\ Plain(keys_driver01.init) /\ Plain(keys_driver01.exit)
<1>1. /\ hello_exit01 \in Seq(StepSet) /\ Begin \in Seq(StepSet)
      /\ Nodes \in Seq(StepSet) /\ NoNodes \in Seq(StepSet)
      /\ \A k \in Nat : \A r \in Wares : Drop(r, k) \in StepSet
  <2>1. \A k \in Nat : \A r \in Wares : Drop(r, k) \in StepSet
    BY DEF Drop, Step, StepSet, Ops
  <2> QED
    BY <2>1, TuplesFit, LoopedFit DEF ModuleFits
<1>2. /\ For(NLeds, LedNode) \in Seq(StepSet) /\ For(NLeds, LedNodeGone) \in Seq(StepSet)
      /\ For(NKeys, KeyIrq) \in Seq(StepSet) /\ For(NKeys, KeyTimed) \in Seq(StepSet)
      /\ For(NKeys, FreeIrq) \in Seq(StepSet) /\ For(NKeys, FreeTimed) \in Seq(StepSet)
      /\ For(NKeys, FreeAll) \in Seq(StepSet)
  BY LoopsFit DEF ModuleFits
<1>3. /\ DropStep(Drop("map", 1)) /\ DropStep(Drop("map", 2)) /\ DropStep(Drop("map", 3))
      /\ DropStep(Drop("map", 4))
  BY ClassSteps DEF Names
<1>4. Drops(led_exit_imx6ull)
  <2> DEFINE a == <<Drop("map", 1), Drop("map", 2), Drop("map", 3)>>
  <2>1. a \in Seq(StepSet)
    BY <1>1 DEF Wares, Names
  <2>2. Loose(a)
    BY <1>3, ShortTuples, Zenon
  <2> HIDE DEF a
  <2>3. Drops(a \o hello_exit01)
    BY <2>1, <2>2, <1>1, ClassCat, ClassPrograms
  <2> QED
    BY <2>3 DEF a, led_exit_imx6ull
<1>5. Drops(led_exit_stm32mp157)
  <2> DEFINE a == <<Drop("map", 1), Drop("map", 2), Drop("map", 3), Drop("map", 4)>>
  <2>1. a \in Seq(StepSet)
    BY <1>1 DEF Wares, Names
  <2>2. Loose(a)
    BY <1>3, ShortTuples, Zenon
  <2> HIDE DEF a
  <2>3. Drops(a \o hello_exit01)
    BY <2>1, <2>2, <1>1, ClassCat, ClassPrograms
  <2> QED
    BY <2>3 DEF a, led_exit_stm32mp157
<1>6. Makes(d, led_init02)
  <2> DEFINE a == <<Take("chrdev", 0), Need("class", 0, {"chrdev"}), Make("ops", 0)>>
  <2>1. a \in Seq(StepSet)
    <3>1. /\ Take("chrdev", 0) \in StepSet /\ Need("class", 0, {"chrdev"}) \in StepSet
          /\ Make("ops", 0) \in StepSet
      BY DEF Take, Need, Make, Step, StepSet, Ops, Wares, Names
    <3> QED
      BY <3>1
  <2>2. /\ PlainStep(Take("chrdev", 0)) /\ ClassMade(d, Need("class", 0, {"chrdev"}))
        /\ UseStep(Make("ops", 0))
    BY ClassSteps DEF Names
  <2>3. Makes(d, a)
    BY <2>2, ShortTuples, Zenon
  <2> HIDE DEF a
  <2>4. Makes(d, a \o For(NLeds, LedNode))
    BY <2>1, <2>3, <1>2, ClassCat, ClassLoops
  <2> QED
    BY <2>4 DEF a, led_init02
<1>7. Drops(led_exit02)
  <2> DEFINE a == <<Drop("node", 0), Drop("class", 0), Drop("chrdev", 0)>>
  <2>1. a = hello_exit01
    BY DEF hello_exit01
  <2> HIDE DEF a
  <2>2. Drops(For(NLeds, LedNodeGone) \o a)
    BY <2>1, <1>1, <1>2, ClassCat, ClassLoops, ClassPrograms
  <2> QED
    BY <2>2 DEF a, led_exit02
<1>8. /\ Begin \o For(NKeys, KeyIrq) \in Seq(StepSet)
      /\ Plain(Begin \o For(NKeys, KeyIrq))
      /\ Begin \o For(NKeys, KeyTimed) \in Seq(StepSet)
      /\ Plain(Begin \o For(NKeys, KeyTimed))
  BY <1>1, <1>2, Cat, ClassCat, ClassLoops, ClassPrograms
<1>9. Plain(keys_probe01) /\ Makes(d, keys_probe02) /\ Makes(d, keys_probe07)
  <2>1. Makes(d, Nodes)
    BY ClassPrograms
  <2>2. /\ Makes(d, (Begin \o For(NKeys, KeyIrq)) \o Nodes)
        /\ Makes(d, (Begin \o For(NKeys, KeyTimed)) \o Nodes)
    BY <2>1, <1>1, <1>8, ClassCat
  <2> QED
    BY <2>2, <1>8, Zenon DEF keys_probe01, keys_probe02, keys_probe07
<1>10. Drops(keys_remove02) /\ Drops(keys_remove07) /\ Drops(keys_remove08)
  <2>1. Drops(NoNodes)
    BY ClassPrograms
  <2>2. /\ Drops(For(NKeys, FreeIrq) \o NoNodes) /\ Drops(For(NKeys, FreeTimed) \o NoNodes)
        /\ Drops(For(NKeys, FreeAll) \o NoNodes)
    BY <2>1, <1>1, <1>2, ClassCat, ClassLoops
  <2> QED
    BY <2>2, Zenon DEF keys_remove02, keys_remove07, keys_remove08
<1>11. Plain(keys_driver01.init) /\ Plain(keys_driver01.exit)
  <2>1. keys_driver01.init = gpio_led_init /\ keys_driver01.exit = gpio_led_exit
    BY DEF keys_driver01, gpio_led_init, gpio_led_exit
  <2> QED
    BY <2>1, ClassPrograms
<1> QED
  BY <1>4, <1>5, <1>6, <1>7, <1>9, <1>10, <1>11

(* Every driver fits but led04.                                             *)
LEMMA DriversClass == \A d \in DOMAIN Driver \ {"led04"} : ClassFits(d)
<1>1. \A d \in {"hello01", "hello01b", "hello07", "led_simple", "led_imx6ull",
               "led_stm32mp157", "led01", "led02", "led03", "led05", "button"} :
        d \in ByModule /\ d \notin ByDevice /\ d # "key01"
  BY DEF ByModule, ByDevice, KeyDrivers, CharDriver
<1>2. Plain(<< >>)
  BY ShortTuples
<1>3. ASSUME NEW p, NEW q, NEW d, Makes(d, p), Drops(q), Driver[d] = Simple(p, q),
             d \in ByModule, d \notin ByDevice, d # "key01"
      PROVE  ClassFits(d)
  BY <1>2, <1>3 DEF ClassFits, Simple, Module
<1>4. ClassFits("hello01")
  <2>1. Makes("hello01", hello_init01) /\ Drops(hello_exit01)
    BY ClassPrograms
  <2>2. "hello01" \in ByModule /\ "hello01" \notin ByDevice /\ "hello01" # "key01"
    BY <1>1
  <2>3. Driver["hello01"] = Simple(hello_init01, hello_exit01)
    BY CharDriverIs
  <2> QED
    BY <2>1, <2>2, <2>3, <1>3
<1>5. ClassFits("hello01b")
  <2>1. Makes("hello01b", hello_init01b) /\ Drops(hello_exit01b)
    BY ClassPrograms
  <2>2. "hello01b" \in ByModule /\ "hello01b" \notin ByDevice /\ "hello01b" # "key01"
    BY <1>1
  <2>3. Driver["hello01b"] = Simple(hello_init01b, hello_exit01b)
    BY CharDriverIs
  <2> QED
    BY <2>1, <2>2, <2>3, <1>3
<1>6. ClassFits("hello07")
  <2>1. Makes("hello07", hello_init07) /\ Drops(hello_exit01)
    BY ClassPrograms
  <2>2. "hello07" \in ByModule /\ "hello07" \notin ByDevice /\ "hello07" # "key01"
    BY <1>1
  <2>3. Driver["hello07"] = Simple(hello_init07, hello_exit01)
    BY CharDriverIs DEF hello_exit07
  <2> QED
    BY <2>1, <2>2, <2>3, <1>3
<1>7. ClassFits("led_simple")
  <2>1. Makes("led_simple", led_init_simple) /\ Drops(hello_exit01)
    BY ClassPrograms DEF Unchecked
  <2>2. "led_simple" \in ByModule /\ "led_simple" \notin ByDevice /\ "led_simple" # "key01"
    BY <1>1
  <2>3. Driver["led_simple"] = Simple(led_init_simple, hello_exit01)
    BY CharDriverIs DEF led_exit_simple
  <2> QED
    BY <2>1, <2>2, <2>3, <1>3
<1>8. ClassFits("led_imx6ull")
  <2>1. Makes("led_imx6ull", led_init_imx6ull) /\ Drops(led_exit_imx6ull)
    BY ClassPrograms, ClassJoined DEF Unchecked
  <2>2. "led_imx6ull" \in ByModule /\ "led_imx6ull" \notin ByDevice /\ "led_imx6ull" # "key01"
    BY <1>1
  <2>3. Driver["led_imx6ull"] = Simple(led_init_imx6ull, led_exit_imx6ull)
    BY CharDriverIs
  <2> QED
    BY <2>1, <2>2, <2>3, <1>3
<1>9. ClassFits("led_stm32mp157")
  <2>1. Makes("led_stm32mp157", led_init_stm32mp157) /\ Drops(led_exit_stm32mp157)
    BY ClassPrograms, ClassJoined DEF Unchecked
  <2>2. "led_stm32mp157" \in ByModule /\ "led_stm32mp157" \notin ByDevice /\ "led_stm32mp157" # "key01"
    BY <1>1
  <2>3. Driver["led_stm32mp157"] = Simple(led_init_stm32mp157, led_exit_stm32mp157)
    BY CharDriverIs
  <2> QED
    BY <2>1, <2>2, <2>3, <1>3
<1>10. ClassFits("led01")
  <2>1. Makes("led01", led_init01) /\ Drops(led_exit01)
    BY ClassPrograms
  <2>2. "led01" \in ByModule /\ "led01" \notin ByDevice /\ "led01" # "key01"
    BY <1>1
  <2>3. Driver["led01"] = Simple(led_init01, led_exit01)
    BY CharDriverIs
  <2> QED
    BY <2>1, <2>2, <2>3, <1>3
<1>11. ClassFits("led02")
  <2>1. Makes("led02", led_init02) /\ Drops(led_exit02)
    BY ClassJoined
  <2>2. "led02" \in ByModule /\ "led02" \notin ByDevice /\ "led02" # "key01"
    BY <1>1
  <2>3. Driver["led02"] = Simple(led_init02, led_exit02)
    BY CharDriverIs
  <2> QED
    BY <2>1, <2>2, <2>3, <1>3
<1>12. ClassFits("led03")
  <2>1. Makes("led03", led_init01) /\ Drops(led_exit01)
    BY ClassPrograms
  <2>2. "led03" \in ByModule /\ "led03" \notin ByDevice /\ "led03" # "key01"
    BY <1>1
  <2>3. Driver["led03"] = Simple(led_init01, led_exit01)
    BY CharDriverIs DEF led_init03, led_exit03
  <2> QED
    BY <2>1, <2>2, <2>3, <1>3
<1>13. ClassFits("led05")
  <2>1. /\ Makes("led05", led_init04) /\ Drops(led_exit04)
        /\ Plain(led_drv_init04) /\ Plain(led_drv_exit04)
        /\ Plain(led_drv_probe05) /\ Plain(led_drv_remove05)
    BY ClassPrograms
  <2>2. Driver["led05"] = OnBus(Module(led_init04, led_exit04),
                              Module(led_drv_init04, led_drv_exit04),
                              led_drv_probe05, led_drv_remove05, {1, 2})
    BY BusDriverIs
  <2>3. "led05" \in ByModule /\ "led05" \notin ByDevice /\ "led05" # "key01"
    BY <1>1
  <2> QED
    BY <2>1, <2>2, <2>3 DEF ClassFits, OnBus, Module
<1>14. ClassFits("button")
  <2>1. /\ Makes("button", led_init04) /\ Drops(led_exit04)
        /\ Plain(led_drv_init04) /\ Plain(led_drv_exit04)
        /\ Plain(led_drv_probe05) /\ Plain(button_remove)
    BY ClassPrograms
  <2>2. Driver["button"] = OnBus(Module(led_init04, led_exit04),
                              Module(led_drv_init04, led_drv_exit04),
                              led_drv_probe05, button_remove, {1, 2})
    BY BusDriverIs
  <2>3. "button" \in ByModule /\ "button" \notin ByDevice /\ "button" # "key01"
    BY <1>1
  <2> QED
    BY <2>1, <2>2, <2>3 DEF ClassFits, OnBus, Module
<1>15. ClassFits("gpio_led")
  <2>1. /\ Plain(gpio_led_init) /\ Plain(gpio_led_exit)
        /\ Makes("gpio_led", gpio_led_probe) /\ Drops(gpio_led_remove)
    BY ClassPrograms
  <2>2. Driver["gpio_led"] = [OnBus(Module(gpio_led_init, gpio_led_exit),
                                    Module(<< >>, << >>), gpio_led_probe,
                                    gpio_led_remove, {1}) EXCEPT !.failure = "bound"]
    BY BusDriverIs
  <2>3. "gpio_led" \notin ByModule /\ "gpio_led" \in ByDevice
    BY DEF ByModule, ByDevice, CharDriver
  <2> QED
    BY <2>1, <2>2, <2>3, <1>2 DEF ClassFits, OnBus, Module
<1>16. ASSUME NEW d \in KeyDrivers
       PROVE  ClassFits(d)
  <2> DEFINE s == StageOf[d]
  <2>1. s \in Stages /\ Driver[d] = KeyDriverOf(s) /\ (s = 1 <=> d = "key01")
    BY KeyDriverIs DEF KeyDrivers, StageOf
  <2> HIDE DEF s
  <2>2. s # 1 => Makes(d, keys_probe[s]) /\ Drops(keys_remove[s])
    BY <2>1, KeyProgramsAre, ClassJoined DEF Stages
  <2>3. s = 1 => Plain(keys_probe[s]) /\ Plain(keys_remove[s])
    BY <2>1, KeyProgramsAre, ClassJoined, ClassPrograms
  <2>4. Plain(keys_driver01.init) /\ Plain(keys_driver01.exit)
    BY ClassJoined
  <2>5. d \notin ByModule /\ (d # "key01" <=> d \in ByDevice) /\ d # "gpio_led"
    BY DEF ByModule, ByDevice, CharDriver, KeyDrivers
  <2> QED
    BY <2>1, <2>2, <2>3, <2>4, <2>5, <1>2, KeyFields DEF ClassFits
<1> QED
  BY <1>4, <1>5, <1>6, <1>7, <1>8, <1>9, <1>10, <1>11, <1>12, <1>13, <1>14, <1>15, <1>16,
     DriverNames

(* So does the chosen one.                                                  *)
LEMMA DClass ==
  ASSUME drv \in Drivers, drv # "led04"
  PROVE  /\ Plain(D.m2.init) /\ Plain(D.m2.exit)
         /\ drv \in ByModule => /\ Makes(drv, D.m1.init) /\ Drops(D.m1.exit)
                                /\ Plain(D.probe) /\ Plain(D.remove)
         /\ drv \notin ByModule => Plain(D.m1.init) /\ Plain(D.m1.exit)
         /\ drv \in ByDevice => /\ Makes(drv, D.probe) /\ Drops(D.remove)
                                /\ D.devices = {1}
                                /\ drv # "gpio_led" => D.failure = "unbound"
         /\ drv = "key01" => Plain(D.probe) /\ Plain(D.remove)
<1>1. ClassFits(drv)
  BY DriversClass, DriversAssumption
<1> QED
  BY <1>1, Zenon DEF ClassFits, D

(* The rest of a program.                                                   *)
LEMMA ClassTails ==
  ASSUME NEW d, NEW p \in Seq(StepSet), p # << >>
  PROVE  /\ Plain(p) => PlainStep(Head(p)) /\ Plain(Tail(p))
         /\ Uses(p) => UseStep(Head(p)) /\ Uses(Tail(p))
         /\ Makes(d, p) => \/ ClassMade(d, Head(p)) /\ Uses(Tail(p))
                           \/ PlainStep(Head(p)) /\ Makes(d, Tail(p))
         /\ Sure(p) => SureStep(Head(p)) /\ Sure(Tail(p))
         /\ Drops(p) => \/ ClassGone(Head(p)) /\ Sure(Tail(p))
                        \/ DropStep(Head(p)) /\ Drops(Tail(p))
<1> DEFINE q == Tail(p)
<1>1. /\ Len(p) \in Nat /\ Len(p) >= 1 /\ Len(q) = Len(p) - 1 /\ Head(p) = p[1]
      /\ \A i \in 1 .. Len(q) : q[i] = p[i + 1]
  OBVIOUS
<1> HIDE DEF q
<1>2. Plain(p) => PlainStep(Head(p)) /\ Plain(q)
  BY <1>1 DEF Plain
<1>3. Uses(p) => UseStep(Head(p)) /\ Uses(q)
  BY <1>1 DEF Uses
<1>4. ASSUME Makes(d, p)
      PROVE  \/ ClassMade(d, Head(p)) /\ Uses(q)
             \/ PlainStep(Head(p)) /\ Makes(d, q)
  <2>1. PICK c \in 1 .. Len(p) : /\ ClassMade(d, p[c])
                                 /\ \A i \in 1 .. c - 1 : PlainStep(p[i])
                                 /\ \A i \in c + 1 .. Len(p) : UseStep(p[i])
    BY <1>4 DEF Makes
  <2>2. CASE c = 1
    BY <2>1, <2>2, <1>1 DEF Uses
  <2>3. CASE c > 1
    <3>1. c - 1 \in 1 .. Len(q) /\ ClassMade(d, q[c - 1])
      BY <2>1, <2>3, <1>1
    <3>2. \A i \in 1 .. c - 1 - 1 : PlainStep(q[i])
      BY <2>1, <1>1
    <3>3. \A i \in c - 1 + 1 .. Len(q) : UseStep(q[i])
      BY <2>1, <1>1
    <3>4. PlainStep(Head(p))
      BY <2>1, <2>3, <1>1
    <3> QED
      BY <3>1, <3>2, <3>3, <3>4 DEF Makes
  <2> QED
    BY <2>2, <2>3
<1>5. ASSUME Drops(p)
      PROVE  \/ ClassGone(Head(p)) /\ Sure(q)
             \/ DropStep(Head(p)) /\ Drops(q)
  <2>1. PICK c \in 1 .. Len(p) : /\ ClassGone(p[c])
                                 /\ \A i \in 1 .. c - 1 : DropStep(p[i])
                                 /\ \A i \in c + 1 .. Len(p) : SureStep(p[i])
    BY <1>5 DEF Drops
  <2>2. CASE c = 1
    BY <2>1, <2>2, <1>1 DEF Sure
  <2>3. CASE c > 1
    <3>1. c - 1 \in 1 .. Len(q) /\ ClassGone(q[c - 1])
      BY <2>1, <2>3, <1>1
    <3>2. \A i \in 1 .. c - 1 - 1 : DropStep(q[i])
      BY <2>1, <1>1
    <3>3. \A i \in c - 1 + 1 .. Len(q) : SureStep(q[i])
      BY <2>1, <1>1
    <3>4. DropStep(Head(p))
      BY <2>1, <2>3, <1>1
    <3> QED
      BY <3>1, <3>2, <3>3, <3>4 DEF Drops
  <2> QED
    BY <2>2, <2>3
<1>6. Sure(p) => SureStep(Head(p)) /\ Sure(q)
  BY <1>1 DEF Sure
<1> QED
  BY <1>2, <1>3, <1>4, <1>5, <1>6 DEF q

\* The step was refused, which is remembered, and the function returns an error.
GivesUp(c) ==
  /\ Fails(c) /\ failed'
  /\ Head(Prog(c)).op # "drop" /\ ~DropStep(Head(Prog(c)))

(* What a step does to the class.                                           *)
LEMMA ClassOfStep ==
  ASSUME Positions, DataTypes, NEW c \in {"run", "bus"}, Prog(c) # << >>, StepOf(c),
         UNCHANGED <<drv, binds>>, Sound', ~oops
  PROVE  LET s == Head(Prog(c))
         IN  /\ Sound
             /\ PlainStep(s) => cls' = cls /\ ~oops'
             /\ UseStep(s) /\ cls = "ok" =>
                  ~oops' /\ (cls' = "ok" \/ GivesUp(c))
             /\ ClassMade(drv, s) =>
                  ~oops' /\ (cls' = "ok" \/ GivesUp(c))
             /\ DropStep(s) /\ cls = "ok" => ~oops' /\ cls' = "ok"
             /\ ClassGone(s) /\ cls = "ok" => ~oops'
<1> DEFINE s == Head(Prog(c))
<1>1. s \in StepSet /\ failed \in BOOLEAN
  BY NextStep DEF DataTypes
<1>2. failed => failed'
  BY StepKeeps
<1>3. Sound
  BY <1>2 DEF Sound
<1>4. CASE s.op \in {"take", "need"} /\ Got(c, s)
  BY <1>4, <1>1, <1>3 DEF Got, ClassAfter, PlainStep, UseStep, ClassMade, DropStep, ClassGone
<1>5. CASE s.op \in {"take", "need"} /\ Refused(c, s)
  <2>1. failed' = TRUE /\ (s.op # "take" => GivesUp(c))
    BY <1>5 DEF Refused, GivesUp, DropStep
  <2>2. ~(ClassMade(drv, s) /\ s.op = "take")
    BY <2>1 DEF ClassMade, Sound
  <2>3. PlainStep(s) => cls' = cls /\ ~oops'
    BY <1>5 DEF Refused, ClassAfter, PlainStep
  <2>4. UseStep(s) /\ cls = "ok" => ~oops' /\ (cls' = "ok" \/ s.op # "take")
    BY <1>5 DEF Refused, ClassAfter, UseStep
  <2>5. ClassMade(drv, s) => ~oops' /\ s.op # "take"
    BY <1>5, <2>2 DEF Refused, ClassMade
  <2>6. ~DropStep(s) /\ ~ClassGone(s)
    BY <1>5 DEF DropStep, ClassGone
  <2> QED
    BY <2>1, <2>3, <2>4, <2>5, <2>6, <1>3
<1>6. CASE s.op = "drop"
  BY <1>6, <1>3 DEF StepOf, Dropped, PlainStep, UseStep, ClassMade, DropStep, ClassGone
<1>7. s.op = "add_slot" => ~(cnt >= CAP)
  <2>1. ASSUME s.op = "add_slot"
        PROVE  cnt < binds /\ binds <= CAP
    <3>1. bus.kind = "probe" /\ bus.prog # << >> /\ drv \in OpsElsewhere
      BY <2>1, NextStep DEF SlotOps, Prog
    <3> QED
      BY <3>1, <1>3 DEF Sound, DataTypes
  <2>2. binds \in Nat /\ cnt \in Nat /\ CAP \in Nat
    BY LifeAssumption DEF DataTypes, Positions
  <2> QED
    BY <2>1, <2>2
<1>8. CASE s.op \notin {"take", "need", "drop", "oops"}
  <2>1. cls' = cls /\ oops' = oops
    BY <1>7, <1>8 DEF StepOf, Made, Awaited, PropertyRead, KeysAllocated, KeysFreed, Nothing,
       SlotNode, SlotAdded, SlotCleared, SlotsReset, SlotsSwept, Unbound
  <2> QED
    BY <2>1, <1>3, <1>8 DEF ClassMade
<1>9. CASE s.op = "oops"
  BY <1>9, <1>3 DEF PlainStep, UseStep, ClassMade, DropStep, ClassGone
<1>10. s.op \in {"take", "need"} => Got(c, s) \/ Refused(c, s)
  BY DEF StepOf
<1> QED
  BY <1>3, <1>4, <1>5, <1>6, <1>9, <1>10, <1>8

(* A function that fails remembers that something was refused.              *)
LEMMA FailsRemembered ==
  ASSUME Positions, NEW c \in {"run", "bus"}, Prog(c) # << >>, StepOf(c), drv' = drv,
         Head(Prog(c)).op \in {"oops", "add_slot"} => ~oops'
  PROVE  \/ GoesOn(c)
         \/ GivesUp(c)
         \/ /\ bus.kind = "idle" /\ UNCHANGED <<run, text, bound, cls, oops, failed>>
            /\ \E d \in bound : bus' = [dev |-> d, kind |-> "remove", prog |-> D.remove]
<1> DEFINE s == Head(Prog(c))
<1>1. CASE s.op = "unbind"
  BY <1>1 DEF StepOf, Unbound
<1>2. CASE s.op \in {"take", "need", "read"}
  BY <1>2 DEF StepOf, Got, Refused, PropertyRead, DropStep, GivesUp
<1>3. s.op # "oops"
  BY DEF StepOf
<1>4. CASE s.op \notin {"unbind", "take", "need", "read"}
  BY <1>3, <1>4 DEF StepOf, Made, Dropped, Awaited, KeysAllocated, KeysFreed, Nothing,
     SlotNode, SlotAdded, SlotCleared, SlotsReset, SlotsSwept
<1> QED
  BY <1>1, <1>2, <1>4

(* A step of a driver that makes its class when it is loaded.               *)
LEMMA ModuleClassStays ==
  ASSUME Guarded, ModuleClass, Sound', ~oops, drv \in ByModule, NEW c \in {"run", "bus"},
         Prog(c) # << >>, StepOf(c), UNCHANGED <<drv, binds>>
  PROVE  ModuleClass' /\ ~oops'
<1> DEFINE s == Head(Prog(c))
           p == Prog(c)
<1>1. Positions /\ DataTypes /\ TextInv /\ drv \in Drivers
  BY DEF Guarded, Positions
<1>2. p \in Seq(StepSet) /\ (c = "run" => run.kind # "idle")
  BY <1>1, NextStep
<1>3. /\ Sound
      /\ PlainStep(s) => cls' = cls /\ ~oops'
      /\ UseStep(s) /\ cls = "ok" => ~oops' /\ (cls' = "ok" \/ GivesUp(c))
      /\ ClassMade(drv, s) => ~oops' /\ (cls' = "ok" \/ GivesUp(c))
      /\ DropStep(s) /\ cls = "ok" => ~oops' /\ cls' = "ok"
      /\ SureStep(s) => cls' = cls /\ ~oops'
      /\ ClassGone(s) /\ cls = "ok" => ~oops'
  BY <1>1, ClassOfStep DEF SureStep
<1>4. /\ Plain(p) => PlainStep(s) /\ Plain(Tail(p))
      /\ Uses(p) => UseStep(s) /\ Uses(Tail(p))
      /\ Makes(drv, p) => \/ ClassMade(drv, s) /\ Uses(Tail(p))
                          \/ PlainStep(s) /\ Makes(drv, Tail(p))
      /\ Sure(p) => SureStep(s) /\ Sure(Tail(p))
      /\ Drops(p) => \/ ClassGone(s) /\ Sure(Tail(p))
                     \/ DropStep(s) /\ Drops(Tail(p))
  BY <1>2, ClassTails
<1>5. /\ Plain(D.probe) /\ Plain(D.remove) /\ drv # "led04" /\ Plain(<< >>)
      /\ Sure(<< >>)
  BY <1>1, <1>3, DClass, ShortTuples DEF Sound
<1>6. /\ c = "bus" => Plain(p)
      /\ c = "run" /\ run.mod = "m2" => Plain(p)
      /\ c = "run" /\ run.mod = "m1" /\ run.kind = "init" => Making(p)
      /\ c = "run" /\ run.mod = "m1" /\ run.kind = "exit" => Dropping(p)
      /\ run.mod \in {"m1", "m2"} /\ run.kind \in {"idle", "init", "exit"}
  BY <1>1 DEF ModuleClass, Prog, Positions
<1>7. ~oops' /\ s.op # "oops"
  <2>1. ~oops'
    BY <1>2, <1>3, <1>4, <1>6 DEF Making, Dropping
  <2>2. s.op = "oops" => oops'
    BY DEF StepOf, Got, Refused, Made, Dropped, Awaited, PropertyRead, KeysAllocated,
       KeysFreed, Nothing, SlotNode, SlotAdded, SlotCleared, SlotsReset, SlotsSwept, Unbound
  <2> QED
    BY <2>1, <2>2
<1>8. c = "bus" \/ run.mod = "m2" => cls' = cls
  BY <1>3, <1>4, <1>6
<1>9. c = "run" /\ run.mod = "m1" => text["m1"] \in {"coming", "going"}
  BY <1>1, <1>2, <1>6 DEF TextInv
<1>10. CASE GivesUp(c)
  <2>1. CASE c = "run"
    <3>1. run' = Idle /\ bus' = bus /\ text' = [text EXCEPT ![run.mod] = "out"]
      BY <1>10, <2>1 DEF GivesUp, Fails
    <3>2. text'["m1"] = "live" => cls' = "ok"
      BY <3>1, <1>1, <1>6, <1>8 DEF ModuleClass, Positions
    <3> QED
      BY <3>1, <3>2, <1>5, <1>7 DEF ModuleClass, Idle
  <2>2. CASE c = "bus"
    <3>1. run' = run /\ text' = text /\ bus' = BusIdle
      BY <1>10, <2>2 DEF GivesUp, Fails
    <3> QED
      BY <3>1, <2>2, <1>5, <1>7, <1>8 DEF ModuleClass, BusIdle, Making, Dropping
  <2> QED
    BY <2>1, <2>2
<1>11. CASE GoesOn(c) /\ ~GivesUp(c)
  <2>1. CASE c = "run"
    <3>1. /\ run' = [run EXCEPT !.prog = Tail(p)] /\ bus' = bus /\ text' = text
      BY <1>11, <2>1 DEF GoesOn, Prog
    <3>2. run'.prog = Tail(p) /\ run'.kind = run.kind /\ run'.mod = run.mod
      BY <3>1, <1>1 DEF Positions
    <3>3. text'["m1"] = "live" => cls' = "ok"
      BY <3>1, <2>1, <1>6, <1>8, <1>9 DEF ModuleClass
    <3>4. ASSUME run.kind = "init", run.mod = "m1"
          PROVE  Makes(drv, Tail(p)) \/ (Uses(Tail(p)) /\ cls' = "ok")
      BY <3>4, <2>1, <1>3, <1>4, <1>6, <1>11 DEF Making
    <3>5. ASSUME run.kind = "exit", run.mod = "m1"
          PROVE  (Drops(Tail(p)) /\ cls' = "ok") \/ Sure(Tail(p))
      BY <3>5, <2>1, <1>3, <1>4, <1>6 DEF Dropping
    <3>6. run.mod = "m2" => Plain(Tail(p))
      BY <2>1, <1>4, <1>6
    <3>7. Plain(bus'.prog)
      BY <3>1 DEF ModuleClass
    <3> HIDE DEF p, s
    <3> QED
      BY <3>2, <3>3, <3>4, <3>5, <3>6, <3>7, <1>7 DEF ModuleClass, Making, Dropping
  <2>2. CASE c = "bus"
    <3>1. /\ bus' = [bus EXCEPT !.prog = Tail(p)] /\ run' = run /\ text' = text
      BY <1>11, <2>2 DEF GoesOn, Prog
    <3>2. bus'.prog = Tail(p)
      BY <3>1, <1>1 DEF Positions
    <3>3. Plain(Tail(p))
      BY <2>2, <1>4, <1>6
    <3> HIDE DEF p, s
    <3> QED
      BY <3>1, <3>2, <3>3, <2>2, <1>7, <1>8 DEF ModuleClass, Making, Dropping
  <2> QED
    BY <2>1, <2>2
<1>12. CASE /\ UNCHANGED <<run, text, bound, cls, oops, failed>>
            /\ \E d \in bound : bus' = [dev |-> d, kind |-> "remove", prog |-> D.remove]
  BY <1>5, <1>12 DEF ModuleClass, Making, Dropping
<1> QED
  BY <1>1, <1>7, <1>10, <1>11, <1>12, FailsRemembered

(* A step of a driver that makes its class when its device is bound.        *)
LEMMA DeviceClassStays ==
  ASSUME Guarded, DeviceClass, Sound', ~oops, drv \in ByDevice, NEW c \in {"run", "bus"},
         Prog(c) # << >>, StepOf(c), UNCHANGED <<drv, binds>>
  PROVE  DeviceClass' /\ ~oops'
<1> DEFINE s == Head(Prog(c))
           p == Prog(c)
<1>1. Positions /\ DataTypes /\ drv \in Drivers
  BY DEF Guarded, Positions
<1>2. p \in Seq(StepSet) /\ (c = "bus" => bus.kind # "idle")
  BY <1>1, NextStep
<1>3. /\ Sound
      /\ PlainStep(s) => cls' = cls /\ ~oops'
      /\ UseStep(s) /\ cls = "ok" => ~oops' /\ (cls' = "ok" \/ GivesUp(c))
      /\ ClassMade(drv, s) => ~oops' /\ (cls' = "ok" \/ GivesUp(c))
      /\ DropStep(s) /\ cls = "ok" => ~oops' /\ cls' = "ok"
      /\ SureStep(s) => cls' = cls /\ ~oops'
      /\ ClassGone(s) /\ cls = "ok" => ~oops'
  BY <1>1, ClassOfStep DEF SureStep
<1>4. /\ Plain(p) => PlainStep(s) /\ Plain(Tail(p))
      /\ Uses(p) => UseStep(s) /\ Uses(Tail(p))
      /\ Makes(drv, p) => \/ ClassMade(drv, s) /\ Uses(Tail(p))
                          \/ PlainStep(s) /\ Makes(drv, Tail(p))
      /\ Sure(p) => SureStep(s) /\ Sure(Tail(p))
      /\ Drops(p) => \/ ClassGone(s) /\ Sure(Tail(p))
                     \/ DropStep(s) /\ Drops(Tail(p))
  BY <1>2, ClassTails
<1>5. Drops(D.remove) /\ (drv # "gpio_led" => D.failure = "unbound") /\ Plain(<< >>)
  BY <1>1, <1>3, DClass, ShortTuples DEF Sound
<1>6. /\ c = "run" => Plain(p)
      /\ c = "bus" /\ bus.kind = "probe" => Making(p) /\ bound = {}
      /\ c = "bus" /\ bus.kind = "remove" => Dropping(p)
      /\ bus.kind \in {"idle", "probe", "remove"}
  BY <1>1 DEF DeviceClass, Prog, Positions
<1>7. ~oops' /\ s.op # "oops"
  <2>1. ~oops'
    BY <1>2, <1>3, <1>4, <1>6 DEF Making, Dropping
  <2>2. s.op = "oops" => oops'
    BY DEF StepOf, Got, Refused, Made, Dropped, Awaited, PropertyRead, KeysAllocated,
       KeysFreed, Nothing, SlotNode, SlotAdded, SlotCleared, SlotsReset, SlotsSwept, Unbound
  <2> QED
    BY <2>1, <2>2
<1>8. c = "run" => cls' = cls
  BY <1>3, <1>4, <1>6
<1>9. CASE GivesUp(c)
  <2>1. CASE c = "run"
    <3>1. run' = Idle /\ bus' = bus /\ bound' = bound
      BY <1>9, <2>1 DEF GivesUp, Fails
    <3>2. cls' = cls
      BY <2>1, <1>8
    <3> QED
      BY <3>1, <3>2, <1>5, <1>7 DEF DeviceClass, Idle, Making, Dropping
  <2>2. CASE c = "bus"
    <3>1. run' = run /\ bus' = BusIdle /\ bound' = bound
      <4>1. drv # "gpio_led"
        BY <1>9 DEF GivesUp, Sound, Unchecked
      <4> QED
        BY <4>1, <2>2, <1>5, <1>9 DEF GivesUp, Fails
    <3>2. bus.kind = "probe"
      <4>1. Dropping(p) => s.op = "drop" \/ DropStep(s)
        BY <1>2, <1>4 DEF Dropping, ClassGone, SureStep
      <4>2. ~DropStep(s) /\ s.op # "drop"
        BY <1>9 DEF GivesUp
      <4> QED
        BY <4>1, <4>2, <2>2, <1>2, <1>6
    <3>3. bound = {}
      BY <3>2, <2>2, <1>6
    <3> QED
      BY <3>1, <3>3, <1>7 DEF DeviceClass, BusIdle
  <2> QED
    BY <2>1, <2>2
<1>10. CASE GoesOn(c) /\ ~GivesUp(c)
  <2>1. CASE c = "run"
    <3>1. run' = [run EXCEPT !.prog = Tail(p)] /\ bus' = bus /\ bound' = bound
      BY <1>10, <2>1 DEF GoesOn, Prog
    <3>2. run'.prog = Tail(p) /\ Plain(Tail(p))
      BY <3>1, <2>1, <1>1, <1>4, <1>6 DEF Positions
    <3> HIDE DEF p, s
    <3> QED
      BY <3>1, <3>2, <2>1, <1>7, <1>8 DEF DeviceClass, Making, Dropping
  <2>2. CASE c = "bus"
    <3>1. bus' = [bus EXCEPT !.prog = Tail(p)] /\ run' = run /\ bound' = bound
      BY <1>10, <2>2 DEF GoesOn, Prog
    <3>2. bus'.prog = Tail(p) /\ bus'.kind = bus.kind
      BY <3>1, <1>1 DEF Positions
    <3>3. ASSUME bus.kind = "probe"
          PROVE  Makes(drv, Tail(p)) \/ (Uses(Tail(p)) /\ cls' = "ok")
      BY <3>3, <2>2, <1>3, <1>4, <1>6, <1>10 DEF Making
    <3>4. ASSUME bus.kind = "remove"
          PROVE  (Drops(Tail(p)) /\ cls' = "ok") \/ Sure(Tail(p))
      BY <3>4, <2>2, <1>3, <1>4, <1>6 DEF Dropping
    <3>5. Plain(run'.prog) /\ (bus.kind = "probe" => bound' = {})
      BY <3>1, <2>2, <1>6 DEF DeviceClass
    <3> HIDE DEF p, s
    <3> QED
      BY <3>2, <3>3, <3>4, <3>5, <2>2, <1>2, <1>7 DEF DeviceClass, Making, Dropping
  <2> QED
    BY <2>1, <2>2
<1>11. CASE /\ bus.kind = "idle" /\ UNCHANGED <<run, text, bound, cls, oops, failed>>
            /\ \E d \in bound : bus' = [dev |-> d, kind |-> "remove", prog |-> D.remove]
  <2>1. cls = "ok"
    BY <1>11 DEF DeviceClass
  <2> QED
    BY <2>1, <1>5, <1>7, <1>11 DEF DeviceClass, Making, Dropping
<1> QED
  BY <1>1, <1>7, <1>9, <1>10, <1>11, FailsRemembered

(* The driver without a class.                                              *)
LEMMA NoClassStays ==
  ASSUME Guarded, Plain(run.prog), Plain(bus.prog), Sound', ~oops, drv = "key01",
         NEW c \in {"run", "bus"}, Prog(c) # << >>, StepOf(c), UNCHANGED <<drv, binds>>
  PROVE  Plain(run.prog)' /\ Plain(bus.prog)' /\ ~oops'
<1> DEFINE s == Head(Prog(c))
           p == Prog(c)
<1>1. Positions /\ DataTypes /\ drv \in Drivers
  BY DEF Guarded, Positions
<1>2. p \in Seq(StepSet) /\ Plain(p)
  BY <1>1, NextStep DEF Prog
<1>3. PlainStep(s) /\ Plain(Tail(p))
  BY <1>2, ClassTails
<1>4. ~oops'
  BY <1>1, <1>3, ClassOfStep
<1>5. Plain(D.remove) /\ Plain(<< >>)
  BY <1>1, DClass, ShortTuples
<1>7. CASE GivesUp(c)
  <2>1. run'.prog \in {run.prog, << >>} /\ bus'.prog \in {bus.prog, << >>}
    BY <1>7 DEF GivesUp, Fails, Idle, BusIdle
  <2> QED
    BY <2>1, <1>4, <1>5
<1>8. CASE GoesOn(c)
  <2>1. \/ c = "run" /\ run'.prog = Tail(p) /\ bus' = bus
        \/ c = "bus" /\ bus'.prog = Tail(p) /\ run' = run
    BY <1>1, <1>8 DEF GoesOn, Prog, Positions
  <2> QED
    BY <2>1, <1>3, <1>4
<1>9. CASE /\ UNCHANGED <<run, text, bound, cls, oops, failed>>
           /\ \E d \in bound : bus' = [dev |-> d, kind |-> "remove", prog |-> D.remove]
  BY <1>4, <1>5, <1>9
<1> QED
  BY <1>1, <1>4, <1>7, <1>8, <1>9, FailsRemembered

(* A step of the driver's code.                                             *)
LEMMA ClassStays ==
  ASSUME Guarded, ClassInv, ~oops, NEW c \in {"run", "bus"}, Prog(c) # << >>, StepOf(c),
         UNCHANGED <<drv, binds>>
  PROVE  ClassInv' /\ (Sound' => ~oops')
<1> SUFFICES ASSUME Sound'
             PROVE  /\ ~oops' /\ (drv \in ByModule => ModuleClass')
                    /\ drv \in ByDevice => DeviceClass'
                    /\ drv = "key01" => Plain(run.prog)' /\ Plain(bus.prog)'
  BY Zenon DEF ClassInv
<1>1. Positions /\ DataTypes /\ drv \in DOMAIN Driver
  BY DriversAssumption DEF Guarded, Positions
<1>2. Sound
  BY <1>1, ClassOfStep
<1>3. drv \in ByModule \cup ByDevice \cup {"key01"}
  BY <1>1, <1>2, DriverNames DEF Sound, ByModule, ByDevice, CharDriver, KeyDrivers
<1>4. ByModule \cap ByDevice = {} /\ "key01" \notin ByModule \cup ByDevice
  BY DEF ByModule, ByDevice, CharDriver, KeyDrivers
<1> QED
  BY <1>2, <1>3, <1>4, ModuleClassStays, DeviceClassStays, NoClassStays DEF ClassInv

(* A kernel that followed a bad pointer does nothing more.                  *)
LEMMA Stopped ==
  ASSUME oops, [Next]_vars
  PROVE  UNCHANGED vars
  BY OutsideGoes DEF Next, ModuleStep, BusStep, ModuleDone, BusDone, Load, Unload,
     Bind, Unbind

(* What is not a step of the driver's code.                                 *)
LEMMA NextClass ==
  ASSUME Guarded, ClassInv, [Next]_vars
  PROVE  ClassInv'
<1> SUFFICES ASSUME ~oops
             PROVE  ClassInv'
  <2>1. UNCHANGED vars => ClassInv'
    BY DEF vars, ClassInv, Sound, ModuleClass, DeviceClass, Making, Dropping
  <2> QED
    BY <2>1, Stopped
<1>1. Positions /\ DataTypes /\ TextInv /\ BoundInv /\ drv \in Drivers
  BY DEF Guarded, Positions
<1>2. /\ run.mod \in {"m1", "m2"} /\ run.kind \in {"idle", "init", "exit"}
      /\ bus.kind \in {"idle", "probe", "remove"} /\ text \in [{"m1", "m2"} ->
                                                  {"out", "coming", "live", "going"}]
  BY <1>1 DEF Positions
<1>3. CASE ModuleStep
  BY <1>3, ClassStays DEF ModuleStep, Prog
<1>4. CASE BusStep
  BY <1>4, ClassStays DEF BusStep, Prog
<1>5. CASE Open \/ Use \/ Close \/ Interrupt \/ HandlerRuns \/ UNCHANGED vars
  BY <1>5, OutsideKeeps DEF vars, runVars, busVars, ClassInv, Sound, ModuleClass,
     DeviceClass, Making, Dropping
<1>6. Plain(<< >>) /\ \A d : ~Makes(d, << >>)
  BY ShortTuples DEF Makes
<1>7. Sound => /\ drv \in ByModule => ModuleClass
               /\ drv \in ByDevice => DeviceClass
               /\ drv = "key01" => Plain(run.prog) /\ Plain(bus.prog)
               /\ drv # "led04"
  BY DEF ClassInv, Sound
<1>8. ASSUME \/ ModuleDone \/ BusDone
              \/ \E m \in {"m1", "m2"} : Load(m) \/ Unload(m)
              \/ \E d \in D.devices : Bind(d) \/ Unbind(d)
       PROVE  Sound' => Sound
  <2>1. /\ UNCHANGED <<drv, failed>> /\ (binds' = binds \/ binds' = binds + 1)
    BY <1>8 DEF ModuleDone, BusDone, Load, Unload, Bind, Unbind
  <2>2. binds \in Nat /\ CAP \in Nat
    BY <1>1, LifeAssumption DEF DataTypes, Positions
  <2> QED
    BY <2>1, <2>2 DEF Sound
<1>9. CASE ModuleDone
  <2>1. /\ run' = Idle /\ UNCHANGED <<drv, bus, cls, bound, failed, oops>>
        /\ text' = [text EXCEPT ![run.mod] = IF run.kind = "init" THEN "live" ELSE "out"]
        /\ run.kind # "idle" /\ run.prog = << >>
    BY <1>9 DEF ModuleDone
  <2>2. ASSUME Sound, drv \in ByModule
        PROVE  ModuleClass'
    <3>1. ASSUME text'["m1"] = "live"
          PROVE  cls' = "ok"
      <4>1. CASE run.mod = "m1"
        <5>1. run.kind = "init"
          BY <2>1, <3>1, <4>1, <1>2
        <5>2. Making(run.prog)
          BY <5>1, <4>1, <2>2, <1>7 DEF ModuleClass
        <5> QED
          BY <5>2, <2>1, <1>6 DEF Making
      <4>2. CASE run.mod = "m2"
        BY <4>2, <2>1, <2>2, <3>1, <1>2, <1>7 DEF ModuleClass
      <4> QED
        BY <4>1, <4>2, <1>2
    <3> QED
      BY <3>1, <2>1, <2>2, <1>6, <1>7 DEF ModuleClass, Idle
  <2>3. ASSUME Sound, drv \in ByDevice
        PROVE  DeviceClass'
    BY <2>1, <2>3, <1>6, <1>7 DEF DeviceClass, Idle, Making, Dropping
  <2> QED
    BY <2>1, <2>2, <2>3, <1>6, <1>7, <1>9, <1>8 DEF ClassInv, Idle
<1>10. CASE BusDone
  <2>1. /\ bus' = BusIdle /\ UNCHANGED <<drv, run, text, cls, failed, oops>>
        /\ bus.prog = << >> /\ bus.kind # "idle"
        /\ bound' = IF bus.kind = "probe" THEN bound \cup {bus.dev} ELSE bound \ {bus.dev}
    BY <1>10 DEF BusDone, runVars
  <2>2. ASSUME Sound, drv \in ByDevice
        PROVE  DeviceClass'
    <3>1. CASE bus.kind = "probe"
      <4>1. Making(bus.prog)
        BY <3>1, <2>2, <1>7 DEF DeviceClass
      <4>2. cls' = "ok"
        BY <4>1, <2>1, <1>6 DEF Making
      <4> QED
        BY <4>2, <2>1, <2>2, <1>7 DEF DeviceClass, BusIdle
    <3>2. CASE bus.kind = "remove"
      <4>1. D.devices = {1} /\ bus.dev \in D.devices /\ bound \subseteq D.devices
        BY <2>2, <3>2, <1>1, <1>7, DClass DEF Positions
      <4>2. bound' = {}
        BY <4>1, <2>1, <3>2
      <4> QED
        BY <4>2, <2>1, <2>2, <1>7 DEF DeviceClass, BusIdle
    <3> QED
      BY <3>1, <3>2, <2>1, <1>2
  <2>3. ASSUME Sound, drv \in ByModule
        PROVE  ModuleClass'
    BY <2>1, <2>3, <1>6, <1>7 DEF ModuleClass, BusIdle, Making, Dropping
  <2> QED
    BY <2>1, <2>2, <2>3, <1>6, <1>7, <1>10, <1>8 DEF ClassInv, BusIdle
<1>11. ASSUME NEW m \in {"m1", "m2"}, Load(m)
       PROVE  ClassInv'
  <2>1. /\ run' = [mod |-> m, kind |-> "init", prog |-> D[m].init]
        /\ cls' = IF m = "m1" THEN "null" ELSE cls
        /\ UNCHANGED <<drv, bus, bound, failed, oops>>
        /\ text' = [text EXCEPT ![m] = "coming"] /\ text[m] = "out"
        /\ m = "m2" => drv \in TwoModules
    BY <1>11 DEF Load
  <2>2. ASSUME Sound, drv \in ByModule
        PROVE  ModuleClass'
    <3>1. m = "m1" => Makes(drv, run'.prog)
      BY <2>1, <2>2, <1>1, <1>7, DClass
    <3>2. m = "m2" => Plain(run'.prog)
      BY <2>1, <2>2, <1>1, <1>7, DClass
    <3>3. text'["m1"] = "live" => cls' = "ok"
      BY <2>1, <2>2, <1>2, <1>7 DEF ModuleClass
    <3> QED
      BY <2>1, <2>2, <3>1, <3>2, <3>3, <1>7 DEF ModuleClass, Making
  <2>3. ASSUME Sound, drv \in ByDevice
        PROVE  DeviceClass'
    <3>1. m = "m1" /\ BusModule = "m1"
      BY <2>1, <2>3 DEF BusModule, TwoModules, ByDevice, KeyDrivers
    <3>2. bound = {} /\ bus.kind = "idle"
      BY <3>1, <2>1, <1>1 DEF BoundInv, Quiet
    <3>3. Plain(run'.prog)
      <4>1. drv \notin ByModule
        BY <2>3 DEF ByModule, ByDevice, CharDriver, KeyDrivers
      <4> QED
        BY <4>1, <3>1, <2>1, <1>1, <1>7, <2>3, DClass
    <3> QED
      BY <3>2, <3>3, <2>1 DEF DeviceClass
  <2>4. ASSUME Sound, drv = "key01"
        PROVE  Plain(run'.prog)
    <3>1. m = "m1" /\ drv \notin ByModule
      BY <2>1, <2>4 DEF TwoModules, ByModule, CharDriver
    <3> QED
      BY <3>1, <2>1, <2>4, <1>1, <1>7, DClass
  <2> QED
    BY <2>1, <2>2, <2>3, <2>4, <1>7, <1>11, <1>8 DEF ClassInv
<1>12. ASSUME NEW m \in {"m1", "m2"}, Unload(m)
       PROVE  ClassInv'
  <2>1. /\ run' = [mod |-> m, kind |-> "exit", prog |-> D[m].exit]
        /\ UNCHANGED <<drv, bus, cls, bound, failed, oops>>
        /\ text' = [text EXCEPT ![m] = "going"] /\ text[m] = "live"
    BY <1>12 DEF Unload
  <2>2. ASSUME Sound, drv \in ByModule
        PROVE  ModuleClass'
    <3>1. m = "m1" => Drops(run'.prog) /\ cls' = "ok"
      BY <2>1, <2>2, <1>1, <1>7, DClass DEF ModuleClass
    <3>2. m = "m2" => Plain(run'.prog)
      BY <2>1, <2>2, <1>1, <1>7, DClass
    <3>3. text'["m1"] = "live" => cls' = "ok"
      BY <2>1, <2>2, <1>2, <1>7 DEF ModuleClass
    <3> QED
      BY <2>1, <2>2, <3>1, <3>2, <3>3, <1>7 DEF ModuleClass, Dropping
  <2>3. ASSUME Sound, drv \in ByDevice \cup {"key01"}
        PROVE  Plain(run'.prog)
    <3>1. drv \notin ByModule
      BY <2>3 DEF ByModule, ByDevice, CharDriver, KeyDrivers
    <3> QED
      BY <3>1, <2>1, <1>1, <1>7, <2>3, DClass
  <2>4. ASSUME Sound, drv \in ByDevice
        PROVE  DeviceClass'
    BY <2>1, <2>3, <2>4, <1>7 DEF DeviceClass, Making, Dropping
  <2> QED
    BY <2>1, <2>2, <2>3, <2>4, <1>7, <1>12, <1>8 DEF ClassInv
<1>13. ASSUME NEW d \in D.devices, Bind(d) \/ Unbind(d)
       PROVE  ClassInv'
  <2>1. /\ UNCHANGED <<drv, run, text, cls, bound, failed, oops>> /\ bus.kind = "idle"
        /\ \/ bus' = [dev |-> d, kind |-> "probe", prog |-> D.probe] /\ d \notin bound
           \/ bus' = [dev |-> d, kind |-> "remove", prog |-> D.remove] /\ d \in bound
    BY <1>13 DEF Bind, Unbind, runVars
  <2>2. ASSUME Sound, drv \in ByModule \cup {"key01"}
        PROVE  Plain(bus'.prog)
    BY <2>1, <2>2, <1>1, <1>7, DClass
  <2>3. ASSUME Sound, drv \in ByModule
        PROVE  ModuleClass'
    BY <2>1, <2>2, <2>3, <1>7 DEF ModuleClass, Making, Dropping
  <2>4. ASSUME Sound, drv \in ByDevice
        PROVE  DeviceClass'
    <3>1. /\ D.devices = {1} /\ Makes(drv, D.probe) /\ Drops(D.remove)
          /\ bound \subseteq D.devices
      BY <2>4, <1>1, <1>7, DClass DEF Positions
    <3>2. bus'.kind = "probe" => bound' = {} /\ Makes(drv, bus'.prog)
      BY <3>1, <2>1
    <3>3. bus'.kind = "remove" => Drops(bus'.prog) /\ cls' = "ok"
      BY <3>1, <2>1, <2>4, <1>7 DEF DeviceClass
    <3>4. bus'.kind # "idle" /\ Plain(run'.prog)
      BY <2>1, <2>4, <1>7 DEF DeviceClass
    <3> QED
      BY <2>1, <3>2, <3>3, <3>4 DEF DeviceClass, Making, Dropping
  <2> QED
    BY <2>1, <2>2, <2>3, <2>4, <1>7, <1>13, <1>8 DEF ClassInv
<1> QED
  BY <1>3, <1>4, <1>5, <1>9, <1>10, <1>11, <1>12, <1>13 DEF Next

(* The class of every behaviour.                                            *)
LEMMA AlwaysClass == Spec => [](Guarded /\ ClassInv)
<1>1. Init => ClassInv
  <2>1. Plain(<< >>)
    BY ShortTuples
  <2> QED
    BY <2>1 DEF Init, ClassInv, ModuleClass, DeviceClass, Idle, BusIdle
<1>2. Guarded /\ ClassInv /\ [Next]_vars => ClassInv'
  BY NextClass
<1> QED
  BY <1>1, <1>2, LifeGuarded, PTL DEF Spec
-----------------------------------------------------------------------------
(* What unloading leaves behind: whatever the kernel holds has code ahead   *)
(* that gives it back, or is one of the things the drivers are known to     *)
(* leave.                                                                   *)

\* The step adds resource r of index k to what is held, or takes it away.
Brings(s, r, k) ==
  \/ s.op \in {"take", "need", "make"} /\ s.r = r /\ s.i = k
  \/ s.op = "kzalloc" /\ r = "array" /\ k = 0
  \/ s.op \in {"node_of_next_slot", "clear_slot"} /\ r = "node"
Gives(s, r, k) ==
  \/ s.op = "drop" /\ s.r = r /\ s.i = k
  \/ s.op = "kfree" /\ r = "array" /\ k = 0
Returns(q, r, k) == \E j \in 1 .. Len(q) : Gives(q[j], r, k)

\* If the step fails, r goes with it or is of F, which a failure may leave;
\* and the step does not hide the array under another.
Spares(F, s, r, k) ==
  /\ s.op \in {"need", "read"} => r \in F \/ (s.op = "need" /\ k = 0 /\ r \in s.undo)
  /\ s.op = "kzalloc" => r # "array"
Safe(F, p, r, k) == \A j \in 1 .. Len(p) : Spares(F, p[j], r, k)

\* What p brings, of what may not stay (S), q gives back, and until p is done
\* no failure leaves it.
Careful(S, F, p, q) ==
  \A i \in 1 .. Len(p), r \in Names \ S, k \in Nat :
    Brings(p[i], r, k) =>
      /\ Returns(q, r, k)
      /\ \A j \in i + 1 .. Len(p) : Spares(F, p[j], r, k)

\* Code that brings nothing but what may stay; and cannot fail.
BarrenStep(S, s) == \A r \in Names \ S, k \in Nat : ~Brings(s, r, k)
Barren(S, p) == \A i \in 1 .. Len(p) : BarrenStep(S, p[i])
CalmStep(S, s) == BarrenStep(S, s) /\ s.op \notin {"need", "read"}
Calm(S, p) == \A i \in 1 .. Len(p) : CalmStep(S, p[i])

\* What may stay, and what may stay after a failure.  The keys' own resources
\* have an invariant of their own, and the operations go with the next load.
Stays == LeftByDesign \cup {"ops"} \cup PerKey
Lapses == LeftByFailure
MayStay == Stays \cup (IF failed THEN Lapses ELSE {})

\* The module's exit will give h back, or the remove of its bound device.
ByModuleExit(m, h) ==
  /\ h[3] = 0
  /\ \/ text[m] = "live" /\ Returns(D[m].exit, h[1], h[2])
     \/ /\ run.kind = "init" /\ run.mod = m
        /\ Returns(D[m].exit, h[1], h[2]) /\ Safe(Lapses, run.prog, h[1], h[2])
     \/ run.kind = "exit" /\ run.mod = m /\ Returns(run.prog, h[1], h[2])
ByRemove(h) ==
  /\ h[3] = IF h[1] = "array" THEN gpk ELSE 0
  /\ \/ bus.kind = "idle" /\ bound # {} /\ Returns(D.remove, h[1], h[2])
     \/ /\ bus.kind = "probe"
        /\ Returns(D.remove, h[1], h[2]) /\ Safe(Lapses, bus.prog, h[1], h[2])
     \/ bus.kind = "remove" /\ Returns(bus.prog, h[1], h[2])
InCustody(h) ==
  h[1] \in MayStay \/ (\E m \in {"m1", "m2"} : ByModuleExit(m, h)) \/ ByRemove(h)

\* What is left of the programs is as careful as the whole.
RunCareful ==
  /\ run.kind = "init" => Careful(Stays, Lapses, run.prog, D[run.mod].exit)
  /\ run.kind = "exit" => Calm(Stays, run.prog)
BusCareful ==
  /\ bus.kind = "probe" => Careful(Stays, Lapses, bus.prog, D.remove)
  /\ bus.kind = "remove" => Calm(Stays, bus.prog)

CustodyInv == (\A h \in held : InCustody(h)) /\ RunCareful /\ BusCareful

\* The devices of a driver whose remove gives anything back are one at most.
CustodyFits ==
  /\ \A m \in {"m1", "m2"} : /\ Careful(Stays, Lapses, D[m].init, D[m].exit)
                             /\ Calm(Stays, D[m].exit)
  /\ Careful(Stays, Lapses, D.probe, D.remove)
  /\ Calm(Stays, D.remove)
  /\ D.devices \in {{}, {1}} \/ \A r, k : ~Returns(D.remove, r, k)

(* The rest of a program.                                                   *)
LEMMA CarefulTail ==
  ASSUME NEW p \in Seq(StepSet), p # << >>
  PROVE  /\ \A S, F, q : Careful(S, F, p, q) =>
              /\ Careful(S, F, Tail(p), q)
              /\ \A r \in Names \ S, k \in Nat :
                   Brings(Head(p), r, k) => Returns(q, r, k) /\ Safe(F, Tail(p), r, k)
         /\ \A F, r, k : Safe(F, p, r, k) =>
              Spares(F, Head(p), r, k) /\ Safe(F, Tail(p), r, k)
         /\ \A r, k : Returns(p, r, k) => Gives(Head(p), r, k) \/ Returns(Tail(p), r, k)
<1> DEFINE t == Tail(p)
<1>1. /\ Len(p) \in Nat /\ Len(p) >= 1 /\ Len(t) = Len(p) - 1 /\ Head(p) = p[1]
      /\ \A i \in 1 .. Len(t) : t[i] = p[i + 1]
      /\ \A i \in 2 .. Len(p) : i - 1 \in 1 .. Len(t) /\ t[i - 1] = p[i]
  OBVIOUS
<1> HIDE DEF t
<1>2. ASSUME NEW S, NEW F, NEW q, Careful(S, F, p, q)
      PROVE  /\ Careful(S, F, t, q)
             /\ \A r \in Names \ S, k \in Nat :
                  Brings(Head(p), r, k) => Returns(q, r, k) /\ Safe(F, t, r, k)
  <2>1. ASSUME NEW i \in 1 .. Len(t), NEW r \in Names \ S, NEW k \in Nat, Brings(t[i], r, k)
        PROVE  Returns(q, r, k) /\ \A j \in i + 1 .. Len(t) : Spares(F, t[j], r, k)
    <3>1. i + 1 \in 1 .. Len(p) /\ Brings(p[i + 1], r, k)
      BY <2>1, <1>1
    <3>2. Returns(q, r, k) /\ \A j \in i + 1 + 1 .. Len(p) : Spares(F, p[j], r, k)
      BY <3>1, <1>2 DEF Careful
    <3> QED
      BY <3>2, <1>1
  <2>2. ASSUME NEW r \in Names \ S, NEW k \in Nat, Brings(Head(p), r, k)
        PROVE  Returns(q, r, k) /\ Safe(F, t, r, k)
    <3>1. Returns(q, r, k) /\ \A j \in 1 + 1 .. Len(p) : Spares(F, p[j], r, k)
      BY <2>2, <1>1, <1>2 DEF Careful
    <3> QED
      BY <3>1, <1>1 DEF Safe
  <2> QED
    BY <2>1, <2>2 DEF Careful
<1>3. ASSUME NEW F, NEW r, NEW k, Safe(F, p, r, k)
      PROVE  Spares(F, Head(p), r, k) /\ Safe(F, t, r, k)
  BY <1>1, <1>3 DEF Safe
<1>4. ASSUME NEW r, NEW k, Returns(p, r, k)
      PROVE  Gives(Head(p), r, k) \/ Returns(t, r, k)
  <2>1. PICK j \in 1 .. Len(p) : Gives(p[j], r, k)
    BY <1>4 DEF Returns
  <2>2. CASE j = 1
    BY <2>1, <2>2, <1>1
  <2>3. CASE j > 1
    BY <2>1, <2>3, <1>1 DEF Returns
  <2> QED
    BY <2>2, <2>3
<1> QED
  BY <1>2, <1>3, <1>4 DEF t

(* No program.                                                              *)
LEMMA CarefulNone ==
  /\ \A S, F, q : Careful(S, F, << >>, q)
  /\ \A F, r, k : Safe(F, << >>, r, k)
  /\ \A r, k : ~Returns(<< >>, r, k)
BY DEF Careful, Safe, Returns

(* One program after another.                                               *)
LEMMA CarefulCat ==
  ASSUME NEW p \in Seq(StepSet), NEW t \in Seq(StepSet)
  PROVE  /\ \A F, r, k : Safe(F, p, r, k) /\ Safe(F, t, r, k) => Safe(F, p \o t, r, k)
         /\ \A r, k : Returns(p, r, k) \/ Returns(t, r, k) => Returns(p \o t, r, k)
         /\ \A S, F, q :
              /\ Careful(S, F, p, q) /\ Careful(S, F, t, q)
              /\ \A i \in 1 .. Len(p), r \in Names \ S, k \in Nat :
                   Brings(p[i], r, k) => Safe(F, t, r, k)
              => Careful(S, F, p \o t, q)
<1> DEFINE u == p \o t
<1>1. /\ Len(p) \in Nat /\ Len(t) \in Nat /\ Len(u) = Len(p) + Len(t)
      /\ \A i \in 1 .. Len(p) : u[i] = p[i]
      /\ \A i \in 1 .. Len(t) : i + Len(p) \in 1 .. Len(u) /\ u[i + Len(p)] = t[i]
      /\ \A i \in 1 .. Len(u) :
           \/ i \in 1 .. Len(p) /\ u[i] = p[i]
           \/ i > Len(p) /\ i - Len(p) \in 1 .. Len(t) /\ u[i] = t[i - Len(p)]
  OBVIOUS
<1> HIDE DEF u
<1>2. \A F, r, k : Safe(F, p, r, k) /\ Safe(F, t, r, k) => Safe(F, u, r, k)
  BY <1>1 DEF Safe
<1>3. \A r, k : Returns(p, r, k) \/ Returns(t, r, k) => Returns(u, r, k)
  BY <1>1 DEF Returns
<1>4. ASSUME NEW S, NEW F, NEW q, Careful(S, F, p, q), Careful(S, F, t, q),
             \A i \in 1 .. Len(p), r \in Names \ S, k \in Nat :
               Brings(p[i], r, k) => Safe(F, t, r, k),
             NEW i \in 1 .. Len(u), NEW r \in Names \ S, NEW k \in Nat, Brings(u[i], r, k)
      PROVE  Returns(q, r, k) /\ \A j \in i + 1 .. Len(u) : Spares(F, u[j], r, k)
  <2>1. CASE i \in 1 .. Len(p) /\ u[i] = p[i]
    <3>1. Returns(q, r, k) /\ \A j \in i + 1 .. Len(p) : Spares(F, p[j], r, k)
      BY <2>1, <1>4 DEF Careful
    <3>2. \A j \in 1 .. Len(t) : Spares(F, t[j], r, k)
      BY <2>1, <1>4 DEF Safe
    <3>3. ASSUME NEW j \in i + 1 .. Len(u)
          PROVE  Spares(F, u[j], r, k)
      <4>1. CASE j \in 1 .. Len(p) /\ u[j] = p[j]
        BY <4>1, <3>1, <3>3
      <4>2. CASE j > Len(p) /\ j - Len(p) \in 1 .. Len(t) /\ u[j] = t[j - Len(p)]
        BY <4>2, <3>2
      <4> QED
        BY <4>1, <4>2, <1>1
    <3> QED
      BY <3>1, <3>3
  <2>2. CASE i > Len(p) /\ i - Len(p) \in 1 .. Len(t) /\ u[i] = t[i - Len(p)]
    <3>1. /\ Returns(q, r, k)
          /\ \A j \in i - Len(p) + 1 .. Len(t) : Spares(F, t[j], r, k)
      BY <2>2, <1>4 DEF Careful
    <3>2. ASSUME NEW j \in i + 1 .. Len(u)
          PROVE  Spares(F, u[j], r, k)
      <4>1. j - Len(p) \in i - Len(p) + 1 .. Len(t) /\ u[j] = t[j - Len(p)]
        BY <1>1, <2>2
      <4> QED
        BY <4>1, <3>1
    <3> QED
      BY <3>1, <3>2
  <2> QED
    BY <2>1, <2>2, <1>1
<1>5. \A S, F, q :
        /\ Careful(S, F, p, q) /\ Careful(S, F, t, q)
        /\ \A i \in 1 .. Len(p), r \in Names \ S, k \in Nat :
             Brings(p[i], r, k) => Safe(F, t, r, k)
        => Careful(S, F, u, q)
  BY <1>4 DEF Careful
<1> QED
  BY <1>2, <1>3, <1>5 DEF u

(* The programs that are written out, when S and F have what their drivers  *)
(* are known to leave.                                                      *)
LEMMA CarefulWritten ==
  ASSUME NEW S, NEW F
  PROVE  /\ Careful(S, F, hello_init01, hello_exit01)
         /\ "region" \in F /\ "cdev" \in F => Careful(S, F, hello_init01b, hello_exit01b)
         /\ "buf" \in S => Careful(S, F, hello_init07, hello_exit01)
         /\ Careful(S, F, led_init_simple, hello_exit01)
         /\ "ops" \in S => Careful(S, F, led_init01, led_exit01)
         /\ "chrdev" \in F => Careful(S, F, led_init04, led_exit04)
         /\ "ops" \in S => Careful(S, F, led_drv_init04, led_drv_exit04)
         /\ Careful(S, F, gpio_led_init, gpio_led_exit)
         /\ "gpiod" \in S => Careful(S, F, gpio_led_probe, gpio_led_remove)
         /\ Careful(S, F, led_drv_probe04, led_drv_remove04)
         /\ "node" \in S => /\ Careful(S, F, led_drv_probe05, led_drv_remove05)
                            /\ Careful(S, F, led_drv_probe05, button_remove)
         /\ Careful(S, F, Nodes, NoNodes)
         /\ Careful(S, F, Begin, NoNodes)
<1>1. Careful(S, F, hello_init01, hello_exit01)
  BY DEF Careful, Brings, Returns, Gives, Spares, hello_init01, hello_exit01, Take, Need,
     Drop, Step
<1>2. "region" \in F /\ "cdev" \in F => Careful(S, F, hello_init01b, hello_exit01b)
  BY DEF Careful, Brings, Returns, Gives, Spares, hello_init01b, hello_exit01b, Take, Need,
     Drop, Step
<1>3. "buf" \in S => Careful(S, F, hello_init07, hello_exit01)
  BY DEF Careful, Brings, Returns, Gives, Spares, hello_init07, hello_exit01, Take, Need,
     Make, Drop, Step
<1>4. Careful(S, F, led_init_simple, hello_exit01)
  BY DEF Careful, Brings, Returns, Gives, Spares, led_init_simple, hello_exit01, Take,
     Drop, Step
<1>5. "ops" \in S => Careful(S, F, led_init01, led_exit01)
  BY DEF Careful, Brings, Returns, Gives, Spares, led_init01, led_exit01, Take, Need, Make,
     Drop, Step
<1>6. "chrdev" \in F => Careful(S, F, led_init04, led_exit04)
  BY DEF Careful, Brings, Returns, Gives, Spares, led_init04, led_exit04, Need, Drop, Step
<1>7. "ops" \in S => Careful(S, F, led_drv_init04, led_drv_exit04)
  BY DEF Careful, Brings, Returns, Gives, Spares, led_drv_init04, led_drv_exit04, Make, Do,
     Drop, Step
<1>8. Careful(S, F, gpio_led_init, gpio_led_exit)
  BY DEF Careful, Brings, Returns, Gives, Spares, gpio_led_init, gpio_led_exit, Make, Do,
     Drop, Step
<1>9. "gpiod" \in S => Careful(S, F, gpio_led_probe, gpio_led_remove)
  BY DEF Careful, Brings, Returns, Gives, Spares, gpio_led_probe, gpio_led_remove, Need,
     Drop, Step
<1>10. Careful(S, F, led_drv_probe04, led_drv_remove04)
  BY DEF Careful, Brings, led_drv_probe04, led_class_create_dev04, Do, Step
<1>11. "node" \in S => /\ Careful(S, F, led_drv_probe05, led_drv_remove05)
                       /\ Careful(S, F, led_drv_probe05, button_remove)
  BY DEF Careful, Brings, led_drv_probe05, Do, Step
<1>12. Careful(S, F, Nodes, NoNodes)
  BY DEF Careful, Brings, Returns, Gives, Spares, Nodes, NoNodes, Take, Need, Do, Drop, Step
<1>13. Careful(S, F, Begin, NoNodes)
  BY DEF Careful, Brings, Returns, Gives, Spares, Begin, NoNodes, Read, Do, Drop, Step
<1> QED
  BY <1>1, <1>2, <1>3, <1>4, <1>5, <1>6, <1>7, <1>8, <1>9, <1>10, <1>11, <1>12, <1>13

(* It is careful, and so is what follows it.                                *)
LEMMA BarrenCareful ==
  /\ \A S, F, p, q : Barren(S, p) => Careful(S, F, p, q)
  /\ \A S, p : Calm(S, p) => Barren(S, p)
  /\ \A S : \A p, t \in Seq(StepSet) :
       /\ Barren(S, p) /\ Barren(S, t) => Barren(S, p \o t)
       /\ Calm(S, p) /\ Calm(S, t) => Calm(S, p \o t)
<1>1. \A S, F, p, q : Barren(S, p) => Careful(S, F, p, q)
  BY DEF Barren, BarrenStep, Careful
<1>2. ASSUME NEW S, NEW p \in Seq(StepSet), NEW t \in Seq(StepSet)
      PROVE  /\ Barren(S, p) /\ Barren(S, t) => Barren(S, p \o t)
             /\ Calm(S, p) /\ Calm(S, t) => Calm(S, p \o t)
  BY <1>2, Cat DEF Barren, Calm
<1>3. \A S, p : Calm(S, p) => Barren(S, p)
  BY DEF Calm, CalmStep, Barren
<1> QED
  BY <1>1, <1>2, <1>3

(* The steps of these programs.                                             *)
LEMMA BarrenSteps ==
  ASSUME NEW S, NEW F, PerKey \subseteq S
  PROVE  /\ \A r, k : CalmStep(S, Drop(r, k)) /\ CalmStep(S, Await(r, k))
         /\ \A r \in PerKey : \A k, u : BarrenStep(S, Need(r, k, u)) /\ BarrenStep(S, Make(r, k))
         /\ BarrenStep(S, Read)
         /\ \A op : op \notin {"take", "need", "make", "kzalloc", "node_of_next_slot",
                               "clear_slot", "read"} => CalmStep(S, Do(op))
         /\ "array" \in F =>
              /\ Spares(F, Read, "array", 0)
              /\ \A r, k, u : /\ Spares(F, Need(r, k, u), "array", 0)
                              /\ Spares(F, Take(r, k), "array", 0)
                              /\ Spares(F, Make(r, k), "array", 0)
BY DEF CalmStep, BarrenStep, Brings, Spares, Drop, Await, Need, Take, Make, Read, Do, Step

(* The loops.                                                               *)
LEMMA BarrenLoops ==
  ASSUME NEW S, NEW F, PerKey \subseteq S
  PROVE  /\ Calm(S, For(NLeds, LedNodeGone)) /\ Calm(S, For(NKeys, FreeIrq))
         /\ Calm(S, For(NKeys, FreeTimed)) /\ Calm(S, For(NKeys, FreeAll))
         /\ Barren(S, For(NKeys, KeyIrq)) /\ Barren(S, For(NKeys, KeyTimed))
         /\ "array" \in F => /\ Safe(F, For(NKeys, KeyIrq), "array", 0)
                             /\ Safe(F, For(NKeys, KeyTimed), "array", 0)
<1> DEFINE Bare(s) == BarrenStep(S, s)
           Free(s) == CalmStep(S, s)
           Kept(s) == "array" \in F => Spares(F, s, "array", 0)
<1>1. ASSUME NEW k
      PROVE  /\ \A c \in 1 .. 2 : /\ Bare(KeyIrq(k)[c]) /\ Kept(KeyIrq(k)[c])
                                  /\ Free(FreeIrq(k)[c])
             /\ \A c \in 1 .. 3 : /\ Bare(KeyTimed(k)[c]) /\ Kept(KeyTimed(k)[c])
                                  /\ Free(FreeTimed(k)[c])
             /\ \A c \in 1 .. 4 : Free(FreeAll(k)[c])
  <2>1. /\ Free(Drop("line", k)) /\ Free(Await("thread", k)) /\ Free(Drop("timer", k))
        /\ Free(Await("task", k)) /\ Bare(Read) /\ Kept(Read)
        /\ Bare(Need("line", k, {})) /\ Kept(Need("line", k, {}))
        /\ Bare(Make("timer", k)) /\ Kept(Make("timer", k))
    BY BarrenSteps DEF PerKey
  <2> HIDE DEF Bare, Free, Kept
  <2> QED
    BY <2>1 DEF KeyIrq, FreeIrq, KeyTimed, FreeTimed, FreeAll
<1>2. \A k : Free(Drop("node", k))
  BY BarrenSteps
<1> HIDE DEF Bare, Free, Kept
<1>3. NKeys * 2 \in Nat /\ NKeys * 3 \in Nat /\ NKeys * 4 \in Nat
  BY ProgramsAssumption
<1>4. \A j \in 1 .. NKeys * 2 : /\ Bare(For(NKeys, KeyIrq)[j]) /\ Kept(For(NKeys, KeyIrq)[j])
                                /\ Free(For(NKeys, FreeIrq)[j])
  BY Loops, Grid, <1>1, ProgramsAssumption
<1>5. \A j \in 1 .. NKeys * 3 : /\ Bare(For(NKeys, KeyTimed)[j])
                                /\ Kept(For(NKeys, KeyTimed)[j])
                                /\ Free(For(NKeys, FreeTimed)[j])
  BY Loops, Grid, <1>1, ProgramsAssumption
<1>6. \A j \in 1 .. NKeys * 4 : Free(For(NKeys, FreeAll)[j])
  BY Loops, Grid, <1>1, ProgramsAssumption
<1>7. \A j \in 1 .. NLeds : Free(For(NLeds, LedNodeGone)[j])
  BY Loops, <1>2, ProgramsAssumption
<1>8. /\ Len(For(NLeds, LedNodeGone)) = NLeds /\ Len(For(NKeys, FreeIrq)) = NKeys * 2
      /\ Len(For(NKeys, FreeTimed)) = NKeys * 3 /\ Len(For(NKeys, FreeAll)) = NKeys * 4
      /\ Len(For(NKeys, KeyIrq)) = NKeys * 2 /\ Len(For(NKeys, KeyTimed)) = NKeys * 3
  BY Loops, <1>3, ProgramsAssumption
<1>9. /\ Calm(S, For(NLeds, LedNodeGone)) /\ Calm(S, For(NKeys, FreeIrq))
      /\ Calm(S, For(NKeys, FreeTimed)) /\ Calm(S, For(NKeys, FreeAll))
      /\ Barren(S, For(NKeys, KeyIrq)) /\ Barren(S, For(NKeys, KeyTimed))
  BY <1>4, <1>5, <1>6, <1>7, <1>8 DEF Calm, Barren, Free, Bare
<1>10. "array" \in F => /\ Safe(F, For(NKeys, KeyIrq), "array", 0)
                        /\ Safe(F, For(NKeys, KeyTimed), "array", 0)
  BY <1>4, <1>5, <1>8 DEF Safe, Kept
<1> QED
  BY <1>9, <1>10

(* Every node of the loop is destroyed by the other.                        *)
LEMMA NodesReturned == \A k \in 0 .. NLeds - 1 : Returns(For(NLeds, LedNodeGone), "node", k)
<1> SUFFICES ASSUME NEW k \in 0 .. NLeds - 1
             PROVE  Returns(For(NLeds, LedNodeGone), "node", k)
  OBVIOUS
<1> DEFINE p == For(NLeds, LedNodeGone)
<1>1. k + 1 \in 1 .. Len(p) /\ p[k + 1] = Drop("node", k)
  BY Loops, ProgramsAssumption
<1> HIDE DEF p
<1>2. Gives(p[k + 1], "node", k)
  BY <1>1 DEF Gives, Drop, Step
<1>3. Returns(p, "node", k)
  BY <1>1, <1>2 DEF Returns
<1> QED
  BY <1>3 DEF p

(* The nodes are made in a loop that cannot fail.                           *)
LEMMA NodesCareful ==
  ASSUME NEW S, NEW F
  PROVE  /\ \A q : (\A k \in 0 .. NLeds - 1 : Returns(q, "node", k)) =>
                      Careful(S, F, For(NLeds, LedNode), q)
         /\ \A r, k : Safe(F, For(NLeds, LedNode), r, k)
<1> DEFINE p == For(NLeds, LedNode)
<1>1. Len(p) = NLeds /\ \A i \in 1 .. NLeds : p[i] = Take("node", i - 1) /\ i - 1 \in 0 .. NLeds - 1
  BY Loops, ProgramsAssumption
<1> HIDE DEF p
<1>2. \A i \in 1 .. NLeds : /\ \A r, k : Brings(p[i], r, k) => r = "node" /\ k = i - 1
                            /\ \A r, k : Spares(F, p[i], r, k)
  BY <1>1 DEF Brings, Spares, Take, Step
<1>3. \A r, k : Safe(F, p, r, k)
  BY <1>1, <1>2 DEF Safe
<1>4. ASSUME NEW q, \A k \in 0 .. NLeds - 1 : Returns(q, "node", k)
      PROVE  Careful(S, F, p, q)
  <2>1. ASSUME NEW i \in 1 .. Len(p), NEW r \in Names \ S, NEW k \in Nat, Brings(p[i], r, k)
        PROVE  Returns(q, r, k) /\ \A j \in i + 1 .. Len(p) : Spares(F, p[j], r, k)
    <3>1. r = "node" /\ k \in 0 .. NLeds - 1
      BY <2>1, <1>1, <1>2
    <3>2. \A j \in i + 1 .. Len(p) : j \in 1 .. NLeds
      BY <1>1, <2>1, ProgramsAssumption
    <3> QED
      BY <3>1, <3>2, <1>2, <1>4
  <2> QED
    BY <2>1 DEF Careful
<1> QED
  BY <1>3, <1>4 DEF p

(* The programs that take things back bring nothing that may not stay.      *)
LEMMA CalmPrograms ==
  ASSUME NEW S, NEW F, PerKey \subseteq S
  PROVE  /\ Calm(S, << >>) /\ Calm(S, hello_exit01) /\ Calm(S, hello_exit01b)
         /\ Calm(S, led_exit_imx6ull) /\ Calm(S, led_exit_stm32mp157)
         /\ Calm(S, led_exit01) /\ Calm(S, led_exit02) /\ Calm(S, led_exit04)
         /\ Calm(S, led_drv_exit04) /\ Calm(S, led_drv_remove04)
         /\ Calm(S, gpio_led_exit) /\ Calm(S, gpio_led_remove)
         /\ "node" \in S => Calm(S, led_drv_remove05)
         /\ Calm(S, button_remove) /\ Calm(S, keys_remove01)
         /\ Calm(S, keys_remove02) /\ Calm(S, keys_remove07) /\ Calm(S, keys_remove08)
         /\ Calm(S, NoNodes)
<1> DEFINE Bare(s) == CalmStep(S, s)
<1>1. /\ \A r, k : Bare(Drop(r, k)) /\ Bare(Await(r, k))
      /\ Bare(Do("spin")) /\ Bare(Do("unbind")) /\ Bare(Do("kfree"))
      /\ Bare(Do("free_irq_of_another")) /\ Bare(Do("reset_if_all_clear"))
      /\ Bare(Do("clear_slot_and_look_on"))
  BY BarrenSteps
<1>2. "node" \in S => Bare(Do("clear_slot"))
  BY DEF CalmStep, BarrenStep, Brings, Do, Step
<1> HIDE DEF Bare
<1>3. /\ Calm(S, << >>) /\ Calm(S, hello_exit01) /\ Calm(S, hello_exit01b)
      /\ Calm(S, led_exit01) /\ Calm(S, led_exit04)
      /\ Calm(S, led_drv_exit04) /\ Calm(S, led_drv_remove04)
      /\ Calm(S, gpio_led_exit) /\ Calm(S, gpio_led_remove)
      /\ Calm(S, button_remove) /\ Calm(S, keys_remove01) /\ Calm(S, NoNodes)
  <2>1. /\ \A x : Bare(x) => Calm(S, <<x>>)
        /\ \A x, y : Bare(x) /\ Bare(y) => Calm(S, <<x, y>>)
        /\ \A x, y, z : Bare(x) /\ Bare(y) /\ Bare(z) => Calm(S, <<x, y, z>>)
        /\ \A x, y, z, u : Bare(x) /\ Bare(y) /\ Bare(z) /\ Bare(u) => Calm(S, <<x, y, z, u>>)
        /\ \A x, y, z, u, v : Bare(x) /\ Bare(y) /\ Bare(z) /\ Bare(u) /\ Bare(v) =>
             Calm(S, <<x, y, z, u, v>>)
        /\ Calm(S, << >>)
    BY DEF Calm, Bare
  <2>2. /\ Calm(S, hello_exit01) /\ Calm(S, hello_exit01b)
        /\ Calm(S, led_exit01) /\ Calm(S, led_exit04)
    BY <1>1, <2>1, Zenon DEF hello_exit01, hello_exit01b, led_exit01, led_exit04
  <2>3. /\ Calm(S, led_drv_exit04) /\ Calm(S, led_drv_remove04)
        /\ Calm(S, gpio_led_exit) /\ Calm(S, gpio_led_remove)
    BY <1>1, <2>1, Zenon DEF led_drv_exit04, led_drv_remove04, gpio_led_exit, gpio_led_remove
  <2>4. Calm(S, button_remove) /\ Calm(S, keys_remove01) /\ Calm(S, NoNodes)
    BY <1>1, <2>1, Zenon DEF button_remove, keys_remove01, NoNodes
  <2> QED
    BY <2>1, <2>2, <2>3, <2>4, Zenon
<1>4. "node" \in S => Calm(S, led_drv_remove05)
  BY <1>1, <1>2 DEF Calm, Bare, led_drv_remove05
<1>5. hello_exit01 \in Seq(StepSet) /\ NoNodes \in Seq(StepSet)
  BY TuplesFit, LoopedFit DEF ModuleFits
<1>6. \A k \in Nat : Drop("map", k) \in StepSet
  BY DEF Drop, Step, StepSet, Ops, Wares, Names
<1>7. Calm(S, led_exit_imx6ull)
  <2> DEFINE a == <<Drop("map", 1), Drop("map", 2), Drop("map", 3)>>
  <2>1. a \in Seq(StepSet) /\ Calm(S, a)
    BY <1>1, <1>6 DEF Calm, Bare
  <2> HIDE DEF a
  <2>2. Calm(S, a \o hello_exit01)
    BY <2>1, <1>3, <1>5, BarrenCareful
  <2> QED
    BY <2>2 DEF a, led_exit_imx6ull
<1>8. Calm(S, led_exit_stm32mp157)
  <2> DEFINE a == <<Drop("map", 1), Drop("map", 2), Drop("map", 3), Drop("map", 4)>>
  <2>1. a \in Seq(StepSet) /\ Calm(S, a)
    BY <1>1, <1>6 DEF Calm, Bare
  <2> HIDE DEF a
  <2>2. Calm(S, a \o hello_exit01)
    BY <2>1, <1>3, <1>5, BarrenCareful
  <2> QED
    BY <2>2 DEF a, led_exit_stm32mp157
<1>9. /\ For(NLeds, LedNodeGone) \in Seq(StepSet) /\ For(NKeys, FreeIrq) \in Seq(StepSet)
      /\ For(NKeys, FreeTimed) \in Seq(StepSet) /\ For(NKeys, FreeAll) \in Seq(StepSet)
  BY LoopsFit DEF ModuleFits
<1>10. Calm(S, For(NLeds, LedNodeGone) \o hello_exit01)
  BY <1>3, <1>5, <1>9, BarrenLoops, BarrenCareful
<1>11. Calm(S, led_exit02)
  BY <1>10, Zenon DEF led_exit02, hello_exit01
<1>12. /\ Calm(S, For(NKeys, FreeIrq) \o NoNodes) /\ Calm(S, For(NKeys, FreeTimed) \o NoNodes)
       /\ Calm(S, For(NKeys, FreeAll) \o NoNodes)
  BY <1>3, <1>5, <1>9, BarrenLoops, BarrenCareful
<1>13. Calm(S, keys_remove02) /\ Calm(S, keys_remove07) /\ Calm(S, keys_remove08)
  BY <1>12, Zenon DEF keys_remove02, keys_remove07, keys_remove08
<1> QED
  BY <1>3, <1>4, <1>7, <1>8, <1>11, <1>13, Zenon

(* What follows gives back as much.                                         *)
LEMMA CarefulMore ==
  ASSUME NEW S, NEW F, NEW p, NEW q, NEW u, Careful(S, F, p, q),
         \A r, k : Returns(q, r, k) => Returns(u, r, k)
  PROVE  Careful(S, F, p, u)
BY DEF Careful

(* The drivers with mapped registers.                                       *)
LEMMA MapsCareful ==
  ASSUME NEW S, NEW F
  PROVE  /\ Careful(S, F, led_init_imx6ull, led_exit_imx6ull)
         /\ Careful(S, F, led_init_stm32mp157, led_exit_stm32mp157)
<1>1. hello_exit01 \in Seq(StepSet)
  BY TuplesFit DEF ModuleFits
<1>2. \A k \in Nat : Drop("map", k) \in StepSet
  BY DEF Drop, Step, StepSet, Ops, Wares, Names
<1>3. /\ Returns(hello_exit01, "chrdev", 0) /\ Returns(hello_exit01, "class", 0)
      /\ Returns(hello_exit01, "node", 0)
  BY DEF Returns, Gives, hello_exit01, Drop, Step
<1>4. Careful(S, F, led_init_imx6ull, led_exit_imx6ull)
  <2> DEFINE a == <<Drop("map", 1), Drop("map", 2), Drop("map", 3)>>
             q == a \o hello_exit01
  <2>1. a \in Seq(StepSet)
    BY <1>2
  <2>2. \A k \in 1 .. 3 : Returns(a, "map", k)
    BY DEF Returns, Gives, Drop, Step
  <2> HIDE DEF a
  <2>3. /\ \A k \in 1 .. 3 : Returns(q, "map", k)
        /\ Returns(q, "chrdev", 0) /\ Returns(q, "class", 0) /\ Returns(q, "node", 0)
    BY <2>1, <2>2, <1>1, <1>3, CarefulCat
  <2> HIDE DEF q
  <2>4. Careful(S, F, led_init_imx6ull, q)
    BY <2>3 DEF Careful, Brings, Spares, led_init_imx6ull, Take, Make, Step
  <2> QED
    BY <2>4, Zenon DEF q, a, led_exit_imx6ull
<1>5. Careful(S, F, led_init_stm32mp157, led_exit_stm32mp157)
  <2> DEFINE a == <<Drop("map", 1), Drop("map", 2), Drop("map", 3), Drop("map", 4)>>
             q == a \o hello_exit01
  <2>1. a \in Seq(StepSet)
    BY <1>2
  <2>2. \A k \in 1 .. 4 : Returns(a, "map", k)
    BY DEF Returns, Gives, Drop, Step
  <2> HIDE DEF a
  <2>3. /\ \A k \in 1 .. 4 : Returns(q, "map", k)
        /\ Returns(q, "chrdev", 0) /\ Returns(q, "class", 0) /\ Returns(q, "node", 0)
    BY <2>1, <2>2, <1>1, <1>3, CarefulCat
  <2> HIDE DEF q
  <2>4. Careful(S, F, led_init_stm32mp157, q)
    BY <2>3 DEF Careful, Brings, Spares, led_init_stm32mp157, Take, Make, Step
  <2> QED
    BY <2>4, Zenon DEF q, a, led_exit_stm32mp157
<1> QED
  BY <1>4, <1>5

(* The driver whose nodes are made in a loop.                               *)
LEMMA BoardsCareful ==
  ASSUME NEW S, NEW F, "ops" \in S
  PROVE  Careful(S, F, led_init02, led_exit02)
<1> DEFINE a == <<Take("chrdev", 0), Need("class", 0, {"chrdev"}), Make("ops", 0)>>
           t == For(NLeds, LedNode)
           q == For(NLeds, LedNodeGone) \o hello_exit01
<1>1. a \in Seq(StepSet)
  <2>1. /\ Take("chrdev", 0) \in StepSet /\ Need("class", 0, {"chrdev"}) \in StepSet
        /\ Make("ops", 0) \in StepSet
    BY DEF Take, Need, Make, Step, StepSet, Ops, Wares, Names
  <2> QED
    BY <2>1
<1>2. /\ hello_exit01 \in Seq(StepSet) /\ t \in Seq(StepSet)
      /\ For(NLeds, LedNodeGone) \in Seq(StepSet)
  BY TuplesFit, LoopsFit DEF ModuleFits
<1>3. Returns(hello_exit01, "chrdev", 0) /\ Returns(hello_exit01, "class", 0)
  BY DEF Returns, Gives, hello_exit01, Drop, Step
<1>4. /\ Returns(q, "chrdev", 0) /\ Returns(q, "class", 0)
      /\ \A k \in 0 .. NLeds - 1 : Returns(q, "node", k)
  BY <1>2, <1>3, NodesReturned, CarefulCat
<1> HIDE DEF q, t
<1>5. Careful(S, F, a, q)
  BY <1>4 DEF Careful, Brings, Spares, Take, Need, Make, Step
<1> HIDE DEF a
<1>6. Careful(S, F, t, q) /\ \A r, k : Safe(F, t, r, k)
  BY <1>4, NodesCareful DEF t
<1>7. Careful(S, F, a \o t, q)
  BY <1>1, <1>2, <1>5, <1>6, CarefulCat
<1>8. led_init02 = a \o t
  BY Zenon DEF a, t, led_init02
<1>9. led_exit02 = q
  BY Zenon DEF q, led_exit02, hello_exit01
<1> QED
  BY <1>7, <1>8, <1>9, Zenon

(* A key driver probes: the array, the loop over the keys and the node.     *)
LEMMA KeysCat ==
  ASSUME NEW S, NEW F, "array" \in F, NEW t \in Seq(StepSet), NEW g \in Seq(StepSet),
         Barren(S, t), Safe(F, t, "array", 0)
  PROVE  Careful(S, F, Begin \o t \o Nodes, g \o NoNodes)
<1> DEFINE q == g \o NoNodes
           b == Begin \o t
<1>1. Begin \in Seq(StepSet) /\ Nodes \in Seq(StepSet) /\ NoNodes \in Seq(StepSet)
  BY LoopedFit DEF ModuleFits
<1>2. \A r, k : Returns(NoNodes, r, k) => Returns(q, r, k)
  BY <1>1, CarefulCat
<1>3. b \in Seq(StepSet)
  BY <1>1
<1>4. \A i \in 1 .. Len(Begin) : \A r, k : Brings(Begin[i], r, k) => r = "array" /\ k = 0
  BY DEF Begin, Brings, Read, Do, Step
<1>5. ASSUME NEW i \in 1 .. Len(b), NEW r \in Names \ S, NEW k \in Nat, Brings(b[i], r, k)
      PROVE  r = "array" /\ k = 0
  <2>1. \/ i \in 1 .. Len(Begin) /\ b[i] = Begin[i]
        \/ i - Len(Begin) \in 1 .. Len(t) /\ b[i] = t[i - Len(Begin)]
    BY <1>1, Cat
  <2>2. \A j \in 1 .. Len(t) : ~Brings(t[j], r, k)
    BY DEF Barren, BarrenStep
  <2> HIDE DEF b
  <2> QED
    BY <2>1, <2>2, <1>4, <1>5
<1> HIDE DEF q
<1>6. Careful(S, F, Begin, q) /\ Careful(S, F, Nodes, q)
  BY <1>2, CarefulWritten, CarefulMore
<1>7. Careful(S, F, t, q)
  BY BarrenCareful
<1>8. Careful(S, F, b, q)
  BY <1>1, <1>4, <1>6, <1>7, CarefulCat
<1>9. Safe(F, Nodes, "array", 0)
  BY DEF Safe, Spares, Nodes, Need, Take, Step
<1> HIDE DEF b
<1>10. Careful(S, F, b \o Nodes, q)
  BY <1>1, <1>3, <1>5, <1>6, <1>8, <1>9, CarefulCat
<1> QED
  BY <1>10 DEF b, q

(* The programs of the key drivers.                                         *)
LEMMA KeysCareful ==
  ASSUME NEW S, NEW F, PerKey \subseteq S
  PROVE  /\ "array" \in F => /\ Careful(S, F, keys_probe02, keys_remove02)
                             /\ Careful(S, F, keys_probe07, keys_remove07)
                             /\ Careful(S, F, keys_probe07, keys_remove08)
         /\ "array" \in S => Careful(S, F, keys_probe01, keys_remove01)
         /\ Careful(S, F, keys_driver01.init, keys_driver01.exit)
         /\ Calm(S, keys_driver01.exit)
<1>1. /\ For(NKeys, KeyIrq) \in Seq(StepSet) /\ For(NKeys, KeyTimed) \in Seq(StepSet)
      /\ For(NKeys, FreeIrq) \in Seq(StepSet) /\ For(NKeys, FreeTimed) \in Seq(StepSet)
      /\ For(NKeys, FreeAll) \in Seq(StepSet) /\ Begin \in Seq(StepSet)
  BY LoopsFit, LoopedFit DEF ModuleFits
<1>2. Barren(S, For(NKeys, KeyIrq)) /\ Barren(S, For(NKeys, KeyTimed))
  BY BarrenLoops
<1>3. ASSUME "array" \in F
      PROVE  /\ Careful(S, F, keys_probe02, keys_remove02)
             /\ Careful(S, F, keys_probe07, keys_remove07)
             /\ Careful(S, F, keys_probe07, keys_remove08)
  <2>1. /\ Safe(F, For(NKeys, KeyIrq), "array", 0)
        /\ Safe(F, For(NKeys, KeyTimed), "array", 0)
    BY <1>3, BarrenLoops
  <2>2. /\ Careful(S, F, Begin \o For(NKeys, KeyIrq) \o Nodes, For(NKeys, FreeIrq) \o NoNodes)
        /\ Careful(S, F, Begin \o For(NKeys, KeyTimed) \o Nodes,
                   For(NKeys, FreeTimed) \o NoNodes)
        /\ Careful(S, F, Begin \o For(NKeys, KeyTimed) \o Nodes,
                   For(NKeys, FreeAll) \o NoNodes)
    BY <1>1, <1>2, <1>3, <2>1, KeysCat
  <2> QED
    BY <2>2, Zenon DEF keys_probe02, keys_probe07, keys_remove02, keys_remove07, keys_remove08
<1>4. ASSUME "array" \in S
      PROVE  Careful(S, F, keys_probe01, keys_remove01)
  <2>1. Barren(S, Begin)
    BY <1>4 DEF Barren, BarrenStep, Brings, Begin, Read, Do, Step
  <2>2. Barren(S, Begin \o For(NKeys, KeyIrq))
    BY <2>1, <1>1, <1>2, BarrenCareful
  <2> QED
    BY <2>2, BarrenCareful, Zenon DEF keys_probe01
<1>5. /\ Careful(S, F, keys_driver01.init, keys_driver01.exit)
      /\ Calm(S, keys_driver01.exit)
  BY DEF Calm, CalmStep, BarrenStep, Careful, Brings, Returns, Gives, Spares, keys_driver01,
     Make, Do, Drop, Step
<1> QED
  BY <1>3, <1>4, <1>5

(* What the drivers are known to leave.                                     *)
LEMMA WhatStays ==
  /\ PerKey \subseteq Stays /\ "ops" \in Stays
  /\ drv = "hello07" => "buf" \in Stays
  /\ drv = "key01" => "array" \in Stays
  /\ drv \in {"led05", "button"} => "node" \in Stays
  /\ drv = "gpio_led" => "gpiod" \in Stays
  /\ drv \in KeyDrivers => "array" \in Lapses
  /\ drv = "hello01b" => "region" \in Lapses /\ "cdev" \in Lapses
  /\ drv \in TwoModules => "chrdev" \in Lapses
  /\ LeftByDesign \subseteq Stays
<1>1. PerKey \subseteq Stays /\ "ops" \in Stays /\ LeftByDesign \subseteq Stays
  BY DEF Stays
<1>2. /\ drv = "hello07" => "buf" \in LeftByDesign
      /\ drv = "key01" => "array" \in LeftByDesign
      /\ drv \in {"led05", "button"} => "node" \in LeftByDesign
      /\ drv = "gpio_led" => "gpiod" \in LeftByDesign
  BY DEF LeftByDesign
<1>3. drv \in KeyDrivers => "array" \in Lapses
  <2>1. drv \in KeyDrivers => drv # "hello01b" /\ drv \notin TwoModules
    BY DEF KeyDrivers, TwoModules
  <2> QED
    BY <2>1 DEF Lapses, LeftByFailure
<1>4. drv = "hello01b" => "region" \in Lapses /\ "cdev" \in Lapses
  <2>1. drv = "hello01b" => drv \notin KeyDrivers /\ drv \notin TwoModules
    BY DEF KeyDrivers, TwoModules
  <2> QED
    BY <2>1 DEF Lapses, LeftByFailure
<1>5. drv \in TwoModules => "chrdev" \in Lapses
  <2>1. drv \in TwoModules => drv \notin KeyDrivers /\ drv # "hello01b"
    BY DEF KeyDrivers, TwoModules
  <2> QED
    BY <2>1 DEF Lapses, LeftByFailure
<1> QED
  BY <1>1, <1>2, <1>3, <1>4, <1>5

(* Every driver gives back what it brings, but for what it is known to      *)
(* leave.                                                                   *)
LEMMA DCustody ==
  ASSUME drv \in Drivers
  PROVE  CustodyFits
<1> DEFINE S == Stays
           F == Lapses
<1>1. PerKey \subseteq S /\ "ops" \in S
  BY WhatStays
<1> HIDE DEF S, F
<1>2. /\ Careful(S, F, << >>, << >>) /\ Calm(S, << >>) /\ \A r, k : ~Returns(<< >>, r, k)
  BY <1>1, CalmPrograms, CarefulNone
<1>3. ASSUME NEW p, NEW q, D = Simple(p, q), Careful(S, F, p, q), Calm(S, q)
      PROVE  CustodyFits
  <2>1. /\ D.m1.init = p /\ D.m1.exit = q /\ D.m2.init = << >> /\ D.m2.exit = << >>
        /\ D.probe = << >> /\ D.remove = << >> /\ D.devices = {}
    BY <1>3 DEF Simple, Module
  <2> QED
    BY <2>1, <1>2, <1>3 DEF CustodyFits, S, F
<1>4. ASSUME NEW a, NEW b, NEW p, NEW q,
             D.m1.init = a.init, D.m1.exit = a.exit, D.m2.init = b.init, D.m2.exit = b.exit,
             D.probe = p, D.remove = q, Careful(S, F, a.init, a.exit), Calm(S, a.exit),
             Careful(S, F, b.init, b.exit), Calm(S, b.exit),
             Careful(S, F, p, q), Calm(S, q),
             D.devices = {1} \/ \A r, k : ~Returns(q, r, k)
      PROVE  CustodyFits
  BY <1>2, <1>4 DEF CustodyFits, S, F
<1>5. CASE drv = "hello01"
  <2>1. Careful(S, F, hello_init01, hello_exit01) /\ Calm(S, hello_exit01)
    BY <1>5, <1>1, CarefulWritten, WhatStays, CalmPrograms DEF S, F
  <2>2. D = Simple(hello_init01, hello_exit01)
    BY <1>5, CharDriverIs DEF D
  <2> QED
    BY <2>1, <2>2, <1>3, Zenon
<1>6. CASE drv = "hello01b"
  <2>1. Careful(S, F, hello_init01b, hello_exit01b) /\ Calm(S, hello_exit01b)
    BY <1>6, <1>1, CarefulWritten, WhatStays, CalmPrograms DEF S, F
  <2>2. D = Simple(hello_init01b, hello_exit01b)
    BY <1>6, CharDriverIs DEF D
  <2> QED
    BY <2>1, <2>2, <1>3, Zenon
<1>7. CASE drv = "hello07"
  <2>1. Careful(S, F, hello_init07, hello_exit01) /\ Calm(S, hello_exit01)
    BY <1>7, <1>1, CarefulWritten, WhatStays, CalmPrograms DEF S, F
  <2>2. D = Simple(hello_init07, hello_exit01)
    BY <1>7, CharDriverIs DEF D, hello_exit07
  <2> QED
    BY <2>1, <2>2, <1>3, Zenon
<1>8. CASE drv = "led_simple"
  <2>1. Careful(S, F, led_init_simple, hello_exit01) /\ Calm(S, hello_exit01)
    BY <1>8, <1>1, CarefulWritten, WhatStays, CalmPrograms DEF S, F
  <2>2. D = Simple(led_init_simple, hello_exit01)
    BY <1>8, CharDriverIs DEF D, led_exit_simple
  <2> QED
    BY <2>1, <2>2, <1>3, Zenon
<1>9. CASE drv = "led_imx6ull"
  <2>1. Careful(S, F, led_init_imx6ull, led_exit_imx6ull) /\ Calm(S, led_exit_imx6ull)
    BY <1>9, <1>1, MapsCareful, WhatStays, CalmPrograms DEF S, F
  <2>2. D = Simple(led_init_imx6ull, led_exit_imx6ull)
    BY <1>9, CharDriverIs DEF D
  <2> QED
    BY <2>1, <2>2, <1>3, Zenon
<1>10. CASE drv = "led_stm32mp157"
  <2>1. Careful(S, F, led_init_stm32mp157, led_exit_stm32mp157) /\ Calm(S, led_exit_stm32mp157)
    BY <1>10, <1>1, MapsCareful, WhatStays, CalmPrograms DEF S, F
  <2>2. D = Simple(led_init_stm32mp157, led_exit_stm32mp157)
    BY <1>10, CharDriverIs DEF D
  <2> QED
    BY <2>1, <2>2, <1>3, Zenon
<1>11. CASE drv = "led01"
  <2>1. Careful(S, F, led_init01, led_exit01) /\ Calm(S, led_exit01)
    BY <1>11, <1>1, CarefulWritten, WhatStays, CalmPrograms DEF S, F
  <2>2. D = Simple(led_init01, led_exit01)
    BY <1>11, CharDriverIs DEF D
  <2> QED
    BY <2>1, <2>2, <1>3, Zenon
<1>12. CASE drv = "led02"
  <2>1. Careful(S, F, led_init02, led_exit02) /\ Calm(S, led_exit02)
    BY <1>12, <1>1, BoardsCareful, WhatStays, CalmPrograms DEF S, F
  <2>2. D = Simple(led_init02, led_exit02)
    BY <1>12, CharDriverIs DEF D
  <2> QED
    BY <2>1, <2>2, <1>3, Zenon
<1>13. CASE drv = "led03"
  <2>1. Careful(S, F, led_init01, led_exit01) /\ Calm(S, led_exit01)
    BY <1>13, <1>1, CarefulWritten, WhatStays, CalmPrograms DEF S, F
  <2>2. D = Simple(led_init01, led_exit01)
    BY <1>13, CharDriverIs DEF D, led_init03, led_exit03
  <2> QED
    BY <2>1, <2>2, <1>3, Zenon
<1>14. \A r, k : /\ ~Returns(led_drv_remove05, r, k) /\ ~Returns(button_remove, r, k)
               /\ ~Returns(led_drv_remove04, r, k)
  BY DEF Returns, Gives, led_drv_remove05, button_remove, led_drv_remove04, Do, Step
<1>15. CASE drv = "led04"
  <2> DEFINE a == Module(led_init04, led_exit04)
             b == Module(led_drv_init04, led_drv_exit04)
  <2>1. /\ D.m1 = a /\ D.m2 = b /\ D.probe = led_drv_probe04 /\ D.remove = led_drv_remove04
        /\ D.devices = {1} \/ D.devices = {1, 2}
        /\ drv \in {"led04", "gpio_led"} => D.devices = {1}
    BY <1>15, BusDriverIs DEF D, OnBus
  <2>2. /\ a.init = led_init04 /\ a.exit = led_exit04
        /\ b.init = led_drv_init04 /\ b.exit = led_drv_exit04
    BY DEF Module
  <2> HIDE DEF a, b
  <2>3. /\ Careful(S, F, led_init04, led_exit04) /\ Calm(S, led_exit04)
        /\ Careful(S, F, led_drv_init04, led_drv_exit04) /\ Calm(S, led_drv_exit04)
    BY <1>15, <1>1, <1>2, CarefulWritten, WhatStays, CalmPrograms DEF S, F, TwoModules
  <2>4. Careful(S, F, led_drv_probe04, led_drv_remove04) /\ Calm(S, led_drv_remove04)
    BY <1>15, <1>1, CarefulWritten, WhatStays, CalmPrograms DEF S, F
  <2>5. D.devices = {1} \/ \A r, k : ~Returns(led_drv_remove04, r, k)
    BY <1>15, <2>1, <1>14
  <2> QED
    BY <2>1, <2>2, <2>3, <2>4, <2>5, <1>4
<1>16. CASE drv = "led05"
  <2> DEFINE a == Module(led_init04, led_exit04)
             b == Module(led_drv_init04, led_drv_exit04)
  <2>1. /\ D.m1 = a /\ D.m2 = b /\ D.probe = led_drv_probe05 /\ D.remove = led_drv_remove05
        /\ D.devices = {1} \/ D.devices = {1, 2}
        /\ drv \in {"led04", "gpio_led"} => D.devices = {1}
    BY <1>16, BusDriverIs DEF D, OnBus
  <2>2. /\ a.init = led_init04 /\ a.exit = led_exit04
        /\ b.init = led_drv_init04 /\ b.exit = led_drv_exit04
    BY DEF Module
  <2> HIDE DEF a, b
  <2>3. /\ Careful(S, F, led_init04, led_exit04) /\ Calm(S, led_exit04)
        /\ Careful(S, F, led_drv_init04, led_drv_exit04) /\ Calm(S, led_drv_exit04)
    BY <1>16, <1>1, <1>2, CarefulWritten, WhatStays, CalmPrograms DEF S, F, TwoModules
  <2>4. Careful(S, F, led_drv_probe05, led_drv_remove05) /\ Calm(S, led_drv_remove05)
    BY <1>16, <1>1, CarefulWritten, WhatStays, CalmPrograms DEF S, F
  <2>5. D.devices = {1} \/ \A r, k : ~Returns(led_drv_remove05, r, k)
    BY <1>16, <2>1, <1>14
  <2> QED
    BY <2>1, <2>2, <2>3, <2>4, <2>5, <1>4
<1>17. CASE drv = "button"
  <2> DEFINE a == Module(led_init04, led_exit04)
             b == Module(led_drv_init04, led_drv_exit04)
  <2>1. /\ D.m1 = a /\ D.m2 = b /\ D.probe = led_drv_probe05 /\ D.remove = button_remove
        /\ D.devices = {1} \/ D.devices = {1, 2}
        /\ drv \in {"led04", "gpio_led"} => D.devices = {1}
    BY <1>17, BusDriverIs DEF D, OnBus
  <2>2. /\ a.init = led_init04 /\ a.exit = led_exit04
        /\ b.init = led_drv_init04 /\ b.exit = led_drv_exit04
    BY DEF Module
  <2> HIDE DEF a, b
  <2>3. /\ Careful(S, F, led_init04, led_exit04) /\ Calm(S, led_exit04)
        /\ Careful(S, F, led_drv_init04, led_drv_exit04) /\ Calm(S, led_drv_exit04)
    BY <1>17, <1>1, <1>2, CarefulWritten, WhatStays, CalmPrograms DEF S, F, TwoModules
  <2>4. Careful(S, F, led_drv_probe05, button_remove) /\ Calm(S, button_remove)
    BY <1>17, <1>1, CarefulWritten, WhatStays, CalmPrograms DEF S, F
  <2>5. D.devices = {1} \/ \A r, k : ~Returns(button_remove, r, k)
    BY <1>17, <2>1, <1>14
  <2> QED
    BY <2>1, <2>2, <2>3, <2>4, <2>5, <1>4
<1>18. CASE drv = "gpio_led"
  <2> DEFINE a == Module(gpio_led_init, gpio_led_exit)
             b == Module(<< >>, << >>)
  <2>1. /\ D.m1 = a /\ D.m2 = b /\ D.probe = gpio_led_probe /\ D.remove = gpio_led_remove
        /\ D.devices = {1} \/ D.devices = {1, 2}
        /\ drv \in {"led04", "gpio_led"} => D.devices = {1}
    BY <1>18, BusDriverIs DEF D, OnBus
  <2>2. /\ a.init = gpio_led_init /\ a.exit = gpio_led_exit
        /\ b.init = << >> /\ b.exit = << >>
    BY DEF Module
  <2> HIDE DEF a, b
  <2>3. /\ Careful(S, F, gpio_led_init, gpio_led_exit) /\ Calm(S, gpio_led_exit)
        /\ Careful(S, F, << >>, << >>) /\ Calm(S, << >>)
    BY <1>18, <1>1, <1>2, CarefulWritten, WhatStays, CalmPrograms DEF S, F, TwoModules
  <2>4. Careful(S, F, gpio_led_probe, gpio_led_remove) /\ Calm(S, gpio_led_remove)
    BY <1>18, <1>1, CarefulWritten, WhatStays, CalmPrograms DEF S, F
  <2>5. D.devices = {1} \/ \A r, k : ~Returns(gpio_led_remove, r, k)
    BY <1>18, <2>1, <1>14
  <2> QED
    BY <2>1, <2>2, <2>3, <2>4, <2>5, <1>4
<1>19. CASE drv \in KeyDrivers
  <2>1. /\ D.m1.init = keys_driver01.init /\ D.m1.exit = keys_driver01.exit
        /\ D.m2.init = << >> /\ D.m2.exit = << >>
    BY <1>19, KeyDriverIs, KeyFields DEF D
  <2>2. D.devices = {1}
    BY <1>19, KeyD
  <2>3. /\ Careful(S, F, keys_driver01.init, keys_driver01.exit)
        /\ Calm(S, keys_driver01.exit)
    BY <1>1, KeysCareful
  <2>4. Careful(S, F, D.probe, D.remove) /\ Calm(S, D.remove)
    <3>1. /\ Calm(S, keys_remove01) /\ Calm(S, keys_remove02)
          /\ Calm(S, keys_remove07) /\ Calm(S, keys_remove08)
      BY <1>1, CalmPrograms
    <3>2. /\ Careful(S, F, keys_probe02, keys_remove02)
          /\ Careful(S, F, keys_probe07, keys_remove07)
          /\ Careful(S, F, keys_probe07, keys_remove08)
          /\ drv = "key01" => Careful(S, F, keys_probe01, keys_remove01)
      BY <1>1, <1>19, WhatStays, KeysCareful DEF S, F
    <3> QED
      BY <1>19, <3>1, <3>2, KeyD DEF Stages
  <2> QED
    BY <2>1, <2>2, <2>3, <2>4, <1>2 DEF CustodyFits, S, F
<1>20. drv \in DOMAIN Driver
  BY DriversAssumption
<1> QED
  BY <1>5, <1>6, <1>7, <1>8, <1>9, <1>10, <1>11,
     <1>12, <1>13, <1>15, <1>16, <1>17, <1>18, <1>19, <1>20, DriverNames

(* The rest of code that cannot fail.                                       *)
LEMMA CalmTail ==
  ASSUME NEW S, NEW p \in Seq(StepSet), p # << >>, Calm(S, p)
  PROVE  CalmStep(S, Head(p)) /\ Calm(S, Tail(p))
<1> DEFINE t == Tail(p)
<1>1. /\ Len(p) \in Nat /\ Len(p) >= 1 /\ Len(t) = Len(p) - 1 /\ Head(p) = p[1]
      /\ \A i \in 1 .. Len(t) : t[i] = p[i + 1]
  OBVIOUS
<1> HIDE DEF t
<1>2. CalmStep(S, Head(p)) /\ Calm(S, t)
  BY <1>1 DEF Calm
<1> QED
  BY <1>2 DEF t

(* A function that returns an error came to a step that can fail; what that *)
(* step undoes is gone.                                                     *)
LEMMA GivenUp ==
  ASSUME Positions, DataTypes, NEW c \in {"run", "bus"}, Prog(c) # << >>, StepOf(c), GivesUp(c)
  PROVE  LET s == Head(Prog(c))
         IN  \/ GoesOn(c)
             \/ /\ s.op \in {"need", "read"} /\ failed' = TRUE
                /\ held' \subseteq held /\ gpk' = gpk
                /\ s.op = "need" => \A u \in s.undo : Static(u, 0) \notin held'
<1> DEFINE s == Head(Prog(c))
<1>1. failed \in BOOLEAN /\ ~DropStep(s)
  BY DEF DataTypes, GivesUp
<1>2. CASE s.op \in {"take", "need"}
  <2>1. Got(c, s) \/ Refused(c, s)
    BY <1>2 DEF StepOf
  <2>2. Got(c, s) => GoesOn(c)
    BY DEF Got
  <2>3. CASE Refused(c, s)
    <3>1. s.op = "take" => GoesOn(c)
      BY <2>3 DEF Refused
    <3>2. failed' = TRUE /\ gpk' = gpk /\ held' = held \ {Static(u, 0) : u \in s.undo}
      BY <2>3 DEF Refused, keyVars
    <3> QED
      BY <3>1, <3>2, <1>2
  <2> QED
    BY <2>1, <2>2, <2>3
<1>3. CASE s.op = "read"
  BY <1>3, <1>1 DEF StepOf, PropertyRead, keyVars
<1>4. CASE s.op \notin {"take", "need", "read", "unbind", "oops", "add_slot"}
  BY <1>4 DEF StepOf, Made, Dropped, Awaited, KeysAllocated, KeysFreed, Nothing,
     SlotNode, SlotCleared, SlotsReset, SlotsSwept
<1>5. CASE s.op \in {"unbind", "oops", "add_slot"}
  <2>1. s \in StepSet /\ Prog(c)' # Prog(c)
    <3>1. s \in StepSet /\ (c = "run" => run.kind # "idle") /\ (c = "bus" => bus.kind # "idle")
      BY NextStep
    <3>2. Fails(c)
      BY DEF GivesUp
    <3> QED
      BY <3>1, <3>2 DEF Fails, Prog, Idle, BusIdle
  <2>2. c = "run" => run' = run \/ GoesOn(c)
    BY <1>5 DEF StepOf, Unbound, SlotAdded
  <2>3. c = "bus" => bus' = bus \/ GoesOn(c) \/ bus.kind = "idle"
    BY <1>5 DEF StepOf, Unbound, SlotAdded
  <2>4. c = "bus" => bus.kind # "idle"
    BY NextStep
  <2> QED
    BY <2>1, <2>2, <2>3, <2>4 DEF Prog
<1> QED
  BY <1>2, <1>3, <1>4, <1>5

(* What may stay depends on the driver and on what was refused.             *)
LEMMA SameStays ==
  ASSUME drv' = drv, failed => failed'
  PROVE  /\ D' = D /\ Stays' = Stays /\ Lapses' = Lapses /\ Stays \subseteq MayStay'
         /\ MayStay \subseteq MayStay' /\ (failed' => Lapses \subseteq MayStay')
         /\ PerKey \subseteq MayStay'
<1>1. D' = D /\ LeftByDesign' = LeftByDesign /\ LeftByFailure' = LeftByFailure
  BY DEF D, LeftByDesign, LeftByFailure
<1>2. PerKey \subseteq Stays
  BY WhatStays
<1>3. Stays' = Stays /\ Lapses' = Lapses
  BY <1>1 DEF Stays, Lapses
<1> QED
  BY <1>1, <1>2, <1>3 DEF MayStay

(* What leaves the programs alone and adds nothing but what may stay.       *)
LEMMA CustodyKept ==
  ASSUME CustodyInv, UNCHANGED <<drv, run, bus, text, bound, gpk>>, failed => failed',
         \A h \in held' : h \in held \/ h[1] \in Stays
  PROVE  CustodyInv'
<1>1. D' = D /\ Stays' = Stays /\ Lapses' = Lapses /\ MayStay \subseteq MayStay'
      /\ Stays \subseteq MayStay'
  BY SameStays
<1>2. RunCareful' /\ BusCareful'
  BY <1>1 DEF CustodyInv, RunCareful, BusCareful
<1>3. ASSUME NEW h \in held'
      PROVE  InCustody(h)'
  <2>1. CASE h[1] \in Stays
    BY <2>1, <1>1 DEF InCustody
  <2>2. CASE h \in held
    BY <2>2, <1>1 DEF CustodyInv, InCustody, ByModuleExit, ByRemove
  <2> QED
    BY <2>1, <2>2
<1> QED
  BY <1>2, <1>3 DEF CustodyInv

(* What is left to run is as careful as it was.                             *)
LEMMA StepCareful ==
  ASSUME Guarded, CustodyInv, NEW c \in {"run", "bus"}, Prog(c) # << >>, StepOf(c), drv' = drv
  PROVE  RunCareful' /\ BusCareful'
<1> DEFINE s == Head(Prog(c))
<1>1. D' = D /\ Stays' = Stays /\ Lapses' = Lapses
  BY SameStays, StepKeeps DEF Guarded
<1>2. Positions /\ DataTypes /\ drv \in Drivers
  BY DEF Guarded, Positions
<1>3. run.prog \in Seq(StepSet) /\ bus.prog \in Seq(StepSet)
  BY <1>2 DEF Positions
<1>4. CustodyFits
  BY <1>2, DCustody
<1>5. RunCareful /\ BusCareful
  BY DEF CustodyInv
<1>6. CASE GoesOn(c)
  <2>1. CASE c = "run"
    <3>1. run' = [run EXCEPT !.prog = Tail(@)] /\ bus' = bus
      BY <1>6, <2>1 DEF GoesOn
    <3>2. run'.prog = Tail(run.prog) /\ run'.kind = run.kind /\ run'.mod = run.mod
      BY <3>1, <1>2 DEF Positions
    <3>3. run.prog # << >>
      BY <2>1 DEF Prog
    <3>4. BusCareful'
      BY <3>1, <1>1, <1>5 DEF BusCareful
    <3>5. run.kind = "init" => Careful(Stays, Lapses, Tail(run.prog), D[run.mod].exit)
      BY <3>3, <1>3, <1>5, CarefulTail DEF RunCareful
    <3>6. run.kind = "exit" => Calm(Stays, Tail(run.prog))
      BY <3>3, <1>3, <1>5, CalmTail DEF RunCareful
    <3> QED
      BY <3>2, <3>4, <3>5, <3>6, <1>1 DEF RunCareful
  <2>2. CASE c = "bus"
    <3>1. bus' = [bus EXCEPT !.prog = Tail(@)] /\ run' = run
      BY <1>6, <2>2 DEF GoesOn
    <3>2. bus'.prog = Tail(bus.prog) /\ bus'.kind = bus.kind
      BY <3>1, <1>2 DEF Positions
    <3>3. bus.prog # << >>
      BY <2>2 DEF Prog
    <3>4. RunCareful'
      BY <3>1, <1>1, <1>5 DEF RunCareful
    <3>5. bus.kind = "probe" => Careful(Stays, Lapses, Tail(bus.prog), D.remove)
      BY <3>3, <1>3, <1>5, CarefulTail DEF BusCareful
    <3>6. bus.kind = "remove" => Calm(Stays, Tail(bus.prog))
      BY <3>3, <1>3, <1>5, CalmTail DEF BusCareful
    <3> QED
      BY <3>2, <3>4, <3>5, <3>6, <1>1 DEF BusCareful
  <2> QED
    BY <2>1, <2>2
<1>7. CASE Fails(c)
  <2>1. c = "run" => run'.kind = "idle" /\ bus' = bus
    BY <1>7 DEF Fails, Idle
  <2>2. c = "bus" => bus'.kind = "idle" /\ run' = run
    BY <1>7 DEF Fails, BusIdle
  <2> QED
    BY <2>1, <2>2, <1>1, <1>5 DEF RunCareful, BusCareful
<1>8. CASE run' = run /\ bus' = bus
  BY <1>8, <1>1, <1>5 DEF RunCareful, BusCareful
<1>9. CASE /\ run' = run
           /\ \E d \in bound : bus' = [dev |-> d, kind |-> "remove", prog |-> D.remove]
  <2>1. bus'.kind = "remove" /\ bus'.prog = D.remove
    BY <1>9
  <2> QED
    BY <2>1, <1>9, <1>1, <1>4, <1>5 DEF RunCareful, BusCareful, CustodyFits
<1> QED
  BY <1>2, <1>6, <1>7, <1>8, <1>9, StepMoves

(* How a step of a module's code ends.                                      *)
LEMMA RunEnds ==
  ASSUME Guarded, run.prog # << >>, StepOf("run"), drv' = drv
  PROVE  LET s == Head(run.prog)
         IN  /\ s \in StepSet /\ s.op \notin {"kzalloc", "kfree"} /\ s.op \notin SlotOps
             /\ gpk' = gpk /\ bound' = bound /\ run.kind # "idle"
             /\ \/ /\ GoesOn("run") /\ text' = text /\ bus' = bus
                   /\ run'.prog = Tail(run.prog) /\ run'.kind = run.kind /\ run'.mod = run.mod
                \/ /\ s.op \in {"need", "read"} /\ failed' = TRUE /\ held' \subseteq held
                   /\ s.op = "need" => \A u \in s.undo : Static(u, 0) \notin held'
                   /\ run'.kind = "idle" /\ bus' = bus
                   /\ text' = [text EXCEPT ![run.mod] = "out"]
                \/ run' = run /\ bus' = bus /\ text' = text
                \/ /\ run' = run /\ text' = text /\ bus.kind = "idle"
                   /\ bus'.kind = "remove" /\ bus'.prog = D.remove
<1> DEFINE s == Head(run.prog)
<1>1. Positions /\ DataTypes /\ drv \in Drivers /\ Prog("run") = run.prog
  BY DEF Guarded, Positions, Prog
<1>2. s \in StepSet /\ s.op \notin SlotOps /\ run.kind # "idle"
  BY <1>1, NextStep
<1>3. s.op \notin {"kzalloc", "kfree"}
  <2>1. OtherCode(Program("run"))
    BY <1>1, <1>2, DOther DEF Program, RunProgram, Positions
  <2>2. Pos("run") \in 1 .. Len(Program("run")) /\ s = Program("run")[Pos("run")]
    BY <1>1, NextStep
  <2> QED
    BY <2>1, <2>2 DEF OtherCode
<1>4. gpk' = gpk
  BY <1>1, <1>3, StepKeeps
<1>5. CASE GoesOn("run")
  <2>1. run' = [run EXCEPT !.prog = Tail(@)] /\ bus' = bus /\ text' = text /\ bound' = bound
    BY <1>5 DEF GoesOn
  <2>2. run'.prog = Tail(run.prog) /\ run'.kind = run.kind /\ run'.mod = run.mod
    BY <2>1, <1>1 DEF Positions
  <2> QED
    BY <2>1, <2>2, <1>5, <1>2, <1>3, <1>4
<1>6. CASE GivesUp("run") /\ ~GoesOn("run")
  <2>1. /\ s.op \in {"need", "read"} /\ failed' = TRUE /\ held' \subseteq held
        /\ s.op = "need" => \A u \in s.undo : Static(u, 0) \notin held'
    BY <1>1, <1>6, GivenUp
  <2>2. /\ run' = Idle /\ bus' = bus /\ text' = [text EXCEPT ![run.mod] = "out"]
        /\ bound' = bound
    BY <1>6 DEF GivesUp, Fails
  <2> QED
    BY <2>1, <2>2, <1>2, <1>3, <1>4 DEF Idle
<1>7. CASE s.op = "oops"
  BY <1>7, <1>1, <1>2, <1>3, <1>4 DEF StepOf
<1>8. CASE /\ bus.kind = "idle" /\ UNCHANGED <<run, text, bound, cls, oops, failed>>
           /\ \E d \in bound : bus' = [dev |-> d, kind |-> "remove", prog |-> D.remove]
  BY <1>8, <1>2, <1>3, <1>4
<1>9. s.op # "oops" => \/ GoesOn("run") \/ GivesUp("run")
                       \/ /\ bus.kind = "idle"
                          /\ UNCHANGED <<run, text, bound, cls, oops, failed>>
                          /\ \E d \in bound :
                               bus' = [dev |-> d, kind |-> "remove", prog |-> D.remove]
  BY <1>1, <1>2, FailsRemembered DEF SlotOps
<1> QED
  BY <1>5, <1>6, <1>7, <1>8, <1>9

(* A step of a module's code keeps what is held in custody.                 *)
LEMMA RunKeeps ==
  ASSUME Guarded, CustodyInv, run.prog # << >>, StepOf("run"), drv' = drv,
         NEW h \in held, h \in held'
  PROVE  InCustody(h)'
<1> DEFINE s == Head(run.prog)
<1>1. /\ D' = D /\ Stays' = Stays /\ Lapses' = Lapses /\ MayStay \subseteq MayStay'
      /\ (failed' => Lapses \subseteq MayStay') /\ PerKey \subseteq MayStay'
  BY SameStays, StepKeeps DEF Guarded, Prog
<1>2. /\ Positions /\ DataTypes /\ TextInv /\ run.prog \in Seq(StepSet)
      /\ run.mod \in {"m1", "m2"} /\ run.kind \in {"idle", "init", "exit"}
      /\ h \in Names \X Nat \X (0 .. arrays)
      /\ h = <<h[1], h[2], h[3]>> /\ h[2] \in Nat
      /\ text \in [{"m1", "m2"} -> {"out", "coming", "live", "going"}]
  BY DEF Guarded, Positions, DataTypes
<1>3. /\ s \in StepSet /\ s.op \notin {"kzalloc", "kfree"} /\ s.op \notin SlotOps
      /\ gpk' = gpk /\ bound' = bound /\ run.kind # "idle"
      /\ \/ /\ GoesOn("run") /\ text' = text /\ bus' = bus
            /\ run'.prog = Tail(run.prog) /\ run'.kind = run.kind /\ run'.mod = run.mod
         \/ /\ s.op \in {"need", "read"} /\ failed' = TRUE /\ held' \subseteq held
            /\ s.op = "need" => \A u \in s.undo : Static(u, 0) \notin held'
            /\ run'.kind = "idle" /\ bus' = bus
            /\ text' = [text EXCEPT ![run.mod] = "out"]
         \/ run' = run /\ bus' = bus /\ text' = text
         \/ /\ run' = run /\ text' = text /\ bus.kind = "idle"
            /\ bus'.kind = "remove" /\ bus'.prog = D.remove
  BY RunEnds
<1>4. InCustody(h) /\ RunCareful
  BY DEF CustodyInv
<1>5. CASE h[1] \in MayStay \/ h[1] \in PerKey
  BY <1>5, <1>1 DEF InCustody
<1>6. CASE ByRemove(h)
  <2>1. bus' = bus => ByRemove(h)'
    BY <1>6, <1>1, <1>3 DEF ByRemove
  <2>2. bus.kind = "idle" /\ bus'.kind = "remove" /\ bus'.prog = D.remove => ByRemove(h)'
    BY <1>6, <1>1, <1>3 DEF ByRemove
  <2> QED
    BY <2>1, <2>2, <1>3 DEF InCustody
<1>7. ASSUME NEW m \in {"m1", "m2"}, ByModuleExit(m, h), h[1] \notin PerKey
      PROVE  InCustody(h)'
  <2>1. h[3] = 0
    BY <1>7 DEF ByModuleExit
  <2>2. CASE text[m] = "live" /\ Returns(D[m].exit, h[1], h[2])
    <3>1. m # run.mod
      BY <2>2, <1>2, <1>3 DEF TextInv
    <3>2. text'[m] = "live"
      BY <3>1, <2>2, <1>2, <1>3
    <3>3. ByModuleExit(m, h)'
      BY <3>2, <2>1, <2>2, <1>1 DEF ByModuleExit
    <3> QED
      BY <3>3 DEF InCustody
  <2>3. CASE /\ run.kind = "init" /\ run.mod = m /\ Returns(D[m].exit, h[1], h[2])
             /\ Safe(Lapses, run.prog, h[1], h[2])
    <3>1. Spares(Lapses, s, h[1], h[2]) /\ Safe(Lapses, Tail(run.prog), h[1], h[2])
      BY <2>3, <1>2, CarefulTail
    <3>2. CASE /\ run'.prog = Tail(run.prog) /\ run'.kind = run.kind /\ run'.mod = run.mod
      <4>1. ByModuleExit(m, h)'
        BY <3>1, <3>2, <2>1, <2>3, <1>1 DEF ByModuleExit
      <4> QED
        BY <4>1 DEF InCustody
    <3>3. CASE /\ s.op \in {"need", "read"} /\ failed' = TRUE
               /\ s.op = "need" => \A u \in s.undo : Static(u, 0) \notin held'
      <4>1. h[1] \in Lapses \/ (s.op = "need" /\ h[2] = 0 /\ h[1] \in s.undo)
        BY <3>1, <3>3 DEF Spares
      <4>2. h[2] = 0 => h = Static(h[1], 0)
        BY <2>1, <1>2 DEF Static
      <4>3. h[1] \in Lapses
        BY <4>1, <4>2, <3>3
      <4> QED
        BY <4>3, <3>3, <1>1 DEF InCustody
    <3>4. CASE run' = run
      <4>1. ByModuleExit(m, h)'
        BY <3>4, <2>1, <2>3, <1>1 DEF ByModuleExit
      <4> QED
        BY <4>1 DEF InCustody
    <3> QED
      BY <3>2, <3>3, <3>4, <1>3
  <2>4. CASE run.kind = "exit" /\ run.mod = m /\ Returns(run.prog, h[1], h[2])
    <3>1. Gives(s, h[1], h[2]) \/ Returns(Tail(run.prog), h[1], h[2])
      BY <2>4, <1>2, CarefulTail
    <3>2. CalmStep(Stays, s)
      BY <2>4, <1>2, <1>4, CalmTail DEF RunCareful
    <3>3. CASE Gives(s, h[1], h[2])
      <4>1. s.op = "drop" /\ s.r = h[1] /\ s.i = h[2]
        BY <3>3, <1>3 DEF Gives
      <4>2. h = Named(s.r, s.i)
        BY <4>1, <2>1, <1>7, <1>2 DEF Named, Static
      <4>3. held' = held \ {Named(s.r, s.i)}
        BY <4>1 DEF StepOf, Dropped, Prog
      <4> QED
        BY <4>2, <4>3
    <3>4. CASE Returns(Tail(run.prog), h[1], h[2])
      <4>1. CASE /\ run'.prog = Tail(run.prog) /\ run'.kind = run.kind /\ run'.mod = run.mod
        <5>1. ByModuleExit(m, h)'
          BY <3>4, <4>1, <2>1, <2>4, <1>1 DEF ByModuleExit
        <5> QED
          BY <5>1 DEF InCustody
      <4>2. CASE run' = run
        <5>1. ByModuleExit(m, h)'
          BY <4>2, <2>1, <2>4, <1>1 DEF ByModuleExit
        <5> QED
          BY <5>1 DEF InCustody
      <4>3. s.op \notin {"need", "read"}
        BY <3>2 DEF CalmStep
      <4> QED
        BY <4>1, <4>2, <4>3, <1>3
    <3> QED
      BY <3>1, <3>3, <3>4
  <2> QED
    BY <2>2, <2>3, <2>4, <1>7 DEF ByModuleExit
<1> QED
  BY <1>4, <1>5, <1>6, <1>7 DEF InCustody

(* How a step of a probe or remove ends.                                    *)
LEMMA BusEnds ==
  ASSUME Guarded, bus.prog # << >>, StepOf("bus"), drv' = drv
  PROVE  LET s == Head(bus.prog)
         IN  /\ s \in StepSet /\ run' = run /\ text' = text /\ bus.kind \in {"probe", "remove"}
             /\ s.op # "kzalloc" => gpk' = gpk
             /\ \/ /\ GoesOn("bus") /\ bus'.prog = Tail(bus.prog) /\ bus'.kind = bus.kind
                   /\ bound' = bound
                \/ /\ s.op \in {"need", "read"} /\ failed' = TRUE /\ held' \subseteq held
                   /\ s.op = "need" => \A u \in s.undo : Static(u, 0) \notin held'
                \/ bus' = bus /\ bound' = bound /\ s.op \in {"oops", "add_slot"}
<1> DEFINE s == Head(bus.prog)
<1>1. Positions /\ DataTypes /\ drv \in Drivers /\ Prog("bus") = bus.prog
  BY DEF Guarded, Positions, Prog
<1>2. s \in StepSet /\ bus.kind \in {"probe", "remove"}
  BY <1>1, NextStep DEF Positions
<1>3. s.op # "kzalloc" => gpk' = gpk
  BY <1>1, StepKeeps
<1>4. CASE GoesOn("bus")
  <2>1. bus' = [bus EXCEPT !.prog = Tail(@)] /\ run' = run /\ text' = text /\ bound' = bound
    BY <1>4 DEF GoesOn
  <2>2. bus'.prog = Tail(bus.prog) /\ bus'.kind = bus.kind
    BY <2>1, <1>1 DEF Positions
  <2> QED
    BY <2>1, <2>2, <1>4, <1>2, <1>3
<1>5. CASE GivesUp("bus") /\ ~GoesOn("bus")
  <2>1. /\ s.op \in {"need", "read"} /\ failed' = TRUE /\ held' \subseteq held
        /\ s.op = "need" => \A u \in s.undo : Static(u, 0) \notin held'
    BY <1>1, <1>5, GivenUp
  <2>2. run' = run /\ text' = text
    BY <1>5 DEF GivesUp, Fails
  <2> QED
    BY <2>1, <2>2, <1>2, <1>3
<1>6. CASE s.op \in {"oops", "add_slot"} /\ UNCHANGED <<run, bus, text, bound>>
  BY <1>6, <1>2, <1>3
<1>7. s.op \in {"oops", "add_slot"} =>
        GoesOn("bus") \/ UNCHANGED <<run, bus, text, bound>>
  BY <1>1 DEF StepOf, SlotAdded
<1>8. s.op \notin {"oops", "add_slot"} => GoesOn("bus") \/ GivesUp("bus")
  BY <1>1, <1>2, FailsRemembered
<1> QED
  BY <1>4, <1>5, <1>6, <1>7, <1>8

(* A step of a probe or remove keeps what is held in custody.               *)
LEMMA BusKeeps ==
  ASSUME Guarded, CustodyInv, bus.prog # << >>, StepOf("bus"), drv' = drv,
         NEW h \in held, h \in held'
  PROVE  InCustody(h)'
<1> DEFINE s == Head(bus.prog)
<1>1. /\ D' = D /\ Stays' = Stays /\ Lapses' = Lapses /\ MayStay \subseteq MayStay'
      /\ (failed' => Lapses \subseteq MayStay') /\ PerKey \subseteq MayStay'
      /\ Stays \subseteq MayStay'
  BY SameStays, StepKeeps DEF Guarded, Prog
<1>2. /\ Positions /\ DataTypes /\ bus.prog \in Seq(StepSet)
      /\ h \in Names \X Nat \X (0 .. arrays)
      /\ h = <<h[1], h[2], h[3]>> /\ h[2] \in Nat /\ h[1] \in Names
  BY DEF Guarded, Positions, DataTypes
<1>3. /\ s \in StepSet /\ run' = run /\ text' = text /\ bus.kind \in {"probe", "remove"}
      /\ s.op # "kzalloc" => gpk' = gpk
      /\ \/ /\ GoesOn("bus") /\ bus'.prog = Tail(bus.prog) /\ bus'.kind = bus.kind
            /\ bound' = bound
         \/ /\ s.op \in {"need", "read"} /\ failed' = TRUE /\ held' \subseteq held
            /\ s.op = "need" => \A u \in s.undo : Static(u, 0) \notin held'
         \/ bus' = bus /\ bound' = bound /\ s.op \in {"oops", "add_slot"}
  BY BusEnds
<1>4. InCustody(h) /\ BusCareful
  BY DEF CustodyInv
<1>5. CASE h[1] \in MayStay \/ h[1] \in PerKey \/ h[1] \in Stays
  BY <1>5, <1>1 DEF InCustody
<1>6. ASSUME NEW m \in {"m1", "m2"}, ByModuleExit(m, h)
      PROVE  InCustody(h)'
  <2>1. ByModuleExit(m, h)'
    BY <1>6, <1>1, <1>3 DEF ByModuleExit
  <2> QED
    BY <2>1 DEF InCustody
<1>7. ASSUME ByRemove(h), h[1] \notin PerKey, h[1] \notin Stays
      PROVE  InCustody(h)'
  <2>1. h[3] = IF h[1] = "array" THEN gpk ELSE 0
    BY <1>7 DEF ByRemove
  <2>2. CASE /\ bus.kind = "probe" /\ Returns(D.remove, h[1], h[2])
             /\ Safe(Lapses, bus.prog, h[1], h[2])
    <3>1. Spares(Lapses, s, h[1], h[2]) /\ Safe(Lapses, Tail(bus.prog), h[1], h[2])
      BY <2>2, <1>2, CarefulTail
    <3>2. h[3] = IF h[1] = "array" THEN gpk' ELSE 0
      BY <2>1, <3>1, <1>3 DEF Spares
    <3>3. CASE bus'.prog = Tail(bus.prog) /\ bus'.kind = bus.kind
      <4>1. ByRemove(h)'
        BY <3>1, <3>2, <3>3, <2>2, <1>1 DEF ByRemove
      <4> QED
        BY <4>1 DEF InCustody
    <3>4. CASE /\ s.op \in {"need", "read"} /\ failed' = TRUE
               /\ s.op = "need" => \A u \in s.undo : Static(u, 0) \notin held'
      <4>1. h[1] \in Lapses \/ (s.op = "need" /\ h[2] = 0 /\ h[1] \in s.undo)
        BY <3>1, <3>4 DEF Spares
      <4>2. h[1] \in s.undo => h[1] # "array"
        BY <1>3 DEF StepSet, Wares
      <4>3. h[2] = 0 /\ h[1] # "array" => h = Static(h[1], 0)
        BY <2>1, <1>2 DEF Static
      <4>4. h[1] \in Lapses
        BY <4>1, <4>2, <4>3, <3>4
      <4> QED
        BY <4>4, <3>4, <1>1 DEF InCustody
    <3>5. CASE bus' = bus
      <4>1. ByRemove(h)'
        BY <3>2, <3>5, <2>2, <1>1 DEF ByRemove
      <4> QED
        BY <4>1 DEF InCustody
    <3> QED
      BY <3>3, <3>4, <3>5, <1>3
  <2>3. CASE bus.kind = "remove" /\ Returns(bus.prog, h[1], h[2])
    <3>1. Gives(s, h[1], h[2]) \/ Returns(Tail(bus.prog), h[1], h[2])
      BY <2>3, <1>2, CarefulTail
    <3>2. CalmStep(Stays, s)
      BY <2>3, <1>2, <1>4, CalmTail DEF BusCareful
    <3>3. h[1] = "array" => s.op # "kzalloc"
      BY <3>2, <1>7, <1>2 DEF CalmStep, BarrenStep, Brings
    <3>4. h[3] = IF h[1] = "array" THEN gpk' ELSE 0
      BY <3>3, <2>1, <1>3
    <3>5. CASE Gives(s, h[1], h[2])
      <4>1. CASE s.op = "drop" /\ s.r = h[1] /\ s.i = h[2]
        <5>1. h[1] # "array"
          BY <4>1, <1>3 DEF StepSet, Wares
        <5>2. h = Named(s.r, s.i)
          BY <5>1, <4>1, <2>1, <1>7, <1>2 DEF Named, Static
        <5>3. held' = held \ {Named(s.r, s.i)}
          BY <4>1 DEF StepOf, Dropped, Prog
        <5> QED
          BY <5>2, <5>3
      <4>2. CASE s.op = "kfree" /\ h[1] = "array" /\ h[2] = 0
        <5>1. h = <<"array", 0, gpk>>
          BY <4>2, <2>1, <1>2
        <5>2. held' = held \ {<<"array", 0, gpk>>}
          BY <4>2 DEF StepOf, KeysFreed, Prog
        <5> QED
          BY <5>1, <5>2
      <4> QED
        BY <4>1, <4>2, <3>5 DEF Gives
    <3>6. CASE Returns(Tail(bus.prog), h[1], h[2])
      <4>1. CASE bus'.prog = Tail(bus.prog) /\ bus'.kind = bus.kind
        <5>1. ByRemove(h)'
          BY <3>4, <3>6, <4>1, <2>3, <1>1 DEF ByRemove
        <5> QED
          BY <5>1 DEF InCustody
      <4>2. CASE bus' = bus
        <5>1. ByRemove(h)'
          BY <3>4, <4>2, <2>3, <1>1 DEF ByRemove
        <5> QED
          BY <5>1 DEF InCustody
      <4>3. s.op \notin {"need", "read"}
        BY <3>2 DEF CalmStep
      <4> QED
        BY <4>1, <4>2, <4>3, <1>3
    <3> QED
      BY <3>1, <3>5, <3>6
  <2> QED
    BY <2>2, <2>3, <1>7, <1>3 DEF ByRemove
<1> QED
  BY <1>4, <1>5, <1>6, <1>7 DEF InCustody

(* What a module's code adds is in custody.                                 *)
LEMMA RunBrings ==
  ASSUME Guarded, CustodyInv, run.prog # << >>, StepOf("run"), drv' = drv,
         NEW h \in held', h \notin held
  PROVE  InCustody(h)'
<1> DEFINE s == Head(run.prog)
<1>1. /\ D' = D /\ Stays' = Stays /\ Lapses' = Lapses /\ PerKey \subseteq MayStay'
      /\ Stays \subseteq MayStay'
  BY SameStays, StepKeeps DEF Guarded, Prog
<1>2. /\ Positions /\ DataTypes /\ run.prog \in Seq(StepSet) /\ run.mod \in {"m1", "m2"}
      /\ run.kind \in {"idle", "init", "exit"} /\ Prog("run") = run.prog
  BY DEF Guarded, Positions, Prog
<1>3. /\ s \in StepSet /\ s.op \notin {"kzalloc", "kfree"} /\ s.op \notin SlotOps
      /\ run.kind # "idle"
      /\ GoesOn("run") =>
           run'.prog = Tail(run.prog) /\ run'.kind = run.kind /\ run'.mod = run.mod
  <2>1. GoesOn("run") => run' = [run EXCEPT !.prog = Tail(@)]
    BY DEF GoesOn
  <2> QED
    BY <2>1, <1>2, RunEnds DEF Positions
<1>4. /\ s.op \in {"take", "need", "make"} /\ h = Named(s.r, s.i) /\ GoesOn("run")
  BY <1>2, <1>3, HeldGrows DEF SlotOps
<1>5. s.r \in Names /\ s.i \in Nat
  BY <1>3, <1>4 DEF StepSet, Wares
<1>6. CASE s.r \in PerKey \/ s.r \in Stays
  <2>1. h[1] = s.r
    BY <1>4 DEF Named, Static
  <2> QED
    BY <2>1, <1>6, <1>1 DEF InCustody
<1>7. CASE s.r \notin PerKey /\ s.r \notin Stays
  <2>1. h[1] = s.r /\ h[2] = s.i /\ h[3] = 0
    BY <1>4, <1>7 DEF Named, Static
  <2>2. Brings(s, s.r, s.i)
    BY <1>4 DEF Brings
  <2>3. CASE run.kind = "init"
    <3>1. Careful(Stays, Lapses, run.prog, D[run.mod].exit)
      BY <2>3 DEF CustodyInv, RunCareful
    <3>2. /\ Returns(D[run.mod].exit, s.r, s.i)
          /\ Safe(Lapses, Tail(run.prog), s.r, s.i)
      BY <3>1, <2>2, <1>2, <1>5, <1>7, CarefulTail
    <3>3. ByModuleExit(run.mod, h)'
      BY <3>2, <2>1, <2>3, <1>1, <1>3, <1>4 DEF ByModuleExit
    <3>4. \E m \in {"m1", "m2"} : ByModuleExit(m, h)'
      BY <3>3, <1>2, <1>3, <1>4
    <3> QED
      BY <3>4 DEF InCustody
  <2>4. CASE run.kind = "exit"
    <3>1. CalmStep(Stays, s)
      BY <2>4, <1>2, CalmTail DEF CustodyInv, RunCareful
    <3> QED
      BY <3>1, <2>2, <1>5, <1>7 DEF CalmStep, BarrenStep
  <2> QED
    BY <2>3, <2>4, <1>2, <1>3
<1> QED
  BY <1>6, <1>7

(* So is what a probe adds.                                                 *)
LEMMA BusBrings ==
  ASSUME Guarded, CustodyInv, bus.prog # << >>, StepOf("bus"), drv' = drv,
         NEW h \in held', h \notin held
  PROVE  InCustody(h)'
<1> DEFINE s == Head(bus.prog)
<1>1. /\ D' = D /\ Stays' = Stays /\ Lapses' = Lapses /\ PerKey \subseteq MayStay'
      /\ Stays \subseteq MayStay'
  BY SameStays, StepKeeps DEF Guarded, Prog
<1>2. /\ Positions /\ DataTypes /\ bus.prog \in Seq(StepSet) /\ Prog("bus") = bus.prog
      /\ arrays \in Nat
  BY DEF Guarded, Positions, DataTypes, Prog
<1>3. /\ s \in StepSet /\ bus.kind \in {"probe", "remove"}
      /\ s.op # "kzalloc" => gpk' = gpk
      /\ GoesOn("bus") => bus'.prog = Tail(bus.prog) /\ bus'.kind = bus.kind
  <2>1. GoesOn("bus") => bus' = [bus EXCEPT !.prog = Tail(@)]
    BY DEF GoesOn
  <2> QED
    BY <2>1, <1>2, BusEnds DEF Positions
<1>4. /\ GoesOn("bus")
      /\ \/ s.op \in {"take", "need", "make"} /\ h = Named(s.r, s.i)
         \/ s.op = "kzalloc" /\ h = <<"array", 0, arrays + 1>>
         \/ s.op \in {"node_of_next_slot", "clear_slot"} /\ \E i : h = Static("node", i)
  BY <1>2, HeldGrows
<1>5. CASE h[1] \in PerKey \/ h[1] \in Stays
  BY <1>5, <1>1 DEF InCustody
<1>6. CASE h[1] \notin PerKey /\ h[1] \notin Stays
  <2>1. /\ h[1] \in Names /\ h[2] \in Nat /\ Brings(s, h[1], h[2])
        /\ h[3] = IF h[1] = "array" THEN gpk' ELSE 0
    <3>1. CASE s.op \in {"take", "need", "make"} /\ h = Named(s.r, s.i)
      <4>1. s.r \in Wares /\ s.i \in Nat
        BY <3>1, <1>3 DEF StepSet
      <4>2. h[1] = s.r /\ h[2] = s.i /\ h[3] = 0
        BY <3>1, <1>6 DEF Named, Static
      <4> QED
        BY <4>1, <4>2, <3>1 DEF Brings, Wares
    <3>2. CASE s.op = "kzalloc" /\ h = <<"array", 0, arrays + 1>>
      <4>1. gpk' = arrays + 1
        BY <3>2 DEF StepOf, KeysAllocated, Prog
      <4> QED
        BY <4>1, <3>2 DEF Brings, Names
    <3>3. CASE s.op \in {"node_of_next_slot", "clear_slot"} /\ \E i : h = Static("node", i)
      <4>1. h \in Names \X Nat \X (0 .. arrays')
        BY <1>2, StepHeldTypes DEF HeldTypes
      <4> QED
        BY <4>1, <3>3 DEF Brings, Static
    <3> QED
      BY <3>1, <3>2, <3>3, <1>4
  <2>2. CASE bus.kind = "probe"
    <3>1. Careful(Stays, Lapses, bus.prog, D.remove)
      BY <2>2 DEF CustodyInv, BusCareful
    <3>2. /\ Returns(D.remove, h[1], h[2])
          /\ Safe(Lapses, Tail(bus.prog), h[1], h[2])
      BY <3>1, <2>1, <1>2, <1>6, CarefulTail
    <3>3. ByRemove(h)'
      BY <3>2, <2>1, <2>2, <1>1, <1>3, <1>4 DEF ByRemove
    <3> QED
      BY <3>3 DEF InCustody
  <2>3. CASE bus.kind = "remove"
    <3>1. CalmStep(Stays, s)
      BY <2>3, <1>2, CalmTail DEF CustodyInv, BusCareful
    <3> QED
      BY <3>1, <2>1, <1>6 DEF CalmStep, BarrenStep
  <2> QED
    BY <2>2, <2>3, <1>3
<1> QED
  BY <1>5, <1>6

(* Every step of the driver's code keeps custody.                           *)
LEMMA StepCustody ==
  ASSUME Guarded, CustodyInv, NEW c \in {"run", "bus"}, Prog(c) # << >>, StepOf(c), drv' = drv
  PROVE  CustodyInv'
<1>1. RunCareful' /\ BusCareful'
  BY StepCareful
<1>2. ASSUME NEW h \in held'
      PROVE  InCustody(h)'
  <2>1. CASE c = "run"
    <3>1. run.prog # << >> /\ StepOf("run")
      BY <2>1 DEF Prog
    <3> QED
      BY <3>1, RunKeeps, RunBrings
  <2>2. CASE c = "bus"
    <3>1. bus.prog # << >> /\ StepOf("bus")
      BY <2>2 DEF Prog
    <3> QED
      BY <3>1, BusKeeps, BusBrings
  <2> QED
    BY <2>1, <2>2
<1> QED
  BY <1>1, <1>2 DEF CustodyInv

(* The chosen driver's facts, wherever they are needed.                     *)
LEMMA CustodyFacts ==
  ASSUME Guarded
  PROVE  /\ Positions /\ DataTypes /\ TextInv /\ BoundInv /\ drv \in Drivers /\ CustodyFits
         /\ run.mod \in {"m1", "m2"} /\ run.kind \in {"idle", "init", "exit"}
         /\ bus.kind \in {"idle", "probe", "remove"} /\ bound \subseteq D.devices
         /\ text \in [{"m1", "m2"} -> {"out", "coming", "live", "going"}]
         /\ \A r, k : ~Returns(<< >>, r, k)
BY DCustody, CarefulNone DEF Guarded, Positions

(* What does not change the driver or what was refused, and starts programs *)
(* that fit, keeps custody when each thing held keeps its own.              *)
LEMMA CustodyMoves ==
  ASSUME CustodyInv, drv' = drv, failed' = failed, held' \subseteq held,
         RunCareful', BusCareful',
         \A h \in held, m \in {"m1", "m2"} :
           ByModuleExit(m, h) => \E n \in {"m1", "m2"} : ByModuleExit(n, h)',
         \A h \in held : ByRemove(h) => ByRemove(h)'
  PROVE  CustodyInv'
<1>1. MayStay \subseteq MayStay'
  BY SameStays
<1>2. ASSUME NEW h \in held'
      PROVE  InCustody(h)'
  BY <1>1, <1>2 DEF CustodyInv, InCustody
<1> QED
  BY <1>2 DEF CustodyInv

(* Loading a module.                                                        *)
LEMMA LoadCustody ==
  ASSUME Guarded, CustodyInv, NEW m \in {"m1", "m2"}, Load(m)
  PROVE  CustodyInv'
<1>1. /\ run.kind = "idle" /\ text[m] = "out" /\ text' = [text EXCEPT ![m] = "coming"]
      /\ run' = [mod |-> m, kind |-> "init", prog |-> D[m].init]
      /\ drv' = drv /\ failed' = failed /\ held' \subseteq held /\ bus' = bus /\ bound' = bound
      /\ m # BusModule => gpk' = gpk
  BY DEF Load
<1>2. D' = D /\ Stays' = Stays /\ Lapses' = Lapses
  BY <1>1, SameStays
<1>3. RunCareful'
  <2>1. Careful(Stays, Lapses, D[m].init, D[m].exit)
    BY CustodyFacts DEF CustodyFits
  <2> QED
    BY <2>1, <1>1, <1>2 DEF RunCareful
<1>4. BusCareful'
  BY <1>1, <1>2 DEF CustodyInv, BusCareful
<1>5. ASSUME NEW h \in held, NEW n \in {"m1", "m2"}, ByModuleExit(n, h)
      PROVE  ByModuleExit(n, h)'
  <2>1. text[n] = "live" /\ Returns(D[n].exit, h[1], h[2]) /\ h[3] = 0
    BY <1>5, <1>1 DEF ByModuleExit
  <2>2. text'[n] = "live"
    BY <2>1, <1>1, CustodyFacts
  <2> QED
    BY <2>1, <2>2, <1>2 DEF ByModuleExit
<1>6. ASSUME NEW h \in held, ByRemove(h)
      PROVE  ByRemove(h)'
  <2>1. CASE m = BusModule
    <3>1. bus.kind = "idle" /\ bound = {}
      BY <2>1, <1>1, CustodyFacts DEF BoundInv, Quiet
    <3> QED
      BY <3>1, <1>6 DEF ByRemove
  <2>2. CASE m # BusModule
    BY <2>2, <1>1, <1>2, <1>6 DEF ByRemove
  <2> QED
    BY <2>1, <2>2
<1> QED
  BY <1>1, <1>3, <1>4, <1>5, <1>6, CustodyMoves

(* Unloading a module, and the end of either.                               *)
LEMMA UnloadCustody ==
  ASSUME Guarded, CustodyInv, NEW m \in {"m1", "m2"}, Unload(m)
  PROVE  CustodyInv'
<1>1. /\ run.kind = "idle" /\ text[m] = "live" /\ text' = [text EXCEPT ![m] = "going"]
      /\ run' = [mod |-> m, kind |-> "exit", prog |-> D[m].exit]
      /\ drv' = drv /\ failed' = failed /\ held' = held /\ bus' = bus /\ bound' = bound
      /\ gpk' = gpk
  BY DEF Unload
<1>2. D' = D /\ Stays' = Stays /\ Lapses' = Lapses
  BY <1>1, SameStays
<1>3. RunCareful'
  <2>1. Calm(Stays, D[m].exit)
    BY CustodyFacts DEF CustodyFits
  <2> QED
    BY <2>1, <1>1, <1>2 DEF RunCareful
<1>4. BusCareful'
  BY <1>1, <1>2 DEF CustodyInv, BusCareful
<1>5. ASSUME NEW h \in held, NEW n \in {"m1", "m2"}, ByModuleExit(n, h)
      PROVE  ByModuleExit(n, h)'
  <2>1. text[n] = "live" /\ Returns(D[n].exit, h[1], h[2]) /\ h[3] = 0
    BY <1>5, <1>1 DEF ByModuleExit
  <2>2. CASE n = m
    BY <2>1, <2>2, <1>1, <1>2 DEF ByModuleExit
  <2>3. CASE n # m
    <3>1. text'[n] = "live"
      BY <2>1, <2>3, <1>1, CustodyFacts
    <3> QED
      BY <3>1, <2>1, <1>2 DEF ByModuleExit
  <2> QED
    BY <2>2, <2>3
<1>6. ASSUME NEW h \in held, ByRemove(h)
      PROVE  ByRemove(h)'
  BY <1>1, <1>2, <1>6 DEF ByRemove
<1> QED
  BY <1>1, <1>3, <1>4, <1>5, <1>6, CustodyMoves

(* What was to be given back by exit is, when exit has run.                 *)
LEMMA ModuleDoneCustody ==
  ASSUME Guarded, CustodyInv, ModuleDone
  PROVE  CustodyInv'
<1>1. /\ run.kind # "idle" /\ run.prog = << >> /\ run' = Idle
      /\ text' = [text EXCEPT ![run.mod] = IF run.kind = "init" THEN "live" ELSE "out"]
      /\ drv' = drv /\ failed' = failed /\ held' = held /\ bus' = bus /\ bound' = bound
      /\ gpk' = gpk
  BY DEF ModuleDone
<1>2. D' = D /\ Stays' = Stays /\ Lapses' = Lapses
  BY <1>1, SameStays
<1>3. RunCareful'
  BY <1>1 DEF RunCareful, Idle
<1>4. BusCareful'
  BY <1>1, <1>2 DEF CustodyInv, BusCareful
<1>5. ASSUME NEW h \in held, NEW n \in {"m1", "m2"}, ByModuleExit(n, h)
      PROVE  ByModuleExit(n, h)'
  <2>1. h[3] = 0
    BY <1>5 DEF ByModuleExit
  <2>2. CASE n = run.mod
    <3>1. run.kind = "init" /\ Returns(D[n].exit, h[1], h[2])
      BY <1>5, <1>1, <2>2, CustodyFacts DEF ByModuleExit, TextInv
    <3>2. text'[n] = "live"
      BY <3>1, <2>2, <1>1, CustodyFacts
    <3> QED
      BY <3>1, <3>2, <2>1, <1>2 DEF ByModuleExit
  <2>3. CASE n # run.mod
    <3>1. text[n] = "live" /\ Returns(D[n].exit, h[1], h[2])
      BY <2>3, <1>5 DEF ByModuleExit
    <3>2. text'[n] = "live"
      BY <3>1, <2>3, <1>1, CustodyFacts
    <3> QED
      BY <3>1, <3>2, <2>1, <1>2 DEF ByModuleExit
  <2> QED
    BY <2>2, <2>3
<1>6. ASSUME NEW h \in held, ByRemove(h)
      PROVE  ByRemove(h)'
  BY <1>1, <1>2, <1>6 DEF ByRemove
<1> QED
  BY <1>1, <1>3, <1>4, <1>5, <1>6, CustodyMoves

(* The driver core begins.                                                  *)
LEMMA CoreCustody ==
  ASSUME Guarded, CustodyInv, NEW d \in D.devices, Bind(d) \/ Unbind(d)
  PROVE  CustodyInv'
<1>1. /\ bus.kind = "idle" /\ text' = text /\ run' = run
      /\ drv' = drv /\ failed' = failed /\ held' = held /\ bound' = bound
      /\ gpk' = gpk
  BY DEF Bind, Unbind, runVars
<1>2. D' = D /\ Stays' = Stays /\ Lapses' = Lapses
  BY <1>1, SameStays
<1>3. RunCareful'
  BY <1>1, <1>2 DEF CustodyInv, RunCareful
<1>4. \/ Bind(d) /\ d \notin bound /\ bus'.kind = "probe" /\ bus'.prog = D.probe
      \/ Unbind(d) /\ bus'.kind = "remove" /\ bus'.prog = D.remove
  BY DEF Bind, Unbind
<1>5. BusCareful'
  BY <1>2, <1>4, CustodyFacts DEF BusCareful, CustodyFits
<1>6. ASSUME NEW h \in held, NEW n \in {"m1", "m2"}, ByModuleExit(n, h)
      PROVE  ByModuleExit(n, h)'
  BY <1>1, <1>2, <1>6 DEF ByModuleExit
<1>7. ASSUME NEW h \in held, ByRemove(h)
      PROVE  ByRemove(h)'
  <2>1. /\ bound # {} /\ Returns(D.remove, h[1], h[2])
        /\ h[3] = IF h[1] = "array" THEN gpk ELSE 0
    BY <1>1, <1>7 DEF ByRemove
  <2>2. D.devices = {1}
    BY <2>1, CustodyFacts DEF CustodyFits
  <2>3. d \in bound
    BY <2>1, <2>2, CustodyFacts
  <2> QED
    BY <2>1, <2>3, <1>1, <1>2, <1>4 DEF ByRemove
<1> QED
  BY <1>1, <1>3, <1>5, <1>6, <1>7, CustodyMoves

(* And ends: what was to be given back by remove is.                        *)
LEMMA BusDoneCustody ==
  ASSUME Guarded, CustodyInv, BusDone
  PROVE  CustodyInv'
<1>1. /\ bus.kind # "idle" /\ bus.prog = << >> /\ text' = text /\ run' = run /\ bus' = BusIdle
      /\ drv' = drv /\ failed' = failed /\ held' = held
      /\ bus.kind = "probe" => bound' = bound \cup {bus.dev}
      /\ gpk' = gpk
  BY DEF BusDone, runVars
<1>2. D' = D /\ Stays' = Stays /\ Lapses' = Lapses
  BY <1>1, SameStays
<1>3. RunCareful'
  BY <1>1, <1>2 DEF CustodyInv, RunCareful
<1>4. BusCareful'
  BY <1>1 DEF BusCareful, BusIdle
<1>5. ASSUME NEW h \in held, NEW n \in {"m1", "m2"}, ByModuleExit(n, h)
      PROVE  ByModuleExit(n, h)'
  BY <1>1, <1>2, <1>5 DEF ByModuleExit
<1>6. ASSUME NEW h \in held, ByRemove(h)
      PROVE  ByRemove(h)'
  <2>1. bus.kind = "probe" /\ Returns(D.remove, h[1], h[2])
    BY <1>1, <1>6, CustodyFacts DEF ByRemove
  <2>2. bound' # {}
    BY <2>1, <1>1
  <2> QED
    BY <2>1, <2>2, <1>1, <1>2, <1>6 DEF ByRemove, BusIdle
<1> QED
  BY <1>1, <1>3, <1>4, <1>5, <1>6, CustodyMoves

(* Every operation keeps custody.                                           *)
LEMMA NextCustody ==
  ASSUME Guarded, CustodyInv, [Next]_vars
  PROVE  CustodyInv'
<1>1. CASE ModuleStep
  BY <1>1, StepCustody DEF ModuleStep, Prog
<1>2. CASE BusStep
  BY <1>2, StepCustody DEF BusStep, Prog
<1>3. CASE UNCHANGED vars
  BY <1>3, CustodyKept DEF vars
<1>4. CASE Open \/ Use \/ Close \/ Interrupt \/ HandlerRuns
  <2>1. UNCHANGED <<drv, run, bus, text, bound, gpk, failed>>
    BY <1>4, OutsideKeeps
  <2>2. \A h \in Mapped : h[1] \in Stays
    BY DEF Mapped, Static, Stays, LeftByDesign
  <2>3. ASSUME NEW h \in held, held' = held \cup {<<s, h[2], h[3]>> : s \in D.starts}
        PROVE  \A g \in held' : g \in held \/ g[1] \in Stays
    <3>1. D.starts \subseteq PerKey /\ PerKey \subseteq Stays
      BY DFits, CustodyFacts, WhatStays
    <3> QED
      BY <2>3, <3>1
  <2>4. \A g \in held' : g \in held \/ g[1] \in Stays
    BY <2>2, <2>3, <1>4, OutsideHolds
  <2> QED
    BY <2>1, <2>4, CustodyKept
<1>5. CASE ModuleDone
  BY <1>5, ModuleDoneCustody
<1>6. CASE BusDone
  BY <1>6, BusDoneCustody
<1>7. CASE \E m \in {"m1", "m2"} : Load(m) \/ Unload(m)
  BY <1>7, LoadCustody, UnloadCustody
<1>8. CASE \E d \in D.devices : Bind(d) \/ Unbind(d)
  BY <1>8, CoreCustody
<1> QED
  BY <1>1, <1>2, <1>3, <1>4, <1>5, <1>6, <1>7, <1>8 DEF Next

(* Whatever the kernel holds has code ahead that gives it back, or is one   *)
(* of the things the driver is known to leave: the mappings that opening    *)
(* makes in 02 and 05 are of the second kind.                               *)
THEOREM LifeCustody == Spec => []CustodyInv
<1>1. Init => CustodyInv
  BY DEF Init, CustodyInv, RunCareful, BusCareful, Idle, BusIdle
<1>2. Guarded /\ CustodyInv /\ [Next]_vars => CustodyInv'
  BY NextCustody
<1> QED
  BY <1>1, <1>2, LifeGuarded, PTL DEF Spec

(* The keys' own resources that are left are those remove does not stop, or *)
(* those of a probe that failed.                                            *)
LEMMA KeysLeft ==
  ASSUME Guarded, HandlerInv, Quiet, NEW h \in held, h[1] \in PerKey
  PROVE  h[1] \in LeftByDesign \cup (IF failed THEN LeftByFailure ELSE {})
<1>1. drv \in KeyDrivers /\ h[1] \in {"line"} \cup D.starts
  BY DEF HandlerInv, HeldFits
<1>2. drv \notin {"hello07", "led05", "button", "gpio_led", "hello01b"} \cup TwoModules
  BY <1>1 DEF KeyDrivers, TwoModules
<1>3. LeftByFailure = {"array", "line"} \cup D.starts
  BY <1>1, <1>2 DEF LeftByFailure
<1>4. CASE failed
  BY <1>1, <1>3, <1>4
<1>5. CASE ~failed /\ drv = "key01"
  <2>1. D.starts = {}
    BY <1>1, <1>5, KeyD, StartsAre
  <2>2. LeftByDesign = {"line", "array"}
    BY <1>5 DEF LeftByDesign
  <2> QED
    BY <2>1, <2>2, <1>1
<1>6. CASE ~failed /\ drv # "key01"
  <2>1. KeyHeld = {}
    BY <1>1, <1>6 DEF HandlerInv, CleanHas, Quiet
  <2>2. h[1] \in NotStopped
    BY <2>1 DEF KeyHeld
  <2>3. LeftByDesign = NotStopped
    <3>1. drv = "key07" => LeftByDesign = NotStopped
      BY DEF LeftByDesign, NotStopped
    <3>2. drv \in {"key08", "key09", "key10"} => LeftByDesign = NotStopped
      BY DEF LeftByDesign, NotStopped
    <3>3. drv \notin {"key07", "key08", "key09", "key10"} => NotStopped = {}
      BY DEF NotStopped
    <3> QED
      BY <3>1, <3>2, <3>3, <2>2
  <2> QED
    BY <2>2, <2>3
<1> QED
  BY <1>4, <1>5, <1>6

(* What is left when both modules are out has nobody to give it back.       *)
LEMMA LeavesNothingElse ==
  ASSUME Guarded, HandlerInv, CustodyInv
  PROVE  NothingElseOutlives
<1>1. SUFFICES ASSUME text = [m \in {"m1", "m2"} |-> "out"],
                      NEW h \in held, h[1] # "ops"
               PROVE  h[1] \in LeftByDesign \cup (IF failed THEN LeftByFailure ELSE {})
  BY DEF NothingElseOutlives, Left
<1>2. text["m1"] = "out" /\ text["m2"] = "out" /\ BusModule \in {"m1", "m2"}
  BY <1>1 DEF BusModule
<1>3. run.kind = "idle"
  BY <1>2, CustodyFacts DEF TextInv
<1>4. Quiet
  BY <1>2, CustodyFacts DEF BoundInv
<1>5. ~ByRemove(h)
  BY <1>4 DEF ByRemove, Quiet
<1>6. \A m \in {"m1", "m2"} : ~ByModuleExit(m, h)
  BY <1>2, <1>3 DEF ByModuleExit
<1>7. h[1] \in MayStay
  BY <1>5, <1>6 DEF CustodyInv, InCustody
<1>8. CASE h[1] \in PerKey
  BY <1>4, <1>8, KeysLeft
<1>9. CASE h[1] \notin PerKey
  BY <1>1, <1>7, <1>9 DEF MayStay, Stays, Lapses
<1> QED
  BY <1>8, <1>9

(* Whatever was loaded, bound, refused, unbound and unloaded before, what   *)
(* outlives the modules is what the driver is known to leave, and after a   *)
(* refusal what its failure paths are known to forget, the mappings made at *)
(* open among the first: no registration, node, class, mapping, memory or   *)
(* handler besides.                                                         *)
THEOREM LifeLeaves == Spec => []NothingElseOutlives
BY LeavesNothingElse, AlwaysHandlers, LifeCustody, PTL
-----------------------------------------------------------------------------
(* What a process with a node open finds.                                   *)

\* What the calls of a driver in one module use: its operations, registers or
\* buffer.
Theirs(r, k) ==
  \/ drv \in {"led01", "led02", "led03"} /\ r = "ops" /\ k = 0
  \/ drv = "led_imx6ull" /\ r = "map" /\ k \in 1 .. 3
  \/ drv = "led_stm32mp157" /\ r = "map" /\ k \in 1 .. 4
  \/ drv = "hello07" /\ r = "buf" /\ k = 0
TheirsHeld == \A r, k : Theirs(r, k) => Static(r, k) \in held

\* Code that makes r; that cannot fail and makes nothing, but the operations
\* if L; and that only takes, and is tame after it has made a node.
Furnishes(p, r, k) ==
  \E j \in 1 .. Len(p) : p[j].op = "make" /\ p[j].r = r /\ p[j].i = k
Tame(L, s) == s.op \notin {"need", "read"} /\ (s.op = "make" => L /\ s.r = "ops")
TameAll(L, p) == \A j \in 1 .. Len(p) : Tame(L, p[j])
Opens(L, p) ==
  \A i \in 1 .. Len(p) :
    /\ p[i].op \in {"take", "need", "make"} /\ p[i].undo \subseteq {"chrdev", "class"}
    /\ p[i].r = "node" => \A j \in i + 1 .. Len(p) : Tame(L, p[j])

\* The templates make their operations last.
MakesOps == drv \in {"led01", "led03"}
HasNode == \E h \in held : h[1] = "node"

\* No process has a node of a driver in one module open unless the module is
\* there, with what its calls use; while it loads, that is there or still to be
\* made, and once there is a node, nothing is still to be made, but by the
\* templates.
CharInv ==
  drv \in DOMAIN CharDriver =>
    /\ text["m1"] \in {"out", "going"} => user = "outside"
    /\ text["m1"] = "live" \/ user = "inside" => TheirsHeld
    /\ run.kind = "init" =>
         /\ Opens(MakesOps, run.prog)
         /\ user = "inside" \/ HasNode => TameAll(MakesOps, run.prog)
         /\ \A r, k : Theirs(r, k) => Static(r, k) \in held \/ Furnishes(run.prog, r, k)

\* The other drivers: leddrv 04 never makes a node, and the two others in two
\* modules are opened with operations only, which go when m1 is loaded and do
\* not come again before it is there.
UserInv ==
  /\ user = "inside" => text["m1"] \in {"coming", "live"}
  /\ drv \in OpsElsewhere =>
       /\ user = "inside" => text["m1"] = "live" /\ HasOps
       /\ text["m1"] = "coming" => ~HasOps
  /\ drv = "led04" => user = "outside" /\ ~HasNode

(* The rest of a program.                                                   *)
LEMMA OpensTail ==
  ASSUME NEW p \in Seq(StepSet), p # << >>
  PROVE  /\ \A L : Opens(L, p) =>
              /\ Opens(L, Tail(p)) /\ Head(p).op \in {"take", "need", "make"}
              /\ Head(p).undo \subseteq {"chrdev", "class"}
              /\ Head(p).r = "node" => TameAll(L, Tail(p))
         /\ \A L : TameAll(L, p) => Tame(L, Head(p)) /\ TameAll(L, Tail(p))
         /\ \A r, k : Furnishes(p, r, k) =>
              \/ Head(p).op = "make" /\ Head(p).r = r /\ Head(p).i = k
              \/ Furnishes(Tail(p), r, k)
         /\ \A r, k : ~Furnishes(<< >>, r, k)
<1> DEFINE t == Tail(p)
<1>1. /\ Len(p) \in Nat /\ Len(p) >= 1 /\ Len(t) = Len(p) - 1 /\ Head(p) = p[1]
      /\ \A i \in 1 .. Len(t) : t[i] = p[i + 1]
      /\ \A i \in 2 .. Len(p) : i - 1 \in 1 .. Len(t) /\ t[i - 1] = p[i]
  OBVIOUS
<1> HIDE DEF t
<1>2. ASSUME NEW L, Opens(L, p)
      PROVE  /\ Opens(L, t) /\ Head(p).op \in {"take", "need", "make"}
             /\ Head(p).undo \subseteq {"chrdev", "class"}
             /\ Head(p).r = "node" => TameAll(L, t)
  <2>1. ASSUME NEW i \in 1 .. Len(t)
        PROVE  /\ t[i].op \in {"take", "need", "make"} /\ t[i].undo \subseteq {"chrdev", "class"}
               /\ t[i].r = "node" => \A j \in i + 1 .. Len(t) : Tame(L, t[j])
    <3>1. i + 1 \in 1 .. Len(p) /\ t[i] = p[i + 1]
      BY <1>1
    <3>2. /\ p[i + 1].op \in {"take", "need", "make"}
          /\ p[i + 1].undo \subseteq {"chrdev", "class"}
          /\ p[i + 1].r = "node" => \A j \in i + 1 + 1 .. Len(p) : Tame(L, p[j])
      BY <3>1, <1>2 DEF Opens
    <3>3. ASSUME NEW j \in i + 1 .. Len(t)
          PROVE  j + 1 \in i + 1 + 1 .. Len(p) /\ t[j] = p[j + 1]
      BY <1>1
    <3> QED
      BY <3>1, <3>2, <3>3
  <2>2. 1 \in 1 .. Len(p)
    BY <1>1
  <2>3. /\ p[1].op \in {"take", "need", "make"} /\ p[1].undo \subseteq {"chrdev", "class"}
        /\ p[1].r = "node" => \A j \in 1 + 1 .. Len(p) : Tame(L, p[j])
    BY <2>2, <1>2 DEF Opens
  <2>4. p[1].r = "node" => TameAll(L, t)
    BY <2>3, <1>1 DEF TameAll
  <2> QED
    BY <2>1, <2>3, <2>4, <1>1 DEF Opens
<1>3. \A L : TameAll(L, p) => Tame(L, Head(p)) /\ TameAll(L, t)
  BY <1>1 DEF TameAll
<1>4. ASSUME NEW r, NEW k, Furnishes(p, r, k)
      PROVE  \/ Head(p).op = "make" /\ Head(p).r = r /\ Head(p).i = k
             \/ Furnishes(t, r, k)
  <2>1. PICK j \in 1 .. Len(p) : p[j].op = "make" /\ p[j].r = r /\ p[j].i = k
    BY <1>4 DEF Furnishes
  <2>2. CASE j = 1
    BY <2>1, <2>2, <1>1
  <2>3. CASE j > 1
    BY <2>1, <2>3, <1>1 DEF Furnishes
  <2> QED
    BY <2>2, <2>3
<1>5. \A r, k : ~Furnishes(<< >>, r, k)
  BY DEF Furnishes
<1> QED
  BY <1>2, <1>3, <1>4, <1>5 DEF t

(* The programs that load the drivers in one module.                        *)
LEMMA OpensWritten ==
  /\ \A L : /\ Opens(L, hello_init01) /\ Opens(L, hello_init01b) /\ Opens(L, hello_init07)
            /\ Opens(L, led_init_simple) /\ Opens(L, led_init_imx6ull)
            /\ Opens(L, led_init_stm32mp157) /\ Opens(L, led_init02)
            /\ L => Opens(L, led_init01)
  /\ Furnishes(hello_init07, "buf", 0) /\ Furnishes(led_init01, "ops", 0)
  /\ \A k \in 1 .. 3 : Furnishes(led_init_imx6ull, "map", k)
  /\ \A k \in 1 .. 4 : Furnishes(led_init_stm32mp157, "map", k)
  /\ Furnishes(led_init02, "ops", 0)
<1>1. ASSUME NEW L
      PROVE  /\ Opens(L, hello_init01) /\ Opens(L, hello_init01b) /\ Opens(L, hello_init07)
             /\ Opens(L, led_init_simple) /\ (L => Opens(L, led_init01))
  <2>1. Opens(L, hello_init01) /\ Opens(L, hello_init01b)
    BY DEF Opens, Tame, hello_init01, hello_init01b, Take, Need, Make, Step
  <2>2. Opens(L, hello_init07) /\ Opens(L, led_init_simple)
    BY DEF Opens, Tame, hello_init07, led_init_simple, Take, Need, Make, Step
  <2>3. L => Opens(L, led_init01)
    BY DEF Opens, Tame, led_init01, Take, Need, Make, Step
  <2> QED
    BY <2>1, <2>2, <2>3
<1>2. \A L : Opens(L, led_init_imx6ull)
  BY DEF Opens, Tame, led_init_imx6ull, Take, Make, Step
<1>3. \A L : Opens(L, led_init_stm32mp157)
  BY DEF Opens, Tame, led_init_stm32mp157, Take, Make, Step
<1>4. Furnishes(hello_init07, "buf", 0) /\ Furnishes(led_init01, "ops", 0)
  BY DEF Furnishes, hello_init07, led_init01, Take, Need, Make, Step
<1>5. \A k \in 1 .. 3 : Furnishes(led_init_imx6ull, "map", k)
  BY DEF Furnishes, led_init_imx6ull, Take, Make, Step
<1>6. \A k \in 1 .. 4 : Furnishes(led_init_stm32mp157, "map", k)
  BY DEF Furnishes, led_init_stm32mp157, Take, Make, Step
<1>7. (\A L : Opens(L, led_init02)) /\ Furnishes(led_init02, "ops", 0)
  <2> DEFINE a == <<Take("chrdev", 0), Need("class", 0, {"chrdev"}), Make("ops", 0)>>
             t == For(NLeds, LedNode)
             p == a \o t
  <2>1. a \in Seq(StepSet) /\ Len(a) = 3
    <3>1. /\ Take("chrdev", 0) \in StepSet /\ Need("class", 0, {"chrdev"}) \in StepSet
          /\ Make("ops", 0) \in StepSet
      BY DEF Take, Need, Make, Step, StepSet, Ops, Wares, Names
    <3> QED
      BY <3>1
  <2>2. /\ \A i \in 1 .. 3 : /\ a[i].op \in {"take", "need", "make"} /\ a[i].r # "node"
                             /\ a[i].undo \subseteq {"chrdev", "class"}
        /\ a[3].op = "make" /\ a[3].r = "ops" /\ a[3].i = 0
    BY DEF Take, Need, Make, Step
  <2>3. /\ t \in Seq(StepSet)
        /\ \A i \in 1 .. Len(t) : t[i].op = "take" /\ t[i].undo = {}
    <3>1. t = [j \in 1 .. NLeds |-> Take("node", j - 1)]
      BY Loops
    <3> QED
      BY <3>1, LoopsFit, ProgramsAssumption DEF ModuleFits, Take, Step
  <2> HIDE DEF a, t
  <2>4. /\ Len(p) \in Nat /\ \A i \in 1 .. 3 : i \in 1 .. Len(p) /\ p[i] = a[i]
        /\ \A i \in 1 .. Len(p) : \/ i \in 1 .. 3 /\ p[i] = a[i]
                                  \/ i - 3 \in 1 .. Len(t) /\ p[i] = t[i - 3]
    <3>1. /\ Len(a) \in Nat /\ Len(t) \in Nat /\ Len(p) = Len(a) + Len(t)
          /\ \A i \in 1 .. Len(a) : p[i] = a[i]
          /\ \A i \in 1 .. Len(p) :
               \/ i \in 1 .. Len(a) /\ p[i] = a[i]
               \/ i > Len(a) /\ i - Len(a) \in 1 .. Len(t) /\ p[i] = t[i - Len(a)]
      BY <2>1, <2>3, Cat, Zenon
    <3> HIDE DEF p
    <3> QED
      BY <3>1, <2>1
  <2> HIDE DEF p
  <2>5. ASSUME NEW L, NEW i \in 1 .. Len(p)
        PROVE  /\ p[i].op \in {"take", "need", "make"} /\ p[i].undo \subseteq {"chrdev", "class"}
               /\ p[i].r = "node" => \A j \in i + 1 .. Len(p) : Tame(L, p[j])
    <3>1. CASE i \in 1 .. 3 /\ p[i] = a[i]
      BY <3>1, <2>2
    <3>2. CASE i - 3 \in 1 .. Len(t) /\ p[i] = t[i - 3]
      <4>1. ASSUME NEW j \in i + 1 .. Len(p)
            PROVE  Tame(L, p[j])
        <5>1. j \in 1 .. Len(p) /\ j \notin 1 .. 3
          BY <3>2, <2>4
        <5>2. p[j].op = "take"
          BY <5>1, <2>3, <2>4
        <5> QED
          BY <5>2 DEF Tame
      <4> QED
        BY <4>1, <3>2, <2>3
    <3> QED
      BY <3>1, <3>2, <2>4
  <2>6. \A L : Opens(L, p)
    BY <2>5 DEF Opens
  <2>7. Furnishes(p, "ops", 0)
    BY <2>2, <2>4 DEF Furnishes
  <2>8. led_init02 = p
    BY Zenon DEF p, a, t, led_init02
  <2> QED
    BY <2>6, <2>7, <2>8, Zenon
<1> QED
  BY <1>1, <1>2, <1>3, <1>4, <1>5, <1>6, <1>7

(* The drivers in one module have no devices, and make what their calls use *)
(* before their nodes, but for the operations of the templates.             *)
LEMMA DChar ==
  ASSUME drv \in Drivers, drv \in DOMAIN CharDriver
  PROVE  /\ D.devices = {} /\ drv \notin TwoModules /\ BusModule = "m1"
         /\ Opens(MakesOps, D["m1"].init)
         /\ \A r, k : Theirs(r, k) => Furnishes(D["m1"].init, r, k)
         /\ "node" \notin MayStay
<1>1. /\ DOMAIN CharDriver = {"hello01", "hello01b", "hello07", "led_simple", "led_imx6ull",
                              "led_stm32mp157", "led01", "led02", "led03"}
  BY DEF CharDriver
<1>2. drv \notin TwoModules /\ drv \notin KeyDrivers /\ drv \notin {"led05", "button", "gpio_led"}
  BY <1>1 DEF TwoModules, KeyDrivers
<1>3. "node" \notin MayStay
  <2>1. "node" \notin LeftByFailure
    BY <1>2 DEF LeftByFailure
  <2>2. "node" \notin LeftByDesign
    <3>1. drv = "hello07" => LeftByDesign = {"buf"}
      BY DEF LeftByDesign
    <3>2. drv = "led02" => LeftByDesign = {"map"}
      BY DEF LeftByDesign
    <3>3. drv \notin {"hello07", "key01", "key07", "key08", "key09", "key10", "led02",
                      "led05", "button", "gpio_led"} => LeftByDesign = {}
      BY DEF LeftByDesign
    <3> QED
      BY <3>1, <3>2, <3>3, <1>2 DEF KeyDrivers
  <2> QED
    BY <2>1, <2>2 DEF MayStay, Stays, Lapses, PerKey
<1>4. ASSUME NEW p, NEW q, D = Simple(p, q), Opens(MakesOps, p),
             \A r, k : Theirs(r, k) => Furnishes(p, r, k)
      PROVE  /\ D.devices = {} /\ Opens(MakesOps, D["m1"].init)
             /\ \A r, k : Theirs(r, k) => Furnishes(D["m1"].init, r, k)
  <2>1. D.devices = {} /\ D["m1"].init = p
    BY <1>4 DEF Simple, Module
  <2> QED
    BY <2>1, <1>4
<1>5. CASE drv = "hello01"
  <2>1. Opens(MakesOps, hello_init01)
    BY <1>5, OpensWritten DEF MakesOps
  <2>2. \A r, k : Theirs(r, k) => FALSE
    BY <1>5 DEF Theirs
  <2>3. \A r, k : Theirs(r, k) => Furnishes(hello_init01, r, k)
    BY <2>2, OpensWritten
  <2>4. D = Simple(hello_init01, hello_exit01)
    BY <1>5, CharDriverIs DEF D
  <2> QED
    BY <2>1, <2>3, <2>4, <1>2, <1>3, <1>4, Zenon DEF BusModule
<1>6. CASE drv = "hello01b"
  <2>1. Opens(MakesOps, hello_init01b)
    BY <1>6, OpensWritten DEF MakesOps
  <2>2. \A r, k : Theirs(r, k) => FALSE
    BY <1>6 DEF Theirs
  <2>3. \A r, k : Theirs(r, k) => Furnishes(hello_init01b, r, k)
    BY <2>2, OpensWritten
  <2>4. D = Simple(hello_init01b, hello_exit01b)
    BY <1>6, CharDriverIs DEF D
  <2> QED
    BY <2>1, <2>3, <2>4, <1>2, <1>3, <1>4, Zenon DEF BusModule
<1>7. CASE drv = "hello07"
  <2>1. Opens(MakesOps, hello_init07)
    BY <1>7, OpensWritten DEF MakesOps
  <2>2. \A r, k : Theirs(r, k) => r = "buf" /\ k = 0
    BY <1>7 DEF Theirs
  <2>3. \A r, k : Theirs(r, k) => Furnishes(hello_init07, r, k)
    BY <2>2, OpensWritten
  <2>4. D = Simple(hello_init07, hello_exit01)
    BY <1>7, CharDriverIs DEF D, hello_exit07
  <2> QED
    BY <2>1, <2>3, <2>4, <1>2, <1>3, <1>4, Zenon DEF BusModule
<1>8. CASE drv = "led_simple"
  <2>1. Opens(MakesOps, led_init_simple)
    BY <1>8, OpensWritten DEF MakesOps
  <2>2. \A r, k : Theirs(r, k) => FALSE
    BY <1>8 DEF Theirs
  <2>3. \A r, k : Theirs(r, k) => Furnishes(led_init_simple, r, k)
    BY <2>2, OpensWritten
  <2>4. D = Simple(led_init_simple, hello_exit01)
    BY <1>8, CharDriverIs DEF D, led_exit_simple
  <2> QED
    BY <2>1, <2>3, <2>4, <1>2, <1>3, <1>4, Zenon DEF BusModule
<1>9. CASE drv = "led_imx6ull"
  <2>1. Opens(MakesOps, led_init_imx6ull)
    BY <1>9, OpensWritten DEF MakesOps
  <2>2. \A r, k : Theirs(r, k) => r = "map" /\ k \in 1 .. 3
    BY <1>9 DEF Theirs
  <2>3. \A r, k : Theirs(r, k) => Furnishes(led_init_imx6ull, r, k)
    BY <2>2, OpensWritten
  <2>4. D = Simple(led_init_imx6ull, led_exit_imx6ull)
    BY <1>9, CharDriverIs DEF D
  <2> QED
    BY <2>1, <2>3, <2>4, <1>2, <1>3, <1>4, Zenon DEF BusModule
<1>10. CASE drv = "led_stm32mp157"
  <2>1. Opens(MakesOps, led_init_stm32mp157)
    BY <1>10, OpensWritten DEF MakesOps
  <2>2. \A r, k : Theirs(r, k) => r = "map" /\ k \in 1 .. 4
    BY <1>10 DEF Theirs
  <2>3. \A r, k : Theirs(r, k) => Furnishes(led_init_stm32mp157, r, k)
    BY <2>2, OpensWritten
  <2>4. D = Simple(led_init_stm32mp157, led_exit_stm32mp157)
    BY <1>10, CharDriverIs DEF D
  <2> QED
    BY <2>1, <2>3, <2>4, <1>2, <1>3, <1>4, Zenon DEF BusModule
<1>11. CASE drv = "led01"
  <2>1. Opens(MakesOps, led_init01)
    BY <1>11, OpensWritten DEF MakesOps
  <2>2. \A r, k : Theirs(r, k) => r = "ops" /\ k = 0
    BY <1>11 DEF Theirs
  <2>3. \A r, k : Theirs(r, k) => Furnishes(led_init01, r, k)
    BY <2>2, OpensWritten
  <2>4. D = Simple(led_init01, led_exit01)
    BY <1>11, CharDriverIs DEF D
  <2> QED
    BY <2>1, <2>3, <2>4, <1>2, <1>3, <1>4, Zenon DEF BusModule
<1>12. CASE drv = "led02"
  <2>1. Opens(MakesOps, led_init02)
    BY <1>12, OpensWritten DEF MakesOps
  <2>2. \A r, k : Theirs(r, k) => r = "ops" /\ k = 0
    BY <1>12 DEF Theirs
  <2>3. \A r, k : Theirs(r, k) => Furnishes(led_init02, r, k)
    BY <2>2, OpensWritten
  <2>4. D = Simple(led_init02, led_exit02)
    BY <1>12, CharDriverIs DEF D
  <2> QED
    BY <2>1, <2>3, <2>4, <1>2, <1>3, <1>4, Zenon DEF BusModule
<1>13. CASE drv = "led03"
  <2>1. Opens(MakesOps, led_init01)
    BY <1>13, OpensWritten DEF MakesOps
  <2>2. \A r, k : Theirs(r, k) => r = "ops" /\ k = 0
    BY <1>13 DEF Theirs
  <2>3. \A r, k : Theirs(r, k) => Furnishes(led_init01, r, k)
    BY <2>2, OpensWritten
  <2>4. D = Simple(led_init01, led_exit01)
    BY <1>13, CharDriverIs DEF D, led_init03, led_exit03
  <2> QED
    BY <2>1, <2>3, <2>4, <1>2, <1>3, <1>4, Zenon DEF BusModule
<1> QED
  BY <1>1, <1>5, <1>6, <1>7, <1>8, <1>9, <1>10, <1>11, <1>12, <1>13

(* The calls of leddrv 04 find no node: no module makes one.                *)
LEMMA NoNodes04 ==
  ASSUME drv \in Drivers, drv = "led04"
  PROVE  \A m \in {"m1", "m2"} :
           /\ \A i \in 1 .. Len(D[m].init) : D[m].init[i].r # "node"
           /\ \A i \in 1 .. Len(D[m].exit) : D[m].exit[i].r # "node"
<1>1. /\ D["m1"].init = led_init04 /\ D["m1"].exit = led_exit04
      /\ D["m2"].init = led_drv_init04 /\ D["m2"].exit = led_drv_exit04
  BY BusDriverIs DEF D, OnBus, Module
<1>2. /\ \A i \in 1 .. Len(led_init04) : led_init04[i].r # "node"
      /\ \A i \in 1 .. Len(led_exit04) : led_exit04[i].r # "node"
      /\ \A i \in 1 .. Len(led_drv_init04) : led_drv_init04[i].r # "node"
      /\ \A i \in 1 .. Len(led_drv_exit04) : led_drv_exit04[i].r # "node"
  BY DEF led_init04, led_exit04, led_drv_init04, led_drv_exit04, Make, Need, Drop, Do, Step
<1> QED
  BY <1>1, <1>2

(* The operations of the two drivers that have them in m2 are made by m2    *)
(* when it is loaded, and by nothing else, and no code takes them back.     *)
NoOps(p) == \A i \in 1 .. Len(p) : p[i].r # "ops" /\ "ops" \notin p[i].undo
LEMMA OpsPrograms ==
  ASSUME drv \in Drivers, drv \in OpsElsewhere
  PROVE  /\ NoOps(D["m1"].init) /\ NoOps(D["m1"].exit) /\ NoOps(D["m2"].exit)
         /\ NoOps(D.probe) /\ NoOps(D.remove)
         /\ \A i \in 1 .. Len(D["m2"].init) : D["m2"].init[i].op = "make"
<1>1. /\ D["m1"].init = led_init04 /\ D["m1"].exit = led_exit04
      /\ D["m2"].init = led_drv_init04 /\ D["m2"].exit = led_drv_exit04
      /\ D.probe = led_drv_probe05 /\ D.remove \in {led_drv_remove05, button_remove}
  BY BusDriverIs DEF D, OnBus, Module, OpsElsewhere
<1>2. /\ NoOps(led_init04) /\ NoOps(led_exit04) /\ NoOps(led_drv_exit04)
      /\ NoOps(led_drv_probe05) /\ NoOps(led_drv_remove05) /\ NoOps(button_remove)
  BY DEF NoOps, led_init04, led_exit04, led_drv_exit04, led_drv_probe05,
     led_drv_remove05, button_remove, Need, Drop, Do, Step
<1>3. \A i \in 1 .. Len(led_drv_init04) : led_drv_init04[i].op = "make"
  BY DEF led_drv_init04, Make, Step
<1> QED
  BY <1>1, <1>2, <1>3
(* Where the drivers in one module are.                                     *)
LEMMA CharFacts ==
  ASSUME Guarded, drv \in DOMAIN CharDriver
  PROVE  /\ Positions /\ DataTypes /\ TextInv /\ drv \in Drivers
         /\ bound = {} /\ bus.kind = "idle" /\ text["m2"] = "out"
         /\ run.kind \in {"idle", "init", "exit"} /\ run.prog \in Seq(StepSet)
         /\ text \in [{"m1", "m2"} -> {"out", "coming", "live", "going"}]
         /\ run.kind = "init" => run.mod = "m1" /\ text["m1"] = "coming"
         /\ run.kind = "exit" => run.mod = "m1" /\ text["m1"] = "going"
         /\ text["m1"] = "coming" => run.kind = "init"
<1>1. /\ Positions /\ DataTypes /\ TextInv /\ BoundInv /\ drv \in Drivers
      /\ run.kind \in {"idle", "init", "exit"} /\ run.mod \in {"m1", "m2"}
      /\ run.prog \in Seq(StepSet)
      /\ text \in [{"m1", "m2"} -> {"out", "coming", "live", "going"}]
  BY DEF Guarded, Positions
<1>2. D.devices = {} /\ drv \notin TwoModules
  BY <1>1, DChar
<1>3. bound = {} /\ bus.kind = "idle"
  BY <1>1, <1>2 DEF BoundInv, Quiet
<1>4. text["m2"] = "out"
  BY <1>1, <1>2 DEF TextInv
<1>5. run.kind # "idle" => run.mod = "m1"
  BY <1>1, <1>4 DEF TextInv
<1>6. /\ run.kind = "init" => text["m1"] = "coming"
      /\ run.kind = "exit" => text["m1"] = "going"
  BY <1>1, <1>5 DEF TextInv
<1>7. text["m1"] = "coming" => run.kind = "init"
  BY <1>1, <1>6 DEF TextInv
<1> QED
  BY <1>1, <1>3, <1>4, <1>5, <1>6, <1>7

(* An unloaded driver in one module has left no node.                       *)
LEMMA NoNodeLeft ==
  ASSUME Guarded, CustodyInv, drv \in DOMAIN CharDriver, text["m1"] = "out"
  PROVE  ~HasNode
<1>1. ASSUME NEW h \in held, h[1] = "node"
      PROVE  FALSE
  <2>1. "node" \notin MayStay
    BY CharFacts, DChar
  <2>2. ~ByRemove(h)
    BY CharFacts DEF ByRemove
  <2>3. ~ByModuleExit("m1", h) /\ ~ByModuleExit("m2", h)
    BY CharFacts DEF ByModuleExit
  <2> QED
    BY <1>1, <2>1, <2>2, <2>3 DEF CustodyInv, InCustody
<1> QED
  BY <1>1 DEF HasNode

(* What the calls use has no key's name and is not undone.                  *)
LEMMA TheirsApart ==
  \A r, k : Theirs(r, k) => /\ r \notin PerKey /\ r \notin {"chrdev", "class", "node"}
                            /\ Named(r, k) = Static(r, k)
BY DEF Theirs, Named, PerKey

(* A step of a program that loads takes nothing of theirs away.             *)
LEMMA CharInitKeeps ==
  ASSUME Guarded, CharInv, drv \in DOMAIN CharDriver, run.prog # << >>, StepOf("run"),
         run.kind = "init", NEW r, NEW k, Theirs(r, k), Static(r, k) \in held
  PROVE  Static(r, k) \in held'
<1> DEFINE s == Head(run.prog)
<1>1. /\ Positions /\ DataTypes /\ run.prog \in Seq(StepSet) /\ Prog("run") = run.prog
  BY CharFacts DEF Prog
<1>2. s.op \in {"take", "need", "make"} /\ s.undo \subseteq {"chrdev", "class"}
  BY <1>1, OpensTail DEF CharInv
<1>3. ASSUME Static(r, k) \notin held'
      PROVE  FALSE
  <2>1. PICK u \in s.undo : Static(r, k) = Static(u, 0)
    BY <1>1, <1>2, <1>3, HeldShrinks
  <2>2. r = u
    BY <2>1 DEF Static
  <2> QED
    BY <2>2, <1>2, TheirsApart
<1> QED
  BY <1>3

(* A step of a program that loads: nothing of theirs goes, and what it      *)
(* makes is there.                                                          *)
LEMMA CharInitStep ==
  ASSUME Guarded, CharInv, drv \in DOMAIN CharDriver, run.prog # << >>, StepOf("run"),
         drv' = drv, user' = user, run.kind = "init", GoesOn("run")
  PROVE  /\ Opens(MakesOps, Tail(run.prog))
         /\ user' = "inside" \/ HasNode' => TameAll(MakesOps, Tail(run.prog))
         /\ \A r, k : Theirs(r, k) =>
              Static(r, k) \in held' \/ Furnishes(Tail(run.prog), r, k)
<1> DEFINE s == Head(run.prog)
           t == Tail(run.prog)
<1>1. /\ Positions /\ DataTypes /\ run.prog \in Seq(StepSet) /\ Prog("run") = run.prog
      /\ "run" \in {"run", "bus"}
  BY CharFacts DEF Prog
<1>2. /\ Opens(MakesOps, run.prog)
      /\ user = "inside" \/ HasNode => TameAll(MakesOps, run.prog)
      /\ \A r, k : Theirs(r, k) => Static(r, k) \in held \/ Furnishes(run.prog, r, k)
  BY DEF CharInv
<1>3. /\ Opens(MakesOps, t) /\ s.op \in {"take", "need", "make"}
      /\ s.undo \subseteq {"chrdev", "class"}
      /\ s.r = "node" => TameAll(MakesOps, t)
      /\ TameAll(MakesOps, run.prog) => TameAll(MakesOps, t)
      /\ \A r, k : Furnishes(run.prog, r, k) =>
           (s.op = "make" /\ s.r = r /\ s.i = k) \/ Furnishes(t, r, k)
  BY <1>1, <1>2, OpensTail
<1> HIDE DEF s, t
<1>4. ASSUME NEW h \in held', h \notin held
      PROVE  h = Named(s.r, s.i)
  BY <1>1, <1>3, <1>4, HeldGrows DEF s
<1>5. Named(s.r, s.i)[1] = s.r
  BY DEF Named, Static
<1>6. ASSUME user' = "inside" \/ HasNode'
      PROVE  TameAll(MakesOps, t)
  <2>1. CASE user = "inside" \/ HasNode
    BY <2>1, <1>2, <1>3
  <2>2. CASE HasNode' /\ ~HasNode
    <3>1. PICK h \in held' : h[1] = "node"
      BY <2>2 DEF HasNode
    <3>2. h \notin held
      BY <2>2, <3>1 DEF HasNode
    <3> QED
      BY <3>1, <3>2, <1>3, <1>4, <1>5
  <2> QED
    BY <2>1, <2>2, <1>6
<1>7. ASSUME NEW r, NEW k, Theirs(r, k)
      PROVE  Static(r, k) \in held' \/ Furnishes(t, r, k)
  <2>1. r \notin {"chrdev", "class", "node"} /\ Named(r, k) = Static(r, k)
    BY <1>7, TheirsApart
  <2>2. CASE Static(r, k) \in held
    BY <1>7, <2>2, CharInitKeeps
  <2>3. CASE s.op = "make" /\ s.r = r /\ s.i = k
    <3>1. Made("run", s)
      BY <2>3, <1>1 DEF StepOf, s
    <3> QED
      BY <3>1, <2>1, <2>3 DEF Made
  <2> QED
    BY <2>2, <2>3, <1>2, <1>3, <1>7
<1> QED
  BY <1>3, <1>6, <1>7 DEF t

(* The driver and its programs do not change.                               *)
LEMMA SameCalls ==
  ASSUME drv' = drv
  PROVE  /\ D' = D /\ MakesOps' = MakesOps /\ \A r, k : Theirs(r, k)' <=> Theirs(r, k)
BY DEF D, MakesOps, Theirs

(* A step of a module's code.                                               *)
LEMMA CharModuleStep ==
  ASSUME Guarded, CharInv, drv \in DOMAIN CharDriver, ModuleStep
  PROVE  CharInv'
<1> DEFINE s == Head(run.prog)
<1>1. run.prog # << >> /\ StepOf("run") /\ drv' = drv /\ user' = user
  BY DEF ModuleStep
<1>2. MakesOps' = MakesOps /\ \A r, k : Theirs(r, k)' <=> Theirs(r, k)
  BY <1>1, SameCalls
<1>3. /\ Positions /\ Prog("run") = run.prog /\ "run" \in {"run", "bus"} /\ run.kind # "idle"
      /\ run.prog \in Seq(StepSet) /\ DataTypes
      /\ text \in [{"m1", "m2"} -> {"out", "coming", "live", "going"}]
  BY <1>1, CharFacts, NextStep DEF Prog
<1>4. /\ run.mod = "m1"
      /\ \/ run.kind = "init" /\ text["m1"] = "coming"
         \/ run.kind = "exit" /\ text["m1"] = "going"
  BY <1>3, CharFacts
<1>5. /\ text["m1"] \in {"out", "going"} => user = "outside"
      /\ user = "inside" => TheirsHeld
      /\ run.kind = "init" =>
           /\ Opens(MakesOps, run.prog)
           /\ user = "inside" \/ HasNode => TameAll(MakesOps, run.prog)
  BY DEF CharInv
<1>6. CASE GoesOn("run")
  <2>1. run' = [run EXCEPT !.prog = Tail(@)] /\ text' = text
    BY <1>6 DEF GoesOn
  <2>2. run'.prog = Tail(run.prog) /\ run'.kind = run.kind
    BY <2>1, <1>3 DEF Positions
  <2>3. run.kind = "init" =>
          /\ Opens(MakesOps, Tail(run.prog))
          /\ user' = "inside" \/ HasNode' => TameAll(MakesOps, Tail(run.prog))
          /\ \A r, k : Theirs(r, k) =>
               Static(r, k) \in held' \/ Furnishes(Tail(run.prog), r, k)
    BY <1>1, <1>6, CharInitStep
  <2>4. ASSUME user' = "inside"
        PROVE  TheirsHeld'
    <3>1. run.kind = "init" /\ TheirsHeld
      BY <2>4, <1>1, <1>4, <1>5
    <3>2. \A r, k : Theirs(r, k) => Static(r, k) \in held'
      BY <3>1, <1>1, <1>6, CharInitKeeps DEF TheirsHeld
    <3> QED
      BY <3>2, <1>2 DEF TheirsHeld
  <2> QED
    BY <2>1, <2>2, <2>3, <2>4, <1>1, <1>2, <1>4, <1>5 DEF CharInv
<1>7. CASE GivesUp("run") /\ ~GoesOn("run")
  <2>1. run'.kind = "idle" /\ text' = [text EXCEPT !["m1"] = "out"]
    BY <1>7, <1>4 DEF GivesUp, Fails, Idle
  <2>2. s.op \in {"need", "read"}
    BY <1>1, <1>3, <1>7, GivenUp
  <2>3. user = "outside"
    <3>1. TameAll(MakesOps, run.prog) => Tame(MakesOps, s)
      BY <1>1, <1>3, OpensTail
    <3> QED
      BY <3>1, <2>2, <1>3, <1>4, <1>5 DEF Tame, DataTypes
  <2> QED
    BY <2>1, <2>3, <1>1, <1>3 DEF CharInv
<1>8. CASE s.op = "oops"
  <2>1. run' = run /\ text' = text /\ held' = held
    BY <1>8, <1>1, <1>3 DEF StepOf
  <2>2. HasNode' = HasNode
    BY <2>1 DEF HasNode
  <2>3. user = "inside" => TheirsHeld'
    BY <2>1, <1>2, <1>5 DEF TheirsHeld
  <2> QED
    BY <2>1, <2>2, <2>3, <1>1, <1>2, <1>4 DEF CharInv
<1>9. s.op = "oops" \/ GoesOn("run") \/ GivesUp("run")
  <2>1. s.op \notin SlotOps
    BY <1>1, <1>3, NextStep
  <2> QED
    BY <2>1, <1>1, <1>3, FailsRemembered, CharFacts DEF SlotOps
<1> QED
  BY <1>6, <1>7, <1>8, <1>9

(* What leaves the modules alone keeps what the calls use.                  *)
LEMMA CharKept ==
  ASSUME CharInv, UNCHANGED <<drv, run, text>>, HasNode' => HasNode,
         \A r, k : Theirs(r, k) /\ Static(r, k) \in held => Static(r, k) \in held',
         \/ user' \in {user, "outside"}
         \/ HasNode /\ text["m1"] \in {"coming", "live"} /\ TheirsHeld
  PROVE  CharInv'
<1>1. MakesOps' = MakesOps /\ \A r, k : Theirs(r, k)' <=> Theirs(r, k)
  BY SameCalls
<1>2. SUFFICES ASSUME drv \in DOMAIN CharDriver
               PROVE  CharInv'
  BY DEF CharInv
<1>3. text'["m1"] \in {"out", "going"} => user' = "outside"
  BY <1>2 DEF CharInv
<1>4. text'["m1"] = "live" \/ user' = "inside" => TheirsHeld'
  BY <1>1, <1>2 DEF CharInv, TheirsHeld
<1>5. ASSUME run'.kind = "init"
      PROVE  /\ Opens(MakesOps', run'.prog)
             /\ user' = "inside" \/ HasNode' => TameAll(MakesOps', run'.prog)
             /\ \A r, k : Theirs(r, k)' => Static(r, k) \in held' \/ Furnishes(run'.prog, r, k)
  BY <1>1, <1>2, <1>5 DEF CharInv
<1> QED
  BY <1>3, <1>4, <1>5 DEF CharInv

(* A process that opens a node of a driver in one module finds the code     *)
(* there and what its calls use.                                            *)
LEMMA CharOpen ==
  ASSUME Guarded, CharInv, drv \in DOMAIN CharDriver, Open, user' # "outside"
  PROVE  HasNode /\ text["m1"] \in {"coming", "live"} /\ TheirsHeld
<1>1. /\ HasNode /\ text["m1"] # "going" /\ ~Gone
  BY DEF Open, Calls, HasNode
<1>2. text["m1"] \in {"coming", "live"} /\ run.prog \in Seq(StepSet)
  BY <1>1, CharFacts DEF Gone
<1>3. CASE text["m1"] = "live"
  BY <1>1, <1>3 DEF CharInv
<1>4. CASE text["m1"] = "coming"
  <2>1. run.kind = "init"
    BY <1>4, CharFacts
  <2>2. /\ TameAll(MakesOps, run.prog)
        /\ \A r, k : Theirs(r, k) => Static(r, k) \in held \/ Furnishes(run.prog, r, k)
    BY <1>1, <2>1 DEF CharInv
  <2>3. ASSUME NEW r, NEW k, Theirs(r, k), Furnishes(run.prog, r, k)
        PROVE  Static(r, k) \in held
    <3>1. MakesOps
      BY <2>2, <2>3 DEF Furnishes, TameAll, Tame
    <3>2. r = "ops" /\ k = 0
      BY <3>1, <2>3 DEF MakesOps, Theirs
    <3> QED
      BY <3>1, <3>2, <1>1 DEF MakesOps, Gone, HasOps
  <2> QED
    BY <1>1, <1>2, <2>2, <2>3 DEF TheirsHeld
<1> QED
  BY <1>2, <1>3, <1>4

(* Every operation keeps what the calls of a driver in one module use.      *)
LEMMA NextChar ==
  ASSUME Guarded, CustodyInv, CharInv, [Next]_vars
  PROVE  CharInv'
<1>1. drv' = drv
  BY OutsideKeeps DEF Next, ModuleStep, BusStep, ModuleDone, BusDone, Load, Unload,
     Bind, Unbind, vars
<1>2. SUFFICES ASSUME drv \in DOMAIN CharDriver
               PROVE  CharInv'
  BY <1>1 DEF CharInv
<1>3. /\ Positions /\ DataTypes /\ drv \in Drivers /\ bus.kind = "idle" /\ bound = {}
      /\ text["m2"] = "out" /\ run.kind \in {"idle", "init", "exit"}
      /\ text \in [{"m1", "m2"} -> {"out", "coming", "live", "going"}]
      /\ run.kind # "idle" => run.mod = "m1"
  BY <1>2, CharFacts, Zenon
<1>4. D.devices = {} /\ drv \notin TwoModules
  BY <1>2, <1>3, DChar
<1>5. MakesOps' = MakesOps /\ (\A r, k : Theirs(r, k)' <=> Theirs(r, k)) /\ D' = D
  BY <1>1, SameCalls
<1>6. CASE ModuleStep
  BY <1>2, <1>6, CharModuleStep
<1>7. ~BusStep /\ ~BusDone
  BY <1>3, NextStep DEF BusStep, BusDone, Prog
<1>8. CASE ModuleDone
  <2>1. /\ run.kind # "idle" /\ run.prog = << >> /\ run' = Idle /\ held' = held /\ user' = user
        /\ text' = [text EXCEPT !["m1"] = IF run.kind = "init" THEN "live" ELSE "out"]
    BY <1>3, <1>8 DEF ModuleDone
  <2>2. CASE run.kind = "init"
    <3>1. \A r, k : Theirs(r, k) => Static(r, k) \in held
      BY <1>2, <2>1, <2>2, OpensTail DEF CharInv, Furnishes
    <3>2. text'["m1"] = "live" /\ run'.kind = "idle" /\ TheirsHeld'
      BY <1>3, <1>5, <2>1, <2>2, <3>1 DEF Idle, TheirsHeld
    <3> QED
      BY <3>2 DEF CharInv
  <2>3. CASE run.kind # "init"
    <3>1. user = "outside"
      BY <1>2, <1>3, <2>1, <2>3, CharFacts DEF CharInv
    <3>2. text'["m1"] = "out" /\ run'.kind = "idle" /\ user' = "outside"
      BY <1>3, <2>1, <2>3, <3>1 DEF Idle
    <3> QED
      BY <3>2 DEF CharInv
  <2> QED
    BY <2>2, <2>3
<1>9. ASSUME NEW m \in {"m1", "m2"}, Load(m)
      PROVE  CharInv'
  <2>1. m = "m1"
    BY <1>4, <1>9 DEF Load
  <2>2. /\ text["m1"] = "out" /\ text' = [text EXCEPT !["m1"] = "coming"]
        /\ run' = [mod |-> "m1", kind |-> "init", prog |-> D["m1"].init]
        /\ held' \subseteq held /\ user' = user
    BY <2>1, <1>9 DEF Load
  <2>3. user = "outside" /\ ~HasNode
    BY <1>2, <2>2, NoNodeLeft DEF CharInv
  <2>4. ~HasNode'
    BY <2>2, <2>3 DEF HasNode
  <2>5. /\ Opens(MakesOps, D["m1"].init)
        /\ \A r, k : Theirs(r, k) => Furnishes(D["m1"].init, r, k)
    BY <1>2, <1>3, DChar
  <2>6. text'["m1"] = "coming" /\ run'.prog = D["m1"].init /\ user' = "outside"
    BY <1>3, <2>2, <2>3
  <2> QED
    BY <1>5, <2>4, <2>5, <2>6 DEF CharInv
<1>10. ASSUME NEW m \in {"m1", "m2"}, Unload(m)
       PROVE  CharInv'
  <2>1. m = "m1"
    BY <1>3, <1>10 DEF Unload
  <2>2. /\ text' = [text EXCEPT !["m1"] = "going"] /\ run'.kind = "exit"
        /\ user = "outside" /\ user' = user
    BY <2>1, <1>10 DEF Unload, Unpinned
  <2>3. text'["m1"] = "going"
    BY <1>3, <2>2
  <2> QED
    BY <2>2, <2>3 DEF CharInv
<1>11. \A d \in D.devices : ~(Bind(d) \/ Unbind(d))
  BY <1>4
<1>12. CASE Open \/ Use \/ Close \/ UNCHANGED vars
  <2>1. UNCHANGED <<drv, run, text>>
    BY <1>12, OutsideKeeps DEF vars
  <2>2. held' = held \/ held' = held \cup Mapped
    BY <1>12, OutsideHolds DEF vars
  <2>3. HasNode' => HasNode
    BY <2>2 DEF HasNode, Mapped, Static
  <2>4. user' \in {user, "outside"} \/ (HasNode /\ text["m1"] \in {"coming", "live"} /\ TheirsHeld)
    BY <1>2, <1>12, CharOpen DEF Use, Close, vars
  <2> QED
    BY <2>1, <2>2, <2>3, <2>4, CharKept
<1>13. CASE Interrupt
  <2>1. \A h \in held' : h \in held \/ h[1] \in D.starts
    BY <1>13, OutsideHolds
  <2>2. held \subseteq held' /\ user' = user /\ run' = run /\ text' = text
    BY <1>13, OutsideHolds, OutsideKeeps DEF Interrupt, Handles
  <2>3. "node" \notin D.starts
    BY <1>3, DFits DEF PerKey
  <2>4. HasNode' => HasNode
    BY <2>1, <2>3 DEF HasNode
  <2> QED
    BY <1>1, <2>2, <2>4, CharKept
<1>14. CASE HandlerRuns
  <2>1. /\ user' = user /\ run' = run /\ text' = text
        /\ held' = held \/ \E h \in held : h[1] \in PerKey /\ held' = held \ {h}
    BY <1>14, OutsideHolds, OutsideKeeps DEF HandlerRuns, Handles
  <2>2. HasNode' => HasNode
    BY <2>1 DEF HasNode
  <2>3. ASSUME NEW r, NEW k, Theirs(r, k), Static(r, k) \in held
        PROVE  Static(r, k) \in held'
    <3>1. r \notin PerKey /\ Static(r, k)[1] = r
      BY <2>3, TheirsApart DEF Static
    <3> QED
      BY <2>1, <2>3, <3>1
  <2> QED
    BY <1>1, <2>1, <2>2, <2>3, CharKept
<1> QED
  BY <1>6, <1>7, <1>8, <1>9, <1>10, <1>11, <1>12, <1>13, <1>14 DEF Next

(* No module of leddrv 04 makes a node, so no process has one open.         *)
LEMMA NoneOpen04 ==
  ASSUME Guarded, UserInv, [Next]_vars, drv = "led04"
  PROVE  user' = "outside" /\ ~HasNode'
<1>1. /\ Positions /\ DataTypes /\ drv \in Drivers /\ user = "outside" /\ ~HasNode
      /\ run.mod \in {"m1", "m2"} /\ run.kind \in {"idle", "init", "exit"}
  BY CustodyFacts DEF UserInv
<1>2. user' = "outside"
  BY <1>1 DEF Next, ModuleStep, BusStep, ModuleDone, BusDone, Load, Unload, Bind,
     Unbind, Open, Use, Close, Interrupt, HandlerRuns, Handles, vars, HasNode
<1>3. ASSUME NEW h \in held', h[1] = "node"
      PROVE  FALSE
  <2>1. h \notin held
    BY <1>1, <1>3 DEF HasNode
  <2>2. CASE ModuleStep
    <3> DEFINE s == Head(run.prog)
    <3>1. Prog("run") = run.prog /\ run.prog # << >> /\ StepOf("run")
      BY <2>2 DEF ModuleStep, Prog
    <3>2. s.r # "node"
      <4>1. /\ Pos("run") \in 1 .. Len(RunProgram) /\ s = RunProgram[Pos("run")]
            /\ run.kind # "idle"
        BY <1>1, <3>1, NextStep DEF Program
      <4>2. \/ run.kind = "init" /\ RunProgram = D[run.mod].init
            \/ run.kind = "exit" /\ RunProgram = D[run.mod].exit
        BY <1>1, <4>1 DEF RunProgram
      <4> QED
        BY <1>1, <4>1, <4>2, NoNodes04
    <3>3. s.op \notin SlotOps
      BY <1>1, <3>1, NextStep
    <3>4. h = Named(s.r, s.i) \/ h = <<"array", 0, arrays + 1>>
      BY <1>1, <1>3, <2>1, <3>1, <3>3, HeldGrows DEF SlotOps
    <3>5. Named(s.r, s.i)[1] = s.r
      BY DEF Named, Static
    <3> QED
      BY <1>3, <3>2, <3>4, <3>5
  <2>3. CASE BusStep
    <3>1. Prog("bus") # << >> /\ StepOf("bus")
      BY <2>3 DEF BusStep, Prog
    <3>2. Head(Prog("bus")).op = "oops"
      BY <1>1, <3>1, NextStep
    <3>3. held' = held
      BY <3>1, <3>2 DEF StepOf
    <3> QED
      BY <1>3, <2>1, <3>3
  <2>4. CASE Interrupt
    <3>1. h[1] \in D.starts
      BY <1>3, <2>1, <2>4, OutsideHolds
    <3> QED
      BY <1>1, <1>3, <3>1, DFits DEF PerKey
  <2>5. CASE ~ModuleStep /\ ~BusStep /\ ~Interrupt
    <3>1. Mapped = {}
      BY DEF Mapped
    <3>2. Open \/ Use \/ Close \/ HandlerRuns => held' \subseteq held
      BY <3>1, OutsideHolds
    <3>3. held' \subseteq held
      BY <2>5, <3>2 DEF Next, ModuleDone, BusDone, Load, Unload, Bind, Unbind, vars
    <3> QED
      BY <1>3, <2>1, <3>3
  <2> QED
    BY <2>2, <2>3, <2>4, <2>5
<1> QED
  BY <1>2, <1>3 DEF HasNode

(* Who is inside comes in by opening a node.                                *)
LEMMA UserMoves ==
  ASSUME [Next]_vars
  PROVE  /\ drv' = drv
         /\ user' = user \/ user' = "outside"
              \/ (Open /\ user' = "inside" /\ ~Gone /\ (drv \in OpsElsewhere => HasOps))
<1>1. Open => \/ user' = "outside"
              \/ user' = "inside" /\ ~Gone /\ (drv \in OpsElsewhere => HasOps)
  BY DEF Open, Calls
<1>2. Use \/ Close \/ Interrupt \/ HandlerRuns => user' \in {user, "outside"}
  BY DEF Use, Close, Interrupt, HandlerRuns, Handles
<1>3. Open \/ Use \/ Close \/ Interrupt \/ HandlerRuns => drv' = drv
  BY OutsideKeeps
<1> QED
  BY <1>1, <1>2, <1>3 DEF Next, ModuleStep, BusStep, ModuleDone, BusDone, Load,
     Unload, Bind, Unbind, vars

(* How a step leaves the code of the file operations; of a driver in two    *)
(* modules, once it is there.                                               *)
LEMMA CodeStays ==
  ASSUME Guarded, [Next]_vars, drv \in OpsElsewhere \cup KeyDrivers \cup {"gpio_led"},
         text["m1"] \in {"coming", "live"}, user = "inside",
         drv \in OpsElsewhere => text["m1"] = "live"
  PROVE  /\ text'["m1"] \in {"coming", "live"}
         /\ drv \in OpsElsewhere => text'["m1"] = "live"
<1>1. /\ Positions /\ DataTypes /\ TextInv /\ drv \in Drivers /\ run.mod \in {"m1", "m2"}
      /\ run.kind \in {"idle", "init", "exit"}
      /\ text \in [{"m1", "m2"} -> {"out", "coming", "live", "going"}]
  BY CustodyFacts
<1>2. CASE ModuleStep
  <2>1. run.prog # << >> /\ StepOf("run") /\ drv' = drv
    BY <1>2 DEF ModuleStep
  <2>2. text' = text \/ (run.kind # "idle" /\ text' = [text EXCEPT ![run.mod] = "out"])
    BY <2>1, RunEnds
  <2>3. CASE drv \in OpsElsewhere \/ run.mod = "m2"
    <3>1. text["m1"] = "live" => run.mod # "m1" \/ run.kind = "idle"
      BY <1>1 DEF TextInv
    <3> QED
      BY <3>1, <1>1, <2>2, <2>3
  <2>4. CASE drv \notin OpsElsewhere /\ run.mod = "m1"
    <3>1. D.devices = {1}
      <4>1. drv \in KeyDrivers => D.devices = {1}
        BY KeyD
      <4>2. drv = "gpio_led" => D.devices = {1}
        BY BusDriverIs DEF D, OnBus
      <4>3. drv \in KeyDrivers \/ drv = "gpio_led"
        BY <2>4
      <4> QED
        BY <4>1, <4>2, <4>3
    <3>2. run.mod = BusModule
      <4>1. drv \notin TwoModules
        BY <2>4 DEF TwoModules, OpsElsewhere, KeyDrivers
      <4> QED
        BY <4>1, <2>4 DEF BusModule
    <3>3. text' = text
      BY <1>1, <1>2, <3>1, <3>2, BusModuleGoesOn
    <3> QED
      BY <3>3
  <2> QED
    BY <2>3, <2>4, <1>1
<1>3. CASE BusStep
  <2>1. text' = text
    BY <1>3, BusEnds DEF BusStep
  <2> QED
    BY <2>1
<1>4. CASE ModuleDone
  <2>1. /\ run.kind = "exit" => run.mod # "m1"
        /\ text["m1"] = "live" /\ run.kind # "idle" => run.mod # "m1"
    BY <1>1 DEF TextInv
  <2> QED
    BY <1>1, <1>4, <2>1 DEF ModuleDone
<1>5. CASE Open \/ Use \/ Close \/ Interrupt \/ HandlerRuns
  BY <1>5, OutsideKeeps
<1>6. CASE /\ ~ModuleStep /\ ~BusStep /\ ~ModuleDone
           /\ ~(Open \/ Use \/ Close \/ Interrupt \/ HandlerRuns)
  BY <1>1, <1>6 DEF Next, BusDone, Load, Unload, Unpinned, Bind, Unbind, runVars, vars
<1> QED
  BY <1>2, <1>3, <1>4, <1>5, <1>6

(* The operations in m2 come when m2 is loaded, and go when m1 is.          *)
LEMMA OpsMove ==
  ASSUME Guarded, [Next]_vars, drv \in OpsElsewhere
  PROVE  /\ HasOps => HasOps' \/ text["m1"] = "out"
         /\ ~HasOps /\ HasOps' => text["m1"] = "live" /\ text'["m1"] = "live"
         /\ text["m1"] # "coming" /\ text'["m1"] = "coming" => ~HasOps'
<1> DEFINE o == Static("ops", 0)
<1>1. /\ Positions /\ DataTypes /\ TextInv /\ drv \in Drivers /\ run.mod \in {"m1", "m2"}
      /\ run.kind \in {"idle", "init", "exit"}
      /\ text \in [{"m1", "m2"} -> {"out", "coming", "live", "going"}]
  BY CustodyFacts
<1>2. HasOps = (o \in held) /\ HasOps' = (o \in held')
  BY DEF HasOps
<1>3. ASSUME NEW c \in {"run", "bus"}, Prog(c) # << >>, StepOf(c), drv' = drv
      PROVE  /\ o \in held => o \in held'
             /\ o \notin held /\ o \in held' =>
                  c = "run" /\ run.kind = "init" /\ run.mod = "m2" /\ GoesOn(c)
  <2> DEFINE s == Head(Prog(c))
  <2>1. /\ Pos(c) \in 1 .. Len(Program(c)) /\ s = Program(c)[Pos(c)] /\ s \in StepSet
        /\ c = "run" => run.kind # "idle"
        /\ c = "bus" => bus.kind \in {"probe", "remove"}
    BY <1>1, <1>3, NextStep DEF Positions
  <2>2. \/ s.r # "ops" /\ "ops" \notin s.undo
        \/ c = "run" /\ run.kind = "init" /\ run.mod = "m2" /\ s.op = "make"
    <3>1. CASE c = "run" /\ run.kind = "init" /\ run.mod = "m2"
      <4>1. Program(c) = D["m2"].init
        BY <3>1 DEF Program, RunProgram
      <4> QED
        BY <3>1, <4>1, <2>1, <1>1, OpsPrograms
    <3>2. CASE ~(c = "run" /\ run.kind = "init" /\ run.mod = "m2")
      <4>1. NoOps(Program(c))
        BY <3>2, <2>1, <1>1, OpsPrograms DEF Program, RunProgram, BusProgram
      <4> QED
        BY <4>1, <2>1 DEF NoOps
    <3> QED
      BY <3>1, <3>2
  <2>3. Named(s.r, s.i)[1] = s.r /\ \A u : Static(u, 0)[1] = u /\ o[1] = "ops"
    BY DEF Named, Static
  <2>4. ASSUME o \in held, o \notin held'
        PROVE  FALSE
    <3>1. \/ /\ s.op \in {"take", "need"} /\ Refused(c, s)
             /\ \E u \in s.undo : o = Static(u, 0)
          \/ s.op = "drop" /\ o = Named(s.r, s.i) /\ GoesOn(c)
          \/ s.op = "kfree" /\ o = <<"array", 0, gpk>> /\ GoesOn(c)
      BY <1>1, <1>3, <2>4, HeldShrinks
    <3> QED
      BY <3>1, <2>2, <2>3
  <2>5. ASSUME o \notin held, o \in held'
        PROVE  c = "run" /\ run.kind = "init" /\ run.mod = "m2" /\ GoesOn(c)
    <3>1. \/ /\ s.op \in {"take", "need", "make"} /\ o = Named(s.r, s.i)
             /\ GoesOn(c) /\ (s.op # "make" => CanTake(s.r, s.i))
          \/ s.op = "kzalloc" /\ o = <<"array", 0, arrays + 1>> /\ GoesOn(c)
          \/ /\ s.op \in {"node_of_next_slot", "clear_slot"} /\ GoesOn(c)
             /\ \E i : o = Static("node", i)
      BY <1>1, <1>3, <2>5, HeldGrows
    <3>2. s.op \in {"take", "need", "make"} /\ o = Named(s.r, s.i) /\ GoesOn(c)
      BY <3>1, <2>3 DEF Static
    <3> QED
      BY <3>2, <2>2, <2>3
  <2> QED
    BY <2>4, <2>5
<1>4. CASE ModuleStep
  <2>1. run.prog # << >> /\ StepOf("run") /\ drv' = drv /\ Prog("run") = run.prog
    BY <1>4 DEF ModuleStep, Prog
  <2>2. /\ o \in held => o \in held'
        /\ o \notin held /\ o \in held' =>
             run.kind = "init" /\ run.mod = "m2" /\ GoesOn("run")
    BY <1>3, <2>1
  <2>3. run.kind = "init" /\ run.mod = "m2" /\ GoesOn("run") =>
          text["m1"] = "live" /\ text'["m1"] = "live"
    BY <1>1 DEF TextInv, GoesOn
  <2>4. text' = text \/ text' = [text EXCEPT ![run.mod] = "out"]
    BY <2>1, RunEnds
  <2>5. text'["m1"] = "coming" => text["m1"] = "coming"
    BY <2>4, <1>1
  <2> QED
    BY <1>2, <2>2, <2>3, <2>5
<1>5. CASE BusStep
  <2>1. Prog("bus") # << >> /\ StepOf("bus") /\ drv' = drv /\ bus.prog # << >>
    BY <1>5 DEF BusStep, Prog
  <2>2. (o \in held => o \in held') /\ (o \notin held => o \notin held')
    BY <1>3, <2>1
  <2>3. text' = text
    BY <2>1, BusEnds
  <2> QED
    BY <1>2, <2>2, <2>3
<1>6. ASSUME NEW m \in {"m1", "m2"}, Load(m)
      PROVE  /\ o \in held => o \in held' \/ text["m1"] = "out"
             /\ o \notin held => o \notin held'
             /\ text["m1"] # "coming" /\ text'["m1"] = "coming" => o \notin held'
  <2>1. m = "m1" => text["m1"] = "out" /\ held' = held \ {o}
    BY <1>6 DEF Load
  <2>2. m = "m2" => held' = held /\ text'["m1"] = text["m1"]
    BY <1>6, <1>1 DEF Load
  <2> QED
    BY <2>1, <2>2
<1>7. ASSUME NEW m \in {"m1", "m2"}, Unload(m) \/ ModuleDone
      PROVE  held' = held /\ (text'["m1"] = "coming" => text["m1"] = "coming")
  BY <1>7, <1>1 DEF Unload, ModuleDone
<1>8. CASE BusDone \/ (\E d \in D.devices : Bind(d) \/ Unbind(d)) \/ UNCHANGED vars
  <2>1. held' = held /\ text' = text
    BY <1>8 DEF BusDone, Bind, Unbind, runVars, vars
  <2> QED
    BY <1>2, <2>1
<1>9. CASE Open \/ Use \/ Close \/ Interrupt \/ HandlerRuns
  <2>1. text' = text /\ \A u \in Mapped : u # o
    BY <1>9, OutsideKeeps DEF Mapped, Static
  <2>2. ASSUME NEW h \in held
        PROVE  /\ o \notin {<<u, h[2], h[3]>> : u \in D.starts}
               /\ h[1] \in PerKey => h # o
    <3>1. "ops" \notin D.starts /\ o[1] = "ops" /\ "ops" \notin PerKey
      BY <1>1, DFits DEF PerKey, Static
    <3>2. \A u \in D.starts : <<u, h[2], h[3]>>[1] = u
      OBVIOUS
    <3> QED
      BY <3>1, <3>2
  <2>3. o \in held <=> o \in held'
    <3>1. CASE Open \/ Use \/ Close
      BY <3>1, <2>1, OutsideHolds
    <3>2. CASE Interrupt
      BY <3>2, <2>2, OutsideHolds
    <3>3. CASE HandlerRuns
      BY <3>3, <2>2, OutsideHolds
    <3> QED
      BY <1>9, <3>1, <3>2, <3>3
  <2> QED
    BY <1>2, <2>1, <2>3
<1> HIDE DEF o
<1>10. CASE \E m \in {"m1", "m2"} : Load(m)
  BY <1>2, <1>6, <1>10
<1>11. CASE ModuleDone \/ \E m \in {"m1", "m2"} : Unload(m)
  BY <1>2, <1>7, <1>11
<1> QED
  BY <1>4, <1>5, <1>8, <1>9, <1>10, <1>11 DEF Next

(* A process stays out of code that is not there.                           *)
LEMMA NextUser ==
  ASSUME Guarded, UserInv, [Next]_vars, CharInv, CharInv', Guarded'
  PROVE  UserInv'
<1>1. /\ drv' = drv /\ drv \in Drivers
      /\ text \in [{"m1", "m2"} -> {"out", "coming", "live", "going"}]
      /\ text' \in [{"m1", "m2"} -> {"out", "coming", "live", "going"}]
  BY CustodyFacts, UserMoves DEF Guarded, Positions
<1>2. ASSUME drv \in OpsElsewhere
      PROVE  /\ user' = "inside" => text'["m1"] = "live" /\ HasOps'
             /\ text'["m1"] = "coming" => ~HasOps'
  <2>1. text'["m1"] = "coming" => ~HasOps'
    BY <1>2, OpsMove DEF UserInv
  <2>2. CASE user = "inside" /\ user' = "inside"
    <3>1. text["m1"] = "live" /\ HasOps
      BY <1>2, <2>2 DEF UserInv
    <3> QED
      BY <1>2, <2>1, <2>2, <3>1, CodeStays, OpsMove
  <2>3. CASE user # "inside" /\ user' = "inside"
    <3>1. Open /\ ~Gone /\ HasOps
      BY <1>2, <2>3, UserMoves
    <3>2. text["m1"] \notin {"out", "going"} /\ text' = text
      BY <3>1, OutsideKeeps DEF Open, Gone
    <3>3. text["m1"] = "live"
      BY <3>1, <3>2, <1>1, <1>2 DEF UserInv
    <3> QED
      BY <1>2, <2>1, <3>1, <3>2, <3>3, OpsMove
  <2> QED
    BY <2>1, <2>2, <2>3
<1>3. ASSUME user' = "inside"
      PROVE  text'["m1"] \in {"coming", "live"}
  <2>1. CASE drv \in DOMAIN CharDriver
    <3>1. text'["m1"] \notin {"out", "going"}
      BY <1>1, <1>3, <2>1 DEF CharInv
    <3> QED
      BY <1>1, <3>1
  <2>2. drv # "led04"
    BY <1>3, NoneOpen04
  <2>3. CASE user = "inside" /\ drv \notin DOMAIN CharDriver
    <3>1. drv \in OpsElsewhere \cup KeyDrivers \cup {"gpio_led"}
      BY <1>1, <2>2, <2>3, DriverNames, DriversAssumption DEF CharDriver, OpsElsewhere
    <3> QED
      BY <2>3, <3>1, CodeStays DEF UserInv
  <2>4. CASE user # "inside"
    <3>1. Open /\ ~Gone
      BY <1>3, <2>4, UserMoves
    <3>2. text["m1"] \notin {"out", "going"} /\ text' = text
      BY <3>1, OutsideKeeps DEF Open, Gone
    <3> QED
      BY <3>2, <1>1
  <2> QED
    BY <2>1, <2>3, <2>4
<1> QED
  BY <1>1, <1>2, <1>3, NoneOpen04 DEF UserInv

(* Who is inside, in every behaviour.                                       *)
LEMMA AlwaysCalls == Spec => [](Guarded /\ CharInv /\ UserInv)
<1>1. Init => CharInv /\ UserInv
  <2>1. ASSUME Init
        PROVE  /\ text["m1"] = "out" /\ run.kind = "idle" /\ user = "outside" /\ ~HasNode
    BY <2>1 DEF Init, Idle, HasNode
  <2> QED
    BY <2>1 DEF CharInv, UserInv
<1>2. Guarded /\ CustodyInv /\ CharInv /\ [Next]_vars => CharInv'
  BY NextChar
<1>3. Guarded /\ UserInv /\ CharInv /\ [Next]_vars /\ Guarded' /\ CharInv' => UserInv'
  BY NextUser
<1> QED
  BY <1>1, <1>2, <1>3, LifeGuarded, LifeCustody, PTL DEF Spec

(* What a process inside finds.                                             *)
LEMMA CallsFound ==
  ASSUME Guarded, CharInv, UserInv
  PROVE  CallsFindTheirs
<1>1. SUFFICES ASSUME user = "inside"
               PROVE  CallsFindTheirs
  BY DEF CallsFindTheirs
<1>2. text["m1"] \in {"coming", "live"}
  BY <1>1 DEF UserInv
<1>3. drv \in OpsElsewhere => HasOps
  BY <1>1 DEF UserInv
<1>4. drv \in DOMAIN CharDriver => TheirsHeld
  BY <1>1 DEF CharInv
<1>5. ASSUME NEW r, NEW k, Theirs(r, k)
      PROVE  Static(r, k) \in held
  <2>1. drv \in DOMAIN CharDriver
    BY <1>5 DEF Theirs, CharDriver
  <2> QED
    BY <2>1, <1>4, <1>5 DEF TheirsHeld
<1>6. drv \in {"led01", "led02", "led03"} => HasOps
  BY <1>5 DEF Theirs, HasOps
<1>7. drv = "led_imx6ull" => \A m \in 1 .. 3 : Static("map", m) \in held
  BY <1>5 DEF Theirs
<1>8. drv = "led_stm32mp157" => \A m \in 1 .. 4 : Static("map", m) \in held
  BY <1>5 DEF Theirs
<1>9. drv = "hello07" => Static("buf", 0) \in held
  BY <1>5 DEF Theirs
<1> QED
  BY <1>2, <1>3, <1>6, <1>7, <1>8, <1>9 DEF CallsFindTheirs

(* A process with a node open finds the code of the file operations loaded, *)
(* the operations of the board set, its mapped registers and its buffer, in *)
(* every order of loads, refusals, opens and unloads.  For leddrv 05 and    *)
(* button_fdrv the operations are set, but their code may have gone with    *)
(* m2: that is one of the bad pointers of OopsNeedsUnchecked.               *)
THEOREM LifeCalls == Spec => []CallsFindTheirs
BY AlwaysCalls, CallsFound, PTL
-----------------------------------------------------------------------------
(* Who follows a bad pointer: the code of the modules, the calls of a       *)
(* process, and the handlers.                                               *)

Excused ==
  \/ drv = "led04"
  \/ drv \in OpsElsewhere /\ (binds > CAP \/ failed \/ text["m2"] = "out" \/ MayBeGone)
  \/ drv \in {"led01", "led03"} /\ ~HasOps
  \/ failed /\ drv \in {"led_simple", "led_imx6ull", "led_stm32mp157", "gpio_led"}
  \/ \E h \in held : /\ h[1] \in PerKey /\ (Astray(h) \/ OfAnother(h))
                     /\ h[1] \in NotStopped \/ drv = "key01" \/ failed

(* The calls of a process.                                                  *)
LEMMA CallsExcused ==
  ASSUME Guarded, HandlerInv, CustodyInv, CharInv, UserInv, Gone \/ MayBeGone,
         user = "inside" \/ (HasNode /\ text["m1"] # "going")
  PROVE  Excused
<1>1. /\ TextInv /\ drv \in Drivers
      /\ text \in [{"m1", "m2"} -> {"out", "coming", "live", "going"}]
  BY CustodyFacts
<1>2. drv \in TwoModules => drv \in OpsElsewhere \/ drv = "led04"
  BY DEF TwoModules, OpsElsewhere
<1>3. MayBeGone => Excused
  BY <1>2 DEF MayBeGone, Excused
<1>4. drv \in OpsElsewhere /\ text["m2"] = "out" => Excused
  BY DEF Excused
<1>5. CASE text["m1"] = "out"
  <2>1. HasNode /\ text["m2"] = "out"
    BY <1>1, <1>5 DEF UserInv, TextInv
  <2>2. text = [m \in {"m1", "m2"} |-> "out"]
    BY <1>1, <1>5, <2>1
  <2>3. "node" \in LeftByDesign \/ "node" \in LeftByFailure
    BY <2>1, <2>2, LeavesNothingElse DEF HasNode, NothingElseOutlives, Left
  <2>4. "node" \notin LeftByFailure
    <3>1. drv \in KeyDrivers => "node" \notin D.starts
      BY <1>1, DFits DEF PerKey
    <3> QED
      BY <3>1 DEF LeftByFailure
  <2>5. drv \in OpsElsewhere
    BY <2>3, <2>4 DEF LeftByDesign, OpsElsewhere
  <2> QED
    BY <2>1, <2>5, <1>4
<1>6. CASE drv \in {"led01", "led02", "led03"} /\ ~HasOps /\ text["m1"] # "out"
  <2>1. drv \in {"led01", "led03"} => Excused
    BY <1>6 DEF Excused
  <2>2. ASSUME drv = "led02"
        PROVE  FALSE
    <3>1. drv \in DOMAIN CharDriver /\ ~MakesOps /\ Theirs("ops", 0) /\ ~TheirsHeld
      BY <1>6, <2>2 DEF CharDriver, MakesOps, Theirs, TheirsHeld, HasOps
    <3>2. HasNode /\ text["m1"] = "coming"
      BY <1>1, <1>6, <3>1 DEF CharInv
    <3>3. run.kind = "init" /\ run.prog \in Seq(StepSet)
      BY <3>1, <3>2, CharFacts
    <3>4. TameAll(MakesOps, run.prog) /\ Furnishes(run.prog, "ops", 0)
      BY <1>6, <3>1, <3>2, <3>3 DEF CharInv, HasOps
    <3> QED
      BY <3>1, <3>4 DEF Furnishes, TameAll, Tame
  <2> QED
    BY <1>6, <2>1, <2>2
<1> QED
  BY <1>3, <1>4, <1>5, <1>6 DEF Gone

(* The handlers that remove stops, of a driver whose probes did not fail.   *)
LEMMA HandlersExcused ==
  ASSUME Guarded, HandlerInv, NEW h \in held, h[1] \in PerKey, Astray(h) \/ OfAnother(h)
  PROVE  Excused
<1>1. drv \in KeyDrivers /\ BoundInv /\ drv \in Drivers
  BY CustodyFacts DEF HandlerInv, HeldFits
<1>2. h[1] \in NotStopped => Excused
  BY DEF Excused
<1>3. drv = "key01" \/ failed => Excused
  BY DEF Excused
<1>4. ASSUME h[1] \notin NotStopped, drv # "key01", ~failed
      PROVE  FALSE
  <2>1. h \in KeyHeld /\ <<"array", 0, h[3]>> \in held
    BY <1>4 DEF KeyHeld, HandlerInv, HeldFits
  <2>2. h[3] = gpk /\ ~Quiet
    BY <1>1, <1>4, <2>1 DEF HandlerInv, CleanHas, Quiet
  <2>3. text["m1"] # "out"
    BY <1>1, <2>2, KeyD DEF BoundInv
  <2> QED
    BY <2>1, <2>2, <2>3 DEF Astray, OfAnother
<1> QED
  BY <1>2, <1>3, <1>4

(* Every operation follows a bad pointer only where it is excused.          *)
LEMMA NextOops ==
  ASSUME Guarded, ClassInv, HandlerInv, CustodyInv, CharInv, UserInv,
         oops => Excused, [Next]_vars, oops'
  PROVE  Excused'
<1>1. UNCHANGED <<drv, binds, failed, text, held, gpk, loads>> => (Excused' <=> Excused)
  BY DEF Excused, HasOps, MayBeGone, Astray, OfAnother, Records, NotStopped
<1>2. CASE oops
  BY <1>1, <1>2, Stopped DEF vars
<1>3. CASE ~oops /\ (ModuleStep \/ BusStep)
  <2>1. UNCHANGED <<drv, binds>>
    BY <1>3 DEF ModuleStep, BusStep
  <2>2. \E c \in {"run", "bus"} : Prog(c) # << >> /\ StepOf(c)
    BY <1>3 DEF ModuleStep, BusStep, Prog
  <2>3. ~Sound'
    BY <1>3, <2>1, <2>2, ClassStays
  <2>4. binds \in Nat /\ CAP \in Nat
    BY CustodyFacts, LifeAssumption DEF DataTypes
  <2>5. ~(binds' <= CAP) => binds' > CAP
    BY <2>1, <2>4
  <2>6. \/ drv' = "led04" \/ (failed' /\ drv' \in Unchecked)
        \/ (drv' \in OpsElsewhere /\ ~(binds' <= CAP))
    BY <2>3 DEF Sound, OpsElsewhere
  <2> QED
    BY <2>5, <2>6 DEF Excused, Unchecked, OpsElsewhere
<1>4. CASE ~oops /\ (Open \/ Use)
  <2>1. /\ Gone \/ MayBeGone
        /\ held' = held
        /\ user = "inside" \/ (HasNode /\ text["m1"] # "going")
    BY <1>4 DEF Open, Use, Calls, HasNode
  <2>2. UNCHANGED <<drv, binds, failed, text, held, gpk, loads>>
    BY <1>4, <2>1, OutsideKeeps DEF Open, Use, Calls
  <2> QED
    BY <1>1, <2>1, <2>2, CallsExcused
<1>5. CASE ~oops /\ (Interrupt \/ HandlerRuns)
  <2>1. PICK h \in held : /\ h[1] \in PerKey /\ held' = held
                          /\ Astray(h) \/ OfAnother(h)
    BY <1>5 DEF Interrupt, HandlerRuns, Handles, PerKey
  <2>2. UNCHANGED <<drv, binds, failed, text, held, gpk, loads>>
    BY <1>5, <2>1, OutsideKeeps DEF Interrupt, HandlerRuns, Handles
  <2> QED
    BY <1>1, <2>1, <2>2, HandlersExcused
<1>6. CASE ~oops /\ ~(ModuleStep \/ BusStep \/ Open \/ Use \/ Interrupt \/ HandlerRuns)
  BY <1>6 DEF Next, ModuleDone, BusDone, Load, Unload, Bind, Unbind, Close, vars
<1> QED
  BY <1>2, <1>3, <1>4, <1>5, <1>6

(* A driver follows a bad pointer only where it is known to: every step of  *)
(* its modules' code, the calls of a process with a node open, and the      *)
(* handlers its interrupts start are covered, in every order of loads,      *)
(* binds, refusals, opens, unbinds, unloads and interrupts.                 *)
THEOREM LifeClass == Spec => []OopsNeedsUnchecked
<1>1. Init => (oops => Excused)
  BY DEF Init
<1>2. /\ Guarded /\ ClassInv /\ HandlerInv /\ CustodyInv /\ CharInv /\ UserInv
      /\ (oops => Excused) /\ [Next]_vars
      => (oops => Excused)'
  BY NextOops
<1>3. (oops => Excused) => OopsNeedsUnchecked
  BY DEF Excused, OopsNeedsUnchecked
<1> QED
  BY <1>1, <1>2, <1>3, AlwaysClass, AlwaysHandlers, AlwaysCalls, LifeCustody, PTL DEF Spec
=============================================================================
