----------------------------- MODULE KeyPrograms -----------------------------
(***************************************************************************)
(* keys_probe and keys_remove of the ten key drivers, with the loading and *)
(* unloading around them.  Each stage repeats the last one with a change.  *)
(***************************************************************************)
EXTENDS DriverPrograms, KeyStages

\* of_gpio_count must be positive; then the array is allocated.
Begin == <<Read, Do("kzalloc")>>

\* Stages 02 to 10 make one node, and undo no more than the number.
Nodes == <<Need("chrdev", 0, {}), Need("class", 0, {"chrdev"}), Take("node", 0)>>
NoNodes ==
  <<Drop("node", 0), Drop("class", 0), Drop("chrdev", 0), Do("kfree")>>

\* What one key needs: its gpio and its interrupt; from stage 07 on a timer,
\* added with an expiry that has passed, and a tasklet; from stage 08 on a
\* work item.  Initialising those two takes nothing from the kernel.
KeyIrq(k) == <<Read, Need("line", k, {})>>
KeyTimed(k) == <<Read, Make("timer", k), Need("line", k, {})>>

keys_probe01 == Begin \o For(NKeys, KeyIrq)
keys_probe02 == Begin \o For(NKeys, KeyIrq) \o Nodes
keys_probe03 == keys_probe02
keys_probe04 == keys_probe02
keys_probe05 == keys_probe02
keys_probe06 == keys_probe02
keys_probe07 == Begin \o For(NKeys, KeyTimed) \o Nodes
keys_probe08 == keys_probe07
keys_probe09 == keys_probe07
keys_probe10 == keys_probe07

\* free_irq gets the loop index for an interrupt number: it frees nothing of
\* ours, and the array stays too.
keys_remove01 == <<Do("free_irq_of_another")>>

\* free_irq also waits for the handler thread.
FreeIrq(k) == <<Drop("line", k), Await("thread", k)>>
FreeTimed(k) == FreeIrq(k) \o <<Drop("timer", k)>>
FreeAll(k) == FreeIrq(k) \o <<Drop("timer", k), Await("task", k)>>
keys_remove02 == For(NKeys, FreeIrq) \o NoNodes
keys_remove03 == keys_remove02
keys_remove04 == keys_remove02
keys_remove05 == keys_remove02
keys_remove06 == keys_remove02
keys_remove07 == For(NKeys, FreeTimed) \o NoNodes

\* (Faulty form: the interrupt is freed after what it starts is stopped.)
IrqLast(k) == <<Drop("timer", k), Await("task", k)>> \o FreeIrq(k)
keys_remove_irq_last == For(NKeys, IrqLast) \o NoNodes

keys_remove08 == For(NKeys, FreeAll) \o NoNodes
keys_remove09 == keys_remove08
keys_remove10 == keys_remove08

\* The driver core probes and removes; the module only registers.
keys_driver01 ==
  [init |-> <<Make("pdrv", 0)>>, exit |-> <<Do("unbind"), Drop("pdrv", 0)>>]
keys_driver02 == keys_driver01
keys_driver03 == keys_driver01
keys_driver04 == keys_driver01
keys_driver05 == keys_driver01
keys_driver06 == keys_driver01
keys_driver07 == keys_driver01
keys_driver08 == keys_driver01
keys_driver09 == keys_driver01
keys_driver10 == keys_driver01

keys_probe == <<keys_probe01, keys_probe02, keys_probe03, keys_probe04,
                keys_probe05, keys_probe06, keys_probe07, keys_probe08,
                keys_probe09, keys_probe10>>
keys_remove == <<keys_remove01, keys_remove02, keys_remove03, keys_remove04,
                 keys_remove05, keys_remove06, keys_remove07, keys_remove08,
                 keys_remove09, keys_remove10>>
keys_driver == <<keys_driver01, keys_driver02, keys_driver03, keys_driver04,
                 keys_driver05, keys_driver06, keys_driver07, keys_driver08,
                 keys_driver09, keys_driver10>>

\* The handlers an interrupt starts, besides taking the key itself before
\* stage 07: read off keys_irq.
StartedBy == [timer |-> "mod_timer", task |-> "tasklet_schedule",
              work |-> "schedule_work", thread |-> "wake_thread"]
Starts == [s \in Stages |-> {h \in DOMAIN StartedBy :
                               StartedBy[h] \in ToSet(keys_irq[s])}]
=============================================================================
