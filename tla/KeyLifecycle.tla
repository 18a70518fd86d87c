----------------------------- MODULE KeyLifecycle -----------------------------
(***************************************************************************)
(* Binding and unbinding the key driver: keys_probe and keys_remove of     *)
(* src/06_gpio_irq/10_.../key_drv.c (lines 161-244) run by the driver      *)
(* core, while interrupts of the lines already requested start handlers    *)
(* that use the array g_p_keys.  Every probe allocates a new array; arrays *)
(* are numbered in that order, and 0 stands for the null pointer.          *)
(***************************************************************************)
EXTENDS Integers, Sequences

CONSTANTS
  NKeys,       \* keys of the device-tree node
  MaxProbes    \* bound: how often the driver core calls keys_probe

ASSUME LifecycleAssumption == NKeys \in Nat \ {0} /\ MaxProbes \in Nat \ {0}

KeyIndex == 1 .. NKeys
Arrays == 1 .. MaxProbes
Handlers == {"timer", "task", "work", "thread"}

VARIABLES
  g_p_keys,    \* the array the global pointer names, freed or not
  array,       \* array[a]: "none", "live" or "freed"
  line,        \* line[i]: the array whose key i owns the interrupt line, or 0
  pending,     \* pending[a][i]: handlers armed or scheduled for key i of a
  chrdev, class, device,    \* registered with the kernel
  pc,          \* where the driver core's call is
  i            \* the loop variable of probe and remove

nodeVars == <<chrdev, class, device>>
vars == <<g_p_keys, array, line, pending, nodeVars, pc, i>>

Init ==
  /\ g_p_keys = 0
  /\ array = [a \in Arrays |-> "none"]
  /\ line = [k \in KeyIndex |-> 0]
  /\ pending = [a \in Arrays |-> [k \in KeyIndex |-> {}]]
  /\ chrdev = FALSE /\ class = FALSE /\ device = FALSE
  /\ pc = "unbound" /\ i = 1

-----------------------------------------------------------------------------
(* keys_probe.  The label out frees nothing.                               *)

Out == pc' = "unbound" /\ UNCHANGED <<g_p_keys, array, line, i>>

ProbeAlloc ==
  /\ pc = "unbound" /\ g_p_keys < MaxProbes
  /\ g_p_keys' = g_p_keys + 1
  /\ array' = [array EXCEPT ![g_p_keys + 1] = "live"]
  /\ pc' = "gpio" /\ i' = 1
  /\ UNCHANGED <<line, pending, nodeVars>>

\* of_get_gpio_flags may fail; otherwise the key's timer is armed before its
\* interrupt is requested.
ProbeGpio ==
  /\ pc = "gpio"
  /\ \/ Out /\ UNCHANGED pending
     \/ /\ pending' = [pending EXCEPT ![g_p_keys][i] = {"timer"}]
        /\ pc' = "request"
        /\ UNCHANGED <<g_p_keys, array, line, i>>
  /\ UNCHANGED nodeVars

\* request_threaded_irq without IRQF_SHARED refuses a line that has an owner.
LineIsFree(k) == line[k] = 0

\* (Faulty form: the loop runs once too often.)
LastKeyTooLate(k) == k > NKeys

LastKey(k) == k = NKeys

ProbeRequest ==
  /\ pc = "request"
  /\ \/ Out
     \/ /\ LineIsFree(i)
        /\ line' = [line EXCEPT ![i] = g_p_keys]
        /\ pc' = IF LastKey(i) THEN "chrdev" ELSE "gpio"
        /\ i' = i + 1
        /\ UNCHANGED <<g_p_keys, array>>
  /\ UNCHANGED <<pending, nodeVars>>

ProbeChrdev ==
  /\ pc = "chrdev"
  /\ \/ Out /\ UNCHANGED chrdev
     \/ /\ chrdev' = TRUE /\ pc' = "class"
        /\ UNCHANGED <<g_p_keys, array, line, i>>
  /\ UNCHANGED <<pending, class, device>>

ChrdevAfterClassFailure == FALSE

ProbeClass ==
  /\ pc = "class"
  /\ \/ Out /\ chrdev' = ChrdevAfterClassFailure /\ UNCHANGED class
     \/ /\ class' = TRUE /\ pc' = "device"
        /\ UNCHANGED <<chrdev, g_p_keys, array, line, i>>
  /\ UNCHANGED <<pending, device>>

\* Nobody looks at what device_create returned.
ProbeDevice ==
  /\ pc = "device"
  /\ device' \in BOOLEAN
  /\ pc' = "bound"
  /\ UNCHANGED <<g_p_keys, array, line, pending, chrdev, class, i>>

-----------------------------------------------------------------------------
(* keys_remove, called for a bound device only.                            *)

\* (Faulty forms: the interrupt is freed last, or not at all.)
TeardownIrqLast == <<"del_timer", "tasklet_kill", "free_irq", "synchronize">>
TeardownKeepsIrq == <<"synchronize", "del_timer", "tasklet_kill">>

\* The calls for one key, in their order; free_irq unlinks the handler, then
\* waits for the handler thread.
Teardown == <<"free_irq", "synchronize", "del_timer", "tasklet_kill">>

RemoveStart ==
  /\ pc = "bound"
  /\ pc' = Teardown[1] /\ i' = 1
  /\ UNCHANGED <<g_p_keys, array, line, pending, nodeVars>>

Effect(call) ==
  \/ /\ call = "free_irq"
     /\ line' = [line EXCEPT ![i] = 0]
     /\ UNCHANGED pending
  \/ /\ call = "synchronize"
     /\ "thread" \notin pending[g_p_keys][i]
     /\ UNCHANGED <<line, pending>>
  \/ /\ call = "del_timer"
     /\ pending' = [pending EXCEPT ![g_p_keys][i] = @ \ {"timer"}]
     /\ UNCHANGED line
  \/ /\ call = "tasklet_kill"
     /\ "task" \notin pending[g_p_keys][i]
     /\ UNCHANGED <<line, pending>>

RemoveKey(n) ==
  /\ pc = Teardown[n]
  /\ Effect(Teardown[n])
  /\ IF n < Len(Teardown)
       THEN pc' = Teardown[n + 1] /\ UNCHANGED i
       ELSE /\ pc' = IF i = NKeys THEN "nodes" ELSE Teardown[1]
            /\ i' = i + 1
  /\ UNCHANGED <<g_p_keys, array, nodeVars>>

RemoveNodes ==
  /\ pc = "nodes"
  /\ device' = FALSE /\ class' = FALSE /\ chrdev' = FALSE
  /\ pc' = "kfree"
  /\ UNCHANGED <<g_p_keys, array, line, pending, i>>

\* The pointer keeps its value.
RemoveFree ==
  /\ pc = "kfree"
  /\ array' = [array EXCEPT ![g_p_keys] = "freed"]
  /\ pc' = "unbound"
  /\ UNCHANGED <<g_p_keys, line, pending, nodeVars, i>>

-----------------------------------------------------------------------------
(* Handlers.                                                               *)

keys_irq(k) ==
  /\ line[k] # 0
  /\ pending' = [pending EXCEPT ![line[k]][k] = Handlers]
  /\ UNCHANGED <<g_p_keys, array, line, nodeVars, pc, i>>

RunHandler(h, a, k) ==
  /\ h \in pending[a][k]
  /\ pending' = [pending EXCEPT ![a][k] = @ \ {h}]
  /\ UNCHANGED <<g_p_keys, array, line, nodeVars, pc, i>>

Probe == \/ ProbeAlloc \/ ProbeGpio \/ ProbeRequest
         \/ ProbeChrdev \/ ProbeClass \/ ProbeDevice
RemoveStep == (\E n \in DOMAIN Teardown : RemoveKey(n)) \/ RemoveNodes \/ RemoveFree
Interrupt == \E k \in KeyIndex : keys_irq(k)
Deferred == \E h \in Handlers, a \in Arrays, k \in KeyIndex : RunHandler(h, a, k)

Next == Probe \/ RemoveStart \/ RemoveStep \/ Interrupt \/ Deferred

Spec == Init /\ [][Next]_vars

\* The kernel runs what is armed or scheduled, and the driver core's thread.
Fairness ==
  /\ WF_vars(RemoveStep)
  /\ \A h \in Handlers, a \in Arrays, k \in KeyIndex : WF_vars(RunHandler(h, a, k))

FairSpec == Spec /\ Fairness

-----------------------------------------------------------------------------
Places == {"unbound", "gpio", "request", "chrdev", "class", "device", "bound",
           "free_irq", "synchronize", "del_timer", "tasklet_kill", "nodes", "kfree"}

(* Types; the loop variable indexes a key wherever the loop body runs.     *)
TypeOK ==
  /\ g_p_keys \in 0 .. MaxProbes
  /\ array \in [Arrays -> {"none", "live", "freed"}]
  /\ line \in [KeyIndex -> 0 .. MaxProbes]
  /\ pending \in [Arrays -> [KeyIndex -> SUBSET Handlers]]
  /\ chrdev \in BOOLEAN /\ class \in BOOLEAN /\ device \in BOOLEAN
  /\ pc \in Places
  /\ i \in 1 .. NKeys + 1
  /\ pc \in {"gpio", "request", "free_irq", "synchronize", "del_timer", "tasklet_kill"}
       => i \in KeyIndex
  /\ pc # "unbound" => g_p_keys \in Arrays

(* Of the four handlers an interrupt starts only the work item can run     *)
(* after kfree: nothing cancels it (lines 231-241), while free_irq,        *)
(* del_timer and tasklet_kill, in this order, stop the other three.        *)
OnlyWorkOutlives ==
  \A a \in Arrays, k \in KeyIndex :
    array[a] = "freed" => pending[a][k] \subseteq {"work"}

(* An interrupt line always belongs to an array that still exists: no      *)
(* interrupt is delivered with a freed dev_id.                             *)
LineOwnerLives ==
  \A k \in KeyIndex : line[k] # 0 => array[line[k]] = "live"

(* A device node exists only between a successful probe and its remove:    *)
(* every failing probe takes back the char device and the class it made    *)
(* (lines 203-213).                                                        *)
NoNodeUnbound == pc = "unbound" => ~chrdev /\ ~class /\ ~device

(* A probe that reports success owns the line of every key, registered the *)
(* char device and the class, and left no older array owning a line.       *)
BoundIsComplete ==
  pc = "bound" =>
    /\ chrdev /\ class
    /\ \A k \in KeyIndex : line[k] = g_p_keys

\* A failed probe left a line with an array no call will ever free.
Leaked == \E k \in KeyIndex : /\ line[k] # 0
                              /\ pc = "unbound" \/ line[k] # g_p_keys

(* An interrupt line that a failed probe leaves requested (lines 176-200,  *)
(* label out) is never given back, and no later probe binds the driver.    *)
LeakIsForever == [][Leaked => Leaked' /\ pc' # "bound"]_vars

(* keys_remove comes to its end: nothing re-arms what it waits for once    *)
(* the line is free (lines 233-235).                                       *)
RemoveFinishes == pc = Teardown[1] ~> pc = "unbound"
===============================================================================
