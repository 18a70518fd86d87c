-------------------------- MODULE KeyLifecycleProofs --------------------------
(***************************************************************************)
(* Safety of probe and remove, for every number of keys and of probes.     *)
(***************************************************************************)
EXTENDS KeyLifecycle, TLAPS

USE DEF vars, nodeVars

Probing == {"gpio", "request"}
LinesOwned == {"chrdev", "class", "device", "bound"}
Stopping == {"free_irq", "synchronize", "del_timer", "tasklet_kill"}
Stopped == {"nodes", "kfree"}

\* Arrays are numbered as they are allocated, and the current one is live
\* until remove frees it.
ArraysInv ==
  /\ \A a \in Arrays : array[a] = "none" <=> a > g_p_keys
  /\ pc # "unbound" => array[g_p_keys] = "live"

\* What keys_remove has achieved for a key it is done with.
Silent(k) == line[k] = 0 /\ pending[g_p_keys][k] \subseteq {"work"}

\* How far the loops of probe and remove have come: which keys have their
\* line, which are silent, and what the calls for key i have stopped so far.
LoopInv ==
  /\ pc \in Probing => \A k \in KeyIndex : k < i => line[k] = g_p_keys
  /\ pc \in LinesOwned => \A k \in KeyIndex : line[k] = g_p_keys
  /\ pc \in Stopping =>
       \A k \in KeyIndex : /\ k < i => Silent(k)
                           /\ k > i => line[k] = g_p_keys
  /\ pc = "free_irq" => line[i] = g_p_keys
  /\ pc \in {"synchronize", "del_timer", "tasklet_kill"} => line[i] = 0
  /\ pc \in {"del_timer", "tasklet_kill"} => "thread" \notin pending[g_p_keys][i]
  /\ pc = "tasklet_kill" => "timer" \notin pending[g_p_keys][i]
  /\ pc \in Stopped => \A k \in KeyIndex : Silent(k)

\* Which registrations exist at which place.
NodesInv ==
  /\ pc \in {"unbound", "gpio", "request", "chrdev"} => ~chrdev
  /\ pc \in {"unbound", "gpio", "request", "chrdev", "class"} => ~class
  /\ pc \in {"unbound", "gpio", "request", "chrdev", "class", "device", "kfree"}
       => ~device
  /\ pc = "kfree" => ~chrdev /\ ~class
  /\ pc \in {"class", "device", "bound"} => chrdev
  /\ pc \in {"device", "bound"} => class

LifeInv ==
  TypeOK /\ ArraysInv /\ LoopInv /\ NodesInv /\ LineOwnerLives /\ OnlyWorkOutlives

-----------------------------------------------------------------------------
(* Before the first probe there is nothing to own and nothing to leak.     *)
LEMMA InitLifeInv == Init => LifeInv
<1> SUFFICES ASSUME Init PROVE LifeInv
  OBVIOUS
<1>1. TypeOK
  <2>1. pending \in [Arrays -> [KeyIndex -> SUBSET Handlers]]
    BY DEF Init
  <2>2. array \in [Arrays -> {"none", "live", "freed"}]
        /\ line \in [KeyIndex -> 0 .. MaxProbes]
    BY LifecycleAssumption DEF Init
  <2>3. g_p_keys \in 0 .. MaxProbes /\ i \in 1 .. NKeys + 1
    BY LifecycleAssumption DEF Init
  <2>4. chrdev \in BOOLEAN /\ class \in BOOLEAN /\ device \in BOOLEAN
    BY DEF Init
  <2>5. /\ pc \in Places
        /\ pc \notin {"gpio", "request", "free_irq", "synchronize",
                      "del_timer", "tasklet_kill"}
        /\ pc = "unbound"
    BY DEF Init, Places
  <2>6. QED
    BY <2>1, <2>2, <2>3, <2>4, <2>5 DEF TypeOK
<1>2. ArraysInv /\ LoopInv /\ NodesInv
  BY DEF Init, ArraysInv, LoopInv, NodesInv, Arrays, Probing, LinesOwned,
     Stopping, Stopped
<1>3. LineOwnerLives /\ OnlyWorkOutlives
  BY DEF Init, LineOwnerLives, OnlyWorkOutlives
<1>4. QED
  BY <1>1, <1>2, <1>3 DEF LifeInv

(* The order of the teardown calls, place by place.                        *)
LEMMA TeardownOrder ==
  /\ DOMAIN Teardown = 1 .. 4 /\ Len(Teardown) = 4
  /\ Teardown[1] = "free_irq" /\ Teardown[2] = "synchronize"
  /\ Teardown[3] = "del_timer" /\ Teardown[4] = "tasklet_kill"
BY DEF Teardown

(* A new probe starts from a new array that nobody refers to yet.          *)
LEMMA AllocKeepsInv ==
  ASSUME LifeInv, ProbeAlloc
  PROVE  LifeInv'
<1> USE DEF ProbeAlloc, LifeInv
<1>1. g_p_keys + 1 \in Arrays /\ array[g_p_keys + 1] = "none"
  BY LifecycleAssumption DEF ArraysInv, TypeOK, Arrays
<1>2. TypeOK'
  BY <1>1, LifecycleAssumption DEF TypeOK, Arrays, KeyIndex, Places
<1>3. ArraysInv'
  BY <1>1 DEF TypeOK, Arrays, ArraysInv
<1>4. LoopInv' /\ NodesInv'
  BY DEF LoopInv, NodesInv, KeyIndex, Probing, LinesOwned, Stopping, Stopped
<1>5. LineOwnerLives' /\ OnlyWorkOutlives'
  BY <1>1 DEF TypeOK, LineOwnerLives, OnlyWorkOutlives, Arrays
<1>6. QED
  BY <1>2, <1>3, <1>4, <1>5


(* A probe that goes wrong frees nothing, but takes back its registrations *)
(* (lines 203-213).                                                        *)
LEMMA ProbeKeepsInv ==
  ASSUME LifeInv, Probe
  PROVE  LifeInv'
<1> USE DEF LifeInv, Out
<1>1. CASE ProbeAlloc
  BY <1>1, AllocKeepsInv
<1>2. CASE ProbeGpio
  <2>1. pending' \in [Arrays -> [KeyIndex -> SUBSET Handlers]]
    BY <1>2 DEF ProbeGpio, TypeOK, Handlers
  <2>2. TypeOK'
    BY <1>2, <2>1 DEF ProbeGpio, TypeOK, Places
  <2>3. ArraysInv' /\ NodesInv'
    BY <1>2 DEF ProbeGpio, ArraysInv, NodesInv
  <2>4. LoopInv'
    BY <1>2 DEF ProbeGpio, LoopInv, Probing, LinesOwned, Stopping, Stopped
  <2>5. LineOwnerLives' /\ OnlyWorkOutlives'
    BY <1>2 DEF ProbeGpio, TypeOK, ArraysInv, LineOwnerLives, OnlyWorkOutlives
  <2>6. QED
    BY <2>2, <2>3, <2>4, <2>5
<1>3. CASE ProbeRequest
  <2>1. TypeOK'
    BY <1>3, LifecycleAssumption
       DEF ProbeRequest, LastKey, TypeOK, Places, KeyIndex, Arrays
  <2>2. ArraysInv' /\ NodesInv'
    BY <1>3 DEF ProbeRequest, LastKey, ArraysInv, NodesInv
  <2>3. LoopInv'
    BY <1>3, LifecycleAssumption
       DEF ProbeRequest, LastKey, LoopInv, TypeOK, KeyIndex, Probing,
           LinesOwned, Stopping, Stopped
  <2>4. LineOwnerLives' /\ OnlyWorkOutlives'
    BY <1>3 DEF ProbeRequest, TypeOK, ArraysInv, LineOwnerLives, OnlyWorkOutlives
  <2>5. QED
    BY <2>1, <2>2, <2>3, <2>4
<1>4. CASE ProbeChrdev \/ ProbeClass \/ ProbeDevice
  <2> USE DEF ProbeChrdev, ProbeClass, ProbeDevice
  <2>1. TypeOK'
    BY <1>4 DEF TypeOK, Places, ChrdevAfterClassFailure
  <2>2. ArraysInv' /\ NodesInv'
    BY <1>4 DEF ArraysInv, NodesInv, ChrdevAfterClassFailure
  <2>3. LoopInv'
    BY <1>4 DEF LoopInv, Probing, LinesOwned, Stopping, Stopped
  <2>4. LineOwnerLives' /\ OnlyWorkOutlives'
    BY <1>4 DEF LineOwnerLives, OnlyWorkOutlives
  <2>5. QED
    BY <2>1, <2>2, <2>3, <2>4
<1>5. QED
  BY <1>1, <1>2, <1>3, <1>4 DEF Probe

(* free_irq, del_timer and tasklet_kill, in this order, silence one key.   *)
LEMMA RemoveKeyKeepsInv ==
  ASSUME LifeInv, NEW n \in DOMAIN Teardown, RemoveKey(n)
  PROVE  LifeInv'
<1> USE DEF LifeInv
<1>1. /\ g_p_keys \in Arrays /\ i \in KeyIndex
      /\ pc \in Stopping /\ array[g_p_keys] = "live"
      /\ pc' \in Stopping \cup {"nodes"}
      /\ UNCHANGED <<g_p_keys, array, nodeVars>>
  BY TeardownOrder DEF RemoveKey, TypeOK, ArraysInv, Stopping
<1>2. /\ i' \in 1 .. NKeys + 1
      /\ pc' \in Stopping => i' \in KeyIndex
  BY <1>1, TeardownOrder, LifecycleAssumption
     DEF RemoveKey, TypeOK, Stopping, KeyIndex
<1>3. /\ line' \in [KeyIndex -> 0 .. MaxProbes]
      /\ \A k \in KeyIndex : line'[k] = line[k] \/ line'[k] = 0
      /\ \A k \in KeyIndex : k # i => line'[k] = line[k]
  BY <1>1, LifecycleAssumption DEF RemoveKey, Effect, TypeOK
<1>4. /\ pending' \in [Arrays -> [KeyIndex -> SUBSET Handlers]]
      /\ \A a \in Arrays, k \in KeyIndex : pending'[a][k] \subseteq pending[a][k]
      /\ UNCHANGED pending \/ pending' = [pending EXCEPT ![g_p_keys][i] = @ \ {"timer"}]
  BY <1>1 DEF RemoveKey, Effect, TypeOK
<1>5. TypeOK'
  BY <1>1, <1>2, <1>3, <1>4 DEF TypeOK, Stopping, Places
<1>6. ArraysInv' /\ NodesInv'
  BY <1>1 DEF ArraysInv, NodesInv, Stopping, RemoveKey
<1>7. LineOwnerLives' /\ OnlyWorkOutlives'
  BY <1>1, <1>3, <1>4 DEF LineOwnerLives, OnlyWorkOutlives
<1>8. LoopInv'
  <2>1. \A k \in KeyIndex : Silent(k) => Silent(k)'
    BY <1>1, <1>3, <1>4 DEF Silent
  <2>2. CASE n = 1
    <3>1. /\ pc = "free_irq" /\ pc' = "synchronize" /\ i' = i /\ line'[i] = 0
      BY <2>2, TeardownOrder, <1>1 DEF RemoveKey, Effect, TypeOK
    <3>2. QED
      BY <3>1, <2>1, <1>1, <1>3
         DEF LoopInv, Probing, LinesOwned, Stopping, Stopped, KeyIndex
  <2>3. CASE n = 2
    <3>1. /\ pc = "synchronize" /\ pc' = "del_timer" /\ i' = i
          /\ UNCHANGED <<line, pending>> /\ "thread" \notin pending[g_p_keys][i]
      BY <2>3, TeardownOrder DEF RemoveKey, Effect
    <3>2. QED
      BY <3>1, <2>1, <1>1 DEF LoopInv, Probing, LinesOwned, Stopping, Stopped
  <2>4. CASE n = 3
    <3>1. /\ pc = "del_timer" /\ pc' = "tasklet_kill" /\ i' = i
          /\ UNCHANGED line /\ "timer" \notin pending'[g_p_keys][i]
      BY <2>4, TeardownOrder, <1>1 DEF RemoveKey, Effect, TypeOK
    <3>2. QED
      BY <3>1, <2>1, <1>1, <1>4 DEF LoopInv, Probing, LinesOwned, Stopping, Stopped
  <2>5. CASE n = 4
    <3>1. /\ pc = "tasklet_kill" /\ i' = i + 1
          /\ pc' = IF i = NKeys THEN "nodes" ELSE "free_irq"
          /\ UNCHANGED <<line, pending>> /\ "task" \notin pending[g_p_keys][i]
      BY <2>5, TeardownOrder DEF RemoveKey, Effect
    <3>2. line[i] = 0 /\ pending[g_p_keys][i] \subseteq Handlers
          /\ {"thread", "timer", "task"} \cap pending[g_p_keys][i] = {}
      BY <3>1, <1>1 DEF LoopInv, TypeOK
    <3>3. Silent(i)
      BY <3>2 DEF Silent, Handlers
    <3>4. \A k \in KeyIndex : k < i + 1 => Silent(k)
      BY <3>1, <3>3, <1>1 DEF LoopInv, Stopping, KeyIndex, TypeOK
    <3>5. \A k \in KeyIndex : k < i' => Silent(k)'
      BY <3>1, <3>4, <2>1
    <3>6. QED
      BY <3>1, <3>5, <1>1, <1>2, LifecycleAssumption
         DEF LoopInv, Probing, LinesOwned, Stopping, Stopped, KeyIndex
  <2>6. QED
    BY <2>2, <2>3, <2>4, <2>5, TeardownOrder
<1>9. QED
  BY <1>5, <1>6, <1>7, <1>8


(* The rest of remove: when the array is freed every key of it is silent.  *)
LEMMA RemoveEndsKeepInv ==
  ASSUME LifeInv, RemoveStart \/ RemoveNodes \/ RemoveFree
  PROVE  LifeInv'
<1> USE DEF LifeInv
<1>1. CASE RemoveStart
  <2>1. TypeOK'
    BY <1>1, TeardownOrder, LifecycleAssumption
       DEF RemoveStart, TypeOK, Places, KeyIndex
  <2>2. ArraysInv' /\ NodesInv' /\ LineOwnerLives' /\ OnlyWorkOutlives'
    BY <1>1, TeardownOrder DEF RemoveStart, ArraysInv, NodesInv, LineOwnerLives,
       OnlyWorkOutlives
  <2>3. LoopInv'
    BY <1>1, TeardownOrder, LifecycleAssumption
       DEF RemoveStart, LoopInv, Probing, LinesOwned, Stopping, Stopped, KeyIndex
  <2>4. QED
    BY <2>1, <2>2, <2>3
<1>2. CASE RemoveNodes
  <2>1. TypeOK'
    BY <1>2 DEF RemoveNodes, TypeOK, Places
  <2>2. ArraysInv' /\ NodesInv' /\ LineOwnerLives' /\ OnlyWorkOutlives'
    BY <1>2 DEF RemoveNodes, ArraysInv, NodesInv, LineOwnerLives, OnlyWorkOutlives
  <2>3. LoopInv'
    BY <1>2 DEF RemoveNodes, LoopInv, Silent, Probing, LinesOwned, Stopping, Stopped
  <2>4. QED
    BY <2>1, <2>2, <2>3
<1>3. CASE RemoveFree
  <2>1. TypeOK'
    BY <1>3 DEF RemoveFree, TypeOK, Places
  <2>2. ArraysInv' /\ NodesInv'
    BY <1>3 DEF RemoveFree, TypeOK, ArraysInv, NodesInv
  <2>3. LineOwnerLives' /\ OnlyWorkOutlives'
    BY <1>3 DEF RemoveFree, TypeOK, LoopInv, Silent, Stopped, LineOwnerLives,
       OnlyWorkOutlives
  <2>4. LoopInv'
    BY <1>3 DEF RemoveFree, LoopInv, Probing, LinesOwned, Stopping, Stopped
  <2>5. QED
    BY <2>1, <2>2, <2>3, <2>4
<1>4. QED
  BY <1>1, <1>2, <1>3

(* An interrupt starts handlers only on an array that owns its line.       *)
LEMMA InterruptKeepsInv ==
  ASSUME LifeInv, NEW k \in KeyIndex, keys_irq(k)
  PROVE  LifeInv'
<1> USE DEF LifeInv, keys_irq
<1>1. line[k] \in Arrays /\ array[line[k]] = "live"
  BY DEF TypeOK, LineOwnerLives, Arrays
<1>2. /\ pending' \in [Arrays -> [KeyIndex -> SUBSET Handlers]]
      /\ \A a \in Arrays, j \in KeyIndex :
           a # line[k] \/ j # k => pending'[a][j] = pending[a][j]
  BY <1>1 DEF TypeOK
<1>3. TypeOK' /\ ArraysInv' /\ NodesInv' /\ LineOwnerLives'
  BY <1>2 DEF TypeOK, ArraysInv, NodesInv, LineOwnerLives
<1>4. OnlyWorkOutlives'
  BY <1>1, <1>2 DEF OnlyWorkOutlives
<1>5. \A j \in KeyIndex : line[j] = 0 /\ g_p_keys \in Arrays
                           => pending'[g_p_keys][j] = pending[g_p_keys][j]
  BY <1>2
<1>6. pc \in Stopping \cup Stopped => g_p_keys \in Arrays
  BY DEF TypeOK, Stopping, Stopped
<1>7. pc \in Stopping => i \in KeyIndex
  BY DEF TypeOK, Stopping
<1>8. LoopInv'
  BY <1>5, <1>6, <1>7 DEF LoopInv, Silent, Probing, LinesOwned, Stopping, Stopped
<1>9. QED
  BY <1>3, <1>4, <1>8

(* A handler that runs is no longer pending; the invariant only ever asks  *)
(* for handlers not to be pending.                                         *)
LEMMA HandlerKeepsInv ==
  ASSUME LifeInv, NEW h \in Handlers, NEW a \in Arrays, NEW k \in KeyIndex,
         RunHandler(h, a, k)
  PROVE  LifeInv'
<1> USE DEF LifeInv, RunHandler
<1>1. /\ pending' \in [Arrays -> [KeyIndex -> SUBSET Handlers]]
      /\ \A b \in Arrays, j \in KeyIndex : pending'[b][j] \subseteq pending[b][j]
  BY DEF TypeOK
<1>2. TypeOK' /\ ArraysInv' /\ NodesInv' /\ LineOwnerLives'
  BY <1>1 DEF TypeOK, ArraysInv, NodesInv, LineOwnerLives
<1>3. OnlyWorkOutlives'
  BY <1>1 DEF OnlyWorkOutlives
<1>4. pc \in Stopping \cup Stopped => g_p_keys \in Arrays
  BY DEF TypeOK, Stopping, Stopped
<1>5. pc \in Stopping => i \in KeyIndex
  BY DEF TypeOK, Stopping
<1>6. LoopInv'
  BY <1>1, <1>4, <1>5 DEF LoopInv, Silent, Probing, LinesOwned, Stopping, Stopped
<1>7. QED
  BY <1>2, <1>3, <1>6

(* Every step keeps the invariant.                                         *)
LEMMA NextKeepsInv == LifeInv /\ [Next]_vars => LifeInv'
<1>1. LifeInv /\ UNCHANGED vars => LifeInv'
  BY DEF LifeInv, TypeOK, ArraysInv, LoopInv, Silent, NodesInv, LineOwnerLives,
         OnlyWorkOutlives
<1>2. QED
  BY <1>1, ProbeKeepsInv, RemoveKeyKeepsInv, RemoveEndsKeepInv,
     InterruptKeepsInv, HandlerKeepsInv
     DEF Next, RemoveStep, Interrupt, Deferred

(* The inductive invariant of probe, remove, interrupts and handlers.      *)
THEOREM LifecycleSafe == Spec => []LifeInv
BY InitLifeInv, NextKeepsInv, PTL DEF Spec

(* Types, and a loop variable inside the array, for any number of keys.    *)
THEOREM LifecycleTypeCorrect == Spec => []TypeOK
<1>1. LifeInv => TypeOK
  BY DEF LifeInv
<1>2. QED
  BY <1>1, LifecycleSafe, PTL

(* Timer, tasklet and interrupt thread never run on a freed array: the     *)
(* order free_irq, del_timer, tasklet_kill (lines 233-235) suffices.       *)
THEOREM OnlyTheWorkOutlives == Spec => []OnlyWorkOutlives
<1>1. LifeInv => OnlyWorkOutlives
  BY DEF LifeInv
<1>2. QED
  BY <1>1, LifecycleSafe, PTL

(* No interrupt is ever delivered with a freed dev_id, failed probes       *)
(* included.                                                               *)
THEOREM LineOwnersLive == Spec => []LineOwnerLives
<1>1. LifeInv => LineOwnerLives
  BY DEF LifeInv
<1>2. QED
  BY <1>1, LifecycleSafe, PTL

(* An unbound device has no char device, class or node (lines 203-213).    *)
THEOREM UnboundHasNoNode == Spec => []NoNodeUnbound
<1>1. LifeInv => NoNodeUnbound
  BY DEF LifeInv, NodesInv, NoNodeUnbound
<1>2. QED
  BY <1>1, LifecycleSafe, PTL

(* A probe that reports success has every line of every key.               *)
THEOREM BoundHasAll == Spec => []BoundIsComplete
<1>1. LifeInv => BoundIsComplete
  BY DEF LifeInv, NodesInv, LoopInv, LinesOwned, BoundIsComplete
<1>2. QED
  BY <1>1, LifecycleSafe, PTL

(* A line leaked by a failed probe stays leaked and no later probe binds   *)
(* the driver (lines 176-200).                                             *)
THEOREM LeaksAreForever == Spec => LeakIsForever
<1>1. LifeInv /\ [Next]_vars => (Leaked => Leaked' /\ pc' # "bound")
  <2> SUFFICES ASSUME LifeInv, [Next]_vars, Leaked
               PROVE  Leaked' /\ pc' # "bound"
    OBVIOUS
  <2>1. PICK k \in KeyIndex : line[k] # 0 /\ (pc = "unbound" \/ line[k] # g_p_keys)
    BY DEF Leaked
  <2>2. pc \in {"unbound", "gpio", "request"}
    BY <2>1 DEF LifeInv, LoopInv, Silent, TypeOK, Places, LinesOwned, Stopping,
       Stopped, KeyIndex
  <2>3. line[k] \in 1 .. g_p_keys
    BY <2>1 DEF LifeInv, TypeOK, ArraysInv, LineOwnerLives, Arrays
  <2>4. ~ RemoveStart /\ ~ RemoveStep
    BY <2>2, TeardownOrder DEF RemoveStart, RemoveStep, RemoveKey, RemoveNodes,
       RemoveFree
  <2>5. CASE Interrupt \/ Deferred \/ UNCHANGED vars
    BY <2>1, <2>2, <2>5 DEF Interrupt, keys_irq, Deferred, RunHandler, Leaked
  <2>6. CASE Probe
    <3>1. CASE ProbeAlloc
      BY <2>1, <2>3, <3>1 DEF ProbeAlloc, Leaked, LifeInv, TypeOK
    <3>2. CASE ProbeGpio
      BY <2>1, <3>2 DEF ProbeGpio, Out, Leaked
    <3>3. CASE ProbeRequest
      <4>1. k \in KeyIndex /\ line'[k] = line[k]
        BY <2>1, <3>3 DEF ProbeRequest, Out, LineIsFree, LifeInv, TypeOK
      <4>2. pc' # "bound" /\ (pc' = "unbound" \/ g_p_keys' = g_p_keys)
        BY <3>3 DEF ProbeRequest, Out
      <4>3. QED
        BY <2>1, <3>3, <4>1, <4>2 DEF ProbeRequest, Leaked
    <3>4. QED
      BY <2>2, <2>6, <3>1, <3>2, <3>3 DEF Probe, ProbeChrdev, ProbeClass, ProbeDevice
  <2>7. QED
    BY <2>4, <2>5, <2>6 DEF Next
<1>2. QED
  BY <1>1, LifecycleSafe, PTL DEF Spec, LeakIsForever
=============================================================================
