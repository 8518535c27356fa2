---- MODULE VmLifecycleTrace_proofs ----
(***************************************************************************)
(* Theorem about VmLifecycle when its requests are served one at a time    *)
(* and no call fails: nothing is left of a VM that is gone.                *)
(***************************************************************************)
EXTENDS VmLifecycleSerial_proofs

----------------------------------------------------------------------------
(* What is left of a VM: the notifications to come, items and targets *)

\* What comes later in the order of the notifications is still to come.
RankKept(v) ==
  /\ Leaving(v) => events[v] \subseteq {"terminated"} \/ "terminating" \in events[v]
  /\ phase[v] = "gone" => events[v] = {} \/ "terminated" \in events[v]

RankKnown(h) ==
  /\ pc[h] \in LaunchStep /\ Leaving(target[h]) => "terminating" \in events[target[h]]
  /\ pc[h] \in TerminateStep /\ phase[target[h]] = "gone" => "terminated" \in events[target[h]]
  /\ pc[h] = "terminatedItem"
       => phase[target[h]] = "gone" /\ events[target[h]] \subseteq {"terminated"}

RankInv ==
  /\ \A v \in Vm : RankKept(v)
  /\ \A h \in Handler : RankKnown(h)

LEMMA RankStays ==
  ASSUME TypeOK, TypeOK', OneBusy, CleanInv, Quiet, PhaseInv, PreparedInv, RankInv,
         [Next]_vars
  PROVE  RankInv'
<1> USE DEF RankInv, RankKept, RankKnown, Leaving, TypeOK, GroupTypeOK
<1>0. Orderly /\ "call" \notin conf.faults
  BY DEF Quiet
<1>a. {"idle", "terminatedItem"} \cap (LaunchStep \cup TerminateStep) = {}
  BY DEF LaunchStep, AttachStep, NicStep, VpnStep, TerminateStep, DetachStep
<1>1. ASSUME NEW h \in Handler, HandlerStep(h) PROVE RankInv'
  <2> DEFINE v == target[h]
  <2>1. /\ v \in Vm
        /\ \A g \in Handler \ {h} : pc[g] = "idle" /\ pc'[g] = "idle"
        /\ pc'[h] # "idle" => target'[h] = v
    BY <1>0, <1>1, Alone
  <2>2. OwnVm(v) /\ Onward(h) /\ Passes(h, v)
    BY <1>1, StepsOfOne DEF StepOf
  <2>3. \A u \in Vm : RankKept(u)'
    BY <2>1, <2>2 DEF OwnVm, Passes
  <2>4. /\ pc'[h] \in LaunchStep => pc[h] \in LaunchStep
        /\ pc'[h] \in TerminateStep => pc[h] \in TerminateStep
        /\ pc'[h] # "terminatedItem"
    BY <2>2 DEF Onward
  <2>5. pc[h] \in LaunchStep /\ phase'[v] \in {"terminating", "gone"} => "terminating" \in events'[v]
    BY <2>1, <2>2 DEF Passes
  <2>6. pc[h] \in TerminateStep /\ phase'[v] = "gone" => "terminated" \in events'[v]
    BY <2>1, <2>2 DEF Passes
  <2>7. ASSUME NEW g \in Handler PROVE RankKnown(g)'
    BY <1>a, <2>1, <2>4, <2>5, <2>6
  <2> QED
    BY <2>3, <2>7
<1>2. ASSUME NEW h \in Handler, NEW v \in Vm, NEW step \in Step, Begins(h, v, step)
      PROVE  RankInv'
  <2>1. /\ phase' = phase
        /\ \A g \in Handler : pc[g] = "idle"
        /\ pc'[h] = step /\ target'[h] = v
        /\ \A g \in Handler \ {h} : pc'[g] = "idle"
    BY <1>0, <1>2 DEF Begins, Begin, Goto, Free, Orderly
  <2>2. CASE step = "heartbeatItem" /\ events' = events
    BY <1>a, <2>1, <2>2 DEF LaunchStep, AttachStep, NicStep, VpnStep, TerminateStep,
       DetachStep
  <2>3. ASSUME NEW e \in events[v], step = FirstStep(e),
               \A f \in events[v] : Rank(e) <= Rank(f),
               events' = [events EXCEPT ![v] = @ \ {e}] \/ events' = events
        PROVE  RankInv'
    <3>1. e \in Event /\ events[v] \subseteq Event
      OBVIOUS
    <3>2. e = "terminating" => events[v] \subseteq {"terminating", "terminated"}
      BY <2>3, <3>1 DEF Rank, Event
    <3>3. e = "terminated" => events[v] = {"terminated"}
      BY <2>3, <3>1 DEF Rank, Event
    <3>4. \A u \in Vm : RankKept(u)'
      BY <2>1, <2>3, <3>1, <3>2, <3>3
    <3>5. /\ step \in LaunchStep => e = "launching"
          /\ step \in TerminateStep => e = "terminating"
          /\ step = "terminatedItem" => e = "terminated"
      BY <2>3, <3>1 DEF FirstStep, Event, LaunchStep, AttachStep, NicStep, VpnStep,
         TerminateStep, DetachStep
    <3>6. RankKnown(h)'
      BY <2>1, <2>3, <3>1, <3>2, <3>3, <3>5 DEF PhaseInv
    <3>7. \A g \in Handler \ {h} : RankKnown(g)'
      BY <1>a, <2>1
    <3> QED
      BY <3>4, <3>6, <3>7
  <2> QED
    BY <1>2, <2>2, <2>3 DEF Begins
<1>3. ASSUME Outside PROVE RankInv'
  <2>1. UNCHANGED <<pc, target>>
    BY <1>3, OutsideStays DEF localVars
  <2>2. \A v \in Vm : PassesOutside(v)
    BY <1>3, OutsidePasses
  <2> QED
    BY <1>0, <1>a, <2>1, <2>2 DEF PassesOutside
<1>4. CASE UNCHANGED vars
  BY <1>4 DEF vars, localVars, groupVars
<1> QED
  BY <1>0, <1>1, <1>2, <1>3, <1>4, OrderlyNext

LEMMA RankAlways == Spec => [](Quiet => RankInv)
<1>1. Init => RankInv
  BY DEF Init, GroupInit, RankInv, RankKept, RankKnown, Leaving, LaunchStep, AttachStep,
     NicStep, VpnStep, TerminateStep, DetachStep
<1>2. /\ TypeOK /\ TypeOK' /\ OneBusy /\ CleanInv /\ (Orderly => PhaseInv)
      /\ (Quiet => PreparedInv) /\ (Quiet => RankInv) /\ [Next]_vars
      => (Quiet => RankInv)'
  BY RankStays, QuietBefore DEF Quiet
<1> QED
  BY <1>1, <1>2, TypeCorrect, OneBusyAlways, CleanAlways, PhaseAlways, PreparedAlways,
     PTL DEF Spec

----------------------------------------------------------------------------
(* The lifecycle item of a VM, and its place in the target group *)

\* The steps of a termination before the item is written, and before the VM is
\* taken out of the target group.
ToWrite == DetachStep \cup {"outOfSync", "deregister", "existing", "abandonExisting",
                            "createTerminating"}
ToDeregister == DetachStep \cup {"outOfSync", "deregister"}

\* What a VM has of the lifecycle is still to be taken from it.
ItemKept(v) ==
  /\ item[v] # None => phase[v] # "none"
  /\ item[v] # None /\ phase[v] = "gone"
       => "terminated" \in events[v] \/ At(v, {"terminatedItem", "dropItem"})
  /\ item[v] = "launching" /\ Leaving(v) => "terminating" \in events[v] \/ At(v, ToWrite)
  /\ v \in balancer => phase[v] # "none"
  /\ v \in balancer /\ Leaving(v) => "terminating" \in events[v] \/ At(v, ToDeregister)

ItemInv == \A v \in Vm : ItemKept(v)

\* What a step does with the item of its VM, and where it goes from there.
ItemMove(h) ==
  LET v == target[h]
  IN  /\ \/ item'[v] = item[v]
         \/ pc[h] = "createLaunching" /\ item'[v] = "launching"
         \/ pc[h] = "createTerminating" /\ item'[v] = "terminating"
         \/ pc[h] = "dropItem" /\ item'[v] = None
      /\ v \in balancer' => v \in balancer \/ pc[h] = "register"
      /\ pc[h] \in ToWrite => pc'[h] \in ToWrite \/ item'[v] = "terminating"
      /\ pc[h] \in ToDeregister => pc'[h] \in ToDeregister \/ v \notin balancer'
      /\ pc[h] = "terminatedItem" => pc'[h] = "dropItem" \/ item[v] # "terminating"
      /\ pc[h] = "dropItem" => item'[v] = None

\* The steps of the lifecycle, when no call fails.
LEMMA ItemHook ==
  ASSUME TypeOK, "call" \notin conf.faults, NEW h \in Handler, HookMove(h)
  PROVE  ItemMove(h)
<1> USE DEF TypeOK, GroupTypeOK, ItemMove, ToWrite, ToDeregister, DetachStep, Suffer,
  Goto, Finish, itemVars, HookMove
<1>1. CASE Register(h)
  BY <1>1 DEF Register
<1>2. CASE CreateLaunching(h)
  BY <1>2 DEF CreateLaunching
<1>3. CASE Unregister(h)
  BY <1>3 DEF Unregister
<1>4. CASE AbandonLaunch(h)
  BY <1>4 DEF AbandonLaunch, Complete, Refused, Outstanding, Completed, Enter, Announced
<1>5. CASE ReadItem(h)
  BY <1>5 DEF ReadItem
<1>6. CASE Abandon(h)
  BY <1>6 DEF Abandon, Complete, Refused, Outstanding, Completed, Enter, Announced, Hook,
     Phase
<1>7. CASE OutOfSync(h)
  BY <1>7 DEF OutOfSync
<1>8. CASE Deregister(h)
  BY <1>8 DEF Deregister
<1>9. CASE Existing(h)
  BY <1>9 DEF Existing
<1>10. CASE AbandonExisting(h)
  BY <1>10 DEF AbandonExisting, Complete, Refused, Outstanding, Completed, Enter,
     Announced, Hook, Phase
<1>11. CASE CreateTerminating(h)
  BY <1>11 DEF CreateTerminating
<1>12. CASE AbandonTermination(h)
  BY <1>12 DEF AbandonTermination, Complete, Refused, Outstanding, Completed, Enter,
     Announced
<1>13. CASE CompleteTerminating(h)
  BY <1>13 DEF CompleteTerminating, ExpectItem
<1>14. CASE CloseTerminating(h)
  BY <1>14 DEF CloseTerminating, Complete, Refused, Outstanding, Completed, Enter,
     Announced
<1>15. CASE LaunchedItem(h)
  BY <1>15 DEF LaunchedItem, ExpectItem
<1>16. CASE TerminatedItem(h)
  BY <1>16 DEF TerminatedItem, ExpectItem
<1>17. CASE DropItem(h)
  BY <1>17 DEF DropItem
<1>18. CASE HeartbeatItem(h)
  BY <1>18 DEF HeartbeatItem, ExpectItem
<1>19. CASE CompleteLaunching(h)
  BY <1>19 DEF CompleteLaunching, Complete, Refused, Outstanding, Completed, Enter,
     Announced
<1> QED
  BY <1>1, <1>2, <1>3, <1>4, <1>5, <1>6, <1>7, <1>8, <1>9, <1>10, <1>11, <1>12, <1>13,
     <1>14, <1>15, <1>16, <1>17, <1>18, <1>19 DEF HookMove, Launching, Terminating,
     Concluding

LEMMA ItemMoves ==
  ASSUME TypeOK, "call" \notin conf.faults, NEW h \in Handler, HandlerStep(h)
  PROVE  ItemMove(h)
<1>1. CASE NicMove(h) \/ VpnMove(h)
  <2>1. UNCHANGED itemVars
    BY <1>1 DEF NicMove, VpnMove
  <2>2. pc[h] \in NicStep \cup VpnStep
    BY <1>1 DEF NicMove, VpnMove, Attach, Detach, AttachVpn, DetachVpn, NicStep, VpnStep,
       ListNics, CreateNic, TagNic, SetAttaching, AttachNic, SetAttached, RevertNic,
       RevertRecord, ListAttached, DetachNic, DeleteNic, DeleteNicRecord, FindVpn,
       CreateGateway, CreateConnection, RevertGateway, TagVpn, InvokeUpdate, SaveVpn,
       FindAttached, DeleteConnection, DeleteGateway, DeleteVpnRecord
  <2>3. pc[h] \in DetachStep => pc'[h] \in DetachStep \cup {"outOfSync"}
    BY StepsOfOne DEF StepOf, Onward
  <2> QED
    BY <2>1, <2>2, <2>3 DEF ItemMove, ToWrite, ToDeregister, DetachStep, NicStep, VpnStep,
       itemVars
<1>2. CASE HookMove(h)
  BY <1>2, ItemHook
<1> QED
  BY <1>1, <1>2 DEF HandlerStep, NicMove, VpnMove, HookMove

LEMMA ItemStays ==
  ASSUME TypeOK, TypeOK', OneBusy, CleanInv, Quiet, PhaseInv, PreparedInv, RankInv, ItemInv,
         [Next]_vars
  PROVE  ItemInv'
<1> USE DEF TypeOK, GroupTypeOK
<1>0. Orderly /\ "call" \notin conf.faults
  BY DEF Quiet
<1>a. /\ {"launchedItem", "terminatedItem", "dropItem", "heartbeatItem"} \cap ToWrite = {}
      /\ ToDeregister \subseteq ToWrite /\ ToWrite \subseteq TerminateStep
      /\ {"register", "createLaunching"} \subseteq LaunchStep
      /\ "idle" \notin ToWrite
  BY DEF LaunchStep, AttachStep, NicStep, VpnStep, TerminateStep, DetachStep, ToWrite,
     ToDeregister
<1>1. ASSUME NEW h \in Handler, HandlerStep(h) PROVE ItemInv'
  <2>0. PICK v \in Vm : v = target[h]
    BY <1>0, <1>1, Alone
  <2>1. /\ v = target[h]
        /\ \A g \in Handler \ {h} : pc[g] = "idle" /\ pc'[g] = "idle"
        /\ pc'[h] # "idle" => target'[h] = v
        /\ pc[h] # "idle"
    BY <1>0, <1>1, <2>0, Alone, StepsOfOne DEF StepOf, Aside
  <2>2. OwnVm(v) /\ Passes(h, v) /\ ItemMove(h)
    BY <1>0, <1>1, <2>1, StepsOfOne, ItemMoves DEF StepOf
  <2>3. ASSUME NEW u \in Vm \ {v} PROVE ItemKept(u)'
    <3>1. /\ phase'[u] = phase[u] /\ events'[u] = events[u] /\ item'[u] = item[u]
          /\ u \in balancer' <=> u \in balancer
      BY <2>2 DEF OwnVm
    <3>2. ~At(u, ToWrite) /\ ~At(u, ToDeregister) /\ ~At(u, {"terminatedItem", "dropItem"})
      BY <1>a, <2>1 DEF At
    <3> QED
      BY <3>1, <3>2 DEF ItemInv, ItemKept, Leaving
  <2>4. ItemKept(v) /\ RankKept(v) /\ RankKnown(h)
    BY <2>1 DEF ItemInv, RankInv
  <2>5. phase[v] # "none" /\ phase'[v] # "none" /\ events[v] \subseteq events'[v]
    BY <2>1, <2>2 DEF Passes, PhaseInv
  <2>6. item'[v] # None /\ phase'[v] = "gone" =>
          "terminated" \in events'[v] \/ pc'[h] = "dropItem"
    <3> SUFFICES ASSUME item'[v] # None, phase'[v] = "gone", "terminated" \notin events'[v]
                 PROVE  pc'[h] = "dropItem"
      OBVIOUS
    <3>1. phase[v] = "gone" /\ "terminated" \notin events[v] /\ events'[v] = events[v]
      BY <2>2, <2>5 DEF Passes
    <3>2. events[v] = {}
      BY <2>4, <3>1 DEF RankKept
    <3>3. pc[h] \notin LaunchStep /\ pc[h] \notin TerminateStep
      BY <2>1, <2>4, <3>1, <3>2 DEF RankKnown, Leaving
    <3>4. item'[v] = item[v] /\ pc[h] # "dropItem"
      BY <1>a, <2>1, <2>2, <3>3 DEF ItemMove, TerminateStep
    <3>5. pc[h] = "terminatedItem"
      BY <2>1, <2>4, <3>1, <3>4 DEF ItemKept, At
    <3>6. item[v] # "launching"
      BY <1>a, <2>1, <2>4, <3>1, <3>2, <3>3 DEF ItemKept, Leaving, At
    <3> QED
      BY <2>1, <2>2, <3>4, <3>5, <3>6 DEF ItemMove, Hook
  <2>7. item'[v] = "launching" /\ Leaving(v)' => "terminating" \in events'[v] \/ pc'[h] \in ToWrite
    <3> SUFFICES ASSUME item'[v] = "launching", Leaving(v)', "terminating" \notin events'[v]
                 PROVE  pc'[h] \in ToWrite
      OBVIOUS
    <3>1. Leaving(v) /\ "terminating" \notin events[v]
      BY <2>2, <2>5 DEF Passes, Leaving
    <3>2. pc[h] \notin LaunchStep
      BY <2>1, <2>4, <3>1 DEF RankKnown, Leaving
    <3>3. item[v] = "launching"
      BY <1>a, <2>1, <2>2, <3>2, GroupAssumption DEF ItemMove, Phase
    <3>4. pc[h] \in ToWrite
      BY <1>a, <2>1, <2>4, <3>1, <3>3 DEF ItemKept, At
    <3> QED
      BY <2>1, <2>2, <3>4 DEF ItemMove
  <2>8. v \in balancer' /\ Leaving(v)' => "terminating" \in events'[v] \/ pc'[h] \in ToDeregister
    <3> SUFFICES ASSUME v \in balancer', Leaving(v)', "terminating" \notin events'[v]
                 PROVE  pc'[h] \in ToDeregister
      OBVIOUS
    <3>1. Leaving(v) /\ "terminating" \notin events[v]
      BY <2>2, <2>5 DEF Passes, Leaving
    <3>2. pc[h] \notin LaunchStep
      BY <2>1, <2>4, <3>1 DEF RankKnown, Leaving
    <3>3. v \in balancer
      BY <1>a, <2>1, <2>2, <3>2 DEF ItemMove
    <3>4. pc[h] \in ToDeregister
      BY <1>a, <2>1, <2>4, <3>1, <3>3 DEF ItemKept, At
    <3> QED
      BY <2>1, <2>2, <3>4 DEF ItemMove
  <2>9. ItemKept(v)'
    BY <1>a, <2>1, <2>5, <2>6, <2>7, <2>8 DEF ItemKept, At
  <2> QED
    BY <2>3, <2>9 DEF ItemInv
<1>2. ASSUME NEW h \in Handler, NEW v \in Vm, NEW step \in Step, Begins(h, v, step)
      PROVE  ItemInv'
  <2>1. /\ UNCHANGED <<phase, item, balancer>>
        /\ \A g \in Handler : pc[g] = "idle"
        /\ pc'[h] = step /\ target'[h] = v
        /\ \A u \in Vm \ {v} : events'[u] = events[u]
    BY <1>0, <1>2 DEF Begins, Begin, Goto, Free, Orderly
  <2>2. /\ "terminating" \in events[v] => "terminating" \in events'[v] \/ step = "detach"
        /\ "terminated" \in events[v] => "terminated" \in events'[v] \/ step = "terminatedItem"
    BY <1>2 DEF Begins, FirstStep, Event
  <2>3. \A u \in Vm : ~At(u, ToWrite) /\ ~At(u, ToDeregister) /\ ~At(u, {"terminatedItem", "dropItem"})
    BY <1>a, <2>1 DEF At
  <2>4. /\ step = "detach" => At(v, ToWrite)' /\ At(v, ToDeregister)'
        /\ step = "terminatedItem" => At(v, {"terminatedItem", "dropItem"})'
    BY <2>1 DEF At, ToWrite, ToDeregister, DetachStep
  <2> QED
    BY <2>1, <2>2, <2>3, <2>4 DEF ItemInv, ItemKept, Leaving
<1>3. ASSUME Outside PROVE ItemInv'
  <2>1. UNCHANGED <<pc, target, item, balancer>>
    BY <1>3, OutsideStays DEF localVars, itemVars
  <2>2. \A v \in Vm : PassesOutside(v)
    BY <1>3, OutsidePasses
  <2>3. \A v \in Vm :
          /\ events[v] \subseteq events'[v]
          /\ phase[v] # "none" => phase'[v] # "none"
          /\ phase'[v] = "gone" => phase[v] = "gone" \/ "terminated" \in events'[v]
          /\ Leaving(v)' => Leaving(v) \/ "terminating" \in events'[v]
    BY <1>0, <2>2 DEF PassesOutside, Leaving
  <2> QED
    BY <2>1, <2>3 DEF ItemInv, ItemKept, At
<1>4. CASE UNCHANGED vars
  BY <1>4 DEF vars, localVars, groupVars, itemVars, ItemInv, ItemKept, Leaving, At
<1> QED
  BY <1>0, <1>1, <1>2, <1>3, <1>4, OrderlyNext

LEMMA ItemAlways == Spec => [](Quiet => ItemInv)
<1>1. Init => ItemInv
  BY DEF Init, GroupInit, ItemInv, ItemKept, Leaving
<1>2. /\ TypeOK /\ TypeOK' /\ OneBusy /\ CleanInv /\ (Orderly => PhaseInv)
      /\ (Quiet => PreparedInv) /\ (Quiet => RankInv) /\ (Quiet => ItemInv) /\ [Next]_vars
      => (Quiet => ItemInv)'
  BY ItemStays, QuietBefore DEF Quiet
<1> QED
  BY <1>1, <1>2, TypeCorrect, OneBusyAlways, CleanAlways, PhaseAlways, PreparedAlways,
     RankAlways, PTL DEF Spec

----------------------------------------------------------------------------
(* The interface of a VM that is gone *)

\* A deployment gives its VMs interfaces, or connections.
KindInv ==
  /\ conf.attachment = "nic" =>
       /\ gateways = {} /\ \A v \in Vm : vpnRecord[v] = None
       /\ \A h \in Handler : pc[h] \notin VpnStep \ {"detach"}
  /\ conf.attachment = "vpn" =>
       /\ nics = {} /\ \A v \in Vm : nicRecord[v] = None
       /\ \A h \in Handler : pc[h] \notin NicStep \ {"detach"}

\* A handler takes the way of its deployment.
LEMMA KindPath ==
  ASSUME TypeOK, NEW h \in Handler, HandlerStep(h)
  PROVE  /\ pc[h] = "readItem" /\ pc'[h] = "listNics" => conf.attachment # "vpn"
         /\ pc[h] = "readItem" /\ pc'[h] = "findVpn" => conf.attachment = "vpn"
         /\ NicMove(h) => pc[h] \in NicStep \ {"detach"} \/ conf.attachment = "nic"
         /\ VpnMove(h) => pc[h] \in VpnStep \ {"detach"} \/ conf.attachment = "vpn"
<1>1. NicMove(h) => pc[h] \in NicStep \ {"detach"} \/ (conf.attachment = "nic" /\ pc[h] = "detach")
  BY DEF NicMove, Attach, Detach, NicStep, ListNics, CreateNic, TagNic, SetAttaching,
     AttachNic, SetAttached, RevertNic, RevertRecord, ListAttached, DetachNic, DeleteNic,
     DeleteNicRecord
<1>2. VpnMove(h) => pc[h] \in VpnStep \ {"detach"} \/ (conf.attachment = "vpn" /\ pc[h] = "detach")
  BY DEF VpnMove, AttachVpn, DetachVpn, VpnStep, FindVpn, CreateGateway, CreateConnection,
     RevertGateway, TagVpn, InvokeUpdate, SaveVpn, FindAttached, DeleteConnection,
     DeleteGateway, DeleteVpnRecord
<1>3. ASSUME pc[h] = "readItem"
      PROVE  /\ pc'[h] = "listNics" => conf.attachment # "vpn"
             /\ pc'[h] = "findVpn" => conf.attachment = "vpn"
  <2>1. HookMove(h)
    BY <1>1, <1>2, <1>3 DEF HandlerStep, HookMove, NicMove, VpnMove, NicStep, VpnStep
  <2>2. ReadItem(h)
    BY <1>3, <2>1 DEF HookMove, Launching, Terminating, Concluding, Register,
       CreateLaunching, Unregister, AbandonLaunch, Abandon, OutOfSync, Deregister,
       Existing, AbandonExisting, CreateTerminating, AbandonTermination,
       CompleteTerminating, CloseTerminating, LaunchedItem, TerminatedItem, DropItem,
       HeartbeatItem, CompleteLaunching, ExpectItem
  <2> QED
    BY <2>2 DEF ReadItem, Goto, Finish, TypeOK, GroupTypeOK
<1> QED
  BY <1>1, <1>2, <1>3

LEMMA KindStays ==
  ASSUME TypeOK, Orderly, KindInv, [Next]_vars
  PROVE  KindInv'
<1>0. conf' = conf
  BY ConfStays
<1>1. ASSUME NEW h \in Handler, HandlerStep(h) PROVE KindInv'
  <2>0. \A g \in Handler \ {h} : pc'[g] = pc[g]
    BY <1>1, StepsOfOne DEF StepOf, Aside
  <2>1. ASSUME conf.attachment = "nic"
        PROVE  /\ gateways' = {} /\ \A v \in Vm : vpnRecord'[v] = None
               /\ \A g \in Handler : pc'[g] \notin VpnStep \ {"detach"}
    <3>1. ~VpnMove(h)
      BY <1>1, <2>1, KindPath DEF KindInv
    <3> QED
      BY <1>1, <2>0, <2>1, <3>1, KindPath, VpnsAside DEF KindInv, vpnVars
  <2>2. ASSUME conf.attachment = "vpn"
        PROVE  /\ nics' = {} /\ \A v \in Vm : nicRecord'[v] = None
               /\ \A g \in Handler : pc'[g] \notin NicStep \ {"detach"}
    <3>1. ~NicMove(h)
      BY <1>1, <2>2, KindPath DEF KindInv
    <3> QED
      BY <1>1, <2>0, <2>2, <3>1, KindPath, NicsAside DEF KindInv, nicVars
  <2> QED
    BY <1>0, <2>1, <2>2 DEF KindInv
<1>2. ASSUME NEW h \in Handler, NEW v \in Vm, NEW step \in Step, Begins(h, v, step)
      PROVE  KindInv'
  <2>1. UNCHANGED <<nicVars, vpnVars>> /\ \A g \in Handler : pc'[g] \in {pc[g], step}
    BY <1>2 DEF Begins, Begin, Goto, TypeOK, GroupTypeOK
  <2>2. step \notin (NicStep \cup VpnStep) \ {"detach"}
    BY <1>2 DEF Begins, FirstStep, Event, NicStep, VpnStep, TypeOK, GroupTypeOK
  <2> QED
    BY <1>0, <2>1, <2>2 DEF KindInv, nicVars, vpnVars
<1>3. ASSUME Outside PROVE KindInv'
  <2>1. UNCHANGED <<pc, nicRecord, vpnRecord>>
    BY <1>3, OutsideStays DEF localVars
  <2>2. nics' \subseteq nics
    BY <1>3, OutsideNics DEF Gone
  <2>3. gateways' \subseteq gateways
    BY <1>3 DEF Outside, Group, ScaleOut, ScaleIn, HookTimeout, StopScalingGroup, Miss,
       CleanUp, CleanUpNics, CleanUpNic, CleanUpOfVpns, CleanUpVpns, CleanUpVpn, Routes,
       UpdateRoutes, ExtendExecution, GiveUpRoutes, SetRouting, vpnVars, Remove
  <2> QED
    BY <1>0, <2>1, <2>2, <2>3 DEF KindInv
<1>4. CASE UNCHANGED vars
  BY <1>4 DEF vars, localVars, groupVars, nicVars, vpnVars, KindInv
<1> QED
  BY <1>1, <1>2, <1>3, <1>4, OrderlyNext

LEMMA KindAlways == Spec => [](Orderly => KindInv)
<1>1. Init => KindInv
  BY DEF Init, GroupInit, NicInit, VpnInit, KindInv, NicStep, VpnStep
<1>2. TypeOK /\ (Orderly => KindInv) /\ [Next]_vars => (Orderly => KindInv)'
  BY KindStays, ConfStays DEF Orderly
<1> QED
  BY <1>1, <1>2, TypeCorrect, PTL DEF Spec

\* The steps of a termination that take the interface of a VM.
ToDetach == {"detach", "detachNic", "deleteNic", "deleteNicRecord"}

\* A record is of an interface that exists, and is still to be deleted.
RecordLeft(v) ==
  nicRecord[v] # None =>
    /\ phase[v] # "none"
    /\ Leaving(v) => "terminating" \in events[v] \/ At(v, ToDetach)
    /\ nicRecord[v].nic \in nics \/ At(v, {"revertRecord", "deleteNicRecord"})

\* An interface has a record, or is about to get one.
NicLeft(n) ==
  /\ n \in nics =>
       \/ \E v \in Vm : HasRecord(v, n)
       \/ \E h \in Handler : nic[h] = n /\ pc[h] \in {"tagNic", "setAttaching"}
  /\ nicOf[n] # None => HasRecord(nicOf[n], n)

\* The interface that a handler takes is that of the record.
NicTaken(h) ==
  /\ pc[h] \in NicHeld \ {"tagNic", "setAttaching"} => HasRecord(target[h], nic[h])
  /\ pc[h] \in {"revertRecord", "deleteNicRecord"} => nic[h] \notin nics
  /\ pc[h] = "deleteNic" => nicOf[nic[h]] = None

NicLeftInv ==
  /\ \A v \in Vm : RecordLeft(v)
  /\ \A n \in Nic : NicLeft(n)
  /\ \A h \in Handler : NicTaken(h)

\* What a handler works on.
LEMMA NicTakenStep ==
  ASSUME TypeOK, TypeOK', OneBusy, Quiet, PhaseInv, NicInv, PreparedInv,
         NicLeftInv, NEW h \in Handler, NicMove(h)
  PROVE  NicTaken(h)'
<1> PICK v \in Vm : v = target[h]
  BY Alone DEF HandlerStep, NicMove, Quiet
<1>a. /\ \A g \in Handler \ {h} : pc[g] = "idle" /\ pc'[g] = "idle"
      /\ pc'[h] # "idle" => target'[h] = v
  BY Alone DEF HandlerStep, NicMove, Quiet
<1>b. "call" \notin conf.faults /\ Prepared(h) /\ NicKnown(h) /\ NicTaken(h)
  BY DEF Quiet, PreparedInv, NicInv, NicLeftInv
<1>c. /\ RecordLeft(v)
      /\ \A u, w \in Vm, n \in Nic : HasRecord(u, n) /\ HasRecord(w, n) => u = w
  BY DEF NicLeftInv, NicMove, NicInv
<1> USE TypesAssumption, NicAssumption, <1>a, <1>b DEF TypeOK, GroupTypeOK, NicTypeOK,
  NicStep, NicHeld, NicTaken, NicKnown, Prepared, HasRecord, Suffer, Goto, Finish,
  nicVars, NicMove
<1>1. CASE ListNics(h)
  BY <1>1 DEF ListNics
<1>2. CASE CreateNic(h)
  BY <1>2 DEF CreateNic, NewNic
<1>3. CASE TagNic(h)
  BY <1>3 DEF TagNic
<1>4. CASE SetAttaching(h)
  <2>1. Record(nic[h], "Attaching") \in NicRecord /\ Record(nic[h], "Attaching").nic = nic[h]
    BY <1>4 DEF SetAttaching, Record, NicRecord
  <2> QED
    BY <1>4, <2>1 DEF SetAttaching
<1>5. CASE AttachNic(h)
  BY <1>5 DEF AttachNic
<1>6. CASE SetAttached(h)
  BY <1>6 DEF SetAttached, Record, ReleaseNic
<1>7. CASE RevertNic(h)
  <2>1. HasRecord(v, nic[h]) /\ nic[h] \in Nic /\ phase[v] = "gone"
    BY <1>7 DEF RevertNic
  <2>2. nicOf[nic[h]] # None => nicOf[nic[h]] = v
    BY <1>c, <2>1 DEF NicLeftInv, NicLeft
  <2> QED
    BY <1>7, <2>1, <2>2 DEF RevertNic, Gone, InUse
<1>8. CASE RevertRecord(h)
  BY <1>8 DEF RevertRecord, ReleaseNic, HasRecord
<1>9. CASE ListAttached(h)
  BY <1>9 DEF ListAttached, LeaveNic, ReleaseNic
<1>10. CASE DetachNic(h)
  BY <1>10 DEF DetachNic, LeaveNic, ReleaseNic
<1>11. CASE DeleteNic(h)
  BY <1>11 DEF DeleteNic, Gone, LeaveNic, ReleaseNic
<1>12. CASE DeleteNicRecord(h)
  BY <1>12 DEF DeleteNicRecord, LeaveNic, ReleaseNic
<1> QED
  BY <1>1, <1>2, <1>3, <1>4, <1>5, <1>6, <1>7, <1>8, <1>9, <1>10, <1>11, <1>12
     DEF NicMove, Attach, Detach
\* The record of the VM of the step.
LEMMA RecordLeftOwn ==
  ASSUME TypeOK, TypeOK', OneBusy, Quiet, PhaseInv, NicInv, PreparedInv, RankInv,
         NicLeftInv, NEW h \in Handler, NicMove(h)
  PROVE  \A w \in Vm : w = target[h] => RecordLeft(w)'
<1> PICK v \in Vm : v = target[h]
  BY Alone DEF HandlerStep, NicMove, Quiet
<1>a. /\ \A g \in Handler \ {h} : pc[g] = "idle" /\ pc'[g] = "idle"
      /\ pc'[h] # "idle" => target'[h] = v
  BY Alone DEF HandlerStep, NicMove, Quiet
<1>b. "call" \notin conf.faults /\ Prepared(h) /\ NicKnown(h) /\ NicTaken(h)
  BY DEF Quiet, PreparedInv, NicInv, NicLeftInv
<1>c. /\ RecordLeft(v) /\ phase[v] # "none"
      /\ \A u, w \in Vm, n \in Nic : HasRecord(u, n) /\ HasRecord(w, n) => u = w
  BY DEF NicLeftInv, NicInv, PhaseInv, NicMove, Attach, Detach, ListNics, CreateNic,
     TagNic, SetAttaching, AttachNic, SetAttached, RevertNic, RevertRecord, ListAttached,
     DetachNic, DeleteNic, DeleteNicRecord
<1>d. /\ pc[h] \in {"setAttaching", "setAttached"} /\ Leaving(v) => "terminating" \in events[v]
      /\ \A steps \in {ToDetach, {"revertRecord", "deleteNicRecord"}} :
           /\ At(v, steps) => pc[h] \in steps
           /\ pc'[h] \in steps => At(v, steps)'
  BY <1>a DEF RankInv, RankKnown, LaunchStep, AttachStep, NicStep, ToDetach, At
<1> USE TypesAssumption, NicAssumption, <1>a, <1>b, <1>c, <1>d DEF TypeOK, GroupTypeOK,
  NicTypeOK, NicStep, NicHeld, NicTaken, NicKnown, Prepared, HasRecord, Suffer, Goto,
  Finish, nicVars, RecordLeft, Leaving, ToDetach, NicMove
<1>1. CASE ListNics(h)
  BY <1>1 DEF ListNics
<1>2. CASE CreateNic(h)
  BY <1>2 DEF CreateNic, NewNic
<1>3. CASE TagNic(h)
  BY <1>3 DEF TagNic
<1>4. CASE SetAttaching(h)
  <2>1. Record(nic[h], "Attaching") \in NicRecord /\ Record(nic[h], "Attaching").nic = nic[h]
    BY <1>4 DEF SetAttaching, Record, NicRecord
  <2> QED
    BY <1>4, <2>1 DEF SetAttaching
<1>5. CASE AttachNic(h)
  BY <1>5 DEF AttachNic
<1>6. CASE SetAttached(h)
  <2>1. Record(nic[h], "Attached") \in NicRecord /\ Record(nic[h], "Attached").nic = nic[h]
    BY <1>6 DEF SetAttached, Record, NicRecord
  <2> QED
    BY <1>6, <2>1 DEF SetAttached
<1>7. CASE RevertNic(h)
  BY <1>7 DEF RevertNic, Gone
<1>8. CASE RevertRecord(h)
  BY <1>8 DEF RevertRecord, ReleaseNic, HasRecord
<1>9. CASE ListAttached(h)
  BY <1>9 DEF ListAttached, LeaveNic, ReleaseNic
<1>10. CASE DetachNic(h)
  BY <1>10 DEF DetachNic, LeaveNic, ReleaseNic
<1>11. CASE DeleteNic(h)
  <2>1. nic[h] \in nics /\ ~InUse(nic[h])
    BY <1>11 DEF DeleteNic, InUse
  <2> QED
    BY <1>11, <2>1 DEF DeleteNic, Gone
<1>12. CASE DeleteNicRecord(h)
  BY <1>12 DEF DeleteNicRecord, LeaveNic, ReleaseNic
<1> QED
  BY <1>1, <1>2, <1>3, <1>4, <1>5, <1>6, <1>7, <1>8, <1>9, <1>10, <1>11, <1>12
     DEF NicMove, Attach, Detach

\* What they do not touch.
LEMMA NicsGone ==
  ASSUME TypeOK, NEW h \in Handler, NicMove(h)
  PROVE  /\ UNCHANGED <<phase, events>>
         /\ \A n \in nics \ nics' : pc[h] \in {"revertNic", "deleteNic"} /\ n = nic[h]
  BY DEF NicMove, Attach, Detach, ListNics, CreateNic, TagNic, SetAttaching, AttachNic,
     SetAttached, RevertNic, RevertRecord, ListAttached, DetachNic, DeleteNic,
     DeleteNicRecord, Gone, nicVars

\* The interfaces.
LEMMA NicLeftStep ==
  ASSUME TypeOK, TypeOK', OneBusy, Quiet, PhaseInv, NicInv, PreparedInv,
         NicLeftInv, NEW h \in Handler, NicMove(h)
  PROVE  \A n \in Nic : NicLeft(n)'
<1> TAKE n \in Nic
<1> PICK v \in Vm : v = target[h]
  BY Alone DEF HandlerStep, NicMove, Quiet
<1>a. /\ \A g \in Handler \ {h} : pc[g] = "idle" /\ pc'[g] = "idle"
      /\ \A u \in Vm \ {v} : nicRecord'[u] = nicRecord[u]
  BY Alone, StepsOfOne DEF HandlerStep, NicMove, Quiet, StepOf, OwnVm
<1>b. "call" \notin conf.faults /\ Prepared(h) /\ NicKnown(h) /\ NicTaken(h) /\ NicTaken(h)'
  BY NicTakenStep DEF Quiet, PreparedInv, NicInv, NicLeftInv
<1>c. NicLeft(n) /\ \A g \in Handler : pc[g] \in {"tagNic", "setAttaching"} => g = h
  BY <1>a DEF NicLeftInv
<1> USE TypesAssumption, NicAssumption, <1>a, <1>b, <1>c DEF TypeOK, GroupTypeOK,
  NicTypeOK, NicStep, NicHeld, NicTaken, NicKnown, Prepared, HasRecord, Suffer, Goto,
  Finish, nicVars, NicLeft, NicMove
<1>1. CASE ListNics(h)
  BY <1>1 DEF ListNics
<1>2. CASE CreateNic(h)
  BY <1>2 DEF CreateNic, NewNic
<1>3. CASE TagNic(h)
  BY <1>3 DEF TagNic
<1>4. CASE SetAttaching(h)
  <2>1. Record(nic[h], "Attaching") \in NicRecord /\ Record(nic[h], "Attaching").nic = nic[h]
    BY <1>4 DEF SetAttaching, Record, NicRecord
  <2> QED
    BY <1>4, <2>1 DEF SetAttaching
<1>5. CASE AttachNic(h)
  BY <1>5 DEF AttachNic
<1>6. CASE SetAttached(h)
  <2>1. Record(nic[h], "Attached") \in NicRecord /\ Record(nic[h], "Attached").nic = nic[h]
    BY <1>6 DEF SetAttached, Record, NicRecord
  <2> QED
    BY <1>6, <2>1 DEF SetAttached
<1>7. CASE RevertNic(h)
  BY <1>7 DEF RevertNic, Gone
<1>8. CASE RevertRecord(h)
  BY <1>8 DEF RevertRecord, ReleaseNic, HasRecord
<1>9. CASE ListAttached(h)
  BY <1>9 DEF ListAttached, LeaveNic, ReleaseNic
<1>10. CASE DetachNic(h)
  BY <1>10 DEF DetachNic, LeaveNic, ReleaseNic
<1>11. CASE DeleteNic(h)
  BY <1>11 DEF DeleteNic, Gone, LeaveNic, ReleaseNic
<1>12. CASE DeleteNicRecord(h)
  BY <1>12 DEF DeleteNicRecord, LeaveNic, ReleaseNic
<1> QED
  BY <1>1, <1>2, <1>3, <1>4, <1>5, <1>6, <1>7, <1>8, <1>9, <1>10, <1>11, <1>12
     DEF NicMove, Attach, Detach

\* The steps of the lifecycle are not those on an interface or a connection.
LEMMA HookPlace ==
  ASSUME NEW h \in Handler, HookMove(h)
  PROVE  pc[h] \notin NicStep \cup VpnStep
  BY DEF HookMove, Launching, Terminating, Concluding, Register, CreateLaunching,
     Unregister, AbandonLaunch, ReadItem, Abandon, OutOfSync, Deregister, Existing,
     AbandonExisting, CreateTerminating, AbandonTermination, CompleteTerminating,
     CloseTerminating, LaunchedItem, TerminatedItem, DropItem, HeartbeatItem,
     CompleteLaunching, ExpectItem, NicStep, VpnStep

LEMMA NicLeftStays ==
  ASSUME TypeOK, TypeOK', OneBusy, CleanInv, Quiet, PhaseInv, NicInv, PreparedInv, RankInv,
         KindInv, KindInv', NicLeftInv, [Next]_vars
  PROVE  NicLeftInv'
<1> USE DEF TypeOK, GroupTypeOK, NicTypeOK
<1>0. Orderly /\ conf' = conf
  BY ConfStays DEF Quiet
<1>a. "idle" \notin ToDetach \cup {"revertRecord", "deleteNicRecord"} \cup NicHeld
  BY DEF ToDetach, NicHeld, NicStep
<1>1. ASSUME NEW h \in Handler, NicMove(h) PROVE NicLeftInv'
  <2>1. HandlerStep(h)
    BY <1>1 DEF HandlerStep, NicMove
  <2>2. PICK v \in Vm : v = target[h]
    BY <1>0, <2>1, Alone
  <2>3. \A g \in Handler \ {h} : pc[g] = "idle" /\ pc'[g] = "idle"
    BY <1>0, <2>1, Alone
  <2>4. ASSUME NEW u \in Vm \ {v} PROVE RecordLeft(u)'
    <3>1. nicRecord'[u] = nicRecord[u] /\ UNCHANGED <<phase, events>>
      BY <1>1, <2>1, <2>2, StepsOfOne, NicsGone DEF StepOf, OwnVm
    <3>2. ~At(u, ToDetach) /\ ~At(u, {"revertRecord", "deleteNicRecord"})
      BY <1>a, <2>2, <2>3 DEF At
    <3>3. nicRecord[u] # None => nicRecord[u].nic \in nics
      BY <3>2 DEF NicLeftInv, RecordLeft
    <3>4. nicRecord[u] # None /\ pc[h] \in NicHeld => nicRecord[u].nic # nic[h]
      BY <2>2 DEF NicInv, NicKnown, HasRecord
    <3>5. nicRecord[u] # None => nicRecord[u].nic \in nics'
      BY <1>1, <3>3, <3>4, NicsGone DEF NicHeld, NicStep
    <3> QED
      BY <3>1, <3>2, <3>5 DEF NicLeftInv, RecordLeft, Leaving
  <2>5. RecordLeft(v)'
    BY <1>1, <2>2, RecordLeftOwn
  <2>6. \A n \in Nic : NicLeft(n)'
    BY <1>1, NicLeftStep
  <2>7. \A g \in Handler : NicTaken(g)'
    BY <1>1, <1>a, <2>3, NicTakenStep DEF NicTaken
  <2> QED
    BY <2>4, <2>5, <2>6, <2>7 DEF NicLeftInv
<1>2. CASE conf.attachment = "vpn"
  <2>1. /\ nics' = {} /\ \A v \in Vm : nicRecord'[v] = None
        /\ \A g \in Handler : pc'[g] \notin NicHeld
        /\ \A n \in Nic : nicOf'[n] = None
    BY <1>0, <1>2 DEF KindInv, NicHeld
  <2> QED
    BY <2>1 DEF NicLeftInv, RecordLeft, NicLeft, NicTaken, NicHeld, NicStep
<1>3. ASSUME NEW h \in Handler, HandlerStep(h), ~NicMove(h), conf.attachment # "vpn"
      PROVE  NicLeftInv'
  <2>0. conf.attachment = "nic"
    BY <1>3, GroupAssumption DEF Deployment
  <2>1. HookMove(h)
    BY <1>3, <2>0, KindPath DEF KindInv, HandlerStep, HookMove, NicMove, VpnMove
  <2>2. pc[h] \notin NicStep /\ pc'[h] \notin NicHeld /\ UNCHANGED nicVars
    BY <1>3, <2>1, HookPlace, NicsAside DEF NicHeld
  <2>3. PICK v \in Vm : v = target[h]
    BY <1>0, <1>3, Alone
  <2>4. \A g \in Handler \ {h} : pc[g] = "idle" /\ pc'[g] = "idle"
    BY <1>0, <1>3, Alone
  <2>5. OwnVm(v) /\ Passes(h, v) /\ pc[h] # "idle"
    BY <1>3, <2>3, StepsOfOne DEF StepOf, Aside
  <2>6. \A u \in Vm :
          /\ events[u] \subseteq events'[u] /\ (phase[u] # "none" => phase'[u] # "none")
          /\ Leaving(u)' => Leaving(u) \/ "terminating" \in events'[u]
    BY <2>5 DEF OwnVm, Passes, Leaving
  <2>7. \A u \in Vm : ~At(u, ToDetach) /\ ~At(u, {"revertRecord", "deleteNicRecord"})
    BY <1>a, <2>2, <2>4 DEF At, ToDetach, NicStep
  <2>8. \A u \in Vm : RecordLeft(u)'
    BY <2>2, <2>6, <2>7 DEF NicLeftInv, RecordLeft, nicVars
  <2>9. \A n \in Nic : NicLeft(n)'
    BY <2>2, <2>4 DEF NicLeftInv, NicLeft, HasRecord, nicVars, NicStep
  <2>10. \A g \in Handler : NicTaken(g)'
    BY <1>a, <2>2, <2>4 DEF NicTaken, NicHeld, NicStep
  <2> QED
    BY <2>8, <2>9, <2>10 DEF NicLeftInv
<1>4. ASSUME NEW h \in Handler, NEW v \in Vm, NEW step \in Step, Begins(h, v, step)
      PROVE  NicLeftInv'
  <2>1. /\ UNCHANGED <<phase, nicVars>>
        /\ \A g \in Handler : pc[g] = "idle"
        /\ pc'[h] = step /\ target'[h] = v
        /\ \A g \in Handler \ {h} : pc'[g] = "idle"
        /\ \A u \in Vm \ {v} : events'[u] = events[u]
    BY <1>0, <1>4 DEF Begins, Begin, Goto, Free, Orderly
  <2>2. /\ "terminating" \in events[v] => "terminating" \in events'[v] \/ step = "detach"
        /\ step \notin NicHeld
    BY <1>4 DEF Begins, FirstStep, Event, NicHeld, NicStep
  <2>3. \A u \in Vm : ~At(u, ToDetach) /\ ~At(u, {"revertRecord", "deleteNicRecord"})
    BY <1>a, <2>1 DEF At
  <2>4. step = "detach" => At(v, ToDetach)'
    BY <2>1 DEF At, ToDetach
  <2>5. \A u \in Vm : RecordLeft(u)'
    BY <2>1, <2>2, <2>3, <2>4 DEF NicLeftInv, RecordLeft, Leaving, nicVars
  <2>6. \A n \in Nic : NicLeft(n)'
    BY <2>1 DEF NicLeftInv, NicLeft, HasRecord, nicVars
  <2>7. \A g \in Handler : NicTaken(g)'
    BY <1>a, <2>1, <2>2 DEF NicTaken, NicHeld, NicStep
  <2> QED
    BY <2>5, <2>6, <2>7 DEF NicLeftInv
<1>5. ASSUME Outside PROVE NicLeftInv'
  <2>1. UNCHANGED <<pc, target, nic, nicRecord, nics, nicOf>>
    BY <1>5, OutsideStays, QuietOutside DEF localVars
  <2>2. \A v \in Vm : PassesOutside(v)
    BY <1>5, OutsidePasses
  <2>3. \A v \in Vm :
          /\ events[v] \subseteq events'[v] /\ (phase[v] # "none" => phase'[v] # "none")
          /\ Leaving(v)' => Leaving(v) \/ "terminating" \in events'[v]
    BY <2>2 DEF PassesOutside, Leaving, Quiet
  <2> QED
    BY <2>1, <2>3 DEF NicLeftInv, RecordLeft, NicLeft, NicTaken, HasRecord, At
<1>6. CASE UNCHANGED vars
  BY <1>6 DEF vars, localVars, groupVars, nicVars, NicLeftInv, RecordLeft, NicLeft,
     NicTaken, HasRecord, Leaving, At
<1> QED
  BY <1>0, <1>1, <1>2, <1>3, <1>4, <1>5, <1>6, OrderlyNext

LEMMA NicLeftAlways == Spec => [](Quiet => NicLeftInv)
<1>1. Init => NicLeftInv
  BY DEF Init, GroupInit, NicInit, NicLeftInv, RecordLeft, NicLeft, NicTaken, NicHeld,
     NicStep
<1>2. /\ TypeOK /\ TypeOK' /\ OneBusy /\ CleanInv /\ (Orderly => PhaseInv)
      /\ (Orderly => NicInv) /\ (Orderly => KindInv) /\ (Orderly => KindInv)'
      /\ (Quiet => PreparedInv) /\ (Quiet => RankInv) /\ (Quiet => NicLeftInv) /\ [Next]_vars
      => (Quiet => NicLeftInv)'
  BY NicLeftStays, QuietBefore DEF Quiet
<1> QED
  BY <1>1, <1>2, TypeCorrect, OneBusyAlways, CleanAlways, PhaseAlways, NicAlways,
     KindAlways, PreparedAlways, RankAlways, PTL DEF Spec

----------------------------------------------------------------------------
(* The connection of a VM that is gone *)

\* The hooks hold a VM while it is given its connection, and while that is
\* taken from it.
Guarded == Quiet /\ conf.attachment = "vpn" /\ "timeout" \notin conf.faults

ConnectionLeft(v) ==
  /\ "launching" \in events[v] => phase[v] = "launching"
  /\ phase[v] \in {"none", "gone"} => vpnRecord[v] = None
  /\ vpnRecord[v] # None
       => vpnRecord[v] \in connections \/ At(v, {"deleteGateway", "deleteVpnRecord"})

\* A gateway has a record, or is about to get one.
GatewayLeft(c) ==
  c \in gateways =>
    \/ \E v \in Vm : vpnRecord[v] = c
    \/ \E h \in Handler :
         vpn[h] = c /\ pc[h] \in {"createConnection", "tagVpn", "invokeUpdate", "saveVpn"}

\* The connection that a handler takes is that of the record.
VpnTaken(h) ==
  /\ pc[h] \in LaunchStep => phase[target[h]] = "launching"
  /\ pc[h] \in {"createGateway", "createConnection", "tagVpn", "invokeUpdate", "saveVpn"}
       => vpnRecord[target[h]] = None
  /\ pc[h] \in TerminateStep \ DetachStep => vpnRecord[target[h]] = None
  /\ pc[h] \in {"deleteConnection", "deleteGateway", "deleteVpnRecord"}
       => vpnRecord[target[h]] = vpn[h]
  /\ pc[h] = "deleteGateway" => vpn[h] \in gateways \ connections
  /\ pc[h] = "deleteVpnRecord" => vpn[h] \notin gateways

VpnLeftInv ==
  /\ \A v \in Vm : ConnectionLeft(v)
  /\ \A c \in Vpn : GatewayLeft(c)
  /\ \A h \in Handler : VpnTaken(h)

\* What a handler works on.
LEMMA VpnTakenStep ==
  ASSUME TypeOK, TypeOK', OneBusy, Guarded, PhaseInv, VpnInv, PreparedInv,
         VpnLeftInv, NEW h \in Handler, VpnMove(h)
  PROVE  VpnTaken(h)'
<1> PICK v \in Vm : v = target[h]
  BY Alone DEF HandlerStep, VpnMove, Guarded, Quiet
<1>a. /\ \A g \in Handler \ {h} : pc[g] = "idle" /\ pc'[g] = "idle"
      /\ pc'[h] # "idle" => target'[h] = v
      /\ pc[h] # "idle"
  BY Alone, StepsOfOne DEF HandlerStep, VpnMove, Guarded, Quiet, StepOf, Aside
<1>b. /\ "call" \notin conf.faults
      /\ Prepared(h) /\ VpnKnown(h) /\ VpnTaken(h) /\ ConnectionLeft(v) /\ phase[v] # "none"
  BY <1>a DEF Guarded, Quiet, PreparedInv, VpnInv, VpnLeftInv, PhaseInv
<1> USE TypesAssumption, <1>a, <1>b DEF TypeOK, GroupTypeOK, VpnTypeOK, VpnHeld, VpnTaken,
  ConnectionLeft, Prepared, At, LaunchStep, AttachStep, NicStep, VpnStep, TerminateStep,
  DetachStep, Suffer, Goto, Finish, vpnVars, Recorded, VpnMove
<1>1. CASE FindVpn(h)
  BY <1>1 DEF FindVpn
<1>2. CASE CreateGateway(h)
  BY <1>2 DEF CreateGateway, NewVpn, Route
<1>3. CASE CreateConnection(h)
  BY <1>3 DEF CreateConnection
<1>4. CASE RevertGateway(h)
  BY <1>4 DEF RevertGateway, Remove, Deletable, Exists, ReleaseVpn
<1>5. CASE TagVpn(h)
  BY <1>5 DEF TagVpn
<1>6. CASE InvokeUpdate(h)
  BY <1>6 DEF InvokeUpdate, Waiting, ReleaseVpn
<1>7. CASE SaveVpn(h)
  BY <1>7 DEF SaveVpn, ReleaseVpn
<1>8. CASE FindAttached(h)
  BY <1>8 DEF FindAttached, LeaveVpn, ReleaseVpn
<1>9. CASE DeleteConnection(h)
  BY <1>9 DEF DeleteConnection, LeaveVpn, ReleaseVpn, Delete, Remove, Deletable, Exists
<1>10. CASE DeleteGateway(h)
  BY <1>10 DEF DeleteGateway, LeaveVpn, ReleaseVpn, Delete, Remove, Deletable, Exists
<1>11. CASE DeleteVpnRecord(h)
  BY <1>11 DEF DeleteVpnRecord, LeaveVpn, ReleaseVpn
<1> QED
  BY <1>1, <1>2, <1>3, <1>4, <1>5, <1>6, <1>7, <1>8, <1>9, <1>10, <1>11 DEF VpnMove,
     AttachVpn, DetachVpn

\* The record of the VM of the step.
LEMMA ConnectionLeftOwn ==
  ASSUME TypeOK, TypeOK', OneBusy, Guarded, PhaseInv, VpnInv, PreparedInv,
         VpnLeftInv, NEW h \in Handler, VpnMove(h)
  PROVE  \A w \in Vm : w = target[h] => ConnectionLeft(w)'
<1> PICK v \in Vm : v = target[h]
  BY Alone DEF HandlerStep, VpnMove, Guarded, Quiet
<1>a. /\ \A g \in Handler \ {h} : pc[g] = "idle" /\ pc'[g] = "idle"
      /\ pc'[h] # "idle" => target'[h] = v
      /\ pc[h] # "idle"
  BY Alone, StepsOfOne DEF HandlerStep, VpnMove, Guarded, Quiet, StepOf, Aside
<1>b. /\ "call" \notin conf.faults
      /\ Prepared(h) /\ VpnKnown(h) /\ VpnTaken(h) /\ ConnectionLeft(v) /\ phase[v] # "none"
  BY <1>a DEF Guarded, Quiet, PreparedInv, VpnInv, VpnLeftInv, PhaseInv
<1> USE TypesAssumption, <1>a, <1>b DEF TypeOK, GroupTypeOK, VpnTypeOK, VpnHeld, VpnTaken,
  ConnectionLeft, Prepared, At, Leaving, LaunchStep, AttachStep, NicStep, VpnStep,
  TerminateStep, DetachStep, Suffer, Goto, Finish, vpnVars, Recorded, VpnMove
<1>1. CASE FindVpn(h)
  BY <1>1 DEF FindVpn
<1>2. CASE CreateGateway(h)
  BY <1>2 DEF CreateGateway, NewVpn, Route
<1>3. CASE CreateConnection(h)
  BY <1>3 DEF CreateConnection
<1>4. CASE RevertGateway(h)
  BY <1>4 DEF RevertGateway, Remove, Deletable, Exists, ReleaseVpn
<1>5. CASE TagVpn(h)
  BY <1>5 DEF TagVpn
<1>6. CASE InvokeUpdate(h)
  BY <1>6 DEF InvokeUpdate, Waiting, ReleaseVpn
<1>7. CASE SaveVpn(h)
  BY <1>7 DEF SaveVpn, ReleaseVpn
<1>8. CASE FindAttached(h)
  BY <1>8 DEF FindAttached, LeaveVpn, ReleaseVpn
<1>9. CASE DeleteConnection(h)
  BY <1>9 DEF DeleteConnection, LeaveVpn, ReleaseVpn, Delete, Remove, Deletable, Exists
<1>10. CASE DeleteGateway(h)
  BY <1>10 DEF DeleteGateway, LeaveVpn, ReleaseVpn, Delete, Remove, Deletable, Exists
<1>11. CASE DeleteVpnRecord(h)
  BY <1>11 DEF DeleteVpnRecord, LeaveVpn, ReleaseVpn
<1> QED
  BY <1>1, <1>2, <1>3, <1>4, <1>5, <1>6, <1>7, <1>8, <1>9, <1>10, <1>11 DEF VpnMove,
     AttachVpn, DetachVpn

\* What they do not touch.
LEMMA VpnsGone ==
  ASSUME TypeOK, NEW h \in Handler, VpnMove(h)
  PROVE  UNCHANGED <<phase, events>>
  BY DEF VpnMove, AttachVpn, DetachVpn, FindVpn, CreateGateway, CreateConnection,
     RevertGateway, TagVpn, InvokeUpdate, SaveVpn, FindAttached, DeleteConnection,
     DeleteGateway, DeleteVpnRecord, Delete

\* The gateways.
LEMMA GatewayLeftStep ==
  ASSUME TypeOK, TypeOK', OneBusy, Guarded, PhaseInv, VpnInv, PreparedInv,
         VpnLeftInv, NEW h \in Handler, VpnMove(h)
  PROVE  \A c \in Vpn : GatewayLeft(c)'
<1> TAKE c \in Vpn
<1> PICK v \in Vm : v = target[h]
  BY Alone DEF HandlerStep, VpnMove, Guarded, Quiet
<1>a. /\ \A g \in Handler \ {h} : pc[g] = "idle" /\ pc'[g] = "idle" /\ vpn'[g] = vpn[g]
      /\ \A u \in Vm \ {v} : vpnRecord'[u] = vpnRecord[u]
  BY Alone, StepsOfOne DEF HandlerStep, VpnMove, Guarded, Quiet, StepOf, Aside, OwnVm
<1>b. "call" \notin conf.faults /\ Prepared(h) /\ VpnTaken(h)
  BY DEF Guarded, Quiet, PreparedInv, VpnLeftInv
<1>c. GatewayLeft(c) /\ \A g \in Handler : pc[g] # "idle" => g = h
  BY <1>a DEF VpnLeftInv
<1> USE TypesAssumption, <1>a, <1>b, <1>c DEF TypeOK, GroupTypeOK, VpnTypeOK, VpnHeld,
  VpnTaken, GatewayLeft, Prepared, VpnStep, Suffer, Goto, Finish, vpnVars, VpnMove
<1>1. CASE FindVpn(h)
  BY <1>1 DEF FindVpn
<1>2. CASE CreateGateway(h)
  BY <1>2 DEF CreateGateway, NewVpn, Route
<1>3. CASE CreateConnection(h)
  BY <1>3 DEF CreateConnection
<1>4. CASE RevertGateway(h)
  BY <1>4 DEF RevertGateway, Remove, Deletable, Exists, ReleaseVpn
<1>5. CASE TagVpn(h)
  BY <1>5 DEF TagVpn
<1>6. CASE InvokeUpdate(h)
  BY <1>6 DEF InvokeUpdate, Waiting, ReleaseVpn
<1>7. CASE SaveVpn(h)
  BY <1>7 DEF SaveVpn, ReleaseVpn
<1>8. CASE FindAttached(h)
  BY <1>8 DEF FindAttached, LeaveVpn, ReleaseVpn
<1>9. CASE DeleteConnection(h)
  BY <1>9 DEF DeleteConnection, LeaveVpn, ReleaseVpn, Delete, Remove, Deletable, Exists
<1>10. CASE DeleteGateway(h)
  BY <1>10 DEF DeleteGateway, LeaveVpn, ReleaseVpn, Delete, Remove, Deletable, Exists
<1>11. CASE DeleteVpnRecord(h)
  BY <1>11 DEF DeleteVpnRecord, LeaveVpn, ReleaseVpn
<1> QED
  BY <1>1, <1>2, <1>3, <1>4, <1>5, <1>6, <1>7, <1>8, <1>9, <1>10, <1>11 DEF VpnMove,
     AttachVpn, DetachVpn

LEMMA VpnLeftStays ==
  ASSUME TypeOK, TypeOK', OneBusy, CleanInv, Guarded, PhaseInv, VpnInv, PreparedInv,
         KindInv, VpnLeftInv, [Next]_vars
  PROVE  VpnLeftInv'
<1> USE DEF TypeOK, GroupTypeOK, VpnTypeOK
<1>0. /\ Quiet /\ Orderly /\ conf.attachment = "vpn"
      /\ "call" \notin conf.faults /\ "timeout" \notin conf.faults
  BY DEF Guarded, Quiet
<1>a. /\ "idle" \notin {"deleteGateway", "deleteVpnRecord"} \cup LaunchStep \cup TerminateStep
      /\ {"abandonExisting", "closeTerminating"} \subseteq TerminateStep \ DetachStep
      /\ "abandon" \in LaunchStep /\ "completeLaunching" \in HeartbeatStep \ LaunchStep
      /\ LaunchStep \cap TerminateStep = {}
  BY DEF LaunchStep, AttachStep, NicStep, VpnStep, TerminateStep, DetachStep,
     HeartbeatStep
<1>1. ASSUME NEW h \in Handler, VpnMove(h) PROVE VpnLeftInv'
  <2>1. HandlerStep(h)
    BY <1>1 DEF HandlerStep, VpnMove
  <2>2. PICK v \in Vm : v = target[h]
    BY <1>0, <2>1, Alone
  <2>3. \A g \in Handler \ {h} : pc[g] = "idle" /\ pc'[g] = "idle"
    BY <1>0, <2>1, Alone
  <2>4. ASSUME NEW u \in Vm \ {v} PROVE ConnectionLeft(u)'
    <3>1. vpnRecord'[u] = vpnRecord[u] /\ UNCHANGED <<phase, events>>
      BY <1>1, <2>1, <2>2, StepsOfOne, VpnsGone DEF StepOf, OwnVm
    <3>2. ~At(u, {"deleteGateway", "deleteVpnRecord"})
      BY <1>a, <2>2, <2>3 DEF At
    <3>3. vpnRecord[u] # None => vpnRecord[u] \in connections
      BY <3>2 DEF VpnLeftInv, ConnectionLeft
    <3>4. vpnRecord[u] # None => vpnRecord[u] \in connections'
      BY <1>1, <2>2, <3>3, OwnVpnOnly DEF OwnVpn, VpnInv, VpnKnown, VpnHeld, VpnStep
    <3> QED
      BY <3>1, <3>2, <3>4 DEF VpnLeftInv, ConnectionLeft
  <2>5. ConnectionLeft(v)'
    BY <1>1, <2>2, ConnectionLeftOwn
  <2>6. \A c \in Vpn : GatewayLeft(c)'
    BY <1>1, GatewayLeftStep
  <2>7. VpnTaken(h)'
    BY <1>1, VpnTakenStep
  <2>8. \A g \in Handler \ {h} : VpnTaken(g)'
    BY <1>a, <2>3 DEF VpnTaken
  <2> QED
    BY <2>4, <2>5, <2>6, <2>7, <2>8 DEF VpnLeftInv
<1>2. ASSUME NEW h \in Handler, HandlerStep(h), ~VpnMove(h) PROVE VpnLeftInv'
  <2>1. HookMove(h)
    BY <1>0, <1>2, KindPath DEF KindInv, HandlerStep, HookMove, NicMove, VpnMove
  <2>2. /\ pc[h] \notin NicStep \cup VpnStep /\ UNCHANGED vpnVars
        /\ pc'[h] \in VpnStep => pc'[h] = "findVpn"
    BY <1>2, <2>1, HookPlace, VpnsAside
  <2>3. PICK v \in Vm : v = target[h]
    BY <1>0, <1>2, Alone
  <2>4. /\ \A g \in Handler \ {h} : pc[g] = "idle" /\ pc'[g] = "idle"
        /\ pc'[h] # "idle" => target'[h] = v
        /\ pc[h] # "idle"
    BY <1>0, <1>2, <2>3, Alone, StepsOfOne DEF StepOf, Aside
  <2>5. OwnVm(v) /\ Passes(h, v) /\ Onward(h)
    BY <1>2, <2>3, StepsOfOne DEF StepOf
  <2>6. /\ Prepared(h) /\ VpnTaken(h) /\ ConnectionLeft(v)
        /\ pc[h] \in TerminateStep => Leaving(v)
        /\ pc[h] \in HeartbeatStep => "launching" \notin events[v]
    BY <2>3 DEF PreparedInv, VpnLeftInv, PhaseInv
  <2>7. pc[h] \notin {"abandonLaunch", "abandon", "abandonTermination"}
    BY <1>a, <2>3, <2>6 DEF Prepared, VpnTaken
  <2>8. ConnectionLeft(v)'
    <3>1. "launching" \in events'[v] => phase'[v] = "launching"
      BY <1>a, <2>5, <2>6, <2>7 DEF Passes, ConnectionLeft, Leaving
    <3>2. phase'[v] \in {"none", "gone"} => vpnRecord'[v] = None
      BY <1>a, <2>2, <2>3, <2>5, <2>6, <2>7 DEF Passes, ConnectionLeft, VpnTaken, vpnVars
    <3>3. ~At(v, {"deleteGateway", "deleteVpnRecord"})
      BY <1>a, <2>2, <2>4 DEF At, VpnStep
    <3> QED
      BY <2>2, <2>6, <3>1, <3>2, <3>3 DEF ConnectionLeft, vpnVars
  <2>9. ASSUME NEW u \in Vm \ {v} PROVE ConnectionLeft(u)'
    <3>1. ~At(u, {"deleteGateway", "deleteVpnRecord"})
      BY <1>a, <2>3, <2>4 DEF At
    <3> QED
      BY <2>2, <2>5, <3>1 DEF VpnLeftInv, ConnectionLeft, OwnVm, vpnVars
  <2>10. \A c \in Vpn : GatewayLeft(c)'
    BY <2>2, <2>4 DEF VpnLeftInv, GatewayLeft, vpnVars, VpnStep
  <2>11. VpnTaken(h)'
    <3>1. pc'[h] \in LaunchStep => phase'[v] = "launching"
      BY <1>a, <2>3, <2>5, <2>6, <2>7 DEF Passes, Onward, VpnTaken
    <3>2. pc'[h] \in TerminateStep \ DetachStep => vpnRecord[v] = None
      BY <2>2, <2>3, <2>5, <2>6 DEF Onward, VpnTaken, DetachStep, NicStep, VpnStep
    <3>3. pc'[h] \notin {"createGateway", "createConnection", "tagVpn", "invokeUpdate", "saveVpn",
                         "deleteConnection", "deleteGateway", "deleteVpnRecord"}
      BY <2>2 DEF VpnStep
    <3> QED
      BY <1>a, <2>2, <2>4, <3>1, <3>2, <3>3 DEF VpnTaken, vpnVars
  <2>12. \A g \in Handler \ {h} : VpnTaken(g)'
    BY <1>a, <2>4 DEF VpnTaken
  <2> QED
    BY <2>8, <2>9, <2>10, <2>11, <2>12 DEF VpnLeftInv
<1>3. ASSUME NEW h \in Handler, NEW v \in Vm, NEW step \in Step, Begins(h, v, step)
      PROVE  VpnLeftInv'
  <2>1. /\ UNCHANGED <<phase, vpnVars>>
        /\ \A g \in Handler : pc[g] = "idle"
        /\ pc'[h] = step /\ target'[h] = v
        /\ \A g \in Handler \ {h} : pc'[g] = "idle"
        /\ \A u \in Vm : events'[u] \subseteq events[u]
    BY <1>0, <1>3 DEF Begins, Begin, Goto, Free, Orderly
  <2>2. /\ step \in LaunchStep => "launching" \in events[v]
        /\ step \notin (TerminateStep \ DetachStep) \cup (VpnStep \ {"detach"})
    BY <1>3 DEF Begins, FirstStep, Event, LaunchStep, AttachStep, NicStep, VpnStep,
       TerminateStep, DetachStep
  <2>3. \A u \in Vm : ~At(u, {"deleteGateway", "deleteVpnRecord"})
    BY <1>a, <2>1 DEF At
  <2>4. \A u \in Vm : ConnectionLeft(u)'
    BY <2>1, <2>3 DEF VpnLeftInv, ConnectionLeft, vpnVars
  <2>5. \A c \in Vpn : GatewayLeft(c)'
    BY <2>1 DEF VpnLeftInv, GatewayLeft, vpnVars
  <2>6. VpnTaken(h)'
    BY <2>1, <2>2 DEF VpnLeftInv, ConnectionLeft, VpnTaken, VpnStep
  <2>7. \A g \in Handler \ {h} : VpnTaken(g)'
    BY <1>a, <2>1 DEF VpnTaken
  <2> QED
    BY <2>4, <2>5, <2>6, <2>7 DEF VpnLeftInv
<1>4. ASSUME Outside PROVE VpnLeftInv'
  <2>1. UNCHANGED <<pc, target, vpn, vpnRecord, gateways, connections>>
    BY <1>0, <1>4, OutsideStays, QuietOutside DEF localVars
  <2>2. \A v \in Vm : PassesOutside(v)
    BY <1>4, OutsidePasses
  <2>3. \A v \in Vm :
          /\ phase[v] = "launching" => phase'[v] = "launching"
          /\ phase'[v] \in {"none", "gone"} => phase[v] \in {"none", "gone"}
          /\ "launching" \in events'[v] => "launching" \in events[v] \/ phase'[v] = "launching"
    BY <1>0, <2>2 DEF PassesOutside
  <2>4. \A v \in Vm : ConnectionLeft(v)'
    BY <2>1, <2>3 DEF VpnLeftInv, ConnectionLeft, At
  <2>5. \A c \in Vpn : GatewayLeft(c)'
    BY <2>1 DEF VpnLeftInv, GatewayLeft
  <2>6. \A h \in Handler : VpnTaken(h)'
    BY <1>a, <2>1, <2>3 DEF VpnLeftInv, VpnTaken
  <2> QED
    BY <2>4, <2>5, <2>6 DEF VpnLeftInv
<1>5. CASE UNCHANGED vars
  BY <1>5 DEF vars, localVars, groupVars, vpnVars, VpnLeftInv, ConnectionLeft,
     GatewayLeft, VpnTaken, At
<1> QED
  BY <1>0, <1>1, <1>2, <1>3, <1>4, <1>5, OrderlyNext

LEMMA VpnLeftAlways == Spec => [](Guarded => VpnLeftInv)
<1>1. Init => VpnLeftInv
  BY DEF Init, GroupInit, VpnInit, VpnLeftInv, ConnectionLeft, GatewayLeft, VpnTaken,
     LaunchStep, AttachStep, NicStep, VpnStep, TerminateStep, DetachStep
<1>2. /\ TypeOK /\ TypeOK' /\ OneBusy /\ CleanInv /\ (Orderly => PhaseInv)
      /\ (Orderly => VpnInv) /\ (Orderly => KindInv) /\ (Quiet => PreparedInv)
      /\ (Guarded => VpnLeftInv) /\ [Next]_vars
      => (Guarded => VpnLeftInv)'
  BY VpnLeftStays, QuietBefore, ConfStays DEF Guarded, Quiet
<1> QED
  BY <1>1, <1>2, TypeCorrect, OneBusyAlways, CleanAlways, PhaseAlways, VpnAlways,
     KindAlways, PreparedAlways, PTL DEF Spec

----------------------------------------------------------------------------

\* When the last VM is gone and everything about it was handled, nothing of it
\* is left: no lifecycle item, load balancer target, interface, gateway or
\* record. The handlers may run in any interleaving with the scaling group, its
\* notifications may come twice, and for interfaces the hooks may time out.
THEOREM NothingLeft == Spec => []LeavesNoTrace
<1>1. /\ TypeOK /\ (Orderly => KindInv) /\ (Quiet => ItemInv) /\ (Quiet => NicLeftInv)
      /\ (Guarded => VpnLeftInv)
      => LeavesNoTrace
  <2> SUFFICES ASSUME TypeOK, Orderly, KindInv, Quiet, ItemInv, NicLeftInv,
                      Guarded => VpnLeftInv,
                      conf.attachment = "vpn" => "timeout" \notin conf.faults,
                      \A v \in Vm : phase[v] \in {"none", "gone"} /\ Settled(v)
               PROVE  /\ \A v \in Vm : item[v] = None /\ nicRecord[v] = None /\ vpnRecord[v] = None
                      /\ balancer = {}
                      /\ nics = {}
                      /\ gateways = {}
    BY GroupAssumption DEF LeavesNoTrace, OnlyFaults, Orderly, Quiet, TypeOK, GroupTypeOK,
       Deployment
  <2>1. \A v \in Vm : events[v] = {}
    BY DEF Settled
  <2>2. \A h \in Handler : pc[h] = "idle"
    BY DEF Settled, Serving, TypeOK, GroupTypeOK
  <2>3. \A v \in Vm : item[v] = None /\ v \notin balancer
    BY <2>1, <2>2 DEF ItemInv, ItemKept, Leaving, At, ToDeregister, DetachStep
  <2>4. \A v \in Vm : nicRecord[v] = None
    BY <2>1, <2>2 DEF NicLeftInv, RecordLeft, Leaving, At, ToDetach
  <2>5. nics = {}
    BY <2>2, <2>4 DEF NicLeftInv, NicLeft, HasRecord, TypeOK, NicTypeOK
  <2>6. gateways = {} /\ \A v \in Vm : vpnRecord[v] = None
    <3>1. CASE conf.attachment = "vpn"
      <4>1. VpnLeftInv
        BY <3>1 DEF Guarded
      <4>2. \A v \in Vm : vpnRecord[v] = None
        BY <4>1 DEF VpnLeftInv, ConnectionLeft
      <4>3. \A c \in Vpn : c \notin gateways
        BY <2>2, <4>1, <4>2, VpnAssumption DEF VpnLeftInv, GatewayLeft
      <4> QED
        BY <4>2, <4>3 DEF TypeOK, VpnTypeOK
    <3>2. CASE conf.attachment # "vpn"
      BY <3>2, GroupAssumption DEF KindInv, TypeOK, GroupTypeOK, Deployment
    <3> QED
      BY <3>1, <3>2
  <2> QED
    BY <2>3, <2>4, <2>5, <2>6 DEF TypeOK
<1> QED
  BY <1>1, TypeCorrect, KindAlways, ItemAlways, NicLeftAlways, VpnLeftAlways, PTL
====
