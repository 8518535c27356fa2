---- MODULE VmLifecycleSerial_proofs ----
(***************************************************************************)
(* Theorems about VmLifecycle when its requests are served one at a time,  *)
(* in the order of their notifications, and run to their end: what a       *)
(* launch gives to a VM, and what is left when the VM is gone.             *)
(***************************************************************************)
EXTENDS VmLifecycle_proofs

----------------------------------------------------------------------------
(* What a step of one handler leaves alone *)

NicMove(h) == (Attach(h) \/ Detach(h)) /\ UNCHANGED <<vpnVars, itemVars>>
VpnMove(h) == (AttachVpn(h) \/ DetachVpn(h)) /\ UNCHANGED <<nicVars, itemVars>>
HookMove(h) == Launching(h) \/ Terminating(h) \/ Concluding(h)

AttachStep == (NicStep \cup VpnStep) \ {"detach", "detachNic", "deleteNic", "deleteNicRecord",
                                        "deleteConnection", "deleteGateway", "deleteVpnRecord"}

DetachStep == {"detach", "detachNic", "deleteNic", "deleteNicRecord",
               "deleteConnection", "deleteGateway", "deleteVpnRecord"}

LaunchStep ==
  AttachStep \cup
  {"register", "createLaunching", "unregister", "abandonLaunch", "readItem", "abandon"}

TerminateStep ==
  DetachStep \cup
  {"outOfSync", "deregister", "existing", "abandonExisting", "createTerminating",
   "abandonTermination", "completeTerminating", "closeTerminating"}

HeartbeatStep == {"heartbeatItem", "completeLaunching"}

\* The other handlers, and what the function instances share, are as they were.
Aside(h) ==
  /\ pc[h] # "idle"
  /\ UNCHANGED <<conf, service, reported, unused, leftover>>
  /\ faults' = faults \/ ("call" \in conf.faults /\ faults' = faults - 1)
  /\ pc'[h] # "idle" => target'[h] = target[h]
  /\ \A g \in Handler \ {h} :
       /\ pc'[g] = pc[g] /\ target'[g] = target[g] /\ memo'[g] = memo[g]
       /\ nic'[g] = nic[g] /\ vpn'[g] = vpn[g]

\* So is what concerns the other VMs.
OwnVm(v) ==
  \A w \in Vm \ {v} :
    /\ phase'[w] = phase[w] /\ events'[w] = events[w] /\ item'[w] = item[w]
    /\ nicRecord'[w] = nicRecord[w] /\ vpnRecord'[w] = vpnRecord[w]
    /\ w \in balancer' <=> w \in balancer

\* The handler stays in its request.
Onward(h) ==
  /\ pc'[h] \in LaunchStep => pc[h] \in LaunchStep
  /\ pc'[h] \in TerminateStep => pc[h] \in TerminateStep
  /\ pc'[h] \in DetachStep => pc[h] \in DetachStep
  /\ pc'[h] \in HeartbeatStep => pc[h] \in HeartbeatStep
  /\ pc'[h] \notin {"register", "detach", "launchedItem", "terminatedItem", "heartbeatItem"}
  /\ pc[h] \in DetachStep => pc'[h] \in DetachStep \cup {"outOfSync"}
  /\ "call" \notin conf.faults =>
       /\ pc'[h] \notin {"unregister", "abandonTermination"}
       /\ pc'[h] = "abandonLaunch" => pc[h] = "unregister"
       /\ pc'[h] = "abandon"
            => pc[h] \in {"revertRecord", "revertGateway"} \/ phase[target[h]] = "gone"

\* A hook of the VM is completed, or not.
Passes(h, v) ==
  \/ phase'[v] = phase[v] /\ events'[v] = events[v]
  \/ /\ phase[v] = "launching" /\ phase'[v] = "inService"
     /\ events'[v] = events[v] \cup {"launched"}
     /\ pc[h] = "completeLaunching"
  \/ /\ phase[v] = "launching" /\ phase'[v] = "terminating"
     /\ events'[v] = events[v] \cup {"notLaunched", "terminating"}
     /\ pc[h] \in {"abandonLaunch", "abandon", "abandonExisting"}
  \/ /\ phase[v] = "terminating" /\ phase'[v] = "gone"
     /\ events'[v] = events[v] \cup {"terminated"}
     /\ pc[h] \in {"abandon", "abandonExisting", "abandonTermination", "closeTerminating"}

\* What is read of the item is kept to the end of the launch.
Remembers(h) ==
  /\ pc'[h] = "readItem" => item'[target[h]] = "launching"
  /\ pc'[h] \in AttachStep \cup {"abandon"} =>
       \/ pc[h] \in AttachStep /\ memo'[h] = memo[h]
       \/ pc[h] = "readItem" /\ memo'[h] = item[target[h]]

\* A launch that is given up does not go on, unless the call to say so fails.
GivesUp(h, v) ==
  pc[h] = "abandon" /\ phase[v] = memo[h] =>
    phase'[v] # phase[v] \/ ("call" \in conf.faults /\ faults' = faults - 1)

StepOf(h) ==
  /\ Aside(h) /\ OwnVm(target[h])
  /\ Onward(h) /\ Passes(h, target[h]) /\ Remembers(h) /\ GivesUp(h, target[h])

\* The steps on a network interface.
LEMMA NicStepOf ==
  ASSUME TypeOK, NEW h \in Handler, NicMove(h)
  PROVE  StepOf(h)
<1> USE TypesAssumption DEF TypeOK, GroupTypeOK, NicTypeOK, VpnTypeOK, StepOf, Aside,
  OwnVm, Onward, Passes, Remembers, GivesUp, NicStep, VpnStep, AttachStep, DetachStep,
  LaunchStep, TerminateStep, HeartbeatStep, localVars, groupVars, Fine, Suffer, Goto,
  Finish, nicVars, vpnVars, itemVars, NicMove
<1>1. CASE ListNics(h)
  BY <1>1 DEF ListNics
<1>2. CASE CreateNic(h)
  BY <1>2 DEF CreateNic, NewNic
<1>3. CASE TagNic(h)
  BY <1>3 DEF TagNic
<1>4. CASE SetAttaching(h)
  BY <1>4 DEF SetAttaching, Record
<1>5. CASE AttachNic(h)
  BY <1>5 DEF AttachNic
<1>6. CASE SetAttached(h)
  BY <1>6 DEF SetAttached, Record, ReleaseNic
<1>7. CASE RevertNic(h)
  BY <1>7 DEF RevertNic, Gone
<1>8. CASE RevertRecord(h)
  BY <1>8 DEF RevertRecord, ReleaseNic, HasRecord
<1>9. CASE ListAttached(h)
  BY <1>9 DEF ListAttached, LeaveNic, ReleaseNic
<1>10. CASE DetachNic(h)
  BY <1>10 DEF DetachNic, LeaveNic, ReleaseNic
<1>11. CASE DeleteNic(h)
  BY <1>11 DEF DeleteNic, Gone, LeaveNic, ReleaseNic
<1>12. CASE DeleteNicRecord(h)
  BY <1>12 DEF DeleteNicRecord, LeaveNic, ReleaseNic
<1> QED
  BY <1>1, <1>2, <1>3, <1>4, <1>5, <1>6, <1>7, <1>8, <1>9, <1>10, <1>11, <1>12
     DEF NicMove, Attach, Detach

\* Those on a VPN.
LEMMA VpnStepOf ==
  ASSUME TypeOK, NEW h \in Handler, VpnMove(h)
  PROVE  StepOf(h)
<1> USE TypesAssumption DEF TypeOK, GroupTypeOK, NicTypeOK, VpnTypeOK, StepOf, Aside,
  OwnVm, Onward, Passes, Remembers, GivesUp, NicStep, VpnStep, AttachStep, DetachStep,
  LaunchStep, TerminateStep, HeartbeatStep, localVars, groupVars, Fine, Suffer, Goto,
  Finish, nicVars, vpnVars, itemVars, VpnMove
<1>1. CASE FindVpn(h)
  BY <1>1 DEF FindVpn
<1>2. CASE CreateGateway(h)
  BY <1>2 DEF CreateGateway, NewVpn, Route
<1>3. CASE CreateConnection(h)
  BY <1>3 DEF CreateConnection
<1>4. CASE RevertGateway(h)
  BY <1>4 DEF RevertGateway, Remove, Deletable, Exists, ReleaseVpn
<1>5. CASE TagVpn(h)
  BY <1>5 DEF TagVpn
<1>6. CASE InvokeUpdate(h)
  BY <1>6 DEF InvokeUpdate, Waiting, ReleaseVpn
<1>7. CASE SaveVpn(h)
  BY <1>7 DEF SaveVpn, ReleaseVpn
<1>8. CASE FindAttached(h)
  BY <1>8 DEF FindAttached, LeaveVpn, ReleaseVpn
<1>9. CASE DeleteConnection(h)
  BY <1>9 DEF DeleteConnection, LeaveVpn, ReleaseVpn, Delete, Remove, Deletable, Exists
<1>10. CASE DeleteGateway(h)
  BY <1>10 DEF DeleteGateway, LeaveVpn, ReleaseVpn, Delete, Remove, Deletable, Exists
<1>11. CASE DeleteVpnRecord(h)
  BY <1>11 DEF DeleteVpnRecord, LeaveVpn, ReleaseVpn
<1> QED
  BY <1>1, <1>2, <1>3, <1>4, <1>5, <1>6, <1>7, <1>8, <1>9, <1>10, <1>11 DEF VpnMove,
     AttachVpn, DetachVpn

\* Those of the lifecycle.
LEMMA HookStepOf ==
  ASSUME TypeOK, NEW h \in Handler, HookMove(h)
  PROVE  StepOf(h)
<1> USE TypesAssumption DEF TypeOK, GroupTypeOK, NicTypeOK, VpnTypeOK, StepOf, Aside,
  OwnVm, Onward, Passes, Remembers, GivesUp, NicStep, VpnStep, AttachStep, DetachStep,
  LaunchStep, TerminateStep, HeartbeatStep, localVars, groupVars, Fine, Suffer, Goto,
  Finish, nicVars, vpnVars, itemVars, HookMove
<1>1. CASE Register(h)
  BY <1>1 DEF Register
<1>2. CASE CreateLaunching(h)
  BY <1>2 DEF CreateLaunching
<1>3. CASE Unregister(h)
  BY <1>3 DEF Unregister
<1>4. CASE AbandonLaunch(h)
  BY <1>4 DEF AbandonLaunch, Complete, Refused, Outstanding, Completed, Enter, Announced
<1>5. CASE ReadItem(h)
  BY <1>5 DEF ReadItem
<1>6. CASE Abandon(h)
  BY <1>6 DEF Abandon, Complete, Refused, Outstanding, Completed, Enter, Announced, Hook,
     Phase
<1>7. CASE OutOfSync(h)
  BY <1>7 DEF OutOfSync
<1>8. CASE Deregister(h)
  BY <1>8 DEF Deregister
<1>9. CASE Existing(h)
  BY <1>9 DEF Existing
<1>10. CASE AbandonExisting(h)
  BY <1>10 DEF AbandonExisting, Complete, Refused, Outstanding, Completed, Enter,
     Announced, Hook, Phase
<1>11. CASE CreateTerminating(h)
  BY <1>11 DEF CreateTerminating
<1>12. CASE AbandonTermination(h)
  BY <1>12 DEF AbandonTermination, Complete, Refused, Outstanding, Completed, Enter,
     Announced
<1>13. CASE CompleteTerminating(h)
  BY <1>13 DEF CompleteTerminating, ExpectItem
<1>14. CASE CloseTerminating(h)
  BY <1>14 DEF CloseTerminating, Complete, Refused, Outstanding, Completed, Enter,
     Announced
<1>15. CASE LaunchedItem(h)
  BY <1>15 DEF LaunchedItem, ExpectItem
<1>16. CASE TerminatedItem(h)
  BY <1>16 DEF TerminatedItem, ExpectItem
<1>17. CASE DropItem(h)
  BY <1>17 DEF DropItem
<1>18. CASE HeartbeatItem(h)
  BY <1>18 DEF HeartbeatItem, ExpectItem
<1>19. CASE CompleteLaunching(h)
  BY <1>19 DEF CompleteLaunching, Complete, Refused, Outstanding, Completed, Enter,
     Announced
<1> QED
  BY <1>1, <1>2, <1>3, <1>4, <1>5, <1>6, <1>7, <1>8, <1>9, <1>10, <1>11, <1>12, <1>13,
     <1>14, <1>15, <1>16, <1>17, <1>18, <1>19 DEF HookMove, Launching, Terminating,
     Concluding

LEMMA StepsOfOne ==
  ASSUME TypeOK, NEW h \in Handler, HandlerStep(h)
  PROVE  StepOf(h)
BY NicStepOf, VpnStepOf, HookStepOf DEF HandlerStep, NicMove, VpnMove, HookMove

----------------------------------------------------------------------------
(* One request at a time *)

\* One request at a time, and none stops halfway.
Orderly == ~conf.overlap /\ "crash" \notin conf.faults

OneBusy ==
  ~conf.overlap =>
    \A g, h \in Handler : pc[g] # "idle" /\ pc[h] # "idle" => g = h

LEMMA ConfStays ==
  ASSUME [Next]_vars
  PROVE  conf' = conf
<1>1. ASSUME NEW h \in Handler, HandlerStep(h) PROVE conf' = conf
  BY <1>1 DEF HandlerStep, Launching, Terminating, Concluding, Attach, Detach, AttachVpn,
     DetachVpn, Register, CreateLaunching, Unregister, AbandonLaunch, ReadItem, Abandon,
     OutOfSync, Deregister, Existing, AbandonExisting, CreateTerminating,
     AbandonTermination, CompleteTerminating, CloseTerminating, LaunchedItem,
     TerminatedItem, DropItem, HeartbeatItem, CompleteLaunching, ExpectItem, ListNics,
     CreateNic, TagNic, SetAttaching, AttachNic, SetAttached, RevertNic, RevertRecord,
     ListAttached, DetachNic, DeleteNic, DeleteNicRecord, FindVpn, CreateGateway,
     CreateConnection, RevertGateway, TagVpn, InvokeUpdate, SaveVpn, FindAttached,
     DeleteConnection, DeleteGateway, DeleteVpnRecord, Delete
<1> QED
  BY <1>1 DEF Next, Group, ScaleOut, ScaleIn, HookTimeout, StopScalingGroup, Receive,
     FirstHeartbeat, Miss, Crash, CleanUp, CleanUpNics, CleanUpNic, CleanUpOfVpns,
     CleanUpVpns, CleanUpVpn, Routes, UpdateRoutes, ExtendExecution, GiveUpRoutes,
     SetRouting, groupVars, vars

\* A step that no handler takes: of the scaling group, of a clean-up or of the
\* function that updates the routes. The handlers stay where they are.
Outside ==
  \/ Group /\ UNCHANGED <<nicVars, vpnVars, itemVars>>
  \/ \E v \in Vm, e \in Event : Miss(v, e)
  \/ CleanUp /\ UNCHANGED <<vpnVars, itemVars>>
  \/ (CleanUpOfVpns \/ \E c \in Vpn : Routes(c)) /\ UNCHANGED <<nicVars, itemVars>>

\* A request begins at that step for v.
Begins(h, v, step) ==
  /\ Begin(h, v, step)
  /\ UNCHANGED <<conf, phase, service, nicVars, vpnVars, item, balancer, registered>>
  /\ \/ /\ step = "heartbeatItem"
        /\ phase[v] \in Hook /\ "launching" \notin events[v]
        /\ UNCHANGED <<events, faults>>
     \/ \E e \in events[v] :
          /\ step = FirstStep(e)
          /\ \A f \in events[v] : Rank(e) <= Rank(f)
          /\ events' = [events EXCEPT ![v] = @ \ {e}] \/ events' = events
          /\ faults' = faults \/ faults' = faults - 1

LEMMA OrderlyNext ==
  ASSUME TypeOK, Orderly, Next
  PROVE  \/ Outside
         \/ \E h \in Handler : HandlerStep(h)
         \/ \E h \in Handler, v \in Vm, step \in Step : Begins(h, v, step)
<1>1. ASSUME NEW h \in Handler, NEW v \in Vm, NEW e \in Event, Receive(h, v, e)
      PROVE  Begins(h, v, FirstStep(e)) /\ FirstStep(e) \in Step
  BY <1>1 DEF Receive, Begins, Orderly, Event, FirstStep, Step, NicStep, VpnStep,
     itemVars, Fine, Suffer, TypeOK, GroupTypeOK
<1>2. ASSUME NEW h \in Handler, NEW v \in Vm, FirstHeartbeat(h, v)
      PROVE  Begins(h, v, "heartbeatItem") /\ "heartbeatItem" \in Step
  BY <1>2 DEF FirstHeartbeat, Begins, Orderly, Step, groupVars
<1>3. ASSUME NEW h \in Handler PROVE ~Crash(h)
  BY DEF Crash, Suffer, Orderly
<1> QED
  BY <1>1, <1>2, <1>3 DEF Next, Outside

LEMMA OutsideStays ==
  ASSUME Outside
  PROVE  UNCHANGED <<localVars, nic, vpn, nicRecord, vpnRecord, itemVars>>
BY DEF Outside, Group, ScaleOut, ScaleIn, HookTimeout, StopScalingGroup, Miss, CleanUp,
   CleanUpNics, CleanUpNic, CleanUpOfVpns, CleanUpVpns, CleanUpVpn, Routes, UpdateRoutes,
   ExtendExecution, GiveUpRoutes, SetRouting, Suffer, localVars, nicVars, vpnVars,
   itemVars

\* The handlers are busy one after the other.
LEMMA OneBusyStays ==
  ASSUME TypeOK, OneBusy, [Next]_vars
  PROVE  OneBusy'
<1> SUFFICES ASSUME ~conf.overlap PROVE OneBusy'
  BY ConfStays DEF OneBusy
<1> USE DEF OneBusy, TypeOK, GroupTypeOK
<1>1. ASSUME NEW h \in Handler, HandlerStep(h) PROVE OneBusy'
  BY <1>1, StepsOfOne DEF StepOf, Aside
<1>2. ASSUME NEW h \in Handler, NEW v \in Vm, NEW step, Begin(h, v, step) PROVE OneBusy'
  BY <1>2 DEF Begin, Free, Goto
<1>3. ASSUME NEW h \in Handler, Crash(h) PROVE OneBusy'
  BY <1>3 DEF Crash, Finish
<1>4. ASSUME UNCHANGED pc PROVE OneBusy'
  BY <1>4, ConfStays
<1>5. Outside => UNCHANGED pc
  BY OutsideStays DEF localVars
<1>6. UNCHANGED vars => UNCHANGED pc
  BY DEF vars, localVars
<1> QED
  BY <1>1, <1>2, <1>3, <1>4, <1>5, <1>6 DEF Next, Outside, Receive, FirstHeartbeat

\* Where a VM is while something about it is on its way.
Leaving(v) == phase[v] \in {"terminating", "gone"}

PhaseInv ==
  /\ \A v \in Vm :
       /\ events[v] # {} => phase[v] # "none"
       /\ "launching" \in events[v] => phase[v] # "inService"
       /\ "terminating" \in events[v] => Leaving(v)
       /\ "terminated" \in events[v] => phase[v] = "gone"
  /\ \A h \in Handler :
       /\ pc[h] # "idle" => phase[target[h]] # "none"
       /\ pc[h] \in LaunchStep => phase[target[h]] # "inService"
       /\ pc[h] \in TerminateStep => Leaving(target[h])
       /\ pc[h] \in HeartbeatStep => "launching" \notin events[target[h]]

\* What the scaling group does with a VM by itself.
PassesOutside(v) ==
  \/ phase'[v] = phase[v] /\ events'[v] \subseteq events[v]
       /\ ("call" \notin conf.faults => events'[v] = events[v])
  \/ phase[v] = "none" /\ phase'[v] = "launching" /\ events'[v] = events[v] \cup {"launching"}
  \/ /\ phase[v] = "inService" /\ phase'[v] = "terminating"
     /\ events'[v] = events[v] \cup {"terminating"}
  \/ /\ phase[v] = "launching" /\ phase'[v] = "terminating"
     /\ events'[v] = events[v] \cup {"notLaunched", "terminating"}
     /\ "timeout" \in conf.faults
  \/ /\ phase[v] = "terminating" /\ phase'[v] = "gone"
     /\ events'[v] = events[v] \cup {"terminated"}
     /\ "timeout" \in conf.faults

LEMMA OutsidePasses ==
  ASSUME TypeOK, Outside, NEW v \in Vm
  PROVE  PassesOutside(v)
<1> USE DEF TypeOK, GroupTypeOK, PassesOutside, Enter, Announced
<1>1. ASSUME NEW w \in Vm, ScaleOut(w) PROVE PassesOutside(v)
  BY <1>1 DEF ScaleOut
<1>2. ASSUME NEW w \in Vm, ScaleIn(w) PROVE PassesOutside(v)
  BY <1>2 DEF ScaleIn
<1>3. ASSUME NEW w \in Vm, HookTimeout(w) PROVE PassesOutside(v)
  BY <1>3 DEF HookTimeout, Hook, Completed, Suffer
<1>4. ASSUME NEW w \in Vm, NEW e \in Event, Miss(w, e) PROVE PassesOutside(v)
  BY <1>4 DEF Miss, Suffer
<1>5. ASSUME UNCHANGED <<phase, events>> PROVE PassesOutside(v)
  BY <1>5
<1> QED
  BY <1>1, <1>2, <1>3, <1>4, <1>5 DEF Outside, Group, StopScalingGroup, CleanUp,
     CleanUpNics, CleanUpNic, CleanUpOfVpns, CleanUpVpns, CleanUpVpn, Routes,
     UpdateRoutes, ExtendExecution, GiveUpRoutes, SetRouting

LEMMA PhaseStays ==
  ASSUME TypeOK, OneBusy, Orderly, PhaseInv, [Next]_vars
  PROVE  PhaseInv'
<1> USE DEF PhaseInv, Leaving, TypeOK, GroupTypeOK
<1>1. ASSUME NEW h \in Handler, HandlerStep(h) PROVE PhaseInv'
  <2>1. StepOf(h)
    BY <1>1, StepsOfOne
  <2> DEFINE v == target[h]
  <2>2. v \in Vm /\ \A g \in Handler \ {h} : pc'[g] = "idle"
    BY <2>1 DEF StepOf, Aside, OneBusy, Orderly
  <2>3. ASSUME NEW w \in Vm
        PROVE  /\ events'[w] # {} => phase'[w] # "none"
               /\ "launching" \in events'[w] => phase'[w] # "inService"
               /\ "terminating" \in events'[w] => phase'[w] \in {"terminating", "gone"}
               /\ "terminated" \in events'[w] => phase'[w] = "gone"
    BY <2>1, <2>2 DEF StepOf, Aside, OwnVm, Passes, HeartbeatStep
  <2>4. pc'[h] # "idle" => target'[h] = v
    BY <2>1 DEF StepOf, Aside
  <2>5. /\ phase'[v] # "none"
        /\ pc'[h] \in LaunchStep => phase'[v] # "inService"
        /\ pc'[h] \in TerminateStep => phase'[v] \in {"terminating", "gone"}
        /\ pc'[h] \in HeartbeatStep => "launching" \notin events'[v]
    <3>1. pc[h] # "idle" /\ Passes(h, v) /\ Onward(h)
      BY <2>1 DEF StepOf, Aside
    <3>2. "completeLaunching" \notin LaunchStep
      BY DEF LaunchStep, AttachStep, NicStep, VpnStep
    <3> QED
      BY <3>1, <3>2, <2>2 DEF Passes, Onward
  <2>6. "idle" \notin LaunchStep \cup TerminateStep \cup HeartbeatStep
    BY DEF LaunchStep, AttachStep, NicStep, VpnStep, TerminateStep, DetachStep,
       HeartbeatStep
  <2> QED
    BY <2>2, <2>3, <2>4, <2>5, <2>6
<1>2. ASSUME NEW h \in Handler, NEW v \in Vm, NEW step \in Step, Begins(h, v, step)
      PROVE  PhaseInv'
  BY <1>2 DEF Begins, Begin, Goto, FirstStep, Rank, Event, Hook, LaunchStep, AttachStep,
     NicStep, VpnStep, TerminateStep, DetachStep, HeartbeatStep
<1>3. ASSUME Outside PROVE PhaseInv'
  <2>1. UNCHANGED <<pc, target>>
    BY <1>3, OutsideStays DEF localVars
  <2>2. \A v \in Vm : PassesOutside(v)
    BY <1>3, OutsidePasses
  <2> QED
    BY <2>1, <2>2 DEF PassesOutside, HeartbeatStep, LaunchStep, AttachStep, NicStep,
       VpnStep, TerminateStep, DetachStep
<1>4. CASE UNCHANGED vars
  BY <1>4 DEF vars, groupVars, localVars
<1> QED
  BY <1>1, <1>2, <1>3, <1>4, OrderlyNext

\* Apart from the steps on an interface nothing happens to the interfaces.
LEMMA NicsAside ==
  ASSUME TypeOK, NEW h \in Handler, HandlerStep(h), ~ NicMove(h)
  PROVE  /\ UNCHANGED nicVars
         /\ pc[h] \notin NicStep \ {"detach"}
         /\ pc'[h] \in NicStep => pc[h] = "readItem" /\ pc'[h] = "listNics"
<1> USE DEF TypeOK, GroupTypeOK, NicStep, Goto, Finish
<1>1. CASE VpnMove(h)
  BY <1>1 DEF VpnMove, AttachVpn, DetachVpn, FindVpn, CreateGateway, CreateConnection,
     RevertGateway, TagVpn, InvokeUpdate, SaveVpn, FindAttached, DeleteConnection,
     DeleteGateway, DeleteVpnRecord, NewVpn, Delete, Remove, LeaveVpn, ReleaseVpn
<1>2. CASE HookMove(h)
  BY <1>2 DEF HookMove, Launching, Terminating, Concluding, Register, CreateLaunching,
     Unregister, AbandonLaunch, ReadItem, Abandon, OutOfSync, Deregister, Existing,
     AbandonExisting, CreateTerminating, AbandonTermination, CompleteTerminating,
     CloseTerminating, LaunchedItem, TerminatedItem, DropItem, HeartbeatItem,
     CompleteLaunching, ExpectItem
<1> QED
  BY <1>1, <1>2 DEF HandlerStep, NicMove, VpnMove, HookMove

\* The clean-up deletes only interfaces that it listed.
LEMMA OutsideNics ==
  ASSUME TypeOK, Outside
  PROVE  \/ UNCHANGED <<nics, tagged, nicOf>>
         \/ \E n \in unused : n \in nics /\ ~InUse(n) /\ Gone(n) /\ UNCHANGED phase
BY DEF Outside, Group, ScaleOut, ScaleIn, HookTimeout, StopScalingGroup, Miss, CleanUp,
   CleanUpNics, CleanUpNic, CleanUpOfVpns, CleanUpVpns, CleanUpVpn, Routes, UpdateRoutes,
   ExtendExecution, GiveUpRoutes, SetRouting, nicVars

\* So many faults have happened, and calls may be among them.
Lost(k) == "call" \in conf.faults /\ faults <= MaxFaults - k

LEMMA LossesStay ==
  ASSUME TypeOK, [Next]_vars, NEW k \in Nat, Lost(k)
  PROVE  Lost(k)'
<1>1. faults' = faults \/ faults' = faults - 1
  <2>1. ASSUME NEW h \in Handler, HandlerStep(h) PROVE faults' = faults \/ faults' = faults - 1
    BY <2>1, StepsOfOne DEF StepOf, Aside
  <2>2. ASSUME ~ \E h \in Handler : HandlerStep(h)
        PROVE  faults' = faults \/ faults' = faults - 1
    BY <2>2 DEF Next, Group, ScaleOut, ScaleIn, HookTimeout, StopScalingGroup, Receive,
       FirstHeartbeat, Miss, Crash, CleanUp, CleanUpNics, CleanUpNic, CleanUpOfVpns,
       CleanUpVpns, CleanUpVpn, Routes, UpdateRoutes, ExtendExecution, GiveUpRoutes,
       SetRouting, groupVars, vars, Fine, Suffer
  <2> QED
    BY <2>1, <2>2
<1> QED
  BY <1>1, ConfStays, TypesAssumption DEF Lost, TypeOK, GroupTypeOK

----------------------------------------------------------------------------
(* Interfaces without a record *)

\* An interface without tags is being tagged, or taken back because that has
\* failed, unless a second call failed.
StrayInv ==
  "crash" \notin conf.faults =>
    \A n \in nics \ tagged :
      \/ Lost(2)
      \/ \E h \in Handler :
           nic[h] = n /\ (pc[h] = "tagNic" \/ (pc[h] = "revertNic" /\ Lost(1)))

\* The steps on an interface keep it.
LEMMA StrayNic ==
  ASSUME TypeOK, TypeOK', AttachedIsTagged, StrayInv, NEW h \in Handler, NicMove(h)
  PROVE  StrayInv'
<1> USE TypesAssumption DEF TypeOK, GroupTypeOK, NicTypeOK, NicStep, NicHeld,
  AttachedIsTagged, Lost, Fine, Suffer, Goto, Finish, nicVars, InUse, StrayInv, NicMove
<1>1. CASE ListNics(h)
  BY <1>1 DEF ListNics
<1>2. CASE CreateNic(h)
  BY <1>2 DEF CreateNic, NewNic
<1>3. CASE TagNic(h)
  BY <1>3 DEF TagNic
<1>4. CASE SetAttaching(h)
  BY <1>4 DEF SetAttaching, Record
<1>5. CASE AttachNic(h)
  BY <1>5 DEF AttachNic
<1>6. CASE SetAttached(h)
  BY <1>6 DEF SetAttached, Record, ReleaseNic
<1>7. CASE RevertNic(h)
  BY <1>7 DEF RevertNic, Gone
<1>8. CASE RevertRecord(h)
  BY <1>8 DEF RevertRecord, ReleaseNic, HasRecord
<1>9. CASE ListAttached(h)
  BY <1>9 DEF ListAttached, LeaveNic, ReleaseNic
<1>10. CASE DetachNic(h)
  BY <1>10 DEF DetachNic, LeaveNic, ReleaseNic
<1>11. CASE DeleteNic(h)
  BY <1>11 DEF DeleteNic, Gone, LeaveNic, ReleaseNic
<1>12. CASE DeleteNicRecord(h)
  BY <1>12 DEF DeleteNicRecord, LeaveNic, ReleaseNic
<1> QED
  BY <1>1, <1>2, <1>3, <1>4, <1>5, <1>6, <1>7, <1>8, <1>9, <1>10, <1>11, <1>12
     DEF NicMove, Attach, Detach

LEMMA StrayStays ==
  ASSUME TypeOK, TypeOK', AttachedIsTagged, StrayInv, [Next]_vars
  PROVE  StrayInv'
<1>1. ASSUME NEW h \in Handler, NicMove(h) PROVE StrayInv'
  BY <1>1, StrayNic
<1>2. (Lost(2) => Lost(2)') /\ (Lost(1) => Lost(1)')
  BY LossesStay
<1>3. conf' = conf
  BY ConfStays
<1>4. ASSUME UNCHANGED <<nics, tagged>>,
             \A h \in Handler : pc[h] \in {"tagNic", "revertNic"} =>
                               pc'[h] = pc[h] /\ nic'[h] = nic[h]
      PROVE  StrayInv'
  BY <1>2, <1>3, <1>4 DEF StrayInv
<1>5. ASSUME NEW h \in Handler, HandlerStep(h), ~ NicMove(h)
      PROVE  StrayInv'
  BY <1>4, <1>5, NicsAside, StepsOfOne DEF StepOf, Aside, NicStep, nicVars
<1>6. ASSUME NEW h \in Handler, NEW v \in Vm, NEW step, Begin(h, v, step), UNCHANGED nicVars
      PROVE  StrayInv'
  BY <1>4, <1>6 DEF Begin, Free, Goto, nicVars, TypeOK, GroupTypeOK
<1>7. ASSUME Outside PROVE StrayInv'
  <2>1. UNCHANGED <<pc, nic>>
    BY <1>7, OutsideStays DEF localVars
  <2>2. CASE UNCHANGED <<nics, tagged, nicOf>>
    BY <1>4, <2>1, <2>2
  <2>3. ASSUME NEW n \in unused, Gone(n) PROVE StrayInv'
    BY <1>2, <1>3, <2>1, <2>3 DEF StrayInv, Gone
  <2> QED
    BY <1>7, <2>2, <2>3, OutsideNics
<1>8. ASSUME NEW h \in Handler, Crash(h) PROVE StrayInv'
  BY <1>3, <1>8 DEF Crash, Suffer, StrayInv
<1>9. CASE UNCHANGED vars
  BY <1>4, <1>9 DEF vars, localVars, nicVars
<1> QED
  BY <1>1, <1>5, <1>6, <1>7, <1>8, <1>9 DEF Next, Outside, Receive, FirstHeartbeat

\* After one failing call an interface that no handler works on has the tags of
\* the deployment or a record: what attach could not tag it takes back.
THEOREM StrayFound == Spec => []StrayIsFindable
<1>1. Init => StrayInv
  BY DEF Init, NicInit, StrayInv
<1>2. TypeOK /\ TypeOK' /\ AttachedIsTagged /\ StrayInv /\ [Next]_vars => StrayInv'
  BY StrayStays
<1>3. TypeOK /\ StrayInv => StrayIsFindable
  BY TypesAssumption DEF StrayInv, StrayIsFindable, OnlyFaults, AtMostOneFault, Lost,
     NicHeld, NicStep, TypeOK, GroupTypeOK
<1> QED
  BY <1>1, <1>2, <1>3, TypeCorrect, TaggedBeforeAttached, PTL DEF Spec

----------------------------------------------------------------------------
(* The interface of a VM *)

\* The handler of a launch has read the item that it wrote.
MemoInv ==
  \A h \in Handler :
    /\ pc[h] = "readItem" => item[target[h]] = "launching"
    /\ pc[h] \in AttachStep \cup {"abandon"} => memo[h] = "launching"

LEMMA MemoStays ==
  ASSUME TypeOK, OneBusy, Orderly, MemoInv, [Next]_vars
  PROVE  MemoInv'
<1> USE DEF MemoInv, TypeOK, GroupTypeOK, AttachStep, NicStep, VpnStep
<1>1. ASSUME NEW h \in Handler, HandlerStep(h) PROVE MemoInv'
  BY <1>1, StepsOfOne DEF StepOf, Aside, Remembers, OneBusy, Orderly
<1>2. ASSUME NEW h \in Handler, NEW v \in Vm, NEW step \in Step, Begins(h, v, step)
      PROVE  MemoInv'
  BY <1>2 DEF Begins, Begin, Goto, Free, Orderly, FirstStep, Event
<1>3. ASSUME Outside PROVE MemoInv'
  BY <1>3, OutsideStays DEF localVars, itemVars
<1>4. CASE UNCHANGED vars
  BY <1>4 DEF vars, localVars, itemVars
<1> QED
  BY <1>1, <1>2, <1>3, <1>4, OrderlyNext

\* A handler is at one of these steps for v.
At(v, steps) == \E h \in Handler : pc[h] \in steps /\ target[h] = v

\* If v has a record, it has the interface.
Held(v) == nicRecord[v] # None => nicOf[nicRecord[v].nic] = v

\* The interface that a handler works on has no record but that of its VM.
NicKnown(h) ==
  /\ pc[h] \in NicHeld => \A v \in Vm : HasRecord(v, nic[h]) => v = target[h]
  /\ pc[h] \in {"createNic", "tagNic", "setAttaching"} => nicRecord[target[h]] = None
  /\ pc[h] \in {"attachNic", "setAttached"} => HasRecord(target[h], nic[h])
  /\ pc[h] \in {"revertNic", "revertRecord"} /\ nicRecord[target[h]] # None
       => HasRecord(target[h], nic[h])
  /\ pc[h] = "setAttached" => nicOf[nic[h]] = target[h] \/ phase[target[h]] = "gone"

\* A VM that is not on its way out has the interface of its record, unless a
\* handler is giving the launch up, or a second call failed.
NicGiven(v) ==
  ~Leaving(v) =>
    \/ Held(v)
    \/ Lost(2)
    \/ At(v, {"attachNic", "revertNic", "revertRecord"})
    \/ Lost(1) /\ At(v, {"abandon"})

NicInv ==
  /\ \A v, w \in Vm, n \in Nic : HasRecord(v, n) /\ HasRecord(w, n) => v = w
  /\ \A h \in Handler : NicKnown(h)
  /\ \A v \in Vm : NicGiven(v)

\* Only the handler that moves is busy.
LEMMA Alone ==
  ASSUME TypeOK, Orderly, OneBusy, NEW h \in Handler, HandlerStep(h)
  PROVE  /\ target[h] \in Vm
         /\ \A g \in Handler \ {h} : pc[g] = "idle" /\ pc'[g] = "idle"
         /\ pc'[h] # "idle" => target'[h] = target[h]
BY StepsOfOne DEF StepOf, Aside, OneBusy, Orderly, TypeOK, GroupTypeOK

\* A step on an interface changes the record of its VM and its own interface.
OwnNic(h) ==
  /\ \/ nicRecord'[target[h]] \in {nicRecord[target[h]], None}
     \/ /\ pc[h] \in NicHeld
        /\ nicRecord'[target[h]] # None /\ nicRecord'[target[h]].nic = nic[h]
  /\ \A n \in Nic : nicOf'[n] # nicOf[n] => pc[h] \in NicHeld /\ n = nic[h]

\* What the steps on an interface change of the others.
LEMMA OwnNicOnly ==
  ASSUME TypeOK, NEW h \in Handler, NicMove(h)
  PROVE  OwnNic(h)
<1> USE TypesAssumption DEF TypeOK, GroupTypeOK, NicTypeOK, NicStep, NicHeld, OwnNic,
  Fine, Suffer, Goto, Finish, nicVars, NicMove
<1>1. CASE ListNics(h)
  BY <1>1 DEF ListNics
<1>2. CASE CreateNic(h)
  BY <1>2 DEF CreateNic, NewNic
<1>3. CASE TagNic(h)
  BY <1>3 DEF TagNic
<1>4. CASE SetAttaching(h)
  BY <1>4 DEF SetAttaching, Record
<1>5. CASE AttachNic(h)
  BY <1>5 DEF AttachNic
<1>6. CASE SetAttached(h)
  BY <1>6 DEF SetAttached, Record, ReleaseNic
<1>7. CASE RevertNic(h)
  BY <1>7 DEF RevertNic, Gone
<1>8. CASE RevertRecord(h)
  BY <1>8 DEF RevertRecord, ReleaseNic, HasRecord
<1>9. CASE ListAttached(h)
  BY <1>9 DEF ListAttached, LeaveNic, ReleaseNic
<1>10. CASE DetachNic(h)
  BY <1>10 DEF DetachNic, LeaveNic, ReleaseNic
<1>11. CASE DeleteNic(h)
  BY <1>11 DEF DeleteNic, Gone, LeaveNic, ReleaseNic
<1>12. CASE DeleteNicRecord(h)
  BY <1>12 DEF DeleteNicRecord, LeaveNic, ReleaseNic
<1> QED
  BY <1>1, <1>2, <1>3, <1>4, <1>5, <1>6, <1>7, <1>8, <1>9, <1>10, <1>11, <1>12
     DEF NicMove, Attach, Detach

\* What a handler knows of its interface, and has given to its VM.
LEMMA NicKept ==
  ASSUME TypeOK, TypeOK', Orderly, OneBusy,
         PhaseInv, NicInv, NEW v \in Vm, NEW h \in Handler, NicMove(h)
  PROVE  target[h] = v => NicKnown(h)' /\ NicGiven(v)'
<1>a. /\ target[h] \in Vm
      /\ \A g \in Handler \ {h} : pc[g] = "idle" /\ pc'[g] = "idle"
      /\ pc'[h] # "idle" => target'[h] = target[h]
  BY Alone DEF HandlerStep, NicMove
<1> USE TypesAssumption, NicAssumption, <1>a DEF TypeOK, GroupTypeOK, NicTypeOK, NicStep,
  NicHeld, NicInv, NicKnown, NicGiven, HasRecord, Held, At, Lost, Fine, Suffer, Goto,
  Finish, nicVars, InUse, PhaseInv, Leaving, TerminateStep, DetachStep, NicMove
<1>1. CASE ListNics(h)
  BY <1>1 DEF ListNics
<1>2. CASE CreateNic(h)
  BY <1>2 DEF CreateNic, NewNic
<1>3. CASE TagNic(h)
  BY <1>3 DEF TagNic
<1>4. CASE SetAttaching(h)
  <2>1. Record(nic[h], "Attaching") \in NicRecord /\ Record(nic[h], "Attaching").nic = nic[h]
    BY <1>4 DEF SetAttaching, Record, NicRecord
  <2>2. NicKnown(h)'
    BY <1>4, <2>1 DEF SetAttaching
  <2>3. pc'[h] \in {"attachNic", "revertNic"} /\ target'[h] = target[h]
    BY <1>4 DEF SetAttaching
  <2>4. pc'[h] = "revertNic" => nicRecord' = nicRecord
    BY <1>4 DEF SetAttaching
  <2> QED
    BY <2>2, <2>3, <2>4
<1>5. CASE AttachNic(h)
  BY <1>5 DEF AttachNic
<1>6. CASE SetAttached(h)
  BY <1>6 DEF SetAttached, Record, ReleaseNic
<1>7. CASE RevertNic(h)
  BY <1>7 DEF RevertNic, Gone
<1>8. CASE RevertRecord(h)
  BY <1>8 DEF RevertRecord, ReleaseNic, HasRecord
<1>9. CASE ListAttached(h)
  BY <1>9 DEF ListAttached, LeaveNic, ReleaseNic
<1>10. CASE DetachNic(h)
  BY <1>10 DEF DetachNic, LeaveNic, ReleaseNic
<1>11. CASE DeleteNic(h)
  BY <1>11 DEF DeleteNic, Gone, LeaveNic, ReleaseNic
<1>12. CASE DeleteNicRecord(h)
  BY <1>12 DEF DeleteNicRecord, LeaveNic, ReleaseNic
<1> QED
  BY <1>1, <1>2, <1>3, <1>4, <1>5, <1>6, <1>7, <1>8, <1>9, <1>10, <1>11, <1>12
     DEF NicMove, Attach, Detach

LEMMA NicInvNic ==
  ASSUME TypeOK, TypeOK', Orderly, OneBusy, PhaseInv, NicInv, NEW h \in Handler, NicMove(h)
  PROVE  NicInv'
<1> DEFINE w == target[h]
<1>1. HandlerStep(h)
  BY DEF HandlerStep, NicMove
<1>2. /\ w \in Vm
      /\ \A g \in Handler \ {h} : pc[g] = "idle" /\ pc'[g] = "idle"
  BY <1>1, Alone
<1>3. OwnVm(w) /\ OwnNic(h) /\ conf' = conf
  BY <1>1, StepsOfOne, OwnNicOnly DEF StepOf, Aside
<1>4. \A v \in Vm : w = v => NicKnown(h)' /\ NicGiven(v)'
  BY NicKept
<1>5. ASSUME NEW g \in Handler \ {h} PROVE NicKnown(g)'
  BY <1>2, <1>5 DEF NicKnown, NicHeld, NicStep
<1>6. ASSUME NEW v \in Vm \ {w} PROVE NicGiven(v)'
  <2> SUFFICES ASSUME ~Leaving(v)'
               PROVE  Held(v)' \/ Lost(2)'
    BY DEF NicGiven
  <2>1. ~Leaving(v) /\ nicRecord'[v] = nicRecord[v]
    BY <1>3 DEF OwnVm, Leaving
  <2>2. ~ At(v, {"attachNic", "revertNic", "revertRecord"}) /\ ~ At(v, {"abandon"})
    BY <1>2 DEF At
  <2>3. Held(v) \/ Lost(2)
    BY <2>1, <2>2 DEF NicInv, NicGiven
  <2>4. CASE Lost(2)
    BY <2>4, <1>1, LossesStay DEF Next
  <2>5. CASE Held(v)
    <3> SUFFICES ASSUME nicRecord[v] # None PROVE nicOf'[nicRecord[v].nic] = v
      BY <2>1 DEF Held
    <3>1. nicRecord[v].nic \in Nic
      BY DEF TypeOK, NicTypeOK, NicRecord
    <3>2. pc[h] \in NicHeld => ~HasRecord(v, nic[h])
      BY DEF NicInv, NicKnown
    <3> QED
      BY <2>5, <3>1, <3>2, <1>3 DEF Held, OwnNic, HasRecord
  <2> QED
    BY <2>3, <2>4, <2>5
<1>7. ASSUME NEW u \in Vm, NEW v \in Vm, NEW n \in Nic, HasRecord(u, n)', HasRecord(v, n)'
      PROVE  u = v
  <2>1. \A x \in Vm \ {w} : nicRecord'[x] = nicRecord[x]
    BY <1>3 DEF OwnVm
  <2>2. pc[h] \in NicHeld => \A x \in Vm : HasRecord(x, nic[h]) => x = w
    BY DEF NicInv, NicKnown
  <2>3. \A x, y \in Vm : HasRecord(x, n) /\ HasRecord(y, n) => x = y
    BY DEF NicInv
  <2> QED
    BY <1>2, <1>3, <1>7, <2>1, <2>2, <2>3 DEF HasRecord, OwnNic
<1> QED
  BY <1>2, <1>4, <1>5, <1>6, <1>7 DEF NicInv

LEMMA NicStays ==
  ASSUME TypeOK, TypeOK', Orderly, OneBusy, PhaseInv, MemoInv, AttachedIsTagged, NicInv,
         [Next]_vars
  PROVE  NicInv'
<1>1. (Lost(2) => Lost(2)') /\ (Lost(1) => Lost(1)')
  BY LossesStay
<1>2. ASSUME NEW h \in Handler, NicMove(h) PROVE NicInv'
  BY <1>2, NicInvNic
<1>3. ASSUME NEW h \in Handler, HandlerStep(h), ~ NicMove(h) PROVE NicInv'
  <2>1. UNCHANGED nicVars /\ pc[h] \notin NicStep \ {"detach"}
        /\ pc'[h] \notin NicStep \ {"detach", "listNics"}
    BY <1>3, NicsAside DEF NicStep
  <2>2. /\ target[h] \in Vm
        /\ \A g \in Handler \ {h} : pc[g] = "idle" /\ pc'[g] = "idle"
    BY <1>3, Alone
  <2>3. StepOf(h)
    BY <1>3, StepsOfOne
  <2>4. ASSUME NEW v \in Vm PROVE NicGiven(v)'
    <3> SUFFICES ASSUME ~Leaving(v)'
                 PROVE  Held(v)' \/ Lost(2)'
      BY DEF NicGiven
    <3>1. ~Leaving(v)
      BY <2>2, <2>3 DEF StepOf, OwnVm, Passes, Leaving
    <3>2. Held(v)' <=> Held(v)
      BY <2>1 DEF Held, nicVars
    <3>3. ~ At(v, {"attachNic", "revertNic", "revertRecord"})
      BY <2>1, <2>2 DEF At, NicStep
    <3>4. CASE At(v, {"abandon"}) /\ Lost(1)
      <4>1. pc[h] = "abandon" /\ target[h] = v
        BY <3>4, <2>2 DEF At
      <4>2. phase[v] = "launching" /\ memo[h] = "launching"
        BY <3>1, <4>1 DEF PhaseInv, Leaving, LaunchStep, MemoInv, TypeOK, GroupTypeOK,
           Phase
      <4>3. phase'[v] = phase[v]
        BY <4>1, <4>2, <2>3 DEF StepOf, Passes, Leaving
      <4>4. "call" \in conf.faults /\ faults' = faults - 1
        BY <2>3, <4>1, <4>2, <4>3 DEF StepOf, GivesUp
      <4> QED
        BY <4>4, <3>4, <2>3, TypesAssumption DEF Lost, StepOf, Aside, TypeOK, GroupTypeOK
    <3> QED
      BY <1>1, <3>1, <3>2, <3>3, <3>4 DEF NicInv, NicGiven
  <2>5. ASSUME NEW g \in Handler PROVE NicKnown(g)'
    BY <2>1, <2>2 DEF NicKnown, NicHeld, NicStep
  <2> QED
    BY <2>1, <2>4, <2>5 DEF NicInv, HasRecord, nicVars
<1>4. ASSUME NEW h \in Handler, NEW v \in Vm, NEW step \in Step, Begins(h, v, step)
      PROVE  NicInv'
  <2>1. UNCHANGED <<nicVars, phase>> /\ \A g \in Handler : pc[g] = "idle"
    BY <1>4 DEF Begins, Begin, Free, Orderly
  <2>2. \A g \in Handler : pc'[g] \notin (NicStep \ {"detach"}) \cup {"abandon"}
    BY <1>4, <2>1 DEF Begins, Begin, Goto, FirstStep, Event, NicStep, TypeOK, GroupTypeOK
  <2>3. ASSUME NEW u \in Vm PROVE NicGiven(u)'
    BY <1>1, <2>1 DEF NicInv, NicGiven, Leaving, Held, At, nicVars
  <2>4. ASSUME NEW g \in Handler PROVE NicKnown(g)'
    BY <2>2 DEF NicKnown, NicHeld, NicStep
  <2> QED
    BY <2>1, <2>3, <2>4 DEF NicInv, HasRecord, nicVars
<1>5. ASSUME Outside PROVE NicInv'
  <2>1. UNCHANGED <<pc, target, nic, nicRecord>>
    BY <1>5, OutsideStays DEF localVars
  <2>2. \A v \in Vm : PassesOutside(v)
    BY <1>5, OutsidePasses
  <2>3. \A n \in Nic : nicOf'[n] # nicOf[n] => nicOf'[n] = None /\ ~InUse(n) /\ UNCHANGED phase
    BY <1>5, OutsideNics DEF Gone, TypeOK, NicTypeOK
  <2>4. \A v \in Vm : ~Leaving(v)' => ~Leaving(v)
    BY <2>2 DEF PassesOutside, Leaving
  <2>5. ASSUME NEW g \in Handler PROVE NicKnown(g)'
    <3>1. pc[g] = "setAttached" => nic[g] \in Nic /\ target[g] \in Vm
      BY DEF TypeOK, GroupTypeOK, NicTypeOK, NicHeld, NicStep
    <3>2. pc[g] = "setAttached" => nicOf'[nic[g]] = target[g] \/ phase'[target[g]] = "gone"
      BY <2>3, <3>1, <2>2, TypesAssumption DEF NicInv, NicKnown, InUse, PassesOutside
    <3> QED
      BY <2>1, <3>2 DEF NicInv, NicKnown, HasRecord
  <2>6. ASSUME NEW v \in Vm PROVE NicGiven(v)'
    <3>1. Held(v) /\ ~Leaving(v) => Held(v)'
      <4> SUFFICES ASSUME Held(v), ~Leaving(v), nicRecord[v] # None
                   PROVE  nicOf'[nicRecord[v].nic] = v
        BY <2>1 DEF Held
      <4>1. nicRecord[v].nic \in Nic
        BY DEF TypeOK, NicTypeOK, NicRecord
      <4> QED
        BY <2>3, <4>1, TypesAssumption DEF Held, InUse, Leaving
    <3> QED
      BY <1>1, <2>1, <2>4, <3>1 DEF NicInv, NicGiven, At
  <2> QED
    BY <2>1, <2>5, <2>6 DEF NicInv, HasRecord
<1>6. CASE UNCHANGED vars
  BY <1>1, <1>6 DEF vars, localVars, groupVars, nicVars, NicInv, NicKnown, NicGiven,
     Leaving, HasRecord, Held, At
<1> QED
  BY <1>2, <1>3, <1>4, <1>5, <1>6, OrderlyNext

LEMMA OneBusyAlways == Spec => []OneBusy
<1>1. Init => OneBusy
  BY DEF Init, GroupInit, OneBusy
<1>2. TypeOK /\ OneBusy /\ [Next]_vars => OneBusy'
  BY OneBusyStays
<1> QED
  BY <1>1, <1>2, TypeCorrect, PTL DEF Spec

LEMMA PhaseAlways == Spec => [](Orderly => PhaseInv)
<1>1. Init => PhaseInv
  BY DEF Init, GroupInit, PhaseInv, Leaving, LaunchStep, AttachStep, NicStep, VpnStep,
     TerminateStep, DetachStep, HeartbeatStep
<1>2. TypeOK /\ OneBusy /\ (Orderly => PhaseInv) /\ [Next]_vars => (Orderly => PhaseInv)'
  BY PhaseStays, ConfStays DEF Orderly
<1> QED
  BY <1>1, <1>2, TypeCorrect, OneBusyAlways, PTL DEF Spec

LEMMA MemoAlways == Spec => [](Orderly => MemoInv)
<1>1. Init => MemoInv
  BY DEF Init, GroupInit, MemoInv, AttachStep, NicStep, VpnStep
<1>2. TypeOK /\ OneBusy /\ (Orderly => MemoInv) /\ [Next]_vars => (Orderly => MemoInv)'
  BY MemoStays, ConfStays DEF Orderly
<1> QED
  BY <1>1, <1>2, TypeCorrect, OneBusyAlways, PTL DEF Spec

LEMMA NicAlways == Spec => [](Orderly => NicInv)
<1>1. Init => NicInv
  BY DEF Init, GroupInit, NicInit, NicInv, NicKnown, NicGiven, HasRecord, Held, NicHeld,
     NicStep
<1>2. /\ TypeOK /\ TypeOK' /\ OneBusy /\ AttachedIsTagged
      /\ (Orderly => PhaseInv) /\ (Orderly => MemoInv) /\ (Orderly => NicInv)
      /\ [Next]_vars
      => (Orderly => NicInv)'
  BY NicStays, ConfStays DEF Orderly
<1> QED
  BY <1>1, <1>2, TypeCorrect, OneBusyAlways, TaggedBeforeAttached, PhaseAlways,
     MemoAlways, PTL DEF Spec

\* One failing call does not leave a VM in service with a record of an interface
\* that it does not have.
THEOREM RecordedAttached == Spec => []RecordedIsAttached
<1>1. TypeOK /\ (Orderly => NicInv) => RecordedIsAttached
  <2> SUFFICES ASSUME TypeOK, Orderly, NicInv, faults >= MaxFaults - 1, NEW v \in Vm,
                      phase[v] = "inService", Serving(v) = {}, nicRecord[v] # None
               PROVE  nicOf[nicRecord[v].nic] = v
    BY DEF RecordedIsAttached, OnlyFaults, AtMostOneFault, Orderly
  <2>1. ~Lost(2)
    BY TypesAssumption DEF Lost, TypeOK, GroupTypeOK
  <2>2. \A h \in Handler : target[h] = v => pc[h] = "idle"
    BY DEF Serving
  <2> QED
    BY <2>1, <2>2 DEF NicInv, NicGiven, Leaving, Held, At
<1> QED
  BY <1>1, TypeCorrect, NicAlways, PTL

----------------------------------------------------------------------------
(* The connection of a VM *)

\* Apart from the steps on a connection nothing happens to the connections.
LEMMA VpnsAside ==
  ASSUME TypeOK, NEW h \in Handler, HandlerStep(h), ~ VpnMove(h)
  PROVE  /\ UNCHANGED vpnVars
         /\ pc[h] \notin VpnStep \ {"detach"}
         /\ pc'[h] \in VpnStep => pc[h] = "readItem" /\ pc'[h] = "findVpn"
<1> USE DEF TypeOK, GroupTypeOK, VpnStep, Goto, Finish
<1>1. CASE NicMove(h)
  BY <1>1 DEF NicMove, Attach, Detach, ListNics, CreateNic, TagNic, SetAttaching,
     AttachNic, SetAttached, RevertNic, RevertRecord, ListAttached, DetachNic, DeleteNic,
     DeleteNicRecord, LeaveNic, ReleaseNic
<1>2. CASE HookMove(h)
  BY <1>2 DEF HookMove, Launching, Terminating, Concluding, Register, CreateLaunching,
     Unregister, AbandonLaunch, ReadItem, Abandon, OutOfSync, Deregister, Existing,
     AbandonExisting, CreateTerminating, AbandonTermination, CompleteTerminating,
     CloseTerminating, LaunchedItem, TerminatedItem, DropItem, HeartbeatItem,
     CompleteLaunching, ExpectItem
<1> QED
  BY <1>1, <1>2 DEF HandlerStep, NicMove, VpnMove, HookMove

\* The connection that a handler works on has no record but that of its VM.
VpnKnown(h) ==
  pc[h] \in VpnHeld => \A v \in Vm : vpnRecord[v] = vpn[h] => v = target[h]

VpnInv ==
  /\ \A v, w \in Vm : vpnRecord[v] = vpnRecord[w] /\ vpnRecord[v] # None => v = w
  /\ \A h \in Handler : VpnKnown(h)

\* A step on a connection changes the record of its VM and its own connection.
OwnVpn(h) ==
  /\ \/ vpnRecord'[target[h]] \in {vpnRecord[target[h]], None}
     \/ pc[h] \in VpnHeld /\ vpnRecord'[target[h]] = vpn[h]
  /\ \A c \in connections \ connections' : pc[h] = "deleteConnection" /\ c = vpn[h]
  /\ \A c \in gateways \ gateways' : pc[h] \in {"revertGateway", "deleteGateway"} /\ c = vpn[h]

\* What the steps on a connection change of the others.
LEMMA OwnVpnOnly ==
  ASSUME TypeOK, NEW h \in Handler, VpnMove(h)
  PROVE  OwnVpn(h)
<1> USE TypesAssumption DEF TypeOK, GroupTypeOK, VpnTypeOK, VpnStep, VpnHeld, OwnVpn,
  Fine, Suffer, Goto, Finish, vpnVars, VpnMove
<1>1. CASE FindVpn(h)
  BY <1>1 DEF FindVpn
<1>2. CASE CreateGateway(h)
  BY <1>2 DEF CreateGateway, NewVpn, Route
<1>3. CASE CreateConnection(h)
  BY <1>3 DEF CreateConnection
<1>4. CASE RevertGateway(h)
  BY <1>4 DEF RevertGateway, Remove, Deletable, Exists, ReleaseVpn
<1>5. CASE TagVpn(h)
  BY <1>5 DEF TagVpn
<1>6. CASE InvokeUpdate(h)
  BY <1>6 DEF InvokeUpdate, Waiting, ReleaseVpn
<1>7. CASE SaveVpn(h)
  BY <1>7 DEF SaveVpn, ReleaseVpn
<1>8. CASE FindAttached(h)
  BY <1>8 DEF FindAttached, LeaveVpn, ReleaseVpn
<1>9. CASE DeleteConnection(h)
  BY <1>9 DEF DeleteConnection, LeaveVpn, ReleaseVpn, Delete, Remove, Deletable, Exists
<1>10. CASE DeleteGateway(h)
  BY <1>10 DEF DeleteGateway, LeaveVpn, ReleaseVpn, Delete, Remove, Deletable, Exists
<1>11. CASE DeleteVpnRecord(h)
  BY <1>11 DEF DeleteVpnRecord, LeaveVpn, ReleaseVpn
<1> QED
  BY <1>1, <1>2, <1>3, <1>4, <1>5, <1>6, <1>7, <1>8, <1>9, <1>10, <1>11 DEF VpnMove,
     AttachVpn, DetachVpn

\* What a handler knows of its connection.
LEMMA VpnKept ==
  ASSUME TypeOK, TypeOK', Orderly, OneBusy, VpnInv, NEW h \in Handler, VpnMove(h)
  PROVE  VpnKnown(h)'
<1>a. /\ target[h] \in Vm
      /\ \A g \in Handler \ {h} : pc[g] = "idle" /\ pc'[g] = "idle"
      /\ pc'[h] # "idle" => target'[h] = target[h]
  BY Alone DEF HandlerStep, VpnMove
<1> USE TypesAssumption, <1>a DEF TypeOK, GroupTypeOK, VpnTypeOK, VpnStep, VpnHeld,
  VpnInv, VpnKnown, Fine, Suffer, Goto, Finish, vpnVars, VpnMove
<1>1. CASE FindVpn(h)
  BY <1>1 DEF FindVpn
<1>2. CASE CreateGateway(h)
  BY <1>2 DEF CreateGateway, NewVpn, Route
<1>3. CASE CreateConnection(h)
  BY <1>3 DEF CreateConnection
<1>4. CASE RevertGateway(h)
  BY <1>4 DEF RevertGateway, Remove, Deletable, Exists, ReleaseVpn
<1>5. CASE TagVpn(h)
  BY <1>5 DEF TagVpn
<1>6. CASE InvokeUpdate(h)
  BY <1>6 DEF InvokeUpdate, Waiting, ReleaseVpn
<1>7. CASE SaveVpn(h)
  BY <1>7 DEF SaveVpn, ReleaseVpn
<1>8. CASE FindAttached(h)
  BY <1>8 DEF FindAttached, LeaveVpn, ReleaseVpn
<1>9. CASE DeleteConnection(h)
  BY <1>9 DEF DeleteConnection, LeaveVpn, ReleaseVpn, Delete, Remove, Deletable, Exists
<1>10. CASE DeleteGateway(h)
  BY <1>10 DEF DeleteGateway, LeaveVpn, ReleaseVpn, Delete, Remove, Deletable, Exists
<1>11. CASE DeleteVpnRecord(h)
  BY <1>11 DEF DeleteVpnRecord, LeaveVpn, ReleaseVpn
<1> QED
  BY <1>1, <1>2, <1>3, <1>4, <1>5, <1>6, <1>7, <1>8, <1>9, <1>10, <1>11 DEF VpnMove,
     AttachVpn, DetachVpn

LEMMA VpnStays ==
  ASSUME TypeOK, TypeOK', Orderly, OneBusy, VpnInv, [Next]_vars
  PROVE  VpnInv'
<1>1. ASSUME NEW h \in Handler, VpnMove(h) PROVE VpnInv'
  <2>1. HandlerStep(h)
    BY <1>1 DEF HandlerStep, VpnMove
  <2>2. /\ target[h] \in Vm
        /\ \A g \in Handler \ {h} : pc[g] = "idle" /\ pc'[g] = "idle"
    BY <2>1, Alone
  <2>3. \A g \in Handler : VpnKnown(g)'
    BY <1>1, <2>2, VpnKept DEF VpnKnown, VpnHeld, VpnStep
  <2>4. OwnVm(target[h]) /\ OwnVpn(h)
    BY <1>1, <2>1, StepsOfOne, OwnVpnOnly DEF StepOf
  <2> QED
    BY <2>2, <2>3, <2>4 DEF VpnInv, VpnKnown, OwnVm, OwnVpn
<1>2. ASSUME UNCHANGED <<vpnRecord, vpn>>,
             \A h \in Handler : pc'[h] \in VpnHeld => pc'[h] = pc[h] /\ target'[h] = target[h]
      PROVE  VpnInv'
  BY <1>2 DEF VpnInv, VpnKnown
<1>3. ASSUME NEW h \in Handler, HandlerStep(h), ~ VpnMove(h) PROVE VpnInv'
  BY <1>2, <1>3, VpnsAside, Alone DEF VpnHeld, VpnStep, vpnVars
<1>4. ASSUME NEW h \in Handler, NEW v \in Vm, NEW step \in Step, Begins(h, v, step)
      PROVE  VpnInv'
  BY <1>2, <1>4 DEF Begins, Begin, Goto, Free, Orderly, FirstStep, Event, VpnHeld,
     VpnStep, vpnVars, TypeOK, GroupTypeOK
<1>5. ASSUME Outside PROVE VpnInv'
  BY <1>2, <1>5, OutsideStays DEF localVars
<1>6. CASE UNCHANGED vars
  BY <1>2, <1>6 DEF vars, localVars, vpnVars
<1> QED
  BY <1>1, <1>3, <1>4, <1>5, <1>6, OrderlyNext

LEMMA VpnAlways == Spec => [](Orderly => VpnInv)
<1>1. Init => VpnInv
  BY DEF Init, GroupInit, VpnInit, VpnInv, VpnKnown, VpnHeld, VpnStep
<1>2. TypeOK /\ TypeOK' /\ OneBusy /\ (Orderly => VpnInv) /\ [Next]_vars => (Orderly => VpnInv)'
  BY VpnStays, ConfStays DEF Orderly
<1> QED
  BY <1>1, <1>2, TypeCorrect, OneBusyAlways, PTL DEF Spec

----------------------------------------------------------------------------
(* What a launch without failures gives to a VM *)

\* A clean-up has begun only when the stack is stopped.
CleanInv == service # "stopped" => unused = {} /\ leftover = {}

LEMMA CleanStays ==
  ASSUME CleanInv, [Next]_vars
  PROVE  CleanInv' /\ (service' # "stopped" => service # "stopped")
<1> USE DEF CleanInv
<1>1. ASSUME NEW h \in Handler, HandlerStep(h) PROVE UNCHANGED <<service, unused, leftover>>
  BY <1>1 DEF HandlerStep, Launching, Terminating, Concluding, Attach, Detach, AttachVpn,
     DetachVpn, Register, CreateLaunching, Unregister, AbandonLaunch, ReadItem, Abandon,
     OutOfSync, Deregister, Existing, AbandonExisting, CreateTerminating,
     AbandonTermination, CompleteTerminating, CloseTerminating, LaunchedItem,
     TerminatedItem, DropItem, HeartbeatItem, CompleteLaunching, ExpectItem, ListNics,
     CreateNic, TagNic, SetAttaching, AttachNic, SetAttached, RevertNic, RevertRecord,
     ListAttached, DetachNic, DeleteNic, DeleteNicRecord, FindVpn, CreateGateway,
     CreateConnection, RevertGateway, TagVpn, InvokeUpdate, SaveVpn, FindAttached,
     DeleteConnection, DeleteGateway, DeleteVpnRecord, Delete, nicVars, vpnVars
<1> QED
  BY <1>1 DEF Next, Group, ScaleOut, ScaleIn, HookTimeout, StopScalingGroup, Receive,
     FirstHeartbeat, Miss, Crash, CleanUp, CleanUpNics, CleanUpNic, CleanUpOfVpns,
     CleanUpVpns, CleanUpVpn, Routes, UpdateRoutes, ExtendExecution, GiveUpRoutes,
     SetRouting, GroupStopped, groupVars, nicVars, vpnVars, vars

\* Nothing fails, and the stack is not deleted.
Quiet == Orderly /\ "call" \notin conf.faults /\ service # "stopped"

LEMMA QuietBefore ==
  ASSUME CleanInv, Quiet', [Next]_vars
  PROVE  Quiet
BY CleanStays, ConfStays DEF Quiet, Orderly

\* Nobody but a handler deletes anything.
LEMMA QuietOutside ==
  ASSUME Quiet, CleanInv, Outside
  PROVE  UNCHANGED <<nics, nicOf, gateways, connections>>
BY DEF Quiet, CleanInv, Outside, Group, ScaleOut, ScaleIn, HookTimeout, StopScalingGroup,
   Miss, CleanUp, CleanUpNics, CleanUpNic, CleanUpOfVpns, CleanUpVpns, CleanUpVpn, Routes,
   UpdateRoutes, ExtendExecution, GiveUpRoutes, SetRouting, nicVars, vpnVars

\* What a handler created is there when it goes on, and it takes nothing back
\* unless the VM is gone.
Prepared(h) ==
  /\ pc[h] \in {"tagNic", "setAttaching", "attachNic", "setAttached"} => nic[h] \in nics
  /\ pc[h] = "createConnection" => vpn[h] \in gateways
  /\ pc[h] \in {"tagVpn", "invokeUpdate", "saveVpn"} => vpn[h] \in connections
  /\ pc[h] \in {"revertNic", "revertRecord", "abandon"} => phase[target[h]] = "gone"
  /\ pc[h] \notin {"unregister", "abandonLaunch", "abandonTermination", "revertGateway"}

PreparedInv == \A h \in Handler : Prepared(h)

LEMMA PreparedStays ==
  ASSUME TypeOK, TypeOK', OneBusy, CleanInv, Quiet, PreparedInv, [Next]_vars
  PROVE  PreparedInv'
<1> USE DEF PreparedInv, Prepared
<1>0. Orderly /\ "call" \notin conf.faults
  BY DEF Quiet
<1>1. ASSUME NEW h \in Handler, HandlerStep(h) PROVE PreparedInv'
  <2>1. /\ target[h] \in Vm
        /\ \A g \in Handler \ {h} : pc[g] = "idle" /\ pc'[g] = "idle"
        /\ pc'[h] # "idle" => target'[h] = target[h]
    BY <1>0, <1>1, Alone
  <2>2. Onward(h) /\ Passes(h, target[h])
    BY <1>1, StepsOfOne DEF StepOf
  <2>3. phase[target[h]] = "gone" => phase'[target[h]] = "gone"
    BY <2>2 DEF Passes
  <2>4. CASE NicMove(h)
    <3>1. /\ pc'[h] \in {"tagNic", "setAttaching", "attachNic", "setAttached"} => nic'[h] \in nics'
          /\ pc'[h] \in {"revertNic", "revertRecord"} => phase[target[h]] = "gone"
          /\ pc'[h] \notin {"createConnection", "tagVpn", "invokeUpdate", "saveVpn",
                           "revertGateway"}
      BY <1>0, <2>4 DEF NicMove, Attach, Detach, ListNics, CreateNic, TagNic,
         SetAttaching, AttachNic, SetAttached, RevertNic, RevertRecord, ListAttached,
         DetachNic, DeleteNic, DeleteNicRecord, LeaveNic, Goto, Finish, Suffer, TypeOK,
         GroupTypeOK, NicTypeOK
    <3> QED
      BY <1>0, <2>1, <2>2, <2>3, <3>1 DEF Onward
  <2>5. CASE VpnMove(h)
    <3>1. /\ pc'[h] = "createConnection" => vpn'[h] \in gateways'
          /\ pc'[h] \in {"tagVpn", "invokeUpdate", "saveVpn"} => vpn'[h] \in connections'
          /\ pc'[h] \notin {"tagNic", "setAttaching", "attachNic", "setAttached",
                           "revertNic", "revertRecord", "revertGateway"}
      BY <1>0, <2>5 DEF VpnMove, AttachVpn, DetachVpn, FindVpn, CreateGateway,
         CreateConnection, RevertGateway, TagVpn, InvokeUpdate, SaveVpn, FindAttached,
         DeleteConnection, DeleteGateway, DeleteVpnRecord, Delete, LeaveVpn, Goto, Finish,
         Suffer, TypeOK, GroupTypeOK, VpnTypeOK
    <3> QED
      BY <1>0, <2>1, <2>2, <2>3, <3>1 DEF Onward
  <2>6. CASE ~NicMove(h) /\ ~VpnMove(h)
    <3>1. pc'[h] \notin (NicStep \cup VpnStep) \ {"detach", "listNics", "findVpn"}
      BY <1>1, <2>6, NicsAside, VpnsAside DEF NicStep, VpnStep
    <3> QED
      BY <1>0, <2>1, <2>2, <2>3, <3>1 DEF Onward, NicStep, VpnStep
  <2> QED
    BY <2>4, <2>5, <2>6
<1>2. ASSUME NEW h \in Handler, NEW v \in Vm, NEW step \in Step, Begins(h, v, step)
      PROVE  PreparedInv'
  <2>1. \A g \in Handler : pc'[g] \in {"idle", "register", "launchedItem", "detach",
                                       "terminatedItem", "heartbeatItem"}
    BY <1>0, <1>2 DEF Begins, Begin, Goto, Free, Orderly, FirstStep, Event, TypeOK,
       GroupTypeOK
  <2> QED
    BY <2>1
<1>3. ASSUME Outside PROVE PreparedInv'
  <2>1. UNCHANGED <<pc, target, nic, vpn, nics, gateways, connections>>
    BY <1>3, OutsideStays, QuietOutside DEF localVars
  <2>2. \A v \in Vm : phase[v] = "gone" => phase'[v] = "gone"
    BY <1>3, OutsidePasses DEF PassesOutside
  <2> QED
    BY <2>1, <2>2 DEF TypeOK, GroupTypeOK
<1>4. CASE UNCHANGED vars
  BY <1>4 DEF vars, localVars, groupVars, nicVars, vpnVars
<1> QED
  BY <1>0, <1>1, <1>2, <1>3, <1>4, OrderlyNext

LEMMA CleanAlways == Spec => []CleanInv
<1>1. Init => CleanInv
  BY DEF Init, NicInit, VpnInit, CleanInv
<1>2. CleanInv /\ [Next]_vars => CleanInv'
  BY CleanStays
<1> QED
  BY <1>1, <1>2, PTL DEF Spec

LEMMA PreparedAlways == Spec => [](Quiet => PreparedInv)
<1>1. Init => PreparedInv
  BY DEF Init, GroupInit, PreparedInv, Prepared
<1>2. /\ TypeOK /\ TypeOK' /\ OneBusy /\ CleanInv /\ (Quiet => PreparedInv) /\ [Next]_vars
      => (Quiet => PreparedInv)'
  BY PreparedStays, QuietBefore
<1> QED
  BY <1>1, <1>2, TypeCorrect, OneBusyAlways, CleanAlways, PTL DEF Spec

\* The steps of a launch that may still give an interface, or a connection.
NicPath == {"register", "createLaunching", "readItem", "listNics", "createNic", "tagNic",
            "setAttaching", "attachNic", "setAttached"}
VpnPath == {"register", "createLaunching", "readItem", "findVpn", "createGateway",
            "createConnection", "tagVpn", "invokeUpdate", "saveVpn"}

Attached(v) == nicRecord[v] # None /\ nicOf[nicRecord[v].nic] = v

\* A VM that was launched has what its launch is to give to it, unless the
\* launch is still to be handled.
NicDue(v) ==
  phase[v] \in {"launching", "inService"} =>
    Attached(v) \/ "launching" \in events[v] \/ At(v, NicPath)

VpnDue(v) ==
  phase[v] \in {"launching", "inService"} =>
    vpnRecord[v] \in connections \/ "launching" \in events[v] \/ At(v, VpnPath)

GivenInv ==
  /\ conf.attachment = "nic" => \A v \in Vm : NicDue(v)
  /\ conf.attachment = "vpn" => \A v \in Vm : VpnDue(v)
  /\ \A v \in Vm : ~Leaving(v) => vpnRecord[v] \in connections \cup {None}

\* Without a failure a launch comes to its attachment.
LEMMA HookPath ==
  ASSUME TypeOK, Quiet, NEW h \in Handler, HandlerStep(h),
         pc[h] \in {"register", "createLaunching", "readItem"}, phase[target[h]] # "gone"
  PROVE  \/ pc'[h] \in {"createLaunching", "readItem"}
         \/ conf.attachment = "nic" /\ pc'[h] = "listNics"
         \/ conf.attachment = "vpn" /\ pc'[h] = "findVpn"
<1>1. HookMove(h)
  BY DEF HandlerStep, HookMove, Attach, Detach, ListNics, CreateNic, TagNic, SetAttaching,
     AttachNic, SetAttached, RevertNic, RevertRecord, ListAttached, DetachNic, DeleteNic,
     DeleteNicRecord, AttachVpn, DetachVpn, FindVpn, CreateGateway, CreateConnection,
     RevertGateway, TagVpn, InvokeUpdate, SaveVpn, FindAttached, DeleteConnection,
     DeleteGateway, DeleteVpnRecord
<1>2. "call" \notin conf.faults /\ conf.attachment \in {"nic", "vpn"}
  BY GroupAssumption DEF Quiet, TypeOK, GroupTypeOK, Deployment
<1> QED
  BY <1>1, <1>2 DEF HookMove, Launching, Terminating, Concluding, Register,
     CreateLaunching, Unregister, AbandonLaunch, ReadItem, Abandon, OutOfSync, Deregister,
     Existing, AbandonExisting, CreateTerminating, AbandonTermination,
     CompleteTerminating, CloseTerminating, LaunchedItem, TerminatedItem, DropItem,
     HeartbeatItem, CompleteLaunching, ExpectItem, Suffer, Goto, TypeOK, GroupTypeOK

LEMMA NicDueStep ==
  ASSUME TypeOK, TypeOK', OneBusy, Quiet, PhaseInv, NicInv, PreparedInv,
         conf.attachment = "nic", NEW v \in Vm, NicDue(v), NEW h \in Handler, HandlerStep(h)
  PROVE  NicDue(v)'
<1>1. /\ target[h] \in Vm
      /\ \A g \in Handler \ {h} : pc[g] = "idle" /\ pc'[g] = "idle"
      /\ pc'[h] # "idle" => target'[h] = target[h]
  BY Alone DEF Quiet
<1>2. OwnVm(target[h]) /\ Passes(h, target[h])
  BY StepsOfOne DEF StepOf
<1> SUFFICES ASSUME phase'[v] \in {"launching", "inService"}
             PROVE  Attached(v)' \/ "launching" \in events'[v] \/ At(v, NicPath)'
  BY DEF NicDue
<1>3. phase[v] \in {"launching", "inService"}
  BY <1>1, <1>2 DEF OwnVm, Passes
<1>4. "launching" \in events[v] => "launching" \in events'[v]
  BY <1>1, <1>2 DEF OwnVm, Passes
<1>5. CASE ~NicMove(h)
  <2>1. Attached(v) => Attached(v)'
    BY <1>5, NicsAside DEF Attached, nicVars
  <2>2. ASSUME At(v, NicPath) PROVE At(v, NicPath)'
    <3>1. pc[h] \in NicPath /\ target[h] = v
      BY <1>1, <2>2 DEF At, NicPath
    <3>2. pc[h] \in {"register", "createLaunching", "readItem"}
      BY <1>5, <3>1, NicsAside DEF NicPath, NicStep
    <3>3. pc'[h] \in {"createLaunching", "readItem", "listNics"}
      BY <1>3, <3>1, <3>2, HookPath
    <3> QED
      BY <1>1, <3>1, <3>3 DEF At, NicPath
  <2> QED
    BY <1>3, <1>4, <2>1, <2>2 DEF NicDue
<1>6. CASE NicMove(h) /\ target[h] # v
  <2>1. ~ At(v, NicPath)
    BY <1>1, <1>6 DEF At, NicPath
  <2>2. ASSUME Attached(v) PROVE Attached(v)'
    <3>1. nicRecord'[v] = nicRecord[v] /\ nicRecord[v].nic \in Nic
      BY <1>2, <1>6, <2>2 DEF OwnVm, Attached, TypeOK, NicTypeOK, NicRecord
    <3>2. pc[h] \in NicHeld => ~HasRecord(v, nic[h])
      BY <1>6 DEF NicInv, NicKnown
    <3> QED
      BY <1>6, <2>2, <3>1, <3>2, OwnNicOnly DEF Attached, OwnNic, HasRecord
  <2> QED
    BY <1>3, <1>4, <2>1, <2>2 DEF NicDue
<1>7. CASE NicMove(h) /\ target[h] = v
  <2>1. Prepared(h) /\ NicKnown(h) /\ "call" \notin conf.faults /\ nic[h] \in Nic \cup {None}
    BY DEF PreparedInv, NicInv, Quiet, TypeOK, NicTypeOK
  <2>2. ~ Detach(h)
    BY <1>3, <1>7 DEF PhaseInv, Leaving, TerminateStep, DetachStep, Detach, ListAttached,
       DetachNic, DeleteNic, DeleteNicRecord
  <2>3. pc[h] = "listNics" /\ nicRecord[v] # None => Attached(v)
    BY <1>1, <1>3, <1>7, <2>1 DEF NicInv, NicGiven, Leaving, Held, Attached, Lost, At
  <2>4. CASE ListNics(h)
    BY <1>1, <1>7, <2>1, <2>3, <2>4 DEF ListNics, Goto, Suffer, At, NicPath, Attached,
       nicVars, TypeOK, GroupTypeOK
  <2>5. CASE CreateNic(h) \/ TagNic(h) \/ SetAttaching(h)
    BY <1>1, <1>7, <2>1, <2>5 DEF CreateNic, TagNic, SetAttaching, Goto, Suffer, At,
       NicPath, TypeOK, GroupTypeOK
  <2>6. CASE AttachNic(h)
    BY <1>1, <1>3, <1>7, <2>1, <2>6 DEF AttachNic, Prepared, Goto, Suffer, At, NicPath,
       TypeOK, GroupTypeOK
  <2>7. CASE SetAttached(h)
    <3>1. /\ nicRecord'[v] = Record(nic[h], "Attached") /\ nicOf' = nicOf
          /\ nicOf[nic[h]] = v /\ nic[h] \in Nic
      BY <1>3, <1>7, <2>1, <2>7 DEF SetAttached, NicKnown, Suffer, TypeOK, NicTypeOK,
         NicHeld, NicStep
    <3>2. Record(nic[h], "Attached") \in NicRecord /\ Record(nic[h], "Attached").nic = nic[h]
      BY <3>1 DEF Record, NicRecord
    <3> QED
      BY <3>1, <3>2, NicAssumption DEF Attached
  <2>8. ~RevertNic(h) /\ ~RevertRecord(h)
    BY <1>3, <1>7, <2>1 DEF RevertNic, RevertRecord, Prepared
  <2> QED
    BY <1>7, <2>2, <2>4, <2>5, <2>6, <2>7, <2>8 DEF NicMove, Attach
<1> QED
  BY <1>5, <1>6, <1>7

\* A connection is deleted only while its VM leaves.
LEMMA ConnectionsStay ==
  ASSUME TypeOK, OneBusy, Quiet, PhaseInv, VpnInv, NEW v \in Vm, ~Leaving(v),
         NEW h \in Handler, HandlerStep(h), vpnRecord[v] \in connections
  PROVE  vpnRecord[v] \in connections'
<1>1. CASE VpnMove(h)
  BY <1>1, OwnVpnOnly DEF OwnVpn, VpnInv, VpnKnown, VpnHeld, VpnStep, PhaseInv,
     TerminateStep, DetachStep
<1>2. CASE ~VpnMove(h)
  BY <1>2, VpnsAside DEF vpnVars
<1> QED
  BY <1>1, <1>2

LEMMA VpnDueStep ==
  ASSUME TypeOK, TypeOK', OneBusy, Quiet, PhaseInv, VpnInv, PreparedInv,
         NEW v \in Vm, ~Leaving(v) => vpnRecord[v] \in connections \cup {None},
         NEW h \in Handler, HandlerStep(h)
  PROVE  /\ ~Leaving(v)' => vpnRecord'[v] \in connections' \cup {None}
         /\ conf.attachment = "vpn" /\ VpnDue(v) => VpnDue(v)'
<1>1. /\ target[h] \in Vm
      /\ \A g \in Handler \ {h} : pc[g] = "idle" /\ pc'[g] = "idle"
      /\ pc'[h] # "idle" => target'[h] = target[h]
  BY Alone DEF Quiet
<1>2. OwnVm(target[h]) /\ Passes(h, target[h])
  BY StepsOfOne DEF StepOf
<1>3. ~Leaving(v)' => ~Leaving(v)
  BY <1>1, <1>2 DEF OwnVm, Passes, Leaving
<1>4. phase'[v] \in {"launching", "inService"} => phase[v] \in {"launching", "inService"}
  BY <1>1, <1>2 DEF OwnVm, Passes
<1>5. "launching" \in events[v] => "launching" \in events'[v]
  BY <1>1, <1>2 DEF OwnVm, Passes
<1>6. ~Leaving(v) /\ vpnRecord[v] \in connections => vpnRecord[v] \in connections'
  BY ConnectionsStay
<1>7. CASE ~VpnMove(h)
  <2>1. vpnRecord' = vpnRecord
    BY <1>7, VpnsAside DEF vpnVars
  <2>2. ASSUME At(v, VpnPath), conf.attachment = "vpn", phase[v] # "gone"
        PROVE  At(v, VpnPath)'
    <3>1. pc[h] \in VpnPath /\ target[h] = v
      BY <1>1, <2>2 DEF At, VpnPath
    <3>2. pc[h] \in {"register", "createLaunching", "readItem"}
      BY <1>7, <3>1, VpnsAside DEF VpnPath, VpnStep
    <3>3. pc'[h] \in {"createLaunching", "readItem", "findVpn"}
      BY <2>2, <3>1, <3>2, HookPath
    <3> QED
      BY <1>1, <3>1, <3>3 DEF At, VpnPath
  <2> QED
    BY <1>3, <1>4, <1>5, <1>6, <2>1, <2>2 DEF VpnDue, Leaving
<1>8. CASE VpnMove(h) /\ target[h] # v
  <2>1. vpnRecord'[v] = vpnRecord[v] /\ ~ At(v, VpnPath)
    BY <1>1, <1>2, <1>8 DEF OwnVm, At, VpnPath
  <2> QED
    BY <1>3, <1>4, <1>5, <1>6, <2>1 DEF VpnDue, Leaving
<1>9. CASE VpnMove(h) /\ target[h] = v
  <2> SUFFICES ASSUME ~Leaving(v)'
               PROVE  /\ vpnRecord'[v] \in connections' \cup {None}
                      /\ \/ vpnRecord'[v] \in connections'
                         \/ At(v, VpnPath)'
    BY DEF VpnDue, Leaving
  <2>1. Prepared(h) /\ "call" \notin conf.faults
    BY DEF PreparedInv, Quiet
  <2>2. ~ DetachVpn(h)
    BY <1>3, <1>9 DEF PhaseInv, TerminateStep, DetachStep, DetachVpn, FindAttached,
       DeleteConnection, DeleteGateway, DeleteVpnRecord
  <2>3. vpnRecord[v] \in connections \cup {None}
    BY <1>3
  <2>4. CASE FindVpn(h)
    BY <1>1, <1>9, <2>1, <2>3, <2>4 DEF FindVpn, Recorded, Goto, Suffer, At, VpnPath,
       vpnVars, TypeOK, GroupTypeOK
  <2>5. CASE CreateGateway(h)
    BY <1>1, <1>3, <1>9, <2>1, <2>3, <2>5 DEF CreateGateway, Goto, Suffer, At, VpnPath,
       Leaving, TypeOK, GroupTypeOK
  <2>6. CASE CreateConnection(h)
    BY <1>1, <1>9, <2>1, <2>3, <2>6 DEF CreateConnection, Prepared, Goto, Suffer, At,
       VpnPath, TypeOK, GroupTypeOK
  <2>7. CASE TagVpn(h) \/ InvokeUpdate(h)
    BY <1>1, <1>9, <2>1, <2>3, <2>7 DEF TagVpn, InvokeUpdate, Goto, Suffer, At, VpnPath,
       TypeOK, GroupTypeOK
  <2>8. CASE SaveVpn(h)
    BY <1>9, <2>1, <2>8 DEF SaveVpn, Prepared, Suffer, TypeOK, VpnTypeOK
  <2>9. ~RevertGateway(h)
    BY <2>1 DEF RevertGateway, Prepared
  <2> QED
    BY <1>9, <2>2, <2>4, <2>5, <2>6, <2>7, <2>8, <2>9 DEF VpnMove, AttachVpn
<1> QED
  BY <1>7, <1>8, <1>9

LEMMA GivenStays ==
  ASSUME TypeOK, TypeOK', OneBusy, CleanInv, Quiet, PhaseInv, NicInv, VpnInv, PreparedInv,
         GivenInv, [Next]_vars
  PROVE  GivenInv'
<1>0. Orderly /\ conf' = conf /\ "call" \notin conf.faults
  BY ConfStays DEF Quiet
<1>1. ASSUME NEW h \in Handler, HandlerStep(h) PROVE GivenInv'
  BY <1>0, <1>1, NicDueStep, VpnDueStep DEF GivenInv
<1>2. ASSUME NEW h \in Handler, NEW v \in Vm, NEW step \in Step, Begins(h, v, step)
      PROVE  GivenInv'
  <2>1. UNCHANGED <<phase, nicVars, vpnVars>> /\ \A g \in Handler : pc[g] = "idle"
    BY <1>0, <1>2 DEF Begins, Begin, Free, Orderly
  <2>2. /\ pc'[h] = step /\ target'[h] = v
        /\ \A u \in Vm \ {v} : events'[u] = events[u]
    BY <1>2 DEF Begins, Begin, Goto, TypeOK, GroupTypeOK
  <2>3. "launching" \in events[v] => "launching" \in events'[v] \/ step = "register"
    BY <1>2 DEF Begins, FirstStep, Event, TypeOK, GroupTypeOK
  <2>4. \A u \in Vm : ~At(u, NicPath) /\ ~At(u, VpnPath)
    BY <2>1 DEF At, NicPath, VpnPath
  <2>5. step = "register" => At(v, NicPath)' /\ At(v, VpnPath)'
    BY <2>2 DEF At, NicPath, VpnPath
  <2> QED
    BY <1>0, <2>1, <2>2, <2>3, <2>4, <2>5
       DEF GivenInv, NicDue, VpnDue, Attached, Leaving, nicVars, vpnVars
<1>3. ASSUME Outside PROVE GivenInv'
  <2>1. UNCHANGED <<pc, target, nicRecord, vpnRecord, nicOf, connections>>
    BY <1>3, OutsideStays, QuietOutside DEF localVars
  <2>2. \A v \in Vm : PassesOutside(v)
    BY <1>3, OutsidePasses
  <2>3. \A v \in Vm :
          /\ phase'[v] \in {"launching", "inService"} =>
               phase[v] \in {"launching", "inService"} \/ "launching" \in events'[v]
          /\ "launching" \in events[v] => "launching" \in events'[v]
          /\ ~Leaving(v)' => ~Leaving(v)
    BY <1>0, <2>2 DEF PassesOutside, Leaving
  <2> QED
    BY <1>0, <2>1, <2>3 DEF GivenInv, NicDue, VpnDue, Attached, At
<1>4. CASE UNCHANGED vars
  BY <1>0, <1>4 DEF vars, localVars, groupVars, nicVars, vpnVars, GivenInv, NicDue,
     VpnDue, Attached, At, Leaving
<1> QED
  BY <1>0, <1>1, <1>2, <1>3, <1>4, OrderlyNext

LEMMA GivenAlways == Spec => [](Quiet => GivenInv)
<1>1. Init => GivenInv
  BY DEF Init, GroupInit, VpnInit, GivenInv, NicDue, VpnDue
<1>2. /\ TypeOK /\ TypeOK' /\ OneBusy /\ CleanInv /\ (Orderly => PhaseInv)
      /\ (Orderly => NicInv) /\ (Orderly => VpnInv) /\ (Quiet => PreparedInv)
      /\ (Quiet => GivenInv) /\ [Next]_vars
      => (Quiet => GivenInv)'
  BY GivenStays, QuietBefore DEF Quiet
<1> QED
  BY <1>1, <1>2, TypeCorrect, OneBusyAlways, CleanAlways, PhaseAlways, NicAlways,
     VpnAlways, PreparedAlways, PTL DEF Spec

\* A VM in service has the interface, or the connection, that its record names,
\* when no call fails.
THEOREM AttachedInService == Spec => []InServiceIsAttached
<1>1. TypeOK /\ (Orderly => PhaseInv) /\ (Quiet => GivenInv) => InServiceIsAttached
  <2> SUFFICES ASSUME TypeOK, Orderly, PhaseInv, Quiet, GivenInv, NEW v \in Vm,
                      phase[v] = "inService", Serving(v) = {}
               PROVE  IF conf.attachment = "nic"
                      THEN nicRecord[v] # None /\ nicOf[nicRecord[v].nic] = v
                      ELSE vpnRecord[v] \in connections
    BY DEF InServiceIsAttached, OnlyFaults, Orderly, Quiet
  <2>1. ~ At(v, NicPath) /\ ~ At(v, VpnPath)
    BY DEF At, Serving, NicPath, VpnPath
  <2>2. "launching" \notin events[v]
    BY DEF PhaseInv
  <2>3. conf.attachment \in {"nic", "vpn"}
    BY GroupAssumption DEF TypeOK, GroupTypeOK, Deployment
  <2> QED
    BY <2>1, <2>2, <2>3 DEF GivenInv, NicDue, VpnDue, Attached
<1> QED
  BY <1>1, TypeCorrect, PhaseAlways, GivenAlways, PTL
====
