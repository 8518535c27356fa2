---- MODULE VmLifecycle_proofs ----
(***************************************************************************)
(* Theorems about VmLifecycle, for all VMs, handlers, deployments, faults  *)
(* and resources.                                                          *)
(***************************************************************************)
EXTENDS VmLifecycle, TLAPS

----------------------------------------------------------------------------
(* Types *)

LEMMA TypesAssumption ==
  /\ None \notin Vm \cup Phase \cup Nic \cup Vpn
  /\ MaxFaults \in Nat
  /\ RunTime \in Nat \ {0}
  /\ MaxExecutionTime \in Nat
BY GroupAssumption, NicAssumption, VpnAssumption

\* The steps on a network interface keep the types.
LEMMA NicTypes ==
  ASSUME TypeOK, NEW h \in Handler, Attach(h) \/ Detach(h),
         UNCHANGED <<vpnVars, itemVars>>
  PROVE  TypeOK'
<1> USE TypesAssumption DEF TypeOK, GroupTypeOK, NicTypeOK, VpnTypeOK, Step, NicStep,
  VpnStep, NicHeld, VpnHeld, localVars, Fine, Suffer, Goto, Finish, nicVars, vpnVars,
  itemVars
<1>1. CASE ListNics(h)
  BY <1>1 DEF ListNics
<1>2. CASE CreateNic(h)
  BY <1>2 DEF CreateNic, NewNic
<1>3. CASE TagNic(h)
  BY <1>3 DEF TagNic
<1>4. CASE SetAttaching(h)
  BY <1>4 DEF SetAttaching, Record, NicRecord
<1>5. CASE AttachNic(h)
  BY <1>5 DEF AttachNic
<1>6. CASE SetAttached(h)
  <2>1. Record(nic[h], "Attached") \in NicRecord
    BY <1>6 DEF SetAttached, Record, NicRecord
  <2>2. nicRecord' \in [Vm -> NicRecord \cup {None}]
    BY <1>6, <2>1 DEF SetAttached
  <2>3. /\ nic' \in [Handler -> Nic \cup {None}]
        /\ \A g \in Handler : pc'[g] \in NicHeld => nic'[g] \in Nic
    BY <1>6 DEF SetAttached, ReleaseNic
  <2>4. GroupTypeOK(Step)'
    BY <1>6 DEF SetAttached
  <2> QED
    BY <1>6, <2>2, <2>3, <2>4 DEF SetAttached
<1>7. CASE RevertNic(h)
  BY <1>7 DEF RevertNic, Gone
<1>8. CASE RevertRecord(h)
  BY <1>8 DEF RevertRecord, ReleaseNic, HasRecord
<1>9. CASE ListAttached(h)
  <2>1. nicRecord[target[h]] # None => nicRecord[target[h]].nic \in Nic
    BY <1>9 DEF ListAttached, NicRecord
  <2> QED
    BY <1>9, <2>1 DEF ListAttached, LeaveNic, ReleaseNic
<1>10. CASE DetachNic(h)
  BY <1>10 DEF DetachNic, LeaveNic, ReleaseNic
<1>11. CASE DeleteNic(h)
  BY <1>11 DEF DeleteNic, Gone, LeaveNic, ReleaseNic
<1>12. CASE DeleteNicRecord(h)
  BY <1>12 DEF DeleteNicRecord, LeaveNic, ReleaseNic
<1> QED
  BY <1>1, <1>2, <1>3, <1>4, <1>5, <1>6, <1>7, <1>8, <1>9, <1>10, <1>11, <1>12 DEF Attach,
     Detach

\* So do those on a VPN.
LEMMA VpnTypes ==
  ASSUME TypeOK, NEW h \in Handler, AttachVpn(h) \/ DetachVpn(h),
         UNCHANGED <<nicVars, itemVars>>
  PROVE  TypeOK'
<1> USE TypesAssumption DEF TypeOK, GroupTypeOK, NicTypeOK, VpnTypeOK, Step, NicStep,
  VpnStep, NicHeld, VpnHeld, localVars, Fine, Suffer, Goto, Finish, nicVars, vpnVars,
  itemVars, Routing
<1>1. CASE FindVpn(h)
  BY <1>1 DEF FindVpn
<1>2. CASE CreateGateway(h)
  BY <1>2 DEF CreateGateway, NewVpn, Route
<1>3. CASE CreateConnection(h)
  BY <1>3 DEF CreateConnection
<1>4. CASE RevertGateway(h)
  BY <1>4 DEF RevertGateway, Remove, Deletable, Exists, ReleaseVpn
<1>5. CASE TagVpn(h)
  BY <1>5 DEF TagVpn, Kind, Resource
<1>6. CASE InvokeUpdate(h)
  <2>1. Waiting(0) \in Routing
    BY DEF Waiting
  <2>2. routing' \in [Vpn -> Routing]
    BY <1>6, <2>1 DEF InvokeUpdate
  <2> QED
    BY <1>6, <2>2 DEF InvokeUpdate, ReleaseVpn
<1>7. CASE SaveVpn(h)
  BY <1>7 DEF SaveVpn, ReleaseVpn
<1>8. CASE FindAttached(h)
  BY <1>8 DEF FindAttached, LeaveVpn, ReleaseVpn
<1>9. CASE DeleteConnection(h)
  BY <1>9 DEF DeleteConnection, LeaveVpn, ReleaseVpn, Delete, Remove, Deletable, Exists
<1>10. CASE DeleteGateway(h)
  BY <1>10 DEF DeleteGateway, LeaveVpn, ReleaseVpn, Delete, Remove, Deletable, Exists
<1>11. CASE DeleteVpnRecord(h)
  BY <1>11 DEF DeleteVpnRecord, LeaveVpn, ReleaseVpn
<1> QED
  BY <1>1, <1>2, <1>3, <1>4, <1>5, <1>6, <1>7, <1>8, <1>9, <1>10, <1>11 DEF AttachVpn,
     DetachVpn

\* So do those of the lifecycle.
LEMMA HookTypes ==
  ASSUME TypeOK, NEW h \in Handler, Launching(h) \/ Terminating(h) \/ Concluding(h)
  PROVE  TypeOK'
<1> USE TypesAssumption DEF TypeOK, GroupTypeOK, NicTypeOK, VpnTypeOK, Step, NicStep,
  VpnStep, NicHeld, VpnHeld, localVars, Fine, Suffer, Goto, Finish, nicVars, vpnVars,
  itemVars
<1>1. CASE Register(h)
  <2>1. registered' \in [Handler -> BOOLEAN]
    BY <1>1, Zenon DEF Register
  <2> QED
    BY <1>1, <2>1 DEF Register
<1>2. CASE CreateLaunching(h)
  BY <1>2 DEF CreateLaunching, Hook
<1>3. CASE Unregister(h)
  BY <1>3 DEF Unregister
<1>4. CASE AbandonLaunch(h)
  BY <1>4 DEF AbandonLaunch, Complete, Refused, Outstanding, Completed, Enter, Announced,
     Hook, Phase, Event
<1>5. CASE ReadItem(h)
  BY <1>5 DEF ReadItem, Hook
<1>6. CASE Abandon(h)
  BY <1>6 DEF Abandon, Complete, Refused, Outstanding, Completed, Enter, Announced, Hook,
     Phase, Event
<1>7. CASE OutOfSync(h)
  BY <1>7 DEF OutOfSync
<1>8. CASE Deregister(h)
  BY <1>8 DEF Deregister
<1>9. CASE Existing(h)
  BY <1>9 DEF Existing, Hook
<1>10. CASE AbandonExisting(h)
  BY <1>10 DEF AbandonExisting, Complete, Refused, Outstanding, Completed, Enter,
     Announced, Hook, Phase, Event
<1>11. CASE CreateTerminating(h)
  BY <1>11 DEF CreateTerminating, Hook
<1>12. CASE AbandonTermination(h)
  BY <1>12 DEF AbandonTermination, Complete, Refused, Outstanding, Completed, Enter,
     Announced, Hook, Phase, Event
<1>13. CASE CompleteTerminating(h)
  BY <1>13 DEF CompleteTerminating, ExpectItem
<1>14. CASE CloseTerminating(h)
  BY <1>14 DEF CloseTerminating, Complete, Refused, Outstanding, Completed, Enter,
     Announced, Hook, Phase, Event
<1>15. CASE LaunchedItem(h)
  BY <1>15 DEF LaunchedItem, ExpectItem
<1>16. CASE TerminatedItem(h)
  BY <1>16 DEF TerminatedItem, ExpectItem
<1>17. CASE DropItem(h)
  BY <1>17 DEF DropItem
<1>18. CASE HeartbeatItem(h)
  BY <1>18 DEF HeartbeatItem, ExpectItem
<1>19. CASE CompleteLaunching(h)
  BY <1>19 DEF CompleteLaunching, Complete, Refused, Outstanding, Completed, Enter,
     Announced, Hook, Phase, Event
<1> QED
  BY <1>1, <1>2, <1>3, <1>4, <1>5, <1>6, <1>7, <1>8, <1>9, <1>10, <1>11, <1>12, <1>13,
     <1>14, <1>15, <1>16, <1>17, <1>18, <1>19 DEF Launching, Terminating, Concluding

\* So does what happens without a handler that runs.
LEMMA GroupTypes ==
  ASSUME TypeOK, Next,
         ~ \E h \in Handler : HandlerStep(h)
  PROVE  TypeOK'
<1> USE TypesAssumption DEF TypeOK, GroupTypeOK, NicTypeOK, VpnTypeOK, Step, NicStep,
  VpnStep, NicHeld, VpnHeld, groupVars, localVars, Fine, Suffer, nicVars, vpnVars,
  itemVars, Hook, Phase, Event
<1>1. CASE Group /\ UNCHANGED <<nicVars, vpnVars, itemVars>>
  BY <1>1 DEF Group, ScaleOut, ScaleIn, HookTimeout, StopScalingGroup, Enter,
     Announced, Completed
<1>2. ASSUME NEW h \in Handler, NEW v \in Vm, NEW e \in Event, Receive(h, v, e)
      PROVE  TypeOK'
  BY <1>2 DEF Receive, Begin, Goto, FirstStep
<1>3. ASSUME NEW h \in Handler, NEW v \in Vm, FirstHeartbeat(h, v)
      PROVE  TypeOK'
  BY <1>3 DEF FirstHeartbeat, Begin, Goto
<1>4. ASSUME NEW v \in Vm, NEW e \in Event, Miss(v, e)
      PROVE  TypeOK'
  BY <1>4 DEF Miss
<1>5. ASSUME NEW h \in Handler, Crash(h)
      PROVE  TypeOK'
  BY <1>5 DEF Crash, Finish, ReleaseNic, ReleaseVpn
<1>6. CASE CleanUp /\ UNCHANGED <<vpnVars, itemVars>>
  BY <1>6 DEF CleanUp, CleanUpNics, CleanUpNic, Gone
<1>7. CASE CleanUpOfVpns /\ UNCHANGED <<nicVars, itemVars>>
  BY <1>7 DEF CleanUpOfVpns, CleanUpVpns, CleanUpVpn, Remove, Deletable, Exists,
     Resource, Kind
<1>8. ASSUME NEW c \in Vpn, Routes(c), UNCHANGED <<nicVars, itemVars>>
      PROVE  TypeOK'
  <2>1. ASSUME NEW r \in Routing, SetRouting(c, r)
        PROVE  routing' \in [Vpn -> Routing]
    BY <2>1 DEF SetRouting
  <2>2. Route("updated") \in Routing /\ Route("failed") \in Routing
    BY DEF Route, Routing
  <2>3. routing[c].state = "waiting" => routing[c].executionTime \in 0..MaxExecutionTime
    BY DEF Routing
  <2>4. routing[c].state = "waiting" /\ Total(c) < MaxExecutionTime
          => Waiting(Total(c)) \in Routing
    BY <2>3 DEF Total, Waiting, Routing
  <2>5. routing' \in [Vpn -> Routing]
    BY <1>8, <2>1, <2>2, <2>4 DEF Routes, UpdateRoutes, ExtendExecution, GiveUpRoutes
  <2> QED
    BY <1>8, <2>5 DEF Routes, UpdateRoutes, ExtendExecution, GiveUpRoutes, SetRouting
<1> HIDE DEF TypeOK, nicVars, vpnVars, itemVars
<1> QED
  BY <1>1, <1>2, <1>3, <1>4, <1>5, <1>6, <1>7, <1>8 DEF Next

\* Every variable keeps its type.
THEOREM TypeCorrect == Spec => []TypeOK
<1>1. Init => TypeOK
  BY TypesAssumption DEF Init, GroupInit, NicInit, VpnInit, TypeOK, GroupTypeOK,
     NicTypeOK, VpnTypeOK, Route, Routing, Step, NicHeld, VpnHeld, NicStep,
     VpnStep, Phase
<1>2. TypeOK /\ [Next]_vars => TypeOK'
  <2> SUFFICES ASSUME TypeOK, [Next]_vars PROVE TypeOK'
    OBVIOUS
  <2>1. CASE UNCHANGED vars
    BY <2>1 DEF vars, groupVars, localVars, nicVars, vpnVars, itemVars, TypeOK,
       GroupTypeOK, NicTypeOK, VpnTypeOK
  <2>2. ASSUME NEW h \in Handler, HandlerStep(h)
        PROVE  TypeOK'
    BY <2>2, NicTypes, VpnTypes, HookTypes DEF HandlerStep
  <2> QED
    BY <2>1, <2>2, GroupTypes
<1> QED
  BY <1>1, <1>2, PTL DEF Spec
----------------------------------------------------------------------------
(* Interfaces *)

\* The inductive invariant: an interface is tagged before its handler comes to
\* record and attach it.
TagInv ==
  /\ AttachedIsTagged
  /\ \A h \in Handler :
       pc[h] \in {"setAttaching", "attachNic"} /\ nic[h] \in nics => nic[h] \in tagged

\* The steps on a network interface keep it.
LEMMA TaggedNic ==
  ASSUME TypeOK, TagInv, NEW h \in Handler, Attach(h) \/ Detach(h),
         UNCHANGED <<vpnVars, itemVars>>
  PROVE  TagInv'
<1> USE TypesAssumption DEF TypeOK, GroupTypeOK, NicTypeOK, VpnTypeOK, TagInv,
  AttachedIsTagged, Goto, Finish, localVars, nicVars, vpnVars, itemVars
<1>1. CASE ListNics(h)
  BY <1>1 DEF ListNics
<1>2. CASE CreateNic(h)
  BY <1>2 DEF CreateNic, NewNic
<1>3. CASE TagNic(h)
  BY <1>3 DEF TagNic
<1>4. CASE SetAttaching(h)
  BY <1>4 DEF SetAttaching, Record
<1>5. CASE AttachNic(h)
  BY <1>5 DEF AttachNic
<1>6. CASE SetAttached(h)
  BY <1>6 DEF SetAttached, Record, ReleaseNic
<1>7. CASE RevertNic(h)
  BY <1>7 DEF RevertNic, Gone
<1>8. CASE RevertRecord(h)
  BY <1>8 DEF RevertRecord, ReleaseNic, HasRecord
<1>9. CASE ListAttached(h)
  <2>1. nicRecord[target[h]] # None => nicRecord[target[h]].nic \in Nic
    BY <1>9 DEF ListAttached, NicRecord
  <2> QED
    BY <1>9, <2>1 DEF ListAttached, LeaveNic, ReleaseNic
<1>10. CASE DetachNic(h)
  BY <1>10 DEF DetachNic, LeaveNic, ReleaseNic
<1>11. CASE DeleteNic(h)
  BY <1>11 DEF DeleteNic, Gone, LeaveNic, ReleaseNic
<1>12. CASE DeleteNicRecord(h)
  BY <1>12 DEF DeleteNicRecord, LeaveNic, ReleaseNic
<1> QED
  BY <1>1, <1>2, <1>3, <1>4, <1>5, <1>6, <1>7, <1>8, <1>9, <1>10, <1>11, <1>12 DEF Attach,
     Detach

\* So do those on a VPN.
LEMMA TaggedVpn ==
  ASSUME TypeOK, TagInv, NEW h \in Handler, AttachVpn(h) \/ DetachVpn(h),
         UNCHANGED <<nicVars, itemVars>>
  PROVE  TagInv'
<1> USE TypesAssumption DEF TypeOK, GroupTypeOK, NicTypeOK, VpnTypeOK, TagInv,
  AttachedIsTagged, Goto, Finish, localVars, nicVars, vpnVars, itemVars
<1>1. CASE FindVpn(h)
  BY <1>1 DEF FindVpn
<1>2. CASE CreateGateway(h)
  BY <1>2 DEF CreateGateway, NewVpn, Route
<1>3. CASE CreateConnection(h)
  BY <1>3 DEF CreateConnection
<1>4. CASE RevertGateway(h)
  BY <1>4 DEF RevertGateway, Remove, Deletable, Exists, ReleaseVpn
<1>5. CASE TagVpn(h)
  BY <1>5 DEF TagVpn, Kind, Resource
<1>6. CASE InvokeUpdate(h)
  BY <1>6 DEF InvokeUpdate, Waiting, ReleaseVpn
<1>7. CASE SaveVpn(h)
  BY <1>7 DEF SaveVpn, ReleaseVpn
<1>8. CASE FindAttached(h)
  BY <1>8 DEF FindAttached, LeaveVpn, ReleaseVpn
<1>9. CASE DeleteConnection(h)
  BY <1>9 DEF DeleteConnection, LeaveVpn, ReleaseVpn, Delete, Remove, Deletable, Exists
<1>10. CASE DeleteGateway(h)
  BY <1>10 DEF DeleteGateway, LeaveVpn, ReleaseVpn, Delete, Remove, Deletable, Exists
<1>11. CASE DeleteVpnRecord(h)
  BY <1>11 DEF DeleteVpnRecord, LeaveVpn, ReleaseVpn
<1> QED
  BY <1>1, <1>2, <1>3, <1>4, <1>5, <1>6, <1>7, <1>8, <1>9, <1>10, <1>11 DEF AttachVpn,
     DetachVpn

\* So do those of the lifecycle.
LEMMA TaggedHook ==
  ASSUME TypeOK, TagInv, NEW h \in Handler, Launching(h) \/ Terminating(h) \/ Concluding(h)
  PROVE  TagInv'
<1> USE TypesAssumption DEF TypeOK, GroupTypeOK, NicTypeOK, VpnTypeOK, TagInv,
  AttachedIsTagged, Goto, Finish, localVars, nicVars, vpnVars, itemVars
<1>1. CASE Register(h)
  BY <1>1 DEF Register
<1>2. CASE CreateLaunching(h)
  BY <1>2 DEF CreateLaunching, Hook
<1>3. CASE Unregister(h)
  BY <1>3 DEF Unregister
<1>4. CASE AbandonLaunch(h)
  BY <1>4 DEF AbandonLaunch, Complete, Refused, Outstanding, Completed, Enter, Announced,
     Hook, Phase, Event
<1>5. CASE ReadItem(h)
  BY <1>5 DEF ReadItem, Hook
<1>6. CASE Abandon(h)
  BY <1>6 DEF Abandon, Complete, Refused, Outstanding, Completed, Enter, Announced, Hook,
     Phase, Event
<1>7. CASE OutOfSync(h)
  BY <1>7 DEF OutOfSync
<1>8. CASE Deregister(h)
  BY <1>8 DEF Deregister
<1>9. CASE Existing(h)
  BY <1>9 DEF Existing, Hook
<1>10. CASE AbandonExisting(h)
  BY <1>10 DEF AbandonExisting, Complete, Refused, Outstanding, Completed, Enter,
     Announced, Hook, Phase, Event
<1>11. CASE CreateTerminating(h)
  BY <1>11 DEF CreateTerminating, Hook
<1>12. CASE AbandonTermination(h)
  BY <1>12 DEF AbandonTermination, Complete, Refused, Outstanding, Completed, Enter,
     Announced, Hook, Phase, Event
<1>13. CASE CompleteTerminating(h)
  BY <1>13 DEF CompleteTerminating, ExpectItem
<1>14. CASE CloseTerminating(h)
  BY <1>14 DEF CloseTerminating, Complete, Refused, Outstanding, Completed, Enter,
     Announced, Hook, Phase, Event
<1>15. CASE LaunchedItem(h)
  BY <1>15 DEF LaunchedItem, ExpectItem
<1>16. CASE TerminatedItem(h)
  BY <1>16 DEF TerminatedItem, ExpectItem
<1>17. CASE DropItem(h)
  BY <1>17 DEF DropItem
<1>18. CASE HeartbeatItem(h)
  BY <1>18 DEF HeartbeatItem, ExpectItem
<1>19. CASE CompleteLaunching(h)
  BY <1>19 DEF CompleteLaunching, Complete, Refused, Outstanding, Completed, Enter,
     Announced, Hook, Phase, Event
<1> QED
  BY <1>1, <1>2, <1>3, <1>4, <1>5, <1>6, <1>7, <1>8, <1>9, <1>10, <1>11, <1>12, <1>13,
     <1>14, <1>15, <1>16, <1>17, <1>18, <1>19 DEF Launching, Terminating, Concluding

\* So does what happens without a handler that runs.
LEMMA TaggedGroup ==
  ASSUME TypeOK, TagInv, Next,
         ~ \E h \in Handler : HandlerStep(h)
  PROVE  TagInv'
<1> USE TypesAssumption DEF TypeOK, GroupTypeOK, NicTypeOK, VpnTypeOK, TagInv,
  AttachedIsTagged, Goto, Finish, localVars, nicVars, vpnVars, itemVars
<1>1. CASE Group /\ UNCHANGED <<nicVars, vpnVars, itemVars>>
  BY <1>1 DEF Group, ScaleOut, ScaleIn, HookTimeout, StopScalingGroup, Enter,
     Completed, groupVars
<1>2. ASSUME NEW h \in Handler, NEW v \in Vm, NEW e \in Event, Receive(h, v, e)
      PROVE  TagInv'
  BY <1>2 DEF Receive, Begin, FirstStep, Event
<1>3. ASSUME NEW h \in Handler, NEW v \in Vm, FirstHeartbeat(h, v)
      PROVE  TagInv'
  BY <1>3 DEF FirstHeartbeat, Begin, groupVars
<1>4. ASSUME NEW v \in Vm, NEW e \in Event, Miss(v, e)
      PROVE  TagInv'
  BY <1>4 DEF Miss
<1>5. ASSUME NEW h \in Handler, Crash(h)
      PROVE  TagInv'
  BY <1>5 DEF Crash, ReleaseNic, ReleaseVpn
<1>6. CASE CleanUp /\ UNCHANGED <<vpnVars, itemVars>>
  BY <1>6 DEF CleanUp, CleanUpNics, CleanUpNic, Gone
<1>7. CASE CleanUpOfVpns /\ UNCHANGED <<nicVars, itemVars>>
  BY <1>7 DEF CleanUpOfVpns, CleanUpVpns, CleanUpVpn, Remove
<1>8. ASSUME NEW c \in Vpn, Routes(c), UNCHANGED <<nicVars, itemVars>>
      PROVE  TagInv'
  BY <1>8 DEF Routes, UpdateRoutes, ExtendExecution, GiveUpRoutes, SetRouting
<1> HIDE DEF TagInv, nicVars, vpnVars, itemVars
<1> QED
  BY <1>1, <1>2, <1>3, <1>4, <1>5, <1>6, <1>7, <1>8 DEF Next

\* What is attached is tagged, whatever fails or overlaps.
THEOREM TaggedBeforeAttached == Spec => []AttachedIsTagged
<1>1. Init => TagInv
  BY DEF Init, GroupInit, NicInit, VpnInit, TagInv, AttachedIsTagged
<1>2. TypeOK /\ TagInv /\ [Next]_vars => TagInv'
  <2> SUFFICES ASSUME TypeOK, TagInv, [Next]_vars PROVE TagInv'
    OBVIOUS
  <2>1. CASE UNCHANGED vars
    BY <2>1 DEF vars, groupVars, localVars, nicVars, vpnVars, itemVars, TagInv,
       AttachedIsTagged
  <2>2. ASSUME NEW h \in Handler, HandlerStep(h)
        PROVE  TagInv'
    BY <2>2, TaggedNic, TaggedVpn, TaggedHook DEF HandlerStep
  <2> QED
    BY <2>1, <2>2, TaggedGroup
<1>3. TagInv => AttachedIsTagged
  BY DEF TagInv
<1> QED
  BY <1>1, <1>2, <1>3, TypeCorrect, PTL DEF Spec

----------------------------------------------------------------------------
(* The launch *)

\* The inductive invariant: the handler that completes a launch was started by
\* the first heartbeat of its VM.
ReportInv ==
  /\ InServiceWasConfigured
  /\ \A h \in Handler :
       pc[h] \in {"heartbeatItem", "completeLaunching"} => target[h] \in reported

\* The steps on a network interface keep it.
LEMMA ReportNic ==
  ASSUME TypeOK, ReportInv, NEW h \in Handler, Attach(h) \/ Detach(h),
         UNCHANGED <<vpnVars, itemVars>>
  PROVE  ReportInv'
<1> USE TypesAssumption DEF TypeOK, GroupTypeOK, NicTypeOK, VpnTypeOK, ReportInv,
  InServiceWasConfigured, Goto, Finish, localVars, nicVars, vpnVars, itemVars
<1>1. CASE ListNics(h)
  BY <1>1 DEF ListNics
<1>2. CASE CreateNic(h)
  BY <1>2 DEF CreateNic, NewNic
<1>3. CASE TagNic(h)
  BY <1>3 DEF TagNic
<1>4. CASE SetAttaching(h)
  BY <1>4 DEF SetAttaching, Record
<1>5. CASE AttachNic(h)
  BY <1>5 DEF AttachNic
<1>6. CASE SetAttached(h)
  BY <1>6 DEF SetAttached, Record, ReleaseNic
<1>7. CASE RevertNic(h)
  BY <1>7 DEF RevertNic, Gone
<1>8. CASE RevertRecord(h)
  BY <1>8 DEF RevertRecord, ReleaseNic, HasRecord
<1>9. CASE ListAttached(h)
  <2>1. nicRecord[target[h]] # None => nicRecord[target[h]].nic \in Nic
    BY <1>9 DEF ListAttached, NicRecord
  <2> QED
    BY <1>9, <2>1 DEF ListAttached, LeaveNic, ReleaseNic
<1>10. CASE DetachNic(h)
  BY <1>10 DEF DetachNic, LeaveNic, ReleaseNic
<1>11. CASE DeleteNic(h)
  BY <1>11 DEF DeleteNic, Gone, LeaveNic, ReleaseNic
<1>12. CASE DeleteNicRecord(h)
  BY <1>12 DEF DeleteNicRecord, LeaveNic, ReleaseNic
<1> QED
  BY <1>1, <1>2, <1>3, <1>4, <1>5, <1>6, <1>7, <1>8, <1>9, <1>10, <1>11, <1>12 DEF Attach,
     Detach

\* So do those on a VPN.
LEMMA ReportVpn ==
  ASSUME TypeOK, ReportInv, NEW h \in Handler, AttachVpn(h) \/ DetachVpn(h),
         UNCHANGED <<nicVars, itemVars>>
  PROVE  ReportInv'
<1> USE TypesAssumption DEF TypeOK, GroupTypeOK, NicTypeOK, VpnTypeOK, ReportInv,
  InServiceWasConfigured, Goto, Finish, localVars, nicVars, vpnVars, itemVars
<1>1. CASE FindVpn(h)
  BY <1>1 DEF FindVpn
<1>2. CASE CreateGateway(h)
  BY <1>2 DEF CreateGateway, NewVpn, Route
<1>3. CASE CreateConnection(h)
  BY <1>3 DEF CreateConnection
<1>4. CASE RevertGateway(h)
  BY <1>4 DEF RevertGateway, Remove, Deletable, Exists, ReleaseVpn
<1>5. CASE TagVpn(h)
  BY <1>5 DEF TagVpn, Kind, Resource
<1>6. CASE InvokeUpdate(h)
  BY <1>6 DEF InvokeUpdate, Waiting, ReleaseVpn
<1>7. CASE SaveVpn(h)
  BY <1>7 DEF SaveVpn, ReleaseVpn
<1>8. CASE FindAttached(h)
  BY <1>8 DEF FindAttached, LeaveVpn, ReleaseVpn
<1>9. CASE DeleteConnection(h)
  BY <1>9 DEF DeleteConnection, LeaveVpn, ReleaseVpn, Delete, Remove, Deletable, Exists
<1>10. CASE DeleteGateway(h)
  BY <1>10 DEF DeleteGateway, LeaveVpn, ReleaseVpn, Delete, Remove, Deletable, Exists
<1>11. CASE DeleteVpnRecord(h)
  BY <1>11 DEF DeleteVpnRecord, LeaveVpn, ReleaseVpn
<1> QED
  BY <1>1, <1>2, <1>3, <1>4, <1>5, <1>6, <1>7, <1>8, <1>9, <1>10, <1>11 DEF AttachVpn,
     DetachVpn

\* So do those of the lifecycle.
LEMMA ReportHook ==
  ASSUME TypeOK, ReportInv, NEW h \in Handler, Launching(h) \/ Terminating(h) \/ Concluding(h)
  PROVE  ReportInv'
<1> USE TypesAssumption DEF TypeOK, GroupTypeOK, NicTypeOK, VpnTypeOK, ReportInv,
  InServiceWasConfigured, Goto, Finish, localVars, nicVars, vpnVars, itemVars
<1>1. CASE Register(h)
  BY <1>1 DEF Register
<1>2. CASE CreateLaunching(h)
  BY <1>2 DEF CreateLaunching, Hook
<1>3. CASE Unregister(h)
  BY <1>3 DEF Unregister
<1>4. CASE AbandonLaunch(h)
  BY <1>4 DEF AbandonLaunch, Complete, Refused, Outstanding, Completed, Enter, Announced,
     Hook, Phase, Event
<1>5. CASE ReadItem(h)
  BY <1>5 DEF ReadItem, Hook
<1>6. CASE Abandon(h)
  BY <1>6 DEF Abandon, Complete, Refused, Outstanding, Completed, Enter, Announced, Hook,
     Phase, Event
<1>7. CASE OutOfSync(h)
  BY <1>7 DEF OutOfSync
<1>8. CASE Deregister(h)
  BY <1>8 DEF Deregister
<1>9. CASE Existing(h)
  BY <1>9 DEF Existing, Hook
<1>10. CASE AbandonExisting(h)
  BY <1>10 DEF AbandonExisting, Complete, Refused, Outstanding, Completed, Enter,
     Announced, Hook, Phase, Event
<1>11. CASE CreateTerminating(h)
  BY <1>11 DEF CreateTerminating, Hook
<1>12. CASE AbandonTermination(h)
  BY <1>12 DEF AbandonTermination, Complete, Refused, Outstanding, Completed, Enter,
     Announced, Hook, Phase, Event
<1>13. CASE CompleteTerminating(h)
  BY <1>13 DEF CompleteTerminating, ExpectItem
<1>14. CASE CloseTerminating(h)
  BY <1>14 DEF CloseTerminating, Complete, Refused, Outstanding, Completed, Enter,
     Announced, Hook, Phase, Event
<1>15. CASE LaunchedItem(h)
  BY <1>15 DEF LaunchedItem, ExpectItem
<1>16. CASE TerminatedItem(h)
  BY <1>16 DEF TerminatedItem, ExpectItem
<1>17. CASE DropItem(h)
  BY <1>17 DEF DropItem
<1>18. CASE HeartbeatItem(h)
  BY <1>18 DEF HeartbeatItem, ExpectItem
<1>19. CASE CompleteLaunching(h)
  BY <1>19 DEF CompleteLaunching, Complete, Refused, Outstanding, Completed, Enter,
     Announced, Hook, Phase, Event
<1> QED
  BY <1>1, <1>2, <1>3, <1>4, <1>5, <1>6, <1>7, <1>8, <1>9, <1>10, <1>11, <1>12, <1>13,
     <1>14, <1>15, <1>16, <1>17, <1>18, <1>19 DEF Launching, Terminating, Concluding

\* So does what happens without a handler that runs.
LEMMA ReportGroup ==
  ASSUME TypeOK, ReportInv, Next,
         ~ \E h \in Handler : HandlerStep(h)
  PROVE  ReportInv'
<1> USE TypesAssumption DEF TypeOK, GroupTypeOK, NicTypeOK, VpnTypeOK, ReportInv,
  InServiceWasConfigured, Goto, Finish, localVars, nicVars, vpnVars, itemVars
<1>1. CASE Group /\ UNCHANGED <<nicVars, vpnVars, itemVars>>
  <2>1. UNCHANGED <<pc, target, reported>>
    BY <1>1 DEF Group, ScaleOut, ScaleIn, HookTimeout, StopScalingGroup
  <2>2. \A v \in Vm : phase'[v] = "inService" => phase[v] = "inService"
    <3>1. ASSUME NEW v \in Vm, ScaleOut(v) \/ ScaleIn(v)
          PROVE  \A w \in Vm : phase'[w] = "inService" => phase[w] = "inService"
      BY <3>1 DEF ScaleOut, ScaleIn, Enter
    <3>2. ASSUME NEW v \in Vm, HookTimeout(v)
          PROVE  \A w \in Vm : phase'[w] = "inService" => phase[w] = "inService"
      <4>1. Completed(phase[v], FALSE) # "inService"
        BY <3>2 DEF HookTimeout, Completed, Hook
      <4> QED
        BY <3>2, <4>1 DEF HookTimeout, Enter
    <3>3. CASE StopScalingGroup
      BY <3>3 DEF StopScalingGroup
    <3> QED
      BY <1>1, <3>1, <3>2, <3>3 DEF Group
  <2> QED
    BY <2>1, <2>2
<1>2. ASSUME NEW h \in Handler, NEW v \in Vm, NEW e \in Event, Receive(h, v, e)
      PROVE  ReportInv'
  BY <1>2 DEF Receive, Begin, FirstStep, Event
<1>3. ASSUME NEW h \in Handler, NEW v \in Vm, FirstHeartbeat(h, v)
      PROVE  ReportInv'
  BY <1>3 DEF FirstHeartbeat, Begin, groupVars
<1>4. ASSUME NEW v \in Vm, NEW e \in Event, Miss(v, e)
      PROVE  ReportInv'
  BY <1>4 DEF Miss
<1>5. ASSUME NEW h \in Handler, Crash(h)
      PROVE  ReportInv'
  BY <1>5 DEF Crash, ReleaseNic, ReleaseVpn
<1>6. CASE CleanUp /\ UNCHANGED <<vpnVars, itemVars>>
  BY <1>6 DEF CleanUp, CleanUpNics, CleanUpNic, Gone
<1>7. CASE CleanUpOfVpns /\ UNCHANGED <<nicVars, itemVars>>
  BY <1>7 DEF CleanUpOfVpns, CleanUpVpns, CleanUpVpn, Remove
<1>8. ASSUME NEW c \in Vpn, Routes(c), UNCHANGED <<nicVars, itemVars>>
      PROVE  ReportInv'
  BY <1>8 DEF Routes, UpdateRoutes, ExtendExecution, GiveUpRoutes, SetRouting
<1> HIDE DEF ReportInv, nicVars, vpnVars, itemVars
<1> QED
  BY <1>1, <1>2, <1>3, <1>4, <1>5, <1>6, <1>7, <1>8 DEF Next

\* Only the first heartbeat of a VM lets it into service.
THEOREM ConfiguredBeforeInService == Spec => []InServiceWasConfigured
<1>1. Init => ReportInv
  BY DEF Init, GroupInit, NicInit, VpnInit, ReportInv, InServiceWasConfigured
<1>2. TypeOK /\ ReportInv /\ [Next]_vars => ReportInv'
  <2> SUFFICES ASSUME TypeOK, ReportInv, [Next]_vars PROVE ReportInv'
    OBVIOUS
  <2>1. CASE UNCHANGED vars
    BY <2>1 DEF vars, groupVars, localVars, nicVars, vpnVars, itemVars, ReportInv,
       InServiceWasConfigured
  <2>2. ASSUME NEW h \in Handler, HandlerStep(h)
        PROVE  ReportInv'
    BY <2>2, ReportNic, ReportVpn, ReportHook DEF HandlerStep
  <2> QED
    BY <2>1, <2>2, ReportGroup
<1>3. ReportInv => InServiceWasConfigured
  BY DEF ReportInv
<1> QED
  BY <1>1, <1>2, <1>3, TypeCorrect, PTL DEF Spec

----------------------------------------------------------------------------
(* The routes *)

\* The inductive invariant: the update of the routes is invoked before the
\* connection is recorded.
RouteInv ==
  /\ RecordedIsRouted
  /\ \A h \in Handler : pc[h] = "saveVpn" => routing[vpn[h]].state # "none"

\* The steps on a network interface keep it.
LEMMA RouteNic ==
  ASSUME TypeOK, RouteInv, NEW h \in Handler, Attach(h) \/ Detach(h),
         UNCHANGED <<vpnVars, itemVars>>
  PROVE  RouteInv'
<1> USE TypesAssumption DEF TypeOK, GroupTypeOK, NicTypeOK, VpnTypeOK, RouteInv,
  RecordedIsRouted, Goto, Finish, localVars, nicVars, vpnVars, itemVars
<1>1. CASE ListNics(h)
  BY <1>1 DEF ListNics
<1>2. CASE CreateNic(h)
  BY <1>2 DEF CreateNic, NewNic
<1>3. CASE TagNic(h)
  BY <1>3 DEF TagNic
<1>4. CASE SetAttaching(h)
  BY <1>4 DEF SetAttaching, Record
<1>5. CASE AttachNic(h)
  BY <1>5 DEF AttachNic
<1>6. CASE SetAttached(h)
  BY <1>6 DEF SetAttached, Record, ReleaseNic
<1>7. CASE RevertNic(h)
  BY <1>7 DEF RevertNic, Gone
<1>8. CASE RevertRecord(h)
  BY <1>8 DEF RevertRecord, ReleaseNic, HasRecord
<1>9. CASE ListAttached(h)
  <2>1. nicRecord[target[h]] # None => nicRecord[target[h]].nic \in Nic
    BY <1>9 DEF ListAttached, NicRecord
  <2> QED
    BY <1>9, <2>1 DEF ListAttached, LeaveNic, ReleaseNic
<1>10. CASE DetachNic(h)
  BY <1>10 DEF DetachNic, LeaveNic, ReleaseNic
<1>11. CASE DeleteNic(h)
  BY <1>11 DEF DeleteNic, Gone, LeaveNic, ReleaseNic
<1>12. CASE DeleteNicRecord(h)
  BY <1>12 DEF DeleteNicRecord, LeaveNic, ReleaseNic
<1> QED
  BY <1>1, <1>2, <1>3, <1>4, <1>5, <1>6, <1>7, <1>8, <1>9, <1>10, <1>11, <1>12 DEF Attach,
     Detach

\* So do those on a VPN.
LEMMA RouteVpn ==
  ASSUME TypeOK, RouteInv, NEW h \in Handler, AttachVpn(h) \/ DetachVpn(h),
         UNCHANGED <<nicVars, itemVars>>
  PROVE  RouteInv'
<1> USE TypesAssumption DEF TypeOK, GroupTypeOK, NicTypeOK, VpnTypeOK, RouteInv,
  RecordedIsRouted, Goto, Finish, localVars, nicVars, vpnVars, itemVars
<1>1. CASE FindVpn(h)
  BY <1>1 DEF FindVpn
<1>2. CASE CreateGateway(h)
  <2>1. vpnRecord' = vpnRecord
    BY <1>2 DEF CreateGateway
  <2>2. \A d \in Vpn : (\E v \in Vm : vpnRecord[v] = d) \/ (\E g \in Handler : vpn[g] = d)
                       => routing'[d] = routing[d]
    BY <1>2 DEF CreateGateway, NewVpn
  <2>3. \A g \in Handler : pc'[g] = "saveVpn" => pc[g] = "saveVpn" /\ vpn'[g] = vpn[g]
    BY <1>2 DEF CreateGateway
  <2>4. \A g \in Handler : pc[g] = "saveVpn" => vpn[g] \in Vpn
    BY DEF VpnHeld, VpnStep
  <2> QED
    BY <2>1, <2>2, <2>3, <2>4
<1>3. CASE CreateConnection(h)
  BY <1>3 DEF CreateConnection
<1>4. CASE RevertGateway(h)
  BY <1>4 DEF RevertGateway, Remove, Deletable, Exists, ReleaseVpn
<1>5. CASE TagVpn(h)
  BY <1>5 DEF TagVpn, Kind, Resource
<1>6. CASE InvokeUpdate(h)
  <2>1. vpnRecord' = vpnRecord
    BY <1>6 DEF InvokeUpdate
  <2>2. \A d \in Vpn : routing'[d] = routing[d] \/ routing'[d].state = "waiting"
    BY <1>6 DEF InvokeUpdate, Waiting
  <2>3. \A g \in Handler : pc'[g] = "saveVpn" /\ g # h => pc[g] = "saveVpn" /\ vpn'[g] = vpn[g]
    BY <1>6 DEF InvokeUpdate, ReleaseVpn
  <2>4. pc'[h] = "saveVpn" => routing'[vpn'[h]].state = "waiting"
    BY <1>6 DEF InvokeUpdate, Waiting, VpnHeld, VpnStep
  <2>5. \A g \in Handler : pc[g] = "saveVpn" => vpn[g] \in Vpn
    BY DEF VpnHeld, VpnStep
  <2> QED
    BY <2>1, <2>2, <2>3, <2>4, <2>5
<1>7. CASE SaveVpn(h)
  BY <1>7 DEF SaveVpn, ReleaseVpn
<1>8. CASE FindAttached(h)
  BY <1>8 DEF FindAttached, LeaveVpn, ReleaseVpn
<1>9. CASE DeleteConnection(h)
  BY <1>9 DEF DeleteConnection, LeaveVpn, ReleaseVpn, Delete, Remove, Deletable, Exists
<1>10. CASE DeleteGateway(h)
  BY <1>10 DEF DeleteGateway, LeaveVpn, ReleaseVpn, Delete, Remove, Deletable, Exists
<1>11. CASE DeleteVpnRecord(h)
  BY <1>11 DEF DeleteVpnRecord, LeaveVpn, ReleaseVpn
<1> QED
  BY <1>1, <1>2, <1>3, <1>4, <1>5, <1>6, <1>7, <1>8, <1>9, <1>10, <1>11 DEF AttachVpn,
     DetachVpn

\* So do those of the lifecycle.
LEMMA RouteHook ==
  ASSUME TypeOK, RouteInv, NEW h \in Handler, Launching(h) \/ Terminating(h) \/ Concluding(h)
  PROVE  RouteInv'
<1> USE TypesAssumption DEF TypeOK, GroupTypeOK, NicTypeOK, VpnTypeOK, RouteInv,
  RecordedIsRouted, Goto, Finish, localVars, nicVars, vpnVars, itemVars
<1>1. CASE Register(h)
  BY <1>1 DEF Register
<1>2. CASE CreateLaunching(h)
  BY <1>2 DEF CreateLaunching, Hook
<1>3. CASE Unregister(h)
  BY <1>3 DEF Unregister
<1>4. CASE AbandonLaunch(h)
  BY <1>4 DEF AbandonLaunch, Complete, Refused, Outstanding, Completed, Enter, Announced,
     Hook, Phase, Event
<1>5. CASE ReadItem(h)
  BY <1>5 DEF ReadItem, Hook
<1>6. CASE Abandon(h)
  BY <1>6 DEF Abandon, Complete, Refused, Outstanding, Completed, Enter, Announced, Hook,
     Phase, Event
<1>7. CASE OutOfSync(h)
  BY <1>7 DEF OutOfSync
<1>8. CASE Deregister(h)
  BY <1>8 DEF Deregister
<1>9. CASE Existing(h)
  BY <1>9 DEF Existing, Hook
<1>10. CASE AbandonExisting(h)
  BY <1>10 DEF AbandonExisting, Complete, Refused, Outstanding, Completed, Enter,
     Announced, Hook, Phase, Event
<1>11. CASE CreateTerminating(h)
  BY <1>11 DEF CreateTerminating, Hook
<1>12. CASE AbandonTermination(h)
  BY <1>12 DEF AbandonTermination, Complete, Refused, Outstanding, Completed, Enter,
     Announced, Hook, Phase, Event
<1>13. CASE CompleteTerminating(h)
  BY <1>13 DEF CompleteTerminating, ExpectItem
<1>14. CASE CloseTerminating(h)
  BY <1>14 DEF CloseTerminating, Complete, Refused, Outstanding, Completed, Enter,
     Announced, Hook, Phase, Event
<1>15. CASE LaunchedItem(h)
  BY <1>15 DEF LaunchedItem, ExpectItem
<1>16. CASE TerminatedItem(h)
  BY <1>16 DEF TerminatedItem, ExpectItem
<1>17. CASE DropItem(h)
  BY <1>17 DEF DropItem
<1>18. CASE HeartbeatItem(h)
  BY <1>18 DEF HeartbeatItem, ExpectItem
<1>19. CASE CompleteLaunching(h)
  BY <1>19 DEF CompleteLaunching, Complete, Refused, Outstanding, Completed, Enter,
     Announced, Hook, Phase, Event
<1> QED
  BY <1>1, <1>2, <1>3, <1>4, <1>5, <1>6, <1>7, <1>8, <1>9, <1>10, <1>11, <1>12, <1>13,
     <1>14, <1>15, <1>16, <1>17, <1>18, <1>19 DEF Launching, Terminating, Concluding

\* So does what happens without a handler that runs.
LEMMA RouteGroup ==
  ASSUME TypeOK, RouteInv, Next,
         ~ \E h \in Handler : HandlerStep(h)
  PROVE  RouteInv'
<1> USE TypesAssumption DEF TypeOK, GroupTypeOK, NicTypeOK, VpnTypeOK, RouteInv,
  RecordedIsRouted, Goto, Finish, localVars, nicVars, vpnVars, itemVars
<1>1. CASE Group /\ UNCHANGED <<nicVars, vpnVars, itemVars>>
  BY <1>1 DEF Group, ScaleOut, ScaleIn, HookTimeout, StopScalingGroup, Enter,
     Completed, groupVars
<1>2. ASSUME NEW h \in Handler, NEW v \in Vm, NEW e \in Event, Receive(h, v, e)
      PROVE  RouteInv'
  BY <1>2 DEF Receive, Begin, FirstStep, Event
<1>3. ASSUME NEW h \in Handler, NEW v \in Vm, FirstHeartbeat(h, v)
      PROVE  RouteInv'
  BY <1>3 DEF FirstHeartbeat, Begin, groupVars
<1>4. ASSUME NEW v \in Vm, NEW e \in Event, Miss(v, e)
      PROVE  RouteInv'
  BY <1>4 DEF Miss
<1>5. ASSUME NEW h \in Handler, Crash(h)
      PROVE  RouteInv'
  BY <1>5 DEF Crash, ReleaseNic, ReleaseVpn
<1>6. CASE CleanUp /\ UNCHANGED <<vpnVars, itemVars>>
  BY <1>6 DEF CleanUp, CleanUpNics, CleanUpNic, Gone
<1>7. CASE CleanUpOfVpns /\ UNCHANGED <<nicVars, itemVars>>
  BY <1>7 DEF CleanUpOfVpns, CleanUpVpns, CleanUpVpn, Remove
<1>8. ASSUME NEW c \in Vpn, Routes(c), UNCHANGED <<nicVars, itemVars>>
      PROVE  RouteInv'
  <2>1. UNCHANGED <<pc, vpn, vpnRecord>>
    BY <1>8 DEF Routes, UpdateRoutes, ExtendExecution, GiveUpRoutes, SetRouting
  <2>2. \A d \in Vpn :
          routing'[d] = routing[d] \/ routing'[d].state \in {"updated", "waiting", "failed"}
    BY <1>8 DEF Routes, UpdateRoutes, ExtendExecution, GiveUpRoutes, SetRouting, Route,
       Waiting
  <2>3. \A g \in Handler : pc[g] = "saveVpn" => vpn[g] \in Vpn
    BY DEF VpnHeld, VpnStep
  <2> QED
    BY <2>1, <2>2, <2>3
<1> HIDE DEF RouteInv, nicVars, vpnVars, itemVars
<1> QED
  BY <1>1, <1>2, <1>3, <1>4, <1>5, <1>6, <1>7, <1>8 DEF Next

\* A recorded connection had the update of its routes invoked.
THEOREM RoutedBeforeRecorded == Spec => []RecordedIsRouted
<1>1. Init => RouteInv
  BY DEF Init, GroupInit, NicInit, VpnInit, RouteInv, RecordedIsRouted, Route
<1>2. TypeOK /\ RouteInv /\ [Next]_vars => RouteInv'
  <2> SUFFICES ASSUME TypeOK, RouteInv, [Next]_vars PROVE RouteInv'
    OBVIOUS
  <2>1. CASE UNCHANGED vars
    BY <2>1 DEF vars, groupVars, localVars, nicVars, vpnVars, itemVars, RouteInv,
       RecordedIsRouted, Route
  <2>2. ASSUME NEW h \in Handler, HandlerStep(h)
        PROVE  RouteInv'
    BY <2>2, RouteNic, RouteVpn, RouteHook DEF HandlerStep
  <2> QED
    BY <2>1, <2>2, RouteGroup
<1>3. RouteInv => RecordedIsRouted
  BY DEF RouteInv
<1> QED
  BY <1>1, <1>2, <1>3, TypeCorrect, PTL DEF Spec
====
