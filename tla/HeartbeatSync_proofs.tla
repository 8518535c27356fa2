---- MODULE HeartbeatSync_proofs ----
(***************************************************************************)
(* Theorems about HeartbeatSync, for all VMs, handlers, deployments and    *)
(* settings: its types are right; the stored records are consistent, and   *)
(* never replaced by older ones; and where no two requests of one VM are   *)
(* handled at once, it implements HealthLedger.                            *)
(***************************************************************************)
EXTENDS HeartbeatSync, TLAPS

----------------------------------------------------------------------------
(* What apply computes *)

\* The verdict on a heartbeat is a health check record.
LEMMA JudgeType ==
  ASSUME NEW r \in HealthCheckRecord, NEW q
  PROVE  Judge(r, q) \in HealthCheckRecord
<1> USE SettingsAssumption DEF HealthCheckRecord, Judged
<1>1. LateInSync(r) \in HealthCheckRecord
  BY DEF LateInSync
<1>2. OnTimeInSync(r) \in HealthCheckRecord
  BY DEF OnTimeInSync
<1>3. LateOutOfSync(r) \in HealthCheckRecord
  BY DEF LateOutOfSync
<1>4. OnTimeOutOfSync(r) \in HealthCheckRecord
  BY DEF OnTimeOutOfSync
<1> QED
  BY <1>1, <1>2, <1>3, <1>4 DEF Judge

\* So is what is written for the first heartbeat and for a later one.
LEMMA WrittenType ==
  ASSUME NEW q \in Request
  PROVE  /\ FirstRecord(q) \in HealthCheckRecord
         /\ \A r \in HealthCheckRecord : Stamp(Judge(r, q), q) \in HealthCheckRecord
<1>1. SendTime(q) \in Nat
  BY DEF SendTime, NoTime, Request
<1>2. FirstRecord(q) \in HealthCheckRecord
  BY <1>1, SettingsAssumption DEF FirstRecord, HealthCheckRecord, Request
<1>3. ASSUME NEW r \in HealthCheckRecord
      PROVE  Stamp(r, q) \in HealthCheckRecord
  BY <1>1, SettingsAssumption DEF Stamp, HealthCheckRecord, Request
<1> QED
  BY <1>2, <1>3, JudgeType

----------------------------------------------------------------------------
(* Types *)

\* Ending a request keeps the types.
LEMMA FinishType ==
  ASSUME TypeOK, NEW h \in Handler, Finish(h)
  PROVE  /\ pc' \in [Handler -> Step]
         /\ req' \in [Handler -> Request \cup {NoRecord}]
         /\ rec' \in [Handler -> HealthCheckRecord \cup {NoRecord}]
         /\ after' \in [Handler -> {"idle", "respond", "unhealthy"}]
         /\ \A g \in Handler : pc'[g] # "idle" => req'[g] \in Request
         /\ \A g \in Handler :
              pc'[g] \in {"create", "insert", "update", "respond", "delete",
                          "erase", "forceWrite"}
                => rec'[g] \in HealthCheckRecord
BY DEF TypeOK, Finish, Step

\* A handler that writes holds a record, so the table keeps its type.
LEMMA WriteType ==
  ASSUME TypeOK, NEW h \in Handler, Write(h),
         pc[h] \in {"create", "insert", "update", "respond", "forceWrite"}
  PROVE  db' \in [Vm -> HealthCheckRecord \cup {NoRecord}]
BY DEF TypeOK, Write

\* Every variable keeps its type.
THEOREM TypeCorrect == Spec => []TypeOK
<1>1. Init => TypeOK
  <2> SUFFICES ASSUME Init PROVE TypeOK
    OBVIOUS
  <2> PICK timed \in [Vm -> BOOLEAN], first \in [Vm -> FirstSeqs] :
         device = [v \in Vm |-> [timed |-> timed[v], first |-> first[v],
                                 seq |-> first[v], sent |-> 0, boots |-> 0]]
    BY DEF Init
  <2>1. ASSUME NEW v \in Vm
        PROVE  [timed |-> timed[v], first |-> first[v], seq |-> first[v],
                sent |-> 0, boots |-> 0] \in Device
    <3>1. timed[v] \in BOOLEAN
      BY Zenon
    <3>2. first[v] \in FirstSeqs
      OBVIOUS
    <3>4. FirstSeqs \subseteq Nat
      BY SettingsAssumption
    <3>3. ASSUME NEW t \in BOOLEAN, NEW f \in FirstSeqs
          PROVE  [timed |-> t, first |-> f, seq |-> f, sent |-> 0, boots |-> 0] \in Device
      BY <3>4 DEF Device
    <3> QED
      BY <3>1, <3>2, <3>3, Zenon
  <2>2. device \in [Vm -> Device]
    BY <2>1
  <2>3. /\ vmState \in [Vm -> {"running", "terminating", "gone"}]
        /\ pc \in [Handler -> Step]
    BY DEF Init, Step
  <2> QED
    BY <2>2, <2>3, SettingsAssumption DEF Init, TypeOK
<1>2. TypeOK /\ [Next]_vars => TypeOK'
  <2> SUFFICES ASSUME TypeOK, [Next]_vars PROVE TypeOK'
    OBVIOUS
  <2> USE SettingsAssumption
  <2>1. CASE Tick
    BY <2>1 DEF Tick, TypeOK, handlerVars
  <2>2. CASE \E v \in Vm : SendHeartbeat(v)
    <3> PICK v \in Vm : SendHeartbeat(v)
      BY <2>2
    <3>1. device' \in [Vm -> Device]
      BY DEF SendHeartbeat, TypeOK, Device
    <3>2. requests' \subseteq Request
      BY DEF SendHeartbeat, TypeOK, Device, Request
    <3> QED
      BY <3>1, <3>2 DEF SendHeartbeat, TypeOK, handlerVars
  <2>3. CASE \E m \in requests : Lose(m)
    BY <2>3 DEF Lose, TypeOK, handlerVars
  <2>4. CASE \E v \in Vm : Reboot(v)
    <3> PICK v \in Vm : Reboot(v)
      BY <2>4
    <3>1. device' \in [Vm -> Device]
      BY DEF Reboot, TypeOK, Device
    <3> QED
      BY <3>1 DEF Reboot, TypeOK, handlerVars
  <2>5. CASE \E v \in Vm : ScaleIn(v) \/ Terminated(v) \/ RemoveStale(v)
    BY <2>5 DEF ScaleIn, Terminated, RemoveStale, TypeOK, handlerVars
  <2>6. CASE \E h \in Handler, m \in requests : Receive(h, m)
    <3> PICK h \in Handler, m \in requests : Receive(h, m)
      BY <2>6
    <3>1. [m EXCEPT !.arrive = now] \in Request
      BY DEF TypeOK, Request
    <3> QED
      BY <3>1 DEF Receive, Goto, TypeOK, Step
  <2>7. CASE \E h \in Handler, v \in Vm :
                  ReceiveTerminating(h, v) \/ HandleStalePrimary(h, v)
    <3> PICK h \in Handler, v \in Vm :
              ReceiveTerminating(h, v) \/ HandleStalePrimary(h, v)
      BY <2>7
    <3>1. [vm |-> v, seq |-> 0, sent |-> 0, arrive |-> now] \in Request
      BY DEF TypeOK, Request
    <3> QED
      BY <3>1 DEF ReceiveTerminating, HandleStalePrimary, Serve, Goto, TypeOK, Step
  <2>8. CASE \E h \in Handler : Abort(h)
    BY <2>8, FinishType DEF Abort, TypeOK
  <2>9. ASSUME NEW h \in Handler, Continue(h)
        PROVE  TypeOK'
    <3> DEFINE q == req[h]
               r == db[q.vm]
    <3>0. pc[h] # "idle" => q \in Request /\ q.vm \in Vm
      BY DEF TypeOK, Request
    <3>1. CASE ReadRecord(h)
      <4>1. q \in Request /\ q.vm \in Vm
        BY <3>0, <3>1 DEF ReadRecord
      <4>2. CASE r = NoRecord
        BY <3>1, <4>1, <4>2, WrittenType DEF ReadRecord, Goto, TypeOK, Step
      <4>3. CASE r # NoRecord /\ Outdated(r, q)
        BY <3>1, <4>3, FinishType DEF ReadRecord, TypeOK
      <4>4. CASE r # NoRecord /\ ~Outdated(r, q)
        <5>1. Stamp(Judge(r, q), q) \in HealthCheckRecord
          BY <4>1, <4>4, WrittenType DEF TypeOK
        <5>2. AfterWrite(r, Stamp(Judge(r, q), q), q) \in {"idle", "respond", "unhealthy"}
          BY DEF AfterWrite
        <5> QED
          BY <3>1, <4>1, <4>4, <5>1, <5>2 DEF ReadRecord, Goto, TypeOK, Step
      <4> QED
        BY <4>2, <4>3, <4>4
    <3>2. CASE CreateAws(h) \/ InsertAzure(h)
      BY <3>2, FinishType, WriteType DEF CreateAws, InsertAzure, Proceed, Goto, TypeOK, Step
    <3>3. CASE CreateAzure(h)
      BY <3>3, FinishType DEF CreateAzure, Goto, TypeOK, Step
    <3>4. CASE UpdateRecord(h) \/ Respond(h) \/ ForceWrite(h)
      BY <3>4, FinishType, WriteType
         DEF UpdateRecord, Respond, ForceWrite, Update, Proceed, Goto, TypeOK, Step
    <3>5. CASE TerminateVm(h) \/ TerminateVmFails(h)
      BY <3>5 DEF TerminateVm, TerminateVmFails, Goto, TypeOK, Step
    <3>6. CASE CleanupRead(h)
      BY <3>0, <3>6, FinishType DEF CleanupRead, Goto, TypeOK, Step
    <3>7. CASE DeleteAws(h) \/ DeleteAzure(h) \/ EraseAzure(h)
      BY <3>0, <3>7, FinishType DEF DeleteAws, DeleteAzure, EraseAzure, Goto, TypeOK, Step
    <3>8. CASE ForceRead(h)
      <4>1. CASE r # NoRecord /\ r.syncState = "InSync"
        <5>1. [r EXCEPT !.syncState = "OutOfSync"] \in HealthCheckRecord
          BY <3>0, <3>8, <4>1 DEF ForceRead, TypeOK, HealthCheckRecord
        <5> QED
          BY <3>0, <3>8, <4>1, <5>1 DEF ForceRead, Goto, TypeOK, Step
      <4>2. CASE ~(r # NoRecord /\ r.syncState = "InSync")
        BY <3>8, <4>2, FinishType DEF ForceRead, TypeOK
      <4> QED
        BY <4>1, <4>2
    <3> QED
      BY <2>9, <3>1, <3>2, <3>3, <3>4, <3>5, <3>6, <3>7, <3>8 DEF Continue
  <2>10. CASE UNCHANGED vars
    BY <2>10 DEF vars, TypeOK
  <2> QED
    BY <2>1, <2>2, <2>3, <2>4, <2>5, <2>6, <2>7, <2>8, <2>9, <2>10 DEF Next, Environment
<1> QED
  BY <1>1, <1>2, PTL DEF Spec

----------------------------------------------------------------------------
(* Consistency of the stored records *)

\* A handler about to write holds a consistent record...
HeldConsistent ==
  \A h \in Handler :
    pc[h] \in {"create", "insert", "update", "respond", "forceWrite"}
      => Consistent(req[h].vm, rec[h])

\* ... and only a VM that is being terminated is forced out of sync.
ForcedNotRunning ==
  \A h \in Handler : pc[h] = "forceRead" => vmState[req[h].vm] # "running"

\* RecordConsistent is not inductive by itself: what is written was computed
\* from a record read earlier.
ConsistencyInv ==
  TypeOK /\ RecordConsistent /\ HeldConsistent /\ ForcedNotRunning

\* The verdict of apply on a consistent record is consistent.
LEMMA JudgeConsistent ==
  ASSUME NEW v \in Vm, NEW r \in HealthCheckRecord, NEW q, Consistent(v, r)
  PROVE  Consistent(v, Stamp(Judge(r, q), q))
<1> USE SettingsAssumption DEF HealthCheckRecord, Judged, Consistent
<1>1. r.syncState = "InSync" => Consistent(v, LateInSync(r)) /\ Consistent(v, OnTimeInSync(r))
  BY DEF LateInSync, OnTimeInSync
<1>2. r.syncState = "OutOfSync" => Consistent(v, LateOutOfSync(r)) /\ Consistent(v, OnTimeOutOfSync(r))
  BY DEF LateOutOfSync, OnTimeOutOfSync
<1>3. Consistent(v, Judge(r, q))
  BY <1>1, <1>2 DEF Judge
<1> QED
  BY <1>3 DEF Stamp

\* No step puts a VM back in service.
LEMMA NeverRunningAgain ==
  ASSUME TypeOK, [Next]_vars, NEW v \in Vm, vmState[v] # "running"
  PROVE  vmState'[v] # "running"
<1>1. CASE \E w \in Vm : ScaleIn(w) \/ Terminated(w)
  BY <1>1 DEF ScaleIn, Terminated, TypeOK
<1>2. CASE \E h \in Handler : TerminateVm(h)
  BY <1>2 DEF TerminateVm, TypeOK
<1>3. CASE UNCHANGED vmState
  BY <1>3
<1> QED
  BY <1>1, <1>2, <1>3
     DEF Next, Environment, Continue, Tick, SendHeartbeat, Lose, Reboot, RemoveStale,
         Receive, ReadRecord, CreateAws, CreateAzure, InsertAzure, UpdateRecord,
         Respond, TerminateVmFails, CleanupRead, DeleteAws, DeleteAzure, EraseAzure,
         ReceiveTerminating, HandleStalePrimary, Serve, ForceRead, ForceWrite, Abort, vars

\* A step that changes neither the records nor the handlers.
LEMMA ConsistencyUntouched ==
  ASSUME ConsistencyInv, [Next]_vars, UNCHANGED <<db, handlerVars>>
  PROVE  RecordConsistent' /\ HeldConsistent' /\ ForcedNotRunning'
<1>1. \A v \in Vm : vmState[v] # "running" => vmState'[v] # "running"
  BY NeverRunningAgain DEF ConsistencyInv
<1>2. \A h \in Handler : pc[h] # "idle" => req[h].vm \in Vm
  BY DEF ConsistencyInv, TypeOK, Request
<1> QED
  BY <1>1, <1>2
     DEF ConsistencyInv, RecordConsistent, HeldConsistent, ForcedNotRunning, Consistent,
         handlerVars

LEMMA ConsistencyAlways == Spec => []ConsistencyInv
<1>1. Init => RecordConsistent /\ HeldConsistent /\ ForcedNotRunning
  BY DEF Init, RecordConsistent, HeldConsistent, ForcedNotRunning
<1>2. TypeOK /\ TypeOK' /\ ConsistencyInv /\ [Next]_vars
        => RecordConsistent' /\ HeldConsistent' /\ ForcedNotRunning'
  <2> SUFFICES ASSUME TypeOK, TypeOK', ConsistencyInv, [Next]_vars
               PROVE  RecordConsistent' /\ HeldConsistent' /\ ForcedNotRunning'
    OBVIOUS
  <2> DEFINE Goal == RecordConsistent' /\ HeldConsistent' /\ ForcedNotRunning'
  <2> USE DEF ConsistencyInv, RecordConsistent, HeldConsistent, ForcedNotRunning
  <2>0. \A h \in Handler : pc[h] # "idle" => req[h] \in Request /\ req[h].vm \in Vm
    BY DEF TypeOK, Request
  <2>1. CASE UNCHANGED <<db, handlerVars>>
    BY <2>1, ConsistencyUntouched
  <2>2. CASE \E v \in Vm : RemoveStale(v)
    BY <2>2 DEF RemoveStale, handlerVars, TypeOK, Consistent
  <2>3. CASE \E h \in Handler, m \in requests : Receive(h, m)
    BY <2>0, <2>3 DEF Receive, Goto, TypeOK, Consistent
  <2>4. CASE \E h \in Handler, v \in Vm :
                  ReceiveTerminating(h, v) \/ HandleStalePrimary(h, v)
    BY <2>0, <2>4 DEF ReceiveTerminating, HandleStalePrimary, Serve, Goto, TypeOK, Consistent
  <2>5. CASE \E h \in Handler : Abort(h)
    BY <2>0, <2>5 DEF Abort, Finish, TypeOK, Consistent
  <2>6. ASSUME NEW h \in Handler, Continue(h)
        PROVE  Goal
    <3> DEFINE q == req[h]
               r == db[q.vm]
    <3>1. \A g \in Handler \ {h} : UNCHANGED <<pc[g], req[g], rec[g]>>
      BY <2>6
         DEF Continue, ReadRecord, CreateAws, CreateAzure, InsertAzure, UpdateRecord, Respond,
             TerminateVm, TerminateVmFails, CleanupRead, DeleteAws, DeleteAzure, EraseAzure,
             ForceRead, ForceWrite, Update, Proceed, Goto, Finish, TypeOK
    <3>2. \A v \in Vm : vmState[v] # "running" => vmState'[v] # "running"
      BY NeverRunningAgain
    <3>3. q \in Request /\ q.vm \in Vm
      BY <2>0, <2>6
         DEF Continue, ReadRecord, CreateAws, CreateAzure, InsertAzure, UpdateRecord, Respond,
             TerminateVm, TerminateVmFails, CleanupRead, DeleteAws, DeleteAzure, EraseAzure,
             ForceRead, ForceWrite
    <3>4. RecordConsistent'
      <4>1. CASE UNCHANGED db
        BY <3>2, <4>1 DEF Consistent
      <4>2. CASE db' = [db EXCEPT ![q.vm] = NoRecord]
        BY <3>2, <3>3, <4>2 DEF Consistent, TypeOK
      <4>3. CASE Write(h) /\ pc[h] \in {"create", "insert", "update", "respond", "forceWrite"}
        BY <3>2, <3>3, <4>3 DEF Write, Consistent, TypeOK
      <4> QED
        BY <2>6, <4>1, <4>2, <4>3
           DEF Continue, ReadRecord, CreateAws, CreateAzure, InsertAzure, UpdateRecord,
               Respond, TerminateVm, TerminateVmFails, CleanupRead, DeleteAws, DeleteAzure,
               EraseAzure, ForceRead, ForceWrite, Update
    <3>5. /\ pc'[h] # "forceRead"
          /\ pc'[h] \in {"create", "insert", "update", "respond", "forceWrite"}
               => Consistent(req[h].vm, rec[h])'
      <4>1. CASE ReadRecord(h)
        <5>1. Consistent(q.vm, FirstRecord(q))
          BY SettingsAssumption DEF FirstRecord, Consistent
        <5>2. r # NoRecord => Consistent(q.vm, Stamp(Judge(r, q), q))
          BY <3>3, JudgeConsistent DEF TypeOK
        <5> QED
          BY <4>1, <5>1, <5>2 DEF ReadRecord, Goto, Finish, TypeOK, Consistent
      <4>2. CASE ForceRead(h)
        BY <3>3, <4>2, SettingsAssumption
           DEF ForceRead, Goto, Finish, TypeOK, Consistent, HealthCheckRecord
      <4>3. CASE \/ CreateAws(h) \/ CreateAzure(h) \/ InsertAzure(h)
                 \/ UpdateRecord(h) \/ Respond(h) \/ ForceWrite(h)
        BY <3>2, <3>3, <4>3
           DEF CreateAws, CreateAzure, InsertAzure, UpdateRecord, Respond, ForceWrite, Update,
               Proceed, Goto, Finish, TypeOK, Consistent
      <4>4. CASE \/ TerminateVm(h) \/ TerminateVmFails(h) \/ CleanupRead(h)
                 \/ DeleteAws(h) \/ DeleteAzure(h) \/ EraseAzure(h)
        BY <4>4
           DEF TerminateVm, TerminateVmFails, CleanupRead, DeleteAws, DeleteAzure, EraseAzure,
               Goto, Finish, TypeOK
      <4> QED
        BY <2>6, <4>1, <4>2, <4>3, <4>4 DEF Continue
    <3> QED
      BY <2>0, <3>1, <3>2, <3>4, <3>5 DEF Consistent
  <2> QED
    BY <2>1, <2>2, <2>3, <2>4, <2>5, <2>6
       DEF Next, Environment, Tick, SendHeartbeat, Lose, Reboot, ScaleIn, Terminated, vars,
           handlerVars
<1> QED
  BY <1>1, <1>2, TypeCorrect, PTL DEF Spec, ConsistencyInv

\* However the requests of a VM interleave, fail or repeat, its stored record
\* is never a mixture of two verdicts of apply.
THEOREM RecordsConsistent == Spec => []RecordConsistent
BY ConsistencyAlways, PTL DEF ConsistencyInv

----------------------------------------------------------------------------
(* Overwriting *)

\* Records carry a send time exactly for the devices that report one. The two
\* conditions of the adapters treat an absent time differently, so the order
\* of the records depends on it.
Dated(v, r) == r.sendTime = NoTime <=> ~device[v].timed

DatedInv ==
  /\ now >= 1
  /\ \A m \in requests : m.sent >= 1
  /\ \A h \in Handler : pc[h] = "read" => req[h].sent >= 1
  /\ \A v \in Vm : db[v] # NoRecord => Dated(v, db[v])
  /\ \A h \in Handler :
       pc[h] \in {"create", "insert", "update", "respond", "forceWrite"}
         => Dated(req[h].vm, rec[h])

\* A device does not change its firmware.
LEMMA TimedForever ==
  ASSUME TypeOK, [Next]_vars, NEW v \in Vm
  PROVE  device'[v].timed = device[v].timed
<1>1. ASSUME NEW w \in Vm, SendHeartbeat(w) PROVE device'[v].timed = device[v].timed
  BY <1>1 DEF SendHeartbeat, TypeOK, Device
<1>2. ASSUME NEW w \in Vm, Reboot(w) PROVE device'[v].timed = device[v].timed
  BY <1>2 DEF Reboot, TypeOK, Device
<1>3. CASE UNCHANGED device
  BY <1>3
<1> QED
  BY <1>1, <1>2, <1>3
     DEF Next, Environment, Continue, Tick, Lose, ScaleIn, Terminated, RemoveStale,
         Receive, ReadRecord, CreateAws, CreateAzure, InsertAzure, UpdateRecord,
         Respond, TerminateVm, TerminateVmFails, CleanupRead, DeleteAws, DeleteAzure,
         EraseAzure, ReceiveTerminating, HandleStalePrimary, Serve, ForceRead, ForceWrite, Abort, vars

\* Every record stored or about to be is dated that way.
LEMMA DatedAlways == Spec => []DatedInv
<1>1. Init => DatedInv
  BY DEF Init, DatedInv
<1>2. TypeOK /\ DatedInv /\ [Next]_vars => DatedInv'
  <2> SUFFICES ASSUME TypeOK, DatedInv, [Next]_vars PROVE DatedInv'
    OBVIOUS
  <2>1. \A v \in Vm : device'[v].timed = device[v].timed
    BY TimedForever
  <2>2. \A h \in Handler : pc[h] # "idle" => req[h] \in Request /\ req[h].vm \in Vm
    BY DEF TypeOK, Request
  <2> USE DEF DatedInv, Dated
  <2>3. CASE UNCHANGED <<now, requests, db, handlerVars>>
    BY <2>1, <2>2, <2>3 DEF handlerVars
  <2>4. CASE Tick
    BY <2>1, <2>2, <2>4 DEF Tick, handlerVars, TypeOK
  <2>5. CASE \E v \in Vm : SendHeartbeat(v)
    <3>1. \A m \in requests' : m \in requests \/ m.sent = now
      BY <2>5 DEF SendHeartbeat
    <3>2. UNCHANGED <<now, db, handlerVars>>
      BY <2>5 DEF SendHeartbeat
    <3> QED
      BY <2>1, <2>2, <3>1, <3>2 DEF handlerVars
  <2>6. CASE \E m \in requests : Lose(m)
    BY <2>1, <2>2, <2>6 DEF Lose, handlerVars
  <2>7. CASE \E v \in Vm : RemoveStale(v)
    BY <2>1, <2>2, <2>7 DEF RemoveStale, handlerVars, TypeOK
  <2>8. CASE \E h \in Handler, m \in requests : Receive(h, m)
    BY <2>1, <2>2, <2>8 DEF Receive, Goto, TypeOK, Request
  <2>9. CASE \E h \in Handler, v \in Vm :
                  ReceiveTerminating(h, v) \/ HandleStalePrimary(h, v)
    BY <2>1, <2>2, <2>9 DEF ReceiveTerminating, HandleStalePrimary, Serve, Goto, TypeOK
  <2>10. CASE \E h \in Handler : Abort(h)
    BY <2>1, <2>2, <2>10 DEF Abort, Finish, TypeOK
  <2>11. ASSUME NEW h \in Handler, Continue(h)
         PROVE  DatedInv'
    <3> DEFINE q == req[h]
               r == db[q.vm]
    <3>1. \A g \in Handler \ {h} : UNCHANGED <<pc[g], req[g], rec[g]>>
      BY <2>11
         DEF Continue, ReadRecord, CreateAws, CreateAzure, InsertAzure, UpdateRecord, Respond,
             TerminateVm, TerminateVmFails, CleanupRead, DeleteAws, DeleteAzure, EraseAzure,
             ForceRead, ForceWrite, Update, Proceed, Goto, Finish, TypeOK
    <3>2. q \in Request /\ q.vm \in Vm /\ UNCHANGED <<now, requests>>
      BY <2>2, <2>11
         DEF Continue, ReadRecord, CreateAws, CreateAzure, InsertAzure, UpdateRecord, Respond,
             TerminateVm, TerminateVmFails, CleanupRead, DeleteAws, DeleteAzure, EraseAzure,
             ForceRead, ForceWrite
    <3>3. \A v \in Vm : db'[v] # NoRecord => Dated(v, db[v])'
      <4>1. CASE UNCHANGED db
        BY <2>1, <4>1
      <4>2. CASE db' = [db EXCEPT ![q.vm] = NoRecord]
        BY <2>1, <3>2, <4>2 DEF TypeOK
      <4>3. CASE Write(h) /\ pc[h] \in {"create", "insert", "update", "respond", "forceWrite"}
        BY <2>1, <3>2, <4>3 DEF Write, TypeOK
      <4> QED
        BY <2>11, <4>1, <4>2, <4>3
           DEF Continue, ReadRecord, CreateAws, CreateAzure, InsertAzure, UpdateRecord,
               Respond, TerminateVm, TerminateVmFails, CleanupRead, DeleteAws, DeleteAzure,
               EraseAzure, ForceRead, ForceWrite, Update
    <3>4. /\ pc'[h] # "read"
          /\ pc'[h] \in {"create", "insert", "update", "respond", "forceWrite"}
               => Dated(req[h].vm, rec[h])'
      <4>1. CASE ReadRecord(h)
        <5>1. SendTime(q) = NoTime <=> ~device[q.vm].timed
          BY <3>2, <4>1 DEF ReadRecord, SendTime, NoTime, Request
        <5> QED
          BY <2>1, <3>2, <4>1, <5>1
             DEF ReadRecord, FirstRecord, Stamp, Goto, Finish, TypeOK
      <4>2. CASE ForceRead(h)
        BY <2>1, <3>2, <4>2 DEF ForceRead, Goto, Finish, TypeOK, HealthCheckRecord
      <4>3. CASE \/ CreateAws(h) \/ CreateAzure(h) \/ InsertAzure(h)
                 \/ UpdateRecord(h) \/ Respond(h) \/ ForceWrite(h)
        BY <2>1, <3>2, <4>3
           DEF CreateAws, CreateAzure, InsertAzure, UpdateRecord, Respond, ForceWrite, Update,
               Proceed, Goto, Finish, TypeOK
      <4>4. CASE \/ TerminateVm(h) \/ TerminateVmFails(h) \/ CleanupRead(h)
                 \/ DeleteAws(h) \/ DeleteAzure(h) \/ EraseAzure(h)
        BY <4>4
           DEF TerminateVm, TerminateVmFails, CleanupRead, DeleteAws, DeleteAzure, EraseAzure,
               Goto, Finish, TypeOK
      <4> QED
        BY <2>11, <4>1, <4>2, <4>3, <4>4 DEF Continue
    <3> QED
      BY <2>1, <2>2, <3>1, <3>2, <3>3, <3>4
  <2> QED
    BY <2>3, <2>4, <2>5, <2>6, <2>7, <2>8, <2>9, <2>10, <2>11
       DEF Next, Environment, Reboot, ScaleIn, Terminated, vars, handlerVars
<1> QED
  BY <1>1, <1>2, TypeCorrect, PTL DEF Spec

\* The step that replaces a record is a conditional write of the handler's.
LEMMA ReplacingStep ==
  ASSUME TypeOK, [Next]_vars, NEW v \in Vm, Replacing(v), db'[v] # db[v]
  PROVE  \E h \in Handler :
           /\ pc[h] \in {"update", "respond", "forceWrite"}
           /\ req[h].vm = v
           /\ Accepts(db[v], rec[h])
           /\ db'[v] = rec[h]
<1>1. PICK h \in Handler :
        \/ DeleteAws(h) \/ EraseAzure(h) \/ CreateAws(h) \/ InsertAzure(h)
        \/ UpdateRecord(h) \/ Respond(h) \/ ForceWrite(h)
  <2>1. ~ \E w \in Vm : RemoveStale(w)
    BY DEF RemoveStale, Replacing, TypeOK
  <2> QED
    BY <2>1
       DEF Next, Environment, Continue, Tick, SendHeartbeat, Lose, Reboot, ScaleIn, vars,
           Terminated, Receive, ReadRecord, CreateAzure, TerminateVm, TerminateVmFails,
           CleanupRead, DeleteAzure, ReceiveTerminating, HandleStalePrimary, Serve, ForceRead, Abort
<1>2. ~ (DeleteAws(h) \/ EraseAzure(h))
  BY DEF DeleteAws, EraseAzure, Replacing, TypeOK
<1>3. ~ (CreateAws(h) \/ InsertAzure(h))
  <2> SUFFICES ASSUME CreateAws(h) \/ InsertAzure(h) PROVE FALSE
    OBVIOUS
  <2>1. pc[h] \in {"create", "insert"} /\ pc'[h] # pc[h] /\ Write(h)
    BY DEF CreateAws, InsertAzure, Proceed, Goto, Finish, TypeOK
  <2>2. req[h].vm = v
    BY <2>1 DEF Write, TypeOK
  <2> QED
    BY <2>1, <2>2 DEF Replacing, Unconditional
<1>4. pc[h] \in {"update", "respond", "forceWrite"} /\ Accepts(db[req[h].vm], rec[h]) /\ Write(h)
  BY <1>1, <1>2, <1>3 DEF UpdateRecord, Respond, ForceWrite, Update
<1>5. req[h].vm = v /\ db'[v] = rec[h]
  BY <1>4 DEF Write, TypeOK
<1> QED
  BY <1>4, <1>5

\* Neither the condition expression of DynamoDB nor the checker of Cosmos DB
\* lets a stored record be replaced by one older in sequence and send time.
THEOREM OlderNeverOverwrites == Spec => NoOlderOverwrite
<1>1. TypeOK /\ DatedInv /\ [Next]_vars
        => [\A v \in Vm : Replacing(v) =>
              ~(db'[v].seq < db[v].seq /\ db'[v].sendTime < db[v].sendTime)]_vars
  <2> SUFFICES ASSUME TypeOK, DatedInv, [Next]_vars, NEW v \in Vm, Replacing(v)
               PROVE  ~(db'[v].seq < db[v].seq /\ db'[v].sendTime < db[v].sendTime)
    BY Zenon
  <2>1. db[v] \in HealthCheckRecord
    BY DEF TypeOK, Replacing
  <2>2. CASE db'[v] = db[v]
    BY <2>1, <2>2 DEF HealthCheckRecord
  <2>3. CASE db'[v] # db[v]
    <3>1. PICK h \in Handler : /\ pc[h] \in {"update", "respond", "forceWrite"}
                               /\ req[h].vm = v
                               /\ Accepts(db[v], rec[h])
                               /\ db'[v] = rec[h]
      BY <2>3, ReplacingStep
    <3>2. rec[h] \in HealthCheckRecord
      BY <3>1 DEF TypeOK
    <3>3. Dated(v, db[v]) /\ Dated(v, rec[h])
      BY <3>1 DEF DatedInv, Replacing
    <3>4. AwsAccepts(db[v], rec[h]) \/ AzureAccepts(db[v], rec[h])
      BY <3>1 DEF Accepts, Replacing
    <3> QED
      BY <2>1, <3>1, <3>2, <3>3, <3>4
         DEF AwsAccepts, AzureAccepts, Dated, NoTime, HealthCheckRecord
  <2> QED
    BY <2>2, <2>3
<1> QED
  BY <1>1, TypeCorrect, DatedAlways, PTL DEF Spec, NoOlderOverwrite

----------------------------------------------------------------------------
(* The order of the heartbeats *)

Writing == {"create", "insert", "update", "respond", "forceWrite"}

\* The heartbeats of v that may still have an effect, by sequence and send
\* time: on their way, taken by a handler, about to be recorded, or recorded.
Reports(v) ==
  {<<m.seq, m.sent>> : m \in {n \in requests : n.vm = v}}
    \cup {<<req[h].seq, req[h].sent>> :
            h \in {g \in Handler : pc[g] = "read" /\ req[g].vm = v}}
    \cup {<<rec[h].seq, rec[h].sendTime>> :
            h \in {g \in Handler : pc[g] \in Writing /\ req[g].vm = v}}
    \cup {<<r.seq, r.sendTime>> : r \in {db[v]} \ {NoRecord}}

\* A device that reports both, numbers from 1 and has not rebooted.
Numbered(v) == device[v].timed /\ device[v].first = 1 /\ device[v].boots = 0

\* Its heartbeats have the same order by sequence and by send time.
OrderInv ==
  \A v \in Vm : Numbered(v) =>
    /\ device[v].seq >= 1
    /\ \A a \in Reports(v) : a[1] >= 1 /\ a[1] < device[v].seq /\ a[2] <= device[v].sent
    /\ \A a, b \in Reports(v) : a[1] <= b[1] <=> a[2] <= b[2]

\* The handler h takes a step.
Acts(h) ==
  \/ Continue(h) \/ Abort(h)
  \/ \E m \in requests : Receive(h, m)
  \/ \E v \in Vm : ReceiveTerminating(h, v) \/ HandleStalePrimary(h, v)

LEMMA OthersStandBy ==
  ASSUME TypeOK, NEW h \in Handler, Acts(h), NEW g \in Handler, g # h
  PROVE  UNCHANGED <<pc[g], req[g], rec[g]>>
<1>1. CASE Continue(h)
  BY <1>1
     DEF Continue, ReadRecord, CreateAws, CreateAzure, InsertAzure, UpdateRecord, Respond,
         TerminateVm, TerminateVmFails, CleanupRead, DeleteAws, DeleteAzure, EraseAzure,
         ForceRead, ForceWrite, Update, Proceed, Goto, Finish, TypeOK
<1>2. CASE ~Continue(h)
  BY <1>2
     DEF Acts, Abort, Finish, Receive, ReceiveTerminating, HandleStalePrimary, Serve, Goto, TypeOK
<1> QED
  BY <1>1, <1>2

\* A step is the environment's, which leaves all handlers alone, or one handler's.
LEMMA StepOfOne ==
  ASSUME [Next]_vars
  PROVE  \/ (Environment \/ UNCHANGED vars) /\ UNCHANGED handlerVars
         \/ \E h \in Handler : Acts(h)
<1>1. Environment \/ UNCHANGED vars => UNCHANGED handlerVars
  BY DEF Environment, Tick, SendHeartbeat, Lose, Reboot, ScaleIn, Terminated, RemoveStale,
         vars, handlerVars
<1> QED
  BY <1>1 DEF Next, Acts

\* A handler changes only by a step of its own.
LEMMA OnlyActorMoves ==
  ASSUME TypeOK, [Next]_vars, NEW h \in Handler,
         ~ (pc'[h] = pc[h] /\ req'[h] = req[h] /\ rec'[h] = rec[h])
  PROVE  Acts(h)
<1>1. ~ UNCHANGED handlerVars
  BY DEF handlerVars
<1> QED
  BY <1>1, StepOfOne, OthersStandBy

\* Continuing a request never leads back to its first read.
LEMMA ContinueNotRead ==
  ASSUME TypeOK, NEW h \in Handler, Continue(h)
  PROVE  pc'[h] # "read"
<1>1. after[h] # "read"
  BY DEF TypeOK
<1> QED
  BY <1>1
     DEF Continue, ReadRecord, CreateAws, CreateAzure, InsertAzure, UpdateRecord, Respond,
         TerminateVm, TerminateVmFails, CleanupRead, DeleteAws, DeleteAzure, EraseAzure,
         ForceRead, ForceWrite, Update, Proceed, Goto, Finish, TypeOK

\* A device sends nothing twice at one instant, and Reboot ends its numbering.
LEMMA DeviceStep ==
  ASSUME TypeOK, [Next]_vars, NEW v \in Vm, Numbered(v)'
  PROVE  /\ Numbered(v)
         /\ \/ UNCHANGED device[v]
            \/ /\ SendHeartbeat(v)
               /\ device'[v].seq = device[v].seq + 1
               /\ device'[v].sent = now
               /\ device[v].sent < now
<1> USE DEF Numbered
<1>1. ASSUME NEW w \in Vm, SendHeartbeat(w)
      PROVE  /\ Numbered(v)
             /\ \/ UNCHANGED device[v]
                \/ /\ SendHeartbeat(v)
                   /\ device'[v].seq = device[v].seq + 1
                   /\ device'[v].sent = now
                   /\ device[v].sent < now
  BY <1>1 DEF SendHeartbeat, TypeOK, Device
<1>2. ASSUME NEW w \in Vm, Reboot(w) PROVE UNCHANGED device[v]
  BY <1>2 DEF Reboot, TypeOK, Device
<1>3. CASE UNCHANGED device
  BY <1>3
<1> QED
  BY <1>1, <1>2, <1>3
     DEF Next, Environment, Continue, Tick, Lose, ScaleIn, Terminated, RemoveStale,
         Receive, ReadRecord, CreateAws, CreateAzure, InsertAzure, UpdateRecord,
         Respond, TerminateVm, TerminateVmFails, CleanupRead, DeleteAws, DeleteAzure,
         EraseAzure, ReceiveTerminating, HandleStalePrimary, Serve, ForceRead, ForceWrite,
         Abort, vars

\* What a handler makes of a heartbeat carries the number and time of it.
LEMMA WrittenReport ==
  ASSUME NEW q \in Request, device[q.vm].timed, q.seq >= 1
  PROVE  /\ FirstRecord(q).seq = q.seq /\ FirstRecord(q).sendTime = q.sent
         /\ \A r : Stamp(r, q).seq = q.seq /\ Stamp(r, q).sendTime = q.sent
BY DEF Request, HasSeq, SendTime, FirstRecord, Stamp

\* No step but the sending of a heartbeat adds to the reports of a device.
LEMMA ReportsStep ==
  ASSUME TypeOK, OrderInv, [Next]_vars, NEW v \in Vm, Numbered(v),
         NEW a \in Reports(v)', a \notin Reports(v)
  PROVE  SendHeartbeat(v) /\ a = <<device[v].seq, now>>
<1> DEFINE Goal == SendHeartbeat(v) /\ a = <<device[v].seq, now>>
<1>0. \A h \in Handler : pc[h] # "idle" => req[h] \in Request /\ req[h].vm \in Vm
  BY DEF TypeOK, Request
<1>1. CASE a \in {<<m.seq, m.sent>> : m \in {n \in requests' : n.vm = v}}
  <2>1. PICK m \in requests' : m.vm = v /\ a = <<m.seq, m.sent>>
    BY <1>1
  <2>2. m \notin requests
    BY <2>1 DEF Reports
  <2>3. PICK w \in Vm : SendHeartbeat(w)
    BY <2>2
       DEF Next, Environment, Continue, Tick, Lose, Reboot, ScaleIn, Terminated, RemoveStale,
           Receive, ReadRecord, CreateAws, CreateAzure, InsertAzure, UpdateRecord,
           Respond, TerminateVm, TerminateVmFails, CleanupRead, DeleteAws, DeleteAzure,
           EraseAzure, ReceiveTerminating, HandleStalePrimary, Serve, ForceRead, ForceWrite,
           Abort, vars
  <2>4. m = [vm |-> w, seq |-> device[w].seq, sent |-> now, arrive |-> 0]
    BY <2>1, <2>2, <2>3 DEF SendHeartbeat
  <2>5. w = v /\ a = <<device[v].seq, now>>
    BY <2>1, <2>4
  <2> QED
    BY <2>3, <2>5
<1>2. CASE a \in {<<req'[h].seq, req'[h].sent>> :
                    h \in {g \in Handler : pc'[g] = "read" /\ req'[g].vm = v}}
  <2>1. PICK h \in Handler : pc'[h] = "read" /\ req'[h].vm = v /\ a = <<req'[h].seq, req'[h].sent>>
    BY <1>2
  <2>2. ~ (pc'[h] = pc[h] /\ req'[h] = req[h])
    BY <2>1 DEF Reports
  <2>3. PICK m \in requests : Receive(h, m)
    <3>1. ~ (Continue(h) \/ Abort(h))
      BY <2>1, ContinueNotRead DEF Abort, Finish, TypeOK
    <3>2. \A w \in Vm : ~ (ReceiveTerminating(h, w) \/ HandleStalePrimary(h, w))
      BY <2>1 DEF ReceiveTerminating, HandleStalePrimary, Serve, Goto, TypeOK
    <3> QED
      BY <2>2, <3>1, <3>2, OnlyActorMoves DEF Acts
  <2>4. req'[h] = [m EXCEPT !.arrive = now] /\ m \in Request
    BY <2>3 DEF Receive, TypeOK
  <2>5. m.vm = v /\ a = <<m.seq, m.sent>>
    BY <2>1, <2>4 DEF Request
  <2> QED
    BY <2>5 DEF Reports
<1>3. CASE a \in {<<rec'[h].seq, rec'[h].sendTime>> :
                    h \in {g \in Handler : pc'[g] \in Writing /\ req'[g].vm = v}}
  <2>1. PICK h \in Handler : /\ pc'[h] \in Writing /\ req'[h].vm = v
                             /\ a = <<rec'[h].seq, rec'[h].sendTime>>
    BY <1>3
  <2>2. ~ (pc[h] \in Writing /\ req'[h] = req[h] /\ rec'[h] = rec[h])
    BY <2>1 DEF Reports
  <2>3. ReadRecord(h) \/ ForceRead(h)
    <3>1. /\ ~ Abort(h)
          /\ \A m \in requests : ~ Receive(h, m)
          /\ \A w \in Vm : ~ (ReceiveTerminating(h, w) \/ HandleStalePrimary(h, w))
      BY <2>1 DEF Abort, Finish, Receive, ReceiveTerminating, HandleStalePrimary, Serve, Goto,
                  TypeOK, Writing
    <3>2. Continue(h)
      BY <2>1, <2>2, <3>1, OnlyActorMoves DEF Acts
    <3>3. \/ CreateAws(h) \/ CreateAzure(h) \/ InsertAzure(h)
          \/ UpdateRecord(h) \/ Respond(h) \/ ForceWrite(h)
          => pc[h] \in Writing /\ (pc'[h] = "idle" \/ UNCHANGED <<req[h], rec[h]>>)
      BY DEF CreateAws, CreateAzure, InsertAzure, UpdateRecord, Respond, ForceWrite, Update,
             Proceed, Goto, Finish, TypeOK, Writing
    <3>4. \/ TerminateVm(h) \/ TerminateVmFails(h) \/ CleanupRead(h)
          \/ DeleteAws(h) \/ DeleteAzure(h) \/ EraseAzure(h)
          => pc'[h] \notin Writing
      BY DEF TerminateVm, TerminateVmFails, CleanupRead, DeleteAws, DeleteAzure, EraseAzure,
             Goto, Finish, TypeOK, Writing
    <3> QED
      BY <2>1, <2>2, <3>2, <3>3, <3>4 DEF Continue, Writing
  <2>4. CASE ReadRecord(h)
    <3>1. /\ pc[h] = "read" /\ req[h] \in Request /\ req'[h] = req[h]
          /\ \/ rec'[h] = FirstRecord(req[h])
             \/ \E r : rec'[h] = Stamp(r, req[h])
      BY <1>0, <2>1, <2>4 DEF ReadRecord, Goto, Finish, TypeOK, Writing
    <3>2. <<req[h].seq, req[h].sent>> \in Reports(v)
      BY <2>1, <3>1 DEF Reports
    <3>3. req[h].seq >= 1
      BY <3>2 DEF OrderInv
    <3> QED
      BY <2>1, <3>1, <3>2, <3>3, WrittenReport DEF Numbered
  <2>5. CASE ForceRead(h)
    <3>1. /\ db[v] # NoRecord /\ db[v] \in HealthCheckRecord
          /\ rec'[h] = [db[v] EXCEPT !.syncState = "OutOfSync"]
      BY <1>0, <2>1, <2>5 DEF ForceRead, Goto, Finish, TypeOK, Writing
    <3>2. a = <<db[v].seq, db[v].sendTime>>
      BY <2>1, <3>1 DEF HealthCheckRecord
    <3> QED
      BY <3>1, <3>2 DEF Reports
  <2> QED
    BY <2>3, <2>4, <2>5
<1>4. CASE a \in {<<r.seq, r.sendTime>> : r \in {db'[v]} \ {NoRecord}}
  <2>1. db'[v] # NoRecord /\ a = <<db'[v].seq, db'[v].sendTime>>
    BY <1>4
  <2>2. db'[v] # db[v]
    BY <2>1 DEF Reports
  <2>3. PICK h \in Handler : Write(h) /\ pc[h] \in Writing
    BY <2>1, <2>2
       DEF Next, Environment, Continue, Tick, SendHeartbeat, Lose, Reboot, ScaleIn, Terminated,
           RemoveStale, Receive, ReadRecord, CreateAws, CreateAzure, InsertAzure, UpdateRecord,
           Respond, TerminateVm, TerminateVmFails, CleanupRead, DeleteAws, DeleteAzure,
           EraseAzure, ReceiveTerminating, HandleStalePrimary, Serve, ForceRead, ForceWrite,
           Abort, Update, TypeOK, vars, Writing
  <2>4. req[h].vm = v /\ db'[v] = rec[h]
    BY <1>0, <2>2, <2>3 DEF Write, TypeOK
  <2> QED
    BY <2>1, <2>3, <2>4 DEF Reports
<1> QED
  BY <1>1, <1>2, <1>3, <1>4 DEF Reports

LEMMA OrderAlways == Spec => []OrderInv
<1>1. Init => OrderInv
  <2> SUFFICES ASSUME Init, NEW v \in Vm, Numbered(v)
               PROVE  Reports(v) = {} /\ device[v].seq >= 1
    BY DEF OrderInv
  <2>1. Reports(v) = {}
    <3>1. requests = {} /\ db[v] = NoRecord /\ \A h \in Handler : pc[h] = "idle"
      BY DEF Init
    <3>2. {db[v]} \ {NoRecord} = {} /\ {n \in requests : n.vm = v} = {}
      BY <3>1
    <3>3. /\ {g \in Handler : pc[g] = "read" /\ req[g].vm = v} = {}
          /\ {g \in Handler : pc[g] \in Writing /\ req[g].vm = v} = {}
      BY <3>1 DEF Writing
    <3> QED
      BY <3>2, <3>3 DEF Reports
  <2>2. device[v].seq = device[v].first
    BY DEF Init
  <2> QED
    BY <2>1, <2>2 DEF Numbered
<1>2. TypeOK /\ OrderInv /\ [Next]_vars => OrderInv'
  <2> SUFFICES ASSUME TypeOK, OrderInv, [Next]_vars, NEW v \in Vm, Numbered(v)'
               PROVE  /\ device'[v].seq >= 1
                      /\ \A a \in Reports(v)' :
                           a[1] >= 1 /\ a[1] < device'[v].seq /\ a[2] <= device'[v].sent
                      /\ \A a, b \in Reports(v)' : a[1] <= b[1] <=> a[2] <= b[2]
    BY DEF OrderInv
  <2>1. Numbered(v) /\ device[v] \in Device /\ now \in Nat
    BY DeviceStep DEF TypeOK
  <2>2. /\ device[v].seq \in Nat /\ device[v].sent \in Nat /\ device[v].seq >= 1
        /\ \A a \in Reports(v) : a[1] >= 1 /\ a[1] < device[v].seq /\ a[2] <= device[v].sent
        /\ \A a, b \in Reports(v) : a[1] <= b[1] <=> a[2] <= b[2]
    BY <2>1 DEF OrderInv, Device
  <2>3. \A a \in Reports(v) : a[1] \in Nat /\ a[2] \in Nat
    BY DEF Reports, TypeOK, Request, HealthCheckRecord, Writing
  <2>4. CASE SendHeartbeat(v)
    <3>1. \A a \in Reports(v)' : a \in Reports(v) \/ (a[1] = device[v].seq /\ a[2] = now)
      BY <2>1, ReportsStep
    <3>2. /\ device[v].sent < now
          /\ device'[v].seq = device[v].seq + 1 /\ device'[v].sent = now
      BY <2>1, <2>4 DEF SendHeartbeat, TypeOK, Device
    <3> QED
      BY <2>1, <2>2, <2>3, <3>1, <3>2
  <2>5. CASE ~SendHeartbeat(v)
    <3>1. Reports(v)' \subseteq Reports(v) /\ UNCHANGED device[v]
      BY <2>1, <2>5, ReportsStep, DeviceStep
    <3> QED
      BY <2>2, <3>1
  <2> QED
    BY <2>4, <2>5
<1> QED
  BY <1>1, <1>2, TypeCorrect, PTL DEF Spec

\* Until its device reboots, the record of a VM goes back neither in sequence
\* nor in send time, however its requests are delayed, overtaken, handled at
\* once or fail: the two conditions of the adapters agree with the order in
\* which the heartbeats were sent.
THEOREM NeverRegresses == Spec => NoRegressionBeforeReboot
<1>1. TypeOK /\ DatedInv /\ OrderInv /\ [Next]_vars
        => [\A v \in Vm : Replacing(v) /\ device[v].boots = 0 /\ device[v].first = 1 =>
              db'[v].seq >= db[v].seq /\ db'[v].sendTime >= db[v].sendTime]_vars
  <2> SUFFICES ASSUME TypeOK, DatedInv, OrderInv, [Next]_vars, NEW v \in Vm, Replacing(v),
                      device[v].boots = 0, device[v].first = 1
               PROVE  db'[v].seq >= db[v].seq /\ db'[v].sendTime >= db[v].sendTime
    BY Zenon
  <2>1. db[v] \in HealthCheckRecord
    BY DEF TypeOK, Replacing
  <2>2. CASE db'[v] = db[v]
    BY <2>1, <2>2 DEF HealthCheckRecord
  <2>3. CASE db'[v] # db[v]
    <3>1. PICK h \in Handler : /\ pc[h] \in {"update", "respond", "forceWrite"}
                               /\ req[h].vm = v
                               /\ Accepts(db[v], rec[h])
                               /\ db'[v] = rec[h]
      BY <2>3, ReplacingStep
    <3> DEFINE old == db[v]
               new == rec[h]
    <3>2. new \in HealthCheckRecord
      BY <3>1 DEF TypeOK
    <3>3. Dated(v, old) /\ Dated(v, new)
      BY <3>1 DEF DatedInv, Replacing
    <3>4. AwsAccepts(old, new) \/ AzureAccepts(old, new)
      BY <3>1 DEF Accepts, Replacing
    <3>5. CASE ~device[v].timed
      BY <2>1, <3>1, <3>2, <3>3, <3>4, <3>5
         DEF AwsAccepts, AzureAccepts, Dated, NoTime, HealthCheckRecord
    <3>6. CASE device[v].timed
      <4>1. /\ <<old.seq, old.sendTime>> \in Reports(v)
            /\ <<new.seq, new.sendTime>> \in Reports(v)
        BY <3>1 DEF Reports, Replacing, Writing
      <4>2. \A a, b \in Reports(v) : a[1] <= b[1] <=> a[2] <= b[2]
        BY <3>6 DEF OrderInv, Numbered
      <4>3. /\ old.seq <= new.seq <=> old.sendTime <= new.sendTime
            /\ new.seq <= old.seq <=> new.sendTime <= old.sendTime
        BY <4>1, <4>2
      <4> QED
        BY <2>1, <3>1, <3>2, <3>3, <3>4, <3>6, <4>3
           DEF AwsAccepts, AzureAccepts, Dated, NoTime, HealthCheckRecord
    <3> QED
      BY <3>5, <3>6
  <2> QED
    BY <2>2, <2>3
<1> QED
  BY <1>1, TypeCorrect, DatedAlways, OrderAlways, PTL DEF Spec, NoRegressionBeforeReboot

----------------------------------------------------------------------------
(* The refinement *)

\* The first record of a VM.
Fresh(w) == w.syncState = "InSync" /\ w.heartbeatLossCount = 0

SameVerdict(r, w) ==
  /\ r.syncState = w.syncState
  /\ r.heartbeatLossCount = w.heartbeatLossCount
  /\ r.syncRecoveryCount = w.syncRecoveryCount

\* The record w is what apply may make of r.
Follows(r, w) ==
  \/ SameVerdict(r, w) /\ r.syncState = "OutOfSync"
  \/ r.syncState = "InSync" /\ (SameVerdict(LateInSync(r), w) \/ SameVerdict(OnTimeInSync(r), w))
  \/ r.syncState = "OutOfSync"
       /\ (SameVerdict(LateOutOfSync(r), w) \/ SameVerdict(OnTimeOutOfSync(r), w))

OneRequestPerVm ==
  \A g, h \in Handler :
    pc[g] # "idle" /\ pc[h] # "idle" /\ req[g].vm = req[h].vm => g = h

\* What a handler holds in memory is current, for a VM in service.
HeldCurrent(h) ==
  LET v == req[h].vm IN
  pc[h] # "idle" /\ vmState[v] = "running" =>
    /\ pc[h] \in {"create", "insert"} => db[v] = NoRecord /\ Fresh(rec[h])
    /\ pc[h] = "update" => db[v] # NoRecord /\ Follows(db[v], rec[h])
    /\ pc[h] = "respond" => db[v] = rec[h]
    /\ pc[h] # "forceWrite"

\* The inductive invariant, where no two requests of one VM overlap.
SoleInv ==
  /\ ConsistencyInv
  /\ OneRequestPerVm
  /\ \A h \in Handler : HeldCurrent(h)

\* A request is taken up only when no other of its VM is in progress.
LEMMA OneRequestStays ==
  ASSUME TypeOK, OneRequestPerVm, Overlap = FALSE, [Next]_vars
  PROVE  OneRequestPerVm'
<1>1. CASE UNCHANGED handlerVars
  BY <1>1 DEF OneRequestPerVm, handlerVars
<1>2. ASSUME NEW h \in Handler, Acts(h) PROVE OneRequestPerVm'
  <2>1. \A g \in Handler : g # h => pc'[g] = pc[g] /\ req'[g] = req[g]
    BY <1>2, OthersStandBy
  <2>2. \/ pc[h] # "idle" /\ (pc'[h] = "idle" \/ req'[h] = req[h])
        \/ \A g \in Handler : pc[g] # "idle" => req[g].vm # req'[h].vm
    <3>1. CASE Continue(h)
      BY <3>1
         DEF Continue, ReadRecord, CreateAws, CreateAzure, InsertAzure, UpdateRecord, Respond,
             TerminateVm, TerminateVmFails, CleanupRead, DeleteAws, DeleteAzure, EraseAzure,
             ForceRead, ForceWrite, Update, Proceed, Goto, Finish, TypeOK
    <3>2. CASE Abort(h)
      BY <3>2 DEF Abort, Finish, TypeOK
    <3>3. ASSUME NEW m \in requests, Receive(h, m)
          PROVE  \A g \in Handler : pc[g] # "idle" => req[g].vm # req'[h].vm
      <4>1. req'[h] = [m EXCEPT !.arrive = now] /\ m \in Request /\ ~Busy(m.vm)
        BY <3>3 DEF Receive, MayStart, TypeOK
      <4>2. req'[h].vm = m.vm
        BY <4>1 DEF Request
      <4> QED
        BY <4>1, <4>2 DEF Busy
    <3>4. ASSUME NEW v \in Vm, ReceiveTerminating(h, v) \/ HandleStalePrimary(h, v)
          PROVE  \A g \in Handler : pc[g] # "idle" => req[g].vm # req'[h].vm
      <4>1. req'[h].vm = v /\ ~Busy(v)
        BY <3>4 DEF ReceiveTerminating, HandleStalePrimary, Serve, MayStart, TypeOK
      <4> QED
        BY <4>1 DEF Busy
    <3> QED
      BY <1>2, <3>1, <3>2, <3>3, <3>4 DEF Acts
  <2> QED
    BY <2>1, <2>2 DEF OneRequestPerVm
<1> QED
  BY <1>1, <1>2, StepOfOne

\* The record of a VM changes by a step of a handler that serves it, or when
\* the VM is gone.
LEMMA TableStep ==
  ASSUME TypeOK, [Next]_vars, NEW v \in Vm, db'[v] # db[v]
  PROVE  \/ vmState[v] = "gone"
         \/ \E h \in Handler :
              /\ Continue(h) /\ pc[h] # "idle" /\ req[h].vm = v
              /\ db'[v] # NoRecord => pc[h] \in Writing /\ Write(h) /\ db'[v] = rec[h]
<1>1. CASE \E w \in Vm : RemoveStale(w)
  BY <1>1 DEF RemoveStale, TypeOK
<1>2. ASSUME NEW h \in Handler, Continue(h)
      PROVE  /\ pc[h] # "idle" /\ req[h].vm = v
             /\ db'[v] # NoRecord => pc[h] \in Writing /\ Write(h) /\ db'[v] = rec[h]
  <2>1. /\ pc[h] # "idle"
        /\ \/ pc[h] \in Writing /\ Write(h)
           \/ db' = [db EXCEPT ![req[h].vm] = NoRecord]
    BY <1>2
       DEF Continue, ReadRecord, CreateAws, CreateAzure, InsertAzure, UpdateRecord, Respond,
           TerminateVm, TerminateVmFails, CleanupRead, DeleteAws, DeleteAzure, EraseAzure,
           ForceRead, ForceWrite, Update, Writing
  <2>2. req[h].vm = v
    BY <2>1 DEF Write, TypeOK
  <2> QED
    BY <2>1, <2>2 DEF Write, TypeOK
<1>3. (\E w \in Vm : RemoveStale(w)) \/ (\E h \in Handler : Continue(h))
  BY DEF Next, Environment, Tick, SendHeartbeat, Lose, Reboot, ScaleIn, Terminated, vars,
         Receive, ReceiveTerminating, HandleStalePrimary, Serve, Abort
<1> QED
  BY <1>1, <1>2, <1>3

\* What apply makes of a record follows from it.
LEMMA JudgeFollows ==
  ASSUME NEW r \in HealthCheckRecord, NEW q
  PROVE  Follows(r, Stamp(Judge(r, q), q))
BY DEF Judge, Stamp, Follows, SameVerdict, HealthCheckRecord

LEMMA ActorCurrent ==
  ASSUME TypeOK, SoleInv, [Next]_vars, NEW h \in Handler, Acts(h)
  PROVE  HeldCurrent(h)'
<1> DEFINE q == req[h]
           v == req[h].vm
<1>0. pc[h] # "idle" => q \in Request /\ v \in Vm
  BY DEF TypeOK, Request
<1>1. HeldCurrent(h) /\ \A w \in Vm : vmState'[w] = "running" => vmState[w] = "running"
  BY NeverRunningAgain DEF SoleInv
<1>2. CASE pc'[h] \notin Writing
  BY <1>2 DEF HeldCurrent, Writing
<1>3. CASE ReadRecord(h)
  <2>1. q \in Request /\ v \in Vm
    BY <1>0, <1>3 DEF ReadRecord
  <2>2. Fresh(FirstRecord(q))
    BY DEF Fresh, FirstRecord
  <2>3. db[v] # NoRecord => Follows(db[v], Stamp(Judge(db[v], q), q))
    BY <2>1, JudgeFollows DEF TypeOK
  <2> QED
    BY <1>3, <2>1, <2>2, <2>3 DEF ReadRecord, Goto, Finish, TypeOK, HeldCurrent
<1>4. CASE ForceRead(h)
  <2>1. vmState[v] # "running" /\ v \in Vm
    BY <1>0, <1>4 DEF ForceRead, SoleInv, ConsistencyInv, ForcedNotRunning
  <2>2. pc'[h] = "idle" \/ req'[h] = req[h]
    BY <1>4 DEF ForceRead, Goto, Finish, TypeOK
  <2> QED
    BY <1>1, <2>1, <2>2 DEF HeldCurrent
<1>5. CASE \/ CreateAws(h) \/ CreateAzure(h) \/ InsertAzure(h)
           \/ UpdateRecord(h) \/ Respond(h) \/ ForceWrite(h)
  <2>1. /\ pc[h] \in Writing /\ q \in Request /\ v \in Vm
        /\ UNCHANGED vmState
    BY <1>0, <1>5
       DEF CreateAws, CreateAzure, InsertAzure, UpdateRecord, Respond, ForceWrite, Writing
  <2>2. \/ pc'[h] \notin Writing
        \/ /\ UNCHANGED <<req[h], rec[h]>>
           /\ \/ pc'[h] = "respond" /\ Write(h)
              \/ pc'[h] = "insert" /\ pc[h] = "create" /\ UNCHANGED db /\ db[v] = NoRecord
              \/ pc'[h] = "insert" /\ pc[h] # "create" /\ UNCHANGED db /\ db[v] = NoRecord
    BY <1>5
       DEF CreateAws, CreateAzure, InsertAzure, UpdateRecord, Respond, ForceWrite, Update,
           Unguarded, Proceed, Goto, Finish, TypeOK, Writing
  <2>3. CASE UNCHANGED <<req[h], rec[h]>> /\ pc'[h] = "respond" /\ Write(h)
    BY <2>1, <2>3 DEF Write, TypeOK, HeldCurrent
  <2>4. CASE /\ UNCHANGED <<req[h], rec[h]>> /\ pc'[h] = "insert"
             /\ UNCHANGED db /\ db[v] = NoRecord
    BY <1>1, <2>1, <2>4, RecordAssumption DEF HeldCurrent, Writing, TypeOK
  <2> QED
    BY <1>2, <2>2, <2>3, <2>4
<1>6. CASE \/ TerminateVm(h) \/ TerminateVmFails(h) \/ CleanupRead(h)
           \/ DeleteAws(h) \/ DeleteAzure(h) \/ EraseAzure(h)
  <2>1. pc'[h] \notin Writing
    BY <1>6 DEF TerminateVm, TerminateVmFails, CleanupRead, DeleteAws, DeleteAzure, EraseAzure,
                Goto, Finish, TypeOK, Writing
  <2> QED
    BY <1>2, <2>1
<1>7. CASE ~Continue(h)
  <2>1. pc'[h] \notin Writing
    BY <1>7 DEF Acts, Abort, Finish, Receive, ReceiveTerminating, HandleStalePrimary, Serve,
                Goto, TypeOK, Writing
  <2> QED
    BY <1>2, <2>1
<1> QED
  BY <1>3, <1>4, <1>5, <1>6, <1>7 DEF Continue

LEMMA SoleInvAlways ==
  ASSUME Overlap = FALSE
  PROVE  Spec => []SoleInv
<1>1. Init => OneRequestPerVm /\ \A h \in Handler : HeldCurrent(h)
  BY DEF Init, OneRequestPerVm, HeldCurrent
<1>2. ConsistencyInv /\ SoleInv /\ [Next]_vars
        => (OneRequestPerVm /\ \A h \in Handler : HeldCurrent(h))'
  <2> SUFFICES ASSUME ConsistencyInv, SoleInv, [Next]_vars
               PROVE  (OneRequestPerVm /\ \A h \in Handler : HeldCurrent(h))'
    OBVIOUS
  <2>1. TypeOK /\ OneRequestPerVm /\ \A h \in Handler : HeldCurrent(h)
    BY DEF SoleInv, ConsistencyInv
  <2>2. OneRequestPerVm'
    BY <2>1, OneRequestStays
  <2>3. ASSUME NEW h \in Handler, ~Acts(h) PROVE HeldCurrent(h)'
    <3>1. pc'[h] = pc[h] /\ req'[h] = req[h] /\ rec'[h] = rec[h]
      BY <2>1, <2>3, OnlyActorMoves
    <3> SUFFICES ASSUME pc[h] # "idle", vmState'[req[h].vm] = "running"
                 PROVE  HeldCurrent(h)'
      BY <3>1 DEF HeldCurrent
    <3>2. req[h].vm \in Vm
      BY <2>1 DEF TypeOK, Request
    <3>3. vmState[req[h].vm] = "running"
      BY <2>1, <3>2, NeverRunningAgain
    <3>4. db'[req[h].vm] = db[req[h].vm]
      BY <2>1, <2>3, <3>2, <3>3, TableStep DEF OneRequestPerVm, Acts
    <3> QED
      BY <2>1, <3>1, <3>3, <3>4 DEF HeldCurrent, Follows, SameVerdict
  <2>4. \A h \in Handler : Acts(h) => HeldCurrent(h)'
    BY <2>1, ActorCurrent
  <2> QED
    BY <2>2, <2>3, <2>4
<1> QED
  BY <1>1, <1>2, ConsistencyAlways, PTL DEF Spec, SoleInv

\* A step changes the record or the state of one VM at most.
LEMMA OneVmAtATime ==
  ASSUME TypeOK, [Next]_vars
  PROVE  \/ UNCHANGED <<db, vmState>>
         \/ \E v \in Vm : \A w \in Vm \ {v} : db'[w] = db[w] /\ vmState'[w] = vmState[w]
<1>1. ASSUME NEW v \in Vm, RemoveStale(v) \/ ScaleIn(v) \/ Terminated(v)
      PROVE  \A w \in Vm \ {v} : db'[w] = db[w] /\ vmState'[w] = vmState[w]
  BY <1>1 DEF RemoveStale, ScaleIn, Terminated, TypeOK
<1>2. ASSUME NEW h \in Handler, Continue(h)
      PROVE  /\ req[h].vm \in Vm
             /\ \A w \in Vm \ {req[h].vm} : db'[w] = db[w] /\ vmState'[w] = vmState[w]
  <2>1. pc[h] # "idle"
    BY <1>2
       DEF Continue, ReadRecord, CreateAws, CreateAzure, InsertAzure, UpdateRecord, Respond,
           TerminateVm, TerminateVmFails, CleanupRead, DeleteAws, DeleteAzure, EraseAzure,
           ForceRead, ForceWrite
  <2>2. req[h].vm \in Vm
    BY <2>1 DEF TypeOK, Request
  <2>3. \A w \in Vm \ {req[h].vm} : db'[w] = db[w] /\ vmState'[w] = vmState[w]
    BY <1>2
       DEF Continue, ReadRecord, CreateAws, CreateAzure, InsertAzure, UpdateRecord, Respond,
           TerminateVm, TerminateVmFails, CleanupRead, DeleteAws, DeleteAzure, EraseAzure,
           ForceRead, ForceWrite, Update, Write, TypeOK
  <2> QED
    BY <2>2, <2>3
<1>3. \/ UNCHANGED <<db, vmState>>
      \/ \E v \in Vm : RemoveStale(v) \/ ScaleIn(v) \/ Terminated(v)
      \/ \E h \in Handler : Continue(h)
  BY DEF Next, Environment, Tick, SendHeartbeat, Lose, Reboot, vars, Receive,
         ReceiveTerminating, HandleStalePrimary, Serve, Abort
<1> QED
  BY <1>1, <1>2, <1>3

\* What apply makes of the record of a VM in service counts as a heartbeat on
\* time or late.
LEMMA FollowsCounts ==
  ASSUME NEW v \in Vm, vmState[v] = "running", vmState'[v] = "running",
         db[v] # NoRecord, db[v] \in HealthCheckRecord, Consistent(v, db[v]),
         db'[v] # NoRecord, Follows(db[v], db'[v])
  PROVE  LET s == StandingOf(v)
             t == StandingOf(v)' IN
         \/ t = s
         \/ s.state = "in" /\ t = Ledger!In(0)
         \/ s.state = "out" /\ t = IF s.count + 1 = SyncRecoveryCount THEN Ledger!In(0)
                                   ELSE Ledger!Out(s.count + 1)
         \/ s.state = "in" /\ t = IF s.count + 1 = HeartbeatLossCount THEN Ledger!Out(0)
                                  ELSE Ledger!In(s.count + 1)
         \/ s.state = "out" /\ t = Ledger!Out(0)
<1> DEFINE r == db[v]
           w == db'[v]
<1> USE SettingsAssumption DEF StandingOf, Ledger!In, Ledger!Out, SameVerdict, Judged
<1>1. CASE r.syncState = "InSync"
  <2>1. r.heartbeatLossCount \in Nat /\ r.heartbeatLossCount < HeartbeatLossCount
    BY <1>1 DEF Consistent, HealthCheckRecord
  <2>2. CASE SameVerdict(LateInSync(r), w)
    BY <1>1, <2>1, <2>2 DEF LateInSync
  <2>3. CASE SameVerdict(OnTimeInSync(r), w)
    BY <1>1, <2>3 DEF OnTimeInSync
  <2> QED
    BY <1>1, <2>2, <2>3 DEF Follows
<1>2. CASE r.syncState = "OutOfSync"
  <2>1. r.syncRecoveryCount \in 1..SyncRecoveryCount
    BY <1>2 DEF Consistent
  <2>2. CASE SameVerdict(r, w)
    BY <1>2, <2>2
  <2>3. CASE SameVerdict(LateOutOfSync(r), w)
    BY <1>2, <2>3 DEF LateOutOfSync
  <2>4. CASE SameVerdict(OnTimeOutOfSync(r), w)
    BY <1>2, <2>1, <2>4 DEF OnTimeOutOfSync
  <2> QED
    BY <1>2, <2>2, <2>3, <2>4 DEF Follows
<1> QED
  BY <1>1, <1>2 DEF HealthCheckRecord

\* What a step may do to the standing of a VM.
Counts(v) ==
  LET s == StandingOf(v)
      t == StandingOf(v)' IN
  \/ t = s
  \/ s = Ledger!Absent /\ t = Ledger!In(0)
  \/ s.state = "in" /\ t = Ledger!In(0)
  \/ s.state = "out" /\ t = IF s.count + 1 = SyncRecoveryCount THEN Ledger!In(0)
                            ELSE Ledger!Out(s.count + 1)
  \/ s.state = "in" /\ t = IF s.count + 1 = HeartbeatLossCount THEN Ledger!Out(0)
                           ELSE Ledger!In(s.count + 1)
  \/ s.state = "out" /\ t = Ledger!Out(0)
  \/ s # Ledger!Absent /\ t = Ledger!Absent

LEMMA StandingStep ==
  ASSUME SoleInv, [Next]_vars, NEW v \in Vm
  PROVE  Counts(v)
<1>1. TypeOK /\ RecordConsistent /\ \A h \in Handler : HeldCurrent(h)
  BY DEF SoleInv, ConsistencyInv
<1>2. CASE vmState'[v] # "running" \/ db'[v] = NoRecord
  BY <1>2 DEF Counts, StandingOf, Ledger!Absent
<1>3. CASE vmState'[v] = "running" /\ db'[v] # NoRecord
  <2>1. vmState[v] = "running"
    BY <1>1, <1>3, NeverRunningAgain
  <2>2. CASE db'[v] = db[v]
    BY <1>3, <2>1, <2>2 DEF Counts, StandingOf
  <2>3. CASE db'[v] # db[v]
    <3>1. PICK h \in Handler :
            pc[h] # "idle" /\ req[h].vm = v /\ pc[h] \in Writing /\ db'[v] = rec[h]
      BY <1>1, <1>3, <2>1, <2>3, TableStep
    <3>2. CASE db[v] = NoRecord /\ Fresh(rec[h])
      BY <1>3, <2>1, <3>1, <3>2
         DEF Fresh, Counts, StandingOf, Ledger!Absent, Ledger!In
    <3>3. CASE db[v] # NoRecord /\ Follows(db[v], rec[h])
      <4>1. db[v] \in HealthCheckRecord /\ Consistent(v, db[v])
        BY <1>1, <3>3 DEF TypeOK, RecordConsistent
      <4> QED
        BY <1>3, <2>1, <3>1, <3>3, <4>1, FollowsCounts DEF Counts
    <3> QED
      BY <1>1, <2>1, <2>3, <3>1, <3>2, <3>3 DEF HeldCurrent, Writing
  <2> QED
    BY <2>2, <2>3
<1> QED
  BY <1>2, <1>3

\* HeartbeatSync implements HealthLedger where no two requests of one VM are
\* handled at once: whatever is lost, delayed or fails, the record of a VM in
\* service counts its late heartbeats in a row, and its recovery.
THEOREM LedgerImplemented ==
  ASSUME Overlap = FALSE
  PROVE  Spec => ImplementsLedger
<1> DEFINE standing == [v \in Vm |-> StandingOf(v)]
<1>1. Init => Ledger!Init
  BY DEF Init, Ledger!Init, Ledger!Absent, StandingOf
<1>2. SoleInv /\ [Next]_vars => [Ledger!Next]_standing
  <2> SUFFICES ASSUME SoleInv, [Next]_vars PROVE Ledger!Next \/ standing' = standing
    OBVIOUS
  <2>1. CASE UNCHANGED <<db, vmState>>
    BY <2>1 DEF StandingOf
  <2>2. ASSUME NEW v \in Vm,
               \A w \in Vm \ {v} : db'[w] = db[w] /\ vmState'[w] = vmState[w]
        PROVE  Ledger!Next \/ standing' = standing
    <3>1. \A w \in Vm \ {v} : StandingOf(w)' = StandingOf(w)
      BY <2>2 DEF StandingOf
    <3>2. standing' = [standing EXCEPT ![v] = StandingOf(v)']
      BY <3>1
    <3>3. standing[v] = StandingOf(v)
      OBVIOUS
    <3>4. Counts(v)
      BY StandingStep
    <3> QED
      BY <3>2, <3>3, <3>4
         DEF Counts, Ledger!Next, Ledger!Register, Ledger!OnTime, Ledger!LateArrival,
             Ledger!Forget, Ledger!Become
  <2> QED
    BY <2>1, <2>2, OneVmAtATime DEF SoleInv, ConsistencyInv
<1> QED
  BY <1>1, <1>2, SoleInvAlways, PTL DEF Spec, ImplementsLedger, Ledger!Spec

====
