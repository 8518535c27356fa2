---- MODULE HeartbeatSync ----
(***************************************************************************)
(* Heartbeat synchronisation: ConstantIntervalHeartbeatSyncStrategy, the   *)
(* health check record it keeps in the database, and the part of           *)
(* Autoscale.handleHeartbeatSync and Autoscale.handleTerminatingVm that    *)
(* touches that record.                                                    *)
(*                                                                         *)
(* Each request runs in a cloud function instance of its own (a handler).  *)
(* Handlers share nothing but the database, which they read and write at   *)
(* different moments: one action is what a handler does between two        *)
(* awaits on the database or on the cloud platform.                        *)
(***************************************************************************)
EXTENDS Integers, FiniteSets

CONSTANTS
  Vm,                 \* ids of the virtual machines
  Handler,            \* function instances that may run at the same time
  Deployments,        \* the deployments considered, a subset of Deployment
  FirstSeqs,          \* sequences a device may start from: a comment of apply
                      \* says 0, the tests start from 1
  Interval,           \* heartbeat interval of the devices, in ticks
  DelayAllowance,     \* setting heartbeat-delay-allowance, in ticks
  HeartbeatLossCount, \* setting heartbeat-loss-count
  SyncRecoveryCount,  \* setting sync-recovery-count
  Overlap,            \* may two requests of one VM be in progress at once?
  Faults,             \* may a handler time out, or a database call fail?
  MaxTime,            \* bound: the clock stops there
  MaxReboots,         \* bound: reboots of a device
  MaxInFlight,        \* bound: requests of a VM sent and not yet received
  NoRecord            \* what the database returns for an absent record

Deployment == [platform : {"aws", "azure"}, terminateUnhealthyVm : BOOLEAN]

ASSUME SettingsAssumption ==
  /\ Deployments \subseteq Deployment
  /\ FirstSeqs \subseteq {0, 1}
  /\ Interval \in Nat \ {0}
  /\ DelayAllowance \in Nat
  /\ HeartbeatLossCount \in Nat \ {0}
  /\ SyncRecoveryCount \in Nat \ {0}
  /\ Overlap \in BOOLEAN
  /\ Faults \in BOOLEAN
  /\ MaxTime \in Nat
  /\ MaxReboots \in Nat
  /\ MaxInFlight \in Nat \ {0}

VARIABLES
  conf,     \* the deployment: fixed in a behaviour
  now,      \* wall clock, in ticks
  vmState,  \* the state of each VM in its scaling group
  device,   \* what each VM remembers about its own heartbeats
  requests, \* heartbeat requests sent and not yet taken by a handler
  db,       \* the Autoscale table: a health check record for each VM
  pc,       \* where each handler is
  req,      \* the request each handler serves
  rec,      \* the health check record each handler holds in memory
  after     \* where each handler goes once its record is written

vars == <<conf, now, vmState, device, requests, db, pc, req, rec, after>>
handlerVars == <<pc, req, rec, after>>

----------------------------------------------------------------------------
(* Data *)

\* sendTime of a device that reports none (JavaScript null).
NoTime == 0

\* HealthCheckRecord, less the properties no decision here depends on.
HealthCheckRecord ==
  [seq : Nat, sendTime : Nat, heartbeatLossCount : Nat,
   syncState : {"InSync", "OutOfSync"}, syncRecoveryCount : Nat,
   nextHeartbeatTime : Nat]

ASSUME RecordAssumption == NoRecord \notin HealthCheckRecord

\* DeviceSyncInfo: a request carries the instant it was sent and the sequence
\* number of the device. arrive is the creation time of the handler.
Request == [vm : Vm, seq : Nat, sent : Nat, arrive : Nat]

\* timed: the firmware reports sequence and time. seq is the next one, and
\* first the one it starts from after a boot.
Device ==
  [timed : BOOLEAN, first : FirstSeqs, seq : Nat, sent : Nat, boots : Nat]

Step ==
  {"idle", "read", "create", "insert", "update", "respond", "unhealthy",
   "cleanup", "delete", "erase", "forceRead", "forceWrite"}

TypeOK ==
  /\ conf \in Deployments
  /\ now \in Nat
  /\ vmState \in [Vm -> {"running", "terminating", "gone"}]
  /\ device \in [Vm -> Device]
  /\ requests \subseteq Request
  /\ db \in [Vm -> HealthCheckRecord \cup {NoRecord}]
  /\ pc \in [Handler -> Step]
  /\ req \in [Handler -> Request \cup {NoRecord}]
  /\ rec \in [Handler -> HealthCheckRecord \cup {NoRecord}]
  /\ after \in [Handler -> {"idle", "respond", "unhealthy"}]
  /\ \A h \in Handler : pc[h] # "idle" => req[h] \in Request
  /\ \A h \in Handler :
       pc[h] \in {"create", "insert", "update", "respond", "delete", "erase", "forceWrite"}
         => rec[h] \in HealthCheckRecord

----------------------------------------------------------------------------
(* ConstantIntervalHeartbeatSyncStrategy.apply: from the record read and   *)
(* the request to the record to write                                      *)

\* A sequence of 0, like an absent one, is read as NaN; so is the time of a
\* device that reports none.
HasSeq(q) == device[q.vm].timed /\ q.seq > 0

SendTime(q) == IF device[q.vm].timed THEN q.sent ELSE NoTime

\* Case 2 of the comment in apply: a later heartbeat is already recorded.
Outdated(r, q) ==
  /\ device[q.vm].timed
  /\ HasSeq(q) /\ q.seq < r.seq
  /\ SendTime(q) < r.sendTime

\* By device send time when the device reports it, by arrive time otherwise.
\* Out of sequence heartbeats count as on time.
Late(r, q) ==
  IF device[q.vm].timed
  THEN q.seq = r.seq + 1 /\ SendTime(q) - r.sendTime - Interval > 0
  ELSE q.arrive - r.nextHeartbeatTime - DelayAllowance > 0

FirstRecord(q) ==
  [seq |-> IF HasSeq(q) THEN q.seq ELSE 1,
   sendTime |-> SendTime(q),
   heartbeatLossCount |-> 0, syncState |-> "InSync", syncRecoveryCount |-> 0,
   nextHeartbeatTime |-> q.arrive + Interval]

\* The record with the three properties that apply judges.
Judged(r, lossCount, state, recoveryCount) ==
  [seq |-> r.seq, sendTime |-> r.sendTime, nextHeartbeatTime |-> r.nextHeartbeatTime,
   heartbeatLossCount |-> lossCount, syncState |-> state,
   syncRecoveryCount |-> recoveryCount]

\* Mutant of LateInSync: one loss more than allowed.
LateInSyncOffByOne(r) ==
  IF r.heartbeatLossCount + 1 > HeartbeatLossCount
  THEN Judged(r, r.heartbeatLossCount + 1, "OutOfSync", SyncRecoveryCount)
  ELSE Judged(r, r.heartbeatLossCount + 1, "InSync", r.syncRecoveryCount)

LateInSync(r) ==
  IF r.heartbeatLossCount + 1 >= HeartbeatLossCount
  THEN Judged(r, r.heartbeatLossCount + 1, "OutOfSync", SyncRecoveryCount)
  ELSE Judged(r, r.heartbeatLossCount + 1, "InSync", r.syncRecoveryCount)

OnTimeInSync(r) == Judged(r, 0, "InSync", r.syncRecoveryCount)

LateOutOfSync(r) ==
  Judged(r, r.heartbeatLossCount, "OutOfSync", SyncRecoveryCount)

\* Mutants of OnTimeOutOfSync: the count is not clamped; the losses stay.
OnTimeOutOfSyncUnclamped(r) ==
  IF r.syncRecoveryCount - 1 <= 0
  THEN Judged(r, 0, "InSync", r.syncRecoveryCount - 1)
  ELSE Judged(r, r.heartbeatLossCount, "OutOfSync", r.syncRecoveryCount - 1)

OnTimeOutOfSyncKeepsLosses(r) ==
  IF r.syncRecoveryCount - 1 <= 0
  THEN Judged(r, r.heartbeatLossCount, "InSync", 0)
  ELSE Judged(r, r.heartbeatLossCount, "OutOfSync", r.syncRecoveryCount - 1)

OnTimeOutOfSync(r) ==
  IF r.syncRecoveryCount - 1 <= 0
  THEN Judged(r, 0, "InSync", 0)
  ELSE Judged(r, r.heartbeatLossCount, "OutOfSync", r.syncRecoveryCount - 1)

Judge(r, q) ==
  IF r.syncState = "InSync"
  THEN IF Late(r, q) THEN LateInSync(r) ELSE OnTimeInSync(r)
  ELSE IF conf.terminateUnhealthyVm THEN r
  ELSE IF Late(r, q) THEN LateOutOfSync(r) ELSE OnTimeOutOfSync(r)

\* The judged record with what the request brings.
Stamp(r, q) ==
  [seq |-> IF HasSeq(q) THEN q.seq ELSE r.seq + 1,
   sendTime |-> SendTime(q), nextHeartbeatTime |-> q.arrive + Interval,
   heartbeatLossCount |-> r.heartbeatLossCount, syncState |-> r.syncState,
   syncRecoveryCount |-> r.syncRecoveryCount]

\* HealthCheckResult.Dropped of a record that is written all the same.
Dropped(r, q) ==
  r.syncState = "OutOfSync" /\ (conf.terminateUnhealthyVm \/ Late(r, q))

\* remainingLossAllowed and isHealthy, which parseHealthCheckRecord computes
\* from the stored record for a handler started at instant t.
RemainingLossAllowed(r, t) ==
  LET delayed == IF t - r.nextHeartbeatTime - DelayAllowance > 0 THEN 1 ELSE 0
  IN  HeartbeatLossCount - (r.heartbeatLossCount + delayed)

ParsedHealthy(r, t) == RemainingLossAllowed(r, t) > 0

\* oldPrimaryIsStale: irresponsivePeriod counts the intervals missed.
OldPrimaryIsStale(r, t) ==
  \/ ~ParsedHealthy(r, t)
  \/ /\ t > r.nextHeartbeatTime
     /\ (t - r.nextHeartbeatTime) \div Interval >= RemainingLossAllowed(r, t)

\* targetHealthCheckRecord.healthy after apply; the strategy sets it wherever
\* it sets syncState and leaves the parsed value otherwise.
Healthy(r, w, q) ==
  IF r.syncState = "OutOfSync" /\ w.syncState = "OutOfSync"
  THEN ParsedHealthy(r, q.arrive)
  ELSE w.syncState = "InSync"

\* Mutant of AfterWrite: an unhealthy VM is left alone whatever the setting.
AfterWriteLenient(r, w, q) ==
  IF ~Dropped(r, q) /\ Healthy(r, w, q) THEN "respond" ELSE "idle"

AfterWrite(r, w, q) ==
  CASE Dropped(r, q) -> "idle"
    [] ~Dropped(r, q) /\ Healthy(r, w, q) -> "respond"
    [] OTHER -> IF conf.terminateUnhealthyVm THEN "unhealthy" ELSE "idle"

----------------------------------------------------------------------------
(* The conditional writes of the two database adapters *)

\* Mutant of AwsAccepts: the branch for a reboot does not look at the time.
AwsAcceptsAnySequence(old, new) ==
  old.seq <= new.seq \/ old.seq > new.seq

\* DynamoDB: attribute_not_exists(vmId) OR seq <= :seq
\*           OR (seq > :seq AND sendTime <= :sendTime),
\* where :sendTime is the current time for a device that reports none and a
\* stored null compares as false.
AwsAccepts(old, new) ==
  \/ old.seq <= new.seq
  \/ /\ old.sendTime # NoTime
     /\ old.sendTime <= (IF new.sendTime = NoTime THEN now ELSE new.sendTime)

\* Mutant of AzureAccepts: the sequences are compared the wrong way round.
AzureAcceptsReversed(old, new) == ~(new.seq > old.seq /\ new.sendTime <= old.sendTime)

\* Cosmos DB: the checker of updateHealthCheckRecord on the snapshot, and an
\* etag that makes the write fail when the snapshot is no longer current.
AzureAccepts(old, new) == ~(new.seq < old.seq /\ new.sendTime <= old.sendTime)

Accepts(old, new) ==
  old # NoRecord =>
    IF conf.platform = "aws" THEN AwsAccepts(old, new) ELSE AzureAccepts(old, new)

----------------------------------------------------------------------------
(* The devices and the cloud platform *)

Init ==
  /\ conf \in Deployments
  /\ now = 1
  /\ vmState = [v \in Vm |-> "running"]
  /\ \E timed \in [Vm -> BOOLEAN], first \in [Vm -> FirstSeqs] :
       device = [v \in Vm |-> [timed |-> timed[v], first |-> first[v],
                               seq |-> first[v], sent |-> 0, boots |-> 0]]
  /\ requests = {}
  /\ db = [v \in Vm |-> NoRecord]
  /\ pc = [h \in Handler |-> "idle"]
  /\ req = [h \in Handler |-> NoRecord]
  /\ rec = [h \in Handler |-> NoRecord]
  /\ after = [h \in Handler |-> "idle"]

Tick ==
  /\ now < MaxTime
  /\ now' = now + 1
  /\ UNCHANGED <<conf, vmState, device, requests, db, handlerVars>>

\* At most one heartbeat a tick. The request may stay in flight for long, be
\* overtaken by later ones, or be lost.
SendHeartbeat(v) ==
  /\ vmState[v] # "gone"
  /\ device[v].sent < now
  /\ Cardinality({m \in requests : m.vm = v}) < MaxInFlight
  /\ device' = [device EXCEPT ![v].seq = @ + 1, ![v].sent = now]
  /\ requests' = requests \cup
       {[vm |-> v, seq |-> device[v].seq, sent |-> now, arrive |-> 0]}
  /\ UNCHANGED <<conf, now, vmState, db, handlerVars>>

Lose(m) ==
  /\ requests' = requests \ {m}
  /\ UNCHANGED <<conf, now, vmState, device, db, handlerVars>>

\* A reboot resets the sequence.
Reboot(v) ==
  /\ vmState[v] # "gone"
  /\ device[v].boots < MaxReboots
  /\ device' = [device EXCEPT ![v].seq = device[v].first, ![v].boots = @ + 1]
  /\ UNCHANGED <<conf, now, vmState, requests, db, handlerVars>>

\* A scaling activity starts to terminate a VM.
ScaleIn(v) ==
  /\ vmState[v] = "running"
  /\ vmState' = [vmState EXCEPT ![v] = IF conf.platform = "aws" THEN "terminating" ELSE "gone"]
  /\ UNCHANGED <<conf, now, device, requests, db, handlerVars>>

\* The scaling group completes a termination.
Terminated(v) ==
  /\ vmState[v] = "terminating"
  /\ vmState' = [vmState EXCEPT ![v] = "gone"]
  /\ UNCHANGED <<conf, now, device, requests, db, handlerVars>>

----------------------------------------------------------------------------
(* A handler, one step at a time *)

Busy(v) == \E h \in Handler : pc[h] # "idle" /\ req[h].vm = v

MayStart(v) == Overlap \/ ~Busy(v)

Goto(h, step) == pc' = [pc EXCEPT ![h] = step]

\* The handler returns: what it held in memory is lost.
Finish(h) ==
  /\ pc' = [pc EXCEPT ![h] = "idle"]
  /\ req' = [req EXCEPT ![h] = NoRecord]
  /\ rec' = [rec EXCEPT ![h] = NoRecord]
  /\ after' = [after EXCEPT ![h] = "idle"]

\* The function starts: createTime is now, getTargetVm finds the VM. EC2
\* still describes a VM being or just terminated, a scale set does not.
Receive(h, m) ==
  /\ pc[h] = "idle"
  /\ m \in requests
  /\ MayStart(m.vm)
  /\ conf.platform = "azure" => vmState[m.vm] # "gone"
  /\ requests' = requests \ {m}
  /\ req' = [req EXCEPT ![h] = [m EXCEPT !.arrive = now]]
  /\ Goto(h, "read")
  /\ UNCHANGED <<conf, now, vmState, device, db, rec, after>>

\* apply: getHealthCheckRecord and all that follows up to the next await.
ReadRecord(h) ==
  LET q == req[h]
      r == db[q.vm]
      w == Stamp(Judge(r, q), q)
  IN
  /\ pc[h] = "read"
  /\ \/ /\ r = NoRecord
        /\ rec' = [rec EXCEPT ![h] = FirstRecord(q)]
        /\ after' = [after EXCEPT ![h] = "respond"]
        /\ Goto(h, "create")
        /\ UNCHANGED req
     \/ /\ r # NoRecord
        /\ ~Outdated(r, q)
        /\ rec' = [rec EXCEPT ![h] = w]
        /\ after' = [after EXCEPT ![h] = AfterWrite(r, w, q)]
        /\ Goto(h, "update")
        /\ UNCHANGED req
     \/ /\ r # NoRecord
        /\ Outdated(r, q)
        /\ Finish(h)
  /\ UNCHANGED <<conf, now, vmState, device, requests, db>>

Write(h) == db' = [db EXCEPT ![req[h].vm] = rec[h]]

\* What follows a successful write.
Proceed(h, next) ==
  IF next = "idle" THEN Finish(h)
  ELSE Goto(h, next) /\ UNCHANGED <<req, rec, after>>

\* createHealthCheckRecord on AWS: an unconditional put.
CreateAws(h) ==
  /\ pc[h] = "create"
  /\ conf.platform = "aws"
  /\ Write(h)
  /\ Proceed(h, after[h])
  /\ UNCHANGED <<conf, now, vmState, device, requests>>

\* createHealthCheckRecord on Azure: InsertOnly reads first and fails when a
\* record is there...
CreateAzure(h) ==
  /\ pc[h] = "create"
  /\ conf.platform = "azure"
  /\ IF db[req[h].vm] = NoRecord
     THEN Goto(h, "insert") /\ UNCHANGED <<req, rec, after>>
     ELSE Finish(h)
  /\ UNCHANGED <<conf, now, vmState, device, requests, db>>

\* ... and then upserts, with no access condition. So does an update that
\* read an absent record.
InsertAzure(h) ==
  /\ pc[h] = "insert"
  /\ Write(h)
  /\ Proceed(h, after[h])
  /\ UNCHANGED <<conf, now, vmState, device, requests>>

\* Cosmos DB has no condition that an item be absent.
Unguarded(h) == conf.platform = "azure" /\ db[req[h].vm] = NoRecord

\* updateHealthCheckRecord, next being what follows a successful write: a
\* refused one drops the request.
Update(h, next) ==
  \/ /\ ~Unguarded(h)
     /\ Accepts(db[req[h].vm], rec[h])
     /\ Write(h)
     /\ Proceed(h, next)
  \/ /\ Unguarded(h)
     /\ after' = [after EXCEPT ![h] = next]
     /\ Goto(h, "insert")
     /\ UNCHANGED <<db, req, rec>>
  \/ /\ ~Accepts(db[req[h].vm], rec[h])
     /\ Finish(h)
     /\ UNCHANGED db

\* updateHealthCheckRecord in apply.
UpdateRecord(h) ==
  /\ pc[h] = "update"
  /\ Update(h, after[h])
  /\ UNCHANGED <<conf, now, vmState, device, requests>>

\* The rest of handleHeartbeatSync for a healthy VM, after the election: the
\* record is written again when the primary ip of the VM has changed, which
\* the election decides. A refused write is caught and logged.
Respond(h) ==
  /\ pc[h] = "respond"
  /\ \/ Update(h, "idle")
     \/ Finish(h) /\ UNCHANGED db
  /\ UNCHANGED <<conf, now, vmState, device, requests>>

\* handleUnhealthyVm: deleteVmFromScalingGroup swallows its own failure.
TerminateVm(h) ==
  LET v == req[h].vm IN
  /\ pc[h] = "unhealthy"
  /\ vmState' =
       IF vmState[v] = "running"
       THEN [vmState EXCEPT ![v] = IF conf.platform = "aws" THEN "terminating" ELSE "gone"]
       ELSE vmState
  /\ Goto(h, "cleanup")
  /\ UNCHANGED <<conf, now, device, requests, db, req, rec, after>>

TerminateVmFails(h) ==
  /\ pc[h] = "unhealthy"
  /\ Faults
  /\ Goto(h, "cleanup")
  /\ UNCHANGED <<conf, now, vmState, device, requests, db, req, rec, after>>

\* handleUnhealthyVm reads the record it is going to delete.
CleanupRead(h) ==
  LET r == db[req[h].vm] IN
  /\ pc[h] = "cleanup"
  /\ \/ /\ r # NoRecord
        /\ rec' = [rec EXCEPT ![h] = r]
        /\ Goto(h, "delete")
        /\ UNCHANGED <<req, after>>
     \/ /\ r = NoRecord
        /\ Finish(h)
  /\ UNCHANGED <<conf, now, vmState, device, requests, db>>

\* deleteHealthCheckRecord on AWS: a delete by key.
DeleteAws(h) ==
  /\ pc[h] = "delete"
  /\ conf.platform = "aws"
  /\ db' = [db EXCEPT ![req[h].vm] = NoRecord]
  /\ Finish(h)
  /\ UNCHANGED <<conf, now, vmState, device, requests>>

\* deleteHealthCheckRecord on Azure compares the record with the stored one...
DeleteAzure(h) ==
  /\ pc[h] = "delete"
  /\ conf.platform = "azure"
  /\ IF db[req[h].vm] = rec[h]
     THEN Goto(h, "erase") /\ UNCHANGED <<req, rec, after>>
     ELSE Finish(h)
  /\ UNCHANGED <<conf, now, vmState, device, requests, db>>

\* ... and then deletes by key.
EraseAzure(h) ==
  /\ pc[h] = "erase"
  /\ db' = [db EXCEPT ![req[h].vm] = NoRecord]
  /\ Finish(h)
  /\ UNCHANGED <<conf, now, vmState, device, requests>>

\* A handler turns to a VM that sent it no heartbeat.
Serve(h, v, step) ==
  /\ pc[h] = "idle"
  /\ MayStart(v)
  /\ req' = [req EXCEPT ![h] = [vm |-> v, seq |-> 0, sent |-> 0, arrive |-> now]]
  /\ Goto(h, step)
  /\ UNCHANGED <<conf, now, vmState, device, requests, db, rec, after>>

\* AWS only: the lifecycle event of a terminating VM, handleTerminatingVm.
ReceiveTerminating(h, v) ==
  /\ vmState[v] = "terminating"
  /\ Serve(h, v, "forceRead")

\* The heartbeat of another VM elected a new primary and found the old one, v,
\* stale: handleUnhealthyVm.
HandleStalePrimary(h, v) ==
  /\ conf.terminateUnhealthyVm
  /\ db[v] # NoRecord
  /\ OldPrimaryIsStale(db[v], now)
  /\ Serve(h, v, "unhealthy")

\* forceOutOfSync: nothing to do without a record or when out of sync already.
ForceRead(h) ==
  LET r == db[req[h].vm]
      inSync == r # NoRecord /\ r.syncState = "InSync"
  IN
  /\ pc[h] = "forceRead"
  /\ \/ /\ inSync
        /\ rec' = [rec EXCEPT ![h] = [r EXCEPT !.syncState = "OutOfSync"]]
        /\ Goto(h, "forceWrite")
        /\ UNCHANGED <<req, after>>
     \/ /\ ~inSync
        /\ Finish(h)
  /\ UNCHANGED <<conf, now, vmState, device, requests, db>>

\* forceOutOfSync writes; the polls that follow change no state.
ForceWrite(h) ==
  /\ pc[h] = "forceWrite"
  /\ Update(h, "idle")
  /\ UNCHANGED <<conf, now, vmState, device, requests>>

\* A database call fails or the function times out: every caller ends the
\* request without touching the record again.
Abort(h) ==
  /\ Faults
  /\ pc[h] # "idle"
  /\ Finish(h)
  /\ UNCHANGED <<conf, now, vmState, device, requests, db>>

\* handleStaleVm, run by the election of any other VM: the record of a VM
\* that is not listed any more is removed.
RemoveStale(v) ==
  /\ vmState[v] = "gone"
  /\ db[v] # NoRecord
  /\ db' = [db EXCEPT ![v] = NoRecord]
  /\ UNCHANGED <<conf, now, vmState, device, requests, handlerVars>>

----------------------------------------------------------------------------
(* The specification *)

Continue(h) ==
  \/ ReadRecord(h)
  \/ CreateAws(h)
  \/ CreateAzure(h)
  \/ InsertAzure(h)
  \/ UpdateRecord(h)
  \/ Respond(h)
  \/ TerminateVm(h)
  \/ TerminateVmFails(h)
  \/ CleanupRead(h)
  \/ DeleteAws(h)
  \/ DeleteAzure(h)
  \/ EraseAzure(h)
  \/ ForceRead(h)
  \/ ForceWrite(h)

Environment ==
  \/ Tick
  \/ \E v \in Vm : SendHeartbeat(v)
  \/ \E m \in requests : Lose(m)
  \/ \E v \in Vm : Reboot(v)
  \/ \E v \in Vm : ScaleIn(v)
  \/ \E v \in Vm : Terminated(v)
  \/ \E v \in Vm : RemoveStale(v)

Next ==
  \/ Environment
  \/ \E h \in Handler, m \in requests : Receive(h, m)
  \/ \E h \in Handler, v \in Vm : ReceiveTerminating(h, v) \/ HandleStalePrimary(h, v)
  \/ \E h \in Handler : Continue(h)
  \/ \E h \in Handler : Abort(h)

\* A function that has started runs on: the cloud platform schedules it.
Fairness == \A h \in Handler : WF_vars(Continue(h))

Spec == Init /\ [][Next]_vars
FairSpec == Spec /\ Fairness

----------------------------------------------------------------------------
(* Properties *)

\* The four counters of a record agree: a VM is in sync exactly while its
\* losses stay below the limit and owes recovery heartbeats exactly while it
\* is out of sync. Only a VM being terminated is out of sync with fewer
\* losses (forceOutOfSync).
Consistent(v, r) ==
  \/ /\ r.syncState = "InSync"
     /\ r.heartbeatLossCount < HeartbeatLossCount
     /\ r.syncRecoveryCount = 0
  \/ /\ r.syncState = "OutOfSync"
     /\ r.heartbeatLossCount = HeartbeatLossCount
     /\ r.syncRecoveryCount \in 1..SyncRecoveryCount
  \/ /\ r.syncState = "OutOfSync"
     /\ r.heartbeatLossCount < HeartbeatLossCount
     /\ r.syncRecoveryCount \in 0..SyncRecoveryCount
     /\ vmState[v] # "running"

\* However the requests of a VM interleave, fail or repeat, the stored record
\* is never a mixture of two verdicts of apply.
RecordConsistent == \A v \in Vm : db[v] # NoRecord => Consistent(v, db[v])

\* The step writes with no condition on what is stored: it is that of
\* createHealthCheckRecord, or of a save that found no record on Azure.
Unconditional(v) ==
  \E h \in Handler : pc[h] \in {"create", "insert"} /\ pc'[h] # pc[h] /\ req[h].vm = v

\* The step replaces a stored record of v by another under a condition.
Replacing(v) == db[v] # NoRecord /\ db'[v] # NoRecord /\ ~Unconditional(v)

\* updateHealthCheckRecord and forceOutOfSync never put back a record that is
\* older both in sequence and in send time, on either platform.
NoOlderOverwrite ==
  [][\A v \in Vm : Replacing(v) =>
       ~(db'[v].seq < db[v].seq /\ db'[v].sendTime < db[v].sendTime)]_vars

\* As long as a device has not rebooted, and numbers its heartbeats from 1,
\* neither goes back: requests overtaken by later ones never take effect
\* after them.
NoRegressionBeforeReboot ==
  [][\A v \in Vm : Replacing(v) /\ device[v].boots = 0 /\ device[v].first = 1 =>
       db'[v].seq >= db[v].seq /\ db'[v].sendTime >= db[v].sendTime]_vars

\* A VM that heartbeats put out of sync is in sync again only after the last
\* heartbeat it owes (description of the setting sync-recovery-count).
RecoveryIsEarned ==
  [][\A v \in Vm : Replacing(v) /\ db[v].syncState = "OutOfSync"
                                /\ db'[v].syncState = "InSync" =>
       db[v].syncRecoveryCount <= 1]_vars

\* With terminate-unhealthy-vm on, a VM that heartbeats put out of sync does
\* not stay so: it is terminated, or its record goes and it registers anew.
UnhealthyIsHandled ==
  \A v \in Vm :
    (/\ conf.terminateUnhealthyVm
     /\ db[v] # NoRecord
     /\ db[v].syncState = "OutOfSync")
      ~> (db[v] = NoRecord \/ vmState[v] # "running")

\* The standing that the record of a VM in service stands for.
StandingOf(v) ==
  IF db[v] = NoRecord \/ vmState[v] # "running"
  THEN [state |-> "absent", count |-> 0]
  ELSE IF db[v].syncState = "InSync"
  THEN [state |-> "in", count |-> db[v].heartbeatLossCount]
  ELSE [state |-> "out", count |-> SyncRecoveryCount - db[v].syncRecoveryCount]

Ledger ==
  INSTANCE HealthLedger WITH
    LossLimit <- HeartbeatLossCount,
    RecoveryLimit <- SyncRecoveryCount,
    standing <- [v \in Vm |-> StandingOf(v)]

\* With one request of a VM at a time, the record of a VM in service follows
\* the promise exactly: losses and recovery are counted in a row.
ImplementsLedger == Ledger!Spec

====
