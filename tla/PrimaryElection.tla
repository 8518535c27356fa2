---- MODULE PrimaryElection ----
(***************************************************************************)
(* Primary election: Autoscale.handlePrimaryElection, the two election     *)
(* strategies it runs, the primary record in the database, and what        *)
(* Autoscale.handleHeartbeatSync does with the result.                     *)
(*                                                                         *)
(* Each heartbeat request runs in a function instance of its own (a        *)
(* handler). One action is what a handler does between two awaits whose    *)
(* interleaving matters. What a heartbeat does to the health check record  *)
(* of its VM is the subject of HeartbeatSync; here it is one step.         *)
(***************************************************************************)
EXTENDS Naturals, FiniteSets

CONSTANTS
  Vm,           \* ids of the virtual machines
  Preferred,    \* those in the scaling group of setting primary-scaling-group-name
  Handler,      \* function instances that may run at the same time
  Deployments,  \* the deployments considered, a subset of Deployment
  Group,        \* the name of the preferred scaling group
  Instant,      \* bound: instants, one more than records in use at a time
  Silent,       \* bound: VMs that may miss heartbeats
  Troubled,     \* bound: VMs that may be scaled in
  Faults,       \* the kinds of failures that occur, a subset of Failure
  None          \* JavaScript null: no record, no VM

\* timed: the firmware reports the time of its heartbeats.
Deployment ==
  [platform : {"aws", "azure"}, terminateUnhealthyVm : BOOLEAN, timed : BOOLEAN]

\* What may fail, and the handler goes on: to delete a primary record, to run an
\* election, to save its result, to tag, to terminate a VM or remove its health
\* check record. Or a failure ends the handler.
Failure == {"delete", "elect", "save", "tag", "terminate", "abort"}

ASSUME ElectionAssumption ==
  /\ Preferred \subseteq Vm
  /\ Deployments \subseteq Deployment
  /\ Instant \subseteq Nat
  /\ Silent \subseteq Vm
  /\ Troubled \subseteq Vm
  /\ Faults \subseteq Failure
  /\ None \notin Vm
  /\ Group \notin Vm

VARIABLES
  conf,      \* the deployment: fixed in a behaviour
  vmState,   \* the state of each VM in its scaling group
  condition, \* what the health check record of each VM says
  records,   \* the PrimaryElection table: a record for each key
  route,     \* the VM that the egress traffic route leads to
  tagged,    \* the VMs with the tag of the primary role
  pc,        \* where each handler is
  target,    \* env.targetVm of each handler
  healthy,   \* env.targetHealthCheckRecord.healthy
  primary,   \* env.primaryVm as first read, election.oldPrimary
  held,      \* the primary record, or the snapshot, each handler has read
  elected    \* election.newPrimaryRecord

vars == <<conf, vmState, condition, records, route, tagged,
          pc, target, healthy, primary, held, elected>>
handlerVars == <<pc, target, healthy, primary, held, elected>>

----------------------------------------------------------------------------
(* Data *)

\* The key of a primary record: `scalingGroupName' of a timed election,
\* `scalingGroupName:vmId' of a classic one.
Key == Vm \cup {Group}

\* PrimaryRecord. Every record in use is Done: both strategies and the core
\* end an election at once. stamp stands for voteEndTime.
PrimaryRecord == [key : Key, vm : Preferred, stamp : Instant]

ASSUME NoneAssumption == None \notin PrimaryRecord

\* What getHealthCheckRecord tells about a VM:
\*   none    there is no record
\*   fit     in sync, healthy, no heartbeat missed
\*   silent  heartbeat intervals have been missed, fewer than losses are allowed
\*   stale   as many have been missed as losses are allowed
\*   out     out of sync after late heartbeats
\*   forced  out of sync because the VM terminates, losses still allowed
Condition == {"none", "fit", "silent", "stale", "out", "forced"}

Step ==
  {"idle", "readVm", "readRecord", "judge", "delete", "erase", "sweep", "elect",
   "save", "snapshot", "upsert", "conclude", "untag", "tag", "route"}

TypeOK ==
  /\ conf \in Deployments
  /\ vmState \in [Vm -> {"running", "terminating", "gone"}]
  /\ condition \in [Vm -> Condition]
  /\ records \in [Key -> PrimaryRecord \cup {None}]
  /\ route \in Vm \cup {None}
  /\ tagged \subseteq Vm
  /\ pc \in [Handler -> Step]
  /\ target \in [Handler -> Vm \cup {None}]
  /\ healthy \in [Handler -> BOOLEAN]
  /\ primary \in [Handler -> Vm \cup {None}]
  /\ held \in [Handler -> PrimaryRecord \cup {None}]
  /\ elected \in [Handler -> PrimaryRecord \cup {None}]
  /\ \A k \in Key : records[k] # None => records[k].key = k
  /\ \A h \in Handler :
       /\ pc[h] # "idle" => target[h] \in Vm
       /\ pc[h] = "judge" => primary[h] \in Vm
       /\ pc[h] \in {"judge", "delete", "erase"} => held[h] \in PrimaryRecord
       /\ pc[h] \in {"save", "snapshot", "upsert", "untag", "tag", "route"} =>
            elected[h] \in PrimaryRecord

\* The records in the table.
Stored == {records[k] : k \in Key} \ {None}

\* What getPrimaryRecord may return: the first record of a scan.
FirstFound == IF Stored = {} THEN {None} ELSE Stored

----------------------------------------------------------------------------
(* The judgements of the code on health check records *)

\* Healthy, and no heartbeat missed.
Responsive(c) == c \in {"fit", "forced"}

\* A record that no heartbeat updates counts one loss when it is read, however
\* many were missed: it may be healthy, and heard of recently, or not.
Overdue(c) == c \in {"silent", "stale"}

\* Mutant of PrimaryInSync: it looks at the VM that sent the heartbeat.
PrimaryInSyncByTarget(h) == condition[target[h]] = "fit"

\* The recorded primary is in sync once an irresponsive one counts as out of
\* sync.
PrimaryInSync(h) == condition[primary[h]] = "fit"

\* oldPrimaryIsStale. The record of an old primary that is gone stays silent
\* until the allowance is used up.
OldPrimaryIsStale(c) == c \in {"stale", "out"}

\* Mutant of Candidates: any scaling group will do.
CandidatesOfAnyGroup == {v \in Vm : Responsive(condition[v])}

\* runDeviceSyncInfoElectionMethod: healthy, responsive, in the preferred
\* group. The synchronisation state is not asked for.
Candidates == {v \in Preferred : Responsive(condition[v])}

\* PreferredGroupPrimaryElection.run with no device sync info: the candidate
\* itself, unless it is unhealthy and another VM is healthy, and its next
\* heartbeat not overdue by more than two intervals.
ClassicCandidates(h) ==
  {v \in Preferred :
     /\ v = target[h]
     /\ healthy[h] \/ \A w \in Vm \ {v} : ~Responsive(condition[w])}

\* An unhealthy candidate may have to leave the role to a VM that is overdue.
MayGiveWay(h) == ~healthy[h] /\ \E w \in Vm \ {target[h]} : Overdue(condition[w])

----------------------------------------------------------------------------
(* The virtual machines and the cloud platform *)

Init ==
  /\ conf \in Deployments
  /\ vmState = [v \in Vm |-> "running"]
  /\ condition = [v \in Vm |-> "none"]
  /\ records = [k \in Key |-> None]
  /\ route = None
  /\ tagged = {}
  /\ pc = [h \in Handler |-> "idle"]
  /\ target = [h \in Handler |-> None]
  /\ healthy = [h \in Handler |-> FALSE]
  /\ primary = [h \in Handler |-> None]
  /\ held = [h \in Handler |-> None]
  /\ elected = [h \in Handler |-> None]

\* A heartbeat interval passes without a heartbeat of v.
Miss(v) ==
  /\ condition[v] \in {"fit", "silent", "forced"}
  /\ condition' = [condition EXCEPT ![v] = IF @ = "silent" THEN "stale" ELSE "silent"]
  /\ UNCHANGED <<conf, vmState, records, route, tagged, handlerVars>>

Ended == IF conf.platform = "aws" THEN "terminating" ELSE "gone"

\* A scaling activity starts to terminate v.
ScaleIn(v) ==
  /\ vmState[v] = "running"
  /\ vmState' = [vmState EXCEPT ![v] = Ended]
  /\ UNCHANGED <<conf, condition, records, route, tagged, handlerVars>>

\* handleTerminatingVm on AWS, by another handler: forceOutOfSync.
ForceOutOfSync(v) ==
  /\ vmState[v] = "terminating"
  /\ condition[v] = "fit"
  /\ condition' = [condition EXCEPT ![v] = "forced"]
  /\ UNCHANGED <<conf, vmState, records, route, tagged, handlerVars>>

\* The scaling group completes a termination.
Terminated(v) ==
  /\ vmState[v] = "terminating"
  /\ vmState' = [vmState EXCEPT ![v] = "gone"]
  /\ UNCHANGED <<conf, condition, records, route, tagged, handlerVars>>

----------------------------------------------------------------------------
(* A handler, one step at a time *)

Goto(h, step) == pc' = [pc EXCEPT ![h] = step]

\* The record a handler has read is of no further use to it.
Release(h) == held' = [held EXCEPT ![h] = None]

\* The handler returns: what it held in memory is lost.
Finish(h) ==
  /\ pc' = [pc EXCEPT ![h] = "idle"]
  /\ target' = [target EXCEPT ![h] = None]
  /\ healthy' = [healthy EXCEPT ![h] = FALSE]
  /\ primary' = [primary EXCEPT ![h] = None]
  /\ held' = [held EXCEPT ![h] = None]
  /\ elected' = [elected EXCEPT ![h] = None]

\* What the heartbeat synchronisation makes of a VM in condition c, for the
\* heartbeats that it does not drop.
Synced(c) ==
  CASE c = "none" -> {"fit"}
    [] c \in {"fit", "silent", "stale"} -> {"fit", "out"}
    [] c \in {"out", "forced"} -> IF conf.terminateUnhealthyVm THEN {} ELSE {"fit", c}

\* handleHeartbeatSync up to the election.
Heartbeat(h, v) ==
  /\ pc[h] = "idle"
  /\ vmState[v] # "gone"
  /\ \E c \in Synced(condition[v]) :
       /\ condition' = [condition EXCEPT ![v] = c]
       /\ healthy' = [healthy EXCEPT ![h] = Responsive(c)]
  /\ target' = [target EXCEPT ![h] = v]
  /\ Goto(h, "readVm")
  /\ UNCHANGED <<conf, vmState, records, route, tagged, primary, held, elected>>

\* Mutant of VmFound: a terminated instance can still be described.
VmFoundTerminated(v) == TRUE

\* getPrimaryVm and getVmById return no VM that is terminated.
VmFound(v) == vmState[v] # "gone"

\* getPrimaryVm: a first read of the primary record, then the VM it names.
ReadPrimaryVm(h) ==
  /\ pc[h] = "readVm"
  /\ \E r \in FirstFound :
       primary' = [primary EXCEPT ![h] = IF r # None /\ VmFound(r.vm) THEN r.vm ELSE None]
  /\ Goto(h, "readRecord")
  /\ UNCHANGED <<conf, vmState, condition, records, route, tagged,
                 target, healthy, held, elected>>

\* getPrimaryRecord: a second read. handlePrimaryElection redoes an election
\* when there is no record, and when no VM goes with the record.
ReadPrimaryRecord(h) ==
  /\ pc[h] = "readRecord"
  /\ \E r \in FirstFound :
       /\ held' = [held EXCEPT ![h] = r]
       /\ Goto(h, CASE r = None -> "sweep"
                    [] r # None /\ primary[h] # None -> "judge"
                    [] OTHER -> "delete")
  /\ UNCHANGED <<conf, vmState, condition, records, route, tagged,
                 target, healthy, primary, elected>>

\* Vote state done: the primary is kept while it is in sync.
JudgePrimary(h) ==
  /\ pc[h] = "judge"
  /\ IF PrimaryInSync(h)
     THEN Goto(h, "conclude") /\ Release(h)
     ELSE Goto(h, "delete") /\ UNCHANGED held
  /\ UNCHANGED <<conf, vmState, condition, records, route, tagged,
                 target, healthy, primary, elected>>

\* Mutant of DeleteAws: the record of the VM of the request is deleted.
DeleteAwsOfTarget(h) ==
  /\ pc[h] = "delete"
  /\ conf.platform = "aws"
  /\ records' = [records EXCEPT ![IF conf.timed THEN Group ELSE target[h]] = None]
  /\ Goto(h, "sweep")
  /\ Release(h)
  /\ UNCHANGED <<conf, vmState, condition, route, tagged, target, healthy, primary, elected>>

\* deletePrimaryRecord on AWS: on the condition that the id is the same.
DeleteAws(h) ==
  /\ pc[h] = "delete"
  /\ conf.platform = "aws"
  /\ records' = [records EXCEPT ![held[h].key] = None]
  /\ Goto(h, "sweep")
  /\ Release(h)
  /\ UNCHANGED <<conf, vmState, condition, route, tagged, target, healthy, primary, elected>>

\* deletePrimaryRecord on Azure compares all attributes, and leaves a record
\* that differs...
DeleteAzure(h) ==
  /\ pc[h] = "delete"
  /\ conf.platform = "azure"
  /\ IF records[held[h].key] = held[h]
     THEN Goto(h, "erase") /\ UNCHANGED held
     ELSE Goto(h, "sweep") /\ Release(h)
  /\ UNCHANGED <<conf, vmState, condition, records, route, tagged,
                 target, healthy, primary, elected>>

\* ... and then deletes by key.
EraseAzure(h) ==
  /\ pc[h] = "erase"
  /\ records' = [records EXCEPT ![held[h].key] = None]
  /\ Goto(h, "sweep")
  /\ Release(h)
  /\ UNCHANGED <<conf, vmState, condition, route, tagged, target, healthy, primary, elected>>

\* A failure to delete is logged ("no impact"), and the election goes on.
DeleteFails(h) ==
  /\ "delete" \in Faults
  /\ pc[h] \in {"delete", "erase"}
  /\ Goto(h, "sweep")
  /\ Release(h)
  /\ UNCHANGED <<conf, vmState, condition, records, route, tagged,
                 target, healthy, primary, elected>>

\* The VMs whose health check records are left over.
Forgotten == {v \in Vm : vmState[v] = "gone"}

\* The health check records of VMs are removed.
Forget(vms) == condition' = [v \in Vm |-> IF v \in vms THEN "none" ELSE condition[v]]

\* handleStaleVm: the health check records of VMs no longer listed go.
HandleStaleVm(h) ==
  /\ pc[h] = "sweep"
  /\ Forget(Forgotten)
  /\ Goto(h, "elect")
  /\ UNCHANGED <<conf, vmState, records, route, tagged,
                 target, healthy, primary, held, elected>>

\* The current time. Records are only compared for equality, so that the first
\* value that no record in the table or in memory has stands for it.
Now ==
  LET inUse == {r.stamp : r \in (Stored \cup {held[h] : h \in Handler}
                                        \cup {elected[h] : h \in Handler}) \ {None}}
  IN  {n \in Instant \ inUse : \A m \in Instant \ inUse : n <= m}

\* The election strategy. A winner is found by score among the candidates, or
\* none is, and its VM is looked up.
Elect(h) ==
  LET candidates == IF conf.timed THEN Candidates ELSE ClassicCandidates(h) IN
  /\ pc[h] = "elect"
  /\ \/ /\ \E v \in candidates, now \in Now :
             /\ conf.timed => VmFound(v)
             /\ elected' = [elected EXCEPT ![h] =
                  [key |-> IF conf.timed THEN Group ELSE v, vm |-> v, stamp |-> now]]
        /\ Goto(h, "save")
     \/ /\ conf.timed \/ candidates = {} \/ MayGiveWay(h)
        /\ Goto(h, "conclude")
        /\ UNCHANGED elected
  /\ UNCHANGED <<conf, vmState, condition, records, route, tagged,
                 target, healthy, primary, held>>

----------------------------------------------------------------------------
(* updatePrimaryRecord. A record that is there is a failure to save.       *)

Put(h) == records' = [records EXCEPT ![elected[h].key] = elected[h]]

\* Mutant of AwsSaves: the condition is left out.
AwsSavesAlways(h) == TRUE

\* DynamoDB: attribute_not_exists, or a vote still pending.
AwsSaves(h) == records[elected[h].key] = None

SaveAws(h) ==
  /\ pc[h] = "save"
  /\ conf.platform = "aws"
  /\ IF AwsSaves(h) THEN Put(h) ELSE UNCHANGED records
  /\ Goto(h, "conclude")
  /\ UNCHANGED <<conf, vmState, condition, route, tagged,
                 target, healthy, primary, held, elected>>

\* Azure reads the record and fails when its vote is done...
SaveAzure(h) ==
  /\ pc[h] = "save"
  /\ conf.platform = "azure"
  /\ Goto(h, IF records[elected[h].key] = None THEN "snapshot" ELSE "conclude")
  /\ UNCHANGED <<conf, vmState, condition, records, route, tagged,
                 target, healthy, primary, held, elected>>

\* ... reads it again for its etag...
TakeSnapshot(h) ==
  /\ pc[h] = "snapshot"
  /\ held' = [held EXCEPT ![h] = records[elected[h].key]]
  /\ Goto(h, "upsert")
  /\ UNCHANGED <<conf, vmState, condition, records, route, tagged,
                 target, healthy, primary, elected>>

\* ... and upserts: if the etag matches, or unconditionally for want of one.
UpsertAzure(h) ==
  /\ pc[h] = "upsert"
  /\ IF held[h] = None \/ held[h] = records[elected[h].key]
     THEN Put(h)
     ELSE UNCHANGED records
  /\ Goto(h, "conclude")
  /\ Release(h)
  /\ UNCHANGED <<conf, vmState, condition, route, tagged, target, healthy, primary, elected>>

\* Any failure to save is logged ("race conditions"), and the handler goes on
\* with the primary it elected.
SaveFails(h) ==
  /\ "save" \in Faults
  /\ pc[h] \in {"save", "snapshot", "upsert"}
  /\ Goto(h, "conclude")
  /\ Release(h)
  /\ UNCHANGED <<conf, vmState, condition, records, route, tagged,
                 target, healthy, primary, elected>>

----------------------------------------------------------------------------
(* What handleHeartbeatSync does with the result *)

\* The old primary if it was replaced and is stale, and the target if it is
\* not healthy.
Unhealthy(h) ==
  {v \in Vm : \/ v = primary[h] /\ elected[h] # None /\ OldPrimaryIsStale(condition[v])
              \/ v = target[h] /\ ~healthy[h]}

\* Those of the VMs for which a call is made with success.
Treated(vms) == IF "terminate" \in Faults THEN SUBSET vms ELSE {vms}

\* handleUnhealthyVm terminates the VMs and removes their health check records
\* when the settings say so; failures of either are logged. An unhealthy target
\* ends the request there. Only AWS tags VMs and routes the egress traffic.
Conclude(h) ==
  LET bad == IF conf.terminateUnhealthyVm THEN Unhealthy(h) ELSE {} IN
  /\ pc[h] = "conclude"
  /\ \E ended \in Treated(bad), removed \in Treated(bad) :
       /\ vmState' = [v \in Vm |->
            IF v \in ended /\ vmState[v] = "running" THEN Ended ELSE vmState[v]]
       /\ Forget(removed)
  /\ IF healthy[h] /\ elected[h] # None /\ conf.platform = "aws"
     THEN Goto(h, "untag") /\ UNCHANGED <<target, healthy, primary, held, elected>>
     ELSE Finish(h)
  /\ UNCHANGED <<conf, records, route, tagged>>

\* Mutant of Untag: the tags of other VMs stay.
UntagNot(h) ==
  /\ pc[h] = "untag"
  /\ Goto(h, "tag")
  /\ UNCHANGED <<conf, vmState, condition, records, route, tagged,
                 target, healthy, primary, held, elected>>

\* handleTaggingAutoscaleVm: "delete the primary role tag from any other vm"...
Untag(h) ==
  /\ pc[h] = "untag"
  /\ tagged' = {}
  /\ Goto(h, "tag")
  /\ UNCHANGED <<conf, vmState, condition, records, route,
                 target, healthy, primary, held, elected>>

\* ... and tag the new primary.
Tag(h) ==
  /\ pc[h] = "tag"
  /\ tagged' = tagged \cup {elected[h].vm}
  /\ Goto(h, "route")
  /\ UNCHANGED <<conf, vmState, condition, records, route,
                 target, healthy, primary, held, elected>>

\* Mutant of RouteTarget: env.primaryVm is not the new primary yet.
RouteTargetNotReloaded(h) == IF primary[h] = None THEN elected[h].vm ELSE primary[h]

\* env.primaryVm after an election.
RouteTarget(h) == elected[h].vm

\* handleEgressTrafficRoute.
UpdateRoute(h) ==
  /\ pc[h] = "route"
  /\ route' = RouteTarget(h)
  /\ Finish(h)
  /\ UNCHANGED <<conf, vmState, condition, records, tagged>>

\* A failure inside the election ends it without a new primary; some of the
\* health check records may have been removed.
ElectionFails(h) ==
  /\ "elect" \in Faults
  /\ \/ pc[h] = "sweep" /\ \E removed \in SUBSET Forgotten : Forget(removed)
     \/ pc[h] = "elect" /\ UNCHANGED condition
  /\ Goto(h, "conclude")
  /\ UNCHANGED <<conf, vmState, records, route, tagged,
                 target, healthy, primary, held, elected>>

\* A failure to tag is logged, and the handler goes on.
TaggingFails(h) ==
  /\ "tag" \in Faults
  /\ pc[h] \in {"untag", "tag"}
  /\ Goto(h, "route")
  /\ UNCHANGED <<conf, vmState, condition, records, route, tagged,
                 target, healthy, primary, held, elected>>

\* A call fails where nothing catches it, or the function times out.
Abort(h) ==
  /\ "abort" \in Faults
  /\ pc[h] # "idle"
  /\ Finish(h)
  /\ UNCHANGED <<conf, vmState, condition, records, route, tagged>>

----------------------------------------------------------------------------
(* The specification *)

Continue(h) ==
  \/ ReadPrimaryVm(h)
  \/ ReadPrimaryRecord(h)
  \/ JudgePrimary(h)
  \/ DeleteAws(h)
  \/ DeleteAzure(h)
  \/ EraseAzure(h)
  \/ HandleStaleVm(h)
  \/ Elect(h)
  \/ SaveAws(h)
  \/ SaveAzure(h)
  \/ TakeSnapshot(h)
  \/ UpsertAzure(h)
  \/ Conclude(h)
  \/ Untag(h)
  \/ Tag(h)
  \/ UpdateRoute(h)

Fail(h) ==
  \/ DeleteFails(h)
  \/ ElectionFails(h)
  \/ SaveFails(h)
  \/ TaggingFails(h)
  \/ Abort(h)

Environment ==
  \/ \E v \in Silent : Miss(v)
  \/ \E v \in Troubled : ScaleIn(v)
  \/ \E v \in Vm : ForceOutOfSync(v)
  \/ \E v \in Vm : Terminated(v)

Next ==
  \/ Environment
  \/ \E h \in Handler, v \in Vm : Heartbeat(h, v)
  \/ \E h \in Handler : Continue(h)
  \/ \E h \in Handler : Fail(h)

\* A function that has started runs on, and VMs go on sending heartbeats.
Fairness ==
  /\ \A h \in Handler : WF_vars(Continue(h))
  /\ WF_vars(\E h \in Handler, v \in Vm : Heartbeat(h, v))

Spec == Init /\ [][Next]_vars
FairSpec == Spec /\ Fairness

----------------------------------------------------------------------------
(* Properties *)

\* A primary whose record is in the database stays there, whatever elections
\* run beside it, until a handler deletes that record: on AWS an election
\* never replaces the result of another (updatePrimaryRecord).
ElectionNotOverruled ==
  [][conf.platform = "aws" =>
       \A k \in Key : records[k] # None /\ records'[k] # None => records'[k] = records[k]]_vars

\* A primary loses its role only for a reason: it is out of sync, silent or
\* gone ("primary vm is healthy ... handling ends": handlePrimaryElection).
FitPrimaryKept ==
  [][\A r \in Stored :
       condition[r.vm] = "fit" /\ vmState[r.vm] # "gone" => records'[r.key] = r]_vars

\* The egress route is moved to the recorded primary, never to another VM.
RouteMovesToPrimary ==
  [][route' # route => \E r \in Stored : r.vm = route']_vars

\* When a handler tags a VM it is the recorded primary, and no other VM has the
\* tag of the primary role ("delete the primary role tag from any other vm in
\* autoscale, then add primary role tag to the new primary vm": add).
TagMovesToPrimary ==
  [][tagged' # tagged /\ tagged' # {} => \E r \in Stored : tagged' = {r.vm}]_vars

\* Route tables are "configured to contain a route 0.0.0.0/0 to the primary
\* FortiGate" (setting egress-traffic-route-table): between two requests the
\* route leads to the recorded primary.
RouteFollowsPrimary ==
  conf.platform = "aws" /\ (\A h \in Handler : pc[h] = "idle") =>
    \A r \in Stored : route = r.vm

\* "ASSERT: there's only 1 matching primary record or no matching record":
\* getPrimaryRecord. With one request at a time it is so, although a classic
\* election keeps its result under a key of its own.
SinglePrimaryRecord == Cardinality(Stored) <= 1

\* A primary that is gone loses its role as long as a VM is in service, whose
\* heartbeats make handlers look at the primary record.
GonePrimaryReplaced ==
  \A v \in Vm :
    (vmState[v] = "gone" /\ \E r \in Stored : r.vm = v)
      ~> (\/ \A r \in Stored : r.vm # v
          \/ \A w \in Vm : vmState[w] # "running")

====
