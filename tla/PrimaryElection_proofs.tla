---- MODULE PrimaryElection_proofs ----
(***************************************************************************)
(* Theorems about PrimaryElection, for all VMs, handlers and deployments,  *)
(* with and without faults: its types are right, on AWS no election        *)
(* replaces the result of another, and the election is right as long as    *)
(* requests are served one at a time.                                      *)
(***************************************************************************)
EXTENDS PrimaryElection, FiniteSetTheorems, TLAPS

----------------------------------------------------------------------------
(* Types, a variable or a relation between variables at a time *)

SystemTypes ==
  /\ conf \in Deployments
  /\ vmState \in [Vm -> {"running", "terminating", "gone"}]
  /\ condition \in [Vm -> Condition]
  /\ route \in Vm \cup {None}
  /\ tagged \subseteq Vm

RecordTypes ==
  /\ records \in [Key -> PrimaryRecord \cup {None}]
  /\ \A k \in Key : records[k] # None => records[k].key = k

HandlerTypes ==
  /\ pc \in [Handler -> Step]
  /\ target \in [Handler -> Vm \cup {None}]
  /\ healthy \in [Handler -> BOOLEAN]
  /\ primary \in [Handler -> Vm \cup {None}]
  /\ held \in [Handler -> PrimaryRecord \cup {None}]
  /\ elected \in [Handler -> PrimaryRecord \cup {None}]

\* What a handler has read or computed by the time it needs it.
HandlerReady(h) ==
  /\ pc[h] # "idle" => target[h] \in Vm
  /\ pc[h] = "judge" => primary[h] \in Vm
  /\ pc[h] \in {"judge", "delete", "erase"} => held[h] \in PrimaryRecord
  /\ pc[h] \in {"save", "snapshot", "upsert", "untag", "tag", "route"} =>
       elected[h] \in PrimaryRecord

\* Ending a request keeps the types.
LEMMA FinishType ==
  ASSUME TypeOK, NEW h \in Handler, Finish(h)
  PROVE  /\ HandlerTypes'
         /\ \A g \in Handler : HandlerReady(g)'
BY DEF TypeOK, Finish, HandlerTypes, HandlerReady, Step

\* A handler that saves holds the record of an election.
LEMMA PutType ==
  ASSUME TypeOK, NEW h \in Handler, pc[h] \in {"save", "upsert"}, Put(h)
  PROVE  RecordTypes'
<1>1. elected[h] \in PrimaryRecord /\ elected[h].key \in Key
  BY DEF TypeOK, PrimaryRecord
<1> QED
  BY <1>1 DEF TypeOK, Put, RecordTypes

\* Taking a record out of the table keeps its type.
LEMMA DeleteType ==
  ASSUME TypeOK, NEW k, records' = [records EXCEPT ![k] = None]
  PROVE  RecordTypes'
BY DEF TypeOK, RecordTypes

\* A winner is a VM of the preferred group, under either strategy.
LEMMA WinnerType ==
  ASSUME NEW h \in Handler,
         NEW v \in IF conf.timed THEN Candidates ELSE ClassicCandidates(h),
         NEW t \in Now
  PROVE  [key |-> IF conf.timed THEN Group ELSE v, vm |-> v, stamp |-> t] \in PrimaryRecord
<1>1. v \in Preferred /\ v \in Vm
  BY ElectionAssumption DEF Candidates, ClassicCandidates
<1>2. t \in Instant
  BY DEF Now
<1> QED
  BY <1>1, <1>2 DEF PrimaryRecord, Key

----------------------------------------------------------------------------
(* Every variable keeps its type. *)

THEOREM TypeCorrect == Spec => []TypeOK
<1>1. Init => TypeOK
  BY DEF Init, TypeOK, Condition, Step
<1>2. TypeOK /\ [Next]_vars => TypeOK'
  <2> SUFFICES ASSUME TypeOK, [Next]_vars PROVE TypeOK'
    OBVIOUS
  <2>1. CASE Environment
    <3>1. ASSUME NEW v \in Silent, Miss(v) PROVE TypeOK'
      BY <3>1, ElectionAssumption DEF Miss, TypeOK, handlerVars, Condition
    <3>2. ASSUME NEW v \in Troubled, ScaleIn(v) PROVE TypeOK'
      BY <3>2, ElectionAssumption DEF ScaleIn, Ended, TypeOK, handlerVars
    <3>3. ASSUME NEW v \in Vm, ForceOutOfSync(v) PROVE TypeOK'
      BY <3>3 DEF ForceOutOfSync, TypeOK, handlerVars, Condition
    <3>4. ASSUME NEW v \in Vm, Terminated(v) PROVE TypeOK'
      BY <3>4 DEF Terminated, TypeOK, handlerVars
    <3> QED
      BY <2>1, <3>1, <3>2, <3>3, <3>4 DEF Environment
  <2>2. ASSUME NEW h \in Handler, NEW v \in Vm, Heartbeat(h, v) PROVE TypeOK'
    <3>1. \A c \in Synced(condition[v]) : c \in Condition
      BY DEF Synced, TypeOK, Condition
    <3>2. SystemTypes'
      BY <2>2, <3>1 DEF Heartbeat, TypeOK, SystemTypes
    <3>3. RecordTypes'
      BY <2>2 DEF Heartbeat, TypeOK, RecordTypes
    <3>4. healthy' \in [Handler -> BOOLEAN]
      <4>1. \A c : Responsive(c) \in BOOLEAN
        BY DEF Responsive
      <4>2. PICK b \in BOOLEAN : healthy' = [healthy EXCEPT ![h] = b]
        BY <2>2, <4>1, Zenon DEF Heartbeat
      <4>3. healthy \in [Handler -> BOOLEAN]
        BY DEF TypeOK
      <4> QED
        BY <4>2, <4>3, Zenon
    <3>5. HandlerTypes'
      BY <2>2, <3>4 DEF Heartbeat, TypeOK, HandlerTypes, Goto, Step
    <3>6. \A g \in Handler : HandlerReady(g)'
      BY <2>2 DEF Heartbeat, TypeOK, HandlerReady, Goto
    <3> QED
      BY <3>2, <3>3, <3>5, <3>6 DEF TypeOK, SystemTypes, RecordTypes, HandlerTypes, HandlerReady
  <2>3. ASSUME NEW h \in Handler, Continue(h) PROVE TypeOK'
    <3>1. CASE ReadPrimaryVm(h)
      <4>1. \A r \in FirstFound : r # None => r.vm \in Vm
        BY ElectionAssumption DEF FirstFound, Stored, TypeOK, PrimaryRecord
      <4> QED
        BY <3>1, <4>1 DEF ReadPrimaryVm, TypeOK, Goto, Step
    <3>2. CASE ReadPrimaryRecord(h)
      <4>1. \A r \in FirstFound : r = None \/ r \in PrimaryRecord
        BY DEF FirstFound, Stored, TypeOK
      <4> QED
        BY <3>2, <4>1 DEF ReadPrimaryRecord, TypeOK, Goto, Step
    <3>3. CASE JudgePrimary(h)
      <4>1. SystemTypes' /\ RecordTypes'
        BY <3>3 DEF JudgePrimary, TypeOK, SystemTypes, RecordTypes
      <4>2. HandlerTypes' /\ \A g \in Handler : HandlerReady(g)'
        <5>1. CASE PrimaryInSync(h)
          BY <3>3, <5>1
             DEF JudgePrimary, TypeOK, HandlerTypes, HandlerReady, Goto, Release, Step
        <5>2. CASE ~PrimaryInSync(h)
          BY <3>3, <5>2
             DEF JudgePrimary, TypeOK, HandlerTypes, HandlerReady, Goto, Step
        <5> QED
          BY <5>1, <5>2
      <4> QED
        BY <4>1, <4>2 DEF TypeOK, SystemTypes, RecordTypes, HandlerTypes, HandlerReady
    <3>4. CASE DeleteAws(h)
      <4>1. RecordTypes'
        BY <3>4, DeleteType DEF DeleteAws
      <4> QED
        BY <3>4, <4>1 DEF DeleteAws, TypeOK, Goto, Release, Step, RecordTypes
    <3>5. CASE DeleteAzure(h)
      BY <3>5 DEF DeleteAzure, TypeOK, Goto, Release, Step
    <3>6. CASE EraseAzure(h)
      <4>1. RecordTypes'
        BY <3>6, DeleteType DEF EraseAzure
      <4> QED
        BY <3>6, <4>1 DEF EraseAzure, TypeOK, Goto, Release, Step, RecordTypes
    <3>7. CASE HandleStaleVm(h)
      BY <3>7 DEF HandleStaleVm, Forget, TypeOK, Goto, Step, Condition
    <3>8. CASE Elect(h)
      <4>1. SystemTypes' /\ RecordTypes'
        BY <3>8 DEF Elect, TypeOK, SystemTypes, RecordTypes
      <4>2. \/ elected' = elected /\ pc' = [pc EXCEPT ![h] = "conclude"]
            \/ \E r \in PrimaryRecord :
                 elected' = [elected EXCEPT ![h] = r] /\ pc' = [pc EXCEPT ![h] = "save"]
        BY <3>8, WinnerType, Zenon DEF Elect, Goto
      <4>3. HandlerTypes'
        BY <3>8, <4>2 DEF Elect, TypeOK, HandlerTypes, Step
      <4>4. \A g \in Handler : HandlerReady(g)'
        BY <3>8, <4>2 DEF Elect, TypeOK, HandlerReady
      <4> QED
        BY <4>1, <4>3, <4>4 DEF TypeOK, SystemTypes, RecordTypes, HandlerTypes, HandlerReady
    <3>9. CASE SaveAws(h)
      <4>1. RecordTypes'
        BY <3>9, PutType DEF SaveAws, TypeOK, RecordTypes
      <4> QED
        BY <3>9, <4>1 DEF SaveAws, TypeOK, Goto, Step, RecordTypes
    <3>10. CASE SaveAzure(h)
      BY <3>10 DEF SaveAzure, TypeOK, Goto, Step
    <3>11. CASE TakeSnapshot(h)
      BY <3>11 DEF TakeSnapshot, TypeOK, Goto, Step, PrimaryRecord
    <3>12. CASE UpsertAzure(h)
      <4>1. RecordTypes'
        BY <3>12, PutType DEF UpsertAzure, TypeOK, RecordTypes
      <4> QED
        BY <3>12, <4>1 DEF UpsertAzure, TypeOK, Goto, Release, Step, RecordTypes
    <3>13. CASE Conclude(h)
      <4>1. SystemTypes' /\ RecordTypes'
        BY <3>13 DEF Conclude, Forget, TypeOK, SystemTypes, RecordTypes, Ended, Condition
      <4>2. HandlerTypes' /\ \A g \in Handler : HandlerReady(g)'
        <5>1. CASE Finish(h)
          BY <5>1, FinishType
        <5>2. CASE Goto(h, "untag") /\ UNCHANGED <<target, healthy, primary, held, elected>>
                   /\ elected[h] # None
          BY <3>13, <5>2 DEF Conclude, Goto, TypeOK, HandlerTypes, HandlerReady, Step
        <5> QED
          BY <3>13, <5>1, <5>2 DEF Conclude
      <4> QED
        BY <4>1, <4>2 DEF TypeOK, SystemTypes, RecordTypes, HandlerTypes, HandlerReady
    <3>14. CASE UpdateRoute(h)
      <4>1. RouteTarget(h) \in Vm
        BY <3>14, ElectionAssumption DEF UpdateRoute, RouteTarget, TypeOK, PrimaryRecord
      <4>2. SystemTypes' /\ RecordTypes'
        BY <3>14, <4>1 DEF UpdateRoute, TypeOK, SystemTypes, RecordTypes
      <4> QED
        BY <3>14, <4>2, FinishType
           DEF UpdateRoute, TypeOK, SystemTypes, RecordTypes, HandlerTypes, HandlerReady
    <3>15. CASE Untag(h)
      BY <3>15 DEF Untag, TypeOK, Goto, Step
    <3>16. CASE Tag(h)
      <4>1. elected[h].vm \in Vm
        BY <3>16, ElectionAssumption DEF Tag, TypeOK, PrimaryRecord
      <4> QED
        BY <3>16, <4>1 DEF Tag, TypeOK, Goto, Step
    <3> QED
      BY <2>3, <3>1, <3>2, <3>3, <3>4, <3>5, <3>6, <3>7, <3>8, <3>9, <3>10, <3>11,
         <3>12, <3>13, <3>14, <3>15, <3>16 DEF Continue
  <2>4. ASSUME NEW h \in Handler, Fail(h) PROVE TypeOK'
    <3>1. CASE DeleteFails(h)
      BY <3>1 DEF DeleteFails, TypeOK, Goto, Release, Step
    <3>2. CASE ElectionFails(h)
      <4>1. condition' \in [Vm -> Condition]
        BY <3>2 DEF ElectionFails, Forget, TypeOK, Condition
      <4> QED
        BY <3>2, <4>1 DEF ElectionFails, TypeOK, Goto, Step
    <3>3. CASE SaveFails(h)
      BY <3>3 DEF SaveFails, TypeOK, Goto, Release, Step
    <3>4. CASE TaggingFails(h)
      BY <3>4 DEF TaggingFails, TypeOK, Goto, Step
    <3>5. CASE Abort(h)
      BY <3>5, FinishType DEF Abort, TypeOK, SystemTypes, RecordTypes, HandlerTypes, HandlerReady
    <3> QED
      BY <2>4, <3>1, <3>2, <3>3, <3>4, <3>5 DEF Fail
  <2>6. CASE UNCHANGED vars
    BY <2>6 DEF vars, TypeOK
  <2> QED
    BY <2>1, <2>2, <2>3, <2>4, <2>6 DEF Next
<1> QED
  BY <1>1, <1>2, PTL DEF Spec

----------------------------------------------------------------------------
(* Elections on AWS *)

\* A handler is at a step that only Azure has on Azure only: the steps
\* themselves do not ask again.
AzureSteps ==
  \A h \in Handler : pc[h] \in {"erase", "snapshot", "upsert"} => conf.platform = "azure"

LEMMA AzureStepsAlways == Spec => []AzureSteps
<1>1. Init => AzureSteps
  BY DEF Init, AzureSteps
<1>2. TypeOK /\ AzureSteps /\ [Next]_vars => AzureSteps'
  <2> SUFFICES ASSUME TypeOK, AzureSteps, [Next]_vars PROVE AzureSteps'
    OBVIOUS
  <2> USE DEF TypeOK, AzureSteps
  <2>1. CASE UNCHANGED <<conf, pc>>
    BY <2>1
  <2>2. ASSUME NEW h \in Handler, Continue(h), pc'[h] \in {"erase", "snapshot", "upsert"}
        PROVE  conf.platform = "azure"
    <3>1. CASE DeleteAzure(h) \/ SaveAzure(h) \/ TakeSnapshot(h)
      BY <3>1 DEF DeleteAzure, SaveAzure, TakeSnapshot
    <3> QED
      BY <2>2, <3>1
         DEF Continue, ReadPrimaryVm, ReadPrimaryRecord, JudgePrimary, DeleteAws, EraseAzure,
             HandleStaleVm, Elect, SaveAws, UpsertAzure, Conclude, Untag, Tag, UpdateRoute, Goto, Finish
  <2>3. ASSUME NEW h \in Handler, Continue(h)
        PROVE  conf' = conf /\ \A g \in Handler \ {h} : pc'[g] = pc[g]
    BY <2>3
       DEF Continue, ReadPrimaryVm, ReadPrimaryRecord, JudgePrimary, DeleteAws, DeleteAzure,
           EraseAzure, HandleStaleVm, Elect, SaveAws, SaveAzure, TakeSnapshot, UpsertAzure,
           Conclude, Untag, Tag, UpdateRoute, Goto, Finish
  <2>4. CASE \E h \in Handler, v \in Vm : Heartbeat(h, v)
    BY <2>4 DEF Heartbeat, Goto
  <2>5. CASE \E h \in Handler : Fail(h)
    BY <2>5 DEF Fail, DeleteFails, ElectionFails, SaveFails, TaggingFails, Abort, Goto, Finish
  <2>6. CASE Environment \/ UNCHANGED vars
    BY <2>1, <2>6
       DEF Environment, Miss, ScaleIn, ForceOutOfSync, Terminated, handlerVars, vars
  <2> QED
    BY <2>2, <2>3, <2>4, <2>5, <2>6 DEF Next
<1> QED
  BY <1>1, <1>2, TypeCorrect, PTL DEF Spec

\* On AWS, whatever elections run beside it, a primary record stays as it is
\* until a handler deletes it.
THEOREM NoElectionOverruled == Spec => ElectionNotOverruled
<1> DEFINE Kept ==
      conf.platform = "aws" =>
        \A k \in Key : records[k] # None /\ records'[k] # None => records'[k] = records[k]
<1>1. TypeOK /\ AzureSteps /\ [Next]_vars => [Kept]_vars
  <2> SUFFICES ASSUME TypeOK, AzureSteps, Next PROVE Kept
    OBVIOUS
  <2>1. CASE UNCHANGED records
    BY <2>1
  <2>2. ASSUME NEW h \in Handler, DeleteAws(h) PROVE Kept
    BY <2>2 DEF DeleteAws, TypeOK
  <2>3. ASSUME NEW h \in Handler, SaveAws(h) PROVE Kept
    <3>1. CASE AwsSaves(h)
      BY <2>3, <3>1 DEF SaveAws, AwsSaves, Put, TypeOK
    <3>2. CASE ~AwsSaves(h)
      BY <2>1, <2>3, <3>2 DEF SaveAws
    <3> QED
      BY <3>1, <3>2
  <2>4. ASSUME NEW h \in Handler, EraseAzure(h) \/ UpsertAzure(h) PROVE Kept
    BY <2>4 DEF EraseAzure, UpsertAzure, AzureSteps
  <2> QED
    BY <2>1, <2>2, <2>3, <2>4
       DEF Next, Environment, Miss, ScaleIn, ForceOutOfSync, Terminated, Heartbeat, Continue,
           ReadPrimaryVm, ReadPrimaryRecord, JudgePrimary, DeleteAzure, HandleStaleVm, Elect,
           SaveAzure, TakeSnapshot, Conclude, Untag, Tag, UpdateRoute, Fail, DeleteFails,
           ElectionFails, SaveFails, TaggingFails, Abort
<1> QED
  BY <1>1, TypeCorrect, AzureStepsAlways, PTL DEF Spec, ElectionNotOverruled

----------------------------------------------------------------------------
(* Requests served one at a time *)

\* The table has a record at most, if no deletion fails...
OneRecord == \A j, k \in Key : records[j] # None /\ records[k] # None => j = k

\* ... and what a sole handler knows of it is current at every step that
\* uses it.
SoleKnows(h) ==
  /\ pc[h] = "readRecord" =>
       \A r \in Stored : r.vm = primary[h] \/ (primary[h] = None /\ vmState[r.vm] = "gone")
  /\ pc[h] \in {"judge", "delete", "erase"} => records[held[h].key] = held[h]
  /\ pc[h] = "judge" => primary[h] = held[h].vm
  /\ pc[h] \in {"delete", "erase"} =>
       condition[held[h].vm] # "fit" \/ vmState[held[h].vm] = "gone"
  /\ pc[h] \in {"sweep", "elect", "save", "snapshot", "upsert"} =>
       \A k \in Key : records[k] = None
  /\ pc[h] = "upsert" => held[h] = None
  /\ pc[h] \notin {"save", "snapshot", "upsert", "conclude", "untag", "tag", "route"} =>
       elected[h] = None
  /\ pc[h] = "tag" => tagged = {}
  /\ pc[h] \in {"conclude", "untag", "tag", "route"} /\ elected[h] # None /\ "save" \notin Faults =>
       records[elected[h].key] = elected[h]

SoleInv == OneRecord /\ \A h \in Handler : SoleKnows(h)

\* Requests are served one at a time when there is one handler at most.
LEMMA SoleAlways ==
  ASSUME \A g, h \in Handler : g = h, "delete" \notin Faults
  PROVE  Spec => []SoleInv
<1>1. Init => SoleInv
  BY DEF Init, SoleInv, OneRecord, SoleKnows
<1>2. TypeOK /\ SoleInv /\ [Next]_vars => SoleInv'
  <2> SUFFICES ASSUME TypeOK, SoleInv, [Next]_vars PROVE SoleInv'
    OBVIOUS
  <2> USE DEF SoleInv, OneRecord, SoleKnows
  <2>1. CASE Environment
    <3>1. UNCHANGED <<conf, records, route, tagged, handlerVars>>
      BY <2>1 DEF Environment, Miss, ScaleIn, ForceOutOfSync, Terminated
    <3>2. \A v \in Vm : condition[v] # "fit" => condition'[v] # "fit"
      BY <2>1, ElectionAssumption
         DEF Environment, Miss, ScaleIn, ForceOutOfSync, Terminated, TypeOK
    <3>3. \A v \in Vm : vmState[v] = "gone" => vmState'[v] = "gone"
      BY <2>1, ElectionAssumption
         DEF Environment, Miss, ScaleIn, ForceOutOfSync, Terminated, TypeOK
    <3>4. \A r \in PrimaryRecord : r.vm \in Vm /\ r.key \in Key
      BY ElectionAssumption DEF PrimaryRecord
    <3> QED
      BY <3>1, <3>2, <3>3, <3>4 DEF handlerVars, TypeOK, Stored
  <2>2. ASSUME NEW h \in Handler, NEW v \in Vm, Heartbeat(h, v) PROVE SoleInv'
    BY <2>2 DEF Heartbeat, Goto, TypeOK
  <2>3. ASSUME NEW h \in Handler, Continue(h) PROVE SoleInv'
    <3>1. CASE ReadPrimaryVm(h)
      BY <3>1 DEF ReadPrimaryVm, VmFound, FirstFound, Stored, Goto, TypeOK
    <3>2. CASE ReadPrimaryRecord(h)
      <4>1. PICK r \in FirstFound :
              /\ held' = [held EXCEPT ![h] = r]
              /\ pc' = [pc EXCEPT ![h] = CASE r = None -> "sweep"
                                          [] r # None /\ primary[h] # None -> "judge"
                                          [] OTHER -> "delete"]
        BY <3>2, Zenon DEF ReadPrimaryRecord, Goto
      <4>2. r # None => r \in Stored /\ records[r.key] = r /\ r.vm # None
        BY <4>1, ElectionAssumption DEF FirstFound, Stored, TypeOK, PrimaryRecord
      <4>3. r = None => \A k \in Key : records[k] = None
        BY <4>1 DEF FirstFound, Stored
      <4> QED
        BY <3>2, <4>1, <4>2, <4>3 DEF ReadPrimaryRecord, Stored, TypeOK
    <3>3. CASE JudgePrimary(h)
      BY <3>3 DEF JudgePrimary, PrimaryInSync, Goto, Release, TypeOK
    <3>4. CASE DeleteAws(h)
      <4>1. \A k \in Key : records'[k] = None
        BY <3>4, NoneAssumption DEF DeleteAws, TypeOK, PrimaryRecord
      <4>2. pc'[h] = "sweep" /\ elected'[h] = None
        BY <3>4 DEF DeleteAws, Goto, TypeOK
      <4> QED
        BY <4>1, <4>2
    <3>5. CASE DeleteAzure(h)
      BY <3>5 DEF DeleteAzure, Goto, Release, TypeOK
    <3>6. CASE EraseAzure(h)
      <4>1. \A k \in Key : records'[k] = None
        BY <3>6, NoneAssumption DEF EraseAzure, TypeOK, PrimaryRecord
      <4>2. pc'[h] = "sweep" /\ elected'[h] = None
        BY <3>6 DEF EraseAzure, Goto, TypeOK
      <4> QED
        BY <4>1, <4>2
    <3>7. CASE HandleStaleVm(h)
      BY <3>7 DEF HandleStaleVm, Goto, TypeOK
    <3>8. CASE Elect(h)
      BY <3>8 DEF Elect, Goto, TypeOK
    <3>9. CASE SaveAws(h)
      BY <3>9 DEF SaveAws, AwsSaves, Put, Goto, TypeOK, PrimaryRecord
    <3>10. CASE SaveAzure(h)
      BY <3>10 DEF SaveAzure, Goto, TypeOK, PrimaryRecord
    <3>11. CASE TakeSnapshot(h)
      BY <3>11 DEF TakeSnapshot, Goto, TypeOK, PrimaryRecord
    <3>12. CASE UpsertAzure(h)
      BY <3>12 DEF UpsertAzure, Put, Goto, Release, TypeOK, PrimaryRecord
    <3>13. CASE Conclude(h)
      BY <3>13 DEF Conclude, Goto, Finish, TypeOK
    <3>14. CASE UpdateRoute(h)
      BY <3>14 DEF UpdateRoute, Finish, TypeOK
    <3>15. CASE Untag(h)
      BY <3>15 DEF Untag, Goto, TypeOK
    <3>16. CASE Tag(h)
      BY <3>16 DEF Tag, Goto, TypeOK
    <3> QED
      BY <2>3, <3>1, <3>2, <3>3, <3>4, <3>5, <3>6, <3>7, <3>8, <3>9, <3>10, <3>11,
         <3>12, <3>13, <3>14, <3>15, <3>16 DEF Continue
  <2>4. ASSUME NEW h \in Handler, Fail(h) PROVE SoleInv'
    <3>1. CASE ElectionFails(h)
      BY <3>1 DEF ElectionFails, Goto, TypeOK
    <3>2. CASE SaveFails(h)
      BY <3>2 DEF SaveFails, Goto, Release, TypeOK
    <3>3. CASE TaggingFails(h)
      BY <3>3 DEF TaggingFails, Goto, TypeOK
    <3>4. CASE Abort(h)
      BY <3>4 DEF Abort, Finish, TypeOK
    <3> QED
      BY <2>4, <3>1, <3>2, <3>3, <3>4 DEF Fail, DeleteFails
  <2>6. CASE UNCHANGED vars
    BY <2>6 DEF vars, Stored
  <2> QED
    BY <2>1, <2>2, <2>3, <2>4, <2>6 DEF Next
<1> QED
  BY <1>1, <1>2, TypeCorrect, PTL DEF Spec

\* The record that a step changes or removes is the one that the handler holds.
LEMMA SoleChange ==
  ASSUME \A g, h \in Handler : g = h,
         TypeOK, SoleInv, [Next]_vars, NEW r \in Stored, records'[r.key] # r
  PROVE  \E h \in Handler : pc[h] \in {"delete", "erase"} /\ held[h] = r
<1>1. r # None /\ r.key \in Key /\ records[r.key] = r
  BY DEF Stored, TypeOK
<1>2. ASSUME NEW h \in Handler, pc[h] \in {"delete", "erase"}
      PROVE  held[h] = r
  BY <1>1, <1>2, NoneAssumption DEF SoleInv, OneRecord, SoleKnows, TypeOK, PrimaryRecord
<1>3. ASSUME NEW h \in Handler, pc[h] \in {"save", "upsert"}
      PROVE  FALSE
  BY <1>1, <1>3 DEF SoleInv, SoleKnows
<1>4. \E h \in Handler : pc[h] \in {"delete", "erase", "save", "upsert"}
  BY <1>1
     DEF Next, Environment, Miss, ScaleIn, ForceOutOfSync, Terminated, Heartbeat, Continue,
         ReadPrimaryVm, ReadPrimaryRecord, JudgePrimary, DeleteAws, DeleteAzure, EraseAzure,
         HandleStaleVm, Elect, SaveAws, SaveAzure, TakeSnapshot, UpsertAzure, Conclude,
         Untag, Tag, UpdateRoute, Fail, DeleteFails, ElectionFails, SaveFails,
         TaggingFails, Abort, vars
<1> QED
  BY <1>2, <1>3, <1>4

\* As long as requests are served one at a time and no deletion of a primary
\* record fails, a primary loses its role only for a reason.
THEOREM SoleKeepsFitPrimary ==
  ASSUME \A g, h \in Handler : g = h, "delete" \notin Faults
  PROVE  Spec => FitPrimaryKept
<1> DEFINE Kept ==
      \A r \in Stored : condition[r.vm] = "fit" /\ vmState[r.vm] # "gone" => records'[r.key] = r
<1>1. TypeOK /\ SoleInv /\ [Next]_vars => [Kept]_vars
  BY SoleChange DEF SoleInv, SoleKnows
<1> QED
  BY <1>1, TypeCorrect, SoleAlways, PTL DEF Spec, FitPrimaryKept

\* As long as requests are served one at a time and no deletion of a primary
\* record and no saving of one fails, the egress route is moved to the recorded
\* primary only, whatever else fails.
THEOREM SoleRoutesToPrimary ==
  ASSUME \A g, h \in Handler : g = h, "delete" \notin Faults, "save" \notin Faults
  PROVE  Spec => RouteMovesToPrimary
<1> DEFINE Moved == route' # route => \E r \in Stored : r.vm = route'
<1>1. TypeOK /\ SoleInv /\ [Next]_vars => [Moved]_vars
  <2> SUFFICES ASSUME TypeOK, SoleInv, Next, route' # route
               PROVE  \E r \in Stored : r.vm = route'
    OBVIOUS
  <2>1. PICK h \in Handler : UpdateRoute(h)
    BY DEF Next, Environment, Miss, ScaleIn, ForceOutOfSync, Terminated, Heartbeat, Continue,
           ReadPrimaryVm, ReadPrimaryRecord, JudgePrimary, DeleteAws, DeleteAzure, EraseAzure,
           HandleStaleVm, Elect, SaveAws, SaveAzure, TakeSnapshot, UpsertAzure, Conclude,
           Untag, Tag, Fail, DeleteFails, ElectionFails,
           SaveFails, TaggingFails, Abort
  <2>2. elected[h] \in PrimaryRecord /\ elected[h].key \in Key
    BY <2>1 DEF UpdateRoute, TypeOK, PrimaryRecord
  <2>3. records[elected[h].key] = elected[h]
    BY <2>1, <2>2, NoneAssumption DEF UpdateRoute, SoleInv, SoleKnows
  <2>4. elected[h] \in Stored
    BY <2>2, <2>3, NoneAssumption DEF Stored
  <2> QED
    BY <2>1, <2>4 DEF UpdateRoute, RouteTarget
<1> QED
  BY <1>1, TypeCorrect, SoleAlways, PTL DEF Spec, RouteMovesToPrimary

\* As long as requests are served one at a time and no deletion of a primary
\* record and no saving of one fails, a VM that is tagged is the recorded
\* primary, and no other has the tag then.
THEOREM SoleTagsPrimary ==
  ASSUME \A g, h \in Handler : g = h, "delete" \notin Faults, "save" \notin Faults
  PROVE  Spec => TagMovesToPrimary
<1> DEFINE Moved == tagged' # tagged /\ tagged' # {} => \E r \in Stored : tagged' = {r.vm}
<1>1. TypeOK /\ SoleInv /\ [Next]_vars => [Moved]_vars
  <2> SUFFICES ASSUME TypeOK, SoleInv, Next, tagged' # tagged, tagged' # {}
               PROVE  \E r \in Stored : tagged' = {r.vm}
    OBVIOUS
  <2>1. PICK h \in Handler : Tag(h)
    BY DEF Next, Environment, Miss, ScaleIn, ForceOutOfSync, Terminated, Heartbeat, Continue,
           ReadPrimaryVm, ReadPrimaryRecord, JudgePrimary, DeleteAws, DeleteAzure, EraseAzure,
           HandleStaleVm, Elect, SaveAws, SaveAzure, TakeSnapshot, UpsertAzure, Conclude,
           Untag, UpdateRoute, Fail, DeleteFails, ElectionFails,
           SaveFails, TaggingFails, Abort
  <2>2. elected[h] \in PrimaryRecord /\ elected[h].key \in Key
    BY <2>1 DEF Tag, TypeOK, PrimaryRecord
  <2>3. records[elected[h].key] = elected[h] /\ tagged = {}
    BY <2>1, <2>2, NoneAssumption DEF Tag, SoleInv, SoleKnows
  <2>4. elected[h] \in Stored
    BY <2>2, <2>3, NoneAssumption DEF Stored
  <2> QED
    BY <2>1, <2>3, <2>4 DEF Tag
<1> QED
  BY <1>1, TypeCorrect, SoleAlways, PTL DEF Spec, TagMovesToPrimary

\* As long as requests are served one at a time and no deletion of a primary
\* record fails, there is one at most.
THEOREM SoleSingleRecord ==
  ASSUME \A g, h \in Handler : g = h, "delete" \notin Faults
  PROVE  Spec => []SinglePrimaryRecord
<1>1. TypeOK /\ SoleInv => SinglePrimaryRecord
  <2> SUFFICES ASSUME TypeOK, SoleInv PROVE Cardinality(Stored) <= 1
    BY DEF SinglePrimaryRecord
  <2>1. CASE Stored = {}
    BY <2>1, FS_EmptySet
  <2>2. ASSUME NEW r \in Stored PROVE Cardinality(Stored) = 1
    <3>1. Stored = {r}
      BY <2>2 DEF Stored, SoleInv, OneRecord
    <3> QED
      BY <3>1, FS_Singleton
  <2> QED
    BY <2>1, <2>2
<1> QED
  BY <1>1, TypeCorrect, SoleAlways, PTL

====
