---- MODULE LicenseAllocation_proofs ----
(***************************************************************************)
(* Theorems about LicenseAllocation, for all VMs, licenses and handlers,   *)
(* with overlapping requests, edited license files and faults: its types   *)
(* are right; while requests are served one at a time no VM uses up two    *)
(* licenses, and none is sent away while there is one for it; on AWS, and  *)
(* on Azure while requests are served one at a time, it implements         *)
(* LicensePool, so that two running VMs never work with the same license.  *)
(***************************************************************************)
EXTENDS LicenseAllocation, FiniteSetTheorems, TLAPS

----------------------------------------------------------------------------
(* Types *)

\* The variables that handlers do not own.
SystemTypes ==
  /\ conf \in Settings
  /\ running \subseteq Vm
  /\ files \subseteq License
  /\ usage \in Table
  /\ loaded \in [Vm -> License \cup {None}]

HandlerTypes ==
  /\ pc \in [Handler -> Step]
  /\ target \in [Handler -> Vm \cup {None}]
  /\ known \in [Handler -> Table]
  /\ untried \in [Handler -> SUBSET License]
  /\ checked \in [Handler -> SUBSET License]
  /\ pick \in [Handler -> License \cup {None}]
  /\ tries \in [Handler -> Nat]

\* What a handler has read or computed by the time it needs it.
HandlerReady(h) ==
  /\ pc[h] # "idle" => target[h] \in Vm
  /\ pc[h] \in {"claim", "upsert"} => untried[h] # {} /\ tries[h] > 0
  /\ pc[h] \in {"upsert", "load"} => pick[h] \in License
  /\ pc[h] = "reclaim" =>
       pick[h] \in License /\ known[h][pick[h]] # None /\ tries[h] > 0

LEMMA TypeParts ==
  TypeOK <=> SystemTypes /\ HandlerTypes /\ \A h \in Handler : HandlerReady(h)
BY DEF TypeOK, SystemTypes, HandlerTypes, HandlerReady

LEMMA EmptyType == Empty \in Table
BY DEF Empty, Table

\* A filtered table is a table.
LEMMA WithFileType ==
  ASSUME NEW t \in Table PROVE WithFile(t) \in Table
BY DEF WithFile, Table

\* Assigning a license keeps the type of the usage table.
LEMMA UseType ==
  ASSUME usage \in Table, NEW h \in Handler, target[h] \in Vm, NEW l \in License, Use(h, l)
  PROVE  usage' \in Table
<1>1. [vm |-> target[h], vmInSync |-> TRUE] \in UsageRecord
  BY DEF UsageRecord
<1> QED
  BY <1>1 DEF Use, Table

\* Ending a request keeps the types.
LEMMA FinishType ==
  ASSUME HandlerTypes, \A g \in Handler : HandlerReady(g), NEW h \in Handler, Finish(h)
  PROVE  HandlerTypes' /\ \A g \in Handler : HandlerReady(g)'
<1>1. HandlerTypes'
  BY EmptyType DEF Finish, HandlerTypes, Goto, Set, Step
<1>2. \A g \in Handler : HandlerReady(g)'
  BY DEF Finish, HandlerTypes, HandlerReady, Goto, Set
<1> QED
  BY <1>1, <1>2

\* So does taking a license,
LEMMA TakenType ==
  ASSUME HandlerTypes, \A g \in Handler : HandlerReady(g),
         NEW h \in Handler, pc[h] # "idle", NEW l \in License,
         Taken(h, l), UNCHANGED <<target, checked>>
  PROVE  HandlerTypes' /\ \A g \in Handler : HandlerReady(g)'
<1>1. HandlerTypes'
  BY EmptyType DEF Taken, HandlerTypes, Goto, Set, Step
<1>2. \A g \in Handler : HandlerReady(g)'
  BY DEF Taken, HandlerTypes, HandlerReady, Goto, Set
<1> QED
  BY <1>1, <1>2

\* turning to the next unused license,
LEMMA TryNextType ==
  ASSUME HandlerTypes, \A g \in Handler : HandlerReady(g),
         NEW h \in Handler, pc[h] \in {"claim", "upsert"}, NEW l,
         TryNext(h, l), UNCHANGED <<target, checked>>
  PROVE  HandlerTypes' /\ \A g \in Handler : HandlerReady(g)'
<1>1. tries[h] \in Nat /\ tries[h] > 0 /\ untried[h] # {}
  BY DEF HandlerTypes, HandlerReady
<1>2. CASE untried[h] = {l} \/ LastTry(h)
  BY <1>1, <1>2 DEF TryNext, HandlerTypes, HandlerReady, Goto, Set, Step
<1>3. CASE ~(untried[h] = {l} \/ LastTry(h))
  <2>1. tries[h] - 1 \in Nat /\ tries[h] - 1 > 0 /\ untried[h] \ {l} # {}
    BY <1>1, <1>3 DEF LastTry
  <2>2. /\ tries' = Set(tries, h, tries[h] - 1)
        /\ untried' = Set(untried, h, untried[h] \ {l})
        /\ Goto(h, "claim") /\ pick' = Set(pick, h, None) /\ UNCHANGED known
    BY <1>3 DEF TryNext
  <2>3. HandlerTypes'
    BY <2>1, <2>2 DEF HandlerTypes, Goto, Set, Step
  <2>4. \A g \in Handler : HandlerReady(g)'
    BY <2>1, <2>2 DEF HandlerTypes, HandlerReady, Goto, Set
  <2> QED
    BY <2>3, <2>4
<1> QED
  BY <1>2, <1>3

\* and counting a failed attempt.
LEMMA RetryType ==
  ASSUME HandlerTypes, \A g \in Handler : HandlerReady(g),
         NEW h \in Handler, pc[h] = "reclaim", Retry(h), UNCHANGED <<target, checked>>
  PROVE  HandlerTypes' /\ \A g \in Handler : HandlerReady(g)'
<1>1. tries[h] \in Nat /\ tries[h] > 0
  BY DEF HandlerTypes, HandlerReady
<1>2. CASE LastTry(h)
  BY <1>1, <1>2, EmptyType DEF Retry, HandlerTypes, HandlerReady, Goto, Set, Step, LastTry
<1>3. CASE ~LastTry(h)
  BY <1>1, <1>3 DEF Retry, HandlerTypes, HandlerReady, Set, LastTry
<1> QED
  BY <1>2, <1>3

\* A handler that pursues a license has attempts left.
LEMMA PursueType ==
  ASSUME HandlerTypes, \A g \in Handler : HandlerReady(g),
         NEW h \in Handler, pc[h] # "idle", NEW t \in Table, OutOfSync(t) # {},
         Pursue(h, t), known' = Set(known, h, t),
         UNCHANGED <<target, untried, checked>>
  PROVE  HandlerTypes' /\ \A g \in Handler : HandlerReady(g)'
<1>1. PICK l \in OutOfSync(t) : pick' = Set(pick, h, l)
  BY DEF Pursue
<1>2. l \in License /\ t[l] # None
  BY <1>1 DEF OutOfSync
<1>3. Cardinality(OutOfSync(t)) \in Nat \ {0}
  <2>1. OutOfSync(t) \subseteq License
    BY DEF OutOfSync
  <2>2. IsFiniteSet(OutOfSync(t))
    BY <2>1, AllocationAssumption, FS_Subset
  <2> QED
    BY <2>2, FS_CardinalityType, FS_EmptySet
<1>4. Least(Cardinality(OutOfSync(t)), MaxCount) \in Nat \ {0}
  BY <1>3, AllocationAssumption DEF Least
<1>5. HandlerTypes'
  BY <1>1, <1>2, <1>4 DEF Pursue, HandlerTypes, Goto, Set, Step
<1>6. \A g \in Handler : HandlerReady(g)'
  BY <1>1, <1>2, <1>4 DEF Pursue, HandlerTypes, HandlerReady, Goto, Set
<1> QED
  BY <1>5, <1>6

----------------------------------------------------------------------------
\* Every variable keeps its type, and a handler that takes a license over has
\* a record to take over and attempts left.
THEOREM TypeCorrect == Spec => []TypeOK
<1>1. Init => TypeOK
  BY EmptyType DEF Init, TypeOK, Step
<1>2. TypeOK /\ [Next]_vars => TypeOK'
  <2> SUFFICES ASSUME TypeOK, [Next]_vars PROVE TypeOK'
    OBVIOUS
  <2>0. SystemTypes /\ HandlerTypes /\ \A h \in Handler : HandlerReady(h)
    BY TypeParts
  <2>1. CASE Environment
    <3>1. ASSUME NEW v \in Vm, Terminate(v) PROVE TypeOK'
      BY <3>1 DEF Terminate, TypeOK, memory
    <3>2. ASSUME NEW l \in License, RemoveFile(l) \/ RestoreFile(l) PROVE TypeOK'
      BY <3>2 DEF RemoveFile, RestoreFile, TypeOK, memory
    <3> QED
      BY <2>1, <3>1, <3>2 DEF Environment
  <2>2. ASSUME NEW h \in Handler, NEW v \in Vm, RequestLicense(h, v) PROVE TypeOK'
    <3>1. SystemTypes'
      BY <2>0, <2>2 DEF RequestLicense, SystemTypes
    <3>2. WithFile(usage) \in Table /\ Unused \subseteq License
      BY <2>0, WithFileType DEF SystemTypes, Unused
    <3>3. \A l \in OwnRecords(v) : l \in License
      BY DEF OwnRecords
    <3>4. HandlerTypes'
      BY <2>0, <2>2, <3>2, <3>3, AllocationAssumption
         DEF RequestLicense, HandlerTypes, Goto, Set, Step
    <3>5. \A g \in Handler : HandlerReady(g)'
      BY <2>0, <2>2, <3>3, AllocationAssumption
         DEF RequestLicense, HandlerTypes, HandlerReady, Goto, Set
    <3> QED
      BY <3>1, <3>4, <3>5, TypeParts DEF TypeOK, SystemTypes, HandlerTypes, HandlerReady
  <2>3. ASSUME NEW h \in Handler, Continue(h) PROVE TypeOK'
    <3> SUFFICES SystemTypes' /\ HandlerTypes' /\ \A g \in Handler : HandlerReady(g)'
      BY DEF TypeOK, SystemTypes, HandlerTypes, HandlerReady
    <3>0. /\ pc[h] # "idle" => target[h] \in Vm
          /\ pc[h] = "upsert" => pick[h] \in License
          /\ pc[h] = "reclaim" => pick[h] \in License
          /\ pc[h] = "load" => pick[h] \in License
          /\ untried[h] \subseteq License
          /\ known[h] \in Table
          /\ usage \in Table
      BY <2>0 DEF HandlerReady, HandlerTypes, SystemTypes
    <3>1. CASE ClaimAws(h)
      <4>1. PICK l \in untried[h] :
              \/ Use(h, l) /\ Taken(h, l)
              \/ UNCHANGED usage /\ TryNext(h, l)
        BY <3>1 DEF ClaimAws
      <4>2. pc[h] = "claim" /\ UNCHANGED <<conf, running, files, loaded, target, checked>>
        BY <3>1 DEF ClaimAws
      <4>3. usage' \in Table
        BY <3>0, <4>1, <4>2, UseType
      <4>4. SystemTypes'
        BY <2>0, <4>2, <4>3 DEF SystemTypes
      <4> QED
        BY <2>0, <3>0, <4>1, <4>2, <4>4, TakenType, TryNextType
    <3>2. CASE ClaimAzure(h)
      <4>1. SystemTypes'
        BY <2>0, <3>2 DEF ClaimAzure, SystemTypes
      <4>2. PICK l \in untried[h] :
              \/ /\ pick' = Set(pick, h, l)
                 /\ Goto(h, "upsert")
                 /\ UNCHANGED <<known, untried, tries>>
              \/ TryNext(h, l)
        BY <3>2 DEF ClaimAzure
      <4>3. pc[h] = "claim" /\ UNCHANGED <<target, checked>>
        BY <3>2 DEF ClaimAzure
      <4>4. CASE TryNext(h, l)
        BY <2>0, <4>1, <4>3, <4>4, TryNextType
      <4>5. CASE /\ pick' = Set(pick, h, l)
                 /\ Goto(h, "upsert")
                 /\ UNCHANGED <<known, untried, tries>>
        <5>1. HandlerTypes'
          BY <2>0, <3>0, <4>3, <4>5 DEF HandlerTypes, Goto, Set, Step
        <5>2. \A g \in Handler : HandlerReady(g)'
          BY <2>0, <3>0, <4>3, <4>5 DEF HandlerTypes, HandlerReady, Goto, Set
        <5> QED
          BY <4>1, <5>1, <5>2
      <4> QED
        BY <4>2, <4>4, <4>5
    <3>3. CASE UpsertAzure(h)
      <4>1. /\ pc[h] = "upsert" /\ Use(h, pick[h]) /\ Taken(h, pick[h])
            /\ UNCHANGED <<conf, running, files, loaded, target, checked>>
        BY <3>3 DEF UpsertAzure
      <4>2. SystemTypes'
        BY <2>0, <3>0, <4>1, UseType DEF SystemTypes
      <4> QED
        BY <2>0, <3>0, <4>1, <4>2, TakenType
    <3>4. CASE ClaimFails(h)
      <4>1. PICK l \in License :
              TryNext(h, l) /\ (UNCHANGED usage \/ Use(h, l))
        BY <3>0, <3>4 DEF ClaimFails
      <4>2. /\ pc[h] \in {"claim", "upsert"}
            /\ UNCHANGED <<conf, running, files, loaded, target, checked>>
        BY <3>4 DEF ClaimFails
      <4>3. SystemTypes'
        BY <2>0, <3>0, <4>1, <4>2, UseType DEF SystemTypes
      <4> QED
        BY <2>0, <4>1, <4>2, <4>3, TryNextType
    <3>5. CASE Reuse(h)
      <4>1. SystemTypes'
        BY <2>0, <3>5 DEF Reuse, SystemTypes
      <4>2. CASE OutOfSync(known[h]) # {} /\ Pursue(h, known[h])
        <5>1. known' = Set(known, h, known[h])
          BY <2>0, <3>5 DEF Reuse, Set, HandlerTypes
        <5> QED
          BY <2>0, <3>0, <3>5, <4>1, <4>2, <5>1, PursueType DEF Reuse
      <4>3. CASE Goto(h, "check") /\ UNCHANGED <<pick, tries>>
        BY <2>0, <3>5, <4>1, <4>3 DEF Reuse, HandlerTypes, HandlerReady, Goto, Step
      <4> QED
        BY <3>5, <4>2, <4>3 DEF Reuse
    <3>6. CASE CheckVms(h)
      BY <2>0, <3>6 DEF CheckVms, SystemTypes, HandlerTypes, HandlerReady, Goto, Set, Step
    <3>7. CASE WriteStatus(h)
      <4>1. usage' \in Table
        <5>1. \A l \in License : Unchanged(h, l) =>
                [vm |-> known[h][l].vm, vmInSync |-> l \in checked[h]] \in UsageRecord
          BY <3>0 DEF Unchanged, Table, UsageRecord
        <5> QED
          BY <3>0, <3>7, <5>1 DEF WriteStatus, Table
      <4>2. SystemTypes'
        BY <2>0, <3>7, <4>1 DEF WriteStatus, SystemTypes
      <4> QED
        BY <2>0, <3>7, <4>2 DEF WriteStatus, HandlerTypes, HandlerReady, Goto, Set, Step
    <3>8. CASE Relist(h)
      <4>1. SystemTypes'
        BY <2>0, <3>8 DEF Relist, SystemTypes
      <4>2. CASE /\ OutOfSync(Refreshed(h)) # {}
                 /\ known' = Set(known, h, Refreshed(h))
                 /\ Pursue(h, Refreshed(h))
        BY <2>0, <3>0, <3>8, <4>1, <4>2, PursueType DEF Relist, Refreshed
      <4>3. CASE /\ known' = Set(known, h, Empty)
                 /\ Goto(h, "outOfStock")
                 /\ UNCHANGED <<pick, tries>>
        BY <2>0, <3>8, <4>1, <4>3, EmptyType
           DEF Relist, HandlerTypes, HandlerReady, Goto, Set, Step
      <4> QED
        BY <3>8, <4>2, <4>3 DEF Relist
    <3>9. CASE Reclaim(h) \/ ReclaimFails(h)
      <4>1. /\ pc[h] = "reclaim"
            /\ UNCHANGED usage \/ Use(h, pick[h])
            /\ Taken(h, pick[h]) \/ Retry(h)
            /\ UNCHANGED <<conf, running, files, loaded, target, checked>>
        BY <3>9 DEF Reclaim, ReclaimFails
      <4>2. SystemTypes'
        BY <2>0, <3>0, <4>1, UseType DEF SystemTypes
      <4> QED
        BY <2>0, <3>0, <4>1, <4>2, TakenType, RetryType
    <3>10. CASE Load(h)
      <4>1. SystemTypes'
        BY <2>0, <3>0, <3>10 DEF Load, SystemTypes, Set
      <4> QED
        BY <2>0, <3>10, <4>1, FinishType DEF Load
    <3>11. CASE LoadFails(h)
      BY <2>0, <3>11, EmptyType
         DEF LoadFails, SystemTypes, HandlerTypes, HandlerReady, Goto, Set, Step
    <3>12. CASE OutOfStock(h) \/ Abort(h)
      <4>1. SystemTypes' /\ Finish(h)
        BY <2>0, <3>12 DEF OutOfStock, Abort, SystemTypes
      <4> QED
        BY <2>0, <4>1, FinishType
    <3> QED
      BY <2>3, <3>1, <3>2, <3>3, <3>4, <3>5, <3>6, <3>7, <3>8, <3>9, <3>10, <3>11, <3>12
         DEF Continue
  <2>4. CASE UNCHANGED vars
    BY <2>4 DEF vars, TypeOK
  <2> QED
    BY <2>1, <2>2, <2>3, <2>4 DEF Next
<1> QED
  BY <1>1, <1>2, PTL DEF Spec

----------------------------------------------------------------------------
(* What a step of one handler does to the others, and to the usage table *)

\* A step of one handler leaves the others alone.
Bystander(g) ==
  /\ pc'[g] = pc[g] /\ target'[g] = target[g] /\ known'[g] = known[g]
  /\ untried'[g] = untried[g] /\ checked'[g] = checked[g] /\ pick'[g] = pick[g]
  /\ tries'[g] = tries[g]

LEMMA OthersStandBy ==
  ASSUME TypeOK, NEW h \in Handler, NEW v \in Vm,
         RequestLicense(h, v) \/ Continue(h), NEW g \in Handler, g # h
  PROVE  Bystander(g)
<1>1. /\ pc \in [Handler -> Step] /\ target \in [Handler -> Vm \cup {None}]
      /\ known \in [Handler -> Table] /\ untried \in [Handler -> SUBSET License]
      /\ checked \in [Handler -> SUBSET License]
      /\ pick \in [Handler -> License \cup {None}] /\ tries \in [Handler -> Nat]
  BY DEF TypeOK
<1> USE <1>1 DEF Bystander, Goto, Set
<1>2. CASE RequestLicense(h, v)
  BY <1>2 DEF RequestLicense
<1>3. CASE ClaimAws(h) \/ ClaimAzure(h) \/ UpsertAzure(h) \/ ClaimFails(h)
  BY <1>3 DEF ClaimAws, ClaimAzure, UpsertAzure, ClaimFails, Taken, TryNext
<1>4. CASE Reuse(h) \/ CheckVms(h) \/ WriteStatus(h) \/ Relist(h)
  BY <1>4 DEF Reuse, CheckVms, WriteStatus, Relist, Pursue
<1>5. CASE Reclaim(h) \/ ReclaimFails(h)
  BY <1>5 DEF Reclaim, ReclaimFails, Taken, Retry
<1>6. CASE Load(h) \/ LoadFails(h) \/ OutOfStock(h) \/ Abort(h)
  BY <1>6 DEF Load, LoadFails, OutOfStock, Abort, Finish
<1> QED
  BY <1>2, <1>3, <1>4, <1>5, <1>6 DEF Continue

\* No license changes hands.
SameHolders ==
  \A l \in License :
    /\ usage[l] = None <=> (usage')[l] = None
    /\ usage[l] # None => (usage')[l].vm = usage[l].vm

\* The license l becomes the target's, and no other record changes.
Handed(h, l) ==
  /\ (usage')[l] # None /\ (usage')[l].vm = target[h]
  /\ \A m \in License \ {l} : (usage')[m] = usage[m]

LEMMA UseHands ==
  ASSUME usage \in Table, NEW h \in Handler, target[h] \in Vm, NEW l \in License, Use(h, l)
  PROVE  Handed(h, l)
<1>1. (usage')[l] = [vm |-> target[h], vmInSync |-> TRUE]
  BY DEF Use, Table
<1>2. (usage')[l] \in UsageRecord
  BY <1>1 DEF UsageRecord
<1>3. (usage')[l] # None
  BY <1>2, AllocationAssumption
<1> QED
  BY <1>1, <1>3 DEF Use, Table, Handed

\* Writing the status of the VMs leaves the licenses with their VMs.
LEMMA WriteKeepsHolders ==
  ASSUME TypeOK, NEW h \in Handler, WriteStatus(h)
  PROVE  SameHolders
<1>1. PICK written \in SUBSET {l \in License : Unchanged(h, l)} :
        usage' = [l \in License |->
          IF l \in written
          THEN [vm |-> known[h][l].vm, vmInSync |-> l \in checked[h]]
          ELSE usage[l]]
  BY DEF WriteStatus
<1>2. \A l \in License : Unchanged(h, l) =>
        /\ [vm |-> known[h][l].vm, vmInSync |-> l \in checked[h]] \in UsageRecord
        /\ usage[l] # None /\ usage[l].vm = known[h][l].vm
  BY DEF Unchanged, TypeOK, Table, UsageRecord
<1> SUFFICES ASSUME NEW l \in License
             PROVE  /\ usage[l] = None <=> (usage')[l] = None
                    /\ usage[l] # None => (usage')[l].vm = usage[l].vm
  BY DEF SameHolders
<1>3. CASE l \in written
  <2>1. (usage')[l] = [vm |-> known[h][l].vm, vmInSync |-> l \in checked[h]]
    BY <1>1, <1>3
  <2>2. (usage')[l] \in UsageRecord /\ usage[l] # None /\ usage[l].vm = known[h][l].vm
    BY <1>2, <1>3, <2>1
  <2> QED
    BY <2>1, <2>2, AllocationAssumption
<1>4. CASE l \notin written
  BY <1>1, <1>4
<1> QED
  BY <1>3, <1>4

\* The steps of a handler that has no license yet.
Seeking == {"claim", "upsert", "reuse", "check", "write", "relist", "reclaim"}

\* A step of a handler hands its target one license or changes no holder; and
\* where no call fails, the handler goes on to load the license it has taken.
LEMMA HolderStep ==
  ASSUME TypeOK, NEW h \in Handler, Continue(h)
  PROVE  \/ SameHolders
         \/ /\ pc[h] \in Seeking
            /\ ~conf.faults => pc'[h] = "load"
            /\ \E l \in License : Handed(h, l)
<1>0. /\ usage \in Table /\ pc \in [Handler -> Step]
      /\ pc[h] # "idle" => target[h] \in Vm
      /\ untried[h] \subseteq License
      /\ pc[h] \in {"upsert", "reclaim"} => pick[h] \in License
  BY DEF TypeOK
<1>1. CASE UNCHANGED usage
  BY <1>1 DEF SameHolders
<1>2. CASE WriteStatus(h)
  BY <1>2, WriteKeepsHolders
<1>3. CASE \/ ClaimAws(h) \/ UpsertAzure(h) \/ ClaimFails(h)
           \/ Reclaim(h) \/ ReclaimFails(h)
  <2>1. pc[h] \in {"claim", "upsert", "reclaim"}
    BY <1>3 DEF ClaimAws, UpsertAzure, ClaimFails, Reclaim, ReclaimFails
  <2>2. UNCHANGED usage \/ \E l \in License : Use(h, l)
    BY <1>0, <1>3 DEF ClaimAws, UpsertAzure, ClaimFails, Reclaim, ReclaimFails
  <2>3. ~conf.faults => UNCHANGED usage \/ pc'[h] = "load"
    BY <1>0, <1>3
       DEF ClaimAws, UpsertAzure, ClaimFails, Reclaim, ReclaimFails, Taken, Goto
  <2> QED
    BY <1>0, <1>1, <2>1, <2>2, <2>3, UseHands DEF Seeking
<1>4. CASE \/ ClaimAzure(h) \/ Reuse(h) \/ CheckVms(h) \/ Relist(h)
           \/ Load(h) \/ LoadFails(h) \/ OutOfStock(h) \/ Abort(h)
  BY <1>1, <1>4
     DEF ClaimAzure, Reuse, CheckVms, Relist, Load, LoadFails, OutOfStock, Abort
<1> QED
  BY <1>2, <1>3, <1>4 DEF Continue

\* The other steps change no record.
LEMMA OthersKeepTable ==
  ASSUME [Next]_vars, ~ \E h \in Handler : Continue(h)
  PROVE  UNCHANGED usage
BY DEF Next, vars, Environment, Terminate, RemoveFile, RestoreFile, RequestLicense

\* A license that is recorded for a VM stays recorded.
LEMMA RecordsStay ==
  ASSUME TypeOK, [Next]_vars, NEW l \in License, usage[l] # None
  PROVE  (usage')[l] # None
BY HolderStep, OthersKeepTable DEF SameHolders, Handed

Recorded == {l \in License : usage[l] # None}

LEMMA RecordedGrows ==
  ASSUME TypeOK, [Next]_vars
  PROVE  /\ Recorded \subseteq Recorded'
         /\ Cardinality(Recorded) <= Cardinality(Recorded')
         /\ Cardinality(Recorded) \in Nat /\ Cardinality(Recorded') \in Nat
<1>1. Recorded \subseteq Recorded'
  BY RecordsStay DEF Recorded
<1>2. Recorded \subseteq License /\ Recorded' \subseteq License
  BY DEF Recorded
<1>3. IsFiniteSet(Recorded) /\ IsFiniteSet(Recorded')
  BY <1>2, AllocationAssumption, FS_Subset
<1> QED
  BY <1>1, <1>3, FS_Subset, FS_CardinalityType

\* A handler that turns to the next license has tried one more.
LEMMA OneMoreTried ==
  ASSUME NEW U \in SUBSET License, NEW l \in U
  PROVE  /\ Cardinality(License \ (U \ {l})) = Cardinality(License \ U) + 1
         /\ Cardinality(License \ U) \in Nat
<1>1. License \ (U \ {l}) = (License \ U) \cup {l}
  OBVIOUS
<1>2. IsFiniteSet(License \ U)
  BY AllocationAssumption, FS_Subset, License \ U \subseteq License
<1> QED
  BY <1>1, <1>2, FS_AddElement, FS_CardinalityType

----------------------------------------------------------------------------
(* Requests served one at a time, with no fault *)

Orderly == ~conf.parallel /\ ~conf.faults

OneBusy ==
  ~conf.parallel =>
    \A g, h \in Handler : pc[g] # "idle" /\ pc[h] # "idle" => g = h

\* A VM whose request is still being served has no license.
StillWithout(h) ==
  Orderly /\ pc[h] \in Seeking =>
    \A l \in License : usage[l] # None => usage[l].vm # target[h]

\* The table in memory names the VMs that the table in the database names.
ReadIsCurrent(h) ==
  Orderly /\ pc[h] \in Seeking =>
    \A l \in License : known[h][l] # None => Unchanged(h, l)

\* Where every license has its file, a handler that looks for an unused license
\* has tried none that is, and has an attempt left for each it has not tried or
\* has met as many records as attempts are allowed. Its attempts fail only
\* because of other requests.
Tried(h) ==
  /\ License \ Recorded \subseteq untried[h]
  /\ Cardinality(License \ untried[h]) + tries[h] >= MaxCount
  /\ ~conf.parallel => untried[h] \cap Recorded = {}

\* One that takes over a license has found none unused, or has used them up.
NoneLeft ==
  \/ Recorded = License
  \/ conf.parallel /\ Cardinality(Recorded) >= MaxCount

NoneMissed(h) ==
  ~conf.editable /\ ~conf.faults =>
    /\ pc[h] = "claim" => Tried(h)
    /\ pc[h] \in Seeking \ {"claim", "upsert"} => NoneLeft

\* The inductive invariant.
SerialInv ==
  /\ TypeOK
  /\ ~conf.editable => files = License
  /\ OneBusy
  /\ OneLicensePerVm
  /\ \A h \in Handler : StillWithout(h) /\ ReadIsCurrent(h) /\ NoneMissed(h)

LEMMA ConfStays ==
  ASSUME [Next]_vars
  PROVE  UNCHANGED conf
BY DEF Next, vars, Environment, Terminate, RemoveFile, RestoreFile, RequestLicense, Continue,
       ClaimAws, ClaimAzure, UpsertAzure, ClaimFails, Reuse, CheckVms, WriteStatus,
       Relist, Reclaim, ReclaimFails, Load, LoadFails, OutOfStock, Abort

LEMMA FilesStay ==
  ASSUME ~conf.editable, files = License, [Next]_vars
  PROVE  files' = License
BY DEF Next, vars, Environment, Terminate, RemoveFile, RestoreFile, RequestLicense, Continue,
       ClaimAws, ClaimAzure, UpsertAzure, ClaimFails, Reuse, CheckVms, WriteStatus,
       Relist, Reclaim, ReclaimFails, Load, LoadFails, OutOfStock, Abort

\* A handler that takes a step is not idle.
LEMMA ActorIsBusy ==
  ASSUME NEW h \in Handler, Continue(h)
  PROVE  pc[h] # "idle"
BY DEF Continue, ClaimAws, ClaimAzure, UpsertAzure, ClaimFails, Reuse, CheckVms, WriteStatus,
       Relist, Reclaim, ReclaimFails, Load, LoadFails, OutOfStock, Abort

\* While one handler takes a step, the others stay idle.
LEMMA OthersIdle ==
  ASSUME TypeOK, OneBusy, ~conf.parallel, NEW h \in Handler, NEW v \in Vm,
         RequestLicense(h, v) \/ Continue(h), NEW g \in Handler, g # h
  PROVE  pc'[g] = "idle"
<1>1. pc[g] = "idle"
  BY ActorIsBusy DEF OneBusy, RequestLicense
<1> QED
  BY <1>1, OthersStandBy DEF Bystander

\* A handler that is still seeking sought before, for the same VM, and reads
\* the table again only in a step that does not change it.
LEMMA SeekingStep ==
  ASSUME TypeOK, NEW h \in Handler, Continue(h), pc'[h] \in Seeking
  PROVE  /\ pc[h] \in Seeking
         /\ target'[h] = target[h]
         /\ known'[h] = known[h] \/ (known'[h] = usage /\ usage' = usage)
<1>1. /\ pc \in [Handler -> Step] /\ known \in [Handler -> Table]
      /\ target \in [Handler -> Vm \cup {None}]
  BY DEF TypeOK
<1> USE <1>1 DEF Goto, Set, Seeking
<1>2. CASE ClaimAws(h) \/ ClaimAzure(h) \/ UpsertAzure(h) \/ ClaimFails(h)
  BY <1>2 DEF ClaimAws, ClaimAzure, UpsertAzure, ClaimFails, Taken, TryNext
<1>3. CASE Reuse(h) \/ CheckVms(h) \/ WriteStatus(h) \/ Relist(h)
  BY <1>3 DEF Reuse, CheckVms, WriteStatus, Relist, Pursue, Refreshed
<1>4. CASE Reclaim(h) \/ ReclaimFails(h)
  BY <1>4 DEF Reclaim, ReclaimFails, Taken, Retry
<1>5. CASE Load(h) \/ LoadFails(h) \/ OutOfStock(h) \/ Abort(h)
  BY <1>5 DEF Load, LoadFails, OutOfStock, Abort, Finish
<1> QED
  BY <1>2, <1>3, <1>4, <1>5 DEF Continue

LEMMA RequestKeepsSerial ==
  ASSUME SerialInv, NEW h \in Handler, NEW v \in Vm, RequestLicense(h, v)
  PROVE  (StillWithout(h) /\ ReadIsCurrent(h) /\ NoneMissed(h))'
<1>1. /\ pc \in [Handler -> Step] /\ known \in [Handler -> Table] /\ usage \in Table
      /\ target \in [Handler -> Vm \cup {None}] /\ untried \in [Handler -> SUBSET License]
      /\ tries \in [Handler -> Nat]
  BY DEF SerialInv, TypeOK
<1>2. UNCHANGED <<conf, usage>> /\ target'[h] = v
  BY <1>1 DEF RequestLicense, Set
<1> SUFFICES ASSUME pc'[h] \in Seeking
             PROVE  (StillWithout(h) /\ ReadIsCurrent(h) /\ NoneMissed(h))'
  BY DEF StillWithout, ReadIsCurrent, NoneMissed, Seeking
<1>3. /\ OwnRecords(v) = {}
      /\ known'[h] = WithFile(usage) /\ untried'[h] = Unused
      /\ pc'[h] = IF Unused = {} THEN "reuse" ELSE "claim"
      /\ Unused # {} => tries'[h] = MaxCount
  BY <1>1 DEF RequestLicense, Goto, Set, Seeking
<1>4. StillWithout(h)'
  BY <1>2, <1>3 DEF StillWithout, OwnRecords
<1>5. ReadIsCurrent(h)'
  BY <1>2, <1>3 DEF ReadIsCurrent, Unchanged, WithFile
<1>6. NoneMissed(h)'
  <2> SUFFICES ASSUME ~conf.editable
               PROVE  (pc[h] = "claim" => Tried(h))' /\ (pc'[h] # "claim" => NoneLeft')
    BY <1>2 DEF NoneMissed, Seeking
  <2>1. Unused = License \ Recorded /\ Recorded' = Recorded
    BY <1>2 DEF Unused, Recorded, SerialInv
  <2>2. CASE Unused = {}
    BY <1>3, <2>1, <2>2 DEF NoneLeft, Recorded
  <2>3. CASE Unused # {}
    <3>1. Cardinality(License \ Unused) \in Nat
      BY <2>1, <2>3, OneMoreTried
    <3> QED
      BY <1>3, <2>1, <2>3, <3>1, AllocationAssumption DEF Tried
  <2> QED
    BY <2>2, <2>3
<1> QED
  BY <1>4, <1>5, <1>6

LEMMA NoneLeftStays ==
  ASSUME TypeOK, [Next]_vars, NoneLeft
  PROVE  NoneLeft'
<1>1. UNCHANGED conf /\ MaxCount \in Nat
  BY ConfStays, AllocationAssumption
<1>2. Recorded' \subseteq License
  BY DEF Recorded
<1>3. /\ Recorded \subseteq Recorded'
      /\ Cardinality(Recorded) <= Cardinality(Recorded')
      /\ Cardinality(Recorded) \in Nat /\ Cardinality(Recorded') \in Nat
  BY RecordedGrows
<1>4. CASE Recorded = License
  BY <1>2, <1>3, <1>4 DEF NoneLeft
<1>5. CASE conf.parallel /\ Cardinality(Recorded) >= MaxCount
  BY <1>1, <1>3, <1>5 DEF NoneLeft
<1> QED
  BY <1>4, <1>5 DEF NoneLeft

\* A handler that finds a license recorded turns to the next, or has used up
\* its attempts.
LEMMA NextTried ==
  ASSUME TypeOK, [Next]_vars, NEW h \in Handler, Tried(h), conf.parallel,
         NEW l \in untried[h], l \in Recorded, UNCHANGED Recorded, TryNext(h, l)
  PROVE  /\ pc'[h] = "claim" => Tried(h)'
         /\ pc'[h] \in Seeking \ {"claim", "upsert"} => NoneLeft'
<1>1. /\ pc \in [Handler -> Step] /\ untried \in [Handler -> SUBSET License]
      /\ tries \in [Handler -> Nat] /\ MaxCount \in Nat \ {0} /\ UNCHANGED conf
  BY ConfStays, AllocationAssumption DEF TypeOK
<1>2. /\ Cardinality(License \ (untried[h] \ {l})) = Cardinality(License \ untried[h]) + 1
      /\ Cardinality(License \ untried[h]) \in Nat
  BY <1>1, OneMoreTried
<1>3. Recorded \subseteq License
  BY DEF Recorded
<1>4. CASE untried[h] = {l}
  BY <1>1, <1>3, <1>4 DEF TryNext, Goto, Tried, NoneLeft
<1>5. CASE LastTry(h)
  <2>1. License \ (untried[h] \ {l}) \subseteq Recorded
    BY <1>3 DEF Tried
  <2>2. Cardinality(License \ (untried[h] \ {l})) <= Cardinality(Recorded)
    BY <1>3, <2>1, AllocationAssumption, FS_Subset
  <2>3. Cardinality(License \ untried[h]) + 1 >= MaxCount
    BY <1>5 DEF Tried, LastTry
  <2>4. Cardinality(Recorded) \in Nat
    BY <1>3, AllocationAssumption, FS_Subset, FS_CardinalityType
  <2>5. Cardinality(Recorded) >= MaxCount
    BY <1>1, <1>2, <2>2, <2>3, <2>4
  <2>6. pc'[h] = "reuse"
    BY <1>1, <1>5 DEF TryNext, Goto
  <2> QED
    BY <1>1, <2>5, <2>6 DEF NoneLeft
<1>6. CASE untried[h] # {l} /\ ~LastTry(h)
  <2>1. /\ tries'[h] = tries[h] - 1 /\ untried'[h] = untried[h] \ {l}
        /\ pc'[h] = "claim"
    BY <1>1, <1>6 DEF TryNext, Goto, Set
  <2> QED
    BY <1>1, <1>2, <2>1 DEF Tried
<1> QED
  BY <1>4, <1>5, <1>6

LEMMA ActorKeepsSerial ==
  ASSUME SerialInv, [Next]_vars, NEW h \in Handler, Continue(h)
  PROVE  (StillWithout(h) /\ ReadIsCurrent(h) /\ NoneMissed(h))'
<1>1. TypeOK /\ StillWithout(h) /\ ReadIsCurrent(h) /\ NoneMissed(h) /\ UNCHANGED conf
  BY ConfStays DEF SerialInv
<1> SUFFICES ASSUME pc'[h] \in Seeking, ~conf.faults
             PROVE  (StillWithout(h) /\ ReadIsCurrent(h) /\ NoneMissed(h))'
  BY <1>1 DEF StillWithout, ReadIsCurrent, NoneMissed, Seeking, Orderly
<1>2. /\ pc[h] \in Seeking /\ target'[h] = target[h]
      /\ known'[h] = known[h] \/ (known'[h] = usage /\ usage' = usage)
  BY <1>1, SeekingStep
<1>3. SameHolders
  BY <1>1, HolderStep DEF Seeking
<1>4. StillWithout(h)'
  BY <1>1, <1>2, <1>3 DEF StillWithout, SameHolders, Orderly
<1>5. ReadIsCurrent(h)'
  BY <1>1, <1>2, <1>3 DEF ReadIsCurrent, Unchanged, SameHolders, Orderly
<1>6. NoneMissed(h)'
  <2> SUFFICES ASSUME ~conf.editable
               PROVE  /\ pc'[h] = "claim" => Tried(h)'
                      /\ pc'[h] \in Seeking \ {"claim", "upsert"} => NoneLeft'
    BY <1>1 DEF NoneMissed
  <2>1. CASE pc[h] = "claim"
    <3>1. CASE ClaimAws(h) \/ ClaimAzure(h)
      <4>1. pc'[h] # "upsert" =>
              \E l \in untried[h] : usage[l] # None /\ UNCHANGED usage /\ TryNext(h, l)
        BY <1>1, <3>1 DEF ClaimAws, ClaimAzure, Claimable, Taken, Goto, Seeking, TypeOK
      <4>2. CASE pc'[h] = "upsert"
        BY <4>2
      <4>3. ASSUME NEW l \in untried[h], usage[l] # None, UNCHANGED usage, TryNext(h, l)
            PROVE  /\ pc'[h] = "claim" => Tried(h)'
                   /\ pc'[h] \in Seeking \ {"claim", "upsert"} => NoneLeft'
        <5>1. Tried(h) /\ l \in Recorded /\ UNCHANGED Recorded
          BY <1>1, <2>1, <4>3 DEF NoneMissed, Recorded, TypeOK
        <5>2. conf.parallel
          BY <5>1 DEF Tried
        <5> QED
          BY <1>1, <4>3, <5>1, <5>2, NextTried
      <4> QED
        BY <4>1, <4>2, <4>3
    <3> QED
      BY <2>1, <3>1
         DEF Continue, UpsertAzure, ClaimFails, Reuse, CheckVms, WriteStatus, Relist, Reclaim,
             ReclaimFails, Load, LoadFails, OutOfStock, Abort
  <2>2. CASE pc[h] = "upsert"
    BY <1>1, <2>2
       DEF Continue, ClaimAws, ClaimAzure, UpsertAzure, ClaimFails, Reuse, CheckVms,
           WriteStatus, Relist, Reclaim, ReclaimFails, Load, LoadFails, OutOfStock, Abort,
           Taken, Goto, Seeking, TypeOK
  <2>3. CASE pc[h] \notin {"claim", "upsert"}
    <3>1. pc'[h] # "claim"
      BY <1>1, <2>3
         DEF Continue, ClaimAws, ClaimAzure, UpsertAzure, ClaimFails, Reuse, CheckVms,
             WriteStatus, Relist, Reclaim, ReclaimFails, Load, LoadFails, OutOfStock, Abort,
             Taken, Retry, Finish, Pursue, Goto, Set, TypeOK
    <3> QED
      BY <1>1, <1>2, <2>3, <3>1, NoneLeftStays DEF NoneMissed
  <2> QED
    BY <2>1, <2>2, <2>3
<1> QED
  BY <1>4, <1>5, <1>6

\* What a handler has established stays true while others take their steps.
LEMMA BystanderKeepsSerial ==
  ASSUME SerialInv, [Next]_vars, NEW g \in Handler, Bystander(g),
         Orderly => pc[g] = "idle" \/ UNCHANGED usage
  PROVE  (StillWithout(g) /\ ReadIsCurrent(g) /\ NoneMissed(g))'
<1>1. TypeOK /\ StillWithout(g) /\ ReadIsCurrent(g) /\ NoneMissed(g) /\ UNCHANGED conf
  BY ConfStays DEF SerialInv
<1>2. StillWithout(g)' /\ ReadIsCurrent(g)'
  BY <1>1 DEF StillWithout, ReadIsCurrent, Unchanged, Bystander, Seeking, Orderly
<1>3. NoneMissed(g)'
  <2> SUFFICES ASSUME ~conf.editable, ~conf.faults
               PROVE  /\ pc[g] = "claim" => Tried(g)'
                      /\ pc[g] \in Seeking \ {"claim", "upsert"} => NoneLeft'
    BY <1>1 DEF NoneMissed, Bystander
  <2>1. CASE pc[g] = "claim"
    <3>1. Tried(g)
      BY <1>1, <2>1 DEF NoneMissed
    <3>2. Recorded \subseteq Recorded' /\ (~conf.parallel => Recorded' = Recorded)
      BY <1>1, <2>1, RecordedGrows DEF Orderly, Recorded
    <3> QED
      BY <1>1, <2>1, <3>1, <3>2 DEF Tried, Bystander
  <2>2. CASE pc[g] \in Seeking \ {"claim", "upsert"}
    BY <1>1, <2>2, NoneLeftStays DEF NoneMissed
  <2> QED
    BY <2>1, <2>2 DEF Seeking
<1> QED
  BY <1>2, <1>3

LEMMA SerialInvAlways == Spec => []SerialInv
<1>1. Init => SerialInv
  BY EmptyType, AllocationAssumption
     DEF Init, SerialInv, TypeOK, Step, Empty, OneBusy, OneLicensePerVm, StillWithout,
         ReadIsCurrent, NoneMissed, Seeking
<1>2. SerialInv /\ TypeOK' /\ [Next]_vars => SerialInv'
  <2> SUFFICES ASSUME SerialInv, TypeOK', [Next]_vars PROVE SerialInv'
    OBVIOUS
  <2>0. TypeOK /\ UNCHANGED conf
    BY ConfStays DEF SerialInv
  <2>1. ~conf'.editable => files' = License
    BY <2>0, FilesStay DEF SerialInv
  <2>2. ASSUME NEW h \in Handler, NEW v \in Vm, RequestLicense(h, v) \/ Continue(h)
        PROVE  SerialInv'
    <3>1. OneBusy'
      BY <2>0, <2>2, OthersIdle DEF SerialInv, OneBusy
    <3>2. OneLicensePerVm'
      <4>1. CASE SameHolders
        BY <2>0, <4>1 DEF SerialInv, OneLicensePerVm, SameHolders
      <4>2. ASSUME pc[h] \in Seeking, NEW l \in License, Handed(h, l) PROVE OneLicensePerVm'
        BY <2>0, <4>2 DEF SerialInv, OneLicensePerVm, StillWithout, Orderly, Handed
      <4>3. CASE RequestLicense(h, v)
        BY <4>1, <4>3 DEF RequestLicense, SameHolders
      <4> QED
        BY <2>0, <2>2, <4>1, <4>2, <4>3, HolderStep
    <3>3. ASSUME NEW g \in Handler PROVE (StillWithout(g) /\ ReadIsCurrent(g) /\ NoneMissed(g))'
      <4>1. CASE g = h
        BY <2>2, <4>1, RequestKeepsSerial, ActorKeepsSerial
      <4>2. CASE g # h
        <5>1. Bystander(g)
          BY <2>0, <2>2, <4>2, OthersStandBy
        <5>2. Orderly => pc[g] = "idle"
          BY <2>0, <2>2, <4>2, <5>1, OthersIdle DEF Orderly, SerialInv, Bystander
        <5> QED
          BY <5>1, <5>2, BystanderKeepsSerial
      <4> QED
        BY <4>1, <4>2
    <3> QED
      BY <2>1, <3>1, <3>2, <3>3 DEF SerialInv
  <2>3. CASE Environment \/ UNCHANGED vars
    <3>1. UNCHANGED <<usage, pc>> /\ \A g \in Handler : Bystander(g)
      BY <2>3 DEF Environment, Terminate, RemoveFile, RestoreFile, memory, vars, Bystander
    <3>2. \A g \in Handler : (StillWithout(g) /\ ReadIsCurrent(g) /\ NoneMissed(g))'
      BY <3>1, BystanderKeepsSerial
    <3> QED
      BY <2>0, <2>1, <3>1, <3>2 DEF SerialInv, OneBusy, OneLicensePerVm
  <2>4. ASSUME NEW h \in Handler, Continue(h) PROVE \E v \in Vm : TRUE
    BY <2>0, <2>4, ActorIsBusy DEF TypeOK
  <2> QED
    BY <2>2, <2>3, <2>4 DEF Next
<1> QED
  BY <1>1, <1>2, TypeCorrect, PTL DEF Spec

\* While requests are served one at a time and nothing fails, no VM uses up
\* two licenses, whatever license files come and go.
THEOREM OneLicenseEach == Spec => []OneLicensePerVm
<1>1. SerialInv => OneLicensePerVm
  BY DEF SerialInv
<1> QED
  BY <1>1, SerialInvAlways, PTL

\* A VM is sent away only when no license is left, and, where requests are
\* served one at a time, none whose VM is gone either; or when other requests
\* used up its attempts, on as many licenses that are recorded.
THEOREM OutOfStockTrue == Spec => OutOfStockIsTrue
<1> DEFINE SentAwayRightly ==
      \A h \in Handler :
        pc[h] # "outOfStock" /\ pc'[h] = "outOfStock" /\ ~conf.editable /\ ~conf.faults =>
          IF conf.parallel
          THEN \/ Unused = {}
               \/ Cardinality({l \in files : usage[l] # None}) >= MaxCount
          ELSE \A l \in files : usage[l] # None /\ usage[l].vmInSync
<1>1. SerialInv /\ [Next]_vars => SentAwayRightly
  <2> SUFFICES ASSUME SerialInv, [Next]_vars, NEW h \in Handler,
                      pc[h] # "outOfStock", pc'[h] = "outOfStock",
                      ~conf.editable, ~conf.faults, files # {}
               PROVE  /\ conf.parallel =>
                           \/ Unused = {}
                           \/ Cardinality({l \in files : usage[l] # None}) >= MaxCount
                      /\ ~conf.parallel =>
                           \A l \in files : usage[l] # None /\ usage[l].vmInSync
    BY DEF Unused
  <2>1. /\ TypeOK /\ files = License /\ ReadIsCurrent(h) /\ NoneMissed(h)
        /\ pc \in [Handler -> Step]
    BY DEF SerialInv, TypeOK
  <2>2. Continue(h)
    <3>1. ~ Bystander(h)
      BY DEF Bystander
    <3>2. ~ (Environment \/ UNCHANGED vars)
      BY <3>1 DEF Environment, Terminate, RemoveFile, RestoreFile, memory, vars, Bystander
    <3>3. \A v \in Vm : ~ RequestLicense(h, v)
      BY <2>1 DEF RequestLicense, Goto
    <3>4. \A g \in Handler : Continue(g) => \E v \in Vm : TRUE
      BY <2>1, ActorIsBusy DEF TypeOK
    <3> QED
      BY <2>1, <3>1, <3>2, <3>3, <3>4, OthersStandBy DEF Next
  <2>3. Relist(h) \/ Reclaim(h)
    BY <2>1, <2>2
       DEF Continue, ClaimAws, ClaimAzure, UpsertAzure, ClaimFails, Reuse, CheckVms,
           WriteStatus, ReclaimFails, Load, LoadFails, OutOfStock, Abort,
           Taken, TryNext, Finish, Pursue, Goto, Set, TypeOK
  <2>4. NoneLeft
    BY <2>1, <2>3 DEF NoneMissed, Seeking, Relist, Reclaim
  <2>5. CASE conf.parallel
    <3>1. Recorded = {l \in files : usage[l] # None} /\ (Recorded = License => Unused = {})
      BY <2>1 DEF Recorded, Unused
    <3> QED
      BY <2>4, <2>5, <3>1 DEF NoneLeft
  <2>6. CASE ~conf.parallel
    <3>1. \A l \in files : usage[l] # None
      BY <2>1, <2>4, <2>6 DEF NoneLeft, Recorded
    <3>2. CASE Relist(h)
      BY <2>1, <2>6, <3>1, <3>2 DEF Relist, Refreshed, OutOfSync, Pursue, Goto
    <3>3. CASE Reclaim(h)
      <4>1. Unchanged(h, pick[h])
        BY <2>1, <2>6, <3>3 DEF TypeOK, Reclaim, ReadIsCurrent, Orderly, Seeking
      <4> QED
        BY <2>1, <2>6, <3>3, <4>1 DEF Reclaim, Taken, Goto
    <3> QED
      BY <2>3, <2>6, <3>2, <3>3
  <2> QED
    BY <2>5, <2>6
<1> QED
  BY <1>1, SerialInvAlways, PTL DEF Spec, OutOfStockIsTrue

----------------------------------------------------------------------------
(* A record changes hands only when its VM is no longer running: on AWS, and  *)
(* on Azure while requests are served one at a time.                          *)

\* VMs do not come back, so that what is true of a VM that is not running
\* stays true.
GoneOrInSync(t) ==
  \A l \in License : t[l] # None /\ ~t[l].vmInSync => t[l].vm \notin running

\* What a handler is about to write of a VM it did not find running.
StatusIsTrue(h) ==
  pc[h] = "write" =>
    \A l \in License \ checked[h] : known[h][l] # None => known[h][l].vm \notin running

\* A handler takes a license over on the strength of such a record.
PursuesOutOfSync(h) ==
  pc[h] = "reclaim" => ~known[h][pick[h]].vmInSync

Owns(v, l) == usage[l] # None /\ usage[l].vm = v

\* The license that is loaded is recorded for the VM that asked for it.
LoadsOwn(h) ==
  pc[h] = "load" /\ target[h] \in running => Owns(target[h], pick[h])

LoadedIsOwn ==
  \A v \in running : loaded[v] # None => Owns(v, loaded[v])

\* Only Azure reads a record and then writes it: nothing comes in between while
\* requests are served one at a time.
UpsertsUnused(h) ==
  pc[h] = "upsert" => ~conf.parallel /\ Claimable(pick[h])

HandlerInv(h) ==
  /\ UpsertsUnused(h)
  /\ GoneOrInSync(known[h])
  /\ StatusIsTrue(h)
  /\ PursuesOutOfSync(h)
  /\ LoadsOwn(h)

\* The inductive invariant.
LicenseInv ==
  /\ TypeOK
  /\ OneBusy
  /\ conf.platform = "aws" \/ ~conf.parallel
  /\ GoneOrInSync(usage)
  /\ \A h \in Handler : HandlerInv(h)
  /\ LoadedIsOwn

\* A license keeps its VM, or that VM is not running.
Kept ==
  \A l \in License :
    usage[l] # None /\ usage[l].vm \in running => usage'[l] # None /\ usage'[l].vm = usage[l].vm

LEMMA ClaimKeeps ==
  ASSUME LicenseInv, NEW h \in Handler, NEW l \in License, Claimable(l), Use(h, l)
  PROVE  Kept
BY DEF LicenseInv, TypeOK, Table, Claimable, Use, Kept

LEMMA ReclaimKeeps ==
  ASSUME LicenseInv, NEW h \in Handler, pc[h] = "reclaim",
         Unchanged(h, pick[h]), Use(h, pick[h])
  PROVE  Kept
<1>1. pick[h] \in License /\ known[h] \in Table
  BY DEF LicenseInv, TypeOK
<1>2. known[h][pick[h]].vm \notin running
  BY <1>1 DEF LicenseInv, HandlerInv, PursuesOutOfSync, GoneOrInSync, Unchanged
<1>3. usage[pick[h]].vm \notin running
  BY <1>2 DEF Unchanged
<1> QED
  BY <1>1, <1>3 DEF LicenseInv, TypeOK, Table, Use, Kept

LEMMA WriteKeeps ==
  ASSUME LicenseInv, NEW h \in Handler, WriteStatus(h)
  PROVE  Kept
BY WriteKeepsHolders DEF LicenseInv, SameHolders, Kept

\* No step takes a license from a running VM.
LEMMA StepKeeps ==
  ASSUME LicenseInv, [Next]_vars
  PROVE  Kept
<1>1. ASSUME NEW h \in Handler, Continue(h) PROVE Kept
  <2>1. CASE ClaimAws(h) \/ UpsertAzure(h) \/ ClaimFails(h)
    <3>1. /\ pc[h] = "upsert" => pick[h] \in License /\ Claimable(pick[h])
          /\ untried[h] \subseteq License
      BY DEF LicenseInv, HandlerInv, UpsertsUnused, TypeOK
    <3>2. UNCHANGED usage \/ \E l \in License : Claimable(l) /\ Use(h, l)
      BY <2>1, <3>1 DEF ClaimAws, UpsertAzure, ClaimFails
    <3> QED
      BY <3>2, ClaimKeeps DEF Kept
  <2>2. CASE Reclaim(h) \/ ReclaimFails(h)
    BY <2>2, ReclaimKeeps DEF Reclaim, ReclaimFails, Kept
  <2>3. CASE WriteStatus(h)
    BY <2>3, WriteKeeps
  <2>4. CASE \/ ClaimAzure(h) \/ Reuse(h) \/ CheckVms(h) \/ Relist(h)
             \/ Load(h) \/ LoadFails(h) \/ OutOfStock(h) \/ Abort(h)
    <3>1. UNCHANGED usage
      BY <2>4 DEF ClaimAzure, Reuse, CheckVms, Relist, Load, LoadFails, OutOfStock, Abort
    <3> QED
      BY <3>1 DEF Kept
  <2> QED
    BY <1>1, <2>1, <2>2, <2>3, <2>4 DEF Continue
<1>2. CASE ~ \E h \in Handler : Continue(h)
  <2>1. UNCHANGED usage
    BY <1>2 DEF Next, vars, Environment, Terminate, RemoveFile, RestoreFile, RequestLicense
  <2> QED
    BY <2>1 DEF Kept
<1> QED
  BY <1>1, <1>2

\* A VM that is running after a step was running before it.
LEMMA NoneComesBack ==
  ASSUME LicenseInv, [Next]_vars
  PROVE  running' \subseteq running
BY DEF Next, vars, Environment, Terminate, RemoveFile, RestoreFile, RequestLicense, Continue,
       ClaimAws, ClaimAzure, UpsertAzure, ClaimFails, Reuse, CheckVms, WriteStatus, Relist,
       Reclaim, ReclaimFails, Load, LoadFails, OutOfStock, Abort

\* A record that is its VM's own stays so while the VM runs.
LEMMA OwnStays ==
  ASSUME LicenseInv, [Next]_vars, NEW v, NEW l \in License, Owns(v, l), v \in running'
  PROVE  Owns(v, l)'
BY StepKeeps, NoneComesBack DEF Kept, Owns

\* What a handler that stands by relies on stays true.
LEMMA BystanderKeeps ==
  ASSUME LicenseInv, [Next]_vars, NEW g \in Handler, Bystander(g),
         conf.parallel \/ pc[g] = "idle" \/ UNCHANGED usage
  PROVE  HandlerInv(g)'
<1>1. HandlerInv(g) /\ running' \subseteq running
  BY NoneComesBack DEF LicenseInv
<1>2. GoneOrInSync(known[g])' /\ StatusIsTrue(g)' /\ PursuesOutOfSync(g)'
  BY <1>1 DEF Bystander, HandlerInv, UpsertsUnused, GoneOrInSync, StatusIsTrue, PursuesOutOfSync
<1>3. LoadsOwn(g)'
  <2> SUFFICES ASSUME pc'[g] = "load", target'[g] \in running'
               PROVE  Owns(target[g], pick[g])'
    BY DEF LoadsOwn, Owns, Bystander
  <2>1. pick[g] \in License /\ Owns(target[g], pick[g])
    BY <1>1 DEF LicenseInv, TypeOK, HandlerInv, LoadsOwn, Bystander
  <2> QED
    BY <2>1, OwnStays DEF Bystander, Owns
<1>4. UpsertsUnused(g)'
  BY <1>1, ConfStays DEF Bystander, HandlerInv, UpsertsUnused, Claimable
<1> QED
  BY <1>1, <1>2, <1>3, <1>4 DEF HandlerInv

\* The handler that takes the step has read a table that is true of the VMs,
\* and loads a license only after recording it for its target.
LEMMA ActorKeeps ==
  ASSUME LicenseInv, [Next]_vars, NEW h \in Handler, NEW v \in Vm,
         RequestLicense(h, v) \/ Continue(h)
  PROVE  HandlerInv(h)'
<1>1. /\ TypeOK /\ GoneOrInSync(usage) /\ HandlerInv(h) /\ UNCHANGED conf
      /\ conf.platform = "aws" \/ ~conf.parallel
      /\ running' \subseteq running
  BY NoneComesBack, ConfStays DEF LicenseInv
<1>2. /\ pc \in [Handler -> Step] /\ target \in [Handler -> Vm \cup {None}]
      /\ known \in [Handler -> Table] /\ checked \in [Handler -> SUBSET License]
      /\ pick \in [Handler -> License \cup {None}] /\ usage \in Table
  BY <1>1 DEF TypeOK
<1>3. \A l \in License : Empty[l] = None
  BY DEF Empty
<1>4. CASE RequestLicense(h, v)
  <2>1. GoneOrInSync(WithFile(usage))
    BY <1>1 DEF GoneOrInSync, WithFile
  <2>2. running' = running /\ usage' = usage /\ pc'[h] \in {"load", "outOfStock", "reuse", "claim"}
    BY <1>2, <1>4 DEF RequestLicense, Goto
  <2>3. known'[h] = known[h] \/ known'[h] = WithFile(usage)
    BY <1>2, <1>4 DEF RequestLicense, Set
  <2>4. GoneOrInSync(known[h])'
    BY <1>1, <2>1, <2>2, <2>3 DEF GoneOrInSync, HandlerInv
  <2>5. pc'[h] = "load" => Owns(target'[h], pick'[h])
    BY <1>2, <1>4 DEF RequestLicense, Goto, Set, OwnRecords, Owns
  <2> QED
    BY <2>2, <2>4, <2>5
       DEF HandlerInv, UpsertsUnused, StatusIsTrue, PursuesOutOfSync, LoadsOwn, Owns
<1>5. CASE ClaimAws(h) \/ UpsertAzure(h) \/ ClaimFails(h) \/ Reclaim(h) \/ ReclaimFails(h)
  <2>0. untried[h] \subseteq License /\ (pc[h] \in {"upsert", "reclaim"} => pick[h] \in License)
    BY <1>1 DEF TypeOK
  <2>1. PICK l \in License :
          \/ Use(h, l) /\ Taken(h, l)
          \/ TryNext(h, l)
          \/ pc[h] = "reclaim" /\ Retry(h)
    BY <1>5, <2>0 DEF ClaimAws, UpsertAzure, ClaimFails, Reclaim, ReclaimFails
  <2>2. running' = running /\ target' = target
    BY <1>5 DEF ClaimAws, UpsertAzure, ClaimFails, Reclaim, ReclaimFails
  <2>3. CASE Use(h, l) /\ Taken(h, l)
    <3>1. pc'[h] = "load" /\ known'[h] = Empty /\ pick'[h] = l
      BY <1>2, <2>3 DEF Taken, Goto, Set
    <3>2. Owns(target[h], l)'
      <4>1. usage'[l] = [vm |-> target[h], vmInSync |-> TRUE]
        BY <1>2, <2>3 DEF Use, Table
      <4>2. pc[h] # "idle"
        BY <1>5 DEF ClaimAws, UpsertAzure, ClaimFails, Reclaim, ReclaimFails
      <4>3. usage'[l] \in UsageRecord
        BY <1>1, <4>1, <4>2 DEF TypeOK, UsageRecord
      <4>4. usage'[l] # None /\ usage'[l].vm = target'[h]
        <5>1. None \notin UsageRecord
          BY AllocationAssumption
        <5>2. usage'[l] # None
          BY <4>3, <5>1
        <5>3. usage'[l].vm = target[h]
          BY <4>1
        <5> QED
          BY <2>2, <5>2, <5>3
      <4> QED
        BY <4>4 DEF Owns
    <3> QED
      BY <1>3, <2>2, <3>1, <3>2
         DEF HandlerInv, UpsertsUnused, GoneOrInSync, StatusIsTrue, PursuesOutOfSync,
             LoadsOwn, Owns
  <2>4. CASE TryNext(h, l)
    BY <1>1, <1>2, <2>2, <2>4
       DEF TryNext, Goto, Set, HandlerInv, UpsertsUnused, GoneOrInSync, StatusIsTrue,
           PursuesOutOfSync, LoadsOwn
  <2>5. CASE pc[h] = "reclaim" /\ Retry(h)
    BY <1>1, <1>2, <1>3, <2>2, <2>5
       DEF Retry, Goto, Set, HandlerInv, UpsertsUnused, GoneOrInSync, StatusIsTrue,
           PursuesOutOfSync, LoadsOwn
  <2> QED
    BY <2>1, <2>3, <2>4, <2>5
<1>6. CASE Reuse(h) \/ Relist(h)
  <2>1. PICK t \in {known[h], usage, Empty} :
          /\ known'[h] = t
          /\ \/ pc'[h] = "reclaim" /\ pick'[h] \in OutOfSync(t)
             \/ pc'[h] \in {"check", "outOfStock"}
    BY <1>2, <1>6 DEF Reuse, Relist, Refreshed, Pursue, Goto, Set
  <2>2. running' = running
    BY <1>6 DEF Reuse, Relist
  <2>3. GoneOrInSync(t)
    BY <1>1, <1>3 DEF HandlerInv, GoneOrInSync
  <2> QED
    BY <2>1, <2>2, <2>3
       DEF HandlerInv, UpsertsUnused, GoneOrInSync, StatusIsTrue, PursuesOutOfSync,
           LoadsOwn, OutOfSync
<1>7. CASE CheckVms(h)
  BY <1>1, <1>2, <1>7
     DEF CheckVms, Goto, Set, HandlerInv, UpsertsUnused, GoneOrInSync, StatusIsTrue,
         PursuesOutOfSync, LoadsOwn
<1>8. CASE WriteStatus(h)
  BY <1>1, <1>2, <1>8
     DEF WriteStatus, Goto, HandlerInv, UpsertsUnused, GoneOrInSync, StatusIsTrue,
         PursuesOutOfSync, LoadsOwn
<1>9. CASE Load(h) \/ LoadFails(h) \/ OutOfStock(h) \/ Abort(h)
  BY <1>1, <1>2, <1>3, <1>9
     DEF Load, LoadFails, OutOfStock, Abort, Finish, Goto, Set,
         HandlerInv, UpsertsUnused, GoneOrInSync, StatusIsTrue, PursuesOutOfSync, LoadsOwn
<1>10. CASE ClaimAzure(h)
  <2>1. ~conf.parallel /\ UNCHANGED <<running, usage, target, checked>>
    BY <1>1, <1>10 DEF ClaimAzure
  <2>2. /\ UNCHANGED known
        /\ \/ pc'[h] = "upsert" /\ Claimable(pick'[h])
           \/ pc'[h] \in {"reuse", "claim"}
    BY <1>2, <1>10 DEF ClaimAzure, TryNext, Goto, Set
  <2> QED
    BY <1>1, <2>1, <2>2
       DEF HandlerInv, UpsertsUnused, Claimable, GoneOrInSync, StatusIsTrue,
           PursuesOutOfSync, LoadsOwn
<1> QED
  BY <1>4, <1>5, <1>6, <1>7, <1>8, <1>9, <1>10 DEF Continue

\* A record marked as not in sync is always that of a VM that is gone.
LEMMA TableKeeps ==
  ASSUME LicenseInv, [Next]_vars
  PROVE  GoneOrInSync(usage)'
<1>1. GoneOrInSync(usage) /\ running' \subseteq running /\ usage \in Table
  BY NoneComesBack DEF LicenseInv, TypeOK
<1>2. CASE UNCHANGED usage
  BY <1>1, <1>2 DEF GoneOrInSync
<1>3. ASSUME NEW h \in Handler, NEW l \in License, Use(h, l) PROVE GoneOrInSync(usage)'
  BY <1>1, <1>3 DEF Use, Table, GoneOrInSync
<1>4. ASSUME NEW h \in Handler, WriteStatus(h) PROVE GoneOrInSync(usage)'
  <2>1. pc[h] = "write" /\ StatusIsTrue(h)
    BY <1>4 DEF WriteStatus, LicenseInv, HandlerInv
  <2>2. PICK written \in SUBSET {l \in License : Unchanged(h, l)} :
          usage' = [l \in License |->
            IF l \in written
            THEN [vm |-> known[h][l].vm, vmInSync |-> l \in checked[h]]
            ELSE usage[l]]
    BY <1>4 DEF WriteStatus
  <2> SUFFICES ASSUME NEW l \in License, (usage')[l] # None, ~(usage')[l].vmInSync
               PROVE  (usage')[l].vm \notin running'
    BY DEF GoneOrInSync
  <2>3. CASE l \in written
    <3>1. (usage')[l] = [vm |-> known[h][l].vm, vmInSync |-> l \in checked[h]]
      BY <2>2, <2>3
    <3>2. l \notin checked[h]
      <4> DEFINE found == l \in checked[h]
      <4>1. found \in BOOLEAN /\ (usage')[l] = [vm |-> known[h][l].vm, vmInSync |-> found]
        BY <3>1
      <4> HIDE DEF found
      <4>2. ~found
        BY <4>1
      <4> QED
        BY <4>2 DEF found
    <3>3. known[h][l].vm \notin running
      BY <2>1, <2>3, <3>2 DEF StatusIsTrue, Unchanged
    <3> QED
      BY <1>1, <3>1, <3>3
  <2>4. CASE l \notin written
    BY <1>1, <2>2, <2>4 DEF GoneOrInSync
  <2> QED
    BY <2>3, <2>4
<1>5. \/ UNCHANGED usage
      \/ \E h \in Handler : WriteStatus(h) \/ \E l \in License : Use(h, l)
  <2>1. ASSUME NEW h \in Handler, Continue(h)
        PROVE  UNCHANGED usage \/ WriteStatus(h) \/ \E l \in License : Use(h, l)
    <3>1. /\ untried[h] \subseteq License
          /\ pc[h] \in {"upsert", "reclaim"} => pick[h] \in License
      BY DEF LicenseInv, TypeOK
    <3> QED
      BY <2>1, <3>1 DEF Continue, ClaimAws, ClaimAzure, UpsertAzure, ClaimFails, Reuse,
           CheckVms, Relist, Reclaim, ReclaimFails, Load, LoadFails, OutOfStock, Abort
  <2> QED
    BY <2>1 DEF Next, vars, Environment, Terminate, RemoveFile, RestoreFile, RequestLicense
<1> QED
  BY <1>2, <1>3, <1>4, <1>5

\* Only Terminate and Load change what a VM has loaded.
LEMMA LoadedKeeps ==
  ASSUME LicenseInv, [Next]_vars
  PROVE  LoadedIsOwn'
<1>1. /\ LoadedIsOwn /\ running' \subseteq running
      /\ running \subseteq Vm /\ loaded \in [Vm -> License \cup {None}]
  BY NoneComesBack DEF LicenseInv, TypeOK
<1> SUFFICES ASSUME NEW v \in running', loaded'[v] # None PROVE Owns(v, loaded[v])'
  BY DEF LoadedIsOwn, Owns
<1>2. \/ loaded'[v] = loaded[v]
      \/ \E h \in Handler : pc[h] = "load" /\ target[h] = v /\ loaded'[v] = pick[h]
  <2>1. ASSUME NEW h \in Handler, Load(h)
        PROVE  loaded'[v] = loaded[v] \/ (target[h] = v /\ loaded'[v] = pick[h])
    BY <1>1, <2>1 DEF Load, Set
  <2>2. ASSUME NEW w \in Vm, Terminate(w) PROVE loaded'[v] = loaded[v]
    BY <1>1, <2>2 DEF Terminate
  <2>3. \/ UNCHANGED loaded
        \/ \E w \in Vm : Terminate(w)
        \/ \E h \in Handler : pc[h] = "load" /\ Load(h)
    BY DEF Next, vars, Environment, RemoveFile, RestoreFile, RequestLicense, Continue,
           ClaimAws, ClaimAzure, UpsertAzure, ClaimFails, Reuse, CheckVms, WriteStatus,
           Relist, Reclaim, ReclaimFails, Load, LoadFails, OutOfStock, Abort
  <2> QED
    BY <2>1, <2>2, <2>3
<1>3. PICK l \in License : l = loaded'[v] /\ Owns(v, l)
  <2>1. CASE loaded'[v] = loaded[v]
    BY <1>1, <2>1 DEF LoadedIsOwn
  <2>2. ASSUME NEW h \in Handler, pc[h] = "load", target[h] = v, loaded'[v] = pick[h]
        PROVE  pick[h] \in License /\ Owns(v, pick[h])
    BY <1>1, <2>2 DEF LicenseInv, TypeOK, HandlerInv, LoadsOwn
  <2> QED
    BY <1>2, <2>1, <2>2
<1> QED
  BY <1>3, OwnStays DEF Owns

LEMMA LicenseInvAlways ==
  ASSUME \A s \in Settings : s.platform = "aws" \/ ~s.parallel
  PROVE  Spec => []LicenseInv
<1>1. Init => LicenseInv
  BY EmptyType, AllocationAssumption
     DEF Init, LicenseInv, OneBusy, TypeOK, Step, Empty, GoneOrInSync, HandlerInv,
         UpsertsUnused, StatusIsTrue, PursuesOutOfSync, LoadsOwn, LoadedIsOwn
<1>2. LicenseInv /\ SerialInv' /\ [Next]_vars => LicenseInv'
  <2> SUFFICES ASSUME LicenseInv, SerialInv', [Next]_vars PROVE LicenseInv'
    OBVIOUS
  <2>1. TypeOK /\ OneBusy /\ UNCHANGED conf
    BY ConfStays DEF LicenseInv
  <2>2. ASSUME NEW g \in Handler PROVE HandlerInv(g)'
    <3>1. ASSUME NEW h \in Handler, NEW v \in Vm, RequestLicense(h, v) \/ Continue(h)
          PROVE  HandlerInv(g)'
      <4>1. CASE g = h
        BY <3>1, <4>1, ActorKeeps
      <4>2. CASE g # h
        <5>1. Bystander(g)
          BY <2>1, <3>1, <4>2, OthersStandBy
        <5>2. conf.parallel \/ pc[g] = "idle"
          BY <2>1, <3>1, <4>2, <5>1, OthersIdle DEF Bystander
        <5> QED
          BY <5>1, <5>2, BystanderKeeps
      <4> QED
        BY <4>1, <4>2
    <3>2. CASE Environment \/ UNCHANGED vars
      <4>1. Bystander(g) /\ UNCHANGED usage
        BY <3>2 DEF Environment, Terminate, RemoveFile, RestoreFile, memory, vars, Bystander
      <4> QED
        BY <4>1, BystanderKeeps
    <3>3. ASSUME NEW h \in Handler, Continue(h) PROVE \E v \in Vm : TRUE
      BY <2>1, <3>3, ActorIsBusy DEF TypeOK
    <3> QED
      BY <3>1, <3>2, <3>3 DEF Next
  <2>3. GoneOrInSync(usage)' /\ LoadedIsOwn'
    BY TableKeeps, LoadedKeeps
  <2> QED
    BY <2>1, <2>2, <2>3 DEF LicenseInv, SerialInv
<1> QED
  BY <1>1, <1>2, SerialInvAlways, PTL DEF Spec

\* Two running VMs never work with one license, whatever files come and go and
\* whatever fails: on AWS whatever requests overlap, on Azure while they are
\* served one at a time.
THEOREM NoLicenseShared ==
  ASSUME \A s \in Settings : s.platform = "aws" \/ ~s.parallel
  PROVE  Spec => []NoSharedLicense
<1>1. LicenseInv => NoSharedLicense
  BY DEF LicenseInv, LoadedIsOwn, Owns, NoSharedLicense
<1> QED
  BY <1>1, LicenseInvAlways, PTL

----------------------------------------------------------------------------
(* The refinement *)

\* A license that is assigned had no VM, or one that is gone.
LEMMA UseAssigns ==
  ASSUME LicenseInv, NEW h \in Handler, NEW l \in License, Use(h, l), target[h] \in Vm,
         Claimable(l) \/ (usage[l] # None /\ usage[l].vm \notin running)
  PROVE  holder[l] \notin running /\ holder' = [holder EXCEPT ![l] = target[h]]
<1>1. usage \in Table /\ running \subseteq Vm
  BY DEF LicenseInv, TypeOK
<1>2. holder[l] \notin running
  BY <1>1, AllocationAssumption DEF holder, Claimable
<1>3. ASSUME NEW m \in License PROVE holder'[m] = [holder EXCEPT ![l] = target[h]][m]
  <2>1. CASE m = l
    <3>1. (usage')[l] = [vm |-> target[h], vmInSync |-> TRUE]
      BY <1>1 DEF Use, Table
    <3>2. (usage')[l] \in UsageRecord
      BY <3>1 DEF UsageRecord
    <3>3. (usage')[l] # None
      BY <3>2, AllocationAssumption
    <3> QED
      BY <2>1, <3>1, <3>3 DEF holder
  <2>2. CASE m # l
    BY <1>1, <2>2 DEF Use, Table, holder
  <2> QED
    BY <2>1, <2>2
<1> QED
  BY <1>2, <1>3 DEF holder

\* LicenseAllocation implements LicensePool, in the same settings: every step is an
\* assignment of a license nobody running has, the loading of one's own, the
\* end of a VM, or none of these.
THEOREM PoolImplemented ==
  ASSUME \A s \in Settings : s.platform = "aws" \/ ~s.parallel
  PROVE  Spec => ImplementsPool
<1>1. Init => Pool!Init
  BY DEF Init, Pool!Init, holder, Empty
<1>2. LicenseInv /\ [Next]_vars => [Pool!Next]_Pool!vars
  <2> SUFFICES ASSUME LicenseInv, [Next]_vars PROVE [Pool!Next]_Pool!vars
    OBVIOUS
  <2>1. ASSUME NEW h \in Handler, NEW l \in License, Use(h, l), target[h] \in Vm,
               Claimable(l) \/ (usage[l] # None /\ usage[l].vm \notin running),
               UNCHANGED <<running, loaded>>
        PROVE  Pool!Next
    BY <2>1, UseAssigns DEF Pool!Next, Pool!Assign
  <2>2. ASSUME NEW h \in Handler, Continue(h) PROVE [Pool!Next]_Pool!vars
    <3>0. /\ pc[h] = "upsert" => pick[h] \in License /\ Claimable(pick[h])
          /\ pc[h] # "idle" => target[h] \in Vm
          /\ untried[h] \subseteq License
          /\ pc[h] \in {"reclaim", "load"} => pick[h] \in License
          /\ known[h] \in Table
      BY DEF LicenseInv, HandlerInv, UpsertsUnused, TypeOK
    <3>1. CASE ClaimAws(h) \/ UpsertAzure(h) \/ ClaimFails(h)
      <4>1. \/ UNCHANGED usage
            \/ \E l \in License : Claimable(l) /\ Use(h, l)
        BY <3>0, <3>1 DEF ClaimAws, UpsertAzure, ClaimFails
      <4>2. UNCHANGED <<running, loaded>> /\ pc[h] # "idle"
        BY <3>1 DEF ClaimAws, UpsertAzure, ClaimFails
      <4> QED
        BY <2>1, <3>0, <4>1, <4>2 DEF Pool!vars, holder
    <3>2. CASE Reclaim(h) \/ ReclaimFails(h)
      <4>1. /\ pc[h] = "reclaim" /\ UNCHANGED <<running, loaded>>
            /\ UNCHANGED usage \/ (Unchanged(h, pick[h]) /\ Use(h, pick[h]))
        BY <3>2 DEF Reclaim, ReclaimFails
      <4>2. CASE UNCHANGED usage
        BY <4>1, <4>2 DEF Pool!vars, holder
      <4>3. CASE Unchanged(h, pick[h]) /\ Use(h, pick[h])
        <5>1. usage[pick[h]] # None /\ usage[pick[h]].vm \notin running
          BY <3>0, <4>1, <4>3
             DEF Unchanged, LicenseInv, HandlerInv, PursuesOutOfSync, GoneOrInSync
        <5> QED
          BY <2>1, <3>0, <4>1, <4>3, <5>1
      <4> QED
        BY <4>1, <4>2, <4>3
    <3>3. CASE WriteStatus(h)
      <4>1. PICK written \in SUBSET {l \in License : Unchanged(h, l)} :
              usage' = [l \in License |->
                IF l \in written
                THEN [vm |-> known[h][l].vm, vmInSync |-> l \in checked[h]]
                ELSE usage[l]]
        BY <3>3 DEF WriteStatus
      <4>2. ASSUME NEW l \in License PROVE holder'[l] = holder[l]
        <5>1. CASE l \in written
          <6>1. (usage')[l] = [vm |-> known[h][l].vm, vmInSync |-> l \in checked[h]]
            BY <4>1, <5>1
          <6>2. usage[l] # None /\ usage[l].vm = known[h][l].vm /\ (usage')[l] \in UsageRecord
            BY <3>0, <5>1, <6>1 DEF Unchanged, Table, UsageRecord
          <6>3. (usage')[l] # None
            BY <6>2, AllocationAssumption
          <6> QED
            BY <6>1, <6>2, <6>3 DEF holder
        <5>2. CASE l \notin written
          BY <4>1, <5>2 DEF holder
        <5> QED
          BY <5>1, <5>2
      <4>3. holder' = holder
        BY <4>2 DEF holder
      <4> QED
        BY <3>3, <4>3 DEF WriteStatus, Pool!vars
    <3>4. CASE Load(h)
      <4>1. CASE target[h] \in running
        <5>1. holder[pick[h]] = target[h]
          BY <3>0, <3>4, <4>1 DEF Load, LicenseInv, HandlerInv, LoadsOwn, Owns, holder
        <5>2. Pool!Provide(pick[h], target[h])
          BY <3>4, <4>1, <5>1 DEF Load, Set, Pool!Provide, holder
        <5> QED
          BY <3>0, <3>4, <5>2 DEF Load, Pool!Next
      <4>2. CASE target[h] \notin running
        BY <3>4, <4>2 DEF Load, Pool!vars, holder
      <4> QED
        BY <4>1, <4>2
    <3>5. CASE \/ ClaimAzure(h) \/ Reuse(h) \/ CheckVms(h) \/ Relist(h)
               \/ LoadFails(h) \/ OutOfStock(h) \/ Abort(h)
      <4>1. UNCHANGED <<running, usage, loaded>>
        BY <3>5 DEF ClaimAzure, Reuse, CheckVms, Relist, LoadFails, OutOfStock, Abort
      <4> QED
        BY <4>1 DEF Pool!vars, holder
    <3> QED
      BY <2>2, <3>1, <3>2, <3>3, <3>4, <3>5 DEF Continue
  <2>3. ASSUME NEW v \in Vm, Terminate(v) PROVE Pool!Next
    BY <2>3 DEF Terminate, Pool!Next, Pool!Retire, holder
  <2>4. CASE \/ \E l \in License : RemoveFile(l) \/ RestoreFile(l)
             \/ \E h \in Handler, v \in Vm : RequestLicense(h, v)
             \/ UNCHANGED vars
    BY <2>4 DEF RemoveFile, RestoreFile, RequestLicense, vars, Pool!vars, holder
  <2> QED
    BY <2>2, <2>3, <2>4 DEF Next, Environment
<1> QED
  BY <1>1, <1>2, LicenseInvAlways, PTL DEF Spec, ImplementsPool, Pool!Spec

====
