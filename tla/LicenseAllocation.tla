---- MODULE LicenseAllocation ----
(***************************************************************************)
(* License assignment: Autoscale.handleLicenseAssignment and the strategy  *)
(* ReusableLicensingStrategy, with the LicenseUsage table of either        *)
(* database, on which concurrent requests of several VMs meet.             *)
(*                                                                         *)
(* Each request runs in a function instance of its own (a handler). The    *)
(* LicenseStock table is rewritten from the license files at the start of  *)
(* a request and read back at once: the files stand for it.                *)
(***************************************************************************)
EXTENDS Naturals, FiniteSets

CONSTANTS
  Vm,        \* ids of the virtual machines
  License,   \* the license files of a product, by checksum
  Handler,   \* function instances that may run at the same time
  Settings,  \* the settings considered, a subset of Setting
  MaxCount,  \* WaitForMaxCount: attempts after which waitFor gives up (30)
  None       \* JavaScript null: no record, no VM, no license

\* parallel: requests overlap. editable: license files are removed and put
\* back. faults: a function may time out, and a call to the platform fail.
Setting ==
  [platform : {"aws", "azure"}, parallel : BOOLEAN, editable : BOOLEAN, faults : BOOLEAN]

\* LicenseUsageRecord. The properties that only repeat what the license is are
\* left out, and so is assignedTime: a VM never takes over its own license.
UsageRecord == [vm : Vm, vmInSync : BOOLEAN]

ASSUME AllocationAssumption ==
  /\ Settings \subseteq Setting
  /\ IsFiniteSet(License)
  /\ MaxCount \in Nat \ {0}
  /\ None \notin Vm
  /\ None \notin License
  /\ None \notin UsageRecord

VARIABLES
  conf,     \* the setting: fixed in a behaviour
  running,  \* the VMs in service
  files,    \* the license files in the storage container
  usage,    \* the LicenseUsage table: a record for each license
  loaded,   \* the license each running VM works with
  pc,       \* where each handler is
  target,   \* env.targetVm of each handler
  known,    \* usageRecords: the table as each handler has read it
  untried,  \* the rest of unusedArray
  checked,  \* the licenses whose VM a handler found running
  pick,     \* the license a handler is after
  tries     \* attempts left to claim an unused license, or to take one over

vars == <<conf, running, files, usage, loaded,
          pc, target, known, untried, checked, pick, tries>>
memory == <<known, untried, checked, pick, tries>>

Step == {"idle", "claim", "upsert", "reuse", "check", "write", "relist",
         "reclaim", "load", "outOfStock"}

Table == [License -> UsageRecord \cup {None}]

Empty == [l \in License |-> None]

TypeOK ==
  /\ conf \in Settings
  /\ running \subseteq Vm
  /\ files \subseteq License
  /\ usage \in Table
  /\ loaded \in [Vm -> License \cup {None}]
  /\ pc \in [Handler -> Step]
  /\ target \in [Handler -> Vm \cup {None}]
  /\ known \in [Handler -> Table]
  /\ untried \in [Handler -> SUBSET License]
  /\ checked \in [Handler -> SUBSET License]
  /\ pick \in [Handler -> License \cup {None}]
  /\ tries \in [Handler -> Nat]
  /\ \A h \in Handler :
       /\ pc[h] # "idle" => target[h] \in Vm
       /\ pc[h] \in {"claim", "upsert"} => untried[h] # {} /\ tries[h] > 0
       /\ pc[h] \in {"upsert", "load"} => pick[h] \in License
       /\ pc[h] = "reclaim" =>
            pick[h] \in License /\ known[h][pick[h]] # None /\ tries[h] > 0

----------------------------------------------------------------------------
(* The virtual machines and the storage container *)

Init ==
  /\ conf \in Settings
  /\ running = Vm
  /\ files = License
  /\ usage = Empty
  /\ loaded = [v \in Vm |-> None]
  /\ pc = [h \in Handler |-> "idle"]
  /\ target = [h \in Handler |-> None]
  /\ known = [h \in Handler |-> Empty]
  /\ untried = [h \in Handler |-> {}]
  /\ checked = [h \in Handler |-> {}]
  /\ pick = [h \in Handler |-> None]
  /\ tries = [h \in Handler |-> 0]

Terminate(v) ==
  /\ v \in running
  /\ running' = running \ {v}
  /\ loaded' = [loaded EXCEPT ![v] = None]
  /\ UNCHANGED <<conf, files, usage, pc, target, memory>>

RemoveFile(l) ==
  /\ conf.editable
  /\ l \in files
  /\ files' = files \ {l}
  /\ UNCHANGED <<conf, running, usage, loaded, pc, target, memory>>

RestoreFile(l) ==
  /\ l \notin files
  /\ files' = files \cup {l}
  /\ UNCHANGED <<conf, running, usage, loaded, pc, target, memory>>

----------------------------------------------------------------------------
(* A handler, one step at a time *)

Goto(h, step) == pc' = [pc EXCEPT ![h] = step]

Set(var, h, value) == [var EXCEPT ![h] = value]

\* The table as a handler is left with it after filtering by license files.
WithFile(t) == [l \in License |-> IF l \in files THEN t[l] ELSE None]

\* Mutant of OwnRecords: a VM that asks again is not recognised.
OwnRecordsIgnored(v) == {}

\* apply: "is the license in use by the same vm?"
OwnRecords(v) == {l \in License : usage[l] # None /\ usage[l].vm = v}

Unused == {l \in files : usage[l] = None}

\* A request of v: apply lists the files and the usage records, and from them
\* getAvailableLicense its unusedArray. A failure to list the files counts as
\* no file.
RequestLicense(h, v) ==
  /\ pc[h] = "idle"
  /\ v \in running
  /\ conf.parallel \/ \A g \in Handler : pc[g] = "idle"
  /\ target' = Set(target, h, v)
  /\ \/ \E l \in OwnRecords(v) :
          /\ pick' = Set(pick, h, l)
          /\ Goto(h, "load")
          /\ UNCHANGED <<known, untried, tries>>
     \/ /\ OwnRecords(v) = {}
        /\ files = {} \/ conf.faults
        /\ Goto(h, "outOfStock")
        /\ UNCHANGED <<pick, known, untried, tries>>
     \/ /\ OwnRecords(v) = {}
        /\ files # {}
        /\ known' = Set(known, h, WithFile(usage))
        /\ untried' = Set(untried, h, Unused)
        /\ IF Unused = {}
           THEN Goto(h, "reuse") /\ UNCHANGED tries
           ELSE Goto(h, "claim") /\ tries' = Set(tries, h, MaxCount)
        /\ UNCHANGED pick
  /\ UNCHANGED <<conf, running, files, usage, loaded, checked>>

\* useLicense: the license l is the target's from now on.
Use(h, l) == usage' = [usage EXCEPT ![l] = [vm |-> target[h], vmInSync |-> TRUE]]

\* The handler has its license, and goes on to load it.
Taken(h, l) ==
  /\ pick' = Set(pick, h, l)
  /\ untried' = Set(untried, h, {})
  /\ known' = Set(known, h, Empty)
  /\ tries' = Set(tries, h, 0)
  /\ Goto(h, "load")

\* Mutant of LastTry: one attempt too many.
LastTryOffByOne(h) == tries[h] = 0

LastTry(h) == tries[h] = 1

\* useLicense has failed: unusedLicenseChecker turns to the next license, if
\* there is one, and waitFor lets it.
TryNext(h, l) ==
  /\ tries' = Set(tries, h, tries[h] - 1)
  /\ IF untried[h] = {l} \/ LastTry(h)
     THEN untried' = Set(untried, h, {}) /\ Goto(h, "reuse")
     ELSE untried' = Set(untried, h, untried[h] \ {l}) /\ Goto(h, "claim")
  /\ pick' = Set(pick, h, None)
  /\ UNCHANGED known

\* Mutant of Claimable: the table is not looked at.
ClaimableAlways(l) == TRUE

\* updateLicenseUsage with no reference record: attribute_not_exists on AWS,
\* a key conflict of InsertOnly on Azure.
Claimable(l) == usage[l] = None

\* On AWS the write itself is conditional.
ClaimAws(h) ==
  /\ pc[h] = "claim"
  /\ conf.platform = "aws"
  /\ \E l \in untried[h] :
       IF Claimable(l)
       THEN Use(h, l) /\ Taken(h, l)
       ELSE UNCHANGED usage /\ TryNext(h, l)
  /\ UNCHANGED <<conf, running, files, loaded, target, checked>>

\* Azure reads the record first...
ClaimAzure(h) ==
  /\ pc[h] = "claim"
  /\ conf.platform = "azure"
  /\ \E l \in untried[h] :
       IF Claimable(l)
       THEN /\ pick' = Set(pick, h, l)
            /\ Goto(h, "upsert")
            /\ UNCHANGED <<known, untried, tries>>
       ELSE TryNext(h, l)
  /\ UNCHANGED <<conf, running, files, usage, loaded, target, checked>>

\* ... and then upserts, with no access condition.
UpsertAzure(h) ==
  /\ pc[h] = "upsert"
  /\ Use(h, pick[h])
  /\ Taken(h, pick[h])
  /\ UNCHANGED <<conf, running, files, loaded, target, checked>>

\* A call inside useLicense fails, before the write or after it: the license
\* counts as not taken.
ClaimFails(h) ==
  /\ conf.faults
  /\ \/ /\ pc[h] = "claim"
        /\ \E l \in untried[h] :
             /\ UNCHANGED usage \/ (conf.platform = "aws" /\ Claimable(l) /\ Use(h, l))
             /\ TryNext(h, l)
     \/ /\ pc[h] = "upsert"
        /\ UNCHANGED usage \/ Use(h, pick[h])
        /\ TryNext(h, pick[h])
  /\ UNCHANGED <<conf, running, files, loaded, target, checked>>

----------------------------------------------------------------------------
(* No license is unused: take over one whose VM is not in sync *)

OutOfSync(t) == {l \in License : t[l] # None /\ ~t[l].vmInSync}

Least(m, n) == IF m <= n THEN m ELSE n

\* usedLicenseEmitter and usedLicenseChecker keep to the first of the records,
\* and try as often as there are records, if waitFor lets them.
Pursue(h, t) ==
  /\ \E l \in OutOfSync(t) : pick' = Set(pick, h, l)
  /\ tries' = Set(tries, h, Least(Cardinality(OutOfSync(t)), MaxCount))
  /\ Goto(h, "reclaim")

\* listOutOfSyncRecord, on the records in memory.
Reuse(h) ==
  /\ pc[h] = "reuse"
  /\ \/ OutOfSync(known[h]) # {} /\ Pursue(h, known[h])
     \/ OutOfSync(known[h]) = {} /\ Goto(h, "check") /\ UNCHANGED <<pick, tries>>
  /\ UNCHANGED <<conf, running, files, usage, loaded, target, known, untried, checked>>

\* syncVmStatusToUsageRecords asks the platform for each VM...
CheckVms(h) ==
  /\ pc[h] = "check"
  /\ checked' = Set(checked, h,
       {l \in License : known[h][l] # None /\ known[h][l].vm \in running})
  /\ Goto(h, "write")
  /\ UNCHANGED <<conf, running, files, usage, loaded, target, known, untried, pick, tries>>

\* Mutant of Unchanged: the reference record is not compared.
UnchangedAlways(h, l) == known[h][l] # None

\* updateLicenseUsage: the record is still the one of the VM in the reference.
Unchanged(h, l) ==
  known[h][l] # None /\ usage[l] # None /\ usage[l].vm = known[h][l].vm

\* ... and writes the outcome to the records that are unchanged. A write may
\* fail, on Azure also because of a concurrent one; failures are ignored.
WriteStatus(h) ==
  LET unchanged == {l \in License : Unchanged(h, l)} IN
  /\ pc[h] = "write"
  /\ \E written \in SUBSET unchanged :
       /\ \/ written = unchanged
          \/ conf.faults
          \/ conf.platform = "azure" /\ conf.parallel
       /\ usage' = [l \in License |->
            IF l \in written
            THEN [vm |-> known[h][l].vm, vmInSync |-> l \in checked[h]]
            ELSE usage[l]]
  /\ checked' = Set(checked, h, {})
  /\ Goto(h, "relist")
  /\ UNCHANGED <<conf, running, files, loaded, target, known, untried, pick, tries>>

\* Mutant of Refreshed: the records in memory are used again.
RefreshedNot(h) == known[h]

\* The usage records listed again, with no regard to the license files.
Refreshed(h) == usage

Relist(h) ==
  /\ pc[h] = "relist"
  /\ \/ /\ OutOfSync(Refreshed(h)) # {}
        /\ known' = Set(known, h, Refreshed(h))
        /\ Pursue(h, Refreshed(h))
     \/ /\ OutOfSync(Refreshed(h)) = {}
        /\ known' = Set(known, h, Empty)
        /\ Goto(h, "outOfStock")
        /\ UNCHANGED <<pick, tries>>
  /\ UNCHANGED <<conf, running, files, usage, loaded, target, untried, checked>>

\* usedLicenseChecker after a failure.
Retry(h) ==
  /\ tries' = Set(tries, h, tries[h] - 1)
  /\ IF LastTry(h)
     THEN /\ Goto(h, "outOfStock")
          /\ known' = Set(known, h, Empty)
          /\ pick' = Set(pick, h, None)
     ELSE UNCHANGED <<pc, known, pick>>
  /\ UNCHANGED untried

\* useLicense with a reference record, conditional on both platforms.
Reclaim(h) ==
  /\ pc[h] = "reclaim"
  /\ \/ /\ Unchanged(h, pick[h])
        /\ Use(h, pick[h])
        /\ Taken(h, pick[h])
     \/ /\ ~Unchanged(h, pick[h]) \/ (conf.platform = "azure" /\ conf.parallel)
        /\ UNCHANGED usage
        /\ Retry(h)
  /\ UNCHANGED <<conf, running, files, loaded, target, checked>>

\* As ClaimFails.
ReclaimFails(h) ==
  /\ conf.faults
  /\ pc[h] = "reclaim"
  /\ UNCHANGED usage \/ (Unchanged(h, pick[h]) /\ Use(h, pick[h]))
  /\ Retry(h)
  /\ UNCHANGED <<conf, running, files, loaded, target, checked>>

----------------------------------------------------------------------------
(* The answer *)

\* The handler returns: what it held in memory is lost.
Finish(h) ==
  /\ Goto(h, "idle")
  /\ target' = Set(target, h, None)
  /\ known' = Set(known, h, Empty)
  /\ untried' = Set(untried, h, {})
  /\ checked' = Set(checked, h, {})
  /\ pick' = Set(pick, h, None)
  /\ tries' = Set(tries, h, 0)

\* loadLicenseFileContent, and the response with the content. The VM may not
\* be there any more to receive it.
Load(h) ==
  /\ pc[h] = "load"
  /\ pick[h] \in files
  /\ loaded' = IF target[h] \in running THEN Set(loaded, target[h], pick[h]) ELSE loaded
  /\ Finish(h)
  /\ UNCHANGED <<conf, running, files, usage>>

\* There is no such file, or apply fails where it catches the error.
LoadFails(h) ==
  /\ \/ pc[h] = "load" /\ (pick[h] \notin files \/ conf.faults)
     \/ pc[h] = "relist" /\ conf.faults
  /\ Goto(h, "outOfStock")
  /\ pick' = Set(pick, h, None)
  /\ known' = Set(known, h, Empty)
  /\ UNCHANGED <<conf, running, files, usage, loaded, target, untried, checked, tries>>

\* LicenseOutOfStock: a notification, and a response with no license.
OutOfStock(h) ==
  /\ pc[h] = "outOfStock"
  /\ Finish(h)
  /\ UNCHANGED <<conf, running, files, usage, loaded>>

\* A call fails where nothing in apply catches it, or the function times out.
Abort(h) ==
  /\ conf.faults
  /\ pc[h] # "idle"
  /\ Finish(h)
  /\ UNCHANGED <<conf, running, files, usage, loaded>>

----------------------------------------------------------------------------
(* The specification *)

Environment ==
  \/ \E v \in Vm : Terminate(v)
  \/ \E l \in License : RemoveFile(l) \/ RestoreFile(l)

Continue(h) ==
  \/ ClaimAws(h)
  \/ ClaimAzure(h)
  \/ UpsertAzure(h)
  \/ ClaimFails(h)
  \/ Reuse(h)
  \/ CheckVms(h)
  \/ WriteStatus(h)
  \/ Relist(h)
  \/ Reclaim(h)
  \/ ReclaimFails(h)
  \/ Load(h)
  \/ LoadFails(h)
  \/ OutOfStock(h)
  \/ Abort(h)

Next ==
  \/ Environment
  \/ \E h \in Handler, v \in Vm : RequestLicense(h, v)
  \/ \E h \in Handler : Continue(h)

Spec == Init /\ [][Next]_vars

----------------------------------------------------------------------------
(* Properties *)

\* "lock the license in order to prevent it from being picked at the same
\* time" (getAvailableLicense): two running VMs never work with one license.
NoSharedLicense ==
  \A v, w \in running : loaded[v] # None /\ loaded[v] = loaded[w] => v = w

\* A VM that asks again is given the license it has: while requests are served
\* one at a time it never uses up two ("is the license in use by the same vm?"
\* of apply).
OneLicensePerVm ==
  ~conf.parallel /\ ~conf.faults =>
    \A l, m \in License :
      usage[l] # None /\ usage[m] # None /\ usage[l].vm = usage[m].vm => l = m

\* A VM is told that "all available licenses have been allocated"
\* (handleLicenseAssignment) only when they are: each license is recorded for
\* a VM and, unless another request interfered, for one found running. Only a
\* handler whose attempts were used up by other requests may have left licenses
\* unused, having met that many that are recorded.
OutOfStockIsTrue ==
  [][\A h \in Handler :
       pc[h] # "outOfStock" /\ pc'[h] = "outOfStock" /\ ~conf.editable /\ ~conf.faults =>
         IF conf.parallel
         THEN \/ Unused = {}
              \/ Cardinality({l \in files : usage[l] # None}) >= MaxCount
         ELSE \A l \in files : usage[l] # None /\ usage[l].vmInSync]_vars

\* The holder of a license, as LicensePool sees it.
holder == [l \in License |-> IF usage[l] = None THEN None ELSE usage[l].vm]

Pool == INSTANCE LicensePool

\* No license is taken from a running VM, and no VM gets the content of a
\* license that is not recorded as its own: the conditional writes of
\* updateLicenseUsage.
ImplementsPool == Pool!Spec

====
