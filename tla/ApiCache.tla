---- MODULE ApiCache ----
(***************************************************************************)
(* How a handler on Azure looks up the VM of its request (getTargetVm).    *)
(*                                                                         *)
(* AzurePlatformAdaptee keeps the answers of Azure in the ApiRequestCache  *)
(* table: the list of the VMs of a scale set, the description of a VM and  *)
(* its network interfaces. An answer that is there is used however old it  *)
(* is, until Cosmos DB drops it.                                           *)
(***************************************************************************)
CONSTANTS
  Vm,        \* ids of the virtual machines, all of the BYOL scale set
  Handler,   \* function instances that may run at the same time
  Undefined, \* JavaScript undefined: the value of an iterator that is done
  None       \* no answer, no VM

VARIABLES
  state,      \* of each VM
  listing,    \* the cached answer of listInstances
  described,  \* the VMs whose description is cached
  pc,         \* where each handler is
  target,     \* the VM of its request
  list        \* listResult.result: the list it has got

vars == <<state, listing, described, pc, target, list>>

Step == {"idle", "readList", "callList", "saveList", "search",
         "callAgain", "saveAgain", "searchAgain",
         "describe", "callDescribe", "saveDescription", "listNics",
         "found", "absent", "typeError"}

Lists == SUBSET (Vm \cup {Undefined}) \cup {None}

TypeOK ==
  /\ state \in [Vm -> {"planned", "running", "gone"}]
  /\ listing \in Lists
  /\ described \subseteq Vm
  /\ pc \in [Handler -> Step]
  /\ target \in [Handler -> Vm \cup {None}]
  /\ list \in [Handler -> Lists]
  /\ \A h \in Handler : pc[h] # "idle" => target[h] \in Vm

Init ==
  /\ state = [v \in Vm |-> "planned"]
  /\ listing = None
  /\ described = {}
  /\ pc = [h \in Handler |-> "idle"]
  /\ target = [h \in Handler |-> None]
  /\ list = [h \in Handler |-> None]

----------------------------------------------------------------------------
(* Azure *)

Launch(v) ==
  /\ state[v] = "planned"
  /\ state' = [state EXCEPT ![v] = "running"]
  /\ UNCHANGED <<listing, described, pc, target, list>>

ScaleIn(v) ==
  /\ state[v] = "running"
  /\ state' = [state EXCEPT ![v] = "gone"]
  /\ UNCHANGED <<listing, described, pc, target, list>>

\* Cosmos DB drops items whose ttl is over.
Expire ==
  /\ \/ listing' = None /\ UNCHANGED described
     \/ \E v \in described : described' = described \ {v} /\ UNCHANGED listing
  /\ UNCHANGED <<state, pc, target, list>>

----------------------------------------------------------------------------
(* getTargetVm *)

Goto(h, step) == pc' = [pc EXCEPT ![h] = step]

\* do { result = await response.next(); ... list.push(value) } while (!result.done)
\* pushes the value of the result that is done as well. (It is null when read
\* from the cache, which makes no difference.)
Pushed(items) == items \cup {Undefined}

Heartbeat(h, v) ==
  /\ pc[h] = "idle"
  /\ state[v] = "running"
  /\ target' = [target EXCEPT ![h] = v]
  /\ Goto(h, "readList")
  /\ UNCHANGED <<state, listing, described, list>>

\* listInstances, ReadCacheFirst.
ReadList(h) ==
  /\ pc[h] = "readList"
  /\ list' = [list EXCEPT ![h] = listing]
  /\ Goto(h, IF listing = None THEN "callList" ELSE "search")
  /\ UNCHANGED <<state, listing, described, target>>

CallList(h) ==
  /\ \/ pc[h] = "callList" /\ Goto(h, "saveList")
     \/ pc[h] = "callAgain" /\ Goto(h, "saveAgain")
  /\ list' = [list EXCEPT ![h] = Pushed({v \in Vm : state[v] = "running"})]
  /\ UNCHANGED <<state, listing, described, target>>

SaveList(h) ==
  /\ \/ pc[h] = "saveList" /\ Goto(h, "search")
     \/ pc[h] = "saveAgain" /\ Goto(h, "searchAgain")
  /\ listing' = list[h]
  /\ UNCHANGED <<state, described, target, list>>

\* listResult.result.find(v => v.vmId && v.vmId === id): the VMs come first.
Find(h, missed) ==
  /\ \/ target[h] \in list[h] /\ Goto(h, "describe")
     \/ target[h] \notin list[h] /\ Undefined \in list[h] /\ Goto(h, "typeError")
     \/ target[h] \notin list[h] /\ Undefined \notin list[h] /\ Goto(h, missed)
  /\ list' = [list EXCEPT ![h] = None]
  /\ UNCHANGED <<state, listing, described, target>>

\* describeInstance looks the VM up in the list, and in one read anew.
Search(h) == pc[h] = "search" /\ Find(h, "callAgain")
SearchAgain(h) == pc[h] = "searchAgain" /\ Find(h, "absent")

DescribeInstance(h) ==
  /\ pc[h] = "describe"
  /\ Goto(h, IF target[h] \in described THEN "listNics" ELSE "callDescribe")
  /\ UNCHANGED <<state, listing, described, target, list>>

\* Azure describes a VM that exists. For another the call fails (Fail).
CallDescribe(h) ==
  /\ pc[h] = "callDescribe"
  /\ state[target[h]] = "running"
  /\ Goto(h, "saveDescription")
  /\ UNCHANGED <<state, listing, described, target, list>>

SaveDescription(h) ==
  /\ pc[h] = "saveDescription"
  /\ described' = described \cup {target[h]}
  /\ Goto(h, "listNics")
  /\ UNCHANGED <<state, listing, target, list>>

\* listNetworkInterfaces has the loop of listInstances, and mapVm maps every
\* element of its list: mapNic reads the subnet of each. The one interface
\* stands for those of the VM; whether they come from the cache makes no
\* difference.
ListNics(h) ==
  /\ pc[h] = "listNics"
  /\ Goto(h, IF Undefined \in Pushed({target[h]}) THEN "typeError" ELSE "found")
  /\ UNCHANGED <<state, listing, described, target, list>>

Finish(h) ==
  /\ Goto(h, "idle")
  /\ target' = [target EXCEPT ![h] = None]
  /\ list' = [list EXCEPT ![h] = None]
  /\ UNCHANGED <<state, listing, described>>

\* A TypeError ends the request; so does, here, an answer: what follows is the
\* matter of other modules, as is the look into the PAYG scale set.
Answer(h) == pc[h] \in {"found", "absent", "typeError"} /\ Finish(h)

\* A call to Azure or to the database fails.
Fail(h) == pc[h] # "idle" /\ Finish(h)

----------------------------------------------------------------------------
(* The specification *)

Next ==
  \/ \E v \in Vm : Launch(v) \/ ScaleIn(v)
  \/ Expire
  \/ \E h \in Handler, v \in Vm : Heartbeat(h, v)
  \/ \E h \in Handler :
       \/ ReadList(h) \/ CallList(h) \/ SaveList(h) \/ Search(h) \/ SearchAgain(h)
       \/ DescribeInstance(h) \/ CallDescribe(h) \/ SaveDescription(h) \/ ListNics(h)
       \/ Answer(h) \/ Fail(h)

Spec == Init /\ [][Next]_vars

----------------------------------------------------------------------------
(* Properties *)

\* "if vm is a new vm, it won't exist in the cache so try to read from api
\* again" (describeInstance): a VM that is not in a cached list is looked up
\* again, so that the lookup of a running VM does not end in an error while no
\* call fails.
RunningVmIsFound ==
  \A h \in Handler : pc[h] = "typeError" => state[target[h]] # "running"

====
