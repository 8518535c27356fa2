---- MODULE LicensePool ----
(***************************************************************************)
(* What license assignment promises, with no handlers, tables or retries:  *)
(* a license belongs to one VM, passes to another only once that VM is no  *)
(* longer running, and a VM only gets the content of a license that is     *)
(* its own. LicenseAllocation implements it on AWS.                        *)
(***************************************************************************)
CONSTANTS Vm, License, None

VARIABLES
  running,  \* the VMs in service
  holder,   \* the VM each license belongs to
  loaded    \* the license each running VM works with

vars == <<running, holder, loaded>>

Init ==
  /\ running = Vm
  /\ holder = [l \in License |-> None]
  /\ loaded = [v \in Vm |-> None]

Assign(l, v) ==
  /\ holder[l] \notin running
  /\ holder' = [holder EXCEPT ![l] = v]
  /\ UNCHANGED <<running, loaded>>

Provide(l, v) ==
  /\ v \in running
  /\ holder[l] = v
  /\ loaded' = [loaded EXCEPT ![v] = l]
  /\ UNCHANGED <<running, holder>>

Retire(v) ==
  /\ v \in running
  /\ running' = running \ {v}
  /\ loaded' = [loaded EXCEPT ![v] = None]
  /\ UNCHANGED holder

Next ==
  \/ \E l \in License, v \in Vm : Assign(l, v) \/ Provide(l, v)
  \/ \E v \in Vm : Retire(v)

Spec == Init /\ [][Next]_vars

====
