---- MODULE MCPrimaryElection ----
(***************************************************************************)
(* Deployments and symmetry for the runs of PrimaryElection.               *)
(***************************************************************************)
EXTENDS PrimaryElection, TLC

Of(platforms, terminate, timed) ==
  [platform : platforms, terminateUnhealthyVm : terminate, timed : timed]

\* Every two settings meet in one of these.
EveryPairOfSettings ==
  Of({"aws"}, {TRUE}, {TRUE}) \cup Of({"aws"}, {FALSE}, {FALSE})
    \cup Of({"azure"}, {TRUE}, {FALSE}) \cup Of({"azure"}, {FALSE}, {TRUE})

AwsTimed == Of({"aws"}, {TRUE}, {TRUE})

OverlapSymmetry == Permutations(Vm) \cup Permutations(Handler)

\* All but route and tagged, on which no step depends.
WithoutRouteAndTags ==
  <<conf, vmState, condition, records, pc, target, healthy, primary, held, elected>>

====
