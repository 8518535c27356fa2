---- MODULE MCHeartbeatSync ----
(***************************************************************************)
(* Deployments and symmetry for the runs of HeartbeatSync.                 *)
(***************************************************************************)
EXTENDS HeartbeatSync, TLC

On(platforms, terminate) ==
  [platform : platforms, terminateUnhealthyVm : terminate]

AwsKeepsUnhealthy == On({"aws"}, {FALSE})

\* Each platform and each setting meet in one of these two pairs.
AwsKeepsAzureTerminates == On({"aws"}, {FALSE}) \cup On({"azure"}, {TRUE})
AwsTerminatesAzureKeeps == On({"aws"}, {TRUE}) \cup On({"azure"}, {FALSE})

HandlerSymmetry == Permutations(Handler)

====
