---- MODULE MCVmLifecycle ----
(***************************************************************************)
(* The deployments that the runs of VmLifecycle consider.                  *)
(***************************************************************************)
EXTENDS VmLifecycle, TLC

On(attachments, overlap, faultSets) ==
  [attachment : attachments, overlap : {overlap}, faults : faultSets]

\* One request at a time: each kind of fault alone and with others.
SerialDeployments ==
  On({"nic", "vpn"}, FALSE, {{"twice"}, {"twice", "timeout"}, Fault \ {"crash"}, Fault})

\* Requests at the same time, with every kind of fault.
OverlapDeployments == On({"nic", "vpn"}, TRUE, {Fault})

HandlerSymmetry == Permutations(Handler)
====
