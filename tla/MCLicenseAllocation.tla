---- MODULE MCLicenseAllocation ----
(***************************************************************************)
(* Settings and symmetry for the runs of LicenseAllocation.                *)
(***************************************************************************)
EXTENDS LicenseAllocation, TLC

Of(platforms, parallel, editable, faults) ==
  [platform : platforms, parallel : parallel, editable : editable, faults : faults]

AllButAzureInParallel ==
  Of({"aws"}, {TRUE}, {TRUE}, {TRUE}) \cup Of({"aws"}, {TRUE}, {FALSE}, {FALSE})
    \cup Of({"azure"}, {FALSE}, {FALSE}, BOOLEAN) \cup Of({"aws", "azure"}, {FALSE}, {TRUE}, {FALSE})

AzureInParallel == Of({"azure"}, {TRUE}, {FALSE}, {FALSE})

Symmetry == Permutations(Vm) \cup Permutations(License) \cup Permutations(Handler)

====
