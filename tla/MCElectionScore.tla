---- MODULE MCElectionScore ----
(***************************************************************************)
(* Instances of ElectionScore for TLC.                                     *)
(***************************************************************************)
EXTENDS ElectionScore, TLC

\* Two send times for a VM that has not synced, the only case they matter in;
\* and one VM that is no candidate but would win if it were.
RecordsThatMatter ==
  {r \in HealthCheckRecord : r.candidate /\ (r.deviceSyncTime # None => r.sendTime = 1)}
    \cup {r \in HealthCheckRecord :
            ~r.candidate /\ r.deviceIsPrimary /\ r.deviceSyncTime = 2 /\ r.sendTime = 1
              /\ r.deviceChecksum # None}

Checksums == Permutations(Checksum)
====
