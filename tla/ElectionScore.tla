---- MODULE ElectionScore ----
(***************************************************************************)
(* The score of WeightedScorePreferredGroupPrimaryElection: which of the   *)
(* candidates is elected, by the sync info that the devices report with    *)
(* their heartbeats.                                                       *)
(*                                                                         *)
(* The code goes over the health check records in the order in which the   *)
(* database lists them, and keeps the best so far. PrimaryElection has     *)
(* what happens with the result; there the score is a choice.              *)
(***************************************************************************)
EXTENDS Naturals, FiniteSets, SequencesExt

CONSTANTS
  Vm,        \* ids of the virtual machines, which can be compared
  Checksum,  \* checksums of a configuration
  Time,      \* instants, of a send time or a sync time
  Records,   \* the records considered, a subset of HealthCheckRecord
  None,      \* JavaScript null: no checksum, no sync time, no VM
  Pending    \* no election was held with these records

\* candidate: healthy, with no missing heartbeat, and in the preferred group.
HealthCheckRecord ==
  [candidate : BOOLEAN, deviceChecksum : Checksum \cup {None},
   deviceSyncTime : Time \cup {None}, deviceIsPrimary : BOOLEAN, sendTime : Time]

ASSUME ScoreAssumption ==
  /\ Vm \subseteq Nat /\ IsFiniteSet(Vm)
  /\ Time \subseteq Nat \ {0}
  /\ Records \subseteq HealthCheckRecord
  /\ None \notin Vm \cup Checksum \cup Time
  /\ Pending \notin Vm \cup {None}

VARIABLES
  records,  \* the health check records, by VM
  elected,  \* what an election with these records came to
  primary   \* the recorded primary

vars == <<records, elected, primary>>

Init ==
  /\ records \in [Vm -> Records]
  /\ elected = Pending
  /\ primary = None

\* Mutant: the filter by scaling group, health and heartbeats is left out.
CandidatesUnfiltered == Vm

Candidates == {v \in Vm : records[v].candidate}

TypeOK ==
  /\ records \in [Vm -> HealthCheckRecord]
  /\ elected \in Vm \cup {None, Pending}
  /\ primary \in Vm \cup {None}
  /\ primary \in Vm => records[primary].candidate

SumOf(v) == records[v].deviceChecksum
SyncOf(v) == records[v].deviceSyncTime

----------------------------------------------------------------------------
(* Loops over a list *)

\* forEach: what is carried from one element to the next, as a recursive
\* function of the position, about which theorems can be proved.
Loop(Step(_, _), start, list) ==
  LET state[i \in 0..Len(list)] == IF i = 0 THEN start ELSE Step(state[i - 1], list[i])
  IN  state[Len(list)]

\* The best value so far, from a value to exceed: the key with the largest
\* value, and whether another one has it too.
Lead(keys, value, floor) ==
  Loop(LAMBDA best, k :
         IF value[k] > best.value THEN [key |-> k, value |-> value[k], tied |-> FALSE]
         ELSE [best EXCEPT !.tied = @ \/ value[k] = best.value],
       [key |-> None, value |-> floor, tied |-> FALSE], keys)

\* The keys of a Map that has the checksums of a group, in the order in which
\* they were set.
KeysOf(list, group) ==
  Loop(LAMBDA keys, v :
         IF v \in group /\ ~Contains(keys, SumOf(v)) THEN Append(keys, SumOf(v)) ELSE keys,
       <<>>, list)

\* groupByChecksum: the VMs with one checksum, none being a checksum too.
Members(list, sum) == {v \in ToSet(list) : SumOf(v) = sum}

----------------------------------------------------------------------------
(* The weights, for the records of a list of VMs *)

Points(condition, n) == IF condition THEN n ELSE 0

HaveChecksumWeight(v) == Points(SumOf(v) # None, 1)

SharedChecksumWeight(v, list) ==
  Points(SumOf(v) # None /\ Members(list, SumOf(v)) # {v}, 2)

\* The one largest group with a checksum, of two members or more.
GroupedChecksumWeight(v, list) ==
  LET keys == KeysOf(list, ToSet(list))
      major == Lead(keys, [sum \in ToSet(keys) |-> Cardinality(Members(list, sum))], 1)
  IN  Points(~major.tied /\ major.key = SumOf(v) /\ SumOf(v) # None, 4)

\* Mutant: the earliest sync time is taken for the latest.
LatestSynctimeReversed(v, list) ==
  Points(/\ SyncOf(v) # None
         /\ \A w \in Members(list, SumOf(v)) \ {v} : SyncOf(w) # None => SyncOf(w) > SyncOf(v), 8)

\* Nobody with the same checksum has synced then or since.
LatestSynctimeWeight(v, list) ==
  Points(/\ SyncOf(v) # None
         /\ \A w \in Members(list, SumOf(v)) \ {v} : SyncOf(w) # None => SyncOf(w) < SyncOf(v), 8)

\* The checksum, or the lack of one, that alone has the latest sync time.
LateslGroupChecksumWeight(v, list) ==
  LET keys == KeysOf(list, {w \in ToSet(list) : SyncOf(w) # None})
      syncTime ==
        [sum \in ToSet(keys) |-> Max({SyncOf(w) : w \in Members(list, sum)} \ {None})]
      latest == Lead(keys, syncTime, 0)
  IN  Points(latest.value > 0 /\ ~latest.tied /\ latest.key = SumOf(v), 16)

\* Mutant: the role of a primary weighs less than the other points together.
PrimaryDeviceLight(v) == Points(records[v].deviceIsPrimary, 16)

PrimaryDeviceWeight(v) == Points(records[v].deviceIsPrimary, 64)

Score(v, list) ==
  HaveChecksumWeight(v) + SharedChecksumWeight(v, list) + GroupedChecksumWeight(v, list)
    + PrimaryDeviceWeight(v) + LateslGroupChecksumWeight(v, list) + LatestSynctimeWeight(v, list)

----------------------------------------------------------------------------
(* The election *)

\* Mutant: of two VMs with one send time the first in the list is taken.
OlderFirstListed(v, best) ==
  best = None \/ records[v].sendTime < records[best].sendTime

\* Mutant: the oldest send time so far starts from nothing to compare with.
OlderUninitialised(v, best) == best # None /\ records[v].sendTime < records[best].sendTime

\* The oldest send time; the smaller id when there are two.
Older(v, best) ==
  \/ best = None
  \/ records[v].sendTime < records[best].sendTime
  \/ records[v].sendTime = records[best].sendTime /\ v < best

Oldest(list) == Loop(LAMBDA best, v : IF Older(v, best) THEN v ELSE best, None, list)

\* In a new group, where none has synced, every checksum is another one and all
\* have the same score, the VM with the oldest send time.
FairWeight(list) ==
  IF /\ \A v \in ToSet(list) : SyncOf(v) = None
     /\ \A v \in ToSet(list) : Members(list, SumOf(v)) = {v}
     /\ \A v, w \in ToSet(list) : Score(v, list) = Score(w, list)
  THEN Oldest(list)
  ELSE None

\* Mutant: of several VMs with the highest score the first in the list is taken.
WinnerOfTied(list) ==
  LET best == Lead(list, [v \in ToSet(list) |-> Score(v, list)], 0)
  IN  IF best.value > 0 THEN best.key ELSE FairWeight(list)

\* The one highest score, which may not be 0, or else the fair weight.
Winner(list) ==
  LET best == Lead(list, [v \in ToSet(list) |-> Score(v, list)], 0)
  IN  IF best.value > 0 /\ ~best.tied THEN best.key ELSE FairWeight(list)

\* An election, by whichever handler, with the records listed in any order. With
\* no candidate it is skipped; undecided, it records no primary.
Elect ==
  /\ Candidates # {}
  /\ \E list \in SetToSeqs(Candidates) : elected' = Winner(list)
  /\ primary' = IF elected' = None THEN primary ELSE elected'
  /\ UNCHANGED records

\* A device takes its role by the answer to a heartbeat, and reports it with the
\* next.
TakeRole(v) ==
  /\ primary # None
  /\ records[v].deviceIsPrimary # (v = primary)
  /\ records' = [records EXCEPT ![v].deviceIsPrimary = (v = primary)]
  /\ elected' = Pending
  /\ UNCHANGED primary

Next == Elect \/ \E v \in Vm : TakeRole(v)

Spec == Init /\ [][Next]_vars

----------------------------------------------------------------------------
(* Properties *)

\* Two elections that see the same records come to the same result, in whatever
\* order the database lists them: handlers that elect at once do not disagree.
ElectionsAgree ==
  [][elected # Pending /\ UNCHANGED records => elected' = elected]_vars

\* While the devices take their roles one by one, an election that is held again
\* elects no other VM.
PrimaryStays == [][primary # None => primary' = primary]_vars

\* The only candidate that reports to be the primary is elected, whatever the
\* checksums and sync times of the others add up to.
SolePrimaryWins ==
  elected # Pending =>
    \A p \in Candidates :
      (\A v \in Candidates : records[v].deviceIsPrimary <=> v = p) => elected = p

\* A VM that was not the primary is not elected over one that has the same
\* configuration and synced it later.
ElectedIsUpToDate ==
  elected \in Vm /\ ~records[elected].deviceIsPrimary =>
    \A v \in Candidates :
      SumOf(v) = SumOf(elected) /\ SyncOf(v) # None =>
        SyncOf(elected) # None /\ SyncOf(elected) >= SyncOf(v)

\* A new group, in which no VM has synced or is primary and each reports a
\* checksum of its own, gets its first primary: the election is not left
\* undecided for want of a highest score.
NewGroupElects ==
  /\ elected # Pending
  /\ \A v \in Candidates :
       /\ SyncOf(v) = None /\ SumOf(v) # None /\ ~records[v].deviceIsPrimary
       /\ \A w \in Candidates \ {v} : SumOf(w) # SumOf(v)
  => elected \in Vm
====
