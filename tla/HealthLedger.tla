---- MODULE HealthLedger ----
(***************************************************************************)
(* What heartbeat synchronisation promises, with no handlers, database or  *)
(* time: how the standing of a VM follows from the verdicts on its         *)
(* heartbeats. HeartbeatSync implements it as long as no two requests of   *)
(* one VM are handled at once.                                             *)
(***************************************************************************)
EXTENDS Naturals

CONSTANTS
  Vm,
  LossLimit,     \* consecutive late heartbeats that put a VM out of sync
  RecoveryLimit  \* consecutive on-time heartbeats that bring it back

VARIABLE standing

\* "in" counts the late heartbeats in a row, "out" the on-time ones.
Standing == [state : {"absent", "in", "out"}, count : Nat]

Absent == [state |-> "absent", count |-> 0]
In(n)  == [state |-> "in", count |-> n]
Out(n) == [state |-> "out", count |-> n]

Init == standing = [v \in Vm |-> Absent]

Become(v, s) == standing' = [standing EXCEPT ![v] = s]

Register(v) == standing[v] = Absent /\ Become(v, In(0))

OnTime(v) ==
  \/ standing[v].state = "in" /\ Become(v, In(0))
  \/ /\ standing[v].state = "out"
     /\ Become(v, IF standing[v].count + 1 = RecoveryLimit THEN In(0)
                  ELSE Out(standing[v].count + 1))

LateArrival(v) ==
  \/ /\ standing[v].state = "in"
     /\ Become(v, IF standing[v].count + 1 = LossLimit THEN Out(0)
                  ELSE In(standing[v].count + 1))
  \/ standing[v].state = "out" /\ Become(v, Out(0))

Forget(v) == standing[v] # Absent /\ Become(v, Absent)

Next == \E v \in Vm : Register(v) \/ OnTime(v) \/ LateArrival(v) \/ Forget(v)

Spec == Init /\ [][Next]_standing

====
