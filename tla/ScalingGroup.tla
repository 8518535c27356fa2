---- MODULE ScalingGroup ----
(***************************************************************************)
(* The auto scaling group of AWS as the code in src/ uses it, and the      *)
(* function instances (handlers) that its notifications start.             *)
(*                                                                         *)
(* The group holds a VM that launches, or that terminates, until a handler *)
(* completes the lifecycle hook (completeLifecycleAction) or the hook      *)
(* times out, and sends a notification for each change. VmLifecycle has    *)
(* the handlers; NicAttachment and VpnAttachment the resources that they   *)
(* give to a VM and take back.                                             *)
(***************************************************************************)
EXTENDS Naturals, FiniteSets

CONSTANTS
  Vm,           \* ids of the virtual machines
  Handler,      \* function instances that may run at the same time
  Deployments,  \* the deployments considered, a subset of Deployment
  MaxFaults,    \* bound: faults in a behaviour
  None          \* JavaScript null: no record, no VM, no item

\* What may go wrong: a call to the platform fails, a notification is delivered
\* twice, a hook times out, a function instance is stopped halfway.
Fault == {"call", "twice", "timeout", "crash"}

\* attachment: what handleLaunchingVm attaches to a VM. overlap: requests run
\* at the same time, in any order.
Deployment ==
  [attachment : {"nic", "vpn"}, overlap : BOOLEAN, faults : SUBSET Fault]

Hook == {"launching", "terminating"}
Phase == {"none", "launching", "inService", "terminating", "gone"}
Event == {"launching", "launched", "notLaunched", "terminating", "terminated"}

ASSUME GroupAssumption ==
  /\ Deployments \subseteq Deployment
  /\ MaxFaults \in Nat
  /\ None \notin Vm \cup Phase

VARIABLES
  conf,     \* the deployment: fixed in a behaviour
  phase,    \* where each VM is in the scaling group
  events,   \* the notifications about each VM that are not yet delivered
  service,  \* the stack: running, being stopped, stopped
  faults,   \* faults that may still happen
  pc,       \* where each handler is
  target,   \* env.targetVm of each handler
  memo      \* the lifecycle item a handler has read, by its hook

groupVars == <<conf, phase, events, service, faults>>
localVars == <<pc, target, memo>>

GroupInit ==
  /\ conf \in Deployments
  /\ phase = [v \in Vm |-> "none"]
  /\ events = [v \in Vm |-> {}]
  /\ service = "running"
  /\ faults = MaxFaults
  /\ pc = [h \in Handler |-> "idle"]
  /\ target = [h \in Handler |-> None]
  /\ memo = [h \in Handler |-> None]

GroupTypeOK(Step) ==
  /\ conf \in Deployments
  /\ phase \in [Vm -> Phase]
  /\ events \in [Vm -> SUBSET Event]
  /\ service \in {"running", "stopping", "stopped"}
  /\ faults \in 0..MaxFaults
  /\ pc \in [Handler -> Step]
  /\ target \in [Handler -> Vm \cup {None}]
  /\ memo \in [Handler -> Hook \cup {None}]
  /\ \A h \in Handler : pc[h] # "idle" => target[h] \in Vm

----------------------------------------------------------------------------
(* Faults, and the steps of a handler *)

\* A fault of that kind happens now.
Suffer(kind) ==
  /\ kind \in conf.faults
  /\ faults > 0
  /\ faults' = faults - 1

Fine == UNCHANGED faults

Goto(h, step) == pc' = [pc EXCEPT ![h] = step]

\* The handler returns, or throws: handleAutoscaleRequest catches every error
\* and answers, so that a failed request is not sent again.
Finish(h) ==
  /\ pc' = [pc EXCEPT ![h] = "idle"]
  /\ target' = [target EXCEPT ![h] = None]
  /\ memo' = [memo EXCEPT ![h] = None]

\* A function instance is free to take a request.
Free(h) ==
  /\ pc[h] = "idle"
  /\ conf.overlap \/ \A g \in Handler : pc[g] = "idle"

Serving(v) == {h \in Handler : pc[h] # "idle" /\ target[h] = v}

----------------------------------------------------------------------------
(* The scaling group *)

\* What the group announces when a VM leaves one phase for another.
Announced(from, to) ==
  CASE to = "launching" -> {"launching"}
    [] to = "inService" -> {"launched"}
    [] to = "terminating" /\ from = "launching" -> {"notLaunched", "terminating"}
    [] to = "terminating" /\ from # "launching" -> {"terminating"}
    [] to = "gone" -> {"terminated"}

Enter(v, p) ==
  /\ phase' = [phase EXCEPT ![v] = p]
  /\ events' = [events EXCEPT ![v] = @ \cup Announced(phase[v], p)]

\* completeLifecycleAction succeeds for a hook the group is waiting on.
Outstanding(v, hook) == phase[v] = hook

\* A completed launch goes on to service, an abandoned one to termination. A
\* terminating VM is gone either way.
Completed(hook, success) ==
  CASE hook = "launching" /\ success -> "inService"
    [] hook = "launching" /\ ~success -> "terminating"
    [] hook = "terminating" -> "gone"

\* AwsPlatformAdapter.completeLifecycleAction, with the token of that hook:
\* the call is accepted...
Complete(v, hook, success) ==
  /\ Outstanding(v, hook)
  /\ Enter(v, Completed(hook, success))
  /\ Fine

\* ... or refused: the hook is not outstanding, or the call fails.
Refused(v, hook) ==
  /\ IF Outstanding(v, hook) THEN Suffer("call") ELSE Fine
  /\ UNCHANGED <<phase, events>>

ScaleOut(v) ==
  /\ service = "running"
  /\ phase[v] = "none"
  /\ Enter(v, "launching")
  /\ UNCHANGED <<conf, service, faults, localVars>>

\* A scale-in, the replacement of an unhealthy VM, or the stop of the group.
ScaleIn(v) ==
  /\ phase[v] = "inService"
  /\ Enter(v, "terminating")
  /\ UNCHANGED <<conf, service, faults, localVars>>

\* A lifecycle hook times out: its default result is to abandon.
HookTimeout(v) ==
  /\ phase[v] \in Hook
  /\ Enter(v, Completed(phase[v], FALSE))
  /\ Suffer("timeout")
  /\ UNCHANGED <<conf, service, localVars>>

\* stopScalingGroup sets the size of the groups to 0...
StopScalingGroup ==
  /\ service = "running"
  /\ service' = "stopping"
  /\ UNCHANGED <<conf, phase, events, faults, localVars>>

\* ... and waits until checkScalingGroupState finds them stopped: no VM is
\* left, or one of those still listed is terminated.
GroupStopped ==
  /\ service = "stopping"
  /\ \/ \A v \in Vm : phase[v] \in {"none", "gone"}
     \/ \E v \in Vm : phase[v] = "gone"
====
