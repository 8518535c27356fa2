---- MODULE VmLifecycle ----
(***************************************************************************)
(* The life of a FortiGate in an auto scaling group of AWS: the handlers   *)
(* of AwsFortiGateAutoscale for its notifications and its first heartbeat, *)
(* with AwsHybridScalingGroupStrategy and the LifecycleItem table, and the *)
(* network interface or VPN that they attach and detach.                   *)
(*                                                                         *)
(* The table has one item for each VM. It holds the token of a hook, and   *)
(* is how the handler that completes the hook knows it.                    *)
(***************************************************************************)
EXTENDS NicAttachment, VpnAttachment

VARIABLES
  item,        \* the LifecycleItem table: the hook of the item of each VM
  balancer,    \* the VMs in the target group of the load balancer
  reported,    \* the VMs whose first heartbeat was handled
  registered   \* elbAttachedDone of each handler

itemVars == <<item, balancer, reported, registered>>

vars == <<groupVars, localVars, nicVars, vpnVars, itemVars>>

Step == {"idle", "register", "createLaunching", "unregister", "abandonLaunch",
         "readItem", "abandon", "launchedItem", "terminatedItem", "dropItem",
         "heartbeatItem", "completeLaunching", "outOfSync", "deregister", "existing",
         "abandonExisting", "createTerminating", "abandonTermination",
         "completeTerminating", "closeTerminating"} \cup NicStep \cup VpnStep

TypeOK ==
  /\ GroupTypeOK(Step)
  /\ NicTypeOK
  /\ VpnTypeOK
  /\ item \in [Vm -> Hook \cup {None}]
  /\ balancer \subseteq Vm
  /\ reported \subseteq Vm
  /\ registered \in [Handler -> BOOLEAN]

Init ==
  /\ GroupInit
  /\ NicInit
  /\ VpnInit
  /\ item = [v \in Vm |-> None]
  /\ balancer = {}
  /\ reported = {}
  /\ registered = [h \in Handler |-> FALSE]

----------------------------------------------------------------------------
(* Requests *)

\* Mutant: the notification of a termination taken for that of its end.
FirstStepSwapped(e) ==
  CASE e = "launching" -> "register"
    [] e \in {"launched", "notLaunched"} -> "launchedItem"
    [] e = "terminating" -> "terminatedItem"
    [] e = "terminated" -> "detach"

\* FortiGateAutoscale.handleAutoscaleRequest, by getRequestType. A launch that
\* failed is handled like one that succeeded.
FirstStep(e) ==
  CASE e = "launching" -> "register"
    [] e \in {"launched", "notLaunched"} -> "launchedItem"
    [] e = "terminating" -> "detach"
    [] e = "terminated" -> "terminatedItem"

\* The order in which the notifications about a VM are sent.
Rank(e) ==
  CASE e = "launching" -> 1
    [] e \in {"launched", "notLaunched"} -> 2
    [] e = "terminating" -> 3
    [] e = "terminated" -> 4

Begin(h, v, step) ==
  /\ Free(h)
  /\ target' = [target EXCEPT ![h] = v]
  /\ Goto(h, step)
  /\ UNCHANGED memo

\* A handler takes a notification, which may come again.
Receive(h, v, e) ==
  /\ e \in events[v]
  /\ conf.overlap \/ \A f \in events[v] : Rank(e) <= Rank(f)
  /\ Begin(h, v, FirstStep(e))
  /\ \/ events' = [events EXCEPT ![v] = @ \ {e}] /\ Fine
     \/ Suffer("twice") /\ UNCHANGED events
  /\ UNCHANGED <<conf, phase, service, nicVars, vpnVars, itemVars>>

\* A request that fails before its handler has changed anything, because the
\* VM or its lifecycle cannot be read.
Miss(v, e) ==
  /\ e \in events[v]
  /\ events' = [events EXCEPT ![v] = @ \ {e}]
  /\ Suffer("call")
  /\ UNCHANGED <<conf, phase, service, localVars, nicVars, vpnVars, itemVars>>

\* The first heartbeat of v, once apply() has saved a health check record:
\* onVmFullyConfigured. It takes a FortiGate some minutes to send one; a slow
\* launching handler may still run then, or not have started.
FirstHeartbeat(h, v) ==
  /\ phase[v] \in Hook
  /\ conf.overlap \/ "launching" \notin events[v]
  /\ v \notin reported
  /\ reported' = reported \cup {v}
  /\ Begin(h, v, "heartbeatItem")
  /\ UNCHANGED <<groupVars, nicVars, vpnVars, item, balancer, registered>>

\* A function instance stops halfway, for example at its time limit.
Crash(h) ==
  /\ pc[h] # "idle"
  /\ Finish(h)
  /\ Suffer("crash")
  /\ ReleaseNic(h)
  /\ ReleaseVpn(h)
  /\ UNCHANGED <<conf, phase, events, service, nics, tagged, nicOf, nicRecord, unused,
                 gateways, connections, tags, vpnRecord, routing, leftover, itemVars>>

----------------------------------------------------------------------------
(* handleLaunchingVm: onLaunchingVm, then the attachment *)

\* loadBalancerAttachVm: a failure is logged.
Register(h) ==
  /\ pc[h] = "register"
  /\ \/ /\ balancer' = balancer \cup {target[h]}
        /\ registered' = [registered EXCEPT ![h] = TRUE]
        /\ Fine
     \/ /\ registered' = [registered EXCEPT ![h] = FALSE]
        /\ Suffer("call") /\ UNCHANGED balancer
  /\ Goto(h, "createLaunching")
  /\ UNCHANGED <<conf, phase, events, service, target, memo, nicVars, vpnVars, item, reported>>

\* createLifecycleItem writes over an item that is there.
CreateLaunching(h) ==
  /\ pc[h] = "createLaunching"
  /\ \/ /\ item' = [item EXCEPT ![target[h]] = "launching"]
        /\ Goto(h, "readItem")
        /\ Fine
     \/ /\ Goto(h, IF registered[h] THEN "unregister" ELSE "abandonLaunch")
        /\ Suffer("call") /\ UNCHANGED item
  /\ UNCHANGED <<conf, phase, events, service, target, memo, nicVars, vpnVars,
                 balancer, reported, registered>>

\* A VM that was attached to the load balancer is detached again.
Unregister(h) ==
  /\ pc[h] = "unregister"
  /\ \/ balancer' = balancer \ {target[h]} /\ Fine
     \/ Suffer("call") /\ UNCHANGED balancer
  /\ Goto(h, "abandonLaunch")
  /\ UNCHANGED <<conf, phase, events, service, target, memo, nicVars, vpnVars,
                 item, reported, registered>>

\* completeLifecycleAction for the hook of this request. It throws either way.
AbandonLaunch(h) ==
  /\ pc[h] = "abandonLaunch"
  /\ Complete(target[h], "launching", FALSE) \/ Refused(target[h], "launching")
  /\ Finish(h)
  /\ UNCHANGED <<conf, service, nicVars, vpnVars, itemVars>>

\* getTargetVm and getLifecycleItem again. No interface is attached to a VM
\* that is terminated.
ReadItem(h) ==
  /\ pc[h] = "readItem"
  /\ \/ /\ memo' = [memo EXCEPT ![h] = item[target[h]]]
        /\ Goto(h, CASE conf.attachment = "vpn" -> "findVpn"
                     [] conf.attachment = "nic" /\ phase[target[h]] = "gone" -> "abandon"
                     [] OTHER -> "listNics")
        /\ Fine /\ UNCHANGED target
     \/ Finish(h) /\ Suffer("call")
  /\ UNCHANGED <<conf, phase, events, service, nicVars, vpnVars, itemVars>>

\* Mutant: the hook is completed as if the attachment had not failed.
AbandonAsSuccess(h) ==
  /\ pc[h] = "abandon"
  /\ \/ Complete(target[h], memo[h], TRUE)
     \/ Refused(target[h], memo[h])
  /\ Finish(h)
  /\ UNCHANGED <<conf, service, nicVars, vpnVars, itemVars>>

\* ShouldTerminateVm: the hook of the item that was read is abandoned. There
\* may have been none.
Abandon(h) ==
  /\ pc[h] = "abandon"
  /\ \/ Complete(target[h], memo[h], FALSE)
     \/ Refused(target[h], memo[h])
  /\ Finish(h)
  /\ UNCHANGED <<conf, service, nicVars, vpnVars, itemVars>>

----------------------------------------------------------------------------
(* onLaunchedVm, onTerminatedVm, completeLaunching *)

\* The item is deleted if it is in the state that is expected. Otherwise the
\* request ends with a warning or an error.
ExpectItem(h, here, hook, next) ==
  /\ pc[h] = here
  /\ \/ /\ item[target[h]] = hook
        /\ Goto(h, next)
        /\ Fine /\ UNCHANGED <<target, memo>>
     \/ /\ Finish(h)
        /\ IF item[target[h]] = hook THEN Suffer("call") ELSE Fine
  /\ UNCHANGED <<conf, phase, events, service, nicVars, vpnVars, itemVars>>

LaunchedItem(h) == ExpectItem(h, "launchedItem", "launching", "dropItem")
TerminatedItem(h) == ExpectItem(h, "terminatedItem", "terminating", "dropItem")
HeartbeatItem(h) == ExpectItem(h, "heartbeatItem", "launching", "completeLaunching")

\* deleteLifecycleItem: the item of the VM, whatever its state is by now.
DropItem(h) ==
  /\ pc[h] = "dropItem"
  /\ \/ item' = [item EXCEPT ![target[h]] = None] /\ Fine
     \/ Suffer("call") /\ UNCHANGED item
  /\ Finish(h)
  /\ UNCHANGED <<conf, phase, events, service, nicVars, vpnVars, balancer, reported, registered>>

CompleteLaunching(h) ==
  /\ pc[h] = "completeLaunching"
  /\ Complete(target[h], "launching", TRUE) \/ Refused(target[h], "launching")
  /\ Finish(h)
  /\ UNCHANGED <<conf, service, nicVars, vpnVars, itemVars>>

----------------------------------------------------------------------------
(* handleTerminatingVm: the detachment, onTerminatingVm, completeTerminating *)

\* The health check record is read, and forced out of sync if there is one
\* (HeartbeatSync has that). An error ends the request.
OutOfSync(h) ==
  /\ pc[h] = "outOfSync"
  /\ \/ Goto(h, "deregister") /\ Fine /\ UNCHANGED <<target, memo>>
     \/ Finish(h) /\ Suffer("call")
  /\ UNCHANGED <<conf, phase, events, service, nicVars, vpnVars, itemVars>>

\* loadBalancerDetachVm.
Deregister(h) ==
  /\ pc[h] = "deregister"
  /\ \/ /\ balancer' = balancer \ {target[h]}
        /\ Goto(h, "existing")
        /\ Fine
     \/ /\ Goto(h, "abandonTermination")
        /\ Suffer("call") /\ UNCHANGED balancer
  /\ UNCHANGED <<conf, phase, events, service, target, memo, nicVars, vpnVars,
                 item, reported, registered>>

\* An item left by another transition.
Existing(h) ==
  /\ pc[h] = "existing"
  /\ \/ /\ memo' = [memo EXCEPT ![h] = item[target[h]]]
        /\ Goto(h, IF item[target[h]] = None THEN "createTerminating" ELSE "abandonExisting")
        /\ Fine
     \/ /\ Goto(h, "abandonTermination")
        /\ Suffer("call") /\ UNCHANGED memo
  /\ UNCHANGED <<conf, phase, events, service, target, nicVars, vpnVars, itemVars>>

\* Its hook is abandoned. It may not exist any more: the error is caught.
AbandonExisting(h) ==
  /\ pc[h] = "abandonExisting"
  /\ Complete(target[h], memo[h], FALSE) \/ Refused(target[h], memo[h])
  /\ Goto(h, "createTerminating")
  /\ UNCHANGED <<conf, service, target, memo, nicVars, vpnVars, itemVars>>

CreateTerminating(h) ==
  /\ pc[h] = "createTerminating"
  /\ \/ /\ item' = [item EXCEPT ![target[h]] = "terminating"]
        /\ Goto(h, "completeTerminating")
        /\ Fine
     \/ /\ Goto(h, "abandonTermination")
        /\ Suffer("call") /\ UNCHANGED item
  /\ UNCHANGED <<conf, phase, events, service, target, memo, nicVars, vpnVars,
                 balancer, reported, registered>>

\* After an error the hook of this request is abandoned, and the handler goes
\* on to completeTerminating unless that fails too.
AbandonTermination(h) ==
  /\ pc[h] = "abandonTermination"
  /\ \/ /\ Complete(target[h], "terminating", FALSE)
        /\ Goto(h, "completeTerminating")
        /\ UNCHANGED <<target, memo>>
     \/ /\ Refused(target[h], "terminating")
        /\ Finish(h)
  /\ UNCHANGED <<conf, service, nicVars, vpnVars, itemVars>>

\* completeTerminating reads the item again.
CompleteTerminating(h) ==
  ExpectItem(h, "completeTerminating", "terminating", "closeTerminating")

CloseTerminating(h) ==
  /\ pc[h] = "closeTerminating"
  /\ Complete(target[h], "terminating", TRUE) \/ Refused(target[h], "terminating")
  /\ Finish(h)
  /\ UNCHANGED <<conf, service, nicVars, vpnVars, itemVars>>

----------------------------------------------------------------------------
(* The specification *)

Attach(h) ==
  \/ ListNics(h) \/ CreateNic(h) \/ TagNic(h) \/ SetAttaching(h) \/ AttachNic(h)
  \/ SetAttached(h) \/ RevertNic(h) \/ RevertRecord(h)

Detach(h) == ListAttached(h) \/ DetachNic(h) \/ DeleteNic(h) \/ DeleteNicRecord(h)

AttachVpn(h) ==
  \/ FindVpn(h) \/ CreateGateway(h) \/ CreateConnection(h) \/ RevertGateway(h)
  \/ TagVpn(h) \/ InvokeUpdate(h) \/ SaveVpn(h)

DetachVpn(h) ==
  FindAttached(h) \/ DeleteConnection(h) \/ DeleteGateway(h) \/ DeleteVpnRecord(h)

Launching(h) ==
  \/ Register(h) \/ CreateLaunching(h) \/ Unregister(h) \/ AbandonLaunch(h)
  \/ ReadItem(h) \/ Abandon(h)

Terminating(h) ==
  \/ OutOfSync(h) \/ Deregister(h) \/ Existing(h) \/ AbandonExisting(h) \/ CreateTerminating(h)
  \/ AbandonTermination(h) \/ CompleteTerminating(h) \/ CloseTerminating(h)

Concluding(h) ==
  \/ LaunchedItem(h) \/ TerminatedItem(h) \/ DropItem(h)
  \/ HeartbeatItem(h) \/ CompleteLaunching(h)

Routes(c) == UpdateRoutes(c) \/ ExtendExecution(c) \/ GiveUpRoutes(c)

Group ==
  \/ \E v \in Vm : ScaleOut(v) \/ ScaleIn(v) \/ HookTimeout(v)
  \/ StopScalingGroup

CleanUp == CleanUpNics \/ \E n \in Nic : CleanUpNic(n)
CleanUpOfVpns == CleanUpVpns \/ \E r \in Resource : CleanUpVpn(r)

HandlerStep(h) ==
  \/ Launching(h) \/ Terminating(h) \/ Concluding(h)
  \/ (Attach(h) \/ Detach(h)) /\ UNCHANGED <<vpnVars, itemVars>>
  \/ (AttachVpn(h) \/ DetachVpn(h)) /\ UNCHANGED <<nicVars, itemVars>>

Next ==
  \/ Group /\ UNCHANGED <<nicVars, vpnVars, itemVars>>
  \/ \E h \in Handler, v \in Vm :
       \/ \E e \in Event : Receive(h, v, e)
       \/ FirstHeartbeat(h, v)
  \/ \E v \in Vm, e \in Event : Miss(v, e)
  \/ \E h \in Handler : HandlerStep(h) \/ Crash(h)
  \/ CleanUp /\ UNCHANGED <<vpnVars, itemVars>>
  \/ (CleanUpOfVpns \/ \E c \in Vpn : Routes(c)) /\ UNCHANGED <<nicVars, itemVars>>

Spec == Init /\ [][Next]_vars

RunEnds(c) ==
  (ExtendExecution(c) \/ GiveUpRoutes(c)) /\ UNCHANGED <<nicVars, itemVars>>

Delivery(v) == \E h \in Handler, e \in Event : Receive(h, v, e)
Report(v) == \E h \in Handler : FirstHeartbeat(h, v)

\* The platform delivers what it announced, and a FortiGate that runs sends its
\* first heartbeat. A function instance goes on to its end; the one that waits
\* for the transit gateway ends when its time is up, if not before.
Fairness ==
  /\ \A h \in Handler : WF_vars(HandlerStep(h))
  /\ \A v \in Vm : WF_vars(Delivery(v)) /\ WF_vars(Report(v))
  /\ \A c \in Vpn : WF_vars(RunEnds(c))

FairSpec == Spec /\ Fairness

----------------------------------------------------------------------------
(* Properties *)

\* Nothing about v is on its way: no notification, no request.
Settled(v) == events[v] = {} /\ Serving(v) = {}

\* One request at a time, and no faults but these.
OnlyFaults(kinds) == ~conf.overlap /\ conf.faults \subseteq kinds

AtMostOneFault == faults >= MaxFaults - 1

\* An interface that is attached to a VM has the tags of the deployment: cleanUp
\* finds it by them once the VM is gone. Whatever fails or overlaps, attach tags
\* an interface before anything can attach it.
AttachedIsTagged == \A n \in nics : nicOf[n] # None => n \in tagged

\* A VM is in service only after its first heartbeat: neither an abandoned hook
\* nor a hook that is completed from a left-over item lets a FortiGate in that
\* has not reported its configuration.
InServiceWasConfigured == \A v \in Vm : phase[v] = "inService" => v \in reported

\* The VPN connection of a VM is recorded only when the update of its routes was
\* handed to the other function: attach returns before the routes exist, and
\* nothing looks at them again.
RecordedIsRouted ==
  \A v \in Vm : vpnRecord[v] # None => routing[vpnRecord[v]].state # "none"

\* A hook that waits does not wait for its timeout: with one request at a time
\* the handlers of the strategy complete it by themselves, also when a
\* notification comes twice, or when the hook before it timed out.
HooksAreCompleted ==
  \A v \in Vm, hook \in Hook :
    (OnlyFaults({"twice", "timeout"}) /\ phase[v] = hook) ~> (phase[v] # hook)

\* The function that waits for the transit gateway does not start itself again
\* for ever: handlePeerInvocation carries the time that was spent along.
RoutesConclude ==
  \A c \in Vpn : (routing[c].state = "waiting") ~> (routing[c].state # "waiting")

\* When the last VM is gone and everything about it was handled, nothing of it
\* is left: no lifecycle item, load balancer target, interface, gateway or
\* record. A VPN needs the hooks to hold the VM: its record is found by the
\* public address.
LeavesNoTrace ==
  /\ OnlyFaults(IF conf.attachment = "nic" THEN {"twice", "timeout"} ELSE {"twice"})
  /\ service # "stopped"
  /\ \A v \in Vm : phase[v] \in {"none", "gone"} /\ Settled(v)
  =>
  /\ \A v \in Vm : item[v] = None /\ nicRecord[v] = None /\ vpnRecord[v] = None
  /\ balancer = {}
  /\ nics = {}
  /\ gateways = {}

\* A VM in service has the interface, or the VPN connection, that its record
\* names, when no call fails: handleLaunchingVm and the heartbeat that completes
\* the hook do not know of each other.
InServiceIsAttached ==
  /\ OnlyFaults({"twice", "timeout"})
  /\ service = "running"
  =>
  \A v \in Vm :
    phase[v] = "inService" /\ Serving(v) = {} =>
      IF conf.attachment = "nic"
      THEN nicRecord[v] # None /\ nicOf[nicRecord[v].nic] = v
      ELSE vpnRecord[v] \in connections

\* One failing call does not leave a VM in service with a record of an interface
\* that it does not have: attach, which takes any record for a success, would
\* never give it one.
RecordedIsAttached ==
  /\ OnlyFaults({"call", "twice", "timeout"})
  /\ AtMostOneFault
  =>
  \A v \in Vm :
    phase[v] = "inService" /\ Serving(v) = {} /\ nicRecord[v] # None =>
      nicOf[nicRecord[v].nic] = v

\* After one failing call an interface that no handler works on has the tags or
\* a record: attach takes back one that it could neither tag nor record.
StrayIsFindable ==
  /\ OnlyFaults({"call", "twice", "timeout"})
  /\ AtMostOneFault
  =>
  \A n \in nics :
    \/ n \in tagged
    \/ \E v \in Vm : HasRecord(v, n)
    \/ \E h \in Handler : pc[h] \in NicHeld /\ nic[h] = n
====
