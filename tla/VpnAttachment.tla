---- MODULE VpnAttachment ----
(***************************************************************************)
(* The VPN of a FortiGate to the transit gateway:                          *)
(* AwsTgwVpnAttachmentStrategy creates a customer gateway and a connection *)
(* to it while the VM launches, and deletes both while the VM terminates.  *)
(* A connection and its gateway go by one id here.                         *)
(*                                                                         *)
(* Another function waits for the transit gateway and then updates its     *)
(* routes. It starts itself again when its time is up, until the time all  *)
(* its runs have taken reaches a limit.                                    *)
(***************************************************************************)
EXTENDS ScalingGroup

CONSTANTS
  Vpn,               \* ids of the connections
  RunTime,           \* seconds one run waits before it times out
  MaxExecutionTime   \* setting: autoscale-function-max-execution-time

ASSUME VpnAssumption ==
  /\ None \notin Vpn
  /\ RunTime \in Nat \ {0}
  /\ MaxExecutionTime \in Nat

VARIABLES
  gateways,      \* the customer gateways that exist
  connections,   \* the VPN connections that exist
  tags,          \* the resources with the tags of the deployment
  vpnRecord,     \* the VpnAttachment table
  routing,       \* the update of the routes, by connection
  vpn,           \* the connection a handler works on
  leftover       \* the resources a clean-up is still deleting

vpnVars == <<gateways, connections, tags, vpnRecord, routing, vpn, leftover>>

Kind == {"gateway", "connection"}
Resource == Kind \X Vpn

\* The invocation that waits, with the time spent by those before it.
Waiting(spent) == [state |-> "waiting", executionTime |-> spent]
Routing ==
  [state : {"none", "updated", "failed"}, executionTime : {0}]
    \cup [state : {"waiting"}, executionTime : 0..MaxExecutionTime]
Route(state) == [state |-> state, executionTime |-> 0]

VpnStep == {"findVpn", "createGateway", "createConnection", "revertGateway",
            "tagVpn", "invokeUpdate", "saveVpn",
            "detach", "deleteConnection", "deleteGateway", "deleteVpnRecord"}

VpnHeld == VpnStep \ {"findVpn", "createGateway", "detach"}

VpnInit ==
  /\ gateways = {}
  /\ connections = {}
  /\ tags = {}
  /\ vpnRecord = [v \in Vm |-> None]
  /\ routing = [c \in Vpn |-> Route("none")]
  /\ vpn = [h \in Handler |-> None]
  /\ leftover = {}

VpnTypeOK ==
  /\ gateways \subseteq Vpn
  /\ connections \subseteq gateways
  /\ tags \subseteq Resource
  /\ vpnRecord \in [Vm -> Vpn \cup {None}]
  /\ routing \in [Vpn -> Routing]
  /\ vpn \in [Handler -> Vpn \cup {None}]
  /\ leftover \subseteq Resource
  /\ \A h \in Handler : pc[h] \in VpnHeld => vpn[h] \in Vpn

\* An id that nothing refers to: resources get a new one.
NewVpn ==
  {c \in Vpn \ gateways :
     /\ \A h \in Handler : vpn[h] # c
     /\ \A v \in Vm : vpnRecord[v] # c
     /\ \A k \in Kind : <<k, c>> \notin leftover
     /\ routing[c].state # "waiting"}

Exists(r) == IF r[1] = "gateway" THEN r[2] \in gateways ELSE r[2] \in connections

\* EC2 deletes a gateway only when no connection uses it.
Deletable(r) == Exists(r) /\ (r[1] = "gateway" => r[2] \notin connections)

Remove(r) ==
  /\ IF r[1] = "gateway"
     THEN gateways' = gateways \ {r[2]} /\ UNCHANGED connections
     ELSE connections' = connections \ {r[2]} /\ UNCHANGED gateways
  /\ tags' = tags \ {r}

ReleaseVpn(h) == vpn' = [vpn EXCEPT ![h] = None]

----------------------------------------------------------------------------
(* attach *)

\* The record is found by the id and the public address of the VM. A VM that is
\* terminated has no address.
Recorded(v) == vpnRecord[v] # None /\ phase[v] # "gone"

\* One attachment for each VM. An error in reading the record, or in
\* describing its connection, counts as no record. A connection is described
\* for a while after its deletion.
FindVpn(h) ==
  /\ pc[h] = "findVpn"
  /\ \/ /\ Recorded(target[h])
        /\ Finish(h)
        /\ Fine
     \/ /\ IF Recorded(target[h]) /\ vpnRecord[target[h]] \in connections
           THEN Suffer("call") ELSE Fine
        /\ Goto(h, "createGateway")
        /\ UNCHANGED <<target, memo>>
  /\ UNCHANGED <<conf, phase, events, service, vpnVars>>

\* A gateway is created for the public address.
CreateGateway(h) ==
  /\ pc[h] = "createGateway"
  /\ \/ \E c \in NewVpn :
          /\ phase[target[h]] # "gone"
          /\ gateways' = gateways \cup {c}
          /\ vpn' = [vpn EXCEPT ![h] = c]
          /\ routing' = [routing EXCEPT ![c] = Route("none")]
          /\ Goto(h, "createConnection")
          /\ Fine
     \/ /\ Goto(h, "abandon")
        /\ IF phase[target[h]] # "gone" THEN Suffer("call") ELSE Fine
        /\ UNCHANGED <<gateways, vpn, routing>>
  /\ UNCHANGED <<conf, phase, events, service, target, memo,
                 connections, tags, vpnRecord, leftover>>

\* createAwsTgwVpnConnection creates the connection, then waits for its
\* attachment to the transit gateway: it may fail before or after.
CreateConnection(h) ==
  /\ pc[h] = "createConnection"
  /\ LET created == connections \cup ({vpn[h]} \cap gateways)
     IN  \/ /\ vpn[h] \in gateways
            /\ connections' = created
            /\ Goto(h, "tagVpn")
            /\ Fine
         \/ /\ connections' \in {connections, created}
            /\ Goto(h, "revertGateway")
            /\ IF vpn[h] \in gateways THEN Suffer("call") ELSE Fine
  /\ UNCHANGED <<conf, phase, events, service, target, memo,
                 gateways, tags, vpnRecord, routing, vpn, leftover>>

\* vpnConnectionCreated is not set when createAwsTgwVpnConnection throws: the
\* connection is not deleted. A failure to delete the gateway is logged.
RevertGateway(h) ==
  /\ pc[h] = "revertGateway"
  /\ LET gateway == <<"gateway", vpn[h]>>
     IN  \/ Deletable(gateway) /\ Remove(gateway) /\ Fine
         \/ /\ IF Deletable(gateway) THEN Suffer("call") ELSE Fine
            /\ UNCHANGED <<gateways, connections, tags>>
  /\ Goto(h, "abandon")
  /\ ReleaseVpn(h)
  /\ UNCHANGED <<conf, phase, events, service, target, memo, vpnRecord, routing, leftover>>

\* A failure to tag is logged.
TagVpn(h) ==
  /\ pc[h] = "tagVpn"
  /\ LET both == Kind \X {vpn[h]}
     IN  \/ tags' = tags \cup both /\ Fine
         \/ \E r \in both : tags' = tags \cup (both \ {r}) /\ Suffer("call")
  /\ Goto(h, "invokeUpdate")
  /\ UNCHANGED <<conf, phase, events, service, target, memo,
                 gateways, connections, vpnRecord, routing, vpn, leftover>>

\* Mutant: an invocation that fails does not end the request.
InvokeUpdateCaught(h) ==
  /\ pc[h] = "invokeUpdate"
  /\ \/ routing' = [routing EXCEPT ![vpn[h]] = Waiting(0)] /\ Fine
     \/ Suffer("call") /\ UNCHANGED routing
  /\ Goto(h, "saveVpn")
  /\ UNCHANGED <<conf, phase, events, service, target, memo,
                 gateways, connections, tags, vpnRecord, vpn, leftover>>

\* invokeAutoscaleFunction, without waiting for its result. An error is not
\* caught: the request ends here.
InvokeUpdate(h) ==
  /\ pc[h] = "invokeUpdate"
  /\ \/ /\ routing' = [routing EXCEPT ![vpn[h]] = Waiting(0)]
        /\ Goto(h, "saveVpn")
        /\ Fine /\ UNCHANGED <<target, memo, vpn>>
     \/ /\ Finish(h)
        /\ ReleaseVpn(h)
        /\ Suffer("call") /\ UNCHANGED routing
  /\ UNCHANGED <<conf, phase, events, service,
                 gateways, connections, tags, vpnRecord, leftover>>

\* saveTgwVpnAttachmentRecord, by VM and public address.
SaveVpn(h) ==
  /\ pc[h] = "saveVpn"
  /\ \/ /\ vpnRecord' = [vpnRecord EXCEPT ![target[h]] = vpn[h]]
        /\ Finish(h)
        /\ Fine
     \/ /\ Goto(h, "abandon")
        /\ Suffer("call") /\ UNCHANGED <<vpnRecord, target, memo>>
  /\ ReleaseVpn(h)
  /\ UNCHANGED <<conf, phase, events, service, gateways, connections, tags, routing, leftover>>

----------------------------------------------------------------------------
(* detach: a failure is logged, and the termination goes on *)

LeaveVpn(h) == Goto(h, "outOfSync") /\ ReleaseVpn(h)

\* The record, with a description of its connection.
FindAttached(h) ==
  /\ pc[h] = "detach"
  /\ conf.attachment = "vpn"
  /\ LET found == Recorded(target[h]) /\ vpnRecord[target[h]] \in connections
     IN  \/ /\ found
            /\ vpn' = [vpn EXCEPT ![h] = vpnRecord[target[h]]]
            /\ Goto(h, "deleteConnection")
            /\ Fine
         \/ /\ IF found THEN Suffer("call") ELSE Fine
            /\ LeaveVpn(h)
  /\ UNCHANGED <<conf, phase, events, service, target, memo,
                 gateways, connections, tags, vpnRecord, routing, leftover>>

\* "the following components must be deleted one by one".
Delete(h, kind, next) ==
  /\ LET r == <<kind, vpn[h]>>
     IN  \/ /\ Deletable(r)
            /\ Remove(r)
            /\ Goto(h, next)
            /\ Fine /\ UNCHANGED vpn
         \/ /\ IF Deletable(r) THEN Suffer("call") ELSE Fine
            /\ LeaveVpn(h)
            /\ UNCHANGED <<gateways, connections, tags>>
  /\ UNCHANGED <<conf, phase, events, service, target, memo, vpnRecord, routing, leftover>>

DeleteConnection(h) ==
  pc[h] = "deleteConnection" /\ Delete(h, "connection", "deleteGateway")

DeleteGateway(h) ==
  pc[h] = "deleteGateway" /\ Delete(h, "gateway", "deleteVpnRecord")

DeleteVpnRecord(h) ==
  /\ pc[h] = "deleteVpnRecord"
  /\ \/ vpnRecord' = [vpnRecord EXCEPT ![target[h]] = None] /\ Fine
     \/ Suffer("call") /\ UNCHANGED vpnRecord
  /\ LeaveVpn(h)
  /\ UNCHANGED <<conf, phase, events, service, target, memo,
                 gateways, connections, tags, routing, leftover>>

----------------------------------------------------------------------------
(* updateTgwAttachmentRouteTable, in the function invoked for it *)

SetRouting(c, r) ==
  /\ routing' = [routing EXCEPT ![c] = r]
  /\ UNCHANGED <<conf, phase, events, service, localVars,
                 gateways, connections, tags, vpnRecord, vpn, leftover>>

\* The attachment becomes available. An error in either update is logged.
UpdateRoutes(c) ==
  /\ routing[c].state = "waiting"
  /\ c \in connections
  /\ SetRouting(c, Route("updated"))
  /\ Fine

\* Mutant: only the time of this run counts.
TotalForgotten(c) == RunTime

\* The time of this run is added to that of the runs before it
\* (totalExecutionTime)...
Total(c) == routing[c].executionTime + RunTime

\* Mutant: the last run may start at the limit or after it.
ExtendExecutionLate(c) ==
  /\ routing[c].state = "waiting"
  /\ routing[c].executionTime <= MaxExecutionTime
  /\ SetRouting(c, Waiting(Total(c)))
  /\ Fine

\* ... and below the limit the next run is invoked with the sum.
ExtendExecution(c) ==
  /\ routing[c].state = "waiting"
  /\ Total(c) < MaxExecutionTime
  /\ SetRouting(c, Waiting(Total(c)))
  /\ Fine

\* The time is used up, the attachment is not found, or the next run cannot be
\* invoked.
GiveUpRoutes(c) ==
  /\ routing[c].state = "waiting"
  /\ IF Total(c) < MaxExecutionTime /\ c \in connections THEN Suffer("call") ELSE Fine
  /\ SetRouting(c, Route("failed"))

----------------------------------------------------------------------------
(* cleanup, when the stack is deleted *)

\* Connections and gateways with the tags are listed, and their deletions
\* started all at once. None is waited for, and the clean-up is a success.
CleanUpVpns ==
  /\ GroupStopped
  /\ conf.attachment = "vpn"
  /\ leftover' = tags
  /\ service' = "stopped"
  /\ UNCHANGED <<conf, phase, events, faults, localVars,
                 gateways, connections, tags, vpnRecord, routing, vpn>>

\* A deletion that was started ends.
CleanUpVpn(r) ==
  /\ r \in leftover
  /\ \/ Deletable(r) /\ Remove(r) /\ Fine
     \/ /\ IF Deletable(r) THEN Suffer("call") ELSE Fine
        /\ UNCHANGED <<gateways, connections, tags>>
  /\ leftover' = leftover \ {r}
  /\ UNCHANGED <<conf, phase, events, service, localVars, vpnRecord, routing, vpn>>
====
