---- MODULE NicAttachment ----
(***************************************************************************)
(* The second network interface of a FortiGate on AWS:                     *)
(* AwsNicAttachmentStrategy attaches one while the VM launches and takes   *)
(* it back while the VM terminates; the records of the NicAttachment table *)
(* say which. The table has the VM as its only key: a VM has one record.   *)
(*                                                                         *)
(* Every call to the platform is a step, and may fail. An interface that   *)
(* was attached stays when its VM is gone, and is available again.         *)
(***************************************************************************)
EXTENDS ScalingGroup

CONSTANT Nic  \* ids of network interfaces

VARIABLES
  nics,       \* the interfaces that exist
  tagged,     \* those with the tags of the deployment
  nicOf,      \* the VM each interface is attached to
  nicRecord,  \* the NicAttachment table
  nic,        \* the interface a handler works on
  unused      \* the interfaces a clean-up is still deleting

nicVars == <<nics, tagged, nicOf, nicRecord, nic, unused>>

NicRecord == [nic : Nic, attachmentState : {"Attaching", "Attached"}]

ASSUME NicAssumption == None \notin Nic \cup NicRecord

NicStep == {"listNics", "createNic", "tagNic", "setAttaching", "attachNic",
            "setAttached", "revertNic", "revertRecord",
            "detach", "detachNic", "deleteNic", "deleteNicRecord"}

\* The steps at which a handler works on an interface.
NicHeld == NicStep \ {"listNics", "createNic", "detach"}

NicInit ==
  /\ nics = {}
  /\ tagged = {}
  /\ nicOf = [n \in Nic |-> None]
  /\ nicRecord = [v \in Vm |-> None]
  /\ nic = [h \in Handler |-> None]
  /\ unused = {}

NicTypeOK ==
  /\ nics \subseteq Nic
  /\ tagged \subseteq Nic
  /\ nicOf \in [Nic -> Vm \cup {None}]
  /\ nicRecord \in [Vm -> NicRecord \cup {None}]
  /\ nic \in [Handler -> Nic \cup {None}]
  /\ unused \subseteq Nic
  /\ \A n \in Nic \ nics : nicOf[n] = None
  /\ \A h \in Handler : pc[h] \in NicHeld => nic[h] \in Nic

\* The VM that holds an interface, if it is still there. EC2 detaches the
\* interfaces of a VM that is gone: their state is 'available'.
InUse(n) == nicOf[n] # None /\ phase[nicOf[n]] # "gone"

\* An id that nothing refers to: interfaces get a new one.
NewNic ==
  {n \in Nic \ (nics \cup unused) :
     /\ \A h \in Handler : nic[h] # n
     /\ \A v \in Vm : nicRecord[v] # None => nicRecord[v].nic # n}

Record(n, state) == [nic |-> n, attachmentState |-> state]

\* The record of a VM and an interface (getRecord).
HasRecord(v, n) == nicRecord[v] # None /\ nicRecord[v].nic = n

ReleaseNic(h) == nic' = [nic EXCEPT ![h] = None]

\* The interface n is gone.
Gone(n) ==
  /\ nics' = nics \ {n}
  /\ tagged' = tagged \ {n}
  /\ nicOf' = [nicOf EXCEPT ![n] = None]

----------------------------------------------------------------------------
(* attach *)

\* Mutant: an interface is created whether there is a record or not.
ListNicsUnseen(h) ==
  /\ pc[h] = "listNics"
  /\ Goto(h, "createNic")
  /\ Fine
  /\ UNCHANGED <<conf, phase, events, service, target, memo, nicVars>>

\* A VM with a record needs no interface, whatever the state of the record.
\* An error is caught by handleNicAttachment, which gives the launch up.
ListNics(h) ==
  /\ pc[h] = "listNics"
  /\ \/ /\ nicRecord[target[h]] # None
        /\ Finish(h)
        /\ Fine
     \/ /\ nicRecord[target[h]] = None
        /\ Goto(h, "createNic")
        /\ Fine /\ UNCHANGED <<target, memo>>
     \/ /\ Goto(h, "abandon")
        /\ Suffer("call") /\ UNCHANGED <<target, memo>>
  /\ UNCHANGED <<conf, phase, events, service, nicVars>>

CreateNic(h) ==
  /\ pc[h] = "createNic"
  /\ \/ \E n \in NewNic :
          /\ nics' = nics \cup {n}
          /\ nic' = [nic EXCEPT ![h] = n]
          /\ Goto(h, "tagNic")
          /\ Fine
     \/ /\ Goto(h, "abandon")
        /\ Suffer("call") /\ UNCHANGED <<nics, nic>>
  /\ UNCHANGED <<conf, phase, events, service, target, memo, tagged, nicOf, nicRecord, unused>>

\* Mutant: a failure to tag is only logged.
TagNicLogged(h) ==
  /\ pc[h] = "tagNic"
  /\ \/ tagged' = tagged \cup {nic[h]} /\ Fine
     \/ Suffer("call") /\ UNCHANGED tagged
  /\ Goto(h, "setAttaching")
  /\ UNCHANGED <<conf, phase, events, service, target, memo, nics, nicOf, nicRecord, nic, unused>>

\* Mutant: after a failure to tag the interface is not deleted.
TagNicKept(h) ==
  /\ pc[h] = "tagNic"
  /\ \/ tagged' = tagged \cup {nic[h]} /\ Goto(h, "setAttaching") /\ Fine /\ UNCHANGED nic
     \/ Goto(h, "abandon") /\ ReleaseNic(h) /\ Suffer("call") /\ UNCHANGED tagged
  /\ UNCHANGED <<conf, phase, events, service, target, memo, nics, nicOf, nicRecord, unused>>

TagNic(h) ==
  /\ pc[h] = "tagNic"
  /\ \/ /\ tagged' = tagged \cup {nic[h]}
        /\ Goto(h, "setAttaching")
        /\ Fine
     \/ /\ Goto(h, "revertNic")
        /\ Suffer("call") /\ UNCHANGED tagged
  /\ UNCHANGED <<conf, phase, events, service, target, memo, nics, nicOf, nicRecord, nic, unused>>

\* setAttaching: the interface is new, and has no record.
SetAttaching(h) ==
  /\ pc[h] = "setAttaching"
  /\ \/ /\ nicRecord' = [nicRecord EXCEPT ![target[h]] = Record(nic[h], "Attaching")]
        /\ Goto(h, "attachNic")
        /\ Fine
     \/ /\ Goto(h, "revertNic")
        /\ Suffer("call") /\ UNCHANGED nicRecord
  /\ UNCHANGED <<conf, phase, events, service, target, memo, nics, tagged, nicOf, nic, unused>>

\* Mutant: the interface is recorded as attached without a call to attach it.
AttachNicLeftOut(h) ==
  /\ pc[h] = "attachNic"
  /\ Goto(h, "setAttached")
  /\ Fine
  /\ UNCHANGED <<conf, phase, events, service, target, memo, nicVars>>

\* Mutant: an error of the attachment is not thrown again.
AttachNicSwallowed(h) ==
  /\ pc[h] = "attachNic"
  /\ LET attachable == nic[h] \in nics /\ phase[target[h]] # "gone"
         attached == [nicOf EXCEPT ![nic[h]] = target[h]]
     IN  \/ attachable /\ nicOf' = attached /\ Fine
         \/ ~attachable /\ Fine /\ UNCHANGED nicOf
         \/ attachable /\ nicOf' \in {nicOf, attached} /\ Suffer("call")
  /\ Goto(h, "setAttached")
  /\ UNCHANGED <<conf, phase, events, service, target, memo, nics, tagged, nicRecord, nic, unused>>

\* attachNetworkInterface, which waits until the interface is attached, then
\* the source and destination check. An interface or a VM that is gone fails
\* the call; any other failure may come before or after the attachment.
AttachNic(h) ==
  /\ pc[h] = "attachNic"
  /\ LET attachable == nic[h] \in nics /\ phase[target[h]] # "gone"
         attached == [nicOf EXCEPT ![nic[h]] = target[h]]
     IN  \/ /\ attachable
            /\ nicOf' = attached
            /\ Goto(h, "setAttached")
            /\ Fine
         \/ /\ ~attachable
            /\ Goto(h, "revertNic")
            /\ Fine /\ UNCHANGED nicOf
         \/ /\ attachable
            /\ nicOf' \in {nicOf, attached}
            /\ Goto(h, "revertNic")
            /\ Suffer("call")
  /\ UNCHANGED <<conf, phase, events, service, target, memo, nics, tagged, nicRecord, nic, unused>>

\* setAttached. A record that is gone, or of another interface, is replaced.
SetAttached(h) ==
  /\ pc[h] = "setAttached"
  /\ \/ /\ nicRecord' = [nicRecord EXCEPT ![target[h]] = Record(nic[h], "Attached")]
        /\ Finish(h)
        /\ ReleaseNic(h)
        /\ Fine
     \/ /\ Goto(h, "revertNic")
        /\ Suffer("call") /\ UNCHANGED <<nicRecord, nic, target, memo>>
  /\ UNCHANGED <<conf, phase, events, service, nics, tagged, nicOf, unused>>

\* The interface is deleted by the adaptee, which does not detach it first; an
\* error gives the launch up like any other. The record is deleted beside it.
RevertNic(h) ==
  /\ pc[h] = "revertNic"
  /\ \/ /\ nic[h] \in nics /\ ~InUse(nic[h])
        /\ Gone(nic[h])
        /\ Fine
     \/ /\ IF nic[h] \in nics /\ ~InUse(nic[h]) THEN Suffer("call") ELSE Fine
        /\ UNCHANGED <<nics, tagged, nicOf>>
  /\ Goto(h, "revertRecord")
  /\ UNCHANGED <<conf, phase, events, service, target, memo, nicRecord, nic, unused>>

\* deleteRecord: if there is a record of the interface.
RevertRecord(h) ==
  /\ pc[h] = "revertRecord"
  /\ \/ /\ nicRecord' = IF HasRecord(target[h], nic[h])
                        THEN [nicRecord EXCEPT ![target[h]] = None] ELSE nicRecord
        /\ Fine
     \/ Suffer("call") /\ UNCHANGED nicRecord
  /\ Goto(h, "abandon")
  /\ ReleaseNic(h)
  /\ UNCHANGED <<conf, phase, events, service, target, memo, nics, tagged, nicOf, unused>>

----------------------------------------------------------------------------
(* detach: a failure is logged, and the termination goes on *)

\* The interface is left as it is.
LeaveNic(h) == Goto(h, "outOfSync") /\ ReleaseNic(h)

\* The records of the VM are listed: there is one at most.
ListAttached(h) ==
  /\ pc[h] = "detach"
  /\ conf.attachment = "nic"
  /\ \/ /\ nicRecord[target[h]] # None
        /\ nic' = [nic EXCEPT ![h] = nicRecord[target[h]].nic]
        /\ Goto(h, "detachNic")
        /\ Fine
     \/ /\ IF nicRecord[target[h]] # None THEN Suffer("call") ELSE Fine
        /\ LeaveNic(h)
  /\ UNCHANGED <<conf, phase, events, service, target, memo, nics, tagged, nicOf, nicRecord, unused>>

\* detachNetworkInterface, which waits until the interface is available.
DetachNic(h) ==
  /\ pc[h] = "detachNic"
  /\ LET detached == [nicOf EXCEPT ![nic[h]] = None]
     IN  \/ /\ nic[h] \in nics
            /\ nicOf' = detached
            /\ Goto(h, "deleteNic")
            /\ Fine /\ UNCHANGED nic
         \/ /\ nic[h] \notin nics
            /\ LeaveNic(h)
            /\ Fine /\ UNCHANGED nicOf
         \/ /\ nic[h] \in nics
            /\ nicOf' \in {nicOf, detached}
            /\ LeaveNic(h)
            /\ Suffer("call")
  /\ UNCHANGED <<conf, phase, events, service, target, memo, nics, tagged, nicRecord, unused>>

\* AwsPlatformAdapter.deleteNetworkInterface: only an available one.
DeleteNic(h) ==
  /\ pc[h] = "deleteNic"
  /\ \/ /\ nic[h] \in nics /\ ~InUse(nic[h])
        /\ Gone(nic[h])
        /\ Goto(h, "deleteNicRecord")
        /\ Fine /\ UNCHANGED nic
     \/ /\ IF nic[h] \in nics /\ ~InUse(nic[h]) THEN Suffer("call") ELSE Fine
        /\ LeaveNic(h)
        /\ UNCHANGED <<nics, tagged, nicOf>>
  /\ UNCHANGED <<conf, phase, events, service, target, memo, nicRecord, unused>>

\* deleteNicAttachmentRecord: the record of the VM, whatever its interface.
DeleteNicRecord(h) ==
  /\ pc[h] = "deleteNicRecord"
  /\ \/ nicRecord' = [nicRecord EXCEPT ![target[h]] = None] /\ Fine
     \/ Suffer("call") /\ UNCHANGED nicRecord
  /\ LeaveNic(h)
  /\ UNCHANGED <<conf, phase, events, service, target, memo, nics, tagged, nicOf, unused>>

----------------------------------------------------------------------------
(* cleanUp, when the stack is deleted *)

\* The available interfaces with the tags are listed, and their deletions
\* started. No deletion is waited for: it has no failure to report, and the
\* clean-up is a success.
CleanUpNics ==
  /\ GroupStopped
  /\ conf.attachment = "nic"
  /\ unused' = {n \in tagged : ~InUse(n)}
  /\ service' = "stopped"
  /\ UNCHANGED <<conf, phase, events, faults, localVars, nics, tagged, nicOf, nicRecord, nic>>

\* A deletion that was started ends.
CleanUpNic(n) ==
  /\ n \in unused
  /\ \/ n \in nics /\ ~InUse(n) /\ Gone(n) /\ Fine
     \/ /\ IF n \in nics /\ ~InUse(n) THEN Suffer("call") ELSE Fine
        /\ UNCHANGED <<nics, tagged, nicOf>>
  /\ unused' = unused \ {n}
  /\ UNCHANGED <<conf, phase, events, service, localVars, nicRecord, nic>>
====
