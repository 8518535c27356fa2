# FortiGate Autoscale: a specification, its checks and its proofs

This directory specifies the parts of FortiGate Autoscale in which requests meet:
heartbeat synchronisation, primary election and its score, license assignment, the
life of a VM in an AWS scaling group with what is attached to it, and the lookup of
a VM through the cache in front of Azure. Each is a TLA+ module translated from the
TypeScript source and model-checked with TLC on small instances; all but the last
are proved about with TLAPS, where the result does not depend on the size of the
instance. `PROJECT.json` maps every definition to the lines it stands for. All paths
below are relative to the repository; line numbers are those of the mapped commit.

Contents: [the system](#the-system) · [how the modules are
built](#how-the-modules-are-built) · [HeartbeatSync](#heartbeatsync) ·
[PrimaryElection](#primaryelection) · [ElectionScore](#electionscore) ·
[LicenseAllocation](#licenseallocation) · [VmLifecycle](#vmlifecycle) ·
[ApiCache](#apicache) · [runs](#runs) · [what the code does
otherwise](#what-the-code-does-otherwise) · [proofs](#proofs) · [not
modelled](#not-modelled) · [plan](#plan)

## The system

Autoscale runs as cloud functions (AWS Lambda, Azure Functions) beside a scaling
group of FortiGate VMs. Every VM sends a heartbeat at a constant interval and is
answered with the address of the primary; the functions keep the health of each VM
in a database, elect the primary, terminate VMs that stay out of sync, route egress
traffic to the primary, and hand out license files. A function instance serves one
request and then forgets everything: **all shared state is in the database and in
the cloud platform**, and several instances run at once.

Source paths in the table are below `src/`; `aws/` and `azure/` stand for
`fortigate-autoscale/aws/` and `fortigate-autoscale/azure/`.

| Component | State it keeps | Operations | What makes it correct |
|---|---|---|---|
| Heartbeat sync (`core/context-strategy/autoscale-context.ts` 696-1086) | health check record of each VM (table Autoscale): sequence, send time, losses, sync state, recovery count, next heartbeat time | `apply`, `forceOutOfSync`; create, update and delete of the record by the two platform adapters | a record is one verdict, never a mixture; older heartbeats do not win; losses and recovery are counted in a row; an unhealthy VM is dealt with |
| Primary election (`core/autoscale-core.ts` 306-459, 478-783; strategies `autoscale-context.ts` 132-472) | primary record (table PrimaryElection) | `handlePrimaryElection`, `handleStaleVm`; save and delete of the record | at most one primary, a fit one stays, a gone one is replaced, no election overrules another |
| Egress route (`aws/aws-routing-egress-traffic-via-primary-vm-strategy.ts`) | one route per route table | `apply` after an election | it leads to the primary |
| License assignment (`core/context-strategy/licensing-context.ts`) | license stock and license usage tables, files in a container | `apply` of `ReusableLicensingStrategy`: claim an unused license, or take over that of a VM no longer in sync | a license never serves two running VMs; a VM gets one; out of stock is true |
| Handler core (`core/autoscale-core.ts`) | none of its own | one method per event | composes the above |
| Score of the election (`autoscale-context.ts` 394-694) | none | six weights and a tie-break | the result is unique when there is one |
| Lifecycle hooks, AWS (`aws/aws-hybrid-scaling-group-strategy.ts`) | lifecycle item of a VM | launching, launched, not launched, terminating, terminated, complete | one item, in the state of the VM; the hook is always completed |
| NIC attachment, AWS (`aws/aws-nic-attachment-strategy.ts`) | interface, its attachment record | attach, detach, cleanUp | no interface without a VM or a record |
| Transit gateway VPN, AWS (`aws/aws-tgw-vpn-attachment-strategy.ts`) | customer gateway, VPN connection, record | attach, detach, cleanup | no connection without a VM or a record |
| Tagging (`aws/`, `azure/*-tagging-*`) | tags | apply, clear | the tag is on the primary alone |
| Azure API cache (`azure/azure-platform-adaptee.ts` 535-688) | cached responses | `requestWithCaching` | an old answer does no harm: a VM that is not in it is looked up again |
| Peer invocation (`core/cloud-function-peer-invocation.ts`) | accumulated execution time in the payload | invoke | the continuation happens within the limit |
| Databases (`aws/aws-platform-adaptee.ts` 98-164, `azure/azure-platform-adaptee.ts` 314-530) | the tables | save and delete under a condition | a conditional write is atomic (DynamoDB: yes; Cosmos DB: read, check, write with an etag, **unguarded when the item is absent**) |
| Bootstrap, FortiAnalyzer, settings, proxies | none, or written once | | text and I/O |

How they interact: a heartbeat request goes through *heartbeat sync* (one record
read and written), then *election* (primary VM, health check record and primary
record read one after the other, the record possibly deleted and saved), then the
termination of unhealthy VMs, then tags and *route*, and sometimes a second write of
the health check record. The first heartbeat of a VM also completes its launch hook.
Lifecycle events of AWS attach and detach interfaces or VPN connections, keep the
lifecycle item, and run `forceOutOfSync` beside that. On Azure every VM that a
request looks up comes through the *cache*. License requests are separate and meet
only each other.

Hard behaviour, in short (the whole list is under `hazards` in `PROJECT.json`):
state read at the start of a request and written at its end; conditions that guard
less than what was read; failures that are logged and passed over; the one handler
that elects being the only one that updates the route; device sequences that restart
at a reboot; Cosmos DB writes of absent items; resources created, tagged, recorded
and attached by calls of which any may fail; notifications that come twice, late or
together; lists of VMs older than what they are used for; loops with a limit.

## How the modules are built

| Module | What it is |
|---|---|
| `HeartbeatSync` | heartbeats, the health check record, termination |
| `HealthLedger` | what heartbeat sync promises, abstractly |
| `PrimaryElection` | election, primary record, route |
| `ElectionScore` | the six weights, the highest score, the tie-break |
| `LicenseAllocation` | license requests, the usage table |
| `LicensePool` | what license assignment promises, abstractly |
| `ScalingGroup` | the AWS scaling group, its notifications, faults, the steps of a function |
| `NicAttachment`, `VpnAttachment` | the two attachment strategies; each EXTENDS `ScalingGroup` |
| `VmLifecycle` | the lifecycle handlers and item; composes the two by EXTENDS |
| `ApiCache` | how a request finds its VM on Azure, through the cache |
| `MC*` | sets of deployments and symmetry for the runs |
| `*_proofs` | theorems about the module of that name; for `VmLifecycle` three modules, each on top of the one before |

Every detailed module but `ElectionScore` has *handlers*, the function instances
that may run at the same time. A handler has a program counter `pc` and its memory.
**One action is what a handler does between two awaits on shared state**, so that
TLC interleaves requests where JavaScript and the platform may. Two neighbouring
awaits become one action only when the merged call reads or writes what no other
action can tell apart from its neighbour; each such case is listed below. `Finish`
empties the memory of a handler, which is why requests carry nothing over.

`conf` is the deployment (platform, settings) and is fixed in a behaviour: one run
covers several deployments. `None`/`NoRecord` stand for JavaScript `null` and
`undefined`. Where failures occur (`conf.faults`, `Faults`), `Abort` ends a handler
at any point: a function that times out or a call whose failure nothing catches.
Failures that the code catches are actions of their own, because the handler goes
on: `TerminateVmFails` in `HeartbeatSync`; `DeleteFails`, `ElectionFails`,
`SaveFails`, `TaggingFails` in `PrimaryElection`, where `Faults` names the kinds
that occur and a `Conclude` with failures terminates, or removes the records of, a
part of the VMs only; `ClaimFails`, `ReclaimFails`, `LoadFails` in
`LicenseAllocation`. In `VmLifecycle` each call is a step with its own failure, and
`MaxFaults` bounds how many there are. (`HandleStalePrimary` and `RemoveStale` of
`HeartbeatSync` and `ForceOutOfSync` of `PrimaryElection` are what the other
module's handlers do to the state of this one.)

## HeartbeatSync

| Variable | In the code |
|---|---|
| `db` | table Autoscale: the health check record of each VM, less what no decision depends on |
| `requests`, `device` | the heartbeat daemon of the VM: outside the repository, from the way `getReqDeviceSyncInfo` reads a request |
| `vmState`, `now` | scaling group and wall clock |
| `pc`, `req`, `rec`, `after` | the function: `env.targetVm` and request, `targetHealthCheckRecord`, and the result of `apply` |

| Actions | Code |
|---|---|
| `Receive` | `handleHeartbeatSync` up to `apply` |
| `ReadRecord` | `apply` from the read of the record to its write: first record, outdated heartbeat, `Judge` and `Stamp` |
| `CreateAws`; `CreateAzure`, `InsertAzure` | `createHealthCheckRecord`: unconditional put; InsertOnly as read, then upsert |
| `UpdateRecord`, `Respond` | `updateHealthCheckRecord` in `apply`, and again in `handleHeartbeatSync` when the primary address changed |
| `TerminateVm`, `TerminateVmFails`, `CleanupRead`, `DeleteAws`; `DeleteAzure`, `EraseAzure` | `handleUnhealthyVm` |
| `ReceiveTerminating`, `ForceRead`, `ForceWrite` | `handleTerminatingVm`, `forceOutOfSync` |
| `HandleStalePrimary`, `RemoveStale` | what the election of another VM does to this record |
| `Tick`, `SendHeartbeat`, `Lose`, `Reboot`, `ScaleIn`, `Terminated` | the surroundings |

Abstractions. Time is in ticks. The two platforms differ in whether a write is one
step and in the condition (`AwsAccepts`, `AzureAccepts`). On Azure the snapshot and
the guarded upsert are one step because the etag makes the second fail unless
nothing happened in between; with no snapshot there is no etag, and they are two
steps. Notifications and the address of the primary are left out; that the address
changed is a choice of `Respond`. A device that reports no time (`timed = FALSE`) is
judged by arrival time. Sequence 0 is read as absent (`Number(0) || NaN`).

Properties:

* `RecordConsistent`: sync state, losses and recovery count of a record always
  agree, with one exception the code makes on purpose (a VM being terminated).
* `NoOlderOverwrite`, `NoRegressionBeforeReboot`: what the two conditions do and do
  not rule out; the first for all devices, the second, which is stronger, for those
  that have not rebooted and number from 1.
* `ImplementsLedger`: one request at a time, the record follows `HealthLedger`:
  losses in a row put a VM out of sync, on-time heartbeats in a row bring it back.
* `UnhealthyIsHandled` (liveness): with termination on, a VM out of sync does not
  stay so.

## PrimaryElection

| Variable | In the code |
|---|---|
| `records` | table PrimaryElection, by key: the group for a timed election, `group:vmId` for a classic one |
| `condition` | what the health check record of a VM says, in six classes the decisions tell apart: one that is silent is `Overdue` as the adapter reads it, but need not be unhealthy yet (`MayGiveWay`) |
| `tagged`, `route` | VMs with the tag of the primary role, and the egress route (AWS) |
| `target`, `healthy`, `primary`, `held`, `elected` | `env.targetVm`, `env.targetHealthCheckRecord.healthy`, `env.primaryVm` as first read, the primary record or snapshot read, the election result |

| Actions | Code |
|---|---|
| `Heartbeat` | `handleHeartbeatSync` up to the election; the record is that of `HeartbeatSync`, here one step with the outcomes it allows (`Synced`) |
| `ReadPrimaryVm`, `ReadPrimaryRecord` | the two reads before the election (310, 331) |
| `JudgePrimary` | vote state done: is the primary in sync? |
| `DeleteAws`; `DeleteAzure`, `EraseAzure`; `DeleteFails` | `deletePrimaryRecord`, and its failure, which is logged (636-643) |
| `HandleStaleVm`, `Elect`, `ElectionFails` | the election |
| `SaveAws`; `SaveAzure`, `TakeSnapshot`, `UpsertAzure`; `SaveFails` | `updatePrimaryRecord`, and a failure other than its condition, which is logged as well (741-750) |
| `Conclude` | stale old primary and unhealthy target, `handleUnhealthyVm`, the early return |
| `Untag`, `Tag`, `TaggingFails` | `handleTaggingAutoscaleVm`: the tag is taken from every other VM, then given |
| `UpdateRoute` | `handleEgressTrafficRoute` |

Abstractions. The score of a candidate is a choice among them, including that none
wins; `ElectionScore` has it. Both strategies and the core save records that are
Done at once, so that the branches for Pending and Timeout votes cannot be reached
in this release and are left out. The health check record of the primary is read
together with the judgement, and the description of the VM together with the record
that names it: what lies between changes neither. `handleUnhealthyVm` is one step
here, since `HeartbeatSync` has it in full. Reads of the database are taken as
current, as are descriptions of VMs. On Azure that the lookup of a VM answers at all
is an assumption, which `ApiCache` shows to fail as the code is; the Azure settings
of this module and of the others are about what Cosmos DB and the conditions of the
code do once it answers. `voteEndTime` is only compared for equality: `Now` takes
the first instant no record has, which bounds the clock without losing a behaviour.
The VMs with the tag are listed and it is taken from them in one step: only a
handler that elected writes tags. On Azure the tagging strategy only logs. The
`clear` of `handleTerminatingVm` is never reached: it compares the VM with an
`env.primaryVm` that this handler has not loaded (`autoscale-core.ts` 160).

Properties:

* `FitPrimaryKept`: the record of a primary that is fit and in service stays.
* `ElectionNotOverruled`: two elections at once on AWS, the second saves nothing.
* `SinglePrimaryRecord`: one request at a time and no failing call, one primary
  record at most, with the classic election too.
* `RouteMovesToPrimary`: the route is moved to the recorded primary only.
* `TagMovesToPrimary`: when the tag is given, the recorded primary alone has it.
* `GonePrimaryReplaced` (liveness): a primary that is gone loses its role as long as
  some VM sends heartbeats.
* `RouteFollowsPrimary`: what comments and documentation say, and the code does not
  do; see below.

## ElectionScore

The algorithm of `autoscale-context.ts` 394-694 as operators on health check
records, in an order the database chooses. `Loop` is `forEach`: what is carried from
one element of a list to the next, as a recursive function of the position. Three
loops are made with it: `Lead` keeps the best so far and whether it is tied,
`KeysOf` the checksums of a group as the keys of a `Map`, and `Oldest` the oldest
send time. The six `...Weight` operators, `Score`, `FairWeight` and `Winner` carry
the source's names. The machine around them is small: `Elect` holds an election over
any order of the candidates and records its winner; `TakeRole` is a device that
learns its role from an answer and reports it with its next heartbeat.

Abstractions. `candidate` is the filter before the score (healthy, no missing
heartbeat, in the preferred group). Checksums are model values, as only their
equality counts. The ids of VMs are numbers, whose order stands for that of strings.

Properties:

* `ElectionsAgree`: two elections with the same records have one result, in whatever
  order the database lists them.
* `PrimaryStays`: an election held again while roles are taken elects no other VM.
* `SolePrimaryWins`: the only candidate that is primary wins, whatever the others'
  points add up to.
* `ElectedIsUpToDate`: no VM is elected over one of the same configuration that
  synced later, unless it is primary already.
* `NewGroupElects`: a new group gets its first primary.

## LicenseAllocation

| Variable | In the code |
|---|---|
| `files` | the license files, hence the LicenseStock table, which is rewritten from them and read back at the start of a request |
| `usage` | table LicenseUsage, by checksum |
| `running`, `loaded` | scaling group, and the license each VM was given |
| `known`, `untried`, `checked`, `pick`, `tries` | `usageRecords`, the rest of `unusedArray`, the VM states looked up, the license in hand, attempts left, of which `waitFor` allows `MaxCount` (30 in the code, `helper-function.ts` 69) |

| Actions | Code |
|---|---|
| `RequestLicense` | `apply` up to the first write: own license, no file, unused licenses, or none |
| `ClaimAws`; `ClaimAzure`, `UpsertAzure`; `ClaimFails` | `getAvailableLicense`, unused licenses in turn |
| `Reuse`, `CheckVms`, `WriteStatus`, `Relist` | `listOutOfSyncRecord` and `syncVmStatusToUsageRecords` |
| `Reclaim`, `ReclaimFails` | `useLicense` of a license whose VM is not in sync |
| `Load`, `LoadFails`, `OutOfStock` | the answer |
| `Terminate`, `RemoveFile`, `RestoreFile` | the surroundings |

Abstractions. `assignedTime` and the attributes that repeat what the license is are
left out: the conditions of the code compare them too, and could only differ if a VM
took its own license over, which `OwnRecords` prevents. Looking up all VMs is one
step and so are the writes of their states (`written` is any part of them where a
write may fail). A VM on Azure that is being updated counts as not in sync in the
code; here VM states are running or not. `NoopLicensingStrategy` keeps no state.
`conf.parallel` says whether requests overlap, `conf.editable` whether files are
removed and put back, `conf.faults` whether calls fail.

Properties:

* `NoSharedLicense`: two running VMs never work with one license.
* `OneLicensePerVm`: a VM that asks again gets the license it has.
* `OutOfStockIsTrue`: a request is refused only when every license is recorded for a
  VM that was found running; with overlapping requests, when every license is
  recorded, or `MaxCount` of them are, so that the attempts of `waitFor` may have
  been used up before an unused one was tried.
* `ImplementsPool`: refinement of `LicensePool`, in which a license passes to
  another VM only after its VM has ended and is loaded by its owner only.

## VmLifecycle

What happens to one FortiGate from launch to termination in an AWS scaling group.

| Variable | In the code or the platform |
|---|---|
| `phase`, `events`, `service`, `faults` | `ScalingGroup`: where a VM is, notifications not delivered yet, the stack, faults left |
| `item` | table LifecycleItem: the hook of the item of each VM |
| `balancer`, `reported`, `registered` | target group of the load balancer; VMs whose first heartbeat was handled; `elbAttachedDone` |
| `nics`, `tagged`, `nicOf`, `nicRecord`, `nic`, `unused` | interfaces, their tags and VMs; table NicAttachment; the interface in hand; those being cleaned up |
| `gateways`, `connections`, `tags`, `vpnRecord`, `routing`, `vpn`, `leftover` | customer gateways and VPN connections; table VpnAttachment; the update of the transit gateway routes; what is in hand; what is being cleaned up |
| `pc`, `target`, `memo` | the function, `env.targetVm`, the lifecycle item read |

| Actions | Code |
|---|---|
| `Receive`, `Miss`, `FirstStep` | `handleAutoscaleRequest`, `getRequestType`, one handler per notification |
| `Register` ... `AbandonLaunch` | `onLaunchingVm`: target group, item, their reversal |
| `ReadItem`, `Abandon` | `handleLaunchingVm` around the attachment; `ShouldTerminateVm` |
| `ListNics` ... `RevertRecord` | `AwsNicAttachmentStrategy.attach` |
| `FindVpn` ... `SaveVpn` | `AwsTgwVpnAttachmentStrategy.attach` |
| `FirstHeartbeat`, `HeartbeatItem`, `CompleteLaunching` | `onVmFullyConfigured`, `completeLaunching` |
| `LaunchedItem`, `TerminatedItem`, `DropItem` | `onLaunchedVm` (for a launch that failed too), `onTerminatedVm` |
| `ListAttached` ... `DeleteNicRecord`; `FindAttached` ... `DeleteVpnRecord` | `detach` of either strategy |
| `OutOfSync` ... `CloseTerminating` | `handleTerminatingVm`, `onTerminatingVm`, `completeTerminating` |
| `UpdateRoutes`, `ExtendExecution`, `GiveUpRoutes` | `updateTgwAttachmentRouteTable` and the invocation of the next run, `handlePeerInvocation` |
| `CleanUpNics`, `CleanUpNic`; `CleanUpVpns`, `CleanUpVpn` | `cleanUp` when the stack is deleted, and the deletions it starts |
| `ScaleOut`, `ScaleIn`, `HookTimeout`, `StopScalingGroup`, `GroupStopped` | the scaling group, as the code uses it |
| `Crash` | a function ends at any point |

Abstractions. Every call to AWS is a step that may fail; one that waits after acting
(attach and detach of an interface) may fail before or after it acted. A connection
and its customer gateway go by one id. An id is used again only when nothing refers
to it. A record and the lifecycle item are not told apart by times. The routes
updated by the other function are one value of `routing`. A FortiGate may send its
first heartbeat while its launch is still handled, where requests overlap.

Properties:

* `AttachedIsTagged`, `InServiceWasConfigured`, `RecordedIsRouted`: hold with
  overlap, repeated notifications, timeouts, failing calls and crashes.
* `LeavesNoTrace`: one request at a time, no failing calls: when all VMs are gone
  nothing of them is left, also after repeated notifications, and (interfaces) after
  hooks that timed out.
* `InServiceIsAttached`: a VM in service has what its record names.
* `RecordedIsAttached`, `StrayIsFindable`: after one failing call, anywhere, a
  record is of an interface the VM has, and an interface nobody works on has a tag
  or a record.
* `HooksAreCompleted` (liveness): a hook does not wait for its timeout.
* `RoutesConclude` (liveness): the run that waits for the transit gateway does not
  start itself again for ever.

## ApiCache

How a request on Azure finds the VM it is about: `getTargetVm` up to the answer.

| Variable | In the code or the platform |
|---|---|
| `state` | the VMs of the BYOL scale set: to be launched, running, gone |
| `listing`, `described` | table ApiRequestCache: the list of the scale set, and the VMs whose description is there |
| `pc`, `target`, `list` | the function, the VM of its request, `listResult.result` |

| Actions | Code |
|---|---|
| `ReadList`, `CallList`, `SaveList` | `listInstances` through `requestWithCaching`, under `ReadCacheFirst` and, the second time, under `ReadApiFirst` |
| `Search`, `SearchAgain` | `describeInstance` looks the VM up in the list; when it is not there, it asks for the list anew and looks once more |
| `DescribeInstance`, `CallDescribe`, `SaveDescription` | the description of the VM |
| `ListNics` | `listNetworkInterfaces`, and `mapVm` with `mapNic` on what it returns |
| `Answer`, `Fail` | the end of the request; a failing call |
| `Heartbeat`, `Launch`, `ScaleIn`, `Expire` | a request; Azure; Cosmos DB dropping an item |

The loop that fills a list, `do { result = await response.next(); ...
list.push(value) } while (!result.done)`, also pushes the value of the result that
is done, which is `undefined` by the protocol of async iterators (`Pushed`; the
paging library itself is not in the repository). `find` comes to that element
whenever the VM is not in the list, and `mapNic` maps it whenever the VM is: either
throws a TypeError. The steps behind them (`callAgain`, `searchAgain`, `found`,
`absent`) are in the module because they are in the code, but no behaviour reaches
them. For the same reason the other users of these lists are not modelled:
`listAutoscaleVm`, and with it `handleStaleVm` and the check before a VM is deleted,
throw in `mapVm` before they use a list.

Property: `RunningVmIsFound`, which says what a comment of the code says of the
cache and is violated, see below.

## Runs

`violation` runs are the subject of the next section. Deadlock is not checked:
bounds and the end of all VMs stop the system.

| Run | Question | Instance | States |
|---|---|---|---|
| `hb_overlap` | Do overlapping, late, lost, failing requests of one VM leave a sound record? | 1 VM, 2 handlers, faults, 1 reboot, clock to 4, loss limit 1, recovery 2; AWS keeping and Azure terminating unhealthy VMs | 1.5 million |
| `hb_serial` | One request at a time: is the ledger kept, are unhealthy VMs dealt with? | 1 VM, 1 handler, clock to 7, limits 2 and 2; AWS terminating and Azure keeping unhealthy VMs | 0.43 million |
| `election_serial` | One request at a time: is the primary unique, kept, replaced, tagged, routed to? | 3 VMs, one outside the preferred group, every pair of settings, one VM silent or scaled in | 0.27 million |
| `election_overlap` | Do elections at once overrule each other? | 2 VMs, 2 handlers, failures of every kind, AWS terminating unhealthy VMs, timed | 5.6 million |
| `election_score` | Is the result of an election unique, stable and up to date? | 3 VMs, 3 checksums, 2 instants, all orders of records | 27,654 |
| `license_pool` | Is a license shared, wasted, stolen, refused in error? | 3 VMs, 2 licenses, 2 handlers; every setting except overlapping requests on Azure | 0.48 million |
| `launch_serial` | One request at a time: is anything left behind, half attached, or waiting for ever? | 1 VM, 2 interfaces, 1 connection, 2 faults: repetitions, timeouts, failing calls, crashes, alone and together | 80,034 |
| `launch_overlap` | What holds however notifications and first heartbeats overlap? | 1 VM, 2 handlers, 1 fault of any kind, any order of delivery | 0.30 million |

Bounds and why they are enough. Records of different VMs never meet in
`HeartbeatSync`, so one VM is the general case. Two handlers make every pair of
steps meet; the conditional writes compare two records at a time. Recovery takes two
heartbeats, so that a recovery can be interrupted; the serial run also has a loss
limit of two, and a clock long enough to use it up and then to be terminated or to
recover fully. Between them the two passing runs cover both settings on both
platforms. `MaxInFlight` bounds requests under way, and a handler that has received
one is a further place where a request waits: with two handlers heartbeats are
reordered. In `PrimaryElection`, `Instant` is one more than the records in use at a
time; one VM is `Silent` and `Troubled`, and any may be the elected one; in the
overlapping run both are `Troubled` and none is `Silent`. That run leaves the route
and the tags out of its view: no step depends on them, and its property is about
records. Three VMs for two licenses is the least with contention for a license that
is taken over.

In `VmLifecycle` VMs share nothing but ids, the stop of the group and the clean-up,
so that one VM is the general case; two interfaces let a second be created while a
first is still there. Two faults in the serial run make a failure meet a failing
reversal; one in the overlapping run suffices for a repeated notification, a timeout
or a crash to meet any other request. `RunTime` 1 and `MaxExecutionTime` 3 let the
routes be waited for three times. `ElectionScore` has three VMs: a group of two
against one is the least in which groups, ties and a group of one occur together; a
second send time is considered only for a VM that has not synced, as send times
decide only where none has. `MaxCount` is as large as the number of licenses, so
that in the run the attempts end with the licenses: that they may end before is
stated in `OutOfStockIsTrue` and proved, for any number of licenses, but not met in
a run (three licenses are too many for TLC with three VMs). `ApiCache` needs two
VMs, one of them launched after the list was saved. Symmetry is used where no
liveness is checked.

Fairness. `FairSpec` of `HeartbeatSync` says that a function that has started runs
on (weak fairness of each handler's steps): the platform schedules it, and
`hb_serial` has no timeouts. `PrimaryElection` also says that VMs in service go on
sending heartbeats, which is what the daemon does. `VmLifecycle` says that a
function that started goes on, that the scaling group delivers what it announced,
that a FortiGate which launches sends a first heartbeat, and that the run of the
route function ends when its time is up. The properties say for which faults they
hold: a notification whose handler fails is not sent again, and then the hook waits
for its timeout. Nothing says that failures, scaling or the arrival of a particular
heartbeat must happen. Without heartbeats no handler looks at the primary, and the
property would be about nothing.

Each property of a passing run has a mutant in `PROJECT.json`: a plausible slip in
the code (a dropped condition, an off-by-one, a value not reloaded) that makes the
run fail. The definitions whose comment begins with *Mutant* in the modules are
these.

## What the code does otherwise

Each of these is a run that ends in a counterexample to a sentence of the
repository; the quotations are under `findings`.

| Run | Sentence | Counterexample |
|---|---|---|
| `hb_race` | a heartbeat whose record changed meanwhile is discarded; recovery takes consecutive heartbeats | a handler reads InSync; another writes OutOfSync; the first writes InSync, with a newer sequence: no recovery is owed |
| `election_route` | the route is updated when the primary role changes | the handler that elects serves an unhealthy VM and returns early; nobody updates the route later |
| `license_azure` | a picked license is locked | two handlers read no usage record and both upsert one |
| `azure_lookup` | a new VM that is not in the cache is looked for again through the API | a list is saved, a VM launched, and its heartbeat ends in a TypeError at the element `undefined` of the list |

Further disagreements were met while reading and modelling. They have no run of
their own.

Heartbeats and election:

* The condition of `updateHealthCheckRecord` (`aws-platform-adapter.ts` 766-771)
  accepts every larger sequence, whatever its send time: a heartbeat sent before a
  reboot and handled after the first one since takes the send time back.
* A VM forced out of sync because it terminates (`autoscale-core.ts` 150,
  `autoscale-context.ts` 46-47) is in sync again with its next on-time heartbeat
  when unhealthy VMs are kept: its recovery count is 0 (907).
* The primary VM is read at `autoscale-core.ts` 310 and the primary record at 331; a
  record saved in between goes with no VM and is deleted though its VM is fit
  (338-341, 604-605). `FitPrimaryKept` is therefore checked and proved for one
  handler.
* Classic elections of two VMs at once write two keys (`autoscale-context.ts` 153),
  against the assertion of one record (`aws-platform-adapter.ts` 638). So is
  `SinglePrimaryRecord`.
* With two handlers the loser of an election tags and routes to the VM it elected
  although its save was refused (`autoscale-core.ts` 745), which is why
  `RouteMovesToPrimary` and `TagMovesToPrimary` are for one handler.
* Failures to delete or to save a primary record are logged and passed over
  (`autoscale-core.ts` 638, 745), the first as having "no impact". After a failed
  deletion a classic election leaves two records. After a failed save the handler
  tags and routes to a VM that is not recorded, alone or not. The theorems on one
  handler therefore assume that these calls do not fail.
* The tag of a primary that terminates is not removed, against the comment at
  `autoscale-core.ts` 159: see `PrimaryElection`.
* `lateslGroupChecksumWeight` (`autoscale-context.ts` 574-580) promises its 16
  points to groups of more than one member; the code gives them to a group of one
  and to VMs without a checksum. Elections may stay undecided, with the same records
  for ever: equal scores, or two candidates without checksums in a new group.
  Candidates are filtered by `healthy`, not by sync state (376).

Licenses: `OneLicensePerVm` is stated without overlap and failures: two requests of
one VM at once claim two licenses, and a failed refresh after the claim
(`licensing-context.ts` 228) leaves a license recorded for a VM that goes on to
claim another.

Launch and termination (AWS):

* The failed launch is handled by `onLaunchedVm` (`autoscale-core.ts` 131): after a
  launch hook timed out, and with overlap, it may delete the item that the
  termination is about to use, against the assertion at 170-171.
* `handleNicAttachment` takes any record for a success. After more than one failure
  a VM may be in service with a record of an interface that is not attached;
  `RecordedIsAttached` says one is not enough.
* A failure between the item and the attachment ends the request, and the first
  heartbeat then completes the hook: the VM enters service with no interface and no
  record.
* `createAwsTgwVpnConnection` may fail after it created the connection; "revert
  creation" (`aws-tgw-vpn-attachment-strategy.ts` 127) then deletes the gateway
  only. A failure to save the record, last, leaves both, until the clean-up finds
  them by their tags. A failure to invoke the route function (212) is not caught: a
  VM may be in service without a record.
* Components "must be deleted one by one" (250), but `cleanup` (351-384) starts all
  deletions at once and waits for none; nor does `cleanUp` of interfaces
  (`aws-nic-attachment-strategy.ts` 329-341). Both report success.
* The VPN record is found by the public address, which a VM that is gone has not.
* `checkScalingGroupState` reports a group as stopped when one listed instance is
  terminated (`aws-platform-adapter.ts` 2057-2071), though others may still run.

Azure lookups:

* `listInstances` (`azure-platform-adaptee.ts` 715-725) and `listNetworkInterfaces`
  (864-874) push the value of the iterator result that is done; `listBlob` (949-956)
  does not. A list is therefore never empty and never null, against 726, and every
  lookup that goes on to map it throws (`azure-platform-adapter.ts` 336, 401-403,
  582-584).
* `deleteInstanceFromVmss` deletes the description by instanceId, while it is kept
  by vmId: "all related caches are deleted" (`azure-platform-adaptee.ts` 820) is not
  so.
* `expired` is computed (638) and `ReadCacheFirst` does not look at it (655).

## Proofs

All theorems hold for every value of the constants that satisfies the named
assumptions (`SettingsAssumption`, `ElectionAssumption`, `NoneAssumption`,
`RecordAssumption`, `AllocationAssumption`, `GroupAssumption`, `NicAssumption`,
`VpnAssumption`, `ScoreAssumption`): any number of VMs, handlers, licenses,
interfaces and faults, any limits.

**HeartbeatSync_proofs.** `TypeCorrect`: `TypeOK` is inductive; the lemmas say that
what apply computes is a record. `RecordsConsistent`: `RecordConsistent` alone is
not inductive, since a handler may hold a record it has not written yet, and
`forceOutOfSync` may write to a VM that ought not to be running. `ConsistencyInv`
adds that records in memory are consistent too and that only VMs not running are
forced. `OlderNeverOverwrites`: the two conditions imply it directly, except that a
device with no send time must not be compared: `DatedInv` says what stored times
are. `NeverRegresses`: each of the conditions compares one of the two counters only,
so the two must agree on the order of the heartbeats. `OrderInv` says so of all that
a device has reported until it reboots (`Reports`): on its way, in the memory of a
handler, or stored, a later sequence has a later send time, and none is ahead of the
device. `LedgerImplemented` (assuming `Overlap = FALSE`): a handler writes what it
computed from an earlier read; `SoleInv` says that one handler at most serves a VM
and that what it read of the VM still stands when it writes, so that its step is one
of `HealthLedger`. The `race` run shows that this is what is lost otherwise.

**PrimaryElection_proofs.** `TypeCorrect`. `NoElectionOverruled`: each action either
deletes, or saves under the condition that nothing is there. With one handler (`\A
g, h \in Handler : g = h`) whose deletions do not fail (`"delete" \notin Faults`):
`SoleKeepsFitPrimary` and `SoleSingleRecord`; and, if its saves do not fail either,
`SoleRoutesToPrimary` and `SoleTagsPrimary`. The other failures may occur. All four
are from the invariant `SoleInv`: there is one record at most, and what the handler
knows of it (`SoleKnows`) is still so at each of its steps: what it is about to
delete is the stored record and was judged unfit, what it is about to save meets an
empty table, what it routes to is recorded. This is just what is lost with two
handlers, with a record that was to be deleted and is still there, or with one that
was to be saved and is not.

**LicenseAllocation_proofs.** `TypeCorrect`. On AWS with overlap, failures and file
changes, and on either platform while requests are served one at a time (`\A s \in
Settings : s.platform = "aws" \/ ~s.parallel`): `NoLicenseShared` and
`PoolImplemented`. The invariant `LicenseInv` says that a usage record not in sync
belongs to a VM that is gone (VMs do not come back), in the table and in the memory
of each handler (`HandlerInv`), that what a handler loads is recorded as its VM's
unless that VM is gone, and that what a VM has loaded is recorded as its own
(`LoadedIsOwn`). The key lemma, `StepKeeps`: no step takes a license from a running
VM. `NoLicenseShared` follows since a license has one holder. `OneLicenseEach` and
`OutOfStockTrue`, for every setting: `SerialInv` says that a VM whose request is
still being served has no license (`StillWithout`), that the table in memory names
the VMs that the table in the database names (`ReadIsCurrent`), both without faults
and overlap. With overlap too, and every license with its file (`NoneMissed`): a
handler looking for an unused license has tried none that is unused, and has an
attempt left for each it has not tried or has met `MaxCount` that are recorded
(`Tried`); so that one which goes on to take a license over has found none unused,
or `MaxCount` recorded (`NoneLeft`). Records stay, so both remain true while others
take their steps.

**VmLifecycle_proofs.** One lemma for the steps of each module the specification is
composed of, each with the same goal, then the theorem. `TypeCorrect` includes that
the time carried from one run of the route function to the next stays within the
limit. `TaggedBeforeAttached`: `TagInv` adds that an interface which a handler is
about to record or attach, if it still exists, is tagged.
`ConfiguredBeforeInService`: `ReportInv` adds that a handler about to complete a
launch as a success serves a VM that reported. `RoutedBeforeRecorded`: `RouteInv`
adds that the connection in hand when the record is saved has been handed over. None
needs an assumption on overlap or faults.

**VmLifecycleSerial_proofs.** What attach gives, for requests that are served one at
a time, in the order of their notifications, and run to their end (`Orderly`). Each
of the some fifty steps is first shown to stay within a frame, `StepOf`: it moves
its own handler only, changes what concerns its own VM only, goes on along the path
of its request, and takes the VM through its hooks as the scaling group allows. The
invariants are then proved from the frame, and opened step by step only where they
must be: `OneBusy` (one handler at work), `PhaseInv` (which notifications may still
come, and which requests may be under way, in each phase of a VM), `MemoInv` (the
handler of a launch has read the item that it wrote). `StrayFound`: `StrayInv`, an
interface without tags is being tagged, or taken back because that has failed,
unless a second call failed. `RecordedAttached`: `NicInv`, no two VMs have a record
of one interface, the interface that a handler works on is its VM's, and a VM not on
its way out has the interface of its record, unless the launch is being given up.
Both count failures: `Lost(k)` says that `k` calls may have failed, so that one
failure is dealt with and only two can break the property. `AttachedInService`: with
no failing call (`Quiet`), `PreparedInv`, what a handler created is there when it
goes on; `VpnInv`, as `NicInv` for connections; and `GivenInv`, a VM launched or in
service has what its launch is to give, or the launch is still to be handled or
before that step.

**VmLifecycleTrace_proofs.** `NothingLeft`, what terminations take back, with no
failing call. The argument is one of things still to come: whatever a VM has, there
is a notification on its way or a handler before the step that takes it. `RankInv`:
once a VM leaves, the later notifications in the order of delivery are still to
come. `ItemInv`: a lifecycle item, and a target in the load balancer, of a VM that
leaves are still to be removed. `KindInv`: interfaces and connections do not both
occur. `NicLeftInv`: an interface has a record or is about to get one, a record is
of an interface that exists, and the record of a VM that leaves is still to be
deleted. `VpnLeftInv`, for connections and gateways; it needs that hooks do not time
out (`Guarded`), as `LeavesNoTrace` does: a hook that times out lets a VM go before
its gateway is recorded.

**ElectionScore_proofs.** For any number of VMs, checksums and times. The loops are
induction over data, and the induction theorems of the library cannot be used (their
parameter is an operator); what they say is proved here for sets instead.
`Smallest`: a set of numbers has a smallest one, from the well-foundedness of the
subset ordering on finite sets. `PositionInduction` follows, and `Recursion`: a loop
defines a function of the position. `LeadCorrect`, `KeysCorrect` and `OldestCorrect`
then say what the three loops come to, in terms of the set of elements.
`ScoreIsRating`: the score, computed over a list, is `Rating`, defined over the set
of candidates. `WinnerIsElected`: so is the result, `Elects`; and `ElectsOne`: there
is one such result. With that, `ElectedInv` (an election came to the result of the
present records) gives `ElectionsDoAgree`, and, with the bounds of the points,
`SolePrimaryIsElected`, `ElectedHasSynced` and `NewGroupIsDecided`.
`FirstPrimaryStays` needs more, since the roles that the devices report change the
scores between elections: `RoleInv` says that the primary has the one highest score,
or has a score as high as any in a group where the send time decides. Every step of
a device to its role raises the score of the primary or lowers that of another.
`ElectedIsCandidate`, that a result is a candidate or none, is what lets
`PrimaryElection` leave the score a choice.

Only model-checked: the liveness properties (`UnhealthyIsHandled`,
`GonePrimaryReplaced`, `HooksAreCompleted`, `RoutesConclude`), since the prover has
no fairness. Of overlapping license requests on Azure nothing is proved: the run
`license_azure` shows that they can share a license.

## Not modelled

* The invocations that trigger FortiAnalyzer authorisation, and the peer function on
  Azure: they keep no state here.
* The Azure tagging strategy: it only logs.
* `saveSettings`, settings and service providers: written once by a deployment.
* Bootstrap configuration, FortiAnalyzer, proxies and request parsing: text and I/O
  without shared state.
* The Azure scaling group strategy: its operations change no state.
* Conversions between database items and records, notifications, logging.

## Plan

Written so far, in this order: `HeartbeatSync` with `HealthLedger`,
`PrimaryElection`, `LicenseAllocation` with `LicensePool`; tags in
`PrimaryElection`; `ScalingGroup`, `NicAttachment`, `VpnAttachment` and
`VmLifecycle`; `ApiCache`; `ElectionScore`. All but `ApiCache` have their proofs: a
theorem states each invariant and each action property that the passing runs check,
and both refinements; `ApiCache` has a counterexample instead. Left are the liveness
properties, out of the prover's reach, and the users of the lists of Azure, which
are worth a module once the loops that fill them are corrected.
