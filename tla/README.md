# A TLA+ model of the OVS-DPDK DRA driver

The driver runs on every node. kubelet asks it to *prepare* the ResourceClaims of
a pod, which means a socket directory, an OVS port and a CDI spec for every
allocated bridge, and to *unprepare* them later. Beside that it watches the OVS
database and the policies, publishes the bridges of the node, and runs a Device
Plugin per topology resource that tells kubelet the NUMA node of its bridges.

## The system and its parts

| Part | Source | State | Operations |
|---|---|---|---|
| kubelet handlers | `pkg/driver/server.go` | locals of the call | PrepareResourceClaims, UnprepareResourceClaims, updateClaimStatus |
| device state | `pkg/devicestate/devicestate.go`, `claimstatus.go` | configuration, allocatable bridges (memory) | UpdateConfig, UpdatePolicyDevices, PrepareResourceClaim, UnprepareResourceClaim, rollback |
| port configuration | `pkg/devicestate/config.go`, `pkg/api/ovsport` | | parseClaimConfigs, getConfig |
| claim store | `pkg/claimstore` | bbolt file under /var/run | Get, Set, Delete, Close |
| CDI | `pkg/cdi` | one spec file per claim | CreateClaimSpecFile, DeleteClaimSpecFile |
| socket directories | `pkg/socketfs` | directories and their permissions | CreateSocketDir, RemoveSocketDir |
| OVS ports | `pkg/ovs/client.go` | rows of the database | CreatePort, DeletePort |
| OVS monitor | `pkg/ovs/client.go`, `pkg/pci` | event cache, `ifaceCh`, NUMA map | cache handlers, interface worker, BridgeNUMANodes |
| Device Plugin manager and servers | `pkg/deviceplugin` | topology, servers | UpdateResources, OnInterfaceChange, reregisterAll, StopAll |
| reconcilers | `pkg/controllers` | trigger channel, work queue | Reconcile of policies and of the configuration |
| start-up and shutdown | `cmd/dra-driver-ovsdpdk/main.go`, `pkg/driver/driver.go` | | wiring, Stop and the other deferred calls |

Two groups share little. The prepare path (first seven rows) reads only the
configuration and the allocatable bridges from the other; it is `Driver`. The
topology path (the monitor, the manager and the policy reconciler) is `Topology`.
`PROJECT.json` lists every part, the modelled lines, and the hazards.

## Modules

Prepare path, each module extending the ones above it:

- `PortConfig`: which `OvsPortConfig` a request gets from the configuration
  entries of its claim. `parseClaimConfigs` is the loop of the code;
  `WellConfigured` and `RequestedConfig` say the same without it and are what
  `PortsAreAsRequested` compares ports and records with.
- `PreparedDevice`: claims, allocation, the record of a prepared device, and the
  names derived from a claim (`getSocketDir`, `ovsPortName`). Parts that are
  joined with a separator none of them contains become a tuple. Lists whose order
  no property tells apart are sets; two shares of one bridge under one request
  give the same record, as they do in the code.
- `ClaimStore`, `CDI`, `SocketFS`, `OvsPorts`: the persistent state and its
  operations. `OvsPorts` has the database's side (external): the port name is an
  index, an MTU out of range is refused, unreferenced rows are collected, so that
  `CreatePort` on a bridge that is gone succeeds and creates nothing. `CDI` has the
  library's check (external) that the devices of a spec have different names.
- `DeviceState`: what the reconcilers feed.
- `Driver`: the handlers. `pc` says between which two calls the handler is; each
  call to another component is a step and may fail, and a port transaction may be
  applied although its reply is lost. kubelet, the reconcilers, OVS, a crash of
  the process and a reboot of the node interleave with it at every step.
- `PreparedClaims`: what the driver promises, without handlers, files or ports: a
  claim becomes usable only while kubelet asks for it, stays usable until kubelet
  asks to unprepare it (short of a reboot), and is let go only when it is not
  usable any more. `DriverRefinement` says which of `Driver`'s states are usable.
- `Shutdown`: `Driver` with the end of the process: the helper stops accepting
  calls, `Wait`, the store is closed, then the OVS client, then the process ends
  and is started again.
- `DriverInv`: the inductive invariant. `DriverResources`: more on top of it, about
  where each resource on the node is accounted for (`ResourceInv`), the parameters
  of ports (`ConfigInv`), the MTU in hand (`MtuInv`) and the permissions of
  directories (`PermissionsInv`). `DriverProofs`,
  `ResourceProofs`, `PromiseProofs` (the refinement and the configuration of ports),
  `ShutdownProofs`: the proofs.

`ClaimStatus` and `ClaimStatusUpdate` model the merge of status entries and the
retry loop of `updateClaimStatus` against an API server with optimistic
concurrency. In `Driver` the loop is the step `UpdateStatus`: it is best effort
and changes nothing on the node. `RecordedStatus` is what the loop promises, without
copies, versions or attempts: the driver's entries are replaced in one step, in the
claim that was prepared, or the status is left alone. `StatusRefinement` maps the
loop to it. `StatusProofs` has the proofs.

Topology path: `UplinkMonitor` (database, pending cache events, the cache
goroutine, the bounded queue `ifaceCh`, the worker, the NUMA map),
`TopologyManager` (servers, kubelet's registrations), `ResourcePolicy` (trigger
channel, work queue, the three parts of Reconcile) and their composition
`Topology`, which adds the order of start-up, the notifiers, the cancelled context
and the deferred `StopAll`. `TopologyInv` is the inductive invariant;
`MonitorProofs` has the proofs about the monitor alone, `TopologyProofs` those
about the composition. `SequenceLemmas` has facts about sequences and finite
sets that several proofs use.

`MCDriver`, `MCShutdown`, `MCClaimStatusUpdate` and `MCTopology` hold the instances. Definitions
whose comment begins with "Mutant" are plausible mistakes in the definition that
follows; putting one in its place makes a property fail, and `PROJECT.json` says
which.

### Choices in the models

- The kubelet plugin helper serialises calls unless told otherwise, so one
  handler runs at a time.
- kubelet (external) retries a prepare until it succeeds or the pod goes away,
  gives a claim to one pod at a time, and once it unprepares a claim does nothing
  else to it until that succeeded.
- /var/run is a tmpfs and ports are transient, so a reboot loses the store, the
  directories, the specs and the ports together.
- A failure of `Get` has one outcome; which text was wrong is not modelled. That
  an entry's parameters do not unmarshal, or have another kind or apiVersion, is
  the flag `parses` of the entry.
- The helper (external) may hold calls it has accepted when it is stopped, and
  enters their handlers later, even after `d.wg.Wait()` returned (`late`). It does
  not abort running handlers, as the comment in `Driver.Stop` says; if it cancelled
  their contexts, a handler inside `CreatePort` would fail the way `FailsLeaking`
  does.
- `ctxDone` is the context `run()` gives to everything. Once it is done, a
  registration fails, and so may every lookup and publication; the goroutines may
  still run, since `run()` waits for none of them.
- `leaky`, `lost`, `missed` and `refused` are history variables. They record that
  one of the failures the code knowingly only logs has happened, so that properties
  can say "except after that, and only for that claim, uplink or resource".
- `getConsistentNUMA` reads the bridges one at a time; the model reads them at
  once. A store between two of its reads is followed by the notification for its
  bridge, which waits for the manager's mutex and evaluates again; a deleted
  bridge is followed by a reconcile in the same way.
- A node selector is a set of terms, a term the labels it asks for. Labels and
  policies change together (`Clusters`), and either watch queues the request.
- The predicate of the Node watch looks at the name only, so every update of the
  Node queues the request, whatever it is about (`NodeUpdate`). kubelet posts the
  status of its node for as long as it runs.
- The NUMA node of an uplink is a constant, -1 without affinity; an uplink outside
  `Resolvable` is one whose devargs or sysfs entry cannot be read.

## What the runs check

| Run | Instance | Shows |
|---|---|---|
| `driver_batch` | 2 claims, one with two devices, a foreign one and overlapping configuration entries, 1 pod, 2 faults | `PreparedIsBacked`: a prepared claim has a complete record, a CDI spec of it and its directories; `LeaksAreExplained`: what is on the node belongs to a record, to the running call, or to a claim hit by a failure that is known to leak; `PortsAreAsRequested`: ports and records carry what the entries ask for; `RecordOutlivesResources`: a record goes only after what it describes |
| `driver_pods` | 3 claims, 3 pods, one claim handed between two pods, one of the same pod-local name with two shares under one request, one without own devices, a policy refused for its MTU, 1 fault | `IInv` and `ResourceInv`, the invariants of the proofs; `ImplementsPreparedClaims`; `ClaimsAreIsolated`; `PreparedIsBacked` and `LeaksAreExplained` where two results share a directory and a port name; `UnpreparedIsCleanOrLeaky`: an unprepared claim has nothing on the node unless such a failure hit it; `PrepareFailsForACause`: a prepare whose calls all succeed fails only for a cause outside the node's leftovers; `HandlerAdvances`: every step brings the end of its call nearer |
| `driver_liveness` | 2 claims, 1 fault, `FairSpec` | `UnprepareConverges`, `PrepareConverges`; `PreparedWithKeptConfig`: a configuration that stays between its two reads reaches every directory of a prepared claim |
| `shutdown` | 2 claims, one with a policer, one with a bad entry after a good one, 1 fault, up to 2 calls held by the helper, `FairStopSpec` | `StopIsClean`: no handler `Wait` knew of meets a closed store or client, or leaves anything behind without a failure; `WorkAdvances`, which is `HandlerAdvances` also on a closed store or client; `StopEnds`; the invariants of `driver_batch` across it, and `ConfigInv`, the inductive invariant behind `PortsAreAsRequested` |
| `status_update` | 3 attempts, 3 changes by others, 2 UIDs, `FairSpec` | `StatusInv`, the invariant of the proofs; `OtherEntriesSurvive`, `ReplacementUntouched`, `DoneMeansRecorded`; `ImplementsRecordedStatus`; `UpdateEnds` |
| `topology` | 2 bridges of one resource, 3 uplinks, queue of 2, 2 changes | `TopologyIsTrue`: at rest each Device Plugin advertises the node its bridges are on, or there is none, unless an event of an uplink of these bridges was lost or the start of its server failed since the last reconcile; `ServersAreRegistered` |
| `policy` | 1 bridge, 2 uplinks, one without NUMA affinity, 2 resources, labels that select valid or contradictory policies, an invalid policy, 2 changes, 1 fault, shutdown at any time | `SliceIsCurrent`, `NoTopologyConflict`, `TopologyIsTrue`; `StoppedForGood`: nothing starts a Device Plugin again after `StopAll` |
| `topology_liveness` | 1 bridge, 3 uplinks on two NUMA nodes, one of them never found, queue of 2, 2 changes, 1 fault, `FairSpec` | `TopologyConverges`: the truth is reached and kept, also after a start that failed; `TopologyInvariant`, the invariant of the proofs |

Four runs show where the code does not do what its documentation says:

| Run | What happens |
|---|---|
| `unprepared_is_clean` | The process dies after the directory was made and before `Set`. Unprepare finds no record and reports success; the directory stays. |
| `prepared_with_config` | The configuration is deleted between the nil check and the second read in `prepareDevice`: the directory gets no ownership, label or ACL. |
| `spanning_is_not_advertised` | An uplink's event finds `ifaceCh` full and is dropped; bridges that span two nodes are advertised on one. |
| `running_is_reregistered` | `reregisterAll` logs a registration that fails and does not repeat it. Every reconcile that follows finds the server running for the right node and leaves it alone: kubelet does not know it until it restarts once more. |

Met while modelling, visible in the models and without a run of their own:
`CreatePort` on a removed bridge reports success; a template claim whose pod-local
name is the object name of another claim of the same pod shares its directory
(`DistinctDirs` excludes it); a Device Plugin that `OnInterfaceChange` could not
start stays away until something queues a reconcile (`missed`); a claim prepared before the first policy reconcile is sent to
OVS with MTU 0 and refused there; a call that enters its handler after `Wait`
returned meets a closed store, and if it is in the middle of a prepare when the
process ends it leaves its directory and port behind (`late`); two claims whose
UIDs share the first 8 hex digits share port names, and after an OVS restart the
unprepare of one deletes the port of the other; a claim with two devices under one
request can never be prepared on a bridge that exists, because both ports get one
name and the second is refused. Two shares of one bridge under one request fail
even without the bridge, because the library refuses a spec with two devices of one
name. `Preparable` excludes both.

Of the four runs above, two are shown to have no other cause: without a failure
that leaks, an unprepared claim is clean (`UnpreparedIsCleanOrLeaky`), and without a
deletion between the two reads, a prepared claim has its configuration
(`PreparedWithKeptConfig`). For the third, `TopologyIsTrue` says at rest that
only a lost event of an uplink of the resource's own bridges, or until the next
reconcile a start of its own server that failed, makes what is advertised untrue.
For the fourth, `ServersAreRegistered` says that nothing but a failed registration
leaves a running server unknown to a running kubelet once the watcher has reacted.

### Bounds

`MaxFaults` bounds failures, crashes, reboots and OVS changes together. Two are
enough for a failure followed by a failure of its own clean-up, and for a failure
followed by a crash. Two claims give every relation between claims the code can
tell apart: the same batch, one before the other, the same pod-local name. Two
devices give a rollback with something to undo. `MaxChanges` bounds what others
change: an addition and a removal, a bridge that goes and comes back, a kubelet
restart with a change. `QueueSize` stands for the 16 entries of `ifaceCh`: 2 so
that it is both partly filled and full. `Steps` stands for `Backoff.Steps`.
`MaxAccepted` is 2, so that one late call can end before the process does and the
next be cut off by it. `MayStop` lets the shutdown happen only in `policy`, to keep
the other instances small.
`Initial` is the contents of the database when the driver connects, which arrives
as add events in any order.

### Deadlock

The `Driver` and `Shutdown` runs check it: kubelet can always call. So do the
`Topology` runs, where kubelet keeps posting its node's status, except `policy`: after
a shutdown nothing more happens. `ClaimStatusUpdate` ends, so its run does not either.

### Fairness

`Driver`: weak fairness of the handler, whose calls all return or time out, and
strong fairness of kubelet's retries per claim, since kubelet retries each claim
with a backoff while calls for others come in between. No fairness of failures,
of the reconcilers or of the environment: `PrepareConverges` therefore assumes
that the configuration and the policy stay. `Shutdown`: weak fairness of the
handler and of the main goroutine once it is returning; none of signals, of kubelet
or of the helper. `ClaimStatusUpdate`: weak fairness of
the loop. `Topology`: weak fairness of each goroutine, of kubelet starting
again, and of the updates of its Node: kubelet posts them when it starts and
periodically, and the reconciler is queued by each. `TopologyConverges` rests on
the last; a driver at rest that is not woken keeps a failed start.

## What is proved

For any claims, pods, bridges, allocations, configuration entries, names and any
number of faults, of the handlers (`Spec` of `Driver`):

- `InductiveInvariant` (`DriverProofs`): `Spec => []IInv`
- `TypeCorrect` (`DriverProofs`): `Spec => []TypeOK`
- `PreparedClaimsAreBacked` (`DriverProofs`): `Spec => []PreparedIsBacked`
- `HandlersAdvance` (`DriverProofs`): `Spec => HandlerAdvances`
- `DriverImplementsPreparedClaims` (`PromiseProofs`):
  `Spec => ImplementsPreparedClaims`, that is `PreparedClaims!Spec` under the mapping
  of `DriverRefinement`
- `ResourcesAreAccountedFor` (`ResourceProofs`): `Spec => []ResourceInv`
- `OnlyExplainedLeaks` (`ResourceProofs`): `Spec => []LeaksAreExplained`
- `UnpreparedIsCleanUnlessLeaky` (`ResourceProofs`):
  `Spec => []UnpreparedIsCleanOrLeaky`
- `RecordsOutliveResources` (`ResourceProofs`): `Spec => RecordOutlivesResources`
- `IsolatedClaims` (`ResourceProofs`): `Spec => ClaimsAreIsolated`
- `PreparesFailForACause` (`ResourceProofs`): `Spec => PrepareFailsForACause`
- `ConfigMissesOnlyBetweenReads` (`ResourceProofs`): `Spec => PreparedWithKeptConfig`
- `ParsedAsRequested` (`PromiseProofs`): for every list of entries
  `parseClaimConfigs` with `getConfig` is `WellConfigured` with `RequestedConfig`
- `ConfigurationIsKept` (`PromiseProofs`): `Spec => []ConfigInv`
- `PortsAreConfiguredAsRequested` (`PromiseProofs`): `Spec => []PortsAreAsRequested`

of the handlers and the end of the process (`StopSpec` of `Shutdown`, any number of
late calls), in `ShutdownProofs`:

- `StopKeepsInvariants`: `StopSpec => [](IInv /\ ResourceInv)`, and from it the
  above: `PreparedIsBackedWhenStopped`, `ExplainedLeaksWhenStopped`,
  `UnpreparedIsCleanWhenStopped`, `ConfigurationIsKeptWhenStopped`,
  `PortsAsRequestedWhenStopped`, `StoppedDriverImplementsPreparedClaims`,
  `RecordsOutliveResourcesWhenStopped`, `IsolatedClaimsWhenStopped`,
  `PreparesFailForACauseWhenStopped`
- `WorkAdvancesWhenStopped`: `StopSpec => WorkAdvances`
- `StopIsAlwaysClean`: `StopSpec => StopIsClean`

of the status update, for any number of attempts, changes, keys and UIDs, in
`StatusProofs`: `StatusInvariant` (`[]StatusInv`), `StatusTypes`,
`ReplacementStaysUntouched`, `OtherEntriesAreKept`, `DoneIsRecorded`, and
`UpdateImplementsRecordedStatus` (`Spec => ImplementsRecordedStatus`);

of the topology path, for any bridges, uplinks, policies, resources, queue size,
changes and faults: `UplinksAreTracked` (`[]MonitorInv`) in `MonitorProofs`, and in
`TopologyProofs` `TopologyInvariantHolds` (`[]TopologyInvariant`), and from it
`TopologyTypes`, `SliceIsCurrentWhenSettled`, `TopologyIsTrueWhenSettled`,
`TopologyNeverConflicts`, `RunningIsRegistered` and `StopIsFinal`.

Assumptions: the named `ASSUME`s of the modules, all evaluated by TLC. They say that
allocations name known bridges and pods, that lists of entries and of policies are
lists of such records, that null values are not values, that `Uplink` is finite and
that bounds are natural numbers. The theorems about `Driver` and `Shutdown` have the
hypothesis `DistinctDirs` (two claims of one pod have different pod-local names).
Without it, unpreparing one claim removes the directory of another and
`PreparedIsBacked` is false. `IsolatedClaims`, `PreparesFailForACause` and their
counterparts have the further hypothesis `DistinctPrefixes` (no two claims agree in the 8 hex digits of the UID
that `ovsPortName` keeps); without it the unprepare of one claim can delete the port
of another, or find its port's name taken, and the two are false. The other theorems do not need it. Those about
the status update and the topology path have no hypothesis.

### The handlers

`PreparedIsBacked` is not inductive. That the record is complete when `Set` commits
depends on what the locals of the handler mean at each `pc`: `PrepareInv` says that
`devs` is the records of the results no longer in `todo`, that their directories
exist, and that at `set` the spec on disk is `devs`. That no step for another claim
takes a directory away needs that every record names directories of its own claim
(`RecordInv` and `RecordsOf`, with the lemmas `DirOwner` and `OtherDirs`). That a
cached result is right for the pod that asks needs what kubelet does (`KubeletInv`:
a recorded claim that is not being unprepared is held by the pod it was prepared
for). `ControlInv` ties `pc`, `op` and the locals together. `DriverProofs` has
facts about names and records, frame lemmas for the common endings of steps, one
lemma per action, in the order of a call, and the theorems.

The refinement rests on `IInv`. A claim is usable when it is recorded, its spec is
that of the record and the directories exist; so `Checkpoint` is the step that
makes it usable, because `IInv` says what is on disk at `set`, and the first step
of the undoing is the one that ends it, which `IInv` allows only while kubelet is
unpreparing: in a rollback the claim has no record. All other handler steps leave
the set of usable claims as it is, since they touch no recorded claim
(`UsableFrame`, `UnrecordedStep`) or one that is being dismantled
(`DismantlingStep`, `OthersBacked`). `Reply` may tell kubelet what it does because
`IInv` relates `ok` to the store.

`LeaksAreExplained` speaks of claims nobody works on, so its proof has to say where
the resources are while somebody does. `ResourceInv` does, for every claim that no
leaking failure hit: the existing directories and ports are those of `devs` and of
the device in hand (`InHand`) while it is prepared, those of `undo` while it is
rolled back, those of the record once it is committed, and none otherwise.
`UndoneInv` adds that an unprepare without an error has removed what it has got
through, which is what `Forget` needs for `RecordOutlivesResources`. `OwnInv` holds
also for the claims that were hit: their ports belong to their allocation and their
records are complete, so that a record still leads to everything it described.
`ResourceProofs` has one lemma per action, on top of `IInv`, and frame lemmas for
what steps share: a step that touches directories and ports of one claim only
leaves the accounts of the others as they are (`OtherAccounted`, with
`OtherClaimsDirs` from `DistinctDirs`), a rollback starts with `undo` equal to what
`devs` accounted for (`RollbackFrame`). `IsolatedClaims` follows from `OwnInv`: a
port found under a name of the claim at work is a port of that claim (`PortOwner`,
from `DistinctPrefixes`).

`PreparesFailForACause` looks at each step by which a prepare turns to failure. The
one that takes an argument is a refused port. Either its MTU is invalid, and by
`MtuInv` it is then the zero of a bridge no policy has, or its name is taken. By
`PortOwner` the port there is this claim's, and by `ResourceInv` a claim that is
being prepared and was hit by no leak has no ports but those of `devs`: so this call
has made it, for another device under the same request (`NameIsTaken`). That is how
a rollback, an unprepare or a crash before is shown not to be in the way.
`ConfigMissesOnlyBetweenReads` follows the configuration from its second read into
the directory, through the port and the spec to the record (`PermissionsInv`).

`HandlersAdvance` is the part of termination that is a matter of single steps. What
is left of a call is the claims of the batch, then the kind of work on the claim in
hand (`WorkLeft`), then the devices of that kind (`todo`, `undo`), then the steps for
the device (`StepsLeft`); each step makes the first of these that changes smaller.
That such a descent ends when claims and devices are finitely many is not stated
inside the prover.

`PortsAreAsRequested` compares what the handlers wrote with a definition that has no
loop, so its proof has two parts. `ConfigInv` is the inductive one: a claim with a
bad entry is never worked on, and a port has the parameters `portConfig` gives its
request. `ParsedAsRequested` is about the loop. It is an induction over the entries:
`ParseDefined` shows that the recursive function has a value after every entry, and
`ParseStep` that the result after `n` entries is, for each request, the last of the
first `n` that applies. The induction is stated for a set of numbers
(`NatSetInduction` of `SequenceLemmas`), because the provers cannot instantiate a
theorem whose parameter is an operator.

### The end of the process

Four steps of `Shutdown` are none of `Driver`'s (`StopSteps`): a closed store, the two
transactions of a closed client, and `Exit`. Each keeps `IInv`, `ResourceInv` and
`ConfigInv`, and none touches the node or what kubelet knows (`StopStepKeeps`), which
gives the refinement and the action properties. `StopIsClean` needs `LateInv`: a
handler that was entered before `Wait` returned runs only while the store is open and
the client connected, so that the steps on a closed store or client, which can leave
resources behind without a failure, are steps of late handlers only. `WaitHandlers` is
the step that makes it true. A closed store
or client sends a handler to its rollback or its reply, never back (`WorkAdvances`),
so that `Wait` waits for something that ends.

### The status update

`StatusInv` says of the copy in hand that it is of the claim asked for, has exactly
the driver's own entries, and is not newer than the object; if it is as new, the
other drivers' entries agree. That is what makes an accepted write harmless, and
what makes it the step `Record` of `RecordedStatus` (`WriteRecords`): the entries
written are those of the moment of the write, not of the read. A write whose reply
is lost is a `Record` that leaves the loop running; the attempt that follows records
the same again. Conflicts and refreshes change nothing that can be seen
(`IdleRecords`).

### The topology path

At rest, `TopologyIsTrue` relates the database to the servers, with three queues and
four goroutines between them. `TopologyInvariant` says what holds on the way.

- `MonitorInv` needs nothing of the others. Each uplink on a bridge is announced in
  `events` or `ifaceCh`, in the worker's hands or in `numaMap` under its bridge; each
  entry of one that is gone has its removal on the way, unless an event was lost
  (`UplinkInv`, `EntriesInv`). `WipeInv` is about names that are used again: between
  the deletion of a bridge and the wipe of its entries, everything that belongs to a
  new bridge of that name is announced later, so the wipe takes nothing from it.
  It needs the order of events (`Follows`). It is kept because the cache goroutine
  handles no event between the notifier and the wipe.
- `SliceInv` and `ValidInv` are about the reconciler. No bridge changes without an
  event, no event is handled without a trigger, no trigger is taken without a
  request (`BridgesFrame`, `QuietStep`); so a reconciler with nothing to do has
  worked with the present bridges and policies.
- `ServerInv` uses both: when nothing is queued each server is right, its start has
  failed in `OnInterfaceChange` since the last reconcile, or the worker is about to notify its bridge. The
  entries of another bridge do not matter (`ConsistentLocal`), and the bridge whose
  entries are wiped has no resource (`WipeServers`, from `WipeInv`).
- `StopInv`: before the controllers start there is no server; after `StopAll` the
  context is done, and no server can be registered or, therefore, started.

`SettledEntries` and `SettledNode` then identify `numaMap` with the database and
`getConsistentNUMA` with `TrueNode` when nothing is under way, for the bridges of one
resource: an event lost elsewhere does not matter (`Observed`).

## Only model-checked

All liveness (`UnprepareConverges`, `PrepareConverges`, `StopEnds`, `UpdateEnds`,
`TopologyConverges`): fairness and `ENABLED` are beyond the prover; what is proved of
termination is the descent of `HandlerAdvances` and `WorkAdvances`. The four
properties that fail are shown by counterexamples.

## Not modelled

Device attributes and metadata, the text of CDI specs and of JSON, the steps inside
applying ownership, label and ACLs (one value, applied or not), name lookups of
users and groups and their cache, flags and logging, generated code and mocks: data
no property tells apart, or no state at all. The answers of the Device Plugin
servers depend only on the NUMA node. Reconnection to OVSDB is libovsdb's, and rows
that are updated in place have no handler in the code. What kubelet does with the
sockets of Device Plugins when it starts is kubelet's; the model takes a
registration to be enough, as `reregisterAll` does. That a pod prepared while its
bridge was gone has no port is in the model, and no property promises it one.
