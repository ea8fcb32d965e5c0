------------------------------ MODULE Topology ------------------------------
(***************************************************************************)
(* The monitor of the OVS client, the policy reconciler and the Device     *)
(* Plugin manager at work together, while the bridges, the uplinks, the    *)
(* policy and kubelet change around them.                                  *)
(*                                                                         *)
(* run() in cmd/dra-driver-ovsdpdk/main.go wires them up in three steps:   *)
(* the OVS client first, which sees bridges and uplinks with no notifier   *)
(* set, then the manager, then the reconciler.  On a signal, or when the   *)
(* controller manager fails, the context is cancelled and run() returns    *)
(* through its deferred calls; it does not wait for the goroutines.        *)
(***************************************************************************)
EXTENDS ResourcePolicy

CONSTANTS
  MaxChanges,   \* bound on the changes of database, policy and kubelet
  MaxFaults,    \* bound on calls that fail although kubelet runs
  MayStop       \* whether the driver is ever shut down

ASSUME BoundsAssumption == MaxChanges \in Nat /\ MaxFaults \in Nat /\ MayStop \in BOOLEAN

VARIABLES
  stage,        \* "client", "manager", "controller" or "started"
  stopped,      \* the deferred StopAll has run
  changes,
  faults

boundVars == <<changes, faults>>
stageVars == <<stage, stopped>>
vars == <<monitorVars, managerVars, policyVars, stageVars, boundVars>>

TopologyTypeOK ==
  /\ MonitorTypeOK
  /\ ManagerTypeOK
  /\ PolicyTypeOK
  /\ stage \in {"client", "manager", "controller", "started"}
  /\ stopped \in BOOLEAN
  /\ changes \in 0 .. MaxChanges
  /\ faults \in 0 .. MaxFaults

Init ==
  /\ MonitorInit
  /\ ManagerInit
  /\ PolicyInit
  /\ stage = "client"
  /\ stopped = FALSE
  /\ changes = 0
  /\ faults = 0

Fault == faults < MaxFaults /\ faults' = faults + 1

(* Starts and registrations fail while kubelet is down and once the        *)
(* context is cancelled, else as a fault.                                  *)
MayFail(failing) ==
  IF Reachable /\ failing # {} THEN Fault ELSE UNCHANGED faults

(* A call of the database or the API fails as a fault, or for its context. *)
CallFails == IF ctxDone THEN UNCHANGED faults ELSE Fault

-----------------------------------------------------------------------------
(* Start-up: NewManager sets the interface notifier, SetupWithManager the  *)
(* bridge notifier; when the controllers start, the sync request is queued *)
(* for the node and for every policy.                                      *)

NewManager ==
  /\ stage = "client" /\ ~stopped
  /\ stage' = "manager"
  /\ UNCHANGED <<monitorVars, managerVars, policyVars, stopped, boundVars>>

SetupWithManager ==
  /\ stage = "manager" /\ ~stopped
  /\ stage' = "controller"
  /\ UNCHANGED <<monitorVars, managerVars, policyVars, stopped, boundVars>>

StartControllers ==
  /\ stage = "controller" /\ ~stopped
  /\ stage' = "started"
  /\ queued' = TRUE
  /\ UNCHANGED <<monitorVars, managerVars, cluster, trigger, reconcile, activeBridges,
                 deviceVars, stopped, boundVars>>

HasIfaceNotifier == stage # "client"
HasBridgeNotifier == stage \in {"controller", "started"}

-----------------------------------------------------------------------------
(* The cache goroutine.                                                    *)

HandleBridgeEvent ==
  /\ \E b \in Bridge : BridgeAddFunc(b) \/ BridgeDeleteFunc(b)
  /\ IF HasBridgeNotifier THEN NotifyBridge ELSE UNCHANGED trigger
  /\ UNCHANGED <<managerVars, cluster, queued, reconcile, activeBridges, deviceVars,
                 stageVars, boundVars>>

HandleOther ==
  /\ WipeBridge \/ \E u \in Uplink : InterfaceFunc(u)
  /\ UNCHANGED <<managerVars, policyVars, stageVars, boundVars>>

(* The goroutine of processInterfaceEvents.                                *)
ProcessInterfaceEvent ==
  /\ StoreNode \/ \E u \in Uplink : LookupUplink(u) \/ ForgetUplink(u)
  /\ UNCHANGED <<managerVars, policyVars, stageVars, boundVars>>

LoseInterfaceEvent ==
  /\ \E u \in Uplink : LookupFails(u)
  /\ CallFails
  /\ UNCHANGED <<managerVars, policyVars, stageVars, changes>>

NotifyInterface ==
  /\ Notified
  /\ IF HasIfaceNotifier
       THEN \E b \in worker.bridge, failing \in SUBSET Resource :
              OnInterfaceChange(b, failing) /\ MayFail(failing)
       ELSE UNCHANGED <<managerVars, faults>>
  /\ UNCHANGED <<policyVars, stageVars, changes>>

-----------------------------------------------------------------------------
(* The reconciler's goroutines.                                            *)

Trigger ==
  /\ stage = "started"
  /\ DrainTrigger
  /\ UNCHANGED <<monitorVars, managerVars, stageVars, boundVars>>

(* The node or the policies cannot be read, or the cache: tried again.     *)
ReadFails ==
  /\ reconcile = "idle" /\ queued
  /\ Fault
  /\ UNCHANGED <<monitorVars, managerVars, policyVars, stageVars, changes>>

Reconcile ==
  /\ CollectBridges \/ UpdatePolicyDevices \/ UpdatePolicyDevicesRefused
  /\ UNCHANGED <<monitorVars, managerVars, stageVars, boundVars>>

PublishFails ==
  /\ RepublishFails
  /\ CallFails
  /\ UNCHANGED <<monitorVars, managerVars, stageVars, changes>>

ReconcileResources ==
  /\ \/ \E failing \in SUBSET Resource :
          /\ UpdateResources(activeBridges, failing)
          /\ MayFail(failing)
          /\ IF failing = {} THEN ResourcesUpdated ELSE ResourcesFailed
     \/ /\ Conflicting(activeBridges)
        /\ ResourcesFailed
        /\ UNCHANGED <<managerVars, faults>>
  /\ UNCHANGED <<monitorVars, stageVars, changes>>

(* The goroutine that watches kubelet's socket, from NewManager on.        *)
WatchKubelet ==
  /\ stage # "client"
  /\ \E failing \in SUBSET Resource : ReregisterAll(failing) /\ MayFail(failing)
  /\ UNCHANGED <<monitorVars, policyVars, stageVars, changes>>

-----------------------------------------------------------------------------
(* The environment.                                                        *)

Change == changes < MaxChanges /\ changes' = changes + 1

DatabaseChanges ==
  /\ Change
  /\ \/ \E b \in Bridge : AddBridge(b) \/ DeleteBridge(b)
     \/ \E u \in Uplink : DeleteUplink(u) \/ \E b \in Bridge : AddUplink(u, b)
  /\ UNCHANGED <<managerVars, policyVars, stageVars, faults>>

(* The watches of the policies and of the node queue the request.          *)
PolicyUpdate ==
  /\ Change
  /\ \E k \in Clusters : PolicyChanges(k)
  /\ queued' = (queued \/ stage = "started")
  /\ UNCHANGED <<monitorVars, managerVars, stageVars, faults>>

(* Mutant: the watch of the node lets only changes of the labels through.  *)
NodeUpdateFiltered ==
  /\ kubelet /\ stage = "started"
  /\ UNCHANGED vars

(* The node is updated with its labels as they were: kubelet posts its     *)
(* status when it starts and from time to time (external).  The watch of   *)
(* the node looks at nothing but the name.                                 *)
NodeUpdate ==
  /\ kubelet /\ stage = "started"
  /\ queued' = TRUE
  /\ UNCHANGED <<monitorVars, managerVars, cluster, trigger, reconcile, activeBridges,
                 deviceVars, stageVars, boundVars>>

KubeletDown ==
  /\ Change
  /\ KubeletStops
  /\ UNCHANGED <<monitorVars, policyVars, stageVars, faults>>

KubeletUp ==
  /\ KubeletStarts
  /\ UNCHANGED <<monitorVars, policyVars, stageVars, boundVars>>

-----------------------------------------------------------------------------
(* The end of run().                                                       *)

(* A signal arrives, or the controller manager has failed.                 *)
CancelContext ==
  /\ MayStop /\ ~ctxDone
  /\ ctxDone' = TRUE
  /\ UNCHANGED <<monitorVars, topology, servers, kubelet, created, registered, missed,
                 refused, policyVars, stageVars, boundVars>>

(* The deferred StopAll: after the wait for the context, or after an error *)
(* between NewManager and the start of the controllers.                    *)
Return ==
  /\ MayStop /\ ~stopped /\ stage # "client"
  /\ stage = "started" => ctxDone
  /\ StopAll
  /\ stopped' = TRUE
  /\ UNCHANGED <<monitorVars, policyVars, stage, boundVars>>

-----------------------------------------------------------------------------
Startup == NewManager \/ SetupWithManager \/ StartControllers
CacheGoroutine == HandleBridgeEvent \/ HandleOther
Worker == ProcessInterfaceEvent \/ LoseInterfaceEvent \/ NotifyInterface
Controller == ReadFails \/ Reconcile \/ PublishFails \/ ReconcileResources

Next ==
  \/ Startup \/ CacheGoroutine \/ Worker \/ Trigger \/ Controller \/ WatchKubelet
  \/ DatabaseChanges \/ PolicyUpdate \/ NodeUpdate \/ KubeletDown \/ KubeletUp
  \/ CancelContext \/ Return

Spec == Init /\ [][Next]_vars

(* Every goroutine of the driver runs on; kubelet is started again, and    *)
(* keeps posting the status of its node.                                   *)
FairSpec ==
  /\ Spec
  /\ WF_vars(Startup)
  /\ WF_vars(CacheGoroutine)
  /\ WF_vars(Worker)
  /\ WF_vars(Trigger)
  /\ WF_vars(Controller)
  /\ WF_vars(WatchKubelet)
  /\ WF_vars(KubeletUp)
  /\ WF_vars(NodeUpdate)

-----------------------------------------------------------------------------
(* The bridges the policies ask for on this node, as far as they exist.    *)
Wanted == Present(MatchingBridges(cluster))

(* The NUMA node the Device Plugin of a resource ought to advertise, by    *)
(* the database and the policies: the one all its bridges' uplinks are on, *)
(* if each of its bridges has one.                                         *)
TrueNode(r) ==
  LET members == BridgesOf(TopologyOf(Wanted), r)
      uplinks == {u \in Resolvable : where[u] \in members}
      home == {n \in {Numa[u] : u \in uplinks} : n >= 0 /\ \A u \in uplinks : Numa[u] = n} IN
  IF members = {where[u] : u \in uplinks} /\ home # {}
  THEN CHOOSE n \in home : TRUE ELSE NoServer

(* No uplink whose event was dropped is on a bridge of the resource, or is *)
(* still held to be.                                                       *)
Observed(r) ==
  LET members == BridgesOf(TopologyOf(Wanted), r) IN
  \A u \in lost : where[u] \notin members /\ \A b \in members : <<b, u>> \notin numaMap

Settled ==
  /\ stage = "started" /\ ~ctxDone
  /\ MonitorSettled
  /\ PolicySettled

(* Whenever the driver has nothing left to do, each Device Plugin tells    *)
(* the truth: it advertises the NUMA node its bridges are on, and there is *)
(* none for a resource with no such node.  The exceptions are the events   *)
(* the driver drops, which harm no resource but that of the uplink's       *)
(* bridge, and a start that OnInterfaceChange only logged, whose resource  *)
(* has no server until the next reconcile.                                 *)
TopologyIsTrue ==
  Settled =>
    \A r \in Resource : Observed(r) =>
      servers[r] = TrueNode(r) \/ (r \in missed /\ servers[r] = NoServer)

(* Whenever the driver has nothing left to do, the ResourceSlice and the   *)
(* allocatable devices are the bridges wanted on the node that exist.      *)
SliceIsCurrent ==
  Settled => published = Wanted /\ allocatable = published

(* A topology resource is never in dispute in UpdateResources:             *)
(* UpdatePolicyDevices has turned down a list with a bridge in it twice.   *)
NoTopologyConflict ==
  reconcile = "resources" => ~Conflicting(activeBridges)

(* A running server is known to kubelet, except between a restart of       *)
(* kubelet and the watcher's reaction, or when the registration failed.    *)
ServersAreRegistered ==
  (kubelet /\ ~created) => Running \subseteq registered \cup refused

(* Whatever the goroutines run() did not wait for still do after StopAll,  *)
(* none of them brings a Device Plugin back: the node is left with no      *)
(* server and kubelet with no plugin of the driver.                        *)
StoppedForGood ==
  stopped => Running = {} /\ registered = {}

(* Once changes and faults are over, every resource has, and keeps, the    *)
(* server README.md ("How it works") promises: for the node all its        *)
(* bridges are on, none if there is no such node.  A start that failed     *)
(* while kubelet was down and was only logged is made up for by the next   *)
(* reconcile, which an update of the node brings.  A dropped event is not  *)
(* made up for; it harms no resource but that of the uplink's bridge.      *)
TopologyConverges ==
  <>[](\A r \in Resource : Observed(r) => servers[r] = TrueNode(r))

-----------------------------------------------------------------------------
(* README.md, "Requirements": if bridges that share a topologyResource     *)
(* span NUMA nodes, their Device Plugin is not started.  Read when the     *)
(* driver has nothing left to do.                                          *)
SpanningIsNotAdvertised ==
  Settled => \A r \in Resource : TrueNode(r) = NoServer => servers[r] = NoServer

(* manager.go, startKubeletWatcher: all running Device Plugin servers are  *)
(* registered again when kubelet's socket is recreated.  Read once changes *)
(* and faults are over.                                                    *)
RunningIsReregistered == <>[](Running \subseteq registered)
=============================================================================
