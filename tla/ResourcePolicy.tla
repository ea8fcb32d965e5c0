--------------------------- MODULE ResourcePolicy ---------------------------
(***************************************************************************)
(* The OvsDpdkResourcePolicy reconciler of pkg/controllers, with the part  *)
(* of pkg/devicestate and pkg/driver it calls: the bridges that exist and  *)
(* that the policies select become the allocatable devices, are published  *)
(* as a ResourceSlice, and are handed to the Device Plugin manager.        *)
(*                                                                         *)
(* The API server (external) has the labels of the node and the policies,  *)
(* each with a node selector and a list of bridge specs.  There is one     *)
(* request, the sync request, so the work queue is a flag; a request that  *)
(* fails is queued again.                                                  *)
(***************************************************************************)
EXTENDS TopologyManager

CONSTANTS
  Label,    \* labels a node can have
  Clusters  \* the labels of the node and the policies that occur together

BridgeSpec == [name : Bridge, mtu : Nat, resource : Resource \cup {NoResource}]

(* A term is the labels it asks for; parses says that every term is valid. *)
NodeSelector == [terms : SUBSET SUBSET Label, parses : BOOLEAN]

Policy == [selector : NodeSelector, bridges : Seq(BridgeSpec)]

ASSUME ClusterAssumption ==
  \A k \in Clusters : k.labels \subseteq Label /\ k.policies \in Seq(Policy)

VARIABLES
  cluster,       \* what the API server has
  trigger,       \* triggerChan holds an event
  queued,        \* the work queue holds the sync request
  reconcile,     \* "idle", "policy" or "resources": the next call of Reconcile
  activeBridges, \* the specs it collected
  allocatable,   \* the specs in DeviceState
  published      \* the specs in the ResourceSlice

queueVars == <<cluster, trigger, queued>>
deviceVars == <<allocatable, published>>
policyVars == <<queueVars, reconcile, activeBridges, deviceVars>>

PolicyTypeOK ==
  /\ cluster \in Clusters
  /\ trigger \in BOOLEAN
  /\ queued \in BOOLEAN
  /\ reconcile \in {"idle", "policy", "resources"}
  /\ {activeBridges, allocatable, published} \subseteq Seq(BridgeSpec)

PolicyInit ==
  /\ cluster \in Clusters
  /\ trigger = FALSE
  /\ queued = FALSE
  /\ reconcile = "idle"
  /\ activeBridges = <<>>
  /\ allocatable = <<>>
  /\ published = <<>>

(* A nil selector and one without terms match every node, an empty term    *)
(* none.                                                                   *)
matchesNodeSelector(labels, ns) ==
  \/ ns.terms = {}
  \/ ns.parses /\ \E term \in ns.terms : term # {} /\ term \subseteq labels

(* The bridge specs of all policies that match the node.                   *)
MatchingBridges(k) ==
  FlattenSeq([i \in DOMAIN k.policies |->
                IF matchesNodeSelector(k.labels, k.policies[i].selector)
                THEN k.policies[i].bridges ELSE <<>>])

(* The specs of bridges in the client's cache.                             *)
Present(specs) ==
  FlattenSeq([i \in DOMAIN specs |-> IF specs[i].name \in bridges THEN <<specs[i]>> ELSE <<>>])

ValidMTU == 68 .. 65535

Valid(specs) ==
  /\ \A i, j \in DOMAIN specs : specs[i].name = specs[j].name => i = j
  /\ \A i \in DOMAIN specs : specs[i].mtu \in ValidMTU

-----------------------------------------------------------------------------
(* Mutant: the notifier is never told.                                     *)
NotifyNobody == trigger' = trigger

(* The notifier set by SetupWithManager: an event that finds triggerChan   *)
(* full is dropped.                                                        *)
NotifyBridge == trigger' = TRUE

(* The source of the controller moves the event to the work queue.         *)
DrainTrigger ==
  /\ trigger
  /\ trigger' = FALSE
  /\ queued' = TRUE
  /\ UNCHANGED <<cluster, reconcile, activeBridges, deviceVars>>

(* Policies, or the labels of the node, change.                            *)
PolicyChanges(k) ==
  /\ k # cluster
  /\ cluster' = k
  /\ UNCHANGED <<trigger, reconcile, activeBridges, deviceVars>>

-----------------------------------------------------------------------------
(* Reconcile up to the call of UpdatePolicyDevices.                        *)
CollectBridges ==
  /\ reconcile = "idle"
  /\ queued
  /\ queued' = FALSE
  /\ activeBridges' = Present(MatchingBridges(cluster))
  /\ reconcile' = "policy"
  /\ UNCHANGED <<cluster, trigger, deviceVars>>

(* Reconcile returns an error.                                             *)
Requeue ==
  /\ queued' = TRUE
  /\ reconcile' = "idle"
  /\ activeBridges' = <<>>

(* Mutant: a bridge may occur twice.                                       *)
UpdateAnyPolicyDevices ==
  /\ reconcile = "policy"
  /\ \A i \in DOMAIN activeBridges : activeBridges[i].mtu \in ValidMTU
  /\ allocatable' = activeBridges
  /\ published' = activeBridges
  /\ reconcile' = "resources"
  /\ UNCHANGED <<queueVars, activeBridges>>

(* UpdatePolicyDevices, with the republish callback.                       *)
UpdatePolicyDevices ==
  /\ reconcile = "policy"
  /\ Valid(activeBridges)
  /\ allocatable' = activeBridges
  /\ published' = activeBridges
  /\ reconcile' = "resources"
  /\ UNCHANGED <<queueVars, activeBridges>>

UpdatePolicyDevicesRefused ==
  /\ reconcile = "policy"
  /\ ~Valid(activeBridges)
  /\ Requeue
  /\ UNCHANGED <<cluster, trigger, deviceVars>>

RepublishFails ==
  /\ reconcile = "policy"
  /\ Valid(activeBridges)
  /\ allocatable' = activeBridges
  /\ Requeue
  /\ UNCHANGED <<cluster, trigger, published>>

(* Reconcile returns after UpdateResources.                                *)
ResourcesUpdated ==
  /\ reconcile = "resources"
  /\ reconcile' = "idle"
  /\ activeBridges' = <<>>
  /\ UNCHANGED <<queueVars, deviceVars>>

ResourcesFailed ==
  /\ reconcile = "resources"
  /\ Requeue
  /\ UNCHANGED <<cluster, trigger, deviceVars>>

PolicySettled == reconcile = "idle" /\ ~queued /\ ~trigger
=============================================================================
