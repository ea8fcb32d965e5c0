--------------------------- MODULE TopologyProofs ---------------------------
(***************************************************************************)
(* The monitor, the reconciler and the Device Plugin manager, for any      *)
(* number of bridges, uplinks, policies, changes and faults and any        *)
(* capacity of ifaceCh: TopologyInvariant is kept by every step of every   *)
(* goroutine, and the safety properties of Topology follow from it.        *)
(*                                                                         *)
(* The proof goes by component.  The invariant of the monitor needs no     *)
(* other (MonitorProofs); the one of the reconciler needs that a bridge    *)
(* does not change without an event; the servers need both.                *)
(***************************************************************************)
EXTENDS MonitorProofs

(* First-order leaves go to Zenon; a leaf for the SMT solver says SMTT.    *)
USE ZenonT(60), SMTT(60)

-----------------------------------------------------------------------------
(* The lists of bridges.                                                   *)

(* A list of lists, given for each element of another list.                *)
LEMMA ListOfLists ==
  ASSUME NEW S, NEW T, NEW l \in Seq(T), NEW f, DOMAIN f = DOMAIN l,
         \A i \in DOMAIN l : f[i] \in Seq(S), f = [i \in DOMAIN l |-> f[i]]
  PROVE  FlattenSeq(f) \in Seq(S)
<1>1. f \in Seq(Seq(S))
  BY SMTT(60)
<1> QED
  BY <1>1, FlattenType

(* The specs of matching policies are a list of specs.                     *)
LEMMA MatchingType ==
  ASSUME NEW k \in Clusters
  PROVE  MatchingBridges(k) \in Seq(BridgeSpec)
<1> DEFINE f == [i \in DOMAIN k.policies |->
                   IF matchesNodeSelector(k.labels, k.policies[i].selector)
                   THEN k.policies[i].bridges ELSE <<>>]
<1>1. k.policies \in Seq(Policy)
  BY ClusterAssumption
<1>2. \A i \in DOMAIN k.policies : k.policies[i] \in Policy
  BY SMTT(60), <1>1
<1>3. \A p \in Policy : p.bridges \in Seq(BridgeSpec)
  BY DEF Policy
<1>4. <<>> \in Seq(BridgeSpec)
  BY SMTT(60)
<1>5. \A i \in DOMAIN k.policies : f[i] \in Seq(BridgeSpec)
  BY <1>2, <1>3, <1>4
<1>6. DOMAIN f = DOMAIN k.policies /\ f = [i \in DOMAIN k.policies |-> f[i]]
  OBVIOUS
<1>7. MatchingBridges(k) = FlattenSeq(f)
  BY DEF MatchingBridges
<1> HIDE DEF f
<1> QED
  BY <1>1, <1>5, <1>6, <1>7, ListOfLists

(* Present keeps specs of bridges that exist.                              *)
LEMMA PresentType ==
  ASSUME NEW specs \in Seq(BridgeSpec)
  PROVE  Present(specs) \in Seq({s \in BridgeSpec : s.name \in bridges})
<1> DEFINE S == {s \in BridgeSpec : s.name \in bridges}
           f == [i \in DOMAIN specs |-> IF specs[i].name \in bridges THEN <<specs[i]>> ELSE <<>>]
<1>1. \A i \in DOMAIN specs : specs[i] \in BridgeSpec
  BY SMTT(60)
<1>2. <<>> \in Seq(S) /\ \A x \in S : <<x>> \in Seq(S)
  <2> HIDE DEF S
  <2> QED
    BY SMTT(60)
<1>3. \A i \in DOMAIN specs : f[i] \in Seq(S)
  <2>1. \A i \in DOMAIN specs : specs[i].name \in bridges => specs[i] \in S
    BY <1>1
  <2> HIDE DEF S
  <2> QED
    BY <1>2, <2>1
<1>4. DOMAIN f = DOMAIN specs /\ f = [i \in DOMAIN specs |-> f[i]]
  OBVIOUS
<1>5. Present(specs) = FlattenSeq(f)
  BY DEF Present
<1> HIDE DEF f, S
<1>6. FlattenSeq(f) \in Seq(S)
  BY <1>3, <1>4, ListOfLists
<1> QED
  BY <1>5, <1>6 DEF S

(* What is wanted is a list of specs of bridges that exist.                *)
LEMMA WantedType ==
  ASSUME cluster \in Clusters
  PROVE  /\ Wanted \in Seq(BridgeSpec)
         /\ \A i \in DOMAIN Wanted : Wanted[i].name \in bridges
<1>1. Wanted \in Seq({s \in BridgeSpec : s.name \in bridges})
  BY MatchingType, PresentType DEF Wanted
<1> QED
  BY SMTT(60), <1>1

(* A bridge that does not exist has no resource.                           *)
LEMMA AbsentHasNone ==
  ASSUME cluster \in Clusters, NEW b \in Bridge, b \notin bridges
  PROVE  TopologyOf(Wanted)[b] = NoResource
<1>1. {j \in DOMAIN Wanted : Wanted[j].name = b} = {}
  BY WantedType
<1> QED
  BY <1>1 DEF TopologyOf

(* The topology of a list of specs gives a bridge one resource or none.    *)
LEMMA TopologyType ==
  ASSUME NEW specs \in Seq(BridgeSpec)
  PROVE  TopologyOf(specs) \in [Bridge -> Resource \cup {NoResource}]
<1>1. \A i \in DOMAIN specs : specs[i] \in BridgeSpec
  BY SMTT(60)
<1>2. \A i \in DOMAIN specs : specs[i].resource \in Resource \cup {NoResource}
  BY <1>1 DEF BridgeSpec
<1> SUFFICES ASSUME NEW b \in Bridge
             PROVE  TopologyOf(specs)[b] \in Resource \cup {NoResource}
  BY DEF TopologyOf
<1> DEFINE res == {specs[i].resource : i \in {j \in DOMAIN specs : specs[j].name = b}} \ {NoResource}
<1>3. TopologyOf(specs)[b] = IF res = {} THEN NoResource ELSE CHOOSE r \in res : TRUE
  BY DEF TopologyOf
<1>4. res \subseteq Resource
  BY <1>2
<1> HIDE DEF res
<1>5. res # {} => (CHOOSE r \in res : TRUE) \in res
  OBVIOUS
<1> QED
  BY <1>3, <1>4, <1>5

-----------------------------------------------------------------------------
(* What getConsistentNUMA and ensureServer do.                             *)

(* The node that is found is one of the given nodes.                       *)
LEMMA ConsistentType ==
  ASSUME NEW nodes, NEW V, NEW brNames, \A b \in brNames : nodes[b] \subseteq V
  PROVE  getConsistentNUMA(nodes, brNames) \in {NoServer} \cup V
<1> DEFINE common == {n \in UNION {nodes[b] : b \in brNames} :
                        n >= 0 /\ \A b \in brNames : nodes[b] = {n}}
<1>1. getConsistentNUMA(nodes, brNames) = IF common = {} THEN NoServer ELSE CHOOSE n \in common : TRUE
  BY DEF getConsistentNUMA
<1>2. common \subseteq V
  OBVIOUS
<1> HIDE DEF common
<1>3. common # {} => (CHOOSE n \in common : TRUE) \in common
  OBVIOUS
<1> QED
  BY <1>1, <1>2, <1>3

(* It looks at the nodes of the given bridges only.                        *)
LEMMA ConsistentLocal ==
  ASSUME NEW n1, NEW n2, NEW brNames, \A b \in brNames : n1[b] = n2[b]
  PROVE  getConsistentNUMA(n1, brNames) = getConsistentNUMA(n2, brNames)
<1>1. {n1[b] : b \in brNames} = {n2[b] : b \in brNames}
  OBVIOUS
<1>2. {n \in UNION {n1[b] : b \in brNames} : n >= 0 /\ \A b \in brNames : n1[b] = {n}}
        = {n \in UNION {n2[b] : b \in brNames} : n >= 0 /\ \A b \in brNames : n2[b] = {n}}
  BY <1>1
<1> QED
  BY SMTT(60), <1>2 DEF getConsistentNUMA

ServerType == {NoServer} \cup {Numa[u] : u \in Uplink}

(* It is the node of an uplink.                                            *)
LEMMA NodeType ==
  ASSUME NEW S, S \subseteq Bridge
  PROVE  getConsistentNUMA(Nodes, S) \in ServerType
<1>1. \A b \in S : Nodes[b] \subseteq {Numa[u] : u \in Uplink}
  BY DEF Nodes, BridgeNUMANodes
<1> QED
  BY <1>1, ConsistentType DEF ServerType

(* ensureServer leaves the servers of rs right or stopped, keeps the other *)
(* servers, and what is registered.                                        *)
LEMMA EnsureFacts ==
  ASSUME ManagerTypeOK, NEW t, NEW rs \in SUBSET Resource, NEW failing, ensureServer(t, rs, failing)
  PROVE  /\ failing \subseteq rs
         /\ servers' \in [Resource -> ServerType]
         /\ registered' \subseteq Resource /\ refused' \subseteq Resource
         /\ \A r \in Resource \ rs : servers'[r] = servers[r]
         /\ \A r \in rs \ failing : servers'[r] = getConsistentNUMA(Nodes, BridgesOf(t, r))
         /\ \A r \in failing : servers'[r] = NoServer
         /\ registered \subseteq Running => registered' \subseteq Running'
         /\ Running \subseteq registered \cup refused => Running' \subseteq registered' \cup refused'
         /\ ctxDone /\ Running = {} => Running' = {} /\ (registered = {} => registered' = {})
<1> DEFINE right(r) == getConsistentNUMA(Nodes, BridgesOf(t, r))
           node(r) == IF r \in failing THEN NoServer ELSE right(r)
           changed == {r \in rs : node(r) # servers[r]}
           starting == Starts(t) \cap rs
<1>1. /\ failing \subseteq starting /\ (~Reachable => failing = starting)
      /\ servers' = [r \in Resource |-> IF r \in rs THEN node(r) ELSE servers[r]]
      /\ registered' = (registered \ changed) \cup (starting \ failing)
      /\ refused' = refused \ changed
  BY DEF ensureServer, Start, AfterStop
<1>2. \A r \in Resource : right(r) \in ServerType
  <2>1. \A r \in Resource : BridgesOf(t, r) \subseteq Bridge
    BY DEF BridgesOf
  <2> QED
    BY <2>1, NodeType
<1>3. starting = {r \in rs : right(r) # NoServer /\ right(r) # servers[r]}
  BY DEF Starts
<1> HIDE DEF right
<1>4. servers \in [Resource -> ServerType] /\ NoServer \in ServerType
  BY DEF ManagerTypeOK, ServerType
<1>5. servers' \in [Resource -> ServerType]
  BY <1>1, <1>2, <1>4
<1>6. \A r \in Resource : servers'[r] = IF r \in rs THEN node(r) ELSE servers[r]
  BY <1>1
<1>7. registered' \subseteq Resource /\ refused' \subseteq Resource /\ failing \subseteq rs
  BY <1>1 DEF ManagerTypeOK
<1>8. registered \subseteq Running => registered' \subseteq Running'
  <2> SUFFICES ASSUME registered \subseteq Running, NEW r \in registered'
               PROVE  r \in Running'
    OBVIOUS
  <2>1. CASE r \in starting \ failing
    BY <1>3, <1>6, <2>1 DEF Running
  <2>2. CASE r \in registered \ changed
    BY <1>6, <2>2 DEF Running
  <2> QED
    BY <1>1, <2>1, <2>2
<1>9. Running \subseteq registered \cup refused => Running' \subseteq registered' \cup refused'
  <2> SUFFICES ASSUME Running \subseteq registered \cup refused, NEW r \in Resource,
                      servers'[r] # NoServer
               PROVE  r \in registered' \cup refused'
    BY DEF Running
  <2>1. CASE servers'[r] = servers[r]
    <3>1. r \notin changed
      BY <1>6, <2>1
    <3> QED
      BY <1>1, <2>1, <3>1 DEF Running
  <2>2. CASE servers'[r] # servers[r]
    <3>1. r \in starting \ failing
      BY <1>3, <1>6, <2>2
    <3> QED
      BY <1>1, <3>1
  <2> QED
    BY <2>1, <2>2
<1>10. ASSUME ctxDone, Running = {}
       PROVE  Running' = {} /\ (registered = {} => registered' = {})
  <2>1. failing = starting
    BY <1>1, <1>10 DEF Reachable
  <2>2. \A r \in Resource : servers'[r] = NoServer
    BY <1>3, <1>6, <1>10, <2>1 DEF Running
  <2> QED
    BY <1>1, <2>1, <2>2 DEF Running
<1>11. \A r \in rs \ failing : servers'[r] = getConsistentNUMA(Nodes, BridgesOf(t, r))
  BY <1>6 DEF right
<1> QED
  BY <1>5, <1>6, <1>7, <1>8, <1>9, <1>10, <1>11

-----------------------------------------------------------------------------
(* The servers, kubelet and the end of run().                              *)

ManagerInv == ManagerTypeOK /\ StopInv /\ ServersAreRegistered

(* A step that leaves the manager alone and asks nothing of it.            *)
LEMMA ManagerFrame ==
  ASSUME ManagerInv, UNCHANGED managerVars, UNCHANGED stageVars,
         stage # "started" => ~queued' /\ reconcile' = "idle"
  PROVE  ManagerInv'
<1>1. /\ UNCHANGED <<topology, servers, ctxDone, kubelet, created, registered, missed, refused>>
      /\ UNCHANGED <<stage, stopped>>
  BY DEF managerVars, kubeletVars, stageVars
<1>2. Running' = Running
  BY <1>1 DEF Running
<1> QED
  BY <1>1, <1>2 DEF ManagerInv, ManagerTypeOK, StopInv, ServersAreRegistered

(* UpdateResources and OnInterfaceChange.                                  *)
LEMMA EnsureManager ==
  ASSUME ManagerInv, NEW t \in [Bridge -> Resource \cup {NoResource}],
         NEW rs \in SUBSET Resource, NEW failing \in SUBSET Resource,
         ensureServer(t, rs, failing), stage = "started", topology' = t,
         missed' \subseteq Resource, UNCHANGED kubeletVars, UNCHANGED stageVars
  PROVE  ManagerInv'
<1>1. UNCHANGED <<ctxDone, kubelet, created, stage, stopped>>
  BY DEF kubeletVars, stageVars
<1>2. /\ servers' \in [Resource -> ServerType]
      /\ registered' \subseteq Resource /\ refused' \subseteq Resource
      /\ registered \subseteq Running => registered' \subseteq Running'
      /\ Running \subseteq registered \cup refused => Running' \subseteq registered' \cup refused'
      /\ ctxDone /\ Running = {} => Running' = {}
  BY EnsureFacts DEF ManagerInv
<1>3. ManagerTypeOK'
  BY <1>1, <1>2 DEF ManagerInv, ManagerTypeOK, ServerType
<1>4. StopInv'
  BY <1>1, <1>2 DEF ManagerInv, StopInv
<1>5. ServersAreRegistered'
  BY <1>1, <1>2 DEF ManagerInv, ServersAreRegistered
<1> QED
  BY <1>3, <1>4, <1>5 DEF ManagerInv

(* The notifier of interfaces: ensureServer for one resource.              *)
LEMMA NotifyInterfaceManager ==
  ASSUME MonitorTypeOK, ManagerInv, NotifyInterface
  PROVE  ManagerInv'
<1>1. UNCHANGED <<queued, reconcile, stageVars>>
  BY DEF NotifyInterface, policyVars, queueVars
<1>2. CASE UNCHANGED managerVars
  BY <1>1, <1>2, ManagerFrame DEF ManagerInv, StopInv
<1>3. CASE ~UNCHANGED managerVars
  <2>1. PICK b \in worker.bridge, failing \in SUBSET Resource : OnInterfaceChange(b, failing)
    BY <1>3 DEF NotifyInterface
  <2>2. /\ topology[b] # NoResource /\ ensureServer(topology, {topology[b]}, failing)
        /\ missed' = (missed \ {topology[b]}) \cup failing
        /\ UNCHANGED topology /\ UNCHANGED kubeletVars
    BY <1>3, <2>1 DEF OnInterfaceChange
  <2>3. b \in Bridge
    BY DEF MonitorTypeOK
  <2>4. topology \in [Bridge -> Resource \cup {NoResource}] /\ missed \subseteq Resource
    BY DEF ManagerInv, ManagerTypeOK
  <2>5. topology[b] \in Resource
    BY <2>2, <2>3, <2>4
  <2>6. stage = "started"
    BY <2>2, <2>3 DEF ManagerInv, StopInv
  <2>7. missed' \subseteq Resource /\ {topology[b]} \in SUBSET Resource
    BY <2>2, <2>4, <2>5
  <2> QED
    BY <1>1, <2>2, <2>4, <2>6, <2>7, EnsureManager
<1> QED
  BY <1>2, <1>3

(* UpdateResources: ensureServer for all of them.                          *)
LEMMA ReconcileResourcesManager ==
  ASSUME PolicyTypeOK, ManagerInv, ReconcileResources
  PROVE  ManagerInv'
<1>1. reconcile = "resources" /\ UNCHANGED stageVars
  BY DEF ReconcileResources, ResourcesUpdated, ResourcesFailed
<1>2. stage = "started"
  BY <1>1 DEF ManagerInv, StopInv
<1>3. CASE UNCHANGED managerVars
  BY <1>1, <1>2, <1>3, ManagerFrame
<1>4. CASE \E failing \in SUBSET Resource : UpdateResources(activeBridges, failing)
  <2>1. PICK failing \in SUBSET Resource : UpdateResources(activeBridges, failing)
    BY <1>4
  <2>2. /\ topology' = TopologyOf(activeBridges)
        /\ ensureServer(TopologyOf(activeBridges), Resource, failing)
        /\ missed' = {} /\ UNCHANGED kubeletVars
    BY <2>1 DEF UpdateResources
  <2>3. TopologyOf(activeBridges) \in [Bridge -> Resource \cup {NoResource}]
    BY TopologyType DEF PolicyTypeOK
  <2> QED
    BY <1>1, <1>2, <2>2, <2>3, EnsureManager
<1> QED
  BY <1>3, <1>4 DEF ReconcileResources

(* Every running server is registered again, or refused.                   *)
LEMMA WatchKubeletManager ==
  ASSUME ManagerInv, WatchKubelet
  PROVE  ManagerInv'
<1> USE DEF ManagerInv
<1>1. PICK failing \in SUBSET Resource : ReregisterAll(failing)
  BY DEF WatchKubelet
<1>2. /\ failing \subseteq Running /\ created' = FALSE
      /\ registered' = (registered \cup Running) \ (failing \ registered)
      /\ refused' = (refused \ Running) \cup (failing \ registered)
      /\ UNCHANGED <<topology, servers, ctxDone, kubelet, missed>>
  BY <1>1 DEF ReregisterAll, Register
<1>3. UNCHANGED <<queued, reconcile, stage, stopped>>
  BY DEF WatchKubelet, policyVars, queueVars, stageVars
<1>4. Running' = Running /\ Running \subseteq Resource
  BY <1>2 DEF Running
<1>5. ManagerTypeOK'
  BY <1>2, <1>4 DEF ManagerTypeOK
<1>6. StopInv'
  BY <1>2, <1>3, <1>4 DEF StopInv
<1>7. ServersAreRegistered'
  BY <1>2, <1>4 DEF ServersAreRegistered
<1> QED
  BY <1>5, <1>6, <1>7

(* kubelet stops or starts, or the context is cancelled.                   *)
LEMMA KubeletManager ==
  ASSUME ManagerInv, KubeletDown \/ KubeletUp \/ CancelContext
  PROVE  ManagerInv'
<1> USE DEF ManagerInv
<1>1. /\ UNCHANGED <<topology, servers, missed, refused, queued, reconcile, stage, stopped>>
      /\ kubelet' \in BOOLEAN /\ created' \in BOOLEAN /\ ctxDone' \in BOOLEAN
      /\ registered' \in {{}, registered} /\ (ctxDone => ctxDone')
  BY DEF KubeletDown, KubeletStops, KubeletUp, KubeletStarts, CancelContext, policyVars,
     queueVars, stageVars, ManagerTypeOK
<1>2. kubelet' /\ ~created' => kubelet /\ ~created /\ UNCHANGED registered
  BY DEF KubeletDown, KubeletStops, KubeletUp, KubeletStarts, CancelContext
<1>3. Running' = Running
  BY <1>1 DEF Running
<1> QED
  BY <1>1, <1>2, <1>3 DEF ManagerTypeOK, StopInv, ServersAreRegistered

(* StopAll leaves no server; the context is cancelled, or no server was    *)
(* ever started.                                                           *)
LEMMA ReturnManager ==
  ASSUME ManagerInv, Return
  PROVE  ManagerInv'
<1> USE DEF ManagerInv
<1>1. /\ servers' = [r \in Resource |-> NoServer]
      /\ registered' = registered \ Running /\ refused' = refused \ Running
      /\ UNCHANGED <<topology, ctxDone, kubelet, created, missed, queued, reconcile, stage>>
      /\ stage = "started" => ctxDone
  BY DEF Return, StopAll, AfterStop, kubeletVars, policyVars, queueVars
<1>2. Running' = {}
  BY <1>1 DEF Running
<1> QED
  BY <1>1, <1>2 DEF ManagerTypeOK, StopInv, ServersAreRegistered

(* The steps of run() up to the start of the controllers.                  *)
LEMMA StartupManager ==
  ASSUME ManagerInv, Startup
  PROVE  ManagerInv'
<1> USE DEF ManagerInv
<1>1. /\ UNCHANGED <<topology, servers, ctxDone, kubelet, created, registered, missed, refused>>
      /\ UNCHANGED stopped /\ ~stopped /\ stage # "started"
      /\ stage' # "started" => UNCHANGED <<queued, reconcile>>
  BY DEF Startup, NewManager, SetupWithManager, StartControllers, managerVars, kubeletVars,
     policyVars, queueVars
<1>2. Running' = Running
  BY <1>1 DEF Running
<1> QED
  BY SMTT(60), <1>1, <1>2 DEF ManagerTypeOK, StopInv, ServersAreRegistered

(* Every step of the system keeps the invariant of the manager.            *)
LEMMA ManagerStep ==
  ASSUME MonitorTypeOK, PolicyTypeOK, ManagerInv, [Next]_vars
  PROVE  ManagerInv'
<1>1. CASE HandleBridgeEvent \/ HandleOther \/ ProcessInterfaceEvent \/ LoseInterfaceEvent
           \/ DatabaseChanges \/ UNCHANGED vars
  <2>1. UNCHANGED managerVars /\ UNCHANGED <<stageVars, queued, reconcile>>
    BY <1>1 DEF HandleBridgeEvent, HandleOther, ProcessInterfaceEvent, LoseInterfaceEvent,
       DatabaseChanges, vars, policyVars, queueVars
  <2> QED
    BY <2>1, ManagerFrame DEF ManagerInv, StopInv
<1>2. CASE Trigger \/ ReadFails \/ Reconcile \/ PublishFails \/ PolicyUpdate \/ NodeUpdate
  <2>1. UNCHANGED managerVars /\ UNCHANGED stageVars
    BY <1>2 DEF Trigger, ReadFails, Reconcile, PublishFails, PolicyUpdate, NodeUpdate
  <2>2. stage # "started" => ~queued' /\ reconcile' = "idle"
    <3> SUFFICES ASSUME stage # "started"
                 PROVE  ~queued' /\ reconcile' = "idle"
      OBVIOUS
    <3>1. ~queued /\ reconcile = "idle"
      BY DEF ManagerInv, StopInv
    <3> QED
      BY <1>2, <3>1 DEF Trigger, ReadFails, Reconcile, CollectBridges, UpdatePolicyDevices,
         UpdatePolicyDevicesRefused, PublishFails, RepublishFails, PolicyUpdate, PolicyChanges,
         NodeUpdate
  <2> QED
    BY <2>1, <2>2, ManagerFrame
<1> QED
  BY <1>1, <1>2, NotifyInterfaceManager, ReconcileResourcesManager, WatchKubeletManager,
     KubeletManager, ReturnManager, StartupManager
  DEF Next, CacheGoroutine, Worker, Controller

(* There is no server at the start.                                        *)
LEMMA InitManager ==
  ASSUME Init
  PROVE  ManagerInv
<1>1. /\ topology = [b \in Bridge |-> NoResource] /\ servers = [r \in Resource |-> NoServer]
      /\ ctxDone = FALSE /\ kubelet = TRUE /\ created = FALSE
      /\ registered = {} /\ missed = {} /\ refused = {}
      /\ queued = FALSE /\ reconcile = "idle" /\ stage = "client" /\ stopped = FALSE
  BY DEF Init, ManagerInit, PolicyInit
<1>2. Running = {}
  BY <1>1 DEF Running
<1> QED
  BY <1>1, <1>2 DEF ManagerInv, ManagerTypeOK, StopInv, ServersAreRegistered

-----------------------------------------------------------------------------
(* The reconciler.                                                         *)

PolicyInv == PolicyTypeOK /\ SliceInv /\ ValidInv

(* A database in which the bridges have changed has an event for it.       *)
LEMMA BridgesFrame ==
  ASSUME MonitorInv, [Next]_vars, NoBridgeEvent(events'), ~trigger', stage' = "started"
  PROVE  /\ bridges' = bridges /\ NoBridgeEvent(events)
         /\ ~trigger \/ queued'
         /\ stage = "started" \/ queued'
<1>1. CASE \E b \in Bridge : AddBridge(b)
  <2>1. PICK b \in Bridge : events' = Append(events, Added(b))
    BY <1>1 DEF AddBridge, Added
  <2>2. events \in Seq(Event) /\ Added(b) \in Event /\ Added(b) \in BridgeEvent
    BY EventTypes DEF MonitorInv, MonitorTypeOK, Event
  <2>3. Occurs(events', Added(b))
    BY <2>1, <2>2, AppendOccurs
  <2> QED
    BY <2>2, <2>3 DEF Occurs, NoBridgeEvent
<1>2. CASE \E b \in Bridge : DeleteBridge(b)
  <2>1. PICK b \in Bridge : DeleteBridge(b)
    BY <1>2
  <2> DEFINE P == {u \in Uplink : where[u] = b}
  <2>2. PICK order \in SetToSeqs({Deleted(b)} \cup {Left(u) : u \in P}) : events' = events \o order
    BY <2>1 DEF DeleteBridge, Deleted, Left
  <2>3. order \in Seq(Event) /\ Occurs(order, Deleted(b))
    <3>1. P \subseteq Uplink
      OBVIOUS
    <3> HIDE DEF P
    <3> QED
      BY <3>1, DeleteBridgeEvents
  <2>4. events \in Seq(Event)
    BY DEF MonitorInv, MonitorTypeOK, Event
  <2>5. Occurs(events', Deleted(b))
    BY <2>2, <2>3, <2>4, ConcatOccurs
  <2> QED
    BY <2>5, EventTypes DEF Occurs, NoBridgeEvent
<1>3. CASE DatabaseChanges /\ ~\E b \in Bridge : AddBridge(b) \/ DeleteBridge(b)
  <2>1. UNCHANGED <<bridges, trigger, stage>>
    BY <1>3 DEF DatabaseChanges, DeleteUplink, AddUplink, policyVars, queueVars, stageVars
  <2>2. PICK e \in IfaceEvent : events' = Append(events, e)
    BY <1>3, EventTypes DEF DatabaseChanges, DeleteUplink, AddUplink, Arrived, Left
  <2>3. events \in Seq(Event) /\ e \in Event
    BY DEF MonitorInv, MonitorTypeOK, Event
  <2>4. NoBridgeEvent(events)
    BY SMTT(60), <2>2, <2>3, AppendElements DEF NoBridgeEvent
  <2> QED
    BY <2>1, <2>4
<1>4. CASE HandleBridgeEvent
  <2>1. UNCHANGED stage /\ (stage = "started" => trigger' = TRUE)
    BY <1>4 DEF HandleBridgeEvent, HasBridgeNotifier, NotifyBridge, stageVars
  <2> QED
    BY <2>1
<1>5. CASE \E u \in Uplink : HandleOther /\ InterfaceFunc(u)
  <2>1. UNCHANGED <<bridges, trigger, stage>>
    BY <1>5 DEF HandleOther, InterfaceFunc, databaseVars, policyVars, queueVars, stageVars
  <2>2. PICK e \in IfaceEvent : NextEvent(e)
    <3>1. PICK u \in Uplink, added \in BOOLEAN : NextEvent([added |-> added, uuid |-> u])
      BY <1>5 DEF InterfaceFunc
    <3>2. [added |-> added, uuid |-> u] \in IfaceEvent
      BY DEF IfaceEvent
    <3> QED
      BY <3>1, <3>2
  <2>3. /\ events \in Seq(Event) /\ events # <<>>
        /\ Head(events) \in IfaceEvent /\ events' = Tail(events)
    BY <2>2 DEF NextEvent, MonitorInv, MonitorTypeOK, Event
  <2>4. \A i \in DOMAIN events : events[i] \in IfaceEvent \/ \E j \in DOMAIN events' : events'[j] = events[i]
    BY <2>3, TailElements
  <2>5. NoBridgeEvent(events)
    BY <2>4, KindsDiffer DEF NoBridgeEvent
  <2> QED
    BY <2>1, <2>5
<1>6. CASE UNCHANGED <<bridges, events>> /\ UNCHANGED <<trigger, stage>>
  BY <1>6
<1>7. CASE UNCHANGED <<bridges, events>> /\ (Trigger \/ StartControllers)
  <2>1. queued' = TRUE
    BY <1>7 DEF Trigger, DrainTrigger, StartControllers
  <2> QED
    BY <1>7, <2>1
<1>8. \/ (\E b \in Bridge : AddBridge(b) \/ DeleteBridge(b))
      \/ (DatabaseChanges /\ ~\E b \in Bridge : AddBridge(b) \/ DeleteBridge(b))
      \/ HandleBridgeEvent
      \/ (\E u \in Uplink : HandleOther /\ InterfaceFunc(u))
      \/ (UNCHANGED <<bridges, events>> /\ UNCHANGED <<trigger, stage>>)
      \/ (UNCHANGED <<bridges, events>> /\ (Trigger \/ StartControllers))
      \/ stage' # "started"
  <2>1. CASE DatabaseChanges \/ HandleBridgeEvent
    BY <2>1
  <2>2. CASE HandleOther
    <3>1. CASE WipeBridge
      BY <2>2, <3>1 DEF HandleOther, WipeBridge, databaseVars, policyVars, queueVars, stageVars
    <3> QED
      BY <2>2, <3>1 DEF HandleOther
  <2>3. CASE Worker
    <3>1. UNCHANGED <<bridges, events>>
      BY <2>3 DEF Worker, ProcessInterfaceEvent, StoreNode, LookupUplink, ForgetUplink,
         LoseInterfaceEvent, LookupFails, NotifyInterface, Notified, databaseVars, cacheVars
    <3>2. UNCHANGED <<trigger, stage>>
      BY <2>3 DEF Worker, ProcessInterfaceEvent, LoseInterfaceEvent, NotifyInterface,
         policyVars, queueVars, stageVars
    <3> QED
      BY <3>1, <3>2
  <2>4. CASE Startup \/ Trigger
    BY <2>4 DEF Startup, NewManager, SetupWithManager, StartControllers, Trigger, monitorVars,
       databaseVars, cacheVars
  <2>5. CASE \/ Controller \/ WatchKubelet \/ PolicyUpdate \/ NodeUpdate \/ KubeletDown
             \/ KubeletUp \/ CancelContext \/ Return \/ UNCHANGED vars
    <3>1. UNCHANGED <<monitorVars, stage>>
      BY <2>5 DEF Controller, ReadFails, Reconcile, PublishFails, ReconcileResources,
         WatchKubelet, PolicyUpdate, NodeUpdate, KubeletDown, KubeletUp, CancelContext, Return,
         stageVars, vars
    <3>2. UNCHANGED trigger
      BY <2>5 DEF Controller, ReadFails, Reconcile, CollectBridges, UpdatePolicyDevices,
         UpdatePolicyDevicesRefused, PublishFails, RepublishFails, ReconcileResources,
         ResourcesUpdated, ResourcesFailed, WatchKubelet, PolicyUpdate, PolicyChanges,
         NodeUpdate, KubeletDown, KubeletUp, CancelContext, Return, policyVars, queueVars, vars
    <3> QED
      BY <3>1, <3>2 DEF monitorVars, databaseVars, cacheVars
  <2> QED
    BY <2>1, <2>2, <2>3, <2>4, <2>5 DEF Next, CacheGoroutine
<1> QED
  BY <1>1, <1>2, <1>3, <1>4, <1>5, <1>6, <1>7, <1>8

(* A reconciler with nothing to do had nothing to do, or has just started. *)
LEMMA QuietStep ==
  ASSUME MonitorInv, [Next]_vars, Quiet'
  PROVE  /\ Wanted' = Wanted /\ ~PolicyUpdate /\ ~NodeUpdate /\ ~queued'
         /\ Quiet \/ (Reconcile /\ CollectBridges)
<1>1. bridges' = bridges /\ NoBridgeEvent(events) /\ ~trigger /\ stage = "started" /\ ~queued'
  BY BridgesFrame DEF Quiet
<1>2. ~PolicyUpdate /\ ~NodeUpdate
  BY <1>1 DEF PolicyUpdate, NodeUpdate
<1>3. cluster' = cluster
  BY <1>2 DEF Next, Startup, NewManager, SetupWithManager, StartControllers, CacheGoroutine,
     HandleBridgeEvent, HandleOther, Worker, ProcessInterfaceEvent, LoseInterfaceEvent,
     NotifyInterface, Trigger, DrainTrigger, Controller, ReadFails, Reconcile, CollectBridges,
     UpdatePolicyDevices, UpdatePolicyDevicesRefused, PublishFails, RepublishFails,
     ReconcileResources, ResourcesUpdated, ResourcesFailed, WatchKubelet, DatabaseChanges,
     KubeletDown, KubeletUp, CancelContext, Return, vars, policyVars, queueVars
<1>4. Wanted' = Wanted
  BY <1>1, <1>3 DEF Wanted, Present
<1>5. ~queued \/ (Reconcile /\ CollectBridges)
  BY <1>1, <1>2 DEF Next, Startup, NewManager, SetupWithManager, StartControllers, CacheGoroutine,
     HandleBridgeEvent, HandleOther, Worker, ProcessInterfaceEvent, LoseInterfaceEvent,
     NotifyInterface, Trigger, DrainTrigger, Controller, ReadFails, Reconcile,
     UpdatePolicyDevices, UpdatePolicyDevicesRefused, PublishFails, RepublishFails, Requeue,
     ReconcileResources, ResourcesUpdated, ResourcesFailed, WatchKubelet, DatabaseChanges,
     KubeletDown, KubeletUp, CancelContext, Return, vars, policyVars, queueVars
<1> QED
  BY <1>1, <1>2, <1>4, <1>5 DEF Quiet

(* Every step of the system keeps the invariant of the reconciler.         *)
LEMMA PolicyStep ==
  ASSUME MonitorInv, PolicyInv, [Next]_vars
  PROVE  PolicyInv'
<1> USE DEF PolicyInv
<1>1. cluster \in Clusters /\ Wanted \in Seq(BridgeSpec)
  BY WantedType DEF PolicyTypeOK
<1>2. PolicyTypeOK' /\ ValidInv'
  <2>1. CASE UNCHANGED <<cluster, reconcile, activeBridges, deviceVars>>
             /\ trigger' \in BOOLEAN /\ queued' \in BOOLEAN
    BY <2>1 DEF PolicyTypeOK, ValidInv, Valid, deviceVars
  <2>2. CASE Reconcile \/ PublishFails \/ ReconcileResources
    <3>1. /\ cluster' = cluster /\ trigger' = trigger /\ queued' \in BOOLEAN
          /\ reconcile' \in {"idle", "policy", "resources"}
          /\ activeBridges' \in {<<>>, activeBridges, Wanted}
          /\ allocatable' \in {allocatable, activeBridges} /\ published' \in {published, activeBridges}
      BY <2>2 DEF Reconcile, CollectBridges, UpdatePolicyDevices, UpdatePolicyDevicesRefused,
         PublishFails, RepublishFails, ReconcileResources, ResourcesUpdated, ResourcesFailed,
         Requeue, Wanted, queueVars, deviceVars, PolicyTypeOK
    <3>2. <<>> \in Seq(BridgeSpec)
      BY SMTT(60)
    <3>3. ValidInv'
      BY <2>2 DEF Reconcile, CollectBridges, UpdatePolicyDevices, UpdatePolicyDevicesRefused,
         PublishFails, RepublishFails, ReconcileResources, ResourcesUpdated, ResourcesFailed,
         Requeue, ValidInv, Valid
    <3> QED
      BY <1>1, <3>1, <3>2, <3>3 DEF PolicyTypeOK
  <2>3. CASE PolicyUpdate
    BY <2>3 DEF PolicyUpdate, PolicyChanges, PolicyTypeOK, ValidInv, Valid, deviceVars
  <2>4. \/ UNCHANGED <<cluster, reconcile, activeBridges, deviceVars>>
             /\ trigger' \in BOOLEAN /\ queued' \in BOOLEAN
        \/ Reconcile \/ PublishFails \/ ReconcileResources \/ PolicyUpdate
    <3>1. CASE UNCHANGED policyVars
      BY <3>1 DEF policyVars, queueVars, PolicyTypeOK
    <3>2. CASE HandleBridgeEvent \/ Trigger \/ StartControllers \/ NodeUpdate
      BY <3>2 DEF HandleBridgeEvent, NotifyBridge, Trigger, DrainTrigger, StartControllers,
         NodeUpdate, PolicyTypeOK
    <3> QED
      BY <3>1, <3>2 DEF Next, Startup, NewManager, SetupWithManager, CacheGoroutine, HandleOther,
         Worker, ProcessInterfaceEvent, LoseInterfaceEvent, NotifyInterface, Controller, ReadFails,
         WatchKubelet, DatabaseChanges, KubeletDown, KubeletUp, CancelContext, Return, vars
  <2> QED
    BY <2>1, <2>2, <2>3, <2>4
<1>3. SliceInv'
  <2> SUFFICES ASSUME Quiet'
               PROVE  /\ reconcile' # "idle" => activeBridges' = Wanted'
                      /\ reconcile' # "policy" => published' = Wanted' /\ allocatable' = Wanted'
    BY DEF SliceInv
  <2>1. /\ Wanted' = Wanted /\ ~PolicyUpdate /\ ~NodeUpdate /\ ~queued'
        /\ Quiet \/ (Reconcile /\ CollectBridges)
    BY QuietStep
  <2>2. CASE Reconcile /\ CollectBridges
    BY <2>1, <2>2 DEF CollectBridges, Wanted
  <2>3. CASE Quiet
    <3>1. CASE UNCHANGED <<reconcile, activeBridges, deviceVars>>
      BY <2>1, <2>3, <3>1 DEF SliceInv, deviceVars
    <3>2. CASE UpdatePolicyDevices
      BY <2>1, <2>3, <3>2 DEF SliceInv, UpdatePolicyDevices
    <3>3. CASE ResourcesUpdated
      BY <2>1, <2>3, <3>3 DEF SliceInv, ResourcesUpdated, deviceVars
    <3>4. CASE UpdatePolicyDevicesRefused \/ RepublishFails \/ ResourcesFailed
      BY <2>1, <3>4 DEF UpdatePolicyDevicesRefused, RepublishFails, ResourcesFailed, Requeue
    <3> QED
      BY <2>1, <2>2, <3>1, <3>2, <3>3, <3>4 DEF Next, Startup, NewManager, SetupWithManager,
         StartControllers, CacheGoroutine, HandleBridgeEvent, HandleOther, Worker,
         ProcessInterfaceEvent, LoseInterfaceEvent, NotifyInterface, Trigger, DrainTrigger,
         Controller, ReadFails, Reconcile, PublishFails, ReconcileResources, WatchKubelet,
         DatabaseChanges, KubeletDown, KubeletUp, CancelContext, Return, vars, policyVars
  <2> QED
    BY <2>1, <2>2, <2>3
<1> QED
  BY <1>2, <1>3

-----------------------------------------------------------------------------
(* The servers.                                                            *)

(* What the server of r depends on does not change.                        *)
LEMMA ServerFrame ==
  ASSUME NEW r \in Resource, ServerOK(r), UNCHANGED <<topology, servers, missed>>,
         worker.pc = "notify" => worker' = worker,
         \A b \in Bridge : topology[b] = r => Nodes'[b] = Nodes[b]
  PROVE  ServerOK(r)'
<1>1. BridgesOf(topology, r)' = BridgesOf(topology, r)
  BY DEF BridgesOf
<1>2. \A b \in BridgesOf(topology, r) : Nodes'[b] = Nodes[b]
  BY DEF BridgesOf
<1>3. getConsistentNUMA(Nodes', BridgesOf(topology, r)) = getConsistentNUMA(Nodes, BridgesOf(topology, r))
  BY <1>2, ConsistentLocal
<1>4. getConsistentNUMA(Nodes, BridgesOf(topology, r))'
        = getConsistentNUMA(Nodes', BridgesOf(topology, r)')
  BY DEF getConsistentNUMA
<1> QED
  BY <1>1, <1>3, <1>4 DEF ServerOK

(* Entries of other bridges do not count.                                  *)
LEMMA NodesLocal ==
  ASSUME NEW b \in Bridge, \A u \in Uplink : <<b, u>> \in numaMap' <=> <<b, u>> \in numaMap
  PROVE  Nodes'[b] = Nodes[b]
<1>1. BridgeNUMANodes(b)' = BridgeNUMANodes(b)
  BY DEF BridgeNUMANodes
<1> QED
  BY <1>1 DEF Nodes

(* The bridge whose entries change is the one that is notified.            *)
LEMMA ProcessServers ==
  ASSUME MonitorInv, ProcessInterfaceEvent \/ LoseInterfaceEvent,
         NEW r \in Resource, ServerOK(r)
  PROVE  ServerOK(r)'
<1>1. UNCHANGED <<topology, servers, missed>>
  BY DEF ProcessInterfaceEvent, LoseInterfaceEvent, managerVars
<1>2. CASE \E u \in Uplink : LookupUplink(u) \/ LookupFails(u)
  <2>1. numaMap' = numaMap /\ worker.pc # "notify"
    BY <1>2 DEF LookupUplink, LookupFails, Receive
  <2>2. \A b \in Bridge : Nodes'[b] = Nodes[b]
    BY <2>1, NodesLocal
  <2> QED
    BY <1>1, <2>1, <2>2, ServerFrame
<1>3. CASE \E u \in Uplink : ForgetUplink(u)
  <2>1. PICK u \in Uplink : ForgetUplink(u)
    BY <1>3
  <2>2. worker.pc # "notify"
    BY <2>1 DEF ForgetUplink, Receive
  <2>3. CASE numaMap' = numaMap
    <3>1. \A b \in Bridge : Nodes'[b] = Nodes[b]
      BY <2>3, NodesLocal
    <3> QED
      BY <1>1, <2>2, <3>1, ServerFrame
  <2>4. ASSUME NEW b \in Bridge, worker' = [pc |-> "notify", bridge |-> {b}, uuid |-> {u}],
               \A e \in numaMap : e[2] = u => e[1] = b, numaMap' = {e \in numaMap : e[2] # u}
        PROVE  ServerOK(r)'
    <3>1. worker'.pc = "notify" /\ worker'.bridge = {b}
      BY <2>4, BusyFacts
    <3>2. CASE topology[b] = r
      BY <1>1, <3>1, <3>2 DEF ServerOK
    <3>3. CASE topology[b] # r
      <4>1. ASSUME NEW c \in Bridge, topology[c] = r
            PROVE  Nodes'[c] = Nodes[c]
        <5>1. ASSUME NEW v \in Uplink
              PROVE  <<c, v>> \in numaMap' <=> <<c, v>> \in numaMap
          BY <2>4, <3>3, <4>1
        <5> QED
          BY <5>1, NodesLocal
      <4> QED
        BY <1>1, <2>2, <4>1, ServerFrame
    <3> QED
      BY <3>2, <3>3
  <2> QED
    BY <2>1, <2>3, <2>4, ForgetUplinkFacts
<1>4. CASE StoreNode
  <2>1. worker.pc = "store"
    BY <1>4 DEF StoreNode
  <2>2. /\ worker'.pc = "notify" /\ worker'.bridge = worker.bridge
        /\ numaMap' = numaMap \cup (worker.bridge \X worker.uuid)
    BY <1>4, StoreNodeMonitor
  <2>3. PICK b \in Bridge : worker.bridge = {b}
    BY <2>1, IdleFacts DEF MonitorInv, WorkerInv
  <2>4. CASE topology[b] = r
    BY <1>1, <2>2, <2>3, <2>4 DEF ServerOK
  <2>5. CASE topology[b] # r
    <3>1. ASSUME NEW c \in Bridge, topology[c] = r
          PROVE  Nodes'[c] = Nodes[c]
      <4>1. ASSUME NEW v \in Uplink
            PROVE  <<c, v>> \in numaMap' <=> <<c, v>> \in numaMap
        BY <2>2, <2>3, <2>5, <3>1
      <4> QED
        BY <4>1, NodesLocal
    <3> QED
      BY <1>1, <2>1, <3>1, ServerFrame
  <2> QED
    BY <2>4, <2>5
<1> QED
  BY <1>2, <1>3, <1>4 DEF ProcessInterfaceEvent, LoseInterfaceEvent

(* The bridge whose entries are wiped has no resource.                     *)
LEMMA WipeServers ==
  ASSUME MonitorInv, cluster \in Clusters, NoBridgeEvent(events), topology = TopologyOf(Wanted),
         WipeBridge, UNCHANGED managerVars,
         NEW r \in Resource, ServerOK(r)
  PROVE  ServerOK(r)'
<1>1. ASSUME NEW b \in Bridge, topology[b] = r
      PROVE  Nodes'[b] = Nodes[b]
  <2>1. b \in bridges
    BY <1>1, AbsentHasNone, ResourceAssumption
  <2>2. ~Occurs(events, Added(b))
    BY EventTypes DEF Occurs, NoBridgeEvent
  <2>3. b \notin wiping
    BY <2>1, <2>2 DEF MonitorInv, WipeInv
  <2>4. \A u \in Uplink : <<b, u>> \in numaMap' <=> <<b, u>> \in numaMap
    BY <2>3 DEF WipeBridge
  <2> QED
    BY <2>4, NodesLocal
<1> QED
  BY <1>1, ServerFrame DEF WipeBridge, managerVars

(* A notification ensures the server of the bridge's resource.             *)
LEMMA NotifyServers ==
  ASSUME MonitorInv, ManagerTypeOK, NotifyInterface, stage = "started",
         NEW r \in Resource, ServerOK(r)
  PROVE  ServerOK(r)'
<1>1. Notified /\ worker.pc = "notify" /\ worker' = Idle /\ numaMap' = numaMap
  BY DEF NotifyInterface, Notified
<1>2. PICK b \in Bridge : worker.bridge = {b}
  BY <1>1, IdleFacts DEF MonitorInv, WorkerInv
<1>3. PICK failing \in SUBSET Resource : OnInterfaceChange(b, failing)
  BY <1>2 DEF NotifyInterface, HasIfaceNotifier
<1>4. topology' = topology
  BY <1>3 DEF OnInterfaceChange, managerVars
<1>5. /\ BridgesOf(topology, r)' = BridgesOf(topology, r)
      /\ getConsistentNUMA(Nodes, BridgesOf(topology, r))' = getConsistentNUMA(Nodes, BridgesOf(topology, r))
  BY SMTT(60), <1>1, <1>4 DEF BridgesOf, getConsistentNUMA, Nodes, BridgeNUMANodes
<1>6. CASE topology[b] # r
  <2>1. servers'[r] = servers[r] /\ (r \in missed => r \in missed')
    <3>1. CASE UNCHANGED managerVars
      BY <3>1 DEF managerVars
    <3>2. CASE /\ topology[b] # NoResource
               /\ ensureServer(topology, {topology[b]}, failing)
               /\ missed' = (missed \ {topology[b]}) \cup failing
      <4>1. {topology[b]} \in SUBSET Resource
        BY <3>2 DEF ManagerTypeOK
      <4>2. \A q \in Resource \ {topology[b]} : servers'[q] = servers[q]
        BY <3>2, <4>1, EnsureFacts
      <4> QED
        BY <1>6, <3>2, <4>2
    <3> QED
      BY <1>3, <3>1, <3>2 DEF OnInterfaceChange
  <2> QED
    BY <1>2, <1>5, <1>6, <2>1 DEF ServerOK
<1>7. CASE topology[b] = r
  <2> DEFINE rs == {r}
  <2>1. /\ ensureServer(topology, rs, failing)
        /\ missed' = (missed \ rs) \cup failing
    BY <1>3, <1>7, ResourceAssumption DEF OnInterfaceChange
  <2>2. r \in rs /\ rs \in SUBSET Resource
    OBVIOUS
  <2> HIDE DEF rs
  <2>3. r \notin failing => servers'[r] = getConsistentNUMA(Nodes, BridgesOf(topology, r))
    BY <2>1, <2>2 DEF ensureServer
  <2>4. \A q \in failing : servers'[q] = NoServer
    BY <2>1, <2>2, EnsureFacts
  <2> QED
    BY <1>5, <2>1, <2>2, <2>3, <2>4 DEF ServerOK
<1> QED
  BY <1>6, <1>7

(* Every step of the system keeps the servers right.                       *)
LEMMA ServerStep ==
  ASSUME MonitorInv, PolicyInv, ManagerInv, ServerInv, [Next]_vars
  PROVE  ServerInv'
<1> SUFFICES ASSUME Quiet', ~ctxDone', reconcile' = "idle"
             PROVE  topology' = TopologyOf(Wanted)' /\ \A r \in Resource : ServerOK(r)'
  BY DEF ServerInv
<1>1. /\ Wanted' = Wanted /\ ~PolicyUpdate /\ ~NodeUpdate /\ ~queued'
      /\ Quiet \/ (Reconcile /\ CollectBridges)
  BY QuietStep
<1>2. Quiet /\ stage = "started"
  BY <1>1 DEF CollectBridges, Quiet
<1>3. ManagerTypeOK /\ cluster \in Clusters
  BY DEF ManagerInv, PolicyInv, PolicyTypeOK
<1>4. TopologyOf(Wanted)' = TopologyOf(Wanted)
  BY SMTT(60), <1>1 DEF TopologyOf
<1>5. CASE ReconcileResources
  <2>1. reconcile = "resources" /\ numaMap' = numaMap
    BY <1>5 DEF ReconcileResources, ResourcesUpdated, ResourcesFailed, monitorVars, workerVars
  <2>2. UpdateResources(activeBridges, {})
    BY <1>1, <1>5 DEF ReconcileResources, ResourcesFailed, Requeue
  <2>3. activeBridges = Wanted
    BY <1>2, <2>1 DEF PolicyInv, SliceInv
  <2>4. topology' = TopologyOf(Wanted) /\ ensureServer(topology', Resource, {})
    BY <2>2, <2>3 DEF UpdateResources
  <2>5. \A r \in Resource : servers'[r] = getConsistentNUMA(Nodes, BridgesOf(topology', r))
    BY <1>3, <2>4, EnsureFacts
  <2>6. \A r \in Resource : getConsistentNUMA(Nodes, BridgesOf(topology, r))'
                              = getConsistentNUMA(Nodes, BridgesOf(topology', r))
    BY SMTT(60), <2>1 DEF getConsistentNUMA, BridgesOf, Nodes, BridgeNUMANodes
  <2> QED
    BY <1>4, <2>4, <2>5, <2>6 DEF ServerOK
<1>6. CASE ~ReconcileResources
  <2>1. reconcile = "idle"
    BY <1>1, <1>6 DEF Next, Startup, NewManager, SetupWithManager, StartControllers, CacheGoroutine,
       HandleBridgeEvent, HandleOther, Worker, ProcessInterfaceEvent, LoseInterfaceEvent,
       NotifyInterface, Trigger, DrainTrigger, Controller, ReadFails, Reconcile, CollectBridges,
       UpdatePolicyDevices, UpdatePolicyDevicesRefused, PublishFails, RepublishFails, Requeue,
       WatchKubelet, DatabaseChanges, KubeletDown, KubeletUp, CancelContext, Return, vars,
       policyVars
  <2>2. ~ctxDone
    BY <1>6 DEF Next, Startup, NewManager, SetupWithManager, StartControllers, CacheGoroutine,
       HandleBridgeEvent, HandleOther, Worker, ProcessInterfaceEvent, LoseInterfaceEvent,
       NotifyInterface, OnInterfaceChange, Trigger, Controller, ReadFails, Reconcile, PublishFails,
       WatchKubelet, ReregisterAll, DatabaseChanges, PolicyUpdate, NodeUpdate, KubeletDown,
       KubeletUp, KubeletStops, KubeletStarts, CancelContext, Return, StopAll, vars, managerVars, kubeletVars
  <2>3. topology = TopologyOf(Wanted) /\ \A r \in Resource : ServerOK(r)
    BY <1>2, <2>1, <2>2 DEF ServerInv
  <2>4. topology' = topology
    BY <1>6 DEF Next, Startup, NewManager, SetupWithManager, StartControllers, CacheGoroutine,
       HandleBridgeEvent, HandleOther, Worker, ProcessInterfaceEvent, LoseInterfaceEvent,
       NotifyInterface, OnInterfaceChange, Trigger, Controller, ReadFails, Reconcile, PublishFails,
       WatchKubelet, ReregisterAll, DatabaseChanges, PolicyUpdate, NodeUpdate, KubeletDown,
       KubeletUp, KubeletStops, KubeletStarts, CancelContext, Return, StopAll, vars, managerVars
  <2>5. ASSUME NEW r \in Resource
        PROVE  ServerOK(r)'
    <3>1. CASE NotifyInterface
      BY <1>2, <1>3, <2>3, <3>1, NotifyServers
    <3>2. CASE ProcessInterfaceEvent \/ LoseInterfaceEvent
      BY <2>3, <3>2, ProcessServers
    <3>3. CASE HandleOther /\ WipeBridge
      BY <1>2, <1>3, <2>3, <3>3, WipeServers DEF HandleOther, Quiet
    <3>4. CASE UNCHANGED <<topology, servers, missed, worker, numaMap>>
      <4>1. \A b \in Bridge : Nodes'[b] = Nodes[b]
        BY <3>4, NodesLocal
      <4> QED
        BY <2>3, <3>4, <4>1, ServerFrame
    <3>5. ~Return
      BY <1>2, <2>2 DEF Return
    <3>6. \/ NotifyInterface \/ ProcessInterfaceEvent \/ LoseInterfaceEvent
          \/ HandleOther /\ WipeBridge
          \/ UNCHANGED <<topology, servers, missed, worker, numaMap>>
      <4>1. CASE DatabaseChanges \/ HandleBridgeEvent \/ HandleOther
        BY <4>1 DEF DatabaseChanges, AddBridge, DeleteBridge, AddUplink, DeleteUplink,
           HandleBridgeEvent, BridgeAddFunc, BridgeDeleteFunc, HandleOther, InterfaceFunc,
           managerVars, workerVars
      <4>2. CASE Startup \/ Trigger \/ Controller \/ WatchKubelet \/ KubeletDown \/ KubeletUp
                 \/ CancelContext \/ UNCHANGED vars
        <5>1. UNCHANGED <<monitorVars, topology, servers, missed>>
          BY <1>6, <4>2 DEF Startup, NewManager, SetupWithManager, StartControllers, Trigger,
             Controller, ReadFails, Reconcile, PublishFails, WatchKubelet, ReregisterAll,
             KubeletDown, KubeletUp, KubeletStops, KubeletStarts, CancelContext, vars, managerVars
        <5> QED
          BY <5>1 DEF monitorVars, workerVars
      <4> QED
        BY <1>1, <3>5, <4>1, <4>2 DEF Next, CacheGoroutine, Worker
    <3> QED
      BY <3>1, <3>2, <3>3, <3>4, <3>6
  <2> QED
    BY <1>4, <2>3, <2>4, <2>5
<1> QED
  BY <1>5, <1>6

-----------------------------------------------------------------------------
(* The invariant.                                                          *)

(* The stage of run() and the bounds on changes and faults.                *)
BoundInv ==
  /\ stage \in {"client", "manager", "controller", "started"} /\ stopped \in BOOLEAN
  /\ changes \in 0 .. MaxChanges /\ faults \in 0 .. MaxFaults

(* Every step keeps the bounds.                                            *)
LEMMA BoundStep ==
  ASSUME BoundInv, [Next]_vars
  PROVE  BoundInv'
<1>1. UNCHANGED changes \/ Change
  BY DEF Next, Startup, NewManager, SetupWithManager, StartControllers, CacheGoroutine,
     HandleBridgeEvent, HandleOther, Worker, ProcessInterfaceEvent, LoseInterfaceEvent,
     NotifyInterface, Trigger, Controller, ReadFails, Reconcile, PublishFails, ReconcileResources,
     WatchKubelet, DatabaseChanges, PolicyUpdate, NodeUpdate, KubeletDown, KubeletUp, CancelContext,
     Return, vars, boundVars
<1>2. UNCHANGED faults \/ Fault
  BY DEF Next, Startup, NewManager, SetupWithManager, StartControllers, CacheGoroutine,
     HandleBridgeEvent, HandleOther, Worker, ProcessInterfaceEvent, LoseInterfaceEvent, CallFails,
     NotifyInterface, MayFail, Trigger, Controller, ReadFails, Reconcile, PublishFails,
     ReconcileResources, WatchKubelet, DatabaseChanges, PolicyUpdate, NodeUpdate, KubeletDown,
     KubeletUp, CancelContext, Return, vars, boundVars
<1>3. /\ stage' \in {"client", "manager", "controller", "started"}
      /\ stopped' \in BOOLEAN
  BY DEF BoundInv, Next, Startup, NewManager, SetupWithManager, StartControllers, CacheGoroutine,
     HandleBridgeEvent, HandleOther, Worker, ProcessInterfaceEvent, LoseInterfaceEvent,
     NotifyInterface, Trigger, Controller, ReadFails, Reconcile, PublishFails, ReconcileResources,
     WatchKubelet, DatabaseChanges, PolicyUpdate, NodeUpdate, KubeletDown, KubeletUp, CancelContext,
     Return, vars, stageVars
<1>4. changes' \in 0 .. MaxChanges
  BY SMTT(60), <1>1, BoundsAssumption DEF BoundInv, Change
<1>5. faults' \in 0 .. MaxFaults
  BY SMTT(60), <1>2, BoundsAssumption DEF BoundInv, Fault
<1> QED
  BY <1>3, <1>4, <1>5 DEF BoundInv

(* The invariant, component by component.                                  *)
LEMMA InvariantParts ==
  TopologyInvariant <=> MonitorInv /\ PolicyInv /\ ManagerInv /\ ServerInv /\ BoundInv
BY DEF TopologyInvariant, TopologyTypeOK, MonitorInv, PolicyInv, ManagerInv, BoundInv

(* Main theorem of this module: whatever the database, the policies,       *)
(* kubelet and the failures of calls do, the goroutines of the driver keep *)
(* TopologyInvariant.                                                      *)
THEOREM TopologyInvariantHolds == Spec => []TopologyInvariant
<1>1. Init => TopologyInvariant
  <2> SUFFICES ASSUME Init
               PROVE  TopologyInvariant
    OBVIOUS
  <2>1. MonitorInv
    BY InitMonitor DEF Init
  <2>2. ManagerInv
    BY InitManager
  <2>3. PolicyInv /\ ServerInv
    <3>1. <<>> \in Seq(BridgeSpec)
      BY SMTT(60)
    <3>2. ~Quiet /\ reconcile = "idle"
      BY DEF Init, PolicyInit, Quiet
    <3>3. PolicyTypeOK
      BY <3>1 DEF Init, PolicyInit, PolicyTypeOK
    <3> QED
      BY <3>2, <3>3 DEF PolicyInv, SliceInv, ValidInv, ServerInv
  <2>4. BoundInv
    <3>1. stage = "client" /\ stopped = FALSE /\ changes = 0 /\ faults = 0
      BY DEF Init
    <3>2. 0 \in 0 .. MaxChanges /\ 0 \in 0 .. MaxFaults
      BY SMTT(60), BoundsAssumption
    <3> QED
      BY <3>1, <3>2 DEF BoundInv
  <2> QED
    BY <2>1, <2>2, <2>3, <2>4, InvariantParts
<1>2. TopologyInvariant /\ [Next]_vars => TopologyInvariant'
  <2> SUFFICES ASSUME TopologyInvariant, [Next]_vars
               PROVE  TopologyInvariant'
    OBVIOUS
  <2>1. MonitorInv /\ PolicyInv /\ ManagerInv /\ ServerInv /\ BoundInv
    BY InvariantParts
  <2>2. MonitorInv'
    BY <2>1, MonitorStep
  <2>3. PolicyInv'
    BY <2>1, PolicyStep
  <2>4. ManagerInv'
    BY <2>1, ManagerStep DEF MonitorInv, PolicyInv
  <2>5. ServerInv'
    BY <2>1, ServerStep
  <2>6. BoundInv'
    BY <2>1, BoundStep
  <2> QED
    BY <2>2, <2>3, <2>4, <2>5, <2>6
       DEF TopologyInvariant, TopologyTypeOK, MonitorInv, PolicyInv, ManagerInv, BoundInv
<1> QED
  BY <1>1, <1>2, PTL DEF Spec

(* The state of the monitor, the manager and the reconciler has its type;  *)
(* ifaceCh never holds more than its capacity.                             *)
THEOREM TopologyTypes == Spec => []TopologyTypeOK
<1>1. TopologyInvariant => TopologyTypeOK
  BY DEF TopologyInvariant
<1> QED
  BY <1>1, TopologyInvariantHolds, PTL

(* UpdateResources never finds a topology resource in dispute, because     *)
(* UpdatePolicyDevices refuses a list that names a bridge twice.           *)
THEOREM TopologyNeverConflicts == Spec => []NoTopologyConflict
<1>1. TopologyInvariant => NoTopologyConflict
  BY DEF TopologyInvariant, ValidInv, Valid, NoTopologyConflict, Conflicting
<1> QED
  BY <1>1, TopologyInvariantHolds, PTL

(* A running server is known to kubelet, except before the watcher reacts  *)
(* to a restart of kubelet, or when the registration failed.               *)
THEOREM RunningIsRegistered == Spec => []ServersAreRegistered
<1>1. TopologyInvariant => ServersAreRegistered
  BY DEF TopologyInvariant
<1> QED
  BY <1>1, TopologyInvariantHolds, PTL

(* After StopAll no goroutine that run() did not wait for brings a Device  *)
(* Plugin back.                                                            *)
THEOREM StopIsFinal == Spec => []StoppedForGood
<1>1. TopologyInvariant => StoppedForGood
  BY DEF TopologyInvariant, StopInv, StoppedForGood
<1> QED
  BY <1>1, TopologyInvariantHolds, PTL

(* A driver with nothing left to do has no event of a bridge on the way.   *)
LEMMA SettledIsQuiet ==
  ASSUME Settled
  PROVE  Quiet /\ ~ctxDone /\ reconcile = "idle"
<1>1. NoBridgeEvent(<<>>)
  BY SMTT(60) DEF NoBridgeEvent
<1> QED
  BY <1>1 DEF Settled, MonitorSettled, PolicySettled, Quiet

(* A driver with nothing left to do has published the bridges that exist   *)
(* and that the policies ask for on the node.                              *)
THEOREM SliceIsCurrentWhenSettled == Spec => []SliceIsCurrent
<1>1. TopologyInvariant => SliceIsCurrent
  BY SettledIsQuiet DEF TopologyInvariant, SliceInv, SliceIsCurrent
<1> QED
  BY <1>1, TopologyInvariantHolds, PTL

(* When no event is under way, numaMap is the database as far as no event  *)
(* was lost.                                                               *)
LEMMA SettledEntries ==
  ASSUME MonitorInv, MonitorSettled, NEW b \in Bridge, NEW u \in Uplink \ lost
  PROVE  <<b, u>> \in numaMap <=> u \in Resolvable /\ where[u] = b
<1>1. \A e : ~Occurs(events, e) /\ ~Occurs(ifaceCh, e)
  BY SMTT(60) DEF MonitorSettled, Occurs
<1>2. Entries = numaMap
  BY IdleFacts DEF MonitorSettled, Entries
<1>3. numaMap \subseteq Bridge \X Resolvable
  BY DEF MonitorInv, MonitorTypeOK
<1>4. ASSUME <<b, u>> \in numaMap
      PROVE  u \in Resolvable /\ where[u] = b
  <2>1. u \in Resolvable
    BY <1>3, <1>4
  <2>2. where[u] \in {b, Gone}
    BY <1>2, <1>4 DEF MonitorInv, EntriesInv
  <2>3. where[u] # Gone
    BY <1>1, <1>2, <1>4 DEF MonitorInv, UplinkInv
  <2> QED
    BY <2>1, <2>2, <2>3
<1>5. ASSUME u \in Resolvable, where[u] = b
      PROVE  <<b, u>> \in numaMap
  BY <1>1, <1>2, <1>5 DEF MonitorInv, UplinkInv
<1> QED
  BY <1>4, <1>5

(* getConsistentNUMA then finds the node the database gives the bridges.   *)
LEMMA SettledNode ==
  ASSUME MonitorInv, MonitorSettled, NEW r \in Resource, Observed(r)
  PROVE  TrueNode(r) = getConsistentNUMA(Nodes, BridgesOf(TopologyOf(Wanted), r))
<1> DEFINE members == BridgesOf(TopologyOf(Wanted), r)
           uplinks == {u \in Resolvable : where[u] \in members}
           home == {n \in {Numa[u] : u \in uplinks} : n >= 0 /\ \A u \in uplinks : Numa[u] = n}
           common == {n \in UNION {Nodes[b] : b \in members} :
                        n >= 0 /\ \A b \in members : Nodes[b] = {n}}
<1>1. members \subseteq Bridge
  BY DEF BridgesOf
<1>2. /\ TrueNode(r) = IF members = {where[u] : u \in uplinks} /\ home # {}
                       THEN CHOOSE n \in home : TRUE ELSE NoServer
      /\ getConsistentNUMA(Nodes, members)
           = IF common = {} THEN NoServer ELSE CHOOSE n \in common : TRUE
  BY DEF TrueNode, getConsistentNUMA
<1> HIDE DEF members
<1>3. ASSUME NEW b \in members
      PROVE  Nodes[b] = {Numa[u] : u \in {v \in Resolvable : where[v] = b}}
  <2>1. ASSUME NEW v \in Uplink
        PROVE  <<b, v>> \in numaMap <=> v \in Resolvable /\ where[v] = b
    <3>1. CASE v \in lost
      BY <3>1 DEF Observed, members
    <3>2. CASE v \notin lost
      BY <1>1, <3>2, SettledEntries
    <3> QED
      BY <3>1, <3>2
  <2>2. {v \in Uplink : <<b, v>> \in numaMap} = {v \in Resolvable : where[v] = b}
    BY <2>1, UplinkAssumption
  <2> QED
    BY <1>1, <2>2 DEF Nodes, BridgeNUMANodes
<1>4. CASE members = {where[u] : u \in uplinks}
  <2>1. ASSUME NEW n \in common
        PROVE  n \in home
    <3>1. PICK b \in members : n \in Nodes[b]
      OBVIOUS
    <3>2. PICK u \in Resolvable : where[u] = b /\ n = Numa[u]
      BY SMTT(60), <1>3, <3>1
    <3>3. \A v \in uplinks : Numa[v] = n
      BY SMTT(60), <1>3
    <3> QED
      BY <3>2, <3>3
  <2>2. ASSUME NEW n \in home
        PROVE  n \in common
    <3>1. PICK u \in uplinks : n = Numa[u]
      OBVIOUS
    <3>2. n \in Nodes[where[u]]
      BY <1>3, <3>1
    <3>3. ASSUME NEW b \in members
          PROVE  Nodes[b] = {n}
      <4>1. PICK v \in uplinks : where[v] = b
        BY <1>4
      <4>2. n \in Nodes[b]
        BY SMTT(60), <1>3, <4>1
      <4>3. \A m \in Nodes[b] : m = n
        BY SMTT(60), <1>3
      <4> QED
        BY <4>2, <4>3
    <3> QED
      BY <3>2, <3>3
  <2>3. common = home
    BY <2>1, <2>2
  <2> QED
    BY SMTT(60), <1>2, <1>4, <2>3 DEF members
<1>5. CASE members # {where[u] : u \in uplinks}
  <2>1. PICK b \in members : \A u \in Resolvable : where[u] # b
    BY <1>5
  <2>2. Nodes[b] = {}
    BY <1>3, <2>1
  <2>3. common = {}
    BY <2>2
  <2> QED
    BY <1>2, <1>5, <2>3 DEF members
<1> QED
  BY <1>4, <1>5

(* A driver with nothing left to do advertises, for each resource that no  *)
(* dropped interface event concerns, the NUMA node its bridges are on, and *)
(* runs no server for one without such a node, except for starts that      *)
(* failed in OnInterfaceChange.                                            *)
THEOREM TopologyIsTrueWhenSettled == Spec => []TopologyIsTrue
<1>1. TopologyInvariant => TopologyIsTrue
  <2> SUFFICES ASSUME TopologyInvariant, Settled, NEW r \in Resource, Observed(r)
               PROVE  servers[r] = TrueNode(r) \/ (r \in missed /\ servers[r] = NoServer)
    BY DEF TopologyIsTrue
  <2>1. topology = TopologyOf(Wanted) /\ ServerOK(r)
    BY SettledIsQuiet DEF TopologyInvariant, ServerInv
  <2>2. MonitorInv /\ MonitorSettled
    BY DEF TopologyInvariant, Settled
  <2>3. TrueNode(r) = getConsistentNUMA(Nodes, BridgesOf(topology, r))
    BY <2>1, <2>2, SettledNode
  <2>4. worker.pc # "notify"
    BY <2>2, IdleFacts DEF MonitorSettled
  <2> QED
    BY <2>1, <2>3, <2>4 DEF ServerOK
<1> QED
  BY <1>1, TopologyInvariantHolds, PTL
=============================================================================
