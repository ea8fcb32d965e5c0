--------------------------- MODULE UplinkMonitor ---------------------------
(***************************************************************************)
(* The OVSDB monitor of pkg/ovs/client.go: which DPDK uplink is on which   *)
(* bridge, and the NUMA node it is attached to.                            *)
(*                                                                         *)
(* Three goroutines share the state: the database changes, the cache       *)
(* goroutine of libovsdb runs the handlers of startMonitor one event at a  *)
(* time, and processInterfaceEvents works off the interface events that    *)
(* found room in ifaceCh.  A row's UUID is never used again, so an uplink  *)
(* is added to one bridge, once.                                           *)
(***************************************************************************)
EXTENDS Integers, Sequences, FiniteSets, SequencesExt

CONSTANTS
  Bridge,       \* names of netdev bridges
  Uplink,       \* UUIDs of dpdk interfaces
  Resolvable,   \* those whose devargs and sysfs entry give a NUMA node
  Numa,         \* the NUMA node of each of them, -1 for no affinity
  Initial,      \* the bridge of each uplink when the driver starts, or Unborn
  QueueSize,    \* capacity of ifaceCh
  Unborn, Gone  \* places of an uplink that is on no bridge

ASSUME UplinkAssumption ==
  /\ IsFiniteSet(Uplink)
  /\ Resolvable \subseteq Uplink
  /\ Numa \in [Uplink -> Nat \cup {-1}]
  /\ Initial \in [Uplink -> Bridge \cup {Unborn}]
  /\ QueueSize \in Nat \ {0}
  /\ Unborn # Gone /\ Unborn \notin Bridge /\ Gone \notin Bridge

VARIABLES
  bridges,      \* the bridges in the database and in the client's cache
  where,        \* the bridge of each uplink
  events,       \* cache events that are yet to be handled
  wiping,       \* the deleted bridge whose NUMA entries are yet to be deleted
  ifaceCh,      \* interface events for processInterfaceEvents
  numaMap,      \* pairs of a bridge and an uplink
  worker,       \* state of processInterfaceEvents
  lost          \* history: uplinks with an event that had no effect

databaseVars == <<bridges, where>>
cacheVars == <<events, wiping>>
workerVars == <<ifaceCh, numaMap, worker, lost>>
monitorVars == <<databaseVars, cacheVars, workerVars>>

BridgeEvent == [type : {"BridgeAdded", "BridgeDeleted"}, name : Bridge]
IfaceEvent == [added : BOOLEAN, uuid : Uplink]

Idle == [pc |-> "recv", bridge |-> {}, uuid |-> {}]

MonitorTypeOK ==
  /\ bridges \subseteq Bridge
  /\ where \in [Uplink -> Bridge \cup {Unborn, Gone}]
  /\ events \in Seq(BridgeEvent \cup IfaceEvent)
  /\ wiping \in SUBSET Bridge /\ Cardinality(wiping) <= 1
  /\ ifaceCh \in Seq(IfaceEvent) /\ Len(ifaceCh) <= QueueSize
  /\ numaMap \subseteq Bridge \X Resolvable
  /\ worker \in [pc : {"recv", "store", "notify"}, bridge : SUBSET Bridge, uuid : SUBSET Uplink]
  /\ lost \subseteq Uplink

(* New: connected, monitor and worker started, nothing handled yet.  What  *)
(* the database holds arrives as additions, in any order.                  *)
MonitorInit ==
  LET ports == {u \in Uplink : Initial[u] \in Bridge}
      rows == {[type |-> "BridgeAdded", name |-> b] : b \in bridges}
                \cup {[added |-> TRUE, uuid |-> u] : u \in ports} IN
  /\ bridges = {Initial[u] : u \in ports}
  /\ where = Initial
  /\ events \in SetToSeqs(rows)
  /\ wiping = {}
  /\ ifaceCh = <<>>
  /\ numaMap = {}
  /\ worker = Idle
  /\ lost = {}

-----------------------------------------------------------------------------
(* The database and the cache of libovsdb (external).                      *)

AddBridge(b) ==
  /\ b \notin bridges
  /\ bridges' = bridges \cup {b}
  /\ events' = Append(events, [type |-> "BridgeAdded", name |-> b])
  /\ UNCHANGED <<where, wiping, workerVars>>

AddUplink(u, b) ==
  /\ where[u] = Unborn
  /\ b \in bridges
  /\ where' = [where EXCEPT ![u] = b]
  /\ events' = Append(events, [added |-> TRUE, uuid |-> u])
  /\ UNCHANGED <<bridges, wiping, workerVars>>

DeleteUplink(u) ==
  /\ where[u] \in Bridge
  /\ where' = [where EXCEPT ![u] = Gone]
  /\ events' = Append(events, [added |-> FALSE, uuid |-> u])
  /\ UNCHANGED <<bridges, wiping, workerVars>>

(* The uplinks go with their bridge.  The events of one transaction come   *)
(* in any order.                                                           *)
DeleteBridge(b) ==
  LET ports == {u \in Uplink : where[u] = b}
      rows == {[type |-> "BridgeDeleted", name |-> b]}
                \cup {[added |-> FALSE, uuid |-> u] : u \in ports} IN
  /\ b \in bridges
  /\ bridges' = bridges \ {b}
  /\ where' = [u \in Uplink |-> IF u \in ports THEN Gone ELSE where[u]]
  /\ \E order \in SetToSeqs(rows) : events' = events \o order
  /\ UNCHANGED <<wiping, workerVars>>

-----------------------------------------------------------------------------
(* The handlers of startMonitor.  The bridge notifier runs in the first    *)
(* two, see Topology.                                                      *)

(* Mutant: the NUMA entries are deleted in the background.                 *)
NextEventDuringWipe(ev) ==
  /\ events # <<>>
  /\ ev = Head(events)
  /\ events' = Tail(events)

NextEvent(ev) ==
  /\ wiping = {}
  /\ events # <<>>
  /\ ev = Head(events)
  /\ events' = Tail(events)

BridgeAddFunc(b) ==
  /\ NextEvent([type |-> "BridgeAdded", name |-> b])
  /\ UNCHANGED <<databaseVars, wiping, workerVars>>

BridgeDeleteFunc(b) ==
  /\ NextEvent([type |-> "BridgeDeleted", name |-> b])
  /\ wiping' = {b}
  /\ UNCHANGED <<databaseVars, workerVars>>

(* After the notifier returned, the bridge's NUMA entries are deleted.     *)
WipeBridge ==
  /\ wiping # {}
  /\ numaMap' = {e \in numaMap : e[1] \notin wiping}
  /\ wiping' = {}
  /\ UNCHANGED <<databaseVars, events, ifaceCh, worker, lost>>

(* Mutant: the queue has no bound.                                         *)
InterfaceFuncUnbounded(u) ==
  \E added \in BOOLEAN :
    /\ NextEvent([added |-> added, uuid |-> u])
    /\ ifaceCh' = Append(ifaceCh, [added |-> added, uuid |-> u])
    /\ UNCHANGED <<databaseVars, wiping, numaMap, worker, lost>>

(* An interface event is queued, or dropped when the queue is full.        *)
InterfaceFunc(u) ==
  \E added \in BOOLEAN :
    LET ev == [added |-> added, uuid |-> u] IN
    /\ NextEvent(ev)
    /\ IF Len(ifaceCh) < QueueSize
         THEN ifaceCh' = Append(ifaceCh, ev) /\ UNCHANGED lost
         ELSE lost' = lost \cup {u} /\ UNCHANGED ifaceCh
    /\ UNCHANGED <<databaseVars, wiping, numaMap, worker>>

-----------------------------------------------------------------------------
(* processInterfaceEvents.                                                 *)

Receive(ev) ==
  /\ worker.pc = "recv"
  /\ ifaceCh # <<>>
  /\ ev = Head(ifaceCh)
  /\ ifaceCh' = Tail(ifaceCh)

(* handleInterfaceAdd up to the lookup of port and bridge, which needs the *)
(* uplink to be in the database still.                                     *)
LookupUplink(u) ==
  /\ Receive([added |-> TRUE, uuid |-> u])
  /\ worker' = IF u \in Resolvable /\ where[u] \in Bridge
                 THEN [pc |-> "store", bridge |-> {where[u]}, uuid |-> {u}]
                 ELSE Idle
  /\ UNCHANGED <<databaseVars, cacheVars, numaMap, lost>>

(* The select on the port table fails: the uplink is logged and forgotten. *)
LookupFails(u) ==
  /\ Receive([added |-> TRUE, uuid |-> u])
  /\ lost' = lost \cup {u}
  /\ UNCHANGED <<databaseVars, cacheVars, numaMap, worker>>

StoreNode ==
  /\ worker.pc = "store"
  /\ numaMap' = numaMap \cup (worker.bridge \X worker.uuid)
  /\ worker' = [worker EXCEPT !.pc = "notify"]
  /\ UNCHANGED <<databaseVars, cacheVars, ifaceCh, lost>>

(* handleInterfaceDelete: only a bridge that had the uplink is notified.   *)
ForgetUplink(u) ==
  LET found == {b \in Bridge : <<b, u>> \in numaMap} IN
  /\ Receive([added |-> FALSE, uuid |-> u])
  /\ numaMap' = {e \in numaMap : e[2] # u}
  /\ worker' = IF found = {} THEN Idle
               ELSE [pc |-> "notify", bridge |-> found, uuid |-> {u}]
  /\ UNCHANGED <<databaseVars, cacheVars, lost>>

(* The interface notifier has run, see Topology.                           *)
Notified ==
  /\ worker.pc = "notify"
  /\ worker' = Idle
  /\ UNCHANGED <<databaseVars, cacheVars, ifaceCh, numaMap, lost>>

-----------------------------------------------------------------------------
BridgeNUMANodes(b) == {Numa[u] : u \in {v \in Uplink : <<b, v>> \in numaMap}}

(* Nothing is under way between the database and numaMap.                  *)
MonitorSettled ==
  /\ events = <<>>
  /\ wiping = {}
  /\ ifaceCh = <<>>
  /\ worker = Idle
=============================================================================
