---------------------------- MODULE TopologyInv ----------------------------
(***************************************************************************)
(* The inductive invariant behind the properties of Topology: where an     *)
(* uplink is known between the database and numaMap, which deletion of a   *)
(* bridge is still to come, and what a reconciler with nothing to do says  *)
(* about the slice, the topology and the servers.                          *)
(***************************************************************************)
EXTENDS Topology

Arrived(u) == [added |-> TRUE, uuid |-> u]
Left(u) == [added |-> FALSE, uuid |-> u]
Added(b) == [type |-> "BridgeAdded", name |-> b]
Deleted(b) == [type |-> "BridgeDeleted", name |-> b]

Occurs(s, e) == \E i \in DOMAIN s : s[i] = e

NoBridgeEvent(s) == \A i \in DOMAIN s : s[i] \notin BridgeEvent

(* Every e in s is followed by an f.                                       *)
Follows(s, e, f) ==
  \A i \in DOMAIN s : s[i] = e => \E j \in DOMAIN s : i < j /\ s[j] = f

-----------------------------------------------------------------------------
(* The monitor.                                                            *)

(* The worker has one bridge and one uplink in hand, or none.              *)
WorkerInv ==
  \/ worker = Idle
  \/ /\ worker.pc \in {"store", "notify"}
     /\ \E b \in Bridge, u \in Resolvable : worker.bridge = {b} /\ worker.uuid = {u}

(* What is in numaMap or about to be.                                      *)
Entries ==
  numaMap \cup (IF worker.pc = "store" THEN worker.bridge \X worker.uuid ELSE {})

(* An uplink has been on one bridge.                                       *)
EntriesInv ==
  \A u \in Uplink, b \in Bridge : <<b, u>> \in Entries =>
    /\ where[u] \in {b, Gone}
    /\ \A c \in Bridge : <<c, u>> \in Entries => c = b

(* An uplink that is on a bridge is known or its addition is on the way;   *)
(* its removal is not.  One that is gone is not known, or its removal is   *)
(* on the way.                                                             *)
UplinkInv ==
  \A u \in Uplink :
    /\ where[u] # Gone => ~Occurs(events, Left(u)) /\ ~Occurs(ifaceCh, Left(u))
    /\ u \in Resolvable \ lost /\ where[u] \in Bridge =>
         \/ Occurs(events, Arrived(u)) \/ Occurs(ifaceCh, Arrived(u))
         \/ <<where[u], u>> \in Entries
    /\ where[u] = Gone /\ u \notin lost /\ (\E b \in Bridge : <<b, u>> \in Entries) =>
         Occurs(events, Left(u)) \/ Occurs(ifaceCh, Left(u))

(* A bridge, or an uplink on a bridge, that came after the bridge of that  *)
(* name was deleted is added after the entries of that name are wiped.     *)
WipeInv ==
  \A b \in Bridge :
    /\ b \in bridges => /\ Follows(events, Deleted(b), Added(b))
                        /\ b \in wiping => Occurs(events, Added(b))
    /\ \A u \in Uplink : where[u] = b =>
         /\ Follows(events, Deleted(b), Arrived(u))
         /\ b \in wiping => Occurs(events, Arrived(u))

MonitorInv == MonitorTypeOK /\ WorkerInv /\ EntriesInv /\ UplinkInv /\ WipeInv

-----------------------------------------------------------------------------
(* The reconciler and the manager.                                         *)

(* No event of a bridge is on the way to the reconciler.                   *)
Quiet ==
  stage = "started" /\ ~queued /\ ~trigger /\ NoBridgeEvent(events)

SliceInv ==
  Quiet => /\ reconcile # "idle" => activeBridges = Wanted
           /\ reconcile # "policy" => published = Wanted /\ allocatable = Wanted

(* A list of bridges that has reached the manager is valid.                *)
ValidInv == reconcile = "resources" => Valid(activeBridges)

(* The server of r is right, its start failed, or the notifier is about to *)
(* look at r.                                                              *)
ServerOK(r) ==
  \/ servers[r] = getConsistentNUMA(Nodes, BridgesOf(topology, r))
  \/ r \in missed /\ servers[r] = NoServer
  \/ worker.pc = "notify" /\ \E b \in worker.bridge : topology[b] = r

ServerInv ==
  Quiet /\ ~ctxDone /\ reconcile = "idle" =>
    topology = TopologyOf(Wanted) /\ \A r \in Resource : ServerOK(r)

(* Nothing happens before the controllers start, and after StopAll no      *)
(* server can be started.                                                  *)
StopInv ==
  /\ registered \subseteq Running
  /\ stage # "started" =>
       /\ ~queued /\ reconcile = "idle" /\ Running = {}
       /\ \A b \in Bridge : topology[b] = NoResource
  /\ stopped => Running = {} /\ (stage = "started" => ctxDone)

TopologyInvariant ==
  /\ TopologyTypeOK /\ MonitorInv
  /\ SliceInv /\ ValidInv /\ ServerInv /\ StopInv /\ ServersAreRegistered
=============================================================================
