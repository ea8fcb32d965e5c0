--------------------------- MODULE MonitorProofs ---------------------------
(***************************************************************************)
(* The OVS monitor, for any number of bridges and uplinks, any capacity of *)
(* ifaceCh and any order of the goroutines: every database change, cache   *)
(* event, wipe and step of the worker keeps MonitorInv.  It needs no       *)
(* invariant of the other components, which only read the monitor.         *)
(***************************************************************************)
EXTENDS TopologyInv, SequenceLemmas

(* First-order leaves go to Zenon; a leaf for the SMT solver says SMTT.    *)
USE ZenonT(60), SMTT(60)

-----------------------------------------------------------------------------
(* Facts about the queues.                                                 *)

Event == BridgeEvent \cup IfaceEvent

(* The events are what their names say, and differ.                        *)
LEMMA EventTypes ==
  /\ \A u \in Uplink : Arrived(u) \in IfaceEvent /\ Left(u) \in IfaceEvent
  /\ \A b \in Bridge : Added(b) \in BridgeEvent /\ Deleted(b) \in BridgeEvent
BY SMTT(60) DEF Arrived, Left, Added, Deleted, IfaceEvent, BridgeEvent

(* Events of different kinds, or of different rows, are different.         *)
LEMMA EventsDiffer ==
  /\ \A u, v \in Uplink : Arrived(u) # Left(v)
  /\ \A u, v \in Uplink : Arrived(u) = Arrived(v) => u = v
  /\ \A u, v \in Uplink : Left(u) = Left(v) => u = v
  /\ \A b, c \in Bridge : Added(b) # Deleted(c)
  /\ \A b, c \in Bridge : Deleted(b) = Deleted(c) => b = c
  /\ \A b, c \in Bridge : Added(b) = Added(c) => b = c
BY SMTT(60) DEF Arrived, Left, Added, Deleted

(* No event of an interface is one of a bridge.                            *)
LEMMA KindsDiffer ==
  ASSUME NEW e \in IfaceEvent
  PROVE  e \notin BridgeEvent
<1>1. DOMAIN e = {"added", "uuid"}
  BY SMTT(60) DEF IfaceEvent
<1>2. \A f \in BridgeEvent : DOMAIN f = {"type", "name"}
  BY SMTT(60) DEF BridgeEvent
<1>3. {"added", "uuid"} # {"type", "name"}
  BY SMTT(60)
<1> QED
  BY <1>1, <1>2, <1>3

(* The elements of a queue that has grown or shrunk.                       *)
LEMMA AppendElements ==
  ASSUME NEW S, NEW s \in Seq(S), NEW x \in S
  PROVE  /\ DOMAIN Append(s, x) = DOMAIN s \cup {Len(s) + 1}
         /\ Len(s) + 1 \notin DOMAIN s
         /\ \A i \in DOMAIN s : i < Len(s) + 1 /\ Append(s, x)[i] = s[i]
         /\ Append(s, x)[Len(s) + 1] = x
BY SMTT(60)

(* The elements of two queues put together.                                *)
LEMMA ConcatElements ==
  ASSUME NEW S, NEW s \in Seq(S), NEW t \in Seq(S)
  PROVE  /\ \A i \in DOMAIN s : i \in DOMAIN (s \o t) /\ (s \o t)[i] = s[i]
         /\ \A i \in DOMAIN t : Len(s) + i \in DOMAIN (s \o t) /\ (s \o t)[Len(s) + i] = t[i]
         /\ \A i \in DOMAIN (s \o t) :
              i \in DOMAIN s \/ (i - Len(s) \in DOMAIN t /\ (s \o t)[i] = t[i - Len(s)])
BY SMTT(60)

(* The elements of a queue whose head is taken.                            *)
LEMMA TailElements ==
  ASSUME NEW S, NEW s \in Seq(S), s # <<>>
  PROVE  /\ 1 \in DOMAIN s /\ s[1] = Head(s)
         /\ \A i \in DOMAIN Tail(s) : i + 1 \in DOMAIN s /\ Tail(s)[i] = s[i + 1]
         /\ \A i \in DOMAIN s : i = 1 \/ (i > 1 /\ i - 1 \in DOMAIN Tail(s) /\ Tail(s)[i - 1] = s[i])
BY SMTT(60)

(* What occurs in a queue that has grown by one event,                     *)
LEMMA AppendOccurs ==
  ASSUME NEW S, NEW s \in Seq(S), NEW x \in S, NEW e
  PROVE  Occurs(Append(s, x), e) <=> Occurs(s, e) \/ x = e
BY SMTT(60), AppendElements DEF Occurs

(* by several,                                                             *)
LEMMA ConcatOccurs ==
  ASSUME NEW S, NEW s \in Seq(S), NEW t \in Seq(S), NEW e
  PROVE  Occurs(s \o t, e) <=> Occurs(s, e) \/ Occurs(t, e)
<1>1. Occurs(s, e) => Occurs(s \o t, e)
  BY SMTT(60), ConcatElements DEF Occurs
<1>2. ASSUME Occurs(t, e) PROVE Occurs(s \o t, e)
  <2>1. PICK i \in DOMAIN t : t[i] = e
    BY <1>2 DEF Occurs
  <2>2. Len(s) + i \in DOMAIN (s \o t) /\ (s \o t)[Len(s) + i] = e
    BY SMTT(60), <2>1, ConcatElements
  <2> QED
    BY <2>2 DEF Occurs
<1>3. Occurs(s \o t, e) => Occurs(s, e) \/ Occurs(t, e)
  BY SMTT(60), ConcatElements DEF Occurs
<1> QED
  BY <1>1, <1>2, <1>3

(* or has lost its head.                                                   *)
LEMMA TailOccurs ==
  ASSUME NEW S, NEW s \in Seq(S), s # <<>>, NEW e
  PROVE  Occurs(s, e) <=> Head(s) = e \/ Occurs(Tail(s), e)
<1>1. Head(s) = e \/ Occurs(Tail(s), e) => Occurs(s, e)
  BY SMTT(60), TailElements DEF Occurs
<1>2. Occurs(s, e) => Head(s) = e \/ Occurs(Tail(s), e)
  BY TailElements DEF Occurs
<1> QED
  BY <1>1, <1>2

(* An event at the end keeps the order of the others, and follows every    *)
(* other event.                                                            *)
LEMMA AppendFollows ==
  ASSUME NEW S, NEW s \in Seq(S), NEW x \in S, NEW e, NEW f, x # e
  PROVE  /\ Follows(s, e, f) => Follows(Append(s, x), e, f)
         /\ Follows(Append(s, x), e, x)
BY SMTT(60), AppendElements DEF Follows

(* Events at the end that are not an e keep what follows an e.             *)
LEMMA ConcatFollows ==
  ASSUME NEW S, NEW s \in Seq(S), NEW t \in Seq(S), NEW e, NEW f,
         Follows(s, e, f), ~Occurs(t, e)
  PROVE  Follows(s \o t, e, f)
BY SMTT(60) DEF Follows, Occurs

(* So does taking the head; if the head is an e, what follows it is still  *)
(* there.                                                                  *)
LEMMA TailFollows ==
  ASSUME NEW S, NEW s \in Seq(S), s # <<>>, NEW e, NEW f, Follows(s, e, f)
  PROVE  /\ Follows(Tail(s), e, f)
         /\ Head(s) = e => Occurs(Tail(s), f)
<1>1. ASSUME NEW i \in DOMAIN s, s[i] = e
      PROVE  \E j \in DOMAIN Tail(s) : i <= j /\ Tail(s)[j] = f
  <2>1. PICK j \in DOMAIN s : i < j /\ s[j] = f
    BY <1>1 DEF Follows
  <2>2. i \in Nat \ {0} /\ j \in Nat
    BY SMTT(60)
  <2>3. j # 1 /\ i <= j - 1
    BY SMTT(60), <2>1, <2>2
  <2> QED
    BY <2>1, <2>3, TailElements
<1>2. ASSUME NEW i \in DOMAIN Tail(s), Tail(s)[i] = e
      PROVE  \E j \in DOMAIN Tail(s) : i < j /\ Tail(s)[j] = f
  <2>1. i + 1 \in DOMAIN s /\ s[i + 1] = e
    BY <1>2, TailElements
  <2>2. PICK j \in DOMAIN Tail(s) : i + 1 <= j /\ Tail(s)[j] = f
    BY <1>1, <2>1
  <2>3. i < j
    BY SMTT(60), <2>2
  <2> QED
    BY <2>2, <2>3
<1>3. Head(s) = e => Occurs(Tail(s), f)
  BY <1>1, TailElements DEF Occurs
<1> QED
  BY <1>2, <1>3 DEF Follows

(* A queue that has grown or shrunk is still a queue.                      *)
LEMMA QueueEnds ==
  ASSUME NEW S, NEW s \in Seq(S)
  PROVE  /\ \A x \in S : Append(s, x) \in Seq(S) /\ Len(Append(s, x)) = Len(s) + 1
         /\ \A t \in Seq(S) : s \o t \in Seq(S)
         /\ s # <<>> => /\ Head(s) \in S /\ Tail(s) \in Seq(S) /\ Len(Tail(s)) = Len(s) - 1
                        /\ Len(s) \in Nat \ {0}
         /\ Len(s) \in Nat
BY SMTT(60)

-----------------------------------------------------------------------------
(* The database changes.                                                   *)

(* Nothing of the worker changes.                                          *)
LEMMA WorkerFrame ==
  ASSUME WorkerInv, UNCHANGED workerVars
  PROVE  WorkerInv' /\ Entries' = Entries /\ UNCHANGED <<ifaceCh, numaMap, worker, lost>>
BY DEF WorkerInv, Entries, workerVars

(* A new bridge is announced after the deletion of an earlier one.         *)
LEMMA AddBridgeMonitor ==
  ASSUME MonitorInv, NEW b \in Bridge, AddBridge(b)
  PROVE  MonitorInv'
<1> USE DEF MonitorInv
<1>1. /\ bridges' = bridges \cup {b} /\ events' = Append(events, Added(b))
      /\ UNCHANGED <<where, wiping, workerVars>>
  BY DEF AddBridge, Added
<1>2. WorkerInv' /\ Entries' = Entries /\ UNCHANGED <<ifaceCh, numaMap, worker, lost>>
  BY <1>1, WorkerFrame
<1>3. events \in Seq(Event) /\ Added(b) \in Event
  BY EventTypes DEF MonitorTypeOK, Event
<1>4. MonitorTypeOK'
  BY <1>1, <1>2, <1>3, QueueEnds DEF MonitorTypeOK, Event
<1>5. \A e : Occurs(events', e) <=> Occurs(events, e) \/ e = Added(b)
  BY <1>1, <1>3, AppendOccurs
<1>6. \A u \in Uplink : Arrived(u) # Added(b) /\ Left(u) # Added(b)
  BY EventTypes, KindsDiffer
<1>7. EntriesInv'
  BY <1>1, <1>2 DEF EntriesInv
<1>8. UplinkInv'
  BY <1>1, <1>2, <1>5, <1>6 DEF UplinkInv
<1>9. WipeInv'
  <2>1. ASSUME NEW c \in Bridge, NEW f
        PROVE  /\ Follows(events, Deleted(c), f) => Follows(events', Deleted(c), f)
               /\ Follows(events', Deleted(c), Added(b))
    <3>1. Added(b) # Deleted(c)
      BY EventsDiffer
    <3> QED
      BY <1>1, <1>3, <3>1, AppendFollows
  <2> QED
    BY <1>1, <1>5, <2>1 DEF WipeInv
<1> QED
  BY <1>2, <1>4, <1>7, <1>8, <1>9

(* So is a new uplink.                                                     *)
LEMMA AddUplinkMonitor ==
  ASSUME MonitorInv, NEW v \in Uplink, NEW b \in Bridge, AddUplink(v, b)
  PROVE  MonitorInv'
<1> USE DEF MonitorInv
<1>1. /\ where[v] = Unborn
      /\ where' = [where EXCEPT ![v] = b] /\ events' = Append(events, Arrived(v))
      /\ UNCHANGED <<bridges, wiping, workerVars>>
  BY DEF AddUplink, Arrived
<1>2. WorkerInv' /\ Entries' = Entries /\ UNCHANGED <<ifaceCh, numaMap, worker, lost>>
  BY <1>1, WorkerFrame
<1>3. events \in Seq(Event) /\ Arrived(v) \in Event
  BY EventTypes DEF MonitorTypeOK, Event
<1>4. where'[v] = b /\ \A u \in Uplink : u # v => where'[u] = where[u]
  BY <1>1 DEF MonitorTypeOK
<1>5. MonitorTypeOK'
  BY <1>1, <1>2, <1>3, QueueEnds DEF MonitorTypeOK, Event
<1>6. \A e : Occurs(events', e) <=> Occurs(events, e) \/ e = Arrived(v)
  BY <1>1, <1>3, AppendOccurs
<1>7. \A u \in Uplink : Left(u) # Arrived(v)
  BY EventsDiffer
<1>8. Unborn # Gone /\ Unborn \notin Bridge /\ Gone \notin Bridge
  BY UplinkAssumption
<1>9. \A c \in Bridge : <<c, v>> \notin Entries
  BY <1>1, <1>8 DEF EntriesInv
<1>10. EntriesInv'
  BY <1>2, <1>4, <1>9 DEF EntriesInv
<1>11. UplinkInv'
  <2>1. \A u \in Uplink :
          where'[u] # Gone => ~Occurs(events', Left(u)) /\ ~Occurs(ifaceCh', Left(u))
    BY <1>1, <1>2, <1>4, <1>6, <1>7, <1>8 DEF UplinkInv
  <2>2. \A u \in Uplink : u \in Resolvable \ lost' /\ where'[u] \in Bridge =>
          \/ Occurs(events', Arrived(u)) \/ Occurs(ifaceCh', Arrived(u))
          \/ <<where'[u], u>> \in Entries'
    BY <1>2, <1>4, <1>6 DEF UplinkInv
  <2>3. ASSUME NEW u \in Uplink, where'[u] = Gone, u \notin lost',
               \E c \in Bridge : <<c, u>> \in Entries'
        PROVE  Occurs(events', Left(u)) \/ Occurs(ifaceCh', Left(u))
    BY <1>2, <1>4, <1>6, <1>8, <2>3 DEF UplinkInv
  <2> QED
    BY <2>1, <2>2, <2>3 DEF UplinkInv
<1>12. WipeInv'
  <2>1. ASSUME NEW c \in Bridge, NEW f
        PROVE  /\ Follows(events, Deleted(c), f) => Follows(events', Deleted(c), f)
               /\ Follows(events', Deleted(c), Arrived(v))
    <3>1. Arrived(v) # Deleted(c)
      BY EventTypes, KindsDiffer
    <3> QED
      BY <1>1, <1>3, <3>1, AppendFollows
  <2> QED
    BY <1>1, <1>4, <1>6, <2>1 DEF WipeInv
<1> QED
  BY <1>2, <1>5, <1>10, <1>11, <1>12

(* The removal of an uplink is announced at the end.                       *)
LEMMA DeleteUplinkMonitor ==
  ASSUME MonitorInv, NEW v \in Uplink, DeleteUplink(v)
  PROVE  MonitorInv'
<1> USE DEF MonitorInv
<1>1. /\ where' = [where EXCEPT ![v] = Gone] /\ events' = Append(events, Left(v))
      /\ UNCHANGED <<bridges, wiping, workerVars>>
  BY DEF DeleteUplink, Left
<1>2. WorkerInv' /\ Entries' = Entries /\ UNCHANGED <<ifaceCh, numaMap, worker, lost>>
  BY <1>1, WorkerFrame
<1>3. events \in Seq(Event) /\ Left(v) \in Event
  BY EventTypes DEF MonitorTypeOK, Event
<1>4. where'[v] = Gone /\ \A u \in Uplink : u # v => where'[u] = where[u]
  BY <1>1 DEF MonitorTypeOK
<1>5. MonitorTypeOK'
  BY <1>1, <1>2, <1>3, QueueEnds DEF MonitorTypeOK, Event
<1>6. \A e : Occurs(events', e) <=> Occurs(events, e) \/ e = Left(v)
  BY <1>1, <1>3, AppendOccurs
<1>7. \A u \in Uplink : Left(u) = Left(v) => u = v
  BY EventsDiffer
<1>8. Gone \notin Bridge
  BY UplinkAssumption
<1>9. EntriesInv'
  BY <1>2, <1>4 DEF EntriesInv
<1>10. UplinkInv'
  <2>1. \A u \in Uplink :
          where'[u] # Gone => ~Occurs(events', Left(u)) /\ ~Occurs(ifaceCh', Left(u))
    BY <1>1, <1>2, <1>4, <1>6, <1>7 DEF UplinkInv
  <2>2. \A u \in Uplink : u \in Resolvable \ lost' /\ where'[u] \in Bridge =>
          \/ Occurs(events', Arrived(u)) \/ Occurs(ifaceCh', Arrived(u))
          \/ <<where'[u], u>> \in Entries'
    BY <1>2, <1>4, <1>6, <1>8 DEF UplinkInv
  <2>3. ASSUME NEW u \in Uplink, where'[u] = Gone, u \notin lost',
               \E c \in Bridge : <<c, u>> \in Entries'
        PROVE  Occurs(events', Left(u)) \/ Occurs(ifaceCh', Left(u))
    BY <1>2, <1>4, <1>6, <2>3 DEF UplinkInv
  <2> QED
    BY <2>1, <2>2, <2>3 DEF UplinkInv
<1>11. WipeInv'
  <2>1. ASSUME NEW c \in Bridge, NEW f, Follows(events, Deleted(c), f)
        PROVE  Follows(events', Deleted(c), f)
    <3>1. Left(v) # Deleted(c)
      BY EventTypes, KindsDiffer
    <3> QED
      BY <1>1, <1>3, <2>1, <3>1, AppendFollows
  <2> QED
    BY <1>1, <1>4, <1>6, <1>8, <2>1 DEF WipeInv
<1> QED
  BY <1>2, <1>5, <1>9, <1>10, <1>11

(* The events of a deleted bridge: its own, and one for each uplink on it. *)
LEMMA DeleteBridgeEvents ==
  ASSUME NEW b \in Bridge, NEW P, P \subseteq Uplink,
         NEW order \in SetToSeqs({Deleted(b)} \cup {Left(u) : u \in P})
  PROVE  /\ order \in Seq(Event)
         /\ \A e : Occurs(order, e) <=> e = Deleted(b) \/ \E u \in P : e = Left(u)
<1> DEFINE rows == {Deleted(b)} \cup {Left(u) : u \in P}
           left == [u \in Uplink |-> Left(u)]
<1>1. IsFiniteSet(P)
  BY UplinkAssumption, FS_Subset
<1>2. {left[u] : u \in P} = {Left(u) : u \in P}
  OBVIOUS
<1>3. IsFiniteSet({Left(u) : u \in P})
  <2> HIDE DEF left
  <2> QED
    BY <1>1, <1>2, FiniteImage
<1>4. IsFiniteSet({Deleted(b)})
  BY FS_Singleton
<1>5. IsFiniteSet(rows)
  BY <1>3, <1>4, FS_Union
<1>6. order \in Seq(rows) /\ \A x \in rows : Occurs(order, x)
  <2> HIDE DEF rows
  <2>1. order \in SetToSeqs(rows)
    BY DEF rows
  <2> QED
    BY <1>5, <2>1, OrderFacts DEF Occurs
<1>7. rows \subseteq Event
  BY EventTypes DEF Event
<1>8. order \in Seq(Event)
  <2> HIDE DEF rows
  <2> QED
    BY SMTT(60), <1>6, <1>7
<1>9. \A e : Occurs(order, e) => e \in rows
  <2> HIDE DEF rows
  <2> QED
    BY SMTT(60), <1>6 DEF Occurs
<1> QED
  BY <1>6, <1>8, <1>9

(* A bridge goes with its uplinks: each of them is announced as removed.   *)
LEMMA DeleteBridgeMonitor ==
  ASSUME MonitorInv, NEW b \in Bridge, DeleteBridge(b)
  PROVE  MonitorInv'
<1> USE DEF MonitorInv
<1> DEFINE P == {u \in Uplink : where[u] = b}
<1>1. /\ bridges' = bridges \ {b}
      /\ where' = [u \in Uplink |-> IF u \in P THEN Gone ELSE where[u]]
      /\ UNCHANGED <<wiping, workerVars>>
  BY DEF DeleteBridge
<1>2. PICK order \in SetToSeqs({Deleted(b)} \cup {Left(u) : u \in P}) : events' = events \o order
  BY DEF DeleteBridge, Deleted, Left
<1>3. /\ order \in Seq(Event)
      /\ \A e : Occurs(order, e) <=> e = Deleted(b) \/ \E u \in P : e = Left(u)
  <2>1. P \subseteq Uplink
    OBVIOUS
  <2> HIDE DEF P
  <2> QED
    BY <2>1, DeleteBridgeEvents
<1>4. WorkerInv' /\ Entries' = Entries /\ UNCHANGED <<ifaceCh, numaMap, worker, lost>>
  BY <1>1, WorkerFrame
<1>5. events \in Seq(Event)
  BY DEF MonitorTypeOK, Event
<1>6. \A e : Occurs(events', e) <=> Occurs(events, e) \/ e = Deleted(b) \/ \E u \in P : e = Left(u)
  BY <1>2, <1>3, <1>5, ConcatOccurs
<1>7. \A u \in Uplink : where'[u] = IF where[u] = b THEN Gone ELSE where[u]
  BY <1>1
<1>8. Gone \notin Bridge
  BY UplinkAssumption
<1>9. \A u \in Uplink : Occurs(events', Left(u)) <=> Occurs(events, Left(u)) \/ where[u] = b
  <2>1. ASSUME NEW u \in Uplink
        PROVE  Left(u) # Deleted(b) /\ \A v \in P : Left(u) = Left(v) => u = v
    BY EventTypes, KindsDiffer, EventsDiffer
  <2> QED
    BY <1>6, <2>1
<1>10. \A u \in Uplink : Occurs(events, Arrived(u)) => Occurs(events', Arrived(u))
  BY <1>6
<1>11. MonitorTypeOK'
  <2>1. events' \in Seq(Event)
    BY <1>2, <1>3, <1>5, QueueEnds
  <2>2. where' \in [Uplink -> Bridge \cup {Unborn, Gone}]
    BY <1>1 DEF MonitorTypeOK
  <2> QED
    BY <1>1, <1>4, <2>1, <2>2 DEF MonitorTypeOK, Event
<1> HIDE DEF P
<1>12. EntriesInv'
  BY <1>4, <1>7 DEF EntriesInv
<1>13. UplinkInv'
  <2>1. \A u \in Uplink :
          where'[u] # Gone => ~Occurs(events', Left(u)) /\ ~Occurs(ifaceCh', Left(u))
    BY <1>4, <1>7, <1>9 DEF UplinkInv
  <2>2. \A u \in Uplink : u \in Resolvable \ lost' /\ where'[u] \in Bridge =>
          \/ Occurs(events', Arrived(u)) \/ Occurs(ifaceCh', Arrived(u))
          \/ <<where'[u], u>> \in Entries'
    BY <1>4, <1>7, <1>8, <1>10 DEF UplinkInv
  <2>3. ASSUME NEW u \in Uplink, where'[u] = Gone, u \notin lost',
               \E c \in Bridge : <<c, u>> \in Entries'
        PROVE  Occurs(events', Left(u)) \/ Occurs(ifaceCh', Left(u))
    BY <1>4, <1>7, <1>9, <2>3 DEF UplinkInv
  <2> QED
    BY <2>1, <2>2, <2>3 DEF UplinkInv
<1>14. WipeInv'
  <2>1. ASSUME NEW c \in Bridge, c # b, NEW f, Follows(events, Deleted(c), f)
        PROVE  Follows(events', Deleted(c), f)
    <3>1. ~Occurs(order, Deleted(c))
      <4>1. Deleted(c) # Deleted(b)
        BY <2>1, EventsDiffer
      <4>2. \A u \in Uplink : Deleted(c) # Left(u)
        BY EventTypes, KindsDiffer
      <4> QED
        BY <1>3, <4>1, <4>2 DEF P
    <3> QED
      BY <1>2, <1>3, <1>5, <2>1, <3>1, ConcatFollows
  <2>2. \A c \in Bridge : c \in bridges' => c # b /\ c \in bridges
    BY <1>1
  <2>3. \A u \in Uplink, c \in Bridge : where'[u] = c => c # b /\ where[u] = c
    BY <1>7, <1>8
  <2> QED
    BY <1>1, <1>6, <2>1, <2>2, <2>3 DEF WipeInv
<1> QED
  BY <1>4, <1>11, <1>12, <1>13, <1>14

-----------------------------------------------------------------------------
(* The handlers of the cache.                                              *)

(* What is left when the first event is taken.                             *)
LEMMA NextEventFacts ==
  ASSUME MonitorInv, NEW e \in Event, NextEvent(e)
  PROVE  /\ events' \in Seq(Event) /\ wiping = {}
         /\ Occurs(events, e)
         /\ \A f : f # e => (Occurs(events', f) <=> Occurs(events, f))
         /\ \A f : Occurs(events', f) => Occurs(events, f)
         /\ \A f, g : Follows(events, f, g) =>
              Follows(events', f, g) /\ (f = e => Occurs(events', g))
<1>1. /\ events \in Seq(Event) /\ events # <<>>
      /\ e = Head(events) /\ events' = Tail(events) /\ wiping = {}
  BY DEF NextEvent, MonitorInv, MonitorTypeOK, Event
<1>2. events' \in Seq(Event)
  BY <1>1, QueueEnds
<1>3. \A f : Occurs(events, f) <=> e = f \/ Occurs(events', f)
  BY <1>1, TailOccurs
<1>4. \A f, g : Follows(events, f, g) =>
        Follows(events', f, g) /\ (f = e => Occurs(events', g))
  BY <1>1, TailFollows
<1> QED
  BY <1>1, <1>2, <1>3, <1>4

(* The handlers of a bridge: a deletion starts the wipe.                   *)
LEMMA BridgeFuncMonitor ==
  ASSUME MonitorInv, NEW b \in Bridge, BridgeAddFunc(b) \/ BridgeDeleteFunc(b)
  PROVE  MonitorInv'
<1> USE DEF MonitorInv
<1>1. PICK e \in BridgeEvent :
        /\ NextEvent(e) /\ UNCHANGED <<bridges, where, workerVars>>
        /\ wiping' = {} \/ (wiping' = {b} /\ e = Deleted(b))
  BY EventTypes DEF BridgeAddFunc, BridgeDeleteFunc, NextEvent, databaseVars, Added, Deleted
<1>2. e \in Event
  BY DEF Event
<1>3. /\ events' \in Seq(Event)
      /\ \A f : f # e => (Occurs(events', f) <=> Occurs(events, f))
      /\ \A f, g : Follows(events, f, g) =>
           Follows(events', f, g) /\ (f = e => Occurs(events', g))
  BY <1>1, <1>2, NextEventFacts
<1>4. WorkerInv' /\ Entries' = Entries /\ UNCHANGED <<ifaceCh, numaMap, worker, lost>>
  BY <1>1, WorkerFrame
<1>5. MonitorTypeOK'
  <2>1. wiping' \in SUBSET Bridge /\ Cardinality(wiping') <= 1
    <3>1. Cardinality({}) = 0 /\ Cardinality({b}) = 1
      BY FS_EmptySet, FS_Singleton
    <3>2. Cardinality({}) <= 1 /\ Cardinality({b}) <= 1
      BY SMTT(60), <3>1
    <3> QED
      BY <1>1, <3>2
  <2> QED
    BY <1>1, <1>3, <1>4, <2>1 DEF MonitorTypeOK, Event
<1>6. \A u \in Uplink : Arrived(u) # e /\ Left(u) # e
  BY EventTypes, KindsDiffer
<1>7. EntriesInv'
  BY <1>1, <1>4 DEF EntriesInv
<1>8. UplinkInv'
  BY <1>1, <1>3, <1>4, <1>6 DEF UplinkInv
<1>9. WipeInv'
  <2>1. \A c \in Bridge : c \in wiping' => e = Deleted(c)
    BY <1>1
  <2>2. ASSUME NEW c \in Bridge, NEW g, Follows(events, Deleted(c), g)
        PROVE  Follows(events', Deleted(c), g) /\ (c \in wiping' => Occurs(events', g))
    BY <1>3, <2>1, <2>2
  <2> QED
    BY <1>1, <2>2 DEF WipeInv
<1> QED
  BY <1>4, <1>5, <1>7, <1>8, <1>9

(* The handler of an interface moves the event to ifaceCh or drops it.     *)
LEMMA InterfaceFuncMonitor ==
  ASSUME MonitorInv, NEW v \in Uplink, InterfaceFunc(v)
  PROVE  MonitorInv'
<1> USE DEF MonitorInv
<1>1. PICK e \in {Arrived(v), Left(v)} :
        /\ NextEvent(e) /\ UNCHANGED <<bridges, where, wiping, numaMap, worker>>
        /\ \/ Len(ifaceCh) < QueueSize /\ ifaceCh' = Append(ifaceCh, e) /\ lost' = lost
           \/ lost' = lost \cup {v} /\ ifaceCh' = ifaceCh
  <2>1. PICK added \in BOOLEAN : LET ev == [added |-> added, uuid |-> v] IN
          /\ NextEvent(ev)
          /\ IF Len(ifaceCh) < QueueSize
               THEN ifaceCh' = Append(ifaceCh, ev) /\ UNCHANGED lost
               ELSE lost' = lost \cup {v} /\ UNCHANGED ifaceCh
          /\ UNCHANGED <<databaseVars, wiping, numaMap, worker>>
    BY DEF InterfaceFunc
  <2>2. [added |-> added, uuid |-> v] \in {Arrived(v), Left(v)}
    BY DEF Arrived, Left
  <2> QED
    BY <2>1, <2>2 DEF databaseVars
<1>2. e \in IfaceEvent /\ e \in Event
  BY EventTypes DEF Event
<1>3. /\ events' \in Seq(Event) /\ wiping = {} /\ Occurs(events, e)
      /\ \A f : f # e => (Occurs(events', f) <=> Occurs(events, f))
      /\ \A f : Occurs(events', f) => Occurs(events, f)
      /\ \A f, g : Follows(events, f, g) => Follows(events', f, g)
  BY <1>1, <1>2, NextEventFacts
<1>4. ifaceCh \in Seq(IfaceEvent) /\ Len(ifaceCh) <= QueueSize
  BY DEF MonitorTypeOK
<1>5. MonitorTypeOK'
  <2>1. ifaceCh' \in Seq(IfaceEvent)
    BY <1>1, <1>2, <1>4, QueueEnds
  <2>2. Len(ifaceCh') <= QueueSize
    <3>1. QueueSize \in Nat
      BY UplinkAssumption
    <3>2. Len(ifaceCh) < QueueSize => Len(ifaceCh) + 1 <= QueueSize
      BY SMTT(60), <1>4, <3>1
    <3> QED
      BY SMTT(60), <1>1, <1>2, <1>4, <3>2, QueueEnds
  <2> QED
    BY <1>1, <1>3, <2>1, <2>2 DEF MonitorTypeOK, Event
<1> DEFINE grown == Append(ifaceCh, e)
<1>6. \A f : Occurs(grown, f) <=> Occurs(ifaceCh, f) \/ e = f
  BY <1>2, <1>4, AppendOccurs
<1>7. ifaceCh' = grown \/ (v \in lost' /\ ifaceCh' = ifaceCh)
  BY <1>1
<1> HIDE DEF grown
<1>8. \A f : Occurs(ifaceCh, f) => Occurs(ifaceCh', f)
  BY <1>6, <1>7
<1>9. \A f : Occurs(ifaceCh', f) => Occurs(ifaceCh, f) \/ f = e
  BY <1>6, <1>7
<1>10. v \in lost' \/ Occurs(ifaceCh', e)
  BY <1>6, <1>7
<1>11. lost \subseteq lost' /\ Entries' = Entries
  BY <1>1 DEF Entries
<1>12. WorkerInv' /\ EntriesInv'
  BY <1>1, <1>11 DEF WorkerInv, EntriesInv
<1>13. ASSUME NEW u \in Uplink, NEW f \in {Arrived(u), Left(u)}, u \notin lost',
              Occurs(events, f) \/ Occurs(ifaceCh, f)
       PROVE  Occurs(events', f) \/ Occurs(ifaceCh', f)
  <2>1. CASE f # e
    BY <1>3, <1>8, <1>13, <2>1
  <2>2. CASE f = e
    <3>1. u = v
      BY <1>1, <2>2, EventsDiffer
    <3> QED
      BY <1>10, <1>13, <2>2, <3>1
  <2> QED
    BY <2>1, <2>2
<1>14. UplinkInv'
  <2>1. \A u \in Uplink :
          where'[u] # Gone => ~Occurs(events', Left(u)) /\ ~Occurs(ifaceCh', Left(u))
    BY <1>1, <1>3, <1>9 DEF UplinkInv
  <2>2. ASSUME NEW u \in Uplink, u \in Resolvable \ lost', where'[u] \in Bridge
        PROVE  \/ Occurs(events', Arrived(u)) \/ Occurs(ifaceCh', Arrived(u))
               \/ <<where'[u], u>> \in Entries'
    BY <1>1, <1>11, <1>13, <2>2 DEF UplinkInv
  <2>3. ASSUME NEW u \in Uplink, where'[u] = Gone, u \notin lost',
               \E c \in Bridge : <<c, u>> \in Entries'
        PROVE  Occurs(events', Left(u)) \/ Occurs(ifaceCh', Left(u))
    BY <1>1, <1>11, <1>13, <2>3 DEF UplinkInv
  <2> QED
    BY <2>1, <2>2, <2>3 DEF UplinkInv
<1>15. WipeInv'
  BY <1>1, <1>3 DEF WipeInv
<1> QED
  BY <1>5, <1>12, <1>14, <1>15

(* The wipe only takes entries of uplinks that are gone or yet to be       *)
(* added.                                                                  *)
LEMMA WipeBridgeMonitor ==
  ASSUME MonitorInv, WipeBridge
  PROVE  MonitorInv'
<1> USE DEF MonitorInv
<1>1. /\ numaMap' = {e \in numaMap : e[1] \notin wiping} /\ wiping' = {}
      /\ UNCHANGED <<bridges, where, events, ifaceCh, worker, lost>>
  BY DEF WipeBridge, databaseVars
<1>2. Cardinality({}) <= 1
  <2>1. Cardinality({}) = 0
    BY FS_EmptySet
  <2> QED
    BY SMTT(60), <2>1
<1>3. MonitorTypeOK'
  BY <1>1, <1>2 DEF MonitorTypeOK
<1>4. Entries' \subseteq Entries
  BY <1>1 DEF Entries
<1>5. ASSUME NEW b \in Bridge, NEW u, b \notin wiping, <<b, u>> \in Entries
      PROVE  <<b, u>> \in Entries'
  <2>1. <<b, u>>[1] = b
    OBVIOUS
  <2> QED
    BY <1>1, <1>5, <2>1 DEF Entries
<1>6. WorkerInv' /\ EntriesInv' /\ WipeInv'
  BY <1>1, <1>4 DEF WorkerInv, EntriesInv, WipeInv
<1>7. UplinkInv'
  <2>1. ASSUME NEW u \in Uplink, u \in Resolvable \ lost', where'[u] \in Bridge
        PROVE  \/ Occurs(events', Arrived(u)) \/ Occurs(ifaceCh', Arrived(u))
               \/ <<where'[u], u>> \in Entries'
    <3>1. CASE where[u] \in wiping
      BY <1>1, <2>1, <3>1 DEF WipeInv
    <3>2. CASE where[u] \notin wiping
      BY <1>1, <1>5, <2>1, <3>2 DEF UplinkInv
    <3> QED
      BY <3>1, <3>2
  <2> QED
    BY <1>1, <1>4, <2>1 DEF UplinkInv
<1> QED
  BY <1>3, <1>6, <1>7

-----------------------------------------------------------------------------
(* processInterfaceEvents.                                                 *)

(* What is left when the worker takes an event.                            *)
LEMMA ReceiveFacts ==
  ASSUME MonitorInv, NEW e \in IfaceEvent, Receive(e)
  PROVE  /\ ifaceCh' \in Seq(IfaceEvent) /\ Len(ifaceCh') <= QueueSize
         /\ worker = Idle /\ worker.pc = "recv" /\ Entries = numaMap
         /\ Occurs(ifaceCh, e)
         /\ \A f : f # e => (Occurs(ifaceCh', f) <=> Occurs(ifaceCh, f))
         /\ \A f : Occurs(ifaceCh', f) => Occurs(ifaceCh, f)
<1>1. /\ ifaceCh \in Seq(IfaceEvent) /\ ifaceCh # <<>> /\ Len(ifaceCh) <= QueueSize
      /\ e = Head(ifaceCh) /\ ifaceCh' = Tail(ifaceCh) /\ worker.pc = "recv"
  BY DEF Receive, MonitorInv, MonitorTypeOK
<1>2. ifaceCh' \in Seq(IfaceEvent)
  BY <1>1, QueueEnds
<1>3. Len(ifaceCh') <= QueueSize
  <2>1. Len(ifaceCh') = Len(ifaceCh) - 1 /\ Len(ifaceCh) \in Nat
    BY <1>1, QueueEnds
  <2> QED
    BY SMTT(60), <1>1, <2>1, UplinkAssumption
<1>4. \A f : Occurs(ifaceCh, f) <=> e = f \/ Occurs(ifaceCh', f)
  BY <1>1, TailOccurs
<1>5. worker = Idle
  BY <1>1 DEF MonitorInv, WorkerInv
<1>6. Entries = numaMap
  BY <1>1 DEF Entries
<1> QED
  BY <1>1, <1>2, <1>3, <1>4, <1>5, <1>6

(* An idle worker has the shape MonitorTypeOK asks for.                    *)
LEMMA IdleFacts ==
  /\ Idle \in [pc : {"recv", "store", "notify"}, bridge : SUBSET Bridge, uuid : SUBSET Uplink]
  /\ Idle.pc = "recv"
BY SMTT(60) DEF Idle

(* The worker with an uplink in hand.                                      *)
LEMMA BusyFacts ==
  ASSUME NEW p \in {"store", "notify"}, NEW b \in Bridge, NEW u \in Uplink
  PROVE  LET w == [pc |-> p, bridge |-> {b}, uuid |-> {u}] IN
         /\ w \in [pc : {"recv", "store", "notify"}, bridge : SUBSET Bridge, uuid : SUBSET Uplink]
         /\ w.pc = p /\ w.bridge = {b} /\ w.uuid = {u}
BY SMTT(60)

(* The worker takes an addition: the uplink is where the database says.    *)
LEMMA LookupUplinkMonitor ==
  ASSUME MonitorInv, NEW v \in Uplink, LookupUplink(v)
  PROVE  MonitorInv'
<1> USE DEF MonitorInv
<1> DEFINE busy == [pc |-> "store", bridge |-> {where[v]}, uuid |-> {v}]
<1>1. /\ Receive(Arrived(v))
      /\ worker' = IF v \in Resolvable /\ where[v] \in Bridge THEN busy ELSE Idle
      /\ UNCHANGED <<bridges, where, events, wiping, numaMap, lost>>
  BY DEF LookupUplink, Arrived, databaseVars, cacheVars
<1>2. /\ ifaceCh' \in Seq(IfaceEvent) /\ Len(ifaceCh') <= QueueSize
      /\ worker = Idle /\ worker.pc = "recv" /\ Entries = numaMap
      /\ \A f : f # Arrived(v) => (Occurs(ifaceCh', f) <=> Occurs(ifaceCh, f))
      /\ \A f : Occurs(ifaceCh', f) => Occurs(ifaceCh, f)
  BY <1>1, EventTypes, ReceiveFacts
<1>3. where[v] \in Bridge =>
        /\ busy \in [pc : {"recv", "store", "notify"}, bridge : SUBSET Bridge, uuid : SUBSET Uplink]
        /\ busy.pc = "store" /\ busy.bridge = {where[v]} /\ busy.uuid = {v}
  BY BusyFacts
<1> HIDE DEF busy
<1>4. MonitorTypeOK'
  BY <1>1, <1>2, <1>3, IdleFacts DEF MonitorTypeOK
<1>5. WorkerInv'
  BY <1>1, <1>3 DEF WorkerInv
<1>6. ASSUME NEW u \in Uplink, NEW b \in Bridge
      PROVE  <<b, u>> \in Entries' <=>
               \/ <<b, u>> \in Entries
               \/ u = v /\ v \in Resolvable /\ b = where[v]
  <2>1. CASE v \in Resolvable /\ where[v] \in Bridge
    BY <1>1, <1>2, <1>3, <2>1 DEF Entries
  <2>2. CASE ~(v \in Resolvable /\ where[v] \in Bridge)
    BY <1>1, <1>2, <2>2, IdleFacts DEF Entries
  <2> QED
    BY <2>1, <2>2
<1>7. Gone \notin Bridge
  BY UplinkAssumption
<1>8. EntriesInv'
  BY SMTT(60), <1>1, <1>6, <1>7 DEF EntriesInv
<1>9. UplinkInv'
  <2>1. \A u \in Uplink :
          where'[u] # Gone => ~Occurs(events', Left(u)) /\ ~Occurs(ifaceCh', Left(u))
    BY <1>1, <1>2 DEF UplinkInv
  <2>2. ASSUME NEW u \in Uplink, u \in Resolvable \ lost', where'[u] \in Bridge
        PROVE  \/ Occurs(events', Arrived(u)) \/ Occurs(ifaceCh', Arrived(u))
               \/ <<where'[u], u>> \in Entries'
    <3>1. CASE u = v
      BY <1>1, <1>6, <2>2, <3>1
    <3>2. CASE u # v
      <4>1. Arrived(u) # Arrived(v)
        BY <3>2, EventsDiffer
      <4> QED
        BY <1>1, <1>2, <1>6, <2>2, <4>1 DEF UplinkInv
    <3> QED
      BY <3>1, <3>2
  <2>3. ASSUME NEW u \in Uplink, where'[u] = Gone, u \notin lost',
               NEW c \in Bridge, <<c, u>> \in Entries'
        PROVE  Occurs(events', Left(u)) \/ Occurs(ifaceCh', Left(u))
    <3>1. <<c, u>> \in Entries
      BY <1>1, <1>6, <1>7, <2>3
    <3>2. Left(u) # Arrived(v)
      BY EventsDiffer
    <3> QED
      BY <1>1, <1>2, <2>3, <3>1, <3>2 DEF UplinkInv
  <2> QED
    BY <2>1, <2>2, <2>3 DEF UplinkInv
<1>10. WipeInv'
  BY <1>1 DEF WipeInv
<1> QED
  BY <1>4, <1>5, <1>8, <1>9, <1>10

(* The lookup fails: the uplink is lost.                                   *)
LEMMA LookupFailsMonitor ==
  ASSUME MonitorInv, NEW v \in Uplink, LookupFails(v)
  PROVE  MonitorInv'
<1> USE DEF MonitorInv
<1>1. /\ Receive(Arrived(v)) /\ lost' = lost \cup {v}
      /\ UNCHANGED <<bridges, where, events, wiping, numaMap, worker>>
  BY DEF LookupFails, Arrived, databaseVars, cacheVars
<1>2. /\ ifaceCh' \in Seq(IfaceEvent) /\ Len(ifaceCh') <= QueueSize
      /\ \A f : f # Arrived(v) => (Occurs(ifaceCh', f) <=> Occurs(ifaceCh, f))
      /\ \A f : Occurs(ifaceCh', f) => Occurs(ifaceCh, f)
  BY <1>1, EventTypes, ReceiveFacts
<1>3. MonitorTypeOK'
  BY <1>1, <1>2 DEF MonitorTypeOK
<1>4. Entries' = Entries
  BY <1>1 DEF Entries
<1>5. WorkerInv' /\ EntriesInv' /\ WipeInv'
  BY <1>1, <1>4 DEF WorkerInv, EntriesInv, WipeInv
<1>6. UplinkInv'
  <2>1. \A u \in Uplink :
          where'[u] # Gone => ~Occurs(events', Left(u)) /\ ~Occurs(ifaceCh', Left(u))
    BY <1>1, <1>2 DEF UplinkInv
  <2>2. ASSUME NEW u \in Uplink, u \notin lost'
        PROVE  /\ Occurs(ifaceCh', Arrived(u)) <=> Occurs(ifaceCh, Arrived(u))
               /\ Occurs(ifaceCh', Left(u)) <=> Occurs(ifaceCh, Left(u))
               /\ u \notin lost
    BY <1>1, <1>2, <2>2, EventsDiffer
  <2> QED
    BY <1>1, <1>4, <2>1, <2>2 DEF UplinkInv
<1> QED
  BY <1>3, <1>5, <1>6

(* What ForgetUplink finds: at most one bridge, which it notifies.         *)
LEMMA ForgetUplinkFacts ==
  ASSUME MonitorInv, NEW v \in Uplink, ForgetUplink(v)
  PROVE  /\ Receive(Left(v)) /\ UNCHANGED <<bridges, where, events, wiping, lost>>
         /\ numaMap' = {e \in numaMap : e[2] # v}
         /\ \/ worker' = Idle /\ numaMap' = numaMap
            \/ \E b \in Bridge :
                 /\ worker' = [pc |-> "notify", bridge |-> {b}, uuid |-> {v}]
                 /\ v \in Resolvable
                 /\ \A e \in numaMap : e[2] = v => e[1] = b
<1> USE DEF MonitorInv
<1> DEFINE found == {b \in Bridge : <<b, v>> \in numaMap}
<1>1. /\ Receive(Left(v)) /\ UNCHANGED <<bridges, where, events, wiping, lost>>
      /\ numaMap' = {e \in numaMap : e[2] # v}
      /\ worker' = IF found = {} THEN Idle
                   ELSE [pc |-> "notify", bridge |-> found, uuid |-> {v}]
  BY DEF ForgetUplink, Left, databaseVars, cacheVars
<1>2. Entries = numaMap
  BY <1>1, EventTypes, ReceiveFacts
<1>3. \A e \in numaMap : e[1] \in Bridge /\ e[2] \in Resolvable /\ e = <<e[1], e[2]>>
  BY SMTT(60) DEF MonitorTypeOK
<1>4. CASE found = {}
  <2>1. \A e \in numaMap : e[2] # v
    BY <1>3, <1>4
  <2>2. numaMap' = numaMap
    BY <1>1, <2>1
  <2> QED
    BY <1>1, <1>4, <2>2
<1>5. CASE found # {}
  <2>1. PICK b \in Bridge : <<b, v>> \in numaMap
    BY <1>5
  <2>2. \A c \in Bridge : <<c, v>> \in numaMap => c = b
    BY <1>2, <2>1 DEF EntriesInv
  <2>3. found = {b}
    BY <2>1, <2>2
  <2>4. v \in Resolvable
    <3>1. <<b, v>>[2] = v
      OBVIOUS
    <3> QED
      BY <1>3, <2>1, <3>1
  <2>5. \A e \in numaMap : e[2] = v => e[1] = b
    BY <1>3, <2>2
  <2>6. worker' = [pc |-> "notify", bridge |-> {b}, uuid |-> {v}]
    BY <1>1, <2>3
  <2> QED
    BY <1>1, <2>4, <2>5, <2>6
<1> QED
  BY <1>4, <1>5

(* The worker takes a removal.                                             *)
LEMMA ForgetUplinkMonitor ==
  ASSUME MonitorInv, NEW v \in Uplink, ForgetUplink(v)
  PROVE  MonitorInv'
<1> USE DEF MonitorInv
<1>1. /\ Receive(Left(v)) /\ UNCHANGED <<bridges, where, events, wiping, lost>>
      /\ numaMap' = {e \in numaMap : e[2] # v}
  BY ForgetUplinkFacts
<1>2. /\ ifaceCh' \in Seq(IfaceEvent) /\ Len(ifaceCh') <= QueueSize
      /\ worker = Idle /\ worker.pc = "recv" /\ Entries = numaMap
      /\ Occurs(ifaceCh, Left(v))
      /\ \A f : f # Left(v) => (Occurs(ifaceCh', f) <=> Occurs(ifaceCh, f))
      /\ \A f : Occurs(ifaceCh', f) => Occurs(ifaceCh, f)
  BY <1>1, EventTypes, ReceiveFacts
<1>3. /\ worker' \in [pc : {"recv", "store", "notify"}, bridge : SUBSET Bridge, uuid : SUBSET Uplink]
      /\ worker'.pc # "store" /\ WorkerInv'
  <2>1. CASE worker' = Idle
    BY <2>1, IdleFacts DEF WorkerInv
  <2>2. CASE \E b \in Bridge : /\ worker' = [pc |-> "notify", bridge |-> {b}, uuid |-> {v}]
                               /\ v \in Resolvable
    <3>1. PICK b \in Bridge : worker' = [pc |-> "notify", bridge |-> {b}, uuid |-> {v}]
      BY <2>2
    <3>2. /\ worker' \in [pc : {"recv", "store", "notify"}, bridge : SUBSET Bridge,
                          uuid : SUBSET Uplink]
          /\ worker'.pc = "notify" /\ worker'.bridge = {b} /\ worker'.uuid = {v}
      BY <3>1, BusyFacts
    <3> QED
      BY <2>2, <3>2 DEF WorkerInv
  <2> QED
    BY <2>1, <2>2, ForgetUplinkFacts
<1>4. MonitorTypeOK'
  BY <1>1, <1>2, <1>3 DEF MonitorTypeOK
<1>5. \A u, b : <<b, u>> \in Entries' <=> <<b, u>> \in Entries /\ u # v
  <2>1. Entries' = {e \in numaMap : e[2] # v}
    BY <1>1, <1>3 DEF Entries
  <2>2. \A u, b : <<b, u>>[2] = u
    OBVIOUS
  <2> QED
    BY <1>2, <2>1, <2>2
<1>6. where[v] = Gone
  BY <1>2 DEF UplinkInv
<1>7. EntriesInv' /\ WipeInv'
  BY <1>1, <1>5 DEF EntriesInv, WipeInv
<1>8. UplinkInv'
  <2>1. \A u \in Uplink :
          where'[u] # Gone => ~Occurs(events', Left(u)) /\ ~Occurs(ifaceCh', Left(u))
    BY <1>1, <1>2 DEF UplinkInv
  <2>2. ASSUME NEW u \in Uplink, u # v
        PROVE  /\ Occurs(ifaceCh', Arrived(u)) <=> Occurs(ifaceCh, Arrived(u))
               /\ Occurs(ifaceCh', Left(u)) <=> Occurs(ifaceCh, Left(u))
    BY <1>2, <2>2, EventsDiffer
  <2>3. Gone \notin Bridge
    BY UplinkAssumption
  <2> QED
    BY <1>1, <1>5, <1>6, <2>1, <2>2, <2>3 DEF UplinkInv
<1> QED
  BY <1>3, <1>4, <1>7, <1>8

(* The entry is stored; the bridge in hand stays the same.                 *)
LEMMA StoreNodeMonitor ==
  ASSUME MonitorInv, StoreNode
  PROVE  /\ MonitorInv'
         /\ worker'.pc = "notify" /\ worker'.bridge = worker.bridge
         /\ numaMap' = numaMap \cup (worker.bridge \X worker.uuid)
<1> USE DEF MonitorInv
<1>1. /\ worker.pc = "store" /\ worker' = [worker EXCEPT !.pc = "notify"]
      /\ numaMap' = numaMap \cup (worker.bridge \X worker.uuid)
      /\ UNCHANGED <<bridges, where, events, wiping, ifaceCh, lost>>
  BY DEF StoreNode, databaseVars, cacheVars
<1>2. worker \in [pc : {"recv", "store", "notify"}, bridge : SUBSET Bridge, uuid : SUBSET Uplink]
  BY DEF MonitorTypeOK
<1>3. /\ worker' \in [pc : {"recv", "store", "notify"}, bridge : SUBSET Bridge, uuid : SUBSET Uplink]
      /\ worker'.pc = "notify" /\ worker'.bridge = worker.bridge /\ worker'.uuid = worker.uuid
  BY SMTT(60), <1>1, <1>2
<1>4. worker # Idle
  BY <1>1, IdleFacts
<1>5. PICK b \in Bridge, u \in Resolvable : worker.bridge = {b} /\ worker.uuid = {u}
  BY <1>4 DEF WorkerInv
<1>6. Entries' = Entries
  BY <1>1, <1>3 DEF Entries
<1>7. MonitorTypeOK'
  BY <1>1, <1>3, <1>5 DEF MonitorTypeOK
<1>8. WorkerInv'
  BY <1>3, <1>5 DEF WorkerInv
<1>9. EntriesInv' /\ UplinkInv' /\ WipeInv'
  BY <1>1, <1>6 DEF EntriesInv, UplinkInv, WipeInv
<1> QED
  BY <1>1, <1>3, <1>7, <1>8, <1>9

(* The worker is done with its uplink.                                     *)
LEMMA NotifiedMonitor ==
  ASSUME MonitorInv, Notified
  PROVE  MonitorInv'
<1> USE DEF MonitorInv
<1>1. /\ worker.pc = "notify" /\ worker' = Idle
      /\ UNCHANGED <<bridges, where, events, wiping, ifaceCh, numaMap, lost>>
  BY DEF Notified, databaseVars, cacheVars
<1>2. Entries' = Entries
  BY <1>1, IdleFacts DEF Entries
<1>3. MonitorTypeOK'
  BY <1>1, IdleFacts DEF MonitorTypeOK
<1>4. WorkerInv' /\ EntriesInv' /\ UplinkInv' /\ WipeInv'
  BY <1>1, <1>2 DEF WorkerInv, EntriesInv, UplinkInv, WipeInv
<1> QED
  BY <1>3, <1>4

-----------------------------------------------------------------------------
(* Every step of the monitor.                                              *)

(* At the start everything the database holds is yet to be announced.      *)
LEMMA InitMonitor ==
  ASSUME MonitorInit
  PROVE  MonitorInv
<1> DEFINE P == {u \in Uplink : Initial[u] \in Bridge}
           added == [b \in Bridge |-> Added(b)]
           arrived == [u \in Uplink |-> Arrived(u)]
           rows == {Added(b) : b \in bridges} \cup {Arrived(u) : u \in P}
<1>1. /\ bridges = {Initial[u] : u \in P} /\ where = Initial /\ events \in SetToSeqs(rows)
      /\ wiping = {} /\ ifaceCh = <<>> /\ numaMap = {} /\ worker = Idle /\ lost = {}
  BY DEF MonitorInit, Added, Arrived
<1>2. IsFiniteSet(P)
  BY UplinkAssumption, FS_Subset
<1>3. bridges \subseteq Bridge /\ IsFiniteSet(bridges)
  <2>1. bridges \subseteq Bridge
    BY <1>1
  <2>2. IsFiniteSet({Initial[u] : u \in P})
    <3> HIDE DEF P
    <3> QED
      BY <1>2, FiniteImage
  <2> QED
    BY <1>1, <2>1, <2>2
<1>4. IsFiniteSet(rows)
  <2>1. {added[b] : b \in bridges} = {Added(b) : b \in bridges}
    BY <1>3
  <2>2. {arrived[u] : u \in P} = {Arrived(u) : u \in P}
    OBVIOUS
  <2> HIDE DEF added, arrived, P
  <2>3. IsFiniteSet({Added(b) : b \in bridges})
    BY <1>3, <2>1, FiniteImage
  <2>4. IsFiniteSet({Arrived(u) : u \in P})
    BY <1>2, <2>2, FiniteImage
  <2> QED
    BY <2>3, <2>4, FS_Union
<1>5. rows \subseteq Event
  BY <1>3, EventTypes DEF Event
<1>6. events \in Seq(rows) /\ \A x \in rows : Occurs(events, x)
  <2>1. events \in SetToSeqs(rows)
    BY <1>1
  <2> HIDE DEF rows
  <2> QED
    BY <1>4, <2>1, OrderFacts DEF Occurs
<1>7. events \in Seq(Event) /\ \A e : Occurs(events, e) => e \in rows
  <2> HIDE DEF rows
  <2> QED
    BY SMTT(60), <1>5, <1>6 DEF Occurs
<1>8. \A u \in Uplink : Left(u) \notin rows
  <2>1. ASSUME NEW u \in Uplink
        PROVE  /\ \A b \in Bridge : Left(u) # Added(b)
               /\ \A v \in Uplink : Left(u) # Arrived(v)
    BY EventTypes, KindsDiffer, EventsDiffer
  <2> QED
    BY <1>3, <2>1
<1>9. \A b \in Bridge : Deleted(b) \notin rows
  <2>1. ASSUME NEW b \in Bridge
        PROVE  /\ \A c \in Bridge : Deleted(b) # Added(c)
               /\ \A v \in Uplink : Deleted(b) # Arrived(v)
    BY EventTypes, KindsDiffer, EventsDiffer
  <2> QED
    BY <1>3, <2>1
<1>10. \A u \in P : Arrived(u) \in rows
  OBVIOUS
<1> HIDE DEF rows
<1>11. \A e : ~Occurs(ifaceCh, e)
  BY SMTT(60), <1>1 DEF Occurs
<1>12. Entries = {}
  BY <1>1, IdleFacts DEF Entries
<1>13. MonitorTypeOK
  <2>1. where \in [Uplink -> Bridge \cup {Unborn, Gone}]
    BY <1>1, UplinkAssumption
  <2>2. wiping \in SUBSET Bridge /\ Cardinality(wiping) <= 1
    <3>1. Cardinality({}) = 0
      BY FS_EmptySet
    <3>2. 0 <= 1
      BY SMTT(60)
    <3> QED
      BY <1>1, <3>1, <3>2
  <2>3. ifaceCh \in Seq(IfaceEvent) /\ Len(ifaceCh) <= QueueSize
    BY SMTT(60), <1>1, UplinkAssumption
  <2> QED
    BY <1>1, <1>3, <1>7, <2>1, <2>2, <2>3, IdleFacts DEF MonitorTypeOK, Event
<1>14. WorkerInv /\ EntriesInv
  BY <1>1, <1>12 DEF WorkerInv, EntriesInv
<1>15. UplinkInv
  BY <1>1, <1>6, <1>7, <1>8, <1>10, <1>11, <1>12 DEF UplinkInv
<1>16. WipeInv
  BY <1>1, <1>7, <1>9 DEF WipeInv, Follows, Occurs
<1> QED
  BY <1>13, <1>14, <1>15, <1>16 DEF MonitorInv

(* Every step of the system keeps the invariant of the monitor.            *)
LEMMA MonitorStep ==
  ASSUME MonitorInv, [Next]_vars
  PROVE  MonitorInv'
<1>1. CASE UNCHANGED monitorVars
  <2>1. UNCHANGED <<bridges, where, events, wiping, ifaceCh, numaMap, worker, lost>>
    BY <1>1 DEF monitorVars, databaseVars, cacheVars, workerVars
  <2>2. Entries' = Entries
    BY <2>1 DEF Entries
  <2> QED
    BY <2>1, <2>2 DEF MonitorInv, MonitorTypeOK, WorkerInv, EntriesInv, UplinkInv, WipeInv
<1>2. CASE HandleBridgeEvent
  BY <1>2, BridgeFuncMonitor DEF HandleBridgeEvent
<1>3. CASE HandleOther
  BY <1>3, WipeBridgeMonitor, InterfaceFuncMonitor DEF HandleOther
<1>4. CASE Worker
  BY <1>4, StoreNodeMonitor, LookupUplinkMonitor, ForgetUplinkMonitor, LookupFailsMonitor,
     NotifiedMonitor DEF Worker, ProcessInterfaceEvent, LoseInterfaceEvent, NotifyInterface
<1>5. CASE DatabaseChanges
  BY <1>5, AddBridgeMonitor, DeleteBridgeMonitor, DeleteUplinkMonitor, AddUplinkMonitor
  DEF DatabaseChanges
<1>6. \/ HandleBridgeEvent \/ HandleOther \/ Worker \/ DatabaseChanges \/ UNCHANGED monitorVars
  BY DEF Next, Startup, NewManager, SetupWithManager, StartControllers, CacheGoroutine, Trigger,
     Controller, ReadFails, Reconcile, PublishFails, ReconcileResources, WatchKubelet,
     PolicyUpdate, NodeUpdate, KubeletDown, KubeletUp, CancelContext, Return, vars
<1> QED
  BY <1>1, <1>2, <1>3, <1>4, <1>5, <1>6

(* What is known of an uplink between the database and numaMap is never    *)
(* wrong: its entry is under the bridge it is on, or its removal is on the *)
(* way, and the wipe of a deleted bridge never takes the entry of an       *)
(* uplink of a new bridge of that name.                                    *)
THEOREM UplinksAreTracked == Spec => []MonitorInv
<1>1. Init => MonitorInv
  BY InitMonitor DEF Init
<1>2. MonitorInv /\ [Next]_vars => MonitorInv'
  BY MonitorStep
<1> QED
  BY <1>1, <1>2, PTL DEF Spec
=============================================================================
