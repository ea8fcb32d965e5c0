--------------------------- MODULE RecordedStatus ---------------------------
(***************************************************************************)
(* What updateClaimStatus promises the users of a claim's status, without  *)
(* copies, resource versions, conflicts or attempts: the driver replaces   *)
(* its own entries in one step, in the claim it has prepared and in no     *)
(* other, or leaves the status alone.  It says it is done only in the step *)
(* that does it; a driver that gives up may have done it.                  *)
(***************************************************************************)
EXTENDS ClaimStatus

CONSTANT UID

VARIABLES
  status,   \* the claim of that name, as a set: none, or its UID and entries
  owned,    \* the entries the driver has for the claim
  uid,      \* the UID of the claim that was prepared
  outcome   \* "running", "done" or "failed"

Init ==
  /\ uid \in UID
  /\ owned \subseteq {e \in Entry : e.driver = DriverName}
  /\ \E list \in SUBSET Entry : status = {[uid |-> uid, entries |-> list]}
  /\ outcome = "running"

(* The driver's entries take the place of those it had.                    *)
Record(o) ==
  /\ outcome = "running"
  /\ \E s \in status :
       /\ s.uid = uid
       /\ status' = {[uid |-> uid,
                      entries |-> {e \in s.entries : e.driver # DriverName} \cup owned]}
  /\ outcome' = o
  /\ UNCHANGED <<owned, uid>>

GiveUp ==
  /\ outcome = "running"
  /\ outcome' = "failed"
  /\ UNCHANGED <<status, owned, uid>>

OtherDriverWrites(k, d) ==
  /\ \E s \in status :
       status' = {[uid |-> s.uid,
                   entries |-> upsertDeviceStatus(s.entries,
                                 [driver |-> OtherDriver, key |-> k, data |-> d])]}
  /\ UNCHANGED <<owned, uid, outcome>>

Deleted ==
  /\ status # {}
  /\ status' = {}
  /\ UNCHANGED <<owned, uid, outcome>>

Replaced(u) ==
  /\ status = {}
  /\ u # uid
  /\ status' = {[uid |-> u, entries |-> {}]}
  /\ UNCHANGED <<owned, uid, outcome>>

Next ==
  \/ \E o \in {"running", "done", "failed"} : Record(o)
  \/ GiveUp
  \/ \E k \in Key, d \in Data : OtherDriverWrites(k, d)
  \/ Deleted
  \/ \E u \in UID : Replaced(u)

Spec == Init /\ [][Next]_<<status, owned, uid, outcome>>
=============================================================================
