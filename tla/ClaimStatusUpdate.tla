------------------------- MODULE ClaimStatusUpdate -------------------------
(***************************************************************************)
(* Driver.updateClaimStatus of pkg/driver/server.go: the status of a claim *)
(* that was just prepared is written to the API server, with a bounded     *)
(* number of attempts, while other drivers write their entries and the     *)
(* claim is deleted, or deleted and created again under the same name.     *)
(***************************************************************************)
EXTENDS ClaimStatus, Naturals

CONSTANTS
  UID,          \* UIDs of the objects that have the claim's name, in time
  Steps,        \* consts.Backoff.Steps
  MaxChanges,   \* bound on the changes others make to the object
  NoObject      \* the claim does not exist

ASSUME StatusAssumption ==
  /\ Steps \in Nat \ {0}
  /\ MaxChanges \in Nat
  /\ NoObject \notin [uid : UID, version : Nat, entries : SUBSET Entry]

VARIABLES
  object,       \* the claim at the API server
  claim,        \* the copy the driver works on
  ownedDevices, \* the driver's entries, from before the first attempt
  originalUID,  \* the UID of the claim that was prepared
  step,         \* attempts so far
  upc,          \* "update", "refresh", "done" or "failed"
  changes       \* changes others made so far

apiVars == <<object, changes>>
localVars == <<claim, ownedDevices, originalUID, step, upc>>
vars == <<apiVars, localVars>>

Object == [uid : UID, version : 0 .. MaxChanges + Steps, entries : SUBSET Entry]

StatusTypeOK ==
  /\ object \in Object \cup {NoObject}
  /\ claim \in Object
  /\ ownedDevices \subseteq {e \in Entry : e.driver = DriverName}
  /\ originalUID \in UID
  /\ step \in 0 .. Steps
  /\ upc \in {"update", "refresh", "done", "failed"}
  /\ changes \in 0 .. MaxChanges

(* The entries of one object have different keys.                          *)
Keyed(list) == \A e, f \in list : keyOf(e) = keyOf(f) => e = f

(* PrepareResourceClaim has put the entry of the prepared device into the  *)
(* claim it was given; the claim may carry entries of a former prepare.    *)
Init ==
  \E u \in UID, list \in SUBSET Entry, k \in Key, d \in Data :
    LET prepared == upsertDeviceStatus(list, [driver |-> DriverName, key |-> k, data |-> d]) IN
    /\ Keyed(list)
    /\ object = [uid |-> u, version |-> 0, entries |-> list]
    /\ claim = [uid |-> u, version |-> 0, entries |-> prepared]
    /\ ownedDevices = filterDevicesByDriver(prepared, DriverName)
    /\ originalUID = u
    /\ step = 0
    /\ upc = "update"
    /\ changes = 0

-----------------------------------------------------------------------------
(* The API server (external).                                              *)

Accepts(c) == object # NoObject /\ object.uid = c.uid /\ object.version = c.version

Conflicts(c) == object # NoObject /\ ~Accepts(c)

Written(c) == [c EXCEPT !.version = @ + 1]

-----------------------------------------------------------------------------
(* Mutant: there is always a next attempt.                                 *)
RetryForever(attempts) == upc' = "update"

(* The attempt is over without a result: the next one follows, if any.     *)
Retry(attempts) == upc' = IF attempts < Steps THEN "update" ELSE "failed"

(* UpdateStatus succeeds.                                                  *)
UpdateAccepted ==
  /\ upc = "update"
  /\ Accepts(claim)
  /\ object' = Written(claim)
  /\ step' = step + 1
  /\ upc' = "done"
  /\ UNCHANGED <<changes, claim, ownedDevices, originalUID>>

(* A transient error, before or after the write took effect.               *)
UpdateTransient ==
  /\ upc = "update"
  /\ \/ UNCHANGED object
     \/ Accepts(claim) /\ object' = Written(claim)
  /\ step' = step + 1
  /\ Retry(step + 1)
  /\ UNCHANGED <<changes, claim, ownedDevices, originalUID>>

(* NotFound, Forbidden, Invalid or Unauthorized.                           *)
UpdatePermanent ==
  /\ upc = "update"
  /\ step' = step + 1
  /\ upc' = "failed"
  /\ UNCHANGED <<apiVars, claim, ownedDevices, originalUID>>

(* Mutant: a conflict does not count as an attempt.                        *)
UpdateConflictUncounted ==
  /\ upc = "update"
  /\ object # NoObject
  /\ upc' = "refresh"
  /\ UNCHANGED <<apiVars, claim, ownedDevices, originalUID, step>>

UpdateConflict ==
  /\ upc = "update"
  /\ Conflicts(claim)
  /\ upc' = "refresh"
  /\ step' = step + 1
  /\ UNCHANGED <<apiVars, claim, ownedDevices, originalUID>>

(* Mutant: the UID is not compared.                                        *)
RefreshAnyUID ==
  /\ upc = "refresh"
  /\ object # NoObject
  /\ claim' = [object EXCEPT !.entries = mergeDeviceStatus(@, ownedDevices, DriverName)]
  /\ Retry(step)
  /\ UNCHANGED <<apiVars, ownedDevices, originalUID, step>>

(* The claim is fetched again; one of another UID is left alone, else the  *)
(* driver's entries are merged into it.                                    *)
Refresh ==
  /\ upc = "refresh"
  /\ object # NoObject
  /\ \/ /\ object.uid # originalUID
        /\ upc' = "failed"
        /\ UNCHANGED claim
     \/ /\ object.uid = originalUID
        /\ claim' = [object EXCEPT !.entries =
                       mergeDeviceStatus(@, ownedDevices, DriverName)]
        /\ Retry(step)
  /\ UNCHANGED <<apiVars, ownedDevices, originalUID, step>>

(* The fetch fails: for good, or the attempt was in vain.                  *)
RefreshFails ==
  /\ upc = "refresh"
  /\ upc' = "failed" \/ Retry(step)
  /\ UNCHANGED <<apiVars, claim, ownedDevices, originalUID, step>>

(* The context ends while the driver waits for the next attempt.           *)
ContextDone ==
  /\ upc = "update"
  /\ upc' = "failed"
  /\ UNCHANGED <<apiVars, claim, ownedDevices, originalUID, step>>

-----------------------------------------------------------------------------
(* What others do to the object (external).                                *)
Change == changes < MaxChanges /\ changes' = changes + 1

OtherDriverWrites(k, d) ==
  /\ Change
  /\ object # NoObject
  /\ object' = [object EXCEPT
       !.version = @ + 1,
       !.entries = upsertDeviceStatus(@, [driver |-> OtherDriver, key |-> k, data |-> d])]
  /\ UNCHANGED localVars

ClaimDeleted ==
  /\ Change
  /\ object # NoObject
  /\ object' = NoObject
  /\ UNCHANGED localVars

(* A claim of the same name is created; its status is empty.               *)
ClaimReplaced(u) ==
  /\ Change
  /\ object = NoObject
  /\ u # originalUID
  /\ object' = [uid |-> u, version |-> changes', entries |-> {}]
  /\ UNCHANGED localVars

-----------------------------------------------------------------------------
DriverStep ==
  \/ UpdateAccepted \/ UpdateTransient \/ UpdatePermanent \/ UpdateConflict
  \/ Refresh \/ RefreshFails \/ ContextDone

Others ==
  \/ \E k \in Key, d \in Data : OtherDriverWrites(k, d)
  \/ ClaimDeleted
  \/ \E u \in UID : ClaimReplaced(u)

Next == DriverStep \/ Others

Spec == Init /\ [][Next]_vars

(* The loop runs on the handler's goroutine and every call returns.        *)
FairSpec == Spec /\ WF_vars(DriverStep)

-----------------------------------------------------------------------------
Entries(o, d) == IF o = NoObject THEN {} ELSE filterDevicesByDriver(o.entries, d)

(* No write of the driver changes an entry of another driver, however its  *)
(* copy of the claim came about: from kubelet, or merged after a conflict. *)
OtherEntriesSurvive ==
  [][DriverStep => Entries(object', OtherDriver) = Entries(object, OtherDriver)]_vars

(* A claim that was created under the name of the prepared one never gets  *)
(* an entry for the device prepared for its predecessor.                   *)
ReplacementUntouched ==
  (object # NoObject /\ object.uid # originalUID) => Entries(object, DriverName) = {}

(* The copy the driver works on can be trusted to be written: it is of the *)
(* claim that was prepared, its entries of this driver are the owned ones, *)
(* and as long as the API server would accept it, its entries of others    *)
(* are the current ones, however updateClaimStatus came by it.             *)
CopyInv ==
  /\ claim.uid = originalUID
  /\ filterDevicesByDriver(claim.entries, DriverName) = ownedDevices
  /\ Keyed(claim.entries)
  /\ object # NoObject /\ object.uid = originalUID =>
       /\ claim.version <= object.version
       /\ claim.version = object.version =>
            Entries(claim, OtherDriver) = Entries(object, OtherDriver)

(* Attempts and changes bound the resource version, and an attempt is only *)
(* begun while there is one left.                                          *)
AttemptsInv ==
  /\ upc = "update" => step < Steps
  /\ object # NoObject => object.version <= changes + step /\ Keyed(object.entries)

(* What every step of the retry loop relies on and keeps, whatever others  *)
(* do to the claim between two of its attempts.                            *)
StatusInv == StatusTypeOK /\ AttemptsInv /\ CopyInv /\ ReplacementUntouched

(* When the update is reported as done, the claim has exactly the entries  *)
(* of this driver that were in the copy PrepareResourceClaim had filled:   *)
(* the prepared device's in place of an older one of its key, and those a  *)
(* former prepare left under other keys; none is lost, added or there      *)
(* twice, whatever the conflicts.                                          *)
DoneMeansRecorded ==
  [][(upc # "done" /\ upc' = "done") =>
       /\ Entries(object', DriverName) = ownedDevices
       /\ Keyed(object'.entries)]_vars

(* The prepare call is not held up for ever by its status update, even if  *)
(* every attempt ends in a conflict.                                       *)
UpdateEnds == <>(upc \in {"done", "failed"})
=============================================================================
