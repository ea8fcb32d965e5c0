---------------------------- MODULE StatusProofs ----------------------------
(***************************************************************************)
(* The status update of pkg/driver/server.go for any number of attempts,   *)
(* of changes by others, of keys and of UIDs: it writes to no other        *)
(* driver's entries and to no replacement of the claim, and when it        *)
(* reports success its own entries are there.  It implements               *)
(* RecordedStatus.                                                         *)
(***************************************************************************)
EXTENDS StatusRefinement, TLAPS

-----------------------------------------------------------------------------
(* Entries.                                                                *)

(* An upsert keeps the keys of a list different, stays among the entries,  *)
(* and touches no entry of a driver other than that of the new one.        *)
LEMMA UpsertFacts ==
  ASSUME NEW list \in SUBSET Entry, Keyed(list), NEW e \in Entry
  PROVE  /\ upsertDeviceStatus(list, e) \in SUBSET Entry
         /\ Keyed(upsertDeviceStatus(list, e))
         /\ \A d : d # e.driver =>
              filterDevicesByDriver(upsertDeviceStatus(list, e), d)
                = filterDevicesByDriver(list, d)
<1>1. upsertDeviceStatus(list, e) \in SUBSET Entry
  BY DEF upsertDeviceStatus
<1>2. Keyed(upsertDeviceStatus(list, e))
  BY DEF Keyed, upsertDeviceStatus
<1>3. ASSUME NEW d, d # e.driver
      PROVE  filterDevicesByDriver(upsertDeviceStatus(list, e), d)
               = filterDevicesByDriver(list, d)
  <2>1. \A x \in list : x.driver = d => keyOf(x) # keyOf(e)
    BY <1>3 DEF keyOf
  <2> QED
    BY <1>3, <2>1 DEF filterDevicesByDriver, upsertDeviceStatus
<1> QED
  BY <1>1, <1>2, <1>3

(* A merge leaves the entries of others as they are in the target, has     *)
(* exactly the owned entries of the driver, and keeps keys different.      *)
LEMMA MergeFacts ==
  ASSUME NEW target \in SUBSET Entry, Keyed(target),
         NEW owned \in SUBSET {e \in Entry : e.driver = DriverName}, Keyed(owned)
  PROVE  /\ mergeDeviceStatus(target, owned, DriverName) \in SUBSET Entry
         /\ Keyed(mergeDeviceStatus(target, owned, DriverName))
         /\ filterDevicesByDriver(mergeDeviceStatus(target, owned, DriverName), DriverName)
              = owned
         /\ filterDevicesByDriver(mergeDeviceStatus(target, owned, DriverName), OtherDriver)
              = filterDevicesByDriver(target, OtherDriver)
<1> DEFINE merged == mergeDeviceStatus(target, owned, DriverName)
<1>1. merged \in SUBSET Entry
  BY DEF mergeDeviceStatus
<1>2. Keyed(merged)
  <2> SUFFICES ASSUME NEW e \in merged, NEW f \in merged, keyOf(e) = keyOf(f)
               PROVE  e = f
    BY DEF Keyed
  <2>1. e.driver = f.driver
    BY DEF keyOf
  <2>2. (e \in target /\ f \in target) \/ (e \in owned /\ f \in owned)
    BY <2>1 DEF mergeDeviceStatus
  <2> QED
    BY <2>2 DEF Keyed
<1>3. filterDevicesByDriver(merged, DriverName) = owned
  BY DEF mergeDeviceStatus, filterDevicesByDriver
<1>4. filterDevicesByDriver(merged, OtherDriver) = filterDevicesByDriver(target, OtherDriver)
  BY DriverAssumption DEF mergeDeviceStatus, filterDevicesByDriver
<1> QED
  BY <1>1, <1>2, <1>3, <1>4

(* The null value is no object.                                            *)
LEMMA ObjectIsNotNull ==
  /\ NoObject \notin Object
  /\ MaxChanges \in Nat /\ Steps \in Nat /\ Steps > 0
<1>1. MaxChanges \in Nat /\ Steps \in Nat /\ Steps > 0
  BY StatusAssumption
<1>2. 0 .. MaxChanges + Steps \subseteq Nat
  BY <1>1
<1>3. Object \subseteq [uid : UID, version : Nat, entries : SUBSET Entry]
  BY <1>2 DEF Object
<1> QED
  BY <1>1, <1>3, StatusAssumption

-----------------------------------------------------------------------------
(* The invariant.                                                          *)

(* Nothing is written at the start.                                        *)
LEMMA InitStatus ==
  Init => StatusInv
<1> SUFFICES ASSUME NEW u \in UID, NEW list \in SUBSET Entry, NEW k \in Key, NEW d \in Data,
                    Keyed(list),
                    object = [uid |-> u, version |-> 0, entries |-> list],
                    claim = [uid |-> u, version |-> 0, entries |->
                      upsertDeviceStatus(list, [driver |-> DriverName, key |-> k, data |-> d])],
                    ownedDevices = filterDevicesByDriver(
                      upsertDeviceStatus(list, [driver |-> DriverName, key |-> k, data |-> d]),
                      DriverName),
                    originalUID = u, step = 0, upc = "update", changes = 0
             PROVE  StatusInv
  BY Zenon DEF Init
<1> DEFINE entry == [driver |-> DriverName, key |-> k, data |-> d]
           prepared == upsertDeviceStatus(list, entry)
<1>1. entry \in Entry /\ entry.driver = DriverName
  BY DEF Entry
<1>2. /\ prepared \in SUBSET Entry /\ Keyed(prepared)
      /\ filterDevicesByDriver(prepared, OtherDriver) = filterDevicesByDriver(list, OtherDriver)
  BY <1>1, UpsertFacts, DriverAssumption
<1> HIDE DEF entry, prepared
<1>3. /\ claim = [uid |-> u, version |-> 0, entries |-> prepared]
      /\ ownedDevices = filterDevicesByDriver(prepared, DriverName)
  BY DEF entry, prepared
<1>4. StatusTypeOK
  <2>1. 0 \in 0 .. MaxChanges + Steps /\ 0 \in 0 .. Steps /\ 0 \in 0 .. MaxChanges
    BY ObjectIsNotNull
  <2>2. object \in Object /\ claim \in Object
    BY <1>2, <1>3, <2>1 DEF Object
  <2>3. ownedDevices \subseteq {e \in Entry : e.driver = DriverName}
    BY <1>2, <1>3 DEF filterDevicesByDriver
  <2> QED
    BY <2>1, <2>2, <2>3 DEF StatusTypeOK
<1>5. AttemptsInv
  BY ObjectIsNotNull DEF AttemptsInv
<1>6. CopyInv
  <2>1. claim # NoObject
    BY <1>4, ObjectIsNotNull DEF StatusTypeOK
  <2> QED
    BY <1>2, <1>3, <2>1 DEF CopyInv, Entries
<1>7. ReplacementUntouched
  BY DEF ReplacementUntouched
<1> QED
  BY <1>4, <1>5, <1>6, <1>7 DEF StatusInv

(* A write the API server accepts replaces the prepared claim by the copy, *)
(* which differs from it in the driver's own entries only.                 *)
LEMMA WriteFacts ==
  ASSUME StatusInv, Accepts(claim), object' = Written(claim), step < Steps
  PROVE  /\ object # NoObject /\ object.uid = originalUID
         /\ object' \in Object /\ object' # NoObject
         /\ object'.uid = originalUID /\ object'.entries = claim.entries
         /\ object'.version = claim.version + 1
         /\ object'.version <= changes + step + 1
         /\ Entries(object', OtherDriver) = Entries(object, OtherDriver)
         /\ Entries(object', DriverName) = ownedDevices
<1>1. claim \in Object /\ object # NoObject /\ object \in Object
  BY DEF StatusInv, StatusTypeOK, Accepts
<1>2. /\ object.uid = originalUID /\ object.version = claim.version
      /\ claim.version <= changes + step
  BY <1>1 DEF StatusInv, CopyInv, AttemptsInv, Accepts
<1>3. /\ claim.version \in 0 .. MaxChanges + Steps /\ claim.entries \in SUBSET Entry
      /\ claim.uid \in UID /\ changes \in 0 .. MaxChanges /\ step \in 0 .. Steps
  BY <1>1 DEF Object, StatusInv, StatusTypeOK
<1>4. object' = [uid |-> claim.uid, version |-> claim.version + 1, entries |-> claim.entries]
  BY <1>1 DEF Written, Object
<1>5. claim.version + 1 \in 0 .. MaxChanges + Steps /\ claim.version + 1 <= changes + step + 1
  BY <1>2, <1>3, ObjectIsNotNull
<1>6. object' \in Object
  BY <1>3, <1>4, <1>5 DEF Object
<1>7. object' # NoObject /\ claim # NoObject
  BY <1>1, <1>6, ObjectIsNotNull
<1>8. object'.uid = originalUID
  BY <1>4 DEF StatusInv, CopyInv
<1>9. /\ Entries(object', OtherDriver) = Entries(claim, OtherDriver)
      /\ Entries(object', DriverName) = filterDevicesByDriver(claim.entries, DriverName)
  BY <1>4, <1>7 DEF Entries
<1> QED
  BY <1>1, <1>2, <1>4, <1>5, <1>6, <1>7, <1>8, <1>9 DEF StatusInv, CopyInv

(* Retry begins an attempt only if one is left.                            *)
LEMMA RetryFacts ==
  ASSUME NEW n \in 0 .. Steps, Retry(n)
  PROVE  upc' \in {"update", "failed"} /\ (upc' = "update" => n < Steps)
BY DEF Retry

(* An attempt that wrote the claim, whatever it is taken for.              *)
LEMMA WriteStatus ==
  ASSUME StatusInv, upc = "update", Accepts(claim), object' = Written(claim),
         step' = step + 1, upc' \in {"update", "done", "failed"},
         upc' = "update" => step + 1 < Steps,
         UNCHANGED <<changes, claim, ownedDevices, originalUID>>
  PROVE  StatusInv'
<1>1. step < Steps /\ step \in 0 .. Steps
  BY DEF StatusInv, AttemptsInv, StatusTypeOK
<1>2. /\ object' \in Object /\ object' # NoObject /\ object'.uid = originalUID
      /\ object'.entries = claim.entries /\ object'.version = claim.version + 1
      /\ object'.version <= changes + step + 1
  BY <1>1, WriteFacts
<1>3. StatusTypeOK'
  <2>1. step' \in 0 .. Steps
    BY <1>1, ObjectIsNotNull
  <2> QED
    BY <1>2, <2>1 DEF StatusInv, StatusTypeOK
<1>4. AttemptsInv'
  <2>1. object'.version <= changes' + step'
    BY <1>1, <1>2 DEF StatusInv, StatusTypeOK
  <2> QED
    BY <1>2, <2>1 DEF AttemptsInv, StatusInv, CopyInv
<1>5. CopyInv'
  <2>1. claim.version \in Nat
    BY ObjectIsNotNull DEF StatusInv, StatusTypeOK, Object
  <2>2. claim.version <= claim.version + 1 /\ claim.version # claim.version + 1
    BY <2>1
  <2> QED
    BY <1>2, <2>2 DEF StatusInv, CopyInv
<1>6. ReplacementUntouched'
  BY <1>2 DEF ReplacementUntouched
<1> QED
  BY <1>3, <1>4, <1>5, <1>6 DEF StatusInv

(* A step that changes nothing but the count and the control.              *)
LEMMA IdleStatus ==
  ASSUME StatusInv, step' \in 0 .. Steps, step <= step',
         upc' \in {"update", "refresh", "done", "failed"}, upc' = "update" => step' < Steps,
         UNCHANGED <<object, changes, claim, ownedDevices, originalUID>>
  PROVE  StatusInv'
<1>1. StatusTypeOK'
  BY DEF StatusInv, StatusTypeOK
<1>2. AttemptsInv'
  <2>1. ASSUME object # NoObject
        PROVE  object.version <= changes + step'
    <3>1. object.version \in Nat /\ changes \in Nat /\ step \in Nat /\ step' \in Nat
      BY <2>1, ObjectIsNotNull DEF StatusInv, StatusTypeOK, Object
    <3>2. object.version <= changes + step
      BY <2>1 DEF StatusInv, AttemptsInv
    <3> QED
      BY <3>1, <3>2
  <2> QED
    BY <2>1 DEF StatusInv, AttemptsInv
<1>3. CopyInv'
  BY DEF StatusInv, CopyInv
<1>4. ReplacementUntouched'
  BY DEF StatusInv, ReplacementUntouched
<1> QED
  BY <1>1, <1>2, <1>3, <1>4 DEF StatusInv

(* The refreshed copy: the object as it is, with the driver's own entries. *)
LEMMA RefreshStatus ==
  ASSUME StatusInv, Refresh
  PROVE  StatusInv'
<1>1. /\ object # NoObject /\ object \in Object /\ step \in 0 .. Steps
      /\ ownedDevices \in SUBSET {e \in Entry : e.driver = DriverName}
      /\ UNCHANGED <<object, changes, ownedDevices, originalUID, step>>
  BY DEF Refresh, apiVars, StatusInv, StatusTypeOK
<1>2. CASE upc' = "failed" /\ UNCHANGED claim
  BY <1>1, <1>2, IdleStatus
<1>3. CASE /\ object.uid = originalUID
           /\ claim' = [object EXCEPT !.entries =
                          mergeDeviceStatus(@, ownedDevices, DriverName)]
           /\ Retry(step)
  <2> DEFINE merged == mergeDeviceStatus(object.entries, ownedDevices, DriverName)
  <2>1. /\ object.entries \in SUBSET Entry /\ object.uid \in UID
        /\ object.version \in 0 .. MaxChanges + Steps
    BY <1>1 DEF Object
  <2>2. Keyed(object.entries) /\ Keyed(ownedDevices)
    BY <1>1 DEF StatusInv, AttemptsInv, CopyInv, Keyed, filterDevicesByDriver
  <2>3. /\ merged \in SUBSET Entry /\ Keyed(merged)
        /\ filterDevicesByDriver(merged, DriverName) = ownedDevices
        /\ filterDevicesByDriver(merged, OtherDriver)
             = filterDevicesByDriver(object.entries, OtherDriver)
    BY <1>1, <2>1, <2>2, MergeFacts
  <2>4. claim' = [uid |-> object.uid, version |-> object.version, entries |-> merged]
    BY <1>1, <1>3 DEF Object
  <2> HIDE DEF merged
  <2>5. claim' \in Object
    BY <2>1, <2>3, <2>4 DEF Object
  <2>6. upc' \in {"update", "failed"} /\ (upc' = "update" => step < Steps)
    BY <1>1, <1>3, RetryFacts
  <2>7. StatusTypeOK'
    BY <1>1, <2>5, <2>6 DEF StatusInv, StatusTypeOK
  <2>8. AttemptsInv'
    BY <1>1, <2>6 DEF StatusInv, AttemptsInv
  <2>9. CopyInv'
    <3>1. claim' # NoObject
      BY <2>5, ObjectIsNotNull
    <3>2. object.version <= object.version
      BY <2>1, ObjectIsNotNull
    <3> QED
      BY <1>1, <1>3, <2>3, <2>4, <3>1, <3>2 DEF CopyInv, Entries
  <2>10. ReplacementUntouched'
    BY <1>1 DEF StatusInv, ReplacementUntouched
  <2> QED
    BY <2>7, <2>8, <2>9, <2>10 DEF StatusInv
<1> QED
  BY <1>2, <1>3 DEF Refresh

(* Every step of the driver keeps the invariant.                           *)
LEMMA DriverStepStatus ==
  ASSUME StatusInv, DriverStep
  PROVE  StatusInv'
<1>1. step \in 0 .. Steps /\ (upc = "update" => step + 1 \in 0 .. Steps /\ step <= step + 1)
  BY ObjectIsNotNull DEF StatusInv, StatusTypeOK, AttemptsInv
<1>2. step <= step
  BY <1>1
<1>3. CASE UpdateAccepted
  BY <1>3, WriteStatus DEF UpdateAccepted
<1>4. CASE UpdateTransient
  <2>1. upc' \in {"update", "failed"} /\ (upc' = "update" => step + 1 < Steps)
    BY <1>1, <1>4, RetryFacts DEF UpdateTransient
  <2>2. CASE UNCHANGED object
    BY <1>1, <1>4, <2>1, <2>2, IdleStatus DEF UpdateTransient
  <2>3. CASE Accepts(claim) /\ object' = Written(claim)
    BY <1>4, <2>1, <2>3, WriteStatus DEF UpdateTransient
  <2> QED
    BY <1>4, <2>2, <2>3 DEF UpdateTransient
<1>5. CASE UpdatePermanent \/ UpdateConflict
  BY <1>1, <1>5, IdleStatus DEF UpdatePermanent, UpdateConflict, apiVars
<1>6. CASE Refresh
  BY <1>6, RefreshStatus
<1>7. CASE RefreshFails
  <2>1. upc' \in {"update", "failed"} /\ (upc' = "update" => step < Steps)
    BY <1>1, <1>7, RetryFacts DEF RefreshFails
  <2> QED
    BY <1>1, <1>2, <1>7, <2>1, IdleStatus DEF RefreshFails, apiVars
<1>8. CASE ContextDone
  BY <1>1, <1>2, <1>8, IdleStatus DEF ContextDone, apiVars
<1> QED
  BY <1>3, <1>4, <1>5, <1>6, <1>7, <1>8 DEF DriverStep

(* Another driver's write makes the copy stale: its version is behind.     *)
LEMMA OtherDriverStatus ==
  ASSUME StatusInv, NEW k \in Key, NEW d \in Data, OtherDriverWrites(k, d)
  PROVE  StatusInv'
<1> DEFINE entry == [driver |-> OtherDriver, key |-> k, data |-> d]
           list == upsertDeviceStatus(object.entries, entry)
<1>1. /\ object # NoObject /\ object \in Object /\ changes < MaxChanges /\ changes' = changes + 1
      /\ UNCHANGED <<claim, ownedDevices, originalUID, step, upc>>
  BY DEF OtherDriverWrites, Change, localVars, StatusInv, StatusTypeOK
<1>2. /\ object.entries \in SUBSET Entry /\ object.uid \in UID /\ object.version \in Nat
      /\ changes \in Nat /\ step \in 0 .. Steps /\ claim.version \in Nat
      /\ object.version <= changes + step /\ Keyed(object.entries)
  BY <1>1, ObjectIsNotNull DEF Object, StatusInv, StatusTypeOK, AttemptsInv
<1>3. entry \in Entry /\ entry.driver = OtherDriver
  BY DEF Entry
<1>4. /\ list \in SUBSET Entry /\ Keyed(list)
      /\ filterDevicesByDriver(list, DriverName) = filterDevicesByDriver(object.entries, DriverName)
  BY <1>2, <1>3, UpsertFacts, DriverAssumption
<1>5. /\ object' = [uid |-> object.uid, version |-> object.version + 1, entries |-> list]
      /\ object'.uid = object.uid /\ object'.version = object.version + 1
      /\ object'.entries = list
  <2>1. object' = [object EXCEPT !.version = @ + 1, !.entries = upsertDeviceStatus(@, entry)]
    BY DEF OtherDriverWrites
  <2>2. object' = [uid |-> object.uid, version |-> object.version + 1, entries |-> list]
    BY Zenon, <1>1, <2>1 DEF Object
  <2> QED
    BY <2>2
<1> HIDE DEF entry, list
<1>6. /\ object.version + 1 \in 0 .. MaxChanges + Steps /\ changes + 1 \in 0 .. MaxChanges
      /\ object.version + 1 <= (changes + 1) + step
  BY <1>1, <1>2, ObjectIsNotNull
<1>7. object' \in Object
  BY <1>2, <1>4, <1>5, <1>6 DEF Object
<1>8. StatusTypeOK'
  BY <1>1, <1>6, <1>7 DEF StatusInv, StatusTypeOK
<1>9. AttemptsInv'
  BY <1>1, <1>4, <1>5, <1>6 DEF StatusInv, AttemptsInv
<1>10. CopyInv'
  <2>1. ASSUME claim.version <= object.version
        PROVE  claim.version <= object.version + 1 /\ claim.version # object.version + 1
    BY <1>2, <2>1
  <2> QED
    BY <1>1, <1>5, <2>1 DEF StatusInv, CopyInv
<1>11. ReplacementUntouched'
  <2>1. object' # NoObject
    BY <1>7, ObjectIsNotNull
  <2>2. Entries(object', DriverName) = Entries(object, DriverName)
    BY <1>1, <1>4, <1>5, <2>1 DEF Entries
  <2>3. Entries(object, DriverName)' = Entries(object', DriverName)
    BY DEF Entries
  <2> QED
    BY <1>1, <1>5, <2>2, <2>3 DEF StatusInv, ReplacementUntouched
<1> QED
  BY <1>8, <1>9, <1>10, <1>11 DEF StatusInv

(* So does the deletion of the claim,                                      *)
LEMMA DeletedStatus ==
  ASSUME StatusInv, ClaimDeleted
  PROVE  StatusInv'
<1>1. /\ changes < MaxChanges /\ changes' = changes + 1 /\ object' = NoObject
      /\ UNCHANGED <<claim, ownedDevices, originalUID, step, upc>>
  BY DEF ClaimDeleted, Change, localVars
<1>2. changes + 1 \in 0 .. MaxChanges
  BY <1>1, ObjectIsNotNull DEF StatusInv, StatusTypeOK
<1> QED
  BY <1>1, <1>2 DEF StatusInv, StatusTypeOK, AttemptsInv, CopyInv, ReplacementUntouched

(* and a new claim of the same name.                                       *)
LEMMA ReplacedStatus ==
  ASSUME StatusInv, NEW u \in UID, ClaimReplaced(u)
  PROVE  StatusInv'
<1>1. /\ changes < MaxChanges /\ changes' = changes + 1 /\ u # originalUID
      /\ object' = [uid |-> u, version |-> changes', entries |-> {}]
      /\ UNCHANGED <<claim, ownedDevices, originalUID, step, upc>>
  BY DEF ClaimReplaced, Change, localVars
<1>2. /\ changes + 1 \in 0 .. MaxChanges /\ changes + 1 \in 0 .. MaxChanges + Steps
      /\ changes + 1 <= (changes + 1) + step
  BY <1>1, ObjectIsNotNull DEF StatusInv, StatusTypeOK
<1>3. object' \in Object /\ object'.uid = u /\ object'.entries = {} /\ object'.version = changes + 1
  BY <1>1, <1>2 DEF Object
<1>4. StatusTypeOK'
  BY <1>1, <1>2, <1>3 DEF StatusInv, StatusTypeOK
<1>5. AttemptsInv'
  BY <1>1, <1>2, <1>3 DEF StatusInv, AttemptsInv, Keyed
<1>6. CopyInv'
  BY <1>1, <1>3 DEF StatusInv, CopyInv
<1>7. ReplacementUntouched'
  BY <1>3 DEF ReplacementUntouched, Entries, filterDevicesByDriver
<1> QED
  BY <1>4, <1>5, <1>6, <1>7 DEF StatusInv

-----------------------------------------------------------------------------
(* The theorems.                                                           *)

(* The retry loop keeps its invariant, whatever others do to the claim and *)
(* whichever attempt fails, is refused or is applied without an answer.    *)
THEOREM StatusInvariant ==
  Spec => []StatusInv
<1>1. StatusInv /\ [Next]_vars => StatusInv'
  <2> SUFFICES ASSUME StatusInv, [Next]_vars
               PROVE  StatusInv'
    OBVIOUS
  <2>1. CASE DriverStep
    BY <2>1, DriverStepStatus
  <2>2. CASE Others
    BY <2>2, OtherDriverStatus, DeletedStatus, ReplacedStatus DEF Others
  <2>3. CASE UNCHANGED vars
    BY <2>3 DEF vars, apiVars, localVars, StatusInv, StatusTypeOK, AttemptsInv, CopyInv,
       ReplacementUntouched
  <2> QED
    BY <2>1, <2>2, <2>3 DEF Next
<1> QED
  BY <1>1, InitStatus, PTL DEF Spec

(* The state of the retry loop and of the claim keeps its type, and the    *)
(* loop makes no more than Backoff.Steps attempts.                         *)
THEOREM StatusTypes ==
  Spec => []StatusTypeOK
<1>1. StatusInv => StatusTypeOK
  BY DEF StatusInv
<1> QED
  BY <1>1, StatusInvariant, PTL

(* ReplacementUntouched for every instance: updateClaimStatus never writes *)
(* the device of the prepared claim into another claim of its name.        *)
THEOREM ReplacementStaysUntouched ==
  Spec => []ReplacementUntouched
<1>1. StatusInv => ReplacementUntouched
  BY DEF StatusInv
<1> QED
  BY <1>1, StatusInvariant, PTL

(* OtherEntriesSurvive for every instance: no write of updateClaimStatus,  *)
(* with or without an answer, changes the entries of another driver.       *)
THEOREM OtherEntriesAreKept ==
  Spec => OtherEntriesSurvive
<1> DEFINE A == DriverStep => Entries(object', OtherDriver) = Entries(object, OtherDriver)
<1>1. StatusInv /\ [Next]_vars => [A]_vars
  <2> SUFFICES ASSUME StatusInv, DriverStep
               PROVE  Entries(object', OtherDriver) = Entries(object, OtherDriver)
    OBVIOUS
  <2>1. CASE UNCHANGED object
    BY <2>1
  <2>2. CASE upc = "update" /\ Accepts(claim) /\ object' = Written(claim)
    <3>1. step < Steps
      BY <2>2 DEF StatusInv, AttemptsInv
    <3> QED
      BY <2>2, <3>1, WriteFacts
  <2> QED
    BY <2>1, <2>2 DEF DriverStep, UpdateAccepted, UpdateTransient, UpdatePermanent,
       UpdateConflict, Refresh, RefreshFails, ContextDone, apiVars
<1> QED
  BY <1>1, StatusInvariant, PTL DEF Spec, OtherEntriesSurvive

(* DoneMeansRecorded for every instance: a status update that is reported  *)
(* as done has left exactly the driver's entries in the claim.             *)
THEOREM DoneIsRecorded ==
  Spec => DoneMeansRecorded
<1> DEFINE A == (upc # "done" /\ upc' = "done") =>
                  /\ Entries(object', DriverName) = ownedDevices
                  /\ Keyed(object'.entries)
<1>1. StatusInv /\ [Next]_vars => [A]_vars
  <2> SUFFICES ASSUME StatusInv, Next, upc # "done", upc' = "done"
               PROVE  /\ Entries(object', DriverName) = ownedDevices
                      /\ Keyed(object'.entries)
    OBVIOUS
  <2>1. UpdateAccepted
    BY Zenon DEF Next, DriverStep, Others, UpdateTransient, UpdatePermanent, UpdateConflict, Refresh,
       RefreshFails, ContextDone, Retry, OtherDriverWrites, ClaimDeleted, ClaimReplaced, localVars
  <2>2. step < Steps /\ Accepts(claim) /\ object' = Written(claim)
    BY <2>1 DEF UpdateAccepted, StatusInv, AttemptsInv
  <2>3. Entries(object', DriverName) = ownedDevices /\ object'.entries = claim.entries
    BY <2>2, WriteFacts
  <2> QED
    BY <2>3 DEF StatusInv, CopyInv
<1> QED
  BY <1>1, StatusInvariant, PTL DEF Spec, DoneMeansRecorded

-----------------------------------------------------------------------------
(* The refinement.                                                         *)

(* What the others see of an object.                                       *)
LEMMA StatusFacts ==
  ASSUME NEW o \in Object
  PROVE  StatusOf(o) = {[uid |-> o.uid, entries |-> o.entries]}
<1>1. o # NoObject
  BY ObjectIsNotNull
<1> QED
  BY <1>1 DEF StatusOf

(* The entries of the abstract specification are those of the detailed     *)
(* one.                                                                    *)
LEMMA SameEntries ==
  /\ Recorded!Entry = Entry
  /\ \A list, e : Recorded!upsertDeviceStatus(list, e) = upsertDeviceStatus(list, e)
<1>1. Recorded!Entry = Entry
  BY DEF Recorded!Entry, Entry
<1>2. \A e : Recorded!keyOf(e) = keyOf(e)
  BY DEF Recorded!keyOf, keyOf
<1> QED
  BY <1>1, <1>2 DEF Recorded!upsertDeviceStatus, upsertDeviceStatus

(* A write the API server accepts is the atomic replacement: the copy has  *)
(* the entries others have in the claim at that moment, and the owned      *)
(* ones.                                                                   *)
LEMMA WriteRecords ==
  ASSUME StatusInv, upc = "update", Accepts(claim), object' = Written(claim),
         UNCHANGED <<ownedDevices, originalUID>>
  PROVE  Recorded!Record(Outcome')
<1>1. step < Steps
  BY DEF StatusInv, AttemptsInv
<1>2. /\ object # NoObject /\ object.uid = originalUID
      /\ object' \in Object /\ object'.uid = originalUID /\ object'.entries = claim.entries
      /\ Entries(object', OtherDriver) = Entries(object, OtherDriver)
      /\ Entries(object', DriverName) = ownedDevices
  BY <1>1, WriteFacts
<1>3. object \in Object /\ object.entries \subseteq Entry /\ object'.entries \subseteq Entry
  BY <1>2 DEF StatusInv, StatusTypeOK, Object
<1>4. \A e \in Entry : e.driver # DriverName <=> e.driver = OtherDriver
  BY DriverAssumption DEF Entry
<1>5. /\ {e \in object'.entries : e.driver = OtherDriver}
           = {e \in object.entries : e.driver = OtherDriver}
      /\ {e \in object'.entries : e.driver = DriverName} = ownedDevices
  BY <1>2, <1>3, ObjectIsNotNull DEF Entries, filterDevicesByDriver
<1>6. object'.entries = {e \in object.entries : e.driver # DriverName} \cup ownedDevices
  <2>1. object'.entries = {e \in object'.entries : e.driver = OtherDriver}
                            \cup {e \in object'.entries : e.driver = DriverName}
    BY <1>3, <1>4
  <2>2. {e \in object.entries : e.driver # DriverName}
          = {e \in object.entries : e.driver = OtherDriver}
    BY <1>3, <1>4
  <2> QED
    BY <1>5, <2>1, <2>2
<1>7. StatusOf(object) = {[uid |-> object.uid, entries |-> object.entries]}
  BY <1>3, StatusFacts
<1>8. StatusOf(object)' = {[uid |-> object'.uid, entries |-> object'.entries]}
  BY <1>2, StatusFacts DEF StatusOf
<1>9. \E s \in StatusOf(object) :
        /\ s.uid = originalUID
        /\ StatusOf(object)' = {[uid |-> originalUID,
             entries |-> {e \in s.entries : e.driver # DriverName} \cup ownedDevices]}
  BY <1>2, <1>6, <1>7, <1>8
<1>10. Outcome = "running"
  BY DEF Outcome
<1> QED
  BY <1>9, <1>10 DEF Recorded!Record

(* A step that leaves the claim at the API server alone is no step for the *)
(* others, or the one that gives up.                                       *)
LEMMA IdleRecords ==
  ASSUME upc \in {"update", "refresh"}, upc' \in {"update", "refresh", "failed"},
         UNCHANGED <<object, ownedDevices, originalUID>>
  PROVE  \/ Recorded!GiveUp
         \/ UNCHANGED <<StatusOf(object), ownedDevices, originalUID, Outcome>>
<1>1. UNCHANGED StatusOf(object)
  BY DEF StatusOf
<1>2. Outcome = "running" /\ Outcome' \in {"running", "failed"}
  BY DEF Outcome
<1> QED
  BY <1>1, <1>2 DEF Recorded!GiveUp

(* What others do to the claim is what they do there.                      *)
LEMMA OthersRecord ==
  ASSUME StatusInv, Others
  PROVE  Recorded!Next
<1>1. UNCHANGED <<ownedDevices, originalUID, Outcome>>
  BY Zenon DEF Others, OtherDriverWrites, ClaimDeleted, ClaimReplaced, localVars, Outcome
<1>2. ASSUME NEW k \in Key, NEW d \in Data, OtherDriverWrites(k, d)
      PROVE  Recorded!OtherDriverWrites(k, d)
  <2> DEFINE entry == [driver |-> OtherDriver, key |-> k, data |-> d]
             list == upsertDeviceStatus(object.entries, entry)
  <2>1. object \in Object
    BY <1>2 DEF OtherDriverWrites, StatusInv, StatusTypeOK
  <2>2. object' = [object EXCEPT !.version = @ + 1, !.entries = upsertDeviceStatus(@, entry)]
    BY <1>2 DEF OtherDriverWrites
  <2>3. object' = [uid |-> object.uid, version |-> object.version + 1, entries |-> list]
    BY Zenon, <2>1, <2>2 DEF Object
  <2>4. object'.uid = object.uid /\ object'.entries = list
    BY <2>3
  <2>5. StatusOf(object) = {[uid |-> object.uid, entries |-> object.entries]}
    BY <2>1, StatusFacts
  <2>6. StatusOf(object)' = {[uid |-> object.uid, entries |-> list]}
    <3>1. object.version + 1 \in Nat /\ object.uid \in UID
      BY <2>1, ObjectIsNotNull DEF Object
    <3>2. list \in SUBSET Entry
      BY <2>1 DEF Object, Entry, upsertDeviceStatus
    <3>3. object' # NoObject
      BY <2>3, <3>1, <3>2, StatusAssumption
    <3> QED
      BY <2>4, <3>3 DEF StatusOf
  <2>7. \E s \in StatusOf(object) :
          StatusOf(object)' = {[uid |-> s.uid, entries |-> upsertDeviceStatus(s.entries, entry)]}
    <3> DEFINE s == [uid |-> object.uid, entries |-> object.entries]
    <3>1. s \in StatusOf(object) /\ s.uid = object.uid /\ s.entries = object.entries
      BY <2>5
    <3> HIDE DEF s
    <3> QED
      BY <2>6, <3>1
  <2> QED
    BY <1>1, <2>7, SameEntries DEF Recorded!OtherDriverWrites
<1>3. ASSUME ClaimDeleted
      PROVE  Recorded!Deleted
  <2>1. object \in Object /\ object' = NoObject
    BY <1>3 DEF ClaimDeleted, StatusInv, StatusTypeOK
  <2>2. StatusOf(object) # {}
    <3>1. StatusOf(object) = {[uid |-> object.uid, entries |-> object.entries]}
      BY <2>1, StatusFacts
    <3> QED
      BY Zenon, <3>1
  <2> QED
    BY <1>1, <2>1, <2>2 DEF Recorded!Deleted, StatusOf
<1>4. ASSUME NEW u \in UID, ClaimReplaced(u)
      PROVE  Recorded!Replaced(u)
  <2>1. /\ object = NoObject /\ u # originalUID
        /\ object' = [uid |-> u, version |-> changes', entries |-> {}]
    BY <1>4 DEF ClaimReplaced
  <2>2. object' \in Object \cup {NoObject} /\ object' # NoObject
    <3>1. changes' \in Nat
      BY <1>4, ReplacedStatus DEF StatusInv, StatusTypeOK
    <3>2. object' \in [uid : UID, version : Nat, entries : SUBSET Entry]
      BY <2>1, <3>1
    <3> QED
      BY <1>4, <3>2, ReplacedStatus, StatusAssumption DEF StatusInv, StatusTypeOK
  <2>3. StatusOf(object)' = {[uid |-> u, entries |-> {}]}
    BY <2>1, <2>2, StatusFacts DEF StatusOf
  <2> QED
    BY <1>1, <2>1, <2>3 DEF Recorded!Replaced, StatusOf
<1> QED
  BY <1>2, <1>3, <1>4 DEF Others, Recorded!Next

(* The retry loop of updateClaimStatus, with its copies, conflicts, lost   *)
(* answers and bounded attempts, implements the atomic replacement of the  *)
(* driver's entries.                                                       *)
THEOREM UpdateImplementsRecordedStatus ==
  Spec => ImplementsRecordedStatus
<1>1. Init => Recorded!Init
  <2> SUFFICES ASSUME Init
               PROVE  Recorded!Init
    OBVIOUS
  <2>1. StatusInv
    BY InitStatus
  <2>2. object # NoObject /\ object \in Object /\ object.uid = originalUID /\ upc = "update"
    <3>1. object.uid = originalUID /\ upc = "update"
      BY DEF Init
    <3>2. object \in [uid : UID, version : Nat, entries : SUBSET Entry]
      BY DEF Init
    <3> QED
      BY <2>1, <3>1, <3>2, StatusAssumption DEF StatusInv, StatusTypeOK
  <2>3. StatusOf(object) = {[uid |-> originalUID, entries |-> object.entries]}
    BY <2>2, StatusFacts
  <2>4. object.entries \in SUBSET Entry
    BY <2>2 DEF Object
  <2>5. \E list \in SUBSET Entry : StatusOf(object) = {[uid |-> originalUID, entries |-> list]}
    BY <2>3, <2>4
  <2>6. /\ originalUID \in UID /\ ownedDevices \subseteq {e \in Entry : e.driver = DriverName}
        /\ Outcome = "running"
    BY <2>1, <2>2 DEF StatusInv, StatusTypeOK, Outcome
  <2> QED
    BY <2>5, <2>6, SameEntries DEF Recorded!Init
<1>2. StatusInv /\ [Next]_vars
        => [Recorded!Next]_<<StatusOf(object), ownedDevices, originalUID, Outcome>>
  <2> SUFFICES ASSUME StatusInv, [Next]_vars
               PROVE  \/ Recorded!Next
                      \/ UNCHANGED <<StatusOf(object), ownedDevices, originalUID, Outcome>>
    OBVIOUS
  <2>1. ASSUME upc = "update", Accepts(claim), object' = Written(claim),
               UNCHANGED <<ownedDevices, originalUID>>,
               upc' \in {"update", "done", "failed"}
        PROVE  Recorded!Next
    <3>1. Outcome' \in {"running", "done", "failed"}
      BY <2>1 DEF Outcome
    <3> QED
      BY <2>1, <3>1, WriteRecords DEF Recorded!Next
  <2>2. CASE UpdateAccepted
    BY <2>1, <2>2 DEF UpdateAccepted
  <2>3. CASE UpdateTransient
    BY <2>1, <2>3, IdleRecords DEF UpdateTransient, Retry, Recorded!Next
  <2>4. CASE UpdatePermanent \/ UpdateConflict \/ Refresh \/ RefreshFails \/ ContextDone
    BY <2>4, IdleRecords DEF UpdatePermanent, UpdateConflict, Refresh, RefreshFails, ContextDone,
       Retry, apiVars, Recorded!Next
  <2>5. CASE Others
    BY <2>5, OthersRecord
  <2>6. CASE UNCHANGED vars
    BY <2>6 DEF vars, apiVars, localVars, StatusOf, Outcome
  <2> QED
    BY <2>2, <2>3, <2>4, <2>5, <2>6 DEF Next, DriverStep
<1> QED
  BY <1>1, <1>2, StatusInvariant, PTL DEF Spec, ImplementsRecordedStatus, Recorded!Spec
=============================================================================
