-------------------------- MODULE StatusRefinement --------------------------
(***************************************************************************)
(* ClaimStatusUpdate implements RecordedStatus: the resource version and   *)
(* the copy the driver works on are hidden, and the loop is running until  *)
(* it has a result.                                                        *)
(***************************************************************************)
EXTENDS ClaimStatusUpdate

StatusOf(o) == IF o = NoObject THEN {} ELSE {[uid |-> o.uid, entries |-> o.entries]}

Outcome == IF upc \in {"update", "refresh"} THEN "running" ELSE upc

Recorded == INSTANCE RecordedStatus
  WITH status <- StatusOf(object), owned <- ownedDevices, uid <- originalUID, outcome <- Outcome

(* Whatever conflicts, lost answers and retries there are, the retry loop  *)
(* looks to everybody else like one atomic replacement of the driver's     *)
(* entries, perhaps repeated, in the claim that was prepared: no entry of  *)
(* another driver written in between is lost, no claim of that name        *)
(* created later is written to, and "done" is said in the step that        *)
(* writes.                                                                 *)
ImplementsRecordedStatus == Recorded!Spec
=============================================================================
