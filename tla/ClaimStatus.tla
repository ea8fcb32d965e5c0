---------------------------- MODULE ClaimStatus ----------------------------
(***************************************************************************)
(* The device entries of ResourceClaim.Status.Devices: the pure functions  *)
(* of pkg/devicestate/claimstatus.go and pkg/driver/server.go.             *)
(*                                                                         *)
(* An entry has the driver, the key (pool, device and share ID) and the    *)
(* data its driver wrote.  The order of the list matters to nobody, so a   *)
(* list is a set.                                                          *)
(***************************************************************************)

CONSTANTS DriverName, OtherDriver, Key, Data

ASSUME DriverAssumption == DriverName # OtherDriver

Entry == [driver : {DriverName, OtherDriver}, key : Key, data : Data]

(* The driver, pool, device and share ID of an entry.                      *)
keyOf(e) == <<e.driver, e.key>>

(* The entry takes the place of the one with its key, or is added.         *)
upsertDeviceStatus(list, e) == {x \in list : keyOf(x) # keyOf(e)} \cup {e}

filterDevicesByDriver(list, d) == {e \in list : e.driver = d}

(* Mutant: the fresh claim's entries of the driver stay.                   *)
mergeKeepingStale(target, owned, d) == target \cup owned

(* Mutant: only the driver's own entries are kept.                         *)
mergeDroppingOthers(target, owned, d) == owned

(* The target's entries of other drivers, and the owned entries.           *)
mergeDeviceStatus(target, owned, d) == {e \in target : e.driver # d} \cup owned
=============================================================================
