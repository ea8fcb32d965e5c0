---------------------------- MODULE ClaimStore ----------------------------
(***************************************************************************)
(* pkg/claimstore: the bbolt database that maps a claim UID to the records *)
(* of its prepared devices.  Every Set and Delete is one committed bbolt   *)
(* transaction, so the contents survive the death of the process.  Get     *)
(* does not tell a missing key from an empty list: {} stands for both.     *)
(***************************************************************************)
EXTENDS PreparedDevice

VARIABLE store

StoreTypeOK == store \in [Claim -> SUBSET DeviceRecord]

(* The database of a node that never ran the driver.                       *)
StoreInit == store = [c \in Claim |-> {}]

StoreGet(c) == store[c]

StoreSet(c, devices) == store' = [store EXCEPT ![c] = devices]

(* Mutant: the deletion is not committed.                                  *)
StoreKeep(c) == UNCHANGED store

StoreDelete(c) == store' = [store EXCEPT ![c] = {}]

(* Open after the file was lost: a new, empty bucket is created.           *)
StoreLost == store' = [c \in Claim |-> {}]
=============================================================================
