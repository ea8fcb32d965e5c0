-------------------------------- MODULE CDI --------------------------------
(***************************************************************************)
(* pkg/cdi: one CDI spec file per claim UID.  The file lists one device    *)
(* with one bind mount per prepared device; the set of records it was      *)
(* written from stands for it, and {} for no file.                         *)
(***************************************************************************)
EXTENDS PreparedDevice

VARIABLE cdi

CDITypeOK == cdi \in [Claim -> SUBSET DeviceRecord]

CDIInit == cdi = [c \in Claim |-> {}]

(* Two prepared devices of a claim have one name in the spec: the name is  *)
(* made of the claim, the bridge and the request.  The CDI library         *)
(* (external) refuses such a spec.                                         *)
DuplicateDevices(c) ==
  \E r1, r2 \in OwnResults(c) :
    r1 # r2 /\ r1.device = r2.device /\ r1.request = r2.request

(* WriteSpec replaces an earlier file of the same name.                    *)
CreateClaimSpecFile(c, devices) == cdi' = [cdi EXCEPT ![c] = devices]

(* RemoveSpec accepts a file that is already gone.                         *)
DeleteClaimSpecFile(c) == cdi' = [cdi EXCEPT ![c] = {}]
=============================================================================
