-------------------------- MODULE PreparedDevice --------------------------
(***************************************************************************)
(* The data every component of the prepare path shares: resource claims,   *)
(* their allocation, the record kept of a prepared device and the names    *)
(* derived from a claim.  Sources: pkg/types/types.go and the naming       *)
(* helpers of pkg/devicestate/devicestate.go.                              *)
(*                                                                         *)
(* A list whose order no property tells apart (the allocation results of a *)
(* claim, the prepared devices of a claim) is a set.                       *)
(***************************************************************************)
EXTENDS PortConfig

CONSTANTS
  Claim,         \* claim UIDs
  Pod,           \* pod UIDs
  Bridge,        \* bridge names, which are also the device names
  Share,         \* share IDs, which tell allocations of one bridge apart
  Allocation,    \* per claim, Status.Allocation.Devices.Results
  ClaimConfigs,  \* per claim, Status.Allocation.Devices.Config
  Users,         \* per claim, the pods it is reserved for, one at a time
  UIDPrefix,     \* per claim, the first 8 hex digits of its UID
  ClaimName,     \* per claim, the object name
  PodLocalName,  \* per claim, the pod-local name annotation
  NoAnnotation   \* the annotation of a hand-written claim

(* The allocation results the driver prepares: a result of another driver  *)
(* is skipped.                                                             *)
OwnResults(c) == {r \in Allocation[c] : r.driver = DriverName}

(* The stable name of a claim in its pod.                                  *)
getPodClaimName(c) ==
  IF PodLocalName[c] = NoAnnotation THEN ClaimName[c] ELSE PodLocalName[c]

(* Mutant: the directory does not depend on the pod.                       *)
getSharedSocketDir(p, c, q) == <<getPodClaimName(c), q>>

(* The host directory of a vhost-user socket.  The parts are joined with   *)
(* "_", which occurs in none of them (UIDs and DNS names), so that the     *)
(* directory determines them.                                              *)
getSocketDir(p, c, q) == <<p, getPodClaimName(c), q>>

(* The name of an OVS port and of its interface: a prefix of fixed length, *)
(* "-" and the request.                                                    *)
ovsPortName(c, q) == <<UIDPrefix[c], q>>

(* The claimPortConfigs of every claim.                                    *)
portConfigs == [c \in Claim |-> parseClaimConfigs(ClaimConfigs[c])]

(* The OvsPortConfig of a request of the claim.                            *)
portConfig(c, q) == getConfig(portConfigs[c], q)

(* The record prepareDevice builds for one allocation result.  Two shares  *)
(* of one bridge under one request have the same record.                   *)
preparedDevice(p, c, r) ==
  [request |-> r.request, bridge |-> r.device,
   dir |-> getSocketDir(p, c, r.request), port |-> ovsPortName(c, r.request),
   config |-> portConfig(c, r.request)]

-----------------------------------------------------------------------------
Result == [driver : {DriverName, "other-driver"}, request : Request, device : Bridge,
           share : Share]

Dir == {getSocketDir(p, c, q) : p \in Pod, c \in Claim, q \in Request}

PortName == {ovsPortName(c, q) : c \in Claim, q \in Request}

OvsPortConfig == {portConfig(c, q) : c \in Claim, q \in Request}

DeviceRecord == [request : Request, bridge : Bridge, dir : Dir, port : PortName,
                 config : OvsPortConfig]

(* Every claim has an allocation, whose results name known bridges, and is *)
(* used by known pods.                                                     *)
ASSUME AllocationAssumption ==
  \A c \in Claim : Allocation[c] \subseteq Result /\ Users[c] \subseteq Pod

(* Every claim has a list of configuration entries, which may be empty.    *)
ASSUME EntriesAssumption == \A c \in Claim : ClaimConfigs[c] \in Seq(ConfigEntry)

(* Two claims of one pod never share a socket directory: their pod-local   *)
(* names differ.  Claims of different pods often have the same name.       *)
DistinctDirs ==
  \A c1, c2 \in Claim :
    (getPodClaimName(c1) = getPodClaimName(c2) /\ Users[c1] \cap Users[c2] # {}) => c1 = c2

(* The first 8 hex digits tell the claims of the node apart.               *)
DistinctPrefixes == \A c1, c2 \in Claim : UIDPrefix[c1] = UIDPrefix[c2] => c1 = c2
=============================================================================
