---------------------------- MODULE DeviceState ----------------------------
(***************************************************************************)
(* pkg/devicestate, the state the two reconcilers feed: the vhost-user     *)
(* configuration and the allocatable bridges, both guarded by one RWMutex  *)
(* and both lost with the process.  A bridge that is not allocatable reads *)
(* as the zero BridgeSpec, whose MTU is ZeroMTU.                           *)
(***************************************************************************)
EXTENDS ClaimStore, CDI, SocketFS, OvsPorts

VARIABLES config, allocatable

memoryVars == <<config, allocatable>>

DeviceStateTypeOK ==
  /\ config \in Permissions
  /\ allocatable \in [Bridge -> MTU \cup {ZeroMTU}]

(* New: no configuration and no allocatable bridge until the reconcilers   *)
(* have run.                                                               *)
DeviceStateInit ==
  /\ config = NoConfig
  /\ allocatable = [b \in Bridge |-> ZeroMTU]

(* The process starts again.                                               *)
DeviceStateReset ==
  /\ config' = NoConfig
  /\ allocatable' = [b \in Bridge |-> ZeroMTU]

(* UpdateConfig with the spec of the OvsDpdkConfig object; NoConfig when   *)
(* the object does not exist or has no vhostUser section.                  *)
UpdateConfig(spec) ==
  /\ config' = spec
  /\ UNCHANGED allocatable

(* UpdatePolicyDevices with the MTU of every bridge the policies select.   *)
(* The reconciler passes bridges that exist; an MTU out of range refuses   *)
(* the whole update.                                                       *)
UpdatePolicyDevices(mtus) ==
  /\ \A b \in Bridge : mtus[b] # ZeroMTU => b \in bridges /\ mtus[b] \in ValidMTU
  /\ allocatable' = mtus
  /\ UNCHANGED config
=============================================================================
