------------------------------ MODULE Driver ------------------------------
(***************************************************************************)
(* The life of a claim on the node: the two kubelet handlers of            *)
(* pkg/driver/server.go and the prepare and unprepare paths they run in    *)
(* pkg/devicestate, down to the claim store, the CDI spec file, the socket *)
(* directories and the OVS ports.                                          *)
(*                                                                         *)
(* The kubelet plugin helper serialises the handlers, so at most one runs; *)
(* the reconcilers, OVS and the death of the process interleave with it    *)
(* between any two calls it makes.  Every call may fail, and CreatePort    *)
(* and DeletePort may fail after the database applied them.  A failure     *)
(* spends one of MaxFaults faults.                                         *)
(***************************************************************************)
EXTENDS DeviceState

CONSTANTS
  MaxFaults,  \* bound on the failures of a behaviour
  NoClaim,    \* no claim is being worked on
  NoPod,      \* no pod uses the claim
  NoDevice    \* no device is being worked on

ASSUME FaultsAssumption == MaxFaults \in Nat

(* The null values are not values.                                         *)
ASSUME NullAssumption ==
  /\ NoClaim \notin Claim
  /\ NoPod \notin Pod
  /\ Absent \notin Permissions
  /\ NoPort \notin PortRow

VARIABLES
  kview,     \* what kubelet knows of each claim
  holder,    \* the pod kubelet prepares each claim for
  pc,        \* where the running handler is
  op,        \* which handler runs
  pod,       \* the pod of a prepare call
  batch,     \* claims the handler has not looked at yet
  ok,        \* claims the handler has a good result for
  failed,    \* the handler returns an error for the whole call
  cur,       \* the claim it works on
  todo,      \* allocation results of cur still to prepare
  devs,      \* prepared devices of cur
  dev,       \* the result or the record it works on
  mtu,       \* the MTU read for dev
  undo,      \* records still to unprepare
  err,       \* an unprepare step of cur failed
  faults,    \* failures so far
  leaky      \* history: claims some failure may have left resources of

kubeVars == <<kview, holder>>
nodeVars == <<store, cdi, dirs, bridges, ports>>
callVars == <<op, pod, batch, ok, failed>>
workVars == <<cur, todo, devs, dev, mtu, undo, err>>
vars == <<kubeVars, nodeVars, memoryVars, pc, callVars, workVars, faults, leaky>>

View == {"none", "pending", "prepared", "unpreparing"}

PC == {"idle", "next", "check", "mkdir", "port", "rmdir", "set", "status",
       "undo", "undoPort", "undoDir", "reply"}

TypeOK ==
  /\ StoreTypeOK /\ CDITypeOK /\ SocketFSTypeOK /\ OvsTypeOK /\ DeviceStateTypeOK
  /\ kview \in [Claim -> View]
  /\ holder \in [Claim -> Pod \cup {NoPod}]
  /\ pc \in PC
  /\ op \in {"none", "prepare", "unprepare"}
  /\ pod \in Pod \cup {NoPod}
  /\ batch \subseteq Claim
  /\ ok \subseteq Claim
  /\ failed \in BOOLEAN
  /\ cur \in Claim \cup {NoClaim}
  /\ todo \subseteq Result
  /\ devs \subseteq DeviceRecord
  /\ dev \in Result \cup DeviceRecord \cup {NoDevice}
  /\ mtu \in MTU \cup {ZeroMTU}
  /\ undo \subseteq DeviceRecord
  /\ err \in BOOLEAN
  /\ faults \in 0 .. MaxFaults
  /\ leaky \subseteq Claim

NoCall ==
  /\ pc = "idle" /\ op = "none" /\ pod = NoPod /\ batch = {} /\ ok = {} /\ failed = FALSE

NoWork ==
  /\ cur = NoClaim /\ todo = {} /\ devs = {} /\ dev = NoDevice /\ mtu = ZeroMTU
  /\ undo = {} /\ err = FALSE

Init ==
  /\ StoreInit /\ CDIInit /\ SocketFSInit /\ OvsInit /\ DeviceStateInit
  /\ kview = [c \in Claim |-> "none"]
  /\ holder = [c \in Claim |-> NoPod]
  /\ NoCall /\ NoWork
  /\ faults = 0
  /\ leaky = {}

-----------------------------------------------------------------------------
(* Outcomes of a call.                                                     *)

Succeeds == UNCHANGED <<faults, leaky>>

(* The call fails and what it should have undone or done is still known to *)
(* the handler or to the store.                                            *)
Fails ==
  /\ faults < MaxFaults
  /\ faults' = faults + 1
  /\ UNCHANGED leaky

(* The call fails and may leave a resource of cur behind that neither the  *)
(* handler nor the store will remember.                                    *)
FailsLeaking ==
  /\ faults < MaxFaults
  /\ faults' = faults + 1
  /\ leaky' = leaky \cup {cur}

-----------------------------------------------------------------------------
(* Kubelet (external).  It retries a prepare until it succeeds or the pod  *)
(* goes away, repeats one after its own restart, and once it has begun to  *)
(* unprepare a claim does nothing else to it until that has succeeded.     *)

Receive(o, S) ==
  /\ pc = "idle"
  /\ S # {}
  /\ pc' = "next"
  /\ op' = o
  /\ batch' = S
  /\ UNCHANGED <<nodeVars, memoryVars, ok, failed, workVars, faults, leaky>>

PrepareResourceClaims(p, S) ==
  /\ \A c \in S : /\ kview[c] # "unpreparing"
                  /\ p \in Users[c]
                  /\ holder[c] \in {NoPod, p}
  /\ Receive("prepare", S)
  /\ pod' = p
  /\ holder' = [c \in Claim |-> IF c \in S THEN p ELSE holder[c]]
  /\ kview' = [c \in Claim |-> IF c \in S /\ kview[c] = "none" THEN "pending" ELSE kview[c]]

UnprepareResourceClaims(S) ==
  /\ \A c \in S : kview[c] # "none"
  /\ Receive("unprepare", S)
  /\ kview' = [c \in Claim |-> IF c \in S THEN "unpreparing" ELSE kview[c]]
  /\ UNCHANGED <<holder, pod>>

-----------------------------------------------------------------------------
(* Control shared by the steps of the handlers.                            *)

DropWork ==
  /\ cur' = NoClaim /\ todo' = {} /\ devs' = {} /\ dev' = NoDevice /\ mtu' = ZeroMTU
  /\ undo' = {} /\ err' = FALSE

(* The loop goes on with the next claim, whether or not this one is good.  *)
Continue(c, good) ==
  /\ pc' = "next"
  /\ batch' = batch \ {c}
  /\ ok' = IF good THEN ok \cup {c} ELSE ok
  /\ DropWork
  /\ UNCHANGED <<op, pod, failed>>

(* The handler returns an error: the claims after this one are not looked  *)
(* at, and the results of the ones before it do not reach kubelet.         *)
Abort ==
  /\ pc' = "reply"
  /\ failed' = TRUE
  /\ DropWork
  /\ UNCHANGED <<op, pod, batch, ok>>

(* Mutant: what was prepared of this claim is not unprepared.              *)
RollbackNothing ==
  /\ pc' = "undo"
  /\ undo' = {}
  /\ todo' = {} /\ devs' = {} /\ dev' = NoDevice /\ mtu' = ZeroMTU
  /\ UNCHANGED <<cur, err, callVars>>

(* prepareDevice, CreateClaimSpecFile or Set failed: unprepare what was    *)
(* prepared of this claim (rollback, and UnprepareResourceClaim after a    *)
(* failed Set, run the same loop).                                         *)
Rollback ==
  /\ pc' = "undo"
  /\ undo' = devs
  /\ todo' = {} /\ devs' = {} /\ dev' = NoDevice /\ mtu' = ZeroMTU
  /\ UNCHANGED <<cur, err, callVars>>

-----------------------------------------------------------------------------
(* PrepareResourceClaims: the loop over the claims of the call.            *)

(* parseClaimConfigs returns an error for the claim.                       *)
Misconfigured(c) == ~portConfigs[c].ok

(* Get fails: nil, err.                                                    *)
PrepareGetFails(c) ==
  /\ pc = "next" /\ op = "prepare" /\ c \in batch
  /\ Fails
  /\ Abort
  /\ UNCHANGED <<kubeVars, nodeVars, memoryVars>>

(* The claim is recorded: its cached result is returned.                   *)
PrepareCached(c) ==
  /\ pc = "next" /\ op = "prepare" /\ c \in batch
  /\ StoreGet(c) # {}
  /\ Succeeds
  /\ Continue(c, TRUE)
  /\ UNCHANGED <<kubeVars, nodeVars, memoryVars>>

(* PrepareResourceClaim refuses the claim before it touches anything: it   *)
(* has no allocation or is not reserved for exactly one pod (which a later *)
(* attempt may find otherwise), or one of its entries is bad.              *)
PrepareRefused(c) ==
  /\ pc = "next" /\ op = "prepare" /\ c \in batch
  /\ StoreGet(c) = {}
  /\ Fails \/ (Misconfigured(c) /\ Succeeds)
  /\ Abort
  /\ UNCHANGED <<kubeVars, nodeVars, memoryVars>>

(* Mutant: a claim that is recorded is prepared once more.                 *)
PrepareBeginAgain(c) ==
  /\ pc = "next" /\ op = "prepare" /\ c \in batch
  /\ Succeeds
  /\ pc' = "check"
  /\ cur' = c
  /\ todo' = OwnResults(c)
  /\ UNCHANGED <<kubeVars, nodeVars, memoryVars, callVars, devs, dev, mtu, undo, err>>

PrepareBegin(c) ==
  /\ pc = "next" /\ op = "prepare" /\ c \in batch
  /\ StoreGet(c) = {}
  /\ ~Misconfigured(c)
  /\ Succeeds
  /\ pc' = "check"
  /\ cur' = c
  /\ todo' = OwnResults(c)
  /\ UNCHANGED <<kubeVars, nodeVars, memoryVars, callVars, devs, dev, mtu, undo, err>>

-----------------------------------------------------------------------------
(* PrepareResourceClaim and prepareDevice.                                 *)

(* The first read of the configuration, by the nil check alone.            *)
CheckConfig(r) ==
  /\ pc = "check"
  /\ Succeeds
  /\ \/ /\ config = NoConfig
        /\ Rollback
     \/ /\ config # NoConfig
        /\ pc' = "mkdir"
        /\ todo' = todo \ {r}
        /\ dev' = r
        /\ UNCHANGED <<callVars, cur, devs, mtu, undo, err>>
  /\ UNCHANGED <<kubeVars, nodeVars, memoryVars>>

(* The bridge spec is looked up, the configuration is read again and the   *)
(* directory is created with it.                                           *)
MakeSocketDir ==
  LET d == getSocketDir(pod, cur, dev.request) IN
  /\ pc = "mkdir"
  /\ \/ /\ CreateSocketDir(d, config)
        /\ Succeeds
        /\ pc' = "port"
        /\ mtu' = allocatable[dev.device]
        /\ UNCHANGED <<callVars, cur, todo, devs, dev, undo, err>>
     \/ (MkdirFails(d) \/ PermissionsFail(d)) /\ Fails /\ Rollback
     \/ PermissionsFailAndStay(d) /\ FailsLeaking /\ Rollback
  /\ UNCHANGED <<kubeVars, store, cdi, bridges, ports, memoryVars>>

(* CreatePort; when it fails the directory is removed next.                *)
MakePort ==
  LET n == ovsPortName(cur, dev.request)
      row == [claim |-> cur, bridge |-> dev.device, mtu |-> mtu,
              params |-> ovsPortParams(portConfig(cur, dev.request))]
  IN
  /\ pc = "port"
  /\ \/ /\ CreatePort(dev.device, n, row)
        /\ Succeeds
        /\ pc' = "check"
        /\ devs' = devs \cup {preparedDevice(pod, cur, dev)}
        /\ dev' = NoDevice /\ mtu' = ZeroMTU
        /\ UNCHANGED <<cur, todo, undo, err>>
     \/ /\ \/ CreatePortRefused(dev.device, n, row) /\ UNCHANGED ports /\ Succeeds
           \/ UNCHANGED ports /\ Fails
           \/ CreatePort(dev.device, n, row) /\ FailsLeaking
        /\ pc' = "rmdir"
        /\ UNCHANGED workVars
  /\ UNCHANGED <<kubeVars, store, cdi, dirs, bridges, memoryVars, callVars>>

(* Mutant: the directory of the failed device is left.                     *)
KeepFailedDir ==
  /\ pc = "rmdir"
  /\ Succeeds
  /\ Rollback
  /\ UNCHANGED <<kubeVars, nodeVars, memoryVars>>

(* The directory of the failed device; the error of its removal is dropped. *)
RemoveFailedDir ==
  /\ pc = "rmdir"
  /\ \/ RemoveSocketDir(getSocketDir(pod, cur, dev.request)) /\ Succeeds
     \/ UNCHANGED dirs /\ FailsLeaking
  /\ Rollback
  /\ UNCHANGED <<kubeVars, store, cdi, bridges, ports, memoryVars>>

(* No result was for this driver: an error, and nothing to roll back.      *)
NoResults ==
  /\ pc = "check" /\ todo = {} /\ devs = {}
  /\ Succeeds
  /\ Abort
  /\ UNCHANGED <<kubeVars, nodeVars, memoryVars>>

(* The CDI spec of the claim, which the library refuses or fails to write. *)
WriteSpec ==
  /\ pc = "check" /\ todo = {} /\ devs # {}
  /\ \/ /\ ~DuplicateDevices(cur)
        /\ CreateClaimSpecFile(cur, devs)
        /\ Succeeds
        /\ pc' = "set"
        /\ UNCHANGED <<callVars, workVars>>
     \/ DuplicateDevices(cur) /\ UNCHANGED cdi /\ Succeeds /\ Rollback
     \/ UNCHANGED cdi /\ Fails /\ Rollback
  /\ UNCHANGED <<kubeVars, store, dirs, bridges, ports, memoryVars>>

(* Mutant: an error of the commit is only logged.                          *)
CheckpointAnyway ==
  /\ pc = "set"
  /\ \/ StoreSet(cur, devs) /\ Succeeds
     \/ UNCHANGED store /\ Fails
  /\ pc' = "status"
  /\ UNCHANGED <<kubeVars, cdi, dirs, bridges, ports, memoryVars, callVars, workVars>>

(* The record is committed, or preparation is undone.                      *)
Checkpoint ==
  /\ pc = "set"
  /\ \/ /\ StoreSet(cur, devs)
        /\ Succeeds
        /\ pc' = "status"
        /\ UNCHANGED <<callVars, workVars>>
     \/ UNCHANGED store /\ Fails /\ Rollback
  /\ UNCHANGED <<kubeVars, cdi, dirs, bridges, ports, memoryVars>>

(* The claim has its result; its status is updated, best effort.           *)
UpdateStatus ==
  /\ pc = "status"
  /\ Succeeds
  /\ Continue(cur, TRUE)
  /\ UNCHANGED <<kubeVars, nodeVars, memoryVars>>

-----------------------------------------------------------------------------
(* unprepareDevice, for a rollback and for UnprepareResourceClaims.  A     *)
(* device that cannot be unprepared is kept in the store by an unprepare,  *)
(* and forgotten by a rollback.                                            *)

FailsUndoing == IF op = "unprepare" THEN Fails ELSE FailsLeaking

(* The CDI spec of the whole claim goes first; an error is only logged.    *)
UndoSpec(pd) ==
  /\ pc = "undo"
  /\ \/ DeleteClaimSpecFile(cur) /\ Succeeds
     \/ UNCHANGED cdi /\ FailsLeaking
  /\ pc' = "undoPort"
  /\ dev' = pd
  /\ UNCHANGED <<kubeVars, store, dirs, bridges, ports, memoryVars, callVars,
                 cur, todo, devs, mtu, undo, err>>

(* A port that is not found is not an error.                               *)
UndoPort ==
  /\ pc = "undoPort"
  /\ \/ /\ \/ PortNotFound(dev.port) /\ UNCHANGED ports
           \/ DeletePort(dev.bridge, dev.port)
        /\ Succeeds
        /\ UNCHANGED err
     \/ /\ UNCHANGED ports \/ DeletePort(dev.bridge, dev.port)
        /\ FailsUndoing
        /\ err' = TRUE
  /\ pc' = "undoDir"
  /\ UNCHANGED <<kubeVars, store, cdi, dirs, bridges, memoryVars, callVars,
                 cur, todo, devs, dev, mtu, undo>>

(* Mutant: a device that could not be unprepared is tried again.           *)
UndoDirAgain ==
  /\ pc = "undoDir"
  /\ \/ RemoveSocketDir(dev.dir) /\ Succeeds /\ UNCHANGED err
     \/ UNCHANGED dirs /\ FailsUndoing /\ err' = TRUE
  /\ pc' = "undo"
  /\ undo' = IF err' THEN undo ELSE undo \ {dev}
  /\ dev' = NoDevice
  /\ UNCHANGED <<kubeVars, store, cdi, bridges, ports, memoryVars, callVars,
                 cur, todo, devs, mtu>>

UndoDir ==
  /\ pc = "undoDir"
  /\ \/ RemoveSocketDir(dev.dir) /\ Succeeds /\ UNCHANGED err
     \/ UNCHANGED dirs /\ FailsUndoing /\ err' = TRUE
  /\ pc' = "undo"
  /\ undo' = undo \ {dev}
  /\ dev' = NoDevice
  /\ UNCHANGED <<kubeVars, store, cdi, bridges, ports, memoryVars, callVars,
                 cur, todo, devs, mtu>>

(* A rollback is over: the prepare call returns the error.                 *)
RolledBack ==
  /\ pc = "undo" /\ undo = {} /\ op = "prepare"
  /\ Succeeds
  /\ Abort
  /\ UNCHANGED <<kubeVars, nodeVars, memoryVars>>

-----------------------------------------------------------------------------
(* UnprepareResourceClaims: the loop over the claims of the call.          *)

UnprepareGetFails(c) ==
  /\ pc = "next" /\ op = "unprepare" /\ c \in batch
  /\ Fails
  /\ Abort
  /\ UNCHANGED <<kubeVars, nodeVars, memoryVars>>

(* No record, nothing to unprepare.                                        *)
UnprepareUnknown(c) ==
  /\ pc = "next" /\ op = "unprepare" /\ c \in batch
  /\ StoreGet(c) = {}
  /\ Succeeds
  /\ Continue(c, TRUE)
  /\ UNCHANGED <<kubeVars, nodeVars, memoryVars>>

UnprepareBegin(c) ==
  /\ pc = "next" /\ op = "unprepare" /\ c \in batch
  /\ StoreGet(c) # {}
  /\ Succeeds
  /\ pc' = "undo"
  /\ cur' = c
  /\ undo' = StoreGet(c)
  /\ UNCHANGED <<kubeVars, nodeVars, memoryVars, callVars, todo, devs, dev, mtu, err>>

(* A device could not be unprepared: the claim has an error, its record    *)
(* stays, and the loop goes on.                                            *)
UnprepareFailed ==
  /\ pc = "undo" /\ undo = {} /\ op = "unprepare" /\ err
  /\ Succeeds
  /\ Continue(cur, FALSE)
  /\ UNCHANGED <<kubeVars, nodeVars, memoryVars>>

(* Mutant: the record is deleted although a device is left.                *)
ForgetAnyway ==
  /\ pc = "undo" /\ undo = {} /\ op = "unprepare"
  /\ \/ StoreDelete(cur) /\ Succeeds /\ Continue(cur, TRUE)
     \/ UNCHANGED store /\ Fails /\ Abort
  /\ UNCHANGED <<kubeVars, cdi, dirs, bridges, ports, memoryVars>>

(* Everything is unprepared: the record is deleted.                        *)
Forget ==
  /\ pc = "undo" /\ undo = {} /\ op = "unprepare" /\ ~err
  /\ \/ StoreDelete(cur) /\ Succeeds /\ Continue(cur, TRUE)
     \/ UNCHANGED store /\ Fails /\ Abort
  /\ UNCHANGED <<kubeVars, cdi, dirs, bridges, ports, memoryVars>>

-----------------------------------------------------------------------------
(* The reply, and the environment.                                         *)

EndCall ==
  /\ pc' = "idle" /\ op' = "none" /\ pod' = NoPod /\ batch' = {} /\ ok' = {} /\ failed' = FALSE

LoopDone ==
  /\ pc = "next" /\ batch = {}
  /\ pc' = "reply"
  /\ UNCHANGED <<kubeVars, nodeVars, memoryVars, callVars, workVars, faults, leaky>>

(* Kubelet learns the results; an error of the call hides all of them.     *)
Reply ==
  LET told == IF failed THEN {} ELSE ok IN
  /\ pc = "reply"
  /\ Succeeds
  /\ kview' = [c \in Claim |->
                 IF c \notin told THEN kview[c]
                 ELSE IF op = "prepare" THEN "prepared" ELSE "none"]
  /\ holder' = [c \in Claim |-> IF c \in told /\ op = "unprepare" THEN NoPod ELSE holder[c]]
  /\ EndCall
  /\ UNCHANGED <<nodeVars, memoryVars, workVars>>

(* The reply does not reach kubelet, or comes after it gave up waiting.    *)
ReplyLost ==
  /\ pc = "reply"
  /\ Fails
  /\ EndCall
  /\ UNCHANGED <<kubeVars, nodeVars, memoryVars, workVars>>

(* The process dies and is started again: the memory of the handler and of *)
(* DeviceState is gone.  A claim that was being prepared and is not in the *)
(* store yet is forgotten with whatever exists of it.                      *)
Crash ==
  /\ faults < MaxFaults
  /\ faults' = faults + 1
  /\ leaky' = IF op = "prepare" /\ cur # NoClaim /\ pc # "status"
              THEN leaky \cup {cur} ELSE leaky
  /\ DeviceStateReset
  /\ EndCall
  /\ DropWork
  /\ UNCHANGED <<kubeVars, nodeVars>>

(* The node reboots.  /var/run holds the database, the directories and the *)
(* CDI specs, and the ports are transient: everything is gone at once, and *)
(* kubelet prepares the claims of the pods it restarts again.              *)
Reboot ==
  /\ faults < MaxFaults
  /\ faults' = faults + 1
  /\ leaky' = {}
  /\ StoreLost
  /\ cdi' = [c \in Claim |-> {}]
  /\ dirs' = [d \in Dir |-> Absent]
  /\ DropTransientPorts
  /\ DeviceStateReset
  /\ kview' = [c \in Claim |-> IF kview[c] = "prepared" THEN "pending" ELSE kview[c]]
  /\ EndCall
  /\ DropWork
  /\ UNCHANGED <<holder, bridges>>

OvsRestart ==
  /\ Fails
  /\ DropTransientPorts
  /\ UNCHANGED <<kubeVars, store, cdi, dirs, bridges, memoryVars, pc, callVars, workVars>>

BridgeRemoved(b) ==
  /\ Fails
  /\ RemoveBridge(b)
  /\ UNCHANGED <<kubeVars, store, cdi, dirs, memoryVars, pc, callVars, workVars>>

BridgeAdded(b) ==
  /\ AddBridge(b)
  /\ UNCHANGED <<kubeVars, store, cdi, dirs, memoryVars, pc, callVars, workVars, faults, leaky>>

ConfigReconciled(spec) ==
  /\ UpdateConfig(spec)
  /\ UNCHANGED <<kubeVars, nodeVars, pc, callVars, workVars, faults, leaky>>

PolicyReconciled(mtus) ==
  /\ UpdatePolicyDevices(mtus)
  /\ UNCHANGED <<kubeVars, nodeVars, pc, callVars, workVars, faults, leaky>>

-----------------------------------------------------------------------------
Kubelet ==
  \/ \E p \in Pod, S \in SUBSET Claim : PrepareResourceClaims(p, S)
  \/ \E S \in SUBSET Claim : UnprepareResourceClaims(S)

PrepareStep ==
  \/ \E c \in Claim : \/ PrepareGetFails(c) \/ PrepareCached(c)
                      \/ PrepareRefused(c) \/ PrepareBegin(c)
  \/ \E r \in todo : CheckConfig(r)
  \/ MakeSocketDir \/ MakePort \/ RemoveFailedDir
  \/ NoResults \/ WriteSpec \/ Checkpoint \/ UpdateStatus

UndoStep ==
  \/ \E pd \in undo : UndoSpec(pd)
  \/ UndoPort \/ UndoDir \/ RolledBack

UnprepareStep ==
  \/ \E c \in Claim : UnprepareGetFails(c) \/ UnprepareUnknown(c) \/ UnprepareBegin(c)
  \/ UnprepareFailed \/ Forget

Handler == PrepareStep \/ UndoStep \/ UnprepareStep \/ LoopDone \/ Reply \/ ReplyLost

Surroundings ==
  \/ OvsRestart
  \/ \E b \in Bridge : BridgeRemoved(b) \/ BridgeAdded(b)
  \/ \E spec \in Permissions : ConfigReconciled(spec)
  \/ \E mtus \in [Bridge -> MTU \cup {ZeroMTU}] : PolicyReconciled(mtus)

Environment == Crash \/ Reboot \/ Surroundings

Next == Kubelet \/ Handler \/ Environment

Spec == Init /\ [][Next]_vars

(* The running handler goes on, and kubelet keeps calling for a claim that *)
(* is pending or that it has begun to unprepare.                           *)
RetryPrepare(c) ==
  \E p \in Pod, S \in SUBSET Claim :
    c \in S /\ kview[c] = "pending" /\ PrepareResourceClaims(p, S)

RetryUnprepare(c) ==
  \E S \in SUBSET Claim :
    c \in S /\ kview[c] = "unpreparing" /\ UnprepareResourceClaims(S)

FairSpec ==
  /\ Spec
  /\ WF_vars(Handler)
  /\ \A c \in Claim : SF_vars(RetryPrepare(c)) /\ SF_vars(RetryUnprepare(c))

-----------------------------------------------------------------------------
(* Resources of claim c that exist on the node.                            *)
Clean(c) ==
  /\ cdi[c] = {}
  /\ \A p \in Users[c], q \in Request : dirs[getSocketDir(p, c, q)] = Absent
  /\ \A q \in Request :
       ports[ovsPortName(c, q)] # NoPort => ports[ovsPortName(c, q)].claim # c

(* A claim kubelet was told is prepared, and has not begun to unprepare,   *)
(* has a record of every device allocated to it, made for the pod that     *)
(* holds it, a CDI spec that mounts exactly the recorded devices, and the  *)
(* directories the spec mounts: through failed and retried calls, calls    *)
(* for other claims, lost replies and restarts of the driver.              *)
PreparedIsBacked ==
  \A c \in Claim : kview[c] = "prepared" =>
    /\ store[c] # {}
    /\ store[c] = {preparedDevice(holder[c], c, r) : r \in OwnResults(c)}
    /\ cdi[c] = store[c]
    /\ \A pd \in store[c] : dirs[pd.dir] # Absent

(* A claim that is neither recorded nor being worked on has no CDI spec,   *)
(* directory or port on the node, unless one of the failures marked        *)
(* FailsLeaking, or a crash before the record was committed, hit that very *)
(* claim: every other failure of prepare, rollback and unprepare cleans up *)
(* or is still cleaned up by a later unprepare.                            *)
LeaksAreExplained ==
  \A c \in Claim \ leaky : store[c] = {} /\ cur # c => Clean(c)

(* A claim kubelet was told is unprepared, or never asked for, has nothing *)
(* on the node, unless such a failure hit that very claim.                 *)
UnpreparedIsCleanOrLeaky ==
  \A c \in Claim \ leaky : kview[c] = "none" => Clean(c)

(* The record of a claim is only dropped once its directories and ports    *)
(* are gone, and is never replaced: while something remains to be removed, *)
(* UnprepareResourceClaims still knows of it.                              *)
RecordOutlivesResources ==
  [][\A c \in Claim : store[c] # {} /\ store'[c] # store[c] =>
       /\ store'[c] = {}
       /\ \A pd \in store[c] :
            /\ dirs'[pd.dir] = Absent
            /\ ports'[pd.port] # NoPort => ports'[pd.port].claim # c]_vars

(* A step of a handler for one claim leaves the record, the CDI spec, the  *)
(* directories and the ports of every other claim alone, also when claims  *)
(* of different pods have the same pod-local name and the same requests.   *)
ClaimsAreIsolated ==
  [][Handler =>
       \A c \in Claim \ {cur} :
         /\ store'[c] = store[c]
         /\ cdi'[c] = cdi[c]
         /\ \A p \in Users[c], q \in Request :
              dirs'[getSocketDir(p, c, q)] = dirs[getSocketDir(p, c, q)]
         /\ \A n \in PortName :
              (ports[n] # NoPort /\ ports[n].claim = c) => ports'[n] = ports[n]]_vars

(* What the entries of each claim ask for.                                 *)
wellConfigured == [c \in Claim |-> WellConfigured(ClaimConfigs[c])]

requestedConfigs ==
  [c \in Claim |-> [q \in Request |-> RequestedConfig(ClaimConfigs[c], q)]]

(* Every port and every record carries the configuration the entries of    *)
(* its claim ask for its request, whatever the order of the entries, and a *)
(* claim one of whose entries is bad never gets a port or a record.        *)
PortsAreAsRequested ==
  \A c \in Claim :
    /\ \A q \in Request : LET row == ports[ovsPortName(c, q)] IN
         row # NoPort /\ row.claim = c =>
           wellConfigured[c] /\ row.params = ovsPortParams(requestedConfigs[c][q])
    /\ \A pd \in store[c] :
         wellConfigured[c] /\ pd.config = requestedConfigs[c][pd.request]

(* The reconcilers have found a configuration, and a policy for each       *)
(* bridge.                                                                 *)
Reconciled == config # NoConfig /\ \A b \in Bridge : allocatable[b] # ZeroMTU

(* A claim kubelet has begun to unprepare is unprepared in the end: what a *)
(* failed or interrupted attempt has already removed never makes a later   *)
(* attempt fail.                                                           *)
UnprepareConverges ==
  \A c \in Claim : kview[c] = "unpreparing" ~> kview[c] = "none"

(* A claim that can be prepared: it has a device of this driver, good      *)
(* entries, and no two devices under one request, whose ports would have   *)
(* one name, and two shares of one bridge one name in the CDI spec too.    *)
Preparable(c) ==
  /\ OwnResults(c) # {}
  /\ ~Misconfigured(c)
  /\ \A r1, r2 \in OwnResults(c) : r1.request = r2.request => r1 = r2

(* A pending claim is prepared in the end, or kubelet gives it up, once    *)
(* the configuration and the policy stay present, if the claims of its pod *)
(* can be prepared and no failure left a resource behind: a failed attempt *)
(* that rolled back completely never blocks the next attempt, and neither  *)
(* do claims of other pods.                                                *)
PrepareConverges ==
  (<>[]Reconciled /\ <>[](leaky = {})) =>
    \A c \in Claim :
      (\A d \in Claim : Users[c] \cap Users[d] # {} => Preparable(d)) =>
        (kview[c] = "pending" ~> kview[c] # "pending")

(* The prepare call is bound to return an error.                           *)
PrepareFailing ==
  op = "prepare" /\ (failed \/ pc \in {"rmdir", "undo", "undoPort", "undoDir"})

(* What makes a prepare fail without a failure of one of its calls: there  *)
(* is no configuration, no policy had the bridge when it was looked up, or *)
(* the claim itself cannot be prepared or has left something behind.       *)
PrepareObstacle ==
  \/ pc = "check" /\ config = NoConfig
  \/ pc = "port" /\ mtu = ZeroMTU
  \/ IF cur = NoClaim THEN \E c \in batch : Misconfigured(c)
                     ELSE cur \in leaky \/ ~Preparable(cur)

(* A prepare fails only where one of its calls fails or for such a cause:  *)
(* nothing an earlier attempt, a rollback, an unprepare or another claim   *)
(* has done on the node is in its way.                                     *)
PrepareFailsForACause ==
  [][~PrepareFailing /\ PrepareFailing' /\ faults' = faults /\ Handler => PrepareObstacle]_vars

(* How many kinds of work are left for the claim the handler has in hand,  *)
(* and how many steps for the device.                                      *)
WorkLeft ==
  [idle |-> 0, reply |-> 0, undo |-> 1, undoPort |-> 1, undoDir |-> 1, status |-> 2,
   rmdir |-> 3, set |-> 3, check |-> 4, mkdir |-> 4, port |-> 4, next |-> 5]

StepsLeft ==
  [idle |-> 0, reply |-> 0, status |-> 0, rmdir |-> 0, set |-> 0, next |-> 0,
   check |-> 0, port |-> 1, mkdir |-> 2, undoDir |-> 0, undoPort |-> 1, undo |-> 2]

(* Fewer claims are left, or less work for this one: fewer kinds, fewer    *)
(* devices of this kind, or fewer steps for this device.                   *)
Nearer ==
  \/ batch' \subseteq batch /\ batch' # batch
  \/ /\ batch' = batch
     /\ \/ WorkLeft[pc'] < WorkLeft[pc]
        \/ /\ WorkLeft[pc'] = WorkLeft[pc]
           /\ todo' \subseteq todo /\ undo' \subseteq undo
           /\ <<todo', undo'>> # <<todo, undo>> \/ StepsLeft[pc'] < StepsLeft[pc]

(* Every step of a handler, a failing one too, ends the call or brings its *)
(* end nearer: no retry, rollback or failure sends it back, so that a call *)
(* for finitely many claims and devices ends.                              *)
HandlerAdvances == [][Handler => pc' = "idle" \/ Nearer]_vars

-----------------------------------------------------------------------------
(* What the documentation and the comments say and the code does not do.   *)

(* README: "On pod deletion the directory and CDI spec are removed."  A    *)
(* claim kubelet was told is unprepared has neither.                       *)
UnpreparedIsClean ==
  \A c \in Claim : kview[c] = "none" =>
    /\ cdi[c] = {}
    /\ \A p \in Users[c], q \in Request : dirs[getSocketDir(p, c, q)] = Absent

(* UpdateConfig: the config is cleared "so that prepareDevice consistently *)
(* refuses to prepare devices without a config".  The directory of a       *)
(* prepared device has the permissions of some configuration.              *)
PreparedWithConfig ==
  \A c \in Claim : \A pd \in store[c] : dirs[pd.dir] # NoConfig

(* That is true unless the configuration is withdrawn between its two      *)
(* reads in prepareDevice, also of a directory that a failed attempt left  *)
(* there without permissions.                                              *)
PreparedWithKeptConfig ==
  [](pc = "mkdir" => config # NoConfig) => []PreparedWithConfig
=============================================================================
