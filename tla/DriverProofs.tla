---------------------------- MODULE DriverProofs ----------------------------
(***************************************************************************)
(* Proofs about Driver, for any claims, pods, allocations, configurations  *)
(* and any number of failures: every call of kubelet, every step of a      *)
(* prepare, a rollback and an unprepare, the end of a call and the         *)
(* environment preserve IInv, so IInv is inductive, and TypeOK and         *)
(* PreparedIsBacked are invariants, and every step of a handler brings     *)
(* the end of its call nearer.  First come facts about names and records,  *)
(* what IInv says at a given step of the handler, and frames, which are    *)
(* the effects many steps share.                                           *)
(***************************************************************************)
EXTENDS DriverInv, TLAPS

(* First-order leaves go to Zenon; a leaf for the SMT solver says SMTT.    *)
USE ZenonT(60), SMTT(60)

-----------------------------------------------------------------------------
(* Facts about names and records.                                          *)

(* The results OwnResults keeps are well-typed allocation results.         *)
LEMMA OwnResultType ==
  ASSUME NEW c \in Claim
  PROVE  /\ OwnResults(c) \subseteq Result
         /\ \A r \in OwnResults(c) : r.request \in Request /\ r.device \in Bridge
<1>1. OwnResults(c) \subseteq Result
  BY AllocationAssumption DEF OwnResults
<1>2. \A r \in Result : r.request \in Request /\ r.device \in Bridge
  BY DEF Result
<1> QED
  BY <1>1, <1>2

(* getSocketDir names a directory.                                         *)
LEMMA DirType ==
  ASSUME NEW p \in Pod, NEW c \in Claim, NEW q \in Request
  PROVE  getSocketDir(p, c, q) \in Dir
BY SMTT(60) DEF Dir

(* ovsPortName names a port.                                               *)
LEMMA PortNameType ==
  ASSUME NEW c \in Claim, NEW q \in Request
  PROVE  ovsPortName(c, q) \in PortName
BY SMTT(60) DEF PortName

(* The configuration of a request is one of OvsPortConfig.                 *)
LEMMA PortConfigType ==
  ASSUME NEW c \in Claim, NEW q \in Request
  PROVE  /\ portConfig(c, q) \in OvsPortConfig
         /\ ovsPortParams(portConfig(c, q)) \in PortParams
<1>1. portConfig(c, q) \in OvsPortConfig
  BY SMTT(60) DEF OvsPortConfig
<1> QED
  BY <1>1 DEF PortParams

(* What prepareDevice puts in a record.                                    *)
LEMMA RecordFields ==
  ASSUME NEW p, NEW c, NEW r
  PROVE  /\ preparedDevice(p, c, r).dir = getSocketDir(p, c, r.request)
         /\ preparedDevice(p, c, r).port = ovsPortName(c, r.request)
         /\ preparedDevice(p, c, r).bridge = r.device
         /\ preparedDevice(p, c, r).request = r.request
BY DEF preparedDevice

(* prepareDevice builds a well-typed record.                               *)
LEMMA RecordType ==
  ASSUME NEW c \in Claim, NEW p \in Users[c], NEW r \in OwnResults(c)
  PROVE  preparedDevice(p, c, r) \in DeviceRecord
<1>1. r.request \in Request /\ r.device \in Bridge
  BY OwnResultType
<1>2. getSocketDir(p, c, r.request) \in Dir /\ ovsPortName(c, r.request) \in PortName
  BY <1>1, AllocationAssumption, DirType, PortNameType
<1>3. portConfig(c, r.request) \in OvsPortConfig
  BY <1>1, PortConfigType
<1> QED
  BY <1>1, <1>2, <1>3 DEF preparedDevice, DeviceRecord

(* So do all its runs for one claim.                                       *)
LEMMA RecordsOfType ==
  ASSUME NEW c \in Claim
  PROVE  /\ RecordsOf(c) \subseteq DeviceRecord
         /\ \A p \in Users[c] : FullRecord(p, c) \subseteq RecordsOf(c)
<1>1. RecordsOf(c) \subseteq DeviceRecord
  BY SMTT(60), RecordType DEF RecordsOf
<1>2. \A p \in Users[c] : FullRecord(p, c) \subseteq RecordsOf(c)
  BY SMTT(60) DEF FullRecord, RecordsOf
<1> QED
  BY <1>1, <1>2

(* A socket directory belongs to one claim.                                *)
LEMMA DirOwner ==
  ASSUME DistinctDirs,
         NEW c1 \in Claim, NEW c2 \in Claim, 
         NEW p1 \in Users[c1], NEW p2 \in Users[c2], NEW q1, NEW q2,
         getSocketDir(p1, c1, q1) = getSocketDir(p2, c2, q2)
  PROVE  c1 = c2
<1>1. getPodClaimName(c1) = getPodClaimName(c2) /\ p1 = p2
  BY DEF getSocketDir
<1> QED
  BY <1>1 DEF DistinctDirs

(* The directories recorded for two claims differ.                         *)
LEMMA RecordDirOwner ==
  ASSUME DistinctDirs,
         NEW c1 \in Claim, NEW c2 \in Claim, c1 # c2,
         NEW d \in RecordsOf(c2)
  PROVE  /\ \A p \in Users[c1] : \A q : getSocketDir(p, c1, q) # d.dir
         /\ \A e \in RecordsOf(c1) : e.dir # d.dir
<1>1. PICK p2 \in Users[c2], r2 \in OwnResults(c2) : d = preparedDevice(p2, c2, r2)
  BY SMTT(60) DEF RecordsOf
<1>2. d.dir = getSocketDir(p2, c2, r2.request)
  BY SMTT(60), <1>1, RecordFields
<1>3. \A p \in Users[c1] : \A q : getSocketDir(p, c1, q) # d.dir
  BY SMTT(60), <1>2, DirOwner
<1>4. ASSUME NEW e \in RecordsOf(c1)
      PROVE  e.dir # d.dir
  <2>1. PICK p1 \in Users[c1], r1 \in OwnResults(c1) : e = preparedDevice(p1, c1, r1)
    BY SMTT(60) DEF RecordsOf
  <2>2. e.dir = getSocketDir(p1, c1, r1.request)
    BY SMTT(60), <2>1, RecordFields
  <2> QED
    BY <2>2, <1>3
<1> QED
  BY <1>3, <1>4

-----------------------------------------------------------------------------
(* Facts about the state that several steps need.                          *)

(* Every outcome of a call keeps the failure count and the history typed.  *)
LEMMA OutcomeType ==
  ASSUME TypeOK, Succeeds \/ Fails \/ (cur \in Claim /\ FailsLeaking)
  PROVE  faults' \in 0 .. MaxFaults /\ leaky' \subseteq Claim
BY SMTT(60), FaultsAssumption DEF TypeOK, Succeeds, Fails, FailsLeaking

(* While cur is being prepared it has no record in the store, and devs are *)
(* records of cur.                                                         *)
LEMMA DevsAreRecords ==
  ASSUME IInv, pc \in PreparingAt
  PROVE  /\ cur \in Claim /\ pod \in Pod /\ pod \in Users[cur]
         /\ devs \subseteq RecordsOf(cur)
         /\ store[cur] = {}
<1>1. cur \in Claim /\ pod \in Pod /\ pod \in Users[cur] /\ store[cur] = {}
  <2>1. cur \in batch /\ cur \in Claim /\ op = "prepare"
    BY DEF IInv, TypeOK, ControlInv, PreparingAt
  <2>2. holder[cur] = pod /\ kview[cur] # "none"
    BY <2>1 DEF IInv, KubeletInv
  <2>3. pod \in Users[cur]
    BY <2>1, <2>2 DEF IInv, KubeletInv
  <2> QED
    BY <2>1, <2>3, AllocationAssumption DEF IInv, PrepareInv
<1>2. CASE pc = "set"
  BY <1>1, <1>2, RecordsOfType DEF IInv, PrepareInv
<1>3. CASE pc \in {"check", "mkdir", "port", "rmdir"}
  BY SMTT(60), <1>1, <1>3 DEF IInv, PrepareInv, RecordsOf
<1> QED
  BY <1>1, <1>2, <1>3 DEF PreparingAt

(* A change of a directory of cur leaves the directories recorded for      *)
(* other claims alone.                                                     *)
LEMMA OtherDirs ==
  ASSUME DistinctDirs, IInv, cur \in Claim,
         NEW d, NEW v, dirs' = [dirs EXCEPT ![d] = v],
         \/ \E p \in Users[cur] : \E q : d = getSocketDir(p, cur, q)
         \/ \E e \in RecordsOf(cur) : d = e.dir,
         NEW c \in Claim, c # cur, NEW pd \in store[c]
  PROVE  dirs'[pd.dir] = dirs[pd.dir]
<1>1. pd \in RecordsOf(c)
  BY DEF IInv, RecordInv
<1>2. pd.dir # d
  BY <1>1, RecordDirOwner
<1>3. pd.dir \in Dir
  BY <1>1, RecordsOfType DEF DeviceRecord
<1> QED
  BY <1>2, <1>3 DEF IInv, TypeOK, SocketFSTypeOK

(* While devices of cur are unprepared, cur has no record or kubelet is    *)
(* unpreparing it.                                                         *)
LEMMA UndoingFacts ==
  ASSUME IInv, pc \in UndoingAt
  PROVE  /\ cur \in Claim /\ cur \in batch
         /\ undo \subseteq RecordsOf(cur) /\ undo \subseteq DeviceRecord
         /\ store[cur] = {} \/ kview[cur] = "unpreparing"
<1>1. cur \in Claim /\ cur \in batch /\ undo \subseteq RecordsOf(cur)
  BY DEF IInv, TypeOK, ControlInv, UndoingAt
<1>2. op \in {"prepare", "unprepare"}
  BY DEF IInv, TypeOK, ControlInv, UndoingAt
<1>3. store[cur] = {} \/ kview[cur] = "unpreparing"
  BY <1>1, <1>2 DEF IInv, KubeletInv, PrepareInv
<1> QED
  BY <1>1, <1>3, RecordsOfType

(* A step of the handler's control alone keeps everything else typed.      *)
LEMMA NodeTypeFrame ==
  ASSUME TypeOK, UNCHANGED <<kubeVars, nodeVars, memoryVars>>
  PROVE  /\ StoreTypeOK' /\ CDITypeOK' /\ SocketFSTypeOK' /\ OvsTypeOK' /\ DeviceStateTypeOK'
         /\ kview' \in [Claim -> View]
         /\ holder' \in [Claim -> Pod \cup {NoPod}]
<1>1. StoreTypeOK' /\ CDITypeOK' /\ SocketFSTypeOK'
  BY DEF TypeOK, StoreTypeOK, CDITypeOK, SocketFSTypeOK, nodeVars
<1>2. OvsTypeOK' /\ DeviceStateTypeOK'
  BY DEF TypeOK, OvsTypeOK, DeviceStateTypeOK, nodeVars, memoryVars
<1> QED
  BY <1>1, <1>2 DEF TypeOK, kubeVars

(* What happens in OVS and in the reconcilers alone preserves IInv.        *)
LEMMA OvsAndMemoryFrame ==
  ASSUME IInv, UNCHANGED <<kubeVars, store, cdi, dirs, pc, callVars, workVars>>,
         OvsTypeOK', DeviceStateTypeOK',
         faults' \in 0 .. MaxFaults, leaky' \subseteq Claim
  PROVE  IInv'
<1> USE DEF IInv, kubeVars, callVars, workVars
<1>1. StoreTypeOK' /\ CDITypeOK' /\ SocketFSTypeOK'
  BY DEF TypeOK, StoreTypeOK, CDITypeOK, SocketFSTypeOK
<1>2. TypeOK'
  BY <1>1 DEF TypeOK
<1>3. ControlInv' /\ KubeletInv'
  BY DEF ControlInv, KubeletInv, NoWork
<1>4. PrepareInv' /\ RecordInv'
  BY SMTT(60) DEF PrepareInv, RecordInv
<1> QED
  BY <1>2, <1>3, <1>4

(* Giving up the call preserves IInv.                                      *)
LEMMA AbortFrame ==
  ASSUME IInv, pc # "idle", Abort, UNCHANGED <<kubeVars, nodeVars, memoryVars>>,
         faults' \in 0 .. MaxFaults, leaky' \subseteq Claim
  PROVE  IInv'
<1> USE DEF IInv, Abort, DropWork
<1>1. TypeOK'
  BY NodeTypeFrame DEF TypeOK, PC
<1>2. ControlInv'
  BY DEF ControlInv, NoWork, PreparingAt, UndoingAt
<1>3. KubeletInv' /\ PrepareInv'
  BY DEF KubeletInv, PrepareInv, PreparingAt, UndoingAt, kubeVars
<1>4. RecordInv'
  BY DEF RecordInv, kubeVars, nodeVars
<1> QED
  BY <1>1, <1>2, <1>3, <1>4

(* Going on with the next claim preserves IInv, if a good result of a      *)
(* prepare has a record and one of an unprepare has none.                  *)
LEMMA ContinueFrame ==
  ASSUME IInv, pc # "idle", UNCHANGED <<kubeVars, nodeVars, memoryVars>>,
         faults' \in 0 .. MaxFaults, leaky' \subseteq Claim,
         NEW c \in batch, NEW good \in BOOLEAN, Continue(c, good),
         good => (op = "prepare" <=> store[c] # {})
  PROVE  IInv'
<1> USE DEF IInv, Continue, DropWork
<1>1. batch' \subseteq batch /\ ok' \subseteq ok \cup {c} /\ c \in Claim
  BY DEF TypeOK
<1>2. TypeOK'
  BY <1>1, NodeTypeFrame DEF TypeOK, PC
<1>3. ControlInv'
  BY DEF ControlInv, NoWork, PreparingAt, UndoingAt
<1>4. KubeletInv' /\ PrepareInv'
  BY <1>1 DEF KubeletInv, PrepareInv, PreparingAt, UndoingAt, kubeVars
<1>5. RecordInv'
  BY DEF RecordInv, kubeVars, nodeVars
<1> QED
  BY <1>2, <1>3, <1>4, <1>5

(* The end of a call that kubelet learns nothing from preserves IInv.      *)
LEMMA EndCallFrame ==
  ASSUME IInv, EndCall, NoWork', UNCHANGED <<kubeVars, nodeVars>>, DeviceStateTypeOK',
         faults' \in 0 .. MaxFaults, leaky' \subseteq Claim
  PROVE  IInv'
<1> USE DEF IInv, EndCall, NoWork, kubeVars, nodeVars
<1>1. StoreTypeOK' /\ CDITypeOK' /\ SocketFSTypeOK' /\ OvsTypeOK'
  BY DEF TypeOK, StoreTypeOK, CDITypeOK, SocketFSTypeOK, OvsTypeOK
<1>2. TypeOK'
  BY <1>1 DEF TypeOK, PC
<1>3. ControlInv'
  BY DEF ControlInv, PreparingAt, UndoingAt
<1>4. KubeletInv' /\ PrepareInv'
  BY DEF KubeletInv, PrepareInv, PreparingAt, UndoingAt
<1>5. RecordInv'
  BY DEF RecordInv
<1> QED
  BY <1>2, <1>3, <1>4, <1>5

-----------------------------------------------------------------------------
(* Kubelet's calls preserve IInv.                                          *)

(* Kubelet's prepare call preserves the inductive invariant: a claim it    *)
(* has named before keeps its pod.                                         *)
LEMMA PrepareResourceClaimsStep ==
  ASSUME IInv, NEW p \in Pod, NEW S \in SUBSET Claim, PrepareResourceClaims(p, S)
  PROVE  IInv'
<1>1. /\ pc = "idle" /\ pc' = "next" /\ op' = "prepare" /\ batch' = S /\ pod' = p /\ ok' = {}
      /\ NoWork /\ NoWork'
      /\ UNCHANGED <<store, cdi, dirs, bridges, ports, config, allocatable, failed, faults, leaky>>
  BY DEF PrepareResourceClaims, Receive, nodeVars, memoryVars, workVars, IInv, ControlInv, NoWork
<1>2. ASSUME NEW c \in Claim
      PROVE  /\ kview'[c] = kview[c] \/ (kview[c] = "none" /\ kview'[c] = "pending")
             /\ kview[c] # "none" => holder'[c] = holder[c]
  <2>1. kview'[c] = kview[c] \/ (kview[c] = "none" /\ kview'[c] = "pending")
    BY DEF PrepareResourceClaims
  <2>2. kview[c] # "none" => holder[c] \in Pod
    BY AllocationAssumption DEF IInv, KubeletInv
  <2> QED
    BY <2>1, <2>2, NullAssumption DEF PrepareResourceClaims
<1>3. \A c \in S : holder'[c] = p /\ p \in Users[c] /\ kview'[c] \in {"pending", "prepared"}
  BY DEF PrepareResourceClaims, IInv, TypeOK, View
<1>4. TypeOK'
  <2>1. kview' \in [Claim -> View] /\ holder' \in [Claim -> Pod \cup {NoPod}]
    BY DEF PrepareResourceClaims, IInv, TypeOK, View
  <2> QED
    BY <1>1, <2>1 DEF IInv, TypeOK, StoreTypeOK, CDITypeOK, SocketFSTypeOK, OvsTypeOK,
       DeviceStateTypeOK, PC, NoWork
<1>5. ControlInv'
  BY <1>1 DEF ControlInv, PreparingAt, UndoingAt
<1>6. KubeletInv'
  <2>1. ASSUME NEW c \in Claim, kview'[c] # "none"
        PROVE  holder'[c] \in Users[c]
    <3>1. CASE c \in S
      BY <1>3, <3>1
    <3>2. CASE c \notin S
      BY <2>1, <3>2 DEF PrepareResourceClaims, IInv, KubeletInv
    <3> QED
      BY <3>1, <3>2
  <2> QED
    BY <1>1, <1>3, <2>1 DEF KubeletInv
<1>7. PrepareInv'
  BY <1>1 DEF PrepareInv, PreparingAt, UndoingAt
<1>8. RecordInv'
  BY SMTT(60), <1>1, <1>2 DEF IInv, RecordInv
<1> QED
  BY <1>4, <1>5, <1>6, <1>7, <1>8 DEF IInv

(* Kubelet's unprepare call preserves the inductive invariant.             *)
LEMMA UnprepareResourceClaimsStep ==
  ASSUME IInv, NEW S \in SUBSET Claim, UnprepareResourceClaims(S)
  PROVE  IInv'
<1>1. /\ pc = "idle" /\ pc' = "next" /\ op' = "unprepare" /\ batch' = S /\ ok' = {}
      /\ NoWork /\ NoWork'
      /\ UNCHANGED <<store, cdi, dirs, bridges, ports, config, allocatable, holder, pod, failed,
                     faults, leaky>>
  BY DEF UnprepareResourceClaims, Receive, nodeVars, memoryVars, workVars, IInv, ControlInv, NoWork
<1>2. \A c \in Claim : \/ kview'[c] = kview[c] /\ c \notin S
                       \/ kview[c] # "none" /\ kview'[c] = "unpreparing"
  BY DEF UnprepareResourceClaims
<1>3. \A c \in S : kview'[c] = "unpreparing"
  BY DEF UnprepareResourceClaims
<1>4. TypeOK'
  <2>1. kview' \in [Claim -> View]
    BY DEF UnprepareResourceClaims, IInv, TypeOK, View
  <2> QED
    BY <1>1, <2>1 DEF IInv, TypeOK, StoreTypeOK, CDITypeOK, SocketFSTypeOK, OvsTypeOK,
       DeviceStateTypeOK, PC, NoWork
<1>5. ControlInv'
  BY <1>1 DEF ControlInv, PreparingAt, UndoingAt
<1>6. KubeletInv'
  BY <1>1, <1>2, <1>3 DEF IInv, KubeletInv
<1>7. PrepareInv'
  BY <1>1 DEF PrepareInv, PreparingAt, UndoingAt
<1>8. RecordInv'
  BY <1>1, <1>2 DEF IInv, RecordInv
<1> QED
  BY <1>4, <1>5, <1>6, <1>7, <1>8 DEF IInv

-----------------------------------------------------------------------------
(* The steps of a prepare preserve IInv.                                   *)

(* A store that fails and a claim that is refused end the prepare call:    *)
(* both preserve the inductive invariant.                                  *)
LEMMA PrepareGetFailsStep ==
  ASSUME IInv, NEW c \in Claim, PrepareGetFails(c) \/ PrepareRefused(c)
  PROVE  IInv'
BY AbortFrame, OutcomeType DEF IInv, PrepareGetFails, PrepareRefused

(* PrepareCached preserves the inductive invariant.                        *)
LEMMA PrepareCachedStep ==
  ASSUME IInv, NEW c \in Claim, PrepareCached(c)
  PROVE  IInv'
BY ContinueFrame, OutcomeType DEF IInv, PrepareCached, StoreGet

(* PrepareBegin preserves the inductive invariant.                         *)
LEMMA PrepareBeginStep ==
  ASSUME IInv, NEW c \in Claim, PrepareBegin(c)
  PROVE  IInv'
<1>1. /\ pc = "next" /\ op = "prepare" /\ c \in batch /\ store[c] = {} /\ devs = {}
      /\ pc' = "check" /\ cur' = c /\ todo' = OwnResults(c)
      /\ UNCHANGED <<op, pod, batch, ok, failed, devs, dev, mtu, undo, err>>
      /\ UNCHANGED <<kubeVars, nodeVars, memoryVars>>
  BY DEF PrepareBegin, StoreGet, callVars, IInv, ControlInv, NoWork
<1>2. TypeOK'
  <2>1. faults' \in 0 .. MaxFaults /\ leaky' \subseteq Claim
    BY OutcomeType DEF PrepareBegin, IInv
  <2> QED
    BY <1>1, <2>1, OwnResultType, NodeTypeFrame DEF IInv, TypeOK, PC
<1>3. ControlInv'
  BY <1>1 DEF IInv, ControlInv, PreparingAt, UndoingAt
<1>4. KubeletInv' /\ RecordInv'
  BY <1>1 DEF IInv, KubeletInv, RecordInv, kubeVars, nodeVars
<1>5. PrepareInv'
  BY <1>1 DEF PrepareInv, PreparingAt, UndoingAt, nodeVars
<1> QED
  BY <1>2, <1>3, <1>4, <1>5 DEF IInv

(* CheckConfig preserves the inductive invariant.                          *)
LEMMA CheckConfigStep ==
  ASSUME IInv, NEW r \in todo, CheckConfig(r)
  PROVE  IInv'
<1> USE DEF IInv, CheckConfig, kubeVars, nodeVars, memoryVars, callVars
<1>1. pc = "check" /\ cur \in Claim /\ todo \subseteq OwnResults(cur) /\ devs \subseteq RecordsOf(cur)
  BY DevsAreRecords DEF ControlInv, PreparingAt
<1>2. OwnResults(cur) \subseteq Result /\ RecordsOf(cur) \subseteq DeviceRecord
  BY <1>1, OwnResultType, RecordsOfType
<1>3. TypeOK'
  <2>1. faults' \in 0 .. MaxFaults /\ leaky' \subseteq Claim
    BY OutcomeType DEF TypeOK
  <2> QED
    BY <1>1, <1>2, <2>1 DEF Rollback, TypeOK, StoreTypeOK, CDITypeOK, SocketFSTypeOK,
       OvsTypeOK, DeviceStateTypeOK, PC
<1>4. ControlInv'
  BY <1>1 DEF Rollback, ControlInv, NoWork, PreparingAt, UndoingAt, TypeOK
<1>5. KubeletInv'
  BY DEF Rollback, KubeletInv
<1>6. PrepareInv'
  BY SMTT(60), <1>1 DEF Rollback, PrepareInv, ControlInv, PreparingAt, UndoingAt
<1>7. RecordInv'
  BY DEF Rollback, RecordInv
<1> QED
  BY <1>3, <1>4, <1>5, <1>6, <1>7

-----------------------------------------------------------------------------
(* The steps of prepareDevice preserve IInv.                               *)

(* CreateSocketDir of a device of cur preserves the inductive invariant:   *)
(* no directory of another claim's record is touched.                      *)
LEMMA MakeSocketDirStep ==
  ASSUME DistinctDirs, IInv, MakeSocketDir
  PROVE  IInv'
<1> DEFINE d == getSocketDir(pod, cur, dev.request)
<1>1. /\ pc = "mkdir" /\ op = "prepare" /\ cur \in batch /\ cur \in Claim /\ pod \in Users[cur]
      /\ store[cur] = {} /\ dev \in OwnResults(cur) \ todo /\ devs \subseteq RecordsOf(cur)
      /\ todo \subseteq OwnResults(cur)
  BY DevsAreRecords DEF IInv, MakeSocketDir, ControlInv, PreparingAt
<1>2. /\ RecordsOf(cur) \subseteq DeviceRecord /\ dev.device \in Bridge /\ d \in Dir
  BY <1>1, OwnResultType, RecordsOfType, DirType, AllocationAssumption
<1>3. config \in Permissions
  BY DEF IInv, TypeOK, DeviceStateTypeOK
<1>4. \/ UNCHANGED dirs
      \/ \E v \in Permissions \cup {Absent} : dirs' = [dirs EXCEPT ![d] = v]
  BY <1>3 DEF MakeSocketDir, CreateSocketDir, MkdirFails, PermissionsFail, PermissionsFailAndStay,
     Permissions
<1>5. UNCHANGED <<kview, holder, store, cdi, bridges, ports, config, allocatable,
                  op, pod, batch, ok, failed, cur, err>>
  BY DEF MakeSocketDir, Rollback, kubeVars, memoryVars, callVars
<1>6. \/ /\ pc' = "port" /\ mtu' = allocatable[dev.device]
         /\ dirs' = [dirs EXCEPT ![d] = config]
         /\ UNCHANGED <<todo, devs, dev, undo>>
      \/ /\ pc' = "undo" /\ undo' = devs
         /\ todo' = {} /\ devs' = {} /\ dev' = NoDevice /\ mtu' = ZeroMTU
  BY DEF MakeSocketDir, CreateSocketDir, Rollback
<1>7. TypeOK'
  <2>1. Succeeds \/ Fails \/ FailsLeaking
    BY DEF MakeSocketDir
  <2>2. faults' \in 0 .. MaxFaults /\ leaky' \subseteq Claim
    BY <1>1, <2>1, OutcomeType DEF IInv
  <2>3. dirs' \in [Dir -> Permissions \cup {Absent}]
    BY <1>4 DEF IInv, TypeOK, SocketFSTypeOK
  <2>4. mtu' \in MTU \cup {ZeroMTU} /\ undo' \subseteq DeviceRecord
    BY <1>1, <1>2, <1>6 DEF IInv, TypeOK, DeviceStateTypeOK
  <2> QED
    BY <1>5, <1>6, <2>2, <2>3, <2>4 DEF IInv, TypeOK, StoreTypeOK, CDITypeOK, SocketFSTypeOK,
       OvsTypeOK, DeviceStateTypeOK, PC
<1>8. ControlInv'
  BY <1>1, <1>5, <1>6 DEF ControlInv, PreparingAt, UndoingAt
<1>9. KubeletInv'
  BY <1>5 DEF IInv, KubeletInv
<1>10. PrepareInv'
  <2>1. CASE pc' = "undo"
    BY <1>1, <1>5, <2>1 DEF PrepareInv, PreparingAt, UndoingAt
  <2>2. CASE pc' = "port" /\ dirs' = [dirs EXCEPT ![d] = config] /\ UNCHANGED <<todo, devs, dev>>
    <3>1. dirs'[d] # Absent /\ \A e \in Dir : dirs[e] # Absent => dirs'[e] # Absent
      BY <1>2, <1>3, <2>2, NullAssumption DEF IInv, TypeOK, SocketFSTypeOK
    <3>2. \A pd \in devs : dirs'[pd.dir] # Absent
      BY <1>1, <1>2, <3>1 DEF IInv, PrepareInv, PreparingAt, DeviceRecord
    <3> QED
      BY <1>1, <1>5, <2>2, <3>1, <3>2 DEF IInv, PrepareInv, PreparingAt, UndoingAt
  <2> QED
    BY <1>6, <2>1, <2>2
<1>11. RecordInv'
  <2>1. \A c \in Claim : \A pd \in store[c] : dirs'[pd.dir] = dirs[pd.dir]
    BY <1>1, <1>4, OtherDirs
  <2> QED
    BY <1>5, <2>1 DEF IInv, RecordInv
<1> QED
  BY <1>7, <1>8, <1>9, <1>10, <1>11 DEF IInv

(* CreatePort preserves the inductive invariant: the device joins devs,    *)
(* with its directory in place.                                            *)
LEMMA MakePortStep ==
  ASSUME IInv, MakePort
  PROVE  IInv'
<1> DEFINE n == ovsPortName(cur, dev.request)
           row == [claim |-> cur, bridge |-> dev.device, mtu |-> mtu,
                   params |-> ovsPortParams(portConfig(cur, dev.request))]
<1>1. /\ pc = "port" /\ op = "prepare" /\ cur \in batch /\ cur \in Claim /\ pod \in Users[cur]
      /\ store[cur] = {} /\ dev \in OwnResults(cur) /\ devs \subseteq RecordsOf(cur)
  BY DevsAreRecords DEF IInv, MakePort, ControlInv, PreparingAt
<1>2. /\ RecordsOf(cur) \subseteq DeviceRecord
      /\ dev.request \in Request /\ dev.device \in Bridge /\ n \in PortName
      /\ preparedDevice(pod, cur, dev) \in RecordsOf(cur)
  BY SMTT(60), <1>1, OwnResultType, RecordsOfType, PortNameType DEF RecordsOf
<1>3. row \in PortRow
  BY <1>1, <1>2, PortConfigType DEF IInv, TypeOK, PortRow
<1>4. UNCHANGED <<kview, holder, store, cdi, dirs, bridges, config, allocatable,
                  op, pod, batch, ok, failed, cur, todo, undo, err>>
  BY DEF MakePort, kubeVars, memoryVars, callVars, workVars
<1>5. \/ /\ pc' = "check"
         /\ devs' = devs \cup {preparedDevice(pod, cur, dev)}
         /\ dev' = NoDevice /\ mtu' = ZeroMTU
      \/ pc' = "rmdir" /\ UNCHANGED <<devs, dev, mtu>>
  BY DEF MakePort, workVars
<1>6. TypeOK'
  <2>1. faults' \in 0 .. MaxFaults /\ leaky' \subseteq Claim
    BY <1>1, OutcomeType DEF MakePort, IInv
  <2>2. ports' \in [PortName -> PortRow \cup {NoPort}]
    BY <1>2, <1>3 DEF MakePort, CreatePort, IInv, TypeOK, OvsTypeOK
  <2> QED
    BY <1>1, <1>2, <1>4, <1>5, <2>1, <2>2 DEF IInv, TypeOK, StoreTypeOK, CDITypeOK,
       SocketFSTypeOK, OvsTypeOK, DeviceStateTypeOK, PC
<1>7. ControlInv'
  BY <1>1, <1>4, <1>5 DEF IInv, ControlInv, PreparingAt, UndoingAt
<1>8. KubeletInv'
  BY <1>4 DEF IInv, KubeletInv
<1>9. PrepareInv'
  <2>1. CASE pc' = "rmdir" /\ UNCHANGED <<devs, dev, mtu>>
    BY <1>1, <1>4, <2>1 DEF IInv, PrepareInv, PreparingAt, UndoingAt
  <2>2. CASE pc' = "check" /\ devs' = devs \cup {preparedDevice(pod, cur, dev)}
    <3>1. devs' = {preparedDevice(pod, cur, r) : r \in OwnResults(cur) \ todo}
      <4>1. dev \notin todo
        BY <1>1 DEF IInv, ControlInv
      <4> QED
        BY <1>1, <2>2, <4>1 DEF IInv, PrepareInv
    <3>2. \A pd \in devs' : dirs[pd.dir] # Absent
      BY SMTT(60), <1>1, <2>2, RecordFields DEF IInv, PrepareInv, PreparingAt
    <3> QED
      BY <1>1, <1>4, <2>2, <3>1, <3>2 DEF IInv, PrepareInv, PreparingAt, UndoingAt
  <2> QED
    BY <1>5, <2>1, <2>2
<1>10. RecordInv'
  BY <1>4 DEF IInv, RecordInv
<1> QED
  BY <1>6, <1>7, <1>8, <1>9, <1>10 DEF IInv

(* Removing the directory of the failed device preserves the inductive     *)
(* invariant.                                                              *)
LEMMA RemoveFailedDirStep ==
  ASSUME DistinctDirs, IInv, RemoveFailedDir
  PROVE  IInv'
<1> DEFINE d == getSocketDir(pod, cur, dev.request)
<1>1. /\ pc = "rmdir" /\ op = "prepare" /\ cur \in batch /\ cur \in Claim /\ pod \in Users[cur]
      /\ store[cur] = {} /\ devs \subseteq RecordsOf(cur)
  BY DevsAreRecords DEF IInv, RemoveFailedDir, ControlInv, PreparingAt
<1>2. RecordsOf(cur) \subseteq DeviceRecord
  BY <1>1, RecordsOfType
<1>3. UNCHANGED dirs \/ dirs' = [dirs EXCEPT ![d] = Absent]
  BY DEF RemoveFailedDir, RemoveSocketDir
<1>4. /\ pc' = "undo" /\ undo' = devs
      /\ todo' = {} /\ devs' = {} /\ dev' = NoDevice /\ mtu' = ZeroMTU
      /\ UNCHANGED <<kview, holder, store, cdi, bridges, ports, config, allocatable,
                     op, pod, batch, ok, failed, cur, err>>
  BY DEF RemoveFailedDir, Rollback, kubeVars, memoryVars, callVars
<1>5. TypeOK'
  <2>1. faults' \in 0 .. MaxFaults /\ leaky' \subseteq Claim
    BY <1>1, OutcomeType DEF RemoveFailedDir, IInv
  <2>2. dirs' \in [Dir -> Permissions \cup {Absent}]
    BY <1>3 DEF IInv, TypeOK, SocketFSTypeOK
  <2>3. undo' \subseteq DeviceRecord
    BY <1>1, <1>2, <1>4
  <2> QED
    BY <1>4, <2>1, <2>2, <2>3 DEF IInv, TypeOK, StoreTypeOK, CDITypeOK,
       SocketFSTypeOK, OvsTypeOK, DeviceStateTypeOK, PC
<1>6. ControlInv'
  BY <1>1, <1>4 DEF IInv, ControlInv, PreparingAt, UndoingAt
<1>7. KubeletInv'
  BY <1>4 DEF IInv, KubeletInv
<1>8. PrepareInv'
  BY <1>1, <1>4 DEF PrepareInv, PreparingAt, UndoingAt
<1>9. RecordInv'
  <2>1. \A c \in Claim : \A pd \in store[c] : dirs'[pd.dir] = dirs[pd.dir]
    BY <1>1, <1>3, OtherDirs
  <2> QED
    BY <1>4, <2>1 DEF IInv, RecordInv
<1> QED
  BY <1>5, <1>6, <1>7, <1>8, <1>9 DEF IInv

-----------------------------------------------------------------------------
(* The CDI spec, the record and the result preserve IInv.                  *)

(* NoResults preserves the inductive invariant.                            *)
LEMMA NoResultsStep ==
  ASSUME IInv, NoResults
  PROVE  IInv'
BY AbortFrame, OutcomeType DEF IInv, NoResults

(* CreateClaimSpecFile preserves the inductive invariant: the spec mounts  *)
(* exactly devs.                                                           *)
LEMMA WriteSpecStep ==
  ASSUME IInv, WriteSpec
  PROVE  IInv'
<1>1. /\ pc = "check" /\ op = "prepare" /\ cur \in batch /\ cur \in Claim /\ pod \in Users[cur]
      /\ store[cur] = {} /\ todo = {} /\ devs # {} /\ devs \subseteq RecordsOf(cur)
  BY DevsAreRecords DEF IInv, WriteSpec, ControlInv, PreparingAt
<1>2. RecordsOf(cur) \subseteq DeviceRecord
  BY <1>1, RecordsOfType
<1>3. UNCHANGED <<kview, holder, store, dirs, bridges, ports, config, allocatable,
                  op, pod, batch, ok, failed, cur, err>>
  BY DEF WriteSpec, Rollback, kubeVars, memoryVars, callVars, workVars
<1>4. \/ /\ pc' = "set" /\ cdi' = [cdi EXCEPT ![cur] = devs]
         /\ UNCHANGED <<todo, devs, dev, mtu, undo>>
      \/ UNCHANGED cdi /\ Rollback
  BY DEF WriteSpec, CreateClaimSpecFile, callVars, workVars
<1>5. TypeOK'
  <2>1. faults' \in 0 .. MaxFaults /\ leaky' \subseteq Claim
    BY OutcomeType DEF WriteSpec, IInv
  <2> QED
    BY <1>1, <1>2, <1>3, <1>4, <2>1 DEF Rollback, IInv, TypeOK, StoreTypeOK, CDITypeOK,
       SocketFSTypeOK, OvsTypeOK, DeviceStateTypeOK, PC
<1>6. ControlInv'
  BY <1>1, <1>3, <1>4 DEF Rollback, IInv, ControlInv, PreparingAt, UndoingAt
<1>7. KubeletInv'
  BY <1>3 DEF IInv, KubeletInv
<1>8. PrepareInv'
  <2>1. CASE Rollback
    BY <1>1, <1>3, <2>1 DEF Rollback, PrepareInv, PreparingAt, UndoingAt
  <2>2. CASE pc' = "set" /\ cdi' = [cdi EXCEPT ![cur] = devs] /\ UNCHANGED <<todo, devs, dev>>
    <3>1. devs = FullRecord(pod, cur) /\ cdi'[cur] = devs
      BY <1>1, <2>2 DEF IInv, PrepareInv, FullRecord, TypeOK, CDITypeOK
    <3> QED
      BY <1>1, <1>3, <2>2, <3>1 DEF IInv, PrepareInv, PreparingAt, UndoingAt
  <2> QED
    BY <1>4, <2>1, <2>2
<1>9. RecordInv'
  <2>1. \A c \in Claim : c # cur => cdi'[c] = cdi[c]
    BY <1>4 DEF IInv, TypeOK, CDITypeOK
  <2> QED
    BY <1>1, <1>3, <2>1 DEF IInv, RecordInv
<1> QED
  BY <1>5, <1>6, <1>7, <1>8, <1>9 DEF IInv

(* claimStore.Set preserves the inductive invariant: what it records is    *)
(* complete and backed.                                                    *)
LEMMA CheckpointStep ==
  ASSUME IInv, Checkpoint
  PROVE  IInv'
<1>1. /\ pc = "set" /\ op = "prepare" /\ cur \in batch /\ cur \in Claim /\ pod \in Users[cur]
      /\ store[cur] = {} /\ devs # {} /\ devs \subseteq RecordsOf(cur)
      /\ holder[cur] = pod /\ kview[cur] \in {"pending", "prepared"}
  BY DevsAreRecords DEF IInv, Checkpoint, ControlInv, KubeletInv, PrepareInv, PreparingAt
<1>2. RecordsOf(cur) \subseteq DeviceRecord
  BY <1>1, RecordsOfType
<1>3. UNCHANGED <<kview, holder, cdi, dirs, bridges, ports, config, allocatable,
                  op, pod, batch, ok, failed, cur, err>>
  BY DEF Checkpoint, Rollback, kubeVars, memoryVars, callVars, workVars
<1>4. \/ /\ pc' = "status" /\ store' = [store EXCEPT ![cur] = devs]
         /\ UNCHANGED <<todo, devs, dev, mtu, undo>>
      \/ UNCHANGED store /\ Rollback
  BY DEF Checkpoint, StoreSet, callVars, workVars
<1>5. TypeOK'
  <2>1. faults' \in 0 .. MaxFaults /\ leaky' \subseteq Claim
    BY OutcomeType DEF Checkpoint, IInv
  <2> QED
    BY <1>1, <1>2, <1>3, <1>4, <2>1 DEF Rollback, IInv, TypeOK, StoreTypeOK, CDITypeOK,
       SocketFSTypeOK, OvsTypeOK, DeviceStateTypeOK, PC
<1>6. ControlInv'
  BY <1>1, <1>3, <1>4 DEF Rollback, IInv, ControlInv, PreparingAt, UndoingAt
<1>7. KubeletInv'
  BY <1>3 DEF IInv, KubeletInv
<1>8. CASE UNCHANGED store /\ Rollback
  <2>1. PrepareInv'
    BY <1>1, <1>3, <1>8 DEF Rollback, PrepareInv, PreparingAt, UndoingAt
  <2>2. RecordInv'
    BY <1>3, <1>8 DEF IInv, RecordInv
  <2> QED
    BY <1>5, <1>6, <1>7, <2>1, <2>2 DEF IInv
<1>9. CASE pc' = "status" /\ store' = [store EXCEPT ![cur] = devs]
  <2>1. store'[cur] = devs /\ \A c \in Claim : c # cur => store'[c] = store[c]
    BY <1>1, <1>9 DEF IInv, TypeOK, StoreTypeOK
  <2>2. /\ devs = FullRecord(holder[cur], cur) /\ cdi[cur] = devs
        /\ \A pd \in devs : dirs[pd.dir] # Absent
    BY <1>1 DEF IInv, PrepareInv, PreparingAt
  <2>3. PrepareInv'
    BY <1>1, <1>3, <1>9, <2>1 DEF PrepareInv, PreparingAt, UndoingAt
  <2>4. RecordInv'
    <3>1. \A c \in Claim : store'[c] \subseteq RecordsOf(c)
      BY <1>1, <2>1 DEF IInv, RecordInv
    <3>2. \A c \in Claim : /\ kview[c] = "none" => store'[c] = {}
                           /\ kview[c] = "prepared" => store'[c] # {}
      BY <1>1, <2>1 DEF IInv, RecordInv
    <3>3. op = "prepare" => \A c \in ok : store'[c] # {}
      BY <1>1, <2>1 DEF IInv, RecordInv, TypeOK
    <3>4. \A c \in Claim : store'[c] # {} /\ kview[c] # "unpreparing" =>
            /\ store'[c] = FullRecord(holder[c], c)
            /\ cdi[c] = store'[c]
            /\ \A pd \in store'[c] : dirs[pd.dir] # Absent
      BY <2>1, <2>2 DEF IInv, RecordInv
    <3> QED
      BY <1>1, <1>3, <3>1, <3>2, <3>3, <3>4 DEF RecordInv
  <2> QED
    BY <1>5, <1>6, <1>7, <2>3, <2>4 DEF IInv
<1> QED
  BY <1>4, <1>8, <1>9

(* UpdateStatus preserves the inductive invariant.                         *)
LEMMA UpdateStatusStep ==
  ASSUME IInv, UpdateStatus
  PROVE  IInv'
<1>1. cur \in batch /\ op = "prepare" /\ store[cur] # {}
  BY DEF IInv, ControlInv, PrepareInv, UpdateStatus
<1> QED
  BY <1>1, ContinueFrame, OutcomeType DEF IInv, UpdateStatus

-----------------------------------------------------------------------------
(* The steps that unprepare devices preserve IInv.                         *)

(* UndoSpec preserves the inductive invariant.                             *)
LEMMA UndoSpecStep ==
  ASSUME IInv, NEW pd \in undo, UndoSpec(pd)
  PROVE  IInv'
<1>1. /\ pc = "undo" /\ cur \in Claim /\ cur \in batch
      /\ undo \subseteq DeviceRecord
      /\ store[cur] = {} \/ kview[cur] = "unpreparing"
  BY UndoingFacts DEF UndoSpec, UndoingAt
<1>2. /\ pc' = "undoPort" /\ dev' = pd
      /\ UNCHANGED <<kview, holder, store, dirs, bridges, ports, config, allocatable,
                     op, pod, batch, ok, failed, cur, todo, devs, mtu, undo, err>>
  BY DEF UndoSpec, kubeVars, memoryVars, callVars
<1>3. UNCHANGED cdi \/ cdi' = [cdi EXCEPT ![cur] = {}]
  BY DEF UndoSpec, DeleteClaimSpecFile
<1>4. TypeOK'
  <2>1. faults' \in 0 .. MaxFaults /\ leaky' \subseteq Claim
    BY <1>1, OutcomeType DEF UndoSpec, IInv
  <2>2. cdi' \in [Claim -> SUBSET DeviceRecord]
    BY <1>3 DEF IInv, TypeOK, CDITypeOK
  <2>3. dev' \in DeviceRecord
    BY <1>1, <1>2
  <2> QED
    BY <1>2, <2>1, <2>2, <2>3 DEF IInv, TypeOK, StoreTypeOK, CDITypeOK,
       SocketFSTypeOK, OvsTypeOK, DeviceStateTypeOK, PC
<1>5. ControlInv'
  BY <1>1, <1>2 DEF IInv, ControlInv, PreparingAt, UndoingAt
<1>6. KubeletInv'
  BY <1>2 DEF IInv, KubeletInv
<1>7. PrepareInv'
  BY <1>1, <1>2 DEF IInv, PrepareInv, PreparingAt, UndoingAt
<1>8. RecordInv'
  <2>1. \A c \in Claim : c # cur => cdi'[c] = cdi[c]
    BY <1>3 DEF IInv, TypeOK, CDITypeOK
  <2> QED
    BY <1>1, <1>2, <2>1 DEF IInv, RecordInv
<1> QED
  BY <1>4, <1>5, <1>6, <1>7, <1>8 DEF IInv

(* UndoPort preserves the inductive invariant.                             *)
LEMMA UndoPortStep ==
  ASSUME IInv, UndoPort
  PROVE  IInv'
<1>1. /\ pc = "undoPort" /\ cur \in Claim /\ cur \in batch
      /\ dev \in undo /\ dev \in DeviceRecord
  BY UndoingFacts DEF UndoPort, UndoingAt, IInv, ControlInv
<1>2. /\ pc' = "undoDir" /\ err' \in BOOLEAN
      /\ UNCHANGED <<kview, holder, store, cdi, dirs, bridges, config, allocatable,
                     op, pod, batch, ok, failed, cur, todo, devs, dev, mtu, undo>>
  BY DEF UndoPort, kubeVars, memoryVars, callVars, IInv, TypeOK
<1>3. TypeOK'
  <2>1. faults' \in 0 .. MaxFaults /\ leaky' \subseteq Claim
    BY <1>1, OutcomeType DEF UndoPort, FailsUndoing, IInv
  <2>2. ports' \in [PortName -> PortRow \cup {NoPort}]
    BY DEF UndoPort, DeletePort, IInv, TypeOK, OvsTypeOK
  <2> QED
    BY <1>2, <2>1, <2>2 DEF IInv, TypeOK, StoreTypeOK, CDITypeOK,
       SocketFSTypeOK, OvsTypeOK, DeviceStateTypeOK, PC
<1>4. ControlInv'
  BY <1>1, <1>2 DEF IInv, ControlInv, PreparingAt, UndoingAt
<1>5. KubeletInv'
  BY <1>2 DEF IInv, KubeletInv
<1>6. PrepareInv'
  BY <1>1, <1>2 DEF IInv, PrepareInv, PreparingAt, UndoingAt
<1>7. RecordInv'
  BY <1>2 DEF IInv, RecordInv
<1> QED
  BY <1>3, <1>4, <1>5, <1>6, <1>7 DEF IInv

(* RemoveSocketDir of an unprepared device preserves the inductive         *)
(* invariant: its claim has no record, or is being unprepared.             *)
LEMMA UndoDirStep ==
  ASSUME DistinctDirs, IInv, UndoDir
  PROVE  IInv'
<1>1. /\ pc = "undoDir" /\ cur \in Claim /\ cur \in batch
      /\ undo \subseteq RecordsOf(cur) /\ dev \in undo
      /\ store[cur] = {} \/ kview[cur] = "unpreparing"
  BY UndoingFacts DEF UndoDir, UndoingAt, IInv, ControlInv
<1>2. /\ pc' = "undo" /\ err' \in BOOLEAN /\ undo' = undo \ {dev} /\ dev' = NoDevice
      /\ UNCHANGED <<kview, holder, store, cdi, bridges, ports, config, allocatable,
                     op, pod, batch, ok, failed, cur, todo, devs, mtu>>
  BY DEF UndoDir, kubeVars, memoryVars, callVars, IInv, TypeOK
<1>3. UNCHANGED dirs \/ dirs' = [dirs EXCEPT ![dev.dir] = Absent]
  BY DEF UndoDir, RemoveSocketDir
<1>4. TypeOK'
  <2>1. faults' \in 0 .. MaxFaults /\ leaky' \subseteq Claim
    BY <1>1, OutcomeType DEF UndoDir, FailsUndoing, IInv
  <2>2. dirs' \in [Dir -> Permissions \cup {Absent}]
    BY <1>3 DEF IInv, TypeOK, SocketFSTypeOK
  <2> QED
    BY <1>2, <2>1, <2>2 DEF IInv, TypeOK, StoreTypeOK, CDITypeOK,
       SocketFSTypeOK, OvsTypeOK, DeviceStateTypeOK, PC
<1>5. ControlInv'
  BY <1>1, <1>2 DEF IInv, ControlInv, PreparingAt, UndoingAt
<1>6. KubeletInv'
  BY <1>2 DEF IInv, KubeletInv
<1>7. PrepareInv'
  BY <1>1, <1>2 DEF IInv, PrepareInv, PreparingAt, UndoingAt
<1>8. RecordInv'
  <2>1. \A c \in Claim : c # cur => \A pd \in store[c] : dirs'[pd.dir] = dirs[pd.dir]
    BY <1>1, <1>3, OtherDirs
  <2> QED
    BY <1>1, <1>2, <2>1 DEF IInv, RecordInv
<1> QED
  BY <1>4, <1>5, <1>6, <1>7, <1>8 DEF IInv

(* RolledBack preserves the inductive invariant.                           *)
LEMMA RolledBackStep ==
  ASSUME IInv, RolledBack
  PROVE  IInv'
BY AbortFrame, OutcomeType DEF IInv, RolledBack

-----------------------------------------------------------------------------
(* The steps of an unprepare preserve IInv.                                *)

(* UnprepareGetFails preserves the inductive invariant.                    *)
LEMMA UnprepareGetFailsStep ==
  ASSUME IInv, NEW c \in Claim, UnprepareGetFails(c)
  PROVE  IInv'
BY AbortFrame, OutcomeType DEF IInv, UnprepareGetFails

(* UnprepareUnknown preserves the inductive invariant.                     *)
LEMMA UnprepareUnknownStep ==
  ASSUME IInv, NEW c \in Claim, UnprepareUnknown(c)
  PROVE  IInv'
BY ContinueFrame, OutcomeType DEF IInv, UnprepareUnknown, StoreGet

(* UnprepareBegin preserves the inductive invariant.                       *)
LEMMA UnprepareBeginStep ==
  ASSUME IInv, NEW c \in Claim, UnprepareBegin(c)
  PROVE  IInv'
<1>1. /\ pc = "next" /\ op = "unprepare" /\ c \in batch
      /\ pc' = "undo" /\ cur' = c /\ undo' = store[c]
      /\ UNCHANGED <<kview, holder, store, cdi, dirs, bridges, ports, config, allocatable,
                     op, pod, batch, ok, failed, todo, devs, dev, mtu, err>>
  BY DEF UnprepareBegin, StoreGet, kubeVars, nodeVars, memoryVars, callVars
<1>2. store[c] \subseteq RecordsOf(c) /\ store[c] \subseteq DeviceRecord
  BY DEF IInv, RecordInv, TypeOK, StoreTypeOK
<1>3. TypeOK'
  <2>1. faults' \in 0 .. MaxFaults /\ leaky' \subseteq Claim
    BY OutcomeType DEF UnprepareBegin, IInv
  <2> QED
    BY <1>1, <1>2, <2>1 DEF IInv, TypeOK, StoreTypeOK, CDITypeOK,
       SocketFSTypeOK, OvsTypeOK, DeviceStateTypeOK, PC
<1>4. ControlInv'
  BY <1>1, <1>2 DEF IInv, ControlInv, PreparingAt, UndoingAt
<1>5. KubeletInv'
  BY <1>1 DEF IInv, KubeletInv
<1>6. PrepareInv'
  BY <1>1 DEF IInv, PrepareInv, PreparingAt, UndoingAt
<1>7. RecordInv'
  BY <1>1 DEF IInv, RecordInv
<1> QED
  BY <1>3, <1>4, <1>5, <1>6, <1>7 DEF IInv

(* UnprepareFailed preserves the inductive invariant.                      *)
LEMMA UnprepareFailedStep ==
  ASSUME IInv, UnprepareFailed
  PROVE  IInv'
<1>1. cur \in batch
  BY DEF IInv, ControlInv, UnprepareFailed
<1> QED
  BY <1>1, ContinueFrame, OutcomeType DEF IInv, UnprepareFailed

(* claimStore.Delete preserves the inductive invariant.                    *)
LEMMA ForgetStep ==
  ASSUME IInv, Forget
  PROVE  IInv'
<1>1. /\ pc = "undo" /\ op = "unprepare" /\ cur \in Claim /\ cur \in batch
      /\ kview[cur] = "unpreparing"
  BY UndoingFacts DEF Forget, UndoingAt, IInv, KubeletInv
<1>2. /\ UNCHANGED <<kview, holder, cdi, dirs, bridges, ports, config, allocatable, op, pod>>
      /\ cur' = NoClaim /\ todo' = {} /\ devs' = {} /\ dev' = NoDevice /\ mtu' = ZeroMTU
      /\ undo' = {} /\ err' = FALSE
  BY DEF Forget, Continue, Abort, DropWork, kubeVars, memoryVars
<1>3. \/ /\ store' = [store EXCEPT ![cur] = {}]
         /\ pc' = "next" /\ batch' = batch \ {cur} /\ ok' = ok \cup {cur} /\ failed' = failed
      \/ UNCHANGED <<store, batch, ok>> /\ pc' = "reply" /\ failed' = TRUE
  BY DEF Forget, StoreDelete, Continue, Abort
<1>4. TypeOK'
  <2>1. faults' \in 0 .. MaxFaults /\ leaky' \subseteq Claim
    BY OutcomeType DEF Forget, IInv
  <2>2. store' \in [Claim -> SUBSET DeviceRecord]
    BY <1>3 DEF IInv, TypeOK, StoreTypeOK
  <2> QED
    BY <1>1, <1>2, <1>3, <2>1, <2>2 DEF IInv, TypeOK, StoreTypeOK, CDITypeOK,
       SocketFSTypeOK, OvsTypeOK, DeviceStateTypeOK, PC
<1>5. ControlInv'
  BY <1>1, <1>2, <1>3 DEF IInv, ControlInv, NoWork, PreparingAt, UndoingAt
<1>6. KubeletInv'
  BY <1>1, <1>2, <1>3 DEF IInv, KubeletInv
<1>7. PrepareInv'
  BY <1>1, <1>2, <1>3 DEF IInv, PrepareInv, PreparingAt, UndoingAt
<1>8. RecordInv'
  <2>1. /\ \A c \in Claim : c # cur => store'[c] = store[c]
        /\ store'[cur] \in {{}, store[cur]}
        /\ \A c \in ok' : store'[c] = {}
    BY <1>1, <1>3 DEF IInv, RecordInv, TypeOK, StoreTypeOK
  <2> QED
    BY <1>1, <1>2, <2>1 DEF IInv, RecordInv
<1> QED
  BY <1>4, <1>5, <1>6, <1>7, <1>8 DEF IInv

-----------------------------------------------------------------------------
(* The end of a call and the environment preserve IInv.                    *)

(* LoopDone preserves the inductive invariant.                             *)
LEMMA LoopDoneStep ==
  ASSUME IInv, LoopDone
  PROVE  IInv'
<1> USE DEF IInv, LoopDone, callVars, workVars
<1>1. TypeOK'
  BY SMTT(60), NodeTypeFrame DEF TypeOK, PC
<1>2. ControlInv'
  BY DEF ControlInv, NoWork, PreparingAt, UndoingAt
<1>3. KubeletInv' /\ RecordInv'
  BY DEF KubeletInv, RecordInv, kubeVars, nodeVars
<1>4. PrepareInv'
  BY DEF PrepareInv, PreparingAt, UndoingAt
<1> QED
  BY <1>1, <1>2, <1>3, <1>4

(* The answer to kubelet preserves the inductive invariant: what it calls  *)
(* prepared has a record, what it calls unprepared has none.               *)
LEMMA ReplyStep ==
  ASSUME IInv, Reply
  PROVE  IInv'
<1>1. /\ pc = "reply" /\ op \in {"prepare", "unprepare"} /\ ok \subseteq Claim
      /\ NoWork /\ NoWork' /\ pc' = "idle" /\ op' = "none" /\ pod' = NoPod
      /\ batch' = {} /\ ok' = {} /\ failed' = FALSE
      /\ UNCHANGED <<store, cdi, dirs, bridges, ports, config, allocatable>>
  BY DEF Reply, EndCall, nodeVars, memoryVars, workVars, IInv, TypeOK, ControlInv, NoWork
<1>2. ASSUME NEW c \in Claim
      PROVE  \/ kview'[c] = kview[c] /\ holder'[c] = holder[c]
             \/ /\ op = "prepare" /\ c \in ok
                /\ kview'[c] = "prepared" /\ holder'[c] = holder[c]
             \/ op = "unprepare" /\ c \in ok /\ kview'[c] = "none"
  BY <1>1 DEF Reply
<1>3. TypeOK'
  <2>1. faults' \in 0 .. MaxFaults /\ leaky' \subseteq Claim
    BY OutcomeType DEF Reply, IInv
  <2>2. kview' \in [Claim -> View] /\ holder' \in [Claim -> Pod \cup {NoPod}]
    BY DEF Reply, IInv, TypeOK, View
  <2> QED
    BY <1>1, <2>1, <2>2 DEF IInv, TypeOK, StoreTypeOK, CDITypeOK, SocketFSTypeOK, OvsTypeOK,
       DeviceStateTypeOK, PC, NoWork
<1>4. ControlInv'
  BY <1>1 DEF ControlInv, PreparingAt, UndoingAt
<1>5. KubeletInv'
  BY <1>1, <1>2 DEF IInv, KubeletInv
<1>6. PrepareInv'
  BY <1>1 DEF PrepareInv, PreparingAt, UndoingAt
<1>7. RecordInv'
  <2>1. \A c \in ok : op = "prepare" => store[c] # {} /\ kview[c] # "unpreparing"
    BY DEF IInv, RecordInv, KubeletInv
  <2>2. \A c \in ok : op = "unprepare" => store[c] = {}
    BY DEF IInv, RecordInv
  <2>3. ASSUME NEW c \in Claim
        PROVE  /\ kview'[c] = "none" => store[c] = {}
               /\ kview'[c] = "prepared" => store[c] # {}
    BY <1>2, <2>1, <2>2 DEF IInv, RecordInv
  <2>4. ASSUME NEW c \in Claim, store[c] # {}, kview'[c] # "unpreparing"
        PROVE  kview[c] # "unpreparing" /\ holder'[c] = holder[c]
    BY <1>2, <2>1, <2>2, <2>4
  <2>5. ASSUME NEW c \in Claim, store[c] # {}, kview'[c] # "unpreparing"
        PROVE  /\ store[c] = FullRecord(holder'[c], c)
               /\ cdi[c] = store[c]
               /\ \A pd \in store[c] : dirs[pd.dir] # Absent
    BY <2>4, <2>5 DEF IInv, RecordInv
  <2>6. \A c \in Claim : store[c] \subseteq RecordsOf(c)
    BY DEF IInv, RecordInv
  <2> QED
    BY <1>1, <2>3, <2>5, <2>6 DEF RecordInv
<1> QED
  BY <1>3, <1>4, <1>5, <1>6, <1>7 DEF IInv

(* ReplyLost preserves the inductive invariant.                            *)
LEMMA ReplyLostStep ==
  ASSUME IInv, ReplyLost
  PROVE  IInv'
<1>1. NoWork'
  BY DEF IInv, ControlInv, ReplyLost, workVars, NoWork
<1>2. DeviceStateTypeOK'
  BY NodeTypeFrame DEF IInv, ReplyLost
<1> QED
  BY <1>1, <1>2, EndCallFrame, OutcomeType DEF IInv, ReplyLost

(* Crash preserves the inductive invariant.                                *)
LEMMA CrashStep ==
  ASSUME IInv, Crash
  PROVE  IInv'
<1>1. faults' \in 0 .. MaxFaults
  BY SMTT(60), FaultsAssumption DEF IInv, TypeOK, Crash
<1>2. leaky' \subseteq Claim
  BY DEF IInv, TypeOK, Crash
<1>3. NoWork'
  BY DEF Crash, DropWork, NoWork
<1>4. DeviceStateTypeOK'
  BY DEF Crash, DeviceStateReset, DeviceStateTypeOK, Permissions
<1> QED
  BY <1>1, <1>2, <1>3, <1>4, EndCallFrame DEF Crash

(* A reboot of the node preserves the inductive invariant: nothing is      *)
(* recorded and nothing counts as prepared.                                *)
LEMMA RebootStep ==
  ASSUME IInv, Reboot
  PROVE  IInv'
<1>1. /\ store' = [c \in Claim |-> {}] /\ cdi' = [c \in Claim |-> {}]
      /\ pc' = "idle" /\ op' = "none" /\ pod' = NoPod /\ batch' = {} /\ ok' = {}
      /\ failed' = FALSE /\ NoWork' /\ UNCHANGED <<holder, bridges>>
  BY DEF Reboot, StoreLost, EndCall, DropWork, NoWork
<1>2. \A c \in Claim : \/ kview'[c] = kview[c] /\ kview[c] # "prepared"
                       \/ kview[c] = "prepared" /\ kview'[c] = "pending"
  BY DEF Reboot
<1>3. TypeOK'
  <2>1. faults' \in 0 .. MaxFaults /\ leaky' \subseteq Claim
    BY SMTT(60), FaultsAssumption DEF Reboot, IInv, TypeOK
  <2>2. kview' \in [Claim -> View]
    BY DEF Reboot, IInv, TypeOK, View
  <2>3. StoreTypeOK' /\ CDITypeOK' /\ SocketFSTypeOK'
    BY <1>1 DEF Reboot, StoreTypeOK, CDITypeOK, SocketFSTypeOK
  <2>4. OvsTypeOK' /\ DeviceStateTypeOK'
    BY <1>1 DEF Reboot, DropTransientPorts, DeviceStateReset, IInv, TypeOK, OvsTypeOK,
       DeviceStateTypeOK, Permissions
  <2> QED
    BY <1>1, <2>1, <2>2, <2>3, <2>4 DEF IInv, TypeOK, PC, NoWork
<1>4. ControlInv'
  BY <1>1 DEF ControlInv, PreparingAt, UndoingAt
<1>5. KubeletInv'
  BY <1>1, <1>2 DEF IInv, KubeletInv
<1>6. PrepareInv'
  BY <1>1 DEF PrepareInv, PreparingAt, UndoingAt
<1>7. RecordInv'
  BY <1>1, <1>2 DEF RecordInv
<1> QED
  BY <1>3, <1>4, <1>5, <1>6, <1>7 DEF IInv

(* OvsRestart preserves the inductive invariant.                           *)
LEMMA OvsRestartStep ==
  ASSUME IInv, OvsRestart
  PROVE  IInv'
<1>1. OvsTypeOK' /\ DeviceStateTypeOK'
  BY DEF IInv, TypeOK, OvsRestart, DropTransientPorts, OvsTypeOK, DeviceStateTypeOK, memoryVars
<1> QED
  BY <1>1, OvsAndMemoryFrame, OutcomeType DEF IInv, OvsRestart

(* BridgeRemoved preserves the inductive invariant.                        *)
LEMMA BridgeRemovedStep ==
  ASSUME IInv, NEW b \in Bridge, BridgeRemoved(b)
  PROVE  IInv'
<1>1. DeviceStateTypeOK'
  BY DEF IInv, TypeOK, BridgeRemoved, DeviceStateTypeOK, memoryVars
<1>2. ports' \in [PortName -> PortRow \cup {NoPort}]
  BY DEF IInv, TypeOK, BridgeRemoved, RemoveBridge, OvsTypeOK
<1>3. OvsTypeOK'
  BY <1>2 DEF IInv, TypeOK, BridgeRemoved, RemoveBridge, OvsTypeOK
<1> QED
  BY <1>1, <1>3, OvsAndMemoryFrame, OutcomeType DEF IInv, BridgeRemoved

(* BridgeAdded preserves the inductive invariant.                          *)
LEMMA BridgeAddedStep ==
  ASSUME IInv, NEW b \in Bridge, BridgeAdded(b)
  PROVE  IInv'
<1>1. OvsTypeOK' /\ DeviceStateTypeOK'
  BY DEF IInv, TypeOK, BridgeAdded, AddBridge, OvsTypeOK, DeviceStateTypeOK, memoryVars
<1>2. faults' \in 0 .. MaxFaults /\ leaky' \subseteq Claim
  BY DEF IInv, TypeOK, BridgeAdded
<1> QED
  BY <1>1, <1>2, OvsAndMemoryFrame DEF BridgeAdded

(* ConfigReconciled preserves the inductive invariant.                     *)
LEMMA ConfigReconciledStep ==
  ASSUME IInv, NEW spec \in Permissions, ConfigReconciled(spec)
  PROVE  IInv'
<1>1. OvsTypeOK'
  BY DEF IInv, TypeOK, ConfigReconciled, OvsTypeOK, nodeVars
<1>2. DeviceStateTypeOK'
  BY DEF IInv, TypeOK, ConfigReconciled, UpdateConfig, DeviceStateTypeOK
<1>3. faults' \in 0 .. MaxFaults /\ leaky' \subseteq Claim
  BY DEF IInv, TypeOK, ConfigReconciled
<1> QED
  BY <1>1, <1>2, <1>3, OvsAndMemoryFrame DEF ConfigReconciled, nodeVars

(* PolicyReconciled preserves the inductive invariant.                     *)
LEMMA PolicyReconciledStep ==
  ASSUME IInv, NEW mtus \in [Bridge -> MTU \cup {ZeroMTU}], PolicyReconciled(mtus)
  PROVE  IInv'
<1>1. OvsTypeOK'
  BY DEF IInv, TypeOK, PolicyReconciled, OvsTypeOK, nodeVars
<1>2. DeviceStateTypeOK'
  BY DEF IInv, TypeOK, PolicyReconciled, UpdatePolicyDevices, DeviceStateTypeOK
<1>3. faults' \in 0 .. MaxFaults /\ leaky' \subseteq Claim
  BY DEF IInv, TypeOK, PolicyReconciled
<1> QED
  BY <1>1, <1>2, <1>3, OvsAndMemoryFrame DEF PolicyReconciled, nodeVars

-----------------------------------------------------------------------------
(* Every step preserves IInv: one step per action of Next.                 *)
LEMMA NextStep ==
  ASSUME DistinctDirs, IInv, [Next]_vars
  PROVE  IInv'
<1>1. ASSUME UNCHANGED vars PROVE IInv'
  <2>1. UNCHANGED <<kubeVars, nodeVars, memoryVars, pc, callVars, workVars, faults, leaky>>
    BY <1>1 DEF vars
  <2>2. faults' \in 0 .. MaxFaults /\ leaky' \subseteq Claim
    BY <2>1 DEF IInv, TypeOK
  <2>3. OvsTypeOK' /\ DeviceStateTypeOK'
    BY <2>1, NodeTypeFrame DEF IInv
  <2> QED
    BY <2>1, <2>2, <2>3, OvsAndMemoryFrame DEF nodeVars
<1>2. ASSUME Kubelet PROVE IInv'
  BY <1>2, PrepareResourceClaimsStep, UnprepareResourceClaimsStep DEF Kubelet
<1>3. ASSUME PrepareStep PROVE IInv'
  BY <1>3, PrepareGetFailsStep, PrepareCachedStep, PrepareBeginStep,
     CheckConfigStep, MakeSocketDirStep, MakePortStep, RemoveFailedDirStep, NoResultsStep,
     WriteSpecStep, CheckpointStep, UpdateStatusStep DEF PrepareStep
<1>4. ASSUME UndoStep PROVE IInv'
  BY <1>4, UndoSpecStep, UndoPortStep, UndoDirStep, RolledBackStep DEF UndoStep
<1>5. ASSUME UnprepareStep PROVE IInv'
  BY <1>5, UnprepareGetFailsStep, UnprepareUnknownStep, UnprepareBeginStep,
     UnprepareFailedStep, ForgetStep DEF UnprepareStep
<1>6. ASSUME LoopDone \/ Reply \/ ReplyLost PROVE IInv'
  BY <1>6, LoopDoneStep, ReplyStep, ReplyLostStep
<1>7. ASSUME Environment PROVE IInv'
  BY <1>7, CrashStep, RebootStep, OvsRestartStep, BridgeRemovedStep, BridgeAddedStep,
     ConfigReconciledStep, PolicyReconciledStep DEF Environment, Surroundings
<1> QED
  BY <1>1, <1>2, <1>3, <1>4, <1>5, <1>6, <1>7 DEF Next, Handler

(* The initial state satisfies IInv.                                       *)
LEMMA InitIInv == Init => IInv
<1> SUFFICES ASSUME Init PROVE IInv
  OBVIOUS
<1> USE DEF Init, StoreInit, CDIInit, SocketFSInit, OvsInit, DeviceStateInit, NoCall, NoWork
<1>1. TypeOK
  <2>1. StoreTypeOK /\ CDITypeOK /\ SocketFSTypeOK
    BY DEF StoreTypeOK, CDITypeOK, SocketFSTypeOK
  <2>2. OvsTypeOK /\ DeviceStateTypeOK
    BY DEF OvsTypeOK, DeviceStateTypeOK, Permissions
  <2>3. faults \in 0 .. MaxFaults
    BY SMTT(60), FaultsAssumption
  <2> QED
    BY <2>1, <2>2, <2>3 DEF TypeOK, View, PC
<1>2. ControlInv /\ KubeletInv /\ PrepareInv /\ RecordInv
  BY DEF ControlInv, KubeletInv, PrepareInv, RecordInv, PreparingAt, UndoingAt
<1> QED
  BY <1>1, <1>2 DEF IInv

-----------------------------------------------------------------------------
(* IInv holds in every state the handlers, kubelet, OVS, the reconcilers   *)
(* and crashes can reach, when no two claims share a socket directory.     *)
THEOREM InductiveInvariant ==
  ASSUME DistinctDirs
  PROVE  Spec => []IInv
<1>1. Init => IInv
  BY InitIInv
<1>2. IInv /\ [Next]_vars => IInv'
  BY NextStep
<1> QED
  BY <1>1, <1>2, PTL DEF Spec

(* The handler's locals, the store, the CDI specs, the directories and the *)
(* ports always have their types; in particular a record or an allocation  *)
(* result is at hand wherever a step looks into one.                       *)
THEOREM TypeCorrect ==
  ASSUME DistinctDirs
  PROVE  Spec => []TypeOK
<1>1. IInv => TypeOK
  BY DEF IInv
<1> QED
  BY <1>1, InductiveInvariant, PTL

(* PrepareResourceClaims never tells kubelet a claim is prepared that is   *)
(* not: whatever fails, is retried, lost or restarted in between, the      *)
(* claim's record is in the store and complete, its CDI spec lists the     *)
(* recorded devices and their socket directories exist, until kubelet      *)
(* starts to unprepare the claim.                                          *)
THEOREM PreparedClaimsAreBacked ==
  ASSUME DistinctDirs
  PROVE  Spec => []PreparedIsBacked
<1>1. IInv => PreparedIsBacked
  BY DEF IInv, RecordInv, PreparedIsBacked, FullRecord
<1> QED
  BY <1>1, InductiveInvariant, PTL

-----------------------------------------------------------------------------
(* Every step of a handler brings the end of its call nearer.              *)

(* The claim in hand is done.                                              *)
LEMMA ClaimDone ==
  ASSUME NEW c \in batch, batch' = batch \ {c}
  PROVE  Nearer
BY DEF Nearer

(* The handler goes on to a kind of work that comes after this one.        *)
LEMMA LessWork ==
  ASSUME batch' = batch,
         \/ pc = "next" /\ pc' \in {"check", "undo", "reply"}
         \/ pc \in {"check", "mkdir", "port"} /\ pc' \in {"rmdir", "set", "undo", "reply"}
         \/ pc \in {"rmdir", "set"} /\ pc' \in {"status", "undo"}
         \/ pc = "undo" /\ pc' = "reply"
  PROVE  Nearer
<1>1. WorkLeft[pc'] < WorkLeft[pc]
  BY SMTT(60) DEF WorkLeft
<1> QED
  BY <1>1 DEF Nearer

(* The work is of the same kind, for fewer devices.                        *)
LEMMA FewerDevices ==
  ASSUME batch' = batch,
         \/ /\ pc = "check" /\ pc' = "mkdir" /\ undo' = undo
            /\ \E r \in todo : todo' = todo \ {r}
         \/ /\ pc = "undoDir" /\ pc' = "undo" /\ todo' = todo
            /\ \E pd \in undo : undo' = undo \ {pd}
  PROVE  Nearer
<1>1. WorkLeft[pc'] = WorkLeft[pc]
  BY SMTT(60) DEF WorkLeft
<1>2. /\ todo' \subseteq todo /\ undo' \subseteq undo
      /\ todo' # todo \/ undo' # undo
  OBVIOUS
<1>3. <<todo', undo'>> # <<todo, undo>>
  BY SMTT(60), <1>2
<1> QED
  BY <1>1, <1>2, <1>3 DEF Nearer

(* The next step for the same device.                                      *)
LEMMA FewerSteps ==
  ASSUME UNCHANGED <<batch, todo, undo>>,
         \/ pc = "mkdir" /\ pc' = "port"
         \/ pc = "port" /\ pc' = "check"
         \/ pc = "undo" /\ pc' = "undoPort"
         \/ pc = "undoPort" /\ pc' = "undoDir"
  PROVE  Nearer
<1>1. WorkLeft[pc'] = WorkLeft[pc] /\ StepsLeft[pc'] < StepsLeft[pc]
  BY SMTT(60) DEF WorkLeft, StepsLeft
<1> QED
  BY <1>1 DEF Nearer

LEMMA HandlerStepsAdvance ==
  ASSUME IInv, Handler
  PROVE  pc' = "idle" \/ Nearer
<1>1. CASE PrepareStep
  <2>1. ASSUME NEW c \in Claim,
               PrepareGetFails(c) \/ PrepareCached(c) \/ PrepareRefused(c) \/ PrepareBegin(c)
        PROVE  Nearer
    BY <2>1, ClaimDone, LessWork DEF PrepareGetFails, PrepareCached, PrepareRefused,
       PrepareBegin, Abort, Continue, callVars
  <2>2. ASSUME NEW r \in todo, CheckConfig(r)
        PROVE  Nearer
    BY <2>2, LessWork, FewerDevices DEF CheckConfig, Rollback, callVars
  <2>3. CASE MakeSocketDir
    BY <2>3, LessWork, FewerSteps DEF MakeSocketDir, Rollback, callVars
  <2>4. CASE MakePort
    BY <2>4, LessWork, FewerSteps DEF MakePort, callVars
  <2>5. CASE RemoveFailedDir \/ NoResults \/ WriteSpec \/ Checkpoint
    BY <2>5, LessWork DEF RemoveFailedDir, NoResults, WriteSpec, Checkpoint, Rollback, Abort,
       callVars
  <2>6. CASE UpdateStatus
    BY <2>6, ClaimDone DEF UpdateStatus, Continue, IInv, ControlInv
  <2> QED
    BY <1>1, <2>1, <2>2, <2>3, <2>4, <2>5, <2>6 DEF PrepareStep
<1>2. CASE UndoStep
  <2>1. ASSUME NEW pd \in undo, UndoSpec(pd)
        PROVE  Nearer
    BY <2>1, FewerSteps DEF UndoSpec, callVars
  <2>2. CASE UndoPort
    BY <2>2, FewerSteps DEF UndoPort, callVars
  <2>3. CASE UndoDir
    BY <2>3, FewerDevices DEF UndoDir, callVars, IInv, ControlInv
  <2>4. CASE RolledBack
    BY <2>4, LessWork DEF RolledBack, Abort
  <2> QED
    BY <1>2, <2>1, <2>2, <2>3, <2>4 DEF UndoStep
<1>3. CASE UnprepareStep
  <2>1. ASSUME NEW c \in Claim,
               UnprepareGetFails(c) \/ UnprepareUnknown(c) \/ UnprepareBegin(c)
        PROVE  Nearer
    BY <2>1, ClaimDone, LessWork DEF UnprepareGetFails, UnprepareUnknown, UnprepareBegin,
       Abort, Continue, callVars
  <2>2. CASE UnprepareFailed \/ Forget
    BY <2>2, ClaimDone, LessWork DEF UnprepareFailed, Forget, Abort, Continue, IInv, ControlInv
  <2> QED
    BY <1>3, <2>1, <2>2 DEF UnprepareStep
<1>4. CASE LoopDone
  BY <1>4, LessWork DEF LoopDone, callVars
<1>5. CASE Reply \/ ReplyLost
  BY <1>5 DEF Reply, ReplyLost, EndCall
<1> QED
  BY <1>1, <1>2, <1>3, <1>4, <1>5 DEF Handler

(* HandlerAdvances for every instance: what a call has left to do gets     *)
(* less with each of its steps, in an order that has no infinite descent   *)
(* when the claims and their devices are finitely many.                    *)
THEOREM HandlersAdvance ==
  ASSUME DistinctDirs
  PROVE  Spec => HandlerAdvances
<1>1. IInv => [Handler => pc' = "idle" \/ Nearer]_vars
  BY HandlerStepsAdvance
<1> QED
  BY <1>1, InductiveInvariant, PTL DEF Spec, HandlerAdvances
=============================================================================
