--------------------------- MODULE ResourceProofs ---------------------------
(***************************************************************************)
(* What the driver makes on the node it knows of, for any claims, pods,    *)
(* allocations and configurations and any number of failures: the          *)
(* invariant of DriverResources holds, and with it LeaksAreExplained,      *)
(* RecordOutlivesResources and ClaimsAreIsolated.  A prepare that finds    *)
(* something in its way has a cause other than what was left before, and   *)
(* the directories of a prepared claim have the configured permissions.    *)
(***************************************************************************)
EXTENDS DriverProofs, DriverResources

(* First-order leaves go to Zenon; a leaf for the SMT solver says SMTT.    *)
USE ZenonT(60), SMTT(60)

(* The step keeps everything of claim c but ports that it may delete.      *)
Spared(c) ==
  /\ store'[c] = store[c]
  /\ cdi'[c] = cdi[c]
  /\ \A p \in Users[c], q \in Request :
       dirs'[getSocketDir(p, c, q)] = dirs[getSocketDir(p, c, q)]

(* The step makes no port but for claim k.                                 *)
PortsOnlyFor(k) ==
  \A n \in PortName : ports'[n] \in {NoPort, ports[n]} \/ ports'[n].claim = k

-----------------------------------------------------------------------------
(* Facts several steps need.                                               *)

(* A change of a directory of claim k leaves those of other claims alone.  *)
LEMMA OtherClaimsDirs ==
  ASSUME DistinctDirs, IInv, NEW k \in Claim, NEW pk \in Users[k], NEW qk, NEW v,
         dirs' = [dirs EXCEPT ![getSocketDir(pk, k, qk)] = v],
         NEW c \in Claim, c # k, NEW p \in Users[c], NEW q \in Request
  PROVE  dirs'[getSocketDir(p, c, q)] = dirs[getSocketDir(p, c, q)]
<1>1. getSocketDir(p, c, q) # getSocketDir(pk, k, qk)
  BY DirOwner
<1>2. getSocketDir(p, c, q) \in Dir
  BY DirType, AllocationAssumption
<1> QED
  BY <1>1, <1>2 DEF IInv, TypeOK, SocketFSTypeOK

(* What a record of a claim names belongs to the claim.                    *)
LEMMA RecordOwn ==
  ASSUME NEW c \in Claim, NEW pd \in RecordsOf(c)
  PROVE  /\ \E p \in Users[c], q \in Request : pd.dir = getSocketDir(p, c, q)
         /\ \E q \in Request : pd.port = ovsPortName(c, q)
         /\ pd.dir \in Dir /\ pd.port \in PortName
<1>1. PICK p \in Users[c], r \in OwnResults(c) : pd = preparedDevice(p, c, r)
  BY SMTT(60) DEF RecordsOf
<1>2. r.request \in Request
  BY OwnResultType
<1>3. pd.dir = getSocketDir(p, c, r.request) /\ pd.port = ovsPortName(c, r.request)
  BY SMTT(60), <1>1, RecordFields
<1> QED
  BY <1>2, <1>3, DirType, PortNameType, AllocationAssumption

(* A claim the handler does not work on stays accounted for.               *)
LEMMA OtherAccounted ==
  ASSUME NEW c \in Claim, c # cur, c # cur', Spared(c),
         NEW k, k # c, PortsOnlyFor(k), Accounted(c)
  PROVE  Accounted(c)'
<1>1. AccountedAtRest(c)'
  <2> SUFFICES ASSUME store'[c] = {}
               PROVE  cdi'[c] = {} /\ DirsAmong(c, {})' /\ PortsAmong(c, {})'
    BY DEF AccountedAtRest
  <2>1. cdi[c] = {} /\ DirsAmong(c, {}) /\ PortsAmong(c, {})
    BY DEF Accounted, AccountedAtRest, Spared
  <2>2. DirsAmong(c, {})'
    BY <2>1 DEF DirsAmong, Spared
  <2>3. PortsAmong(c, {})'
    BY <2>1 DEF PortsAmong, PortsOnlyFor
  <2> QED
    BY <2>1, <2>2, <2>3 DEF Spared
<1>2. AccountedRecorded(c)'
  <2>1. store[c] # {} => DirsAmong(c, store[c])
    BY DEF Accounted, AccountedRecorded
  <2> QED
    BY <2>1 DEF AccountedRecorded, DirsAmong, Spared
<1> QED
  BY <1>1, <1>2 DEF Accounted, AccountedPreparing, AccountedRollingBack

(* A step for claim k preserves ResourceInv if it does so for claim k.     *)
LEMMA WorkFrame ==
  ASSUME ResourceInv, NEW k \in Claim, cur \in {k, NoClaim}, cur' \in {k, NoClaim},
         \A c \in Claim \ {k} : Spared(c),
         PortsOnlyFor(k),
         leaky \subseteq leaky',
         PortsAmong(k, RecordsOf(k))',
         store'[k] # {} => \E p \in Users[k] : store'[k] = FullRecord(p, k),
         UndoneInv',
         k \notin leaky' => Accounted(k)'
  PROVE  ResourceInv'
<1>1. OwnInv'
  <2> SUFFICES ASSUME NEW c \in Claim, c # k
               PROVE  /\ PortsAmong(c, RecordsOf(c))'
                      /\ store'[c] # {} => \E p \in Users[c] : store'[c] = FullRecord(p, c)
    BY DEF OwnInv
  <2>1. PortsAmong(c, RecordsOf(c)) /\ store'[c] = store[c]
    BY DEF ResourceInv, OwnInv, Spared
  <2>2. PortsAmong(c, RecordsOf(c))'
    BY SMTT(60), <2>1 DEF PortsAmong, PortsOnlyFor
  <2> QED
    BY <2>1, <2>2 DEF ResourceInv, OwnInv
<1>2. ASSUME NEW c \in Claim, c \notin leaky', c # k
      PROVE  Accounted(c)'
  <2>1. c # cur /\ c # cur'
    BY SMTT(60), <1>2, NullAssumption
  <2>2. Accounted(c)
    BY <1>2 DEF ResourceInv
  <2> QED
    BY <1>2, <2>1, <2>2, OtherAccounted
<1> QED
  BY <1>1, <1>2 DEF ResourceInv

(* The handler lets go of its claim, or has none: ResourceInv is preserved *)
(* if a claim it lets go of without a record has nothing.                  *)
LEMMA EndFrame ==
  ASSUME ResourceInv, cur' = NoClaim, pc' \notin UndoingAt,
         UNCHANGED <<store, cdi, dirs, ports>>, leaky \subseteq leaky',
         cur \in Claim \ leaky' /\ store[cur] = {} =>
           cdi[cur] = {} /\ DirsAmong(cur, {}) /\ PortsAmong(cur, {})
  PROVE  ResourceInv'
<1>1. OwnInv'
  BY SMTT(60) DEF ResourceInv, OwnInv, PortsAmong
<1>2. UndoneInv'
  BY DEF UndoneInv
<1>3. ASSUME NEW c \in Claim, c \notin leaky'
      PROVE  Accounted(c)'
  <2>1. Accounted(c) /\ c # cur'
    BY <1>3, NullAssumption DEF ResourceInv
  <2>2. store[c] = {} => cdi[c] = {} /\ DirsAmong(c, {}) /\ PortsAmong(c, {})
    BY <1>3, <2>1 DEF Accounted, AccountedAtRest
  <2>3. AccountedAtRest(c)'
    BY <2>2 DEF AccountedAtRest, DirsAmong, PortsAmong
  <2>4. AccountedRecorded(c)'
    BY <2>1 DEF Accounted, AccountedRecorded, DirsAmong
  <2> QED
    BY <2>1, <2>3, <2>4 DEF Accounted, AccountedPreparing, AccountedRollingBack
<1> QED
  BY <1>1, <1>2, <1>3 DEF ResourceInv

(* Ports that disappear under the handler's feet leave ResourceInv alone.  *)
LEMMA OvsFrame ==
  ASSUME IInv, ResourceInv, NoNewPorts, leaky \subseteq leaky',
         UNCHANGED <<store, cdi, dirs, pc, op, pod, cur, devs, dev, undo, err>>
  PROVE  ResourceInv'
<1>1. OwnInv'
  BY SMTT(60) DEF ResourceInv, OwnInv, PortsAmong, NoNewPorts
<1>2. UndoneInv'
  <2> SUFFICES ASSUME op = "unprepare", pc \in UndoingAt
               PROVE  UndoneInv'
    BY DEF UndoneInv
  <2>1. /\ cur \in Claim /\ undo \subseteq store[cur] /\ store[cur] # {}
        /\ store[cur] \subseteq RecordsOf(cur)
    BY UndoingFacts DEF ResourceInv, UndoneInv, IInv, RecordInv
  <2>2. \A pd \in store[cur] : pd.port \in PortName
    BY <2>1, RecordOwn
  <2>3. \A pd \in store[cur] : PortGone(cur, pd) =>
          ~ (ports'[pd.port] # NoPort /\ ports'[pd.port].claim = cur
             /\ ports'[pd.port].bridge = pd.bridge)
    BY <2>2 DEF PortGone, NoNewPorts
  <2>4. pc = "undoDir" => dev \in store[cur]
    BY <2>1 DEF IInv, ControlInv
  <2> QED
    BY <2>1, <2>3, <2>4 DEF ResourceInv, UndoneInv, PortGone
<1>3. ASSUME NEW c \in Claim, c \notin leaky'
      PROVE  Accounted(c)'
  <2>1. Accounted(c)
    BY <1>3 DEF ResourceInv
  <2>2. AccountedAtRest(c)'
    BY <2>1 DEF Accounted, AccountedAtRest, DirsAmong, PortsAmong, NoNewPorts
  <2>3. AccountedPreparing(c)'
    BY SMTT(60), <2>1 DEF Accounted, AccountedPreparing, DirsAmong, PortsAmong, NoNewPorts, InHand
  <2>4. AccountedRollingBack(c)'
    BY SMTT(60), <2>1 DEF Accounted, AccountedRollingBack, DirsAmong, PortsAmong, NoNewPorts
  <2>5. AccountedRecorded(c)'
    BY <2>1 DEF Accounted, AccountedRecorded, DirsAmong
  <2> QED
    BY <2>2, <2>3, <2>4, <2>5 DEF Accounted
<1> QED
  BY <1>1, <1>2, <1>3 DEF ResourceInv

-----------------------------------------------------------------------------
(* The steps of a prepare preserve ResourceInv.                            *)

(* PrepareBegin finds nothing of a claim that is accounted for.            *)
LEMMA PrepareBeginResources ==
  ASSUME IInv, ResourceInv, NEW c \in Claim, PrepareBegin(c)
  PROVE  ResourceInv'
<1>1. /\ pc = "next" /\ op = "prepare" /\ store[c] = {} /\ cur = NoClaim /\ devs = {}
      /\ pc' = "check" /\ cur' = c
      /\ UNCHANGED <<store, cdi, dirs, ports, op, devs, leaky>>
  BY DEF PrepareBegin, StoreGet, Succeeds, nodeVars, callVars, IInv, ControlInv, NoWork
<1>2. UndoneInv'
  BY <1>1 DEF UndoneInv
<1>3. PortsAmong(c, RecordsOf(c))'
  BY SMTT(60), <1>1 DEF ResourceInv, OwnInv, PortsAmong
<1>4. ASSUME c \notin leaky'
      PROVE  Accounted(c)'
  <2>1. cdi[c] = {} /\ DirsAmong(c, {}) /\ PortsAmong(c, {})
    BY <1>1, <1>4, NullAssumption DEF ResourceInv, Accounted, AccountedAtRest
  <2>2. AccountedPreparing(c)'
    BY <1>1, <2>1 DEF AccountedPreparing, DirsAmong, PortsAmong, InHand
  <2> QED
    BY <1>1, <2>2 DEF Accounted, AccountedAtRest, AccountedRollingBack, AccountedRecorded,
       UndoingAt
<1>5. (\A d \in Claim \ {c} : Spared(d)) /\ PortsOnlyFor(c)
  BY <1>1 DEF Spared, PortsOnlyFor
<1> QED
  BY <1>1, <1>2, <1>3, <1>4, <1>5, WorkFrame

(* What holds while cur is prepared.                                       *)
LEMMA PreparingFacts ==
  ASSUME IInv, ResourceInv, pc \in PreparingAt
  PROVE  /\ cur \in Claim /\ op = "prepare" /\ pod \in Users[cur]
         /\ devs \subseteq RecordsOf(cur) /\ store[cur] = {}
         /\ PortsAmong(cur, RecordsOf(cur))
         /\ cur \notin leaky =>
              /\ pc # "set" => cdi[cur] = {}
              /\ DirsAmong(cur, devs \cup InHand)
              /\ PortsAmong(cur, devs)
<1>1. /\ cur \in Claim /\ pod \in Users[cur] /\ devs \subseteq RecordsOf(cur)
      /\ store[cur] = {}
  BY DevsAreRecords
<1>2. op = "prepare"
  BY DEF IInv, ControlInv
<1>3. PortsAmong(cur, RecordsOf(cur))
  BY <1>1 DEF ResourceInv, OwnInv
<1>4. cur \notin leaky => AccountedPreparing(cur)
  BY <1>1 DEF ResourceInv, Accounted
<1> QED
  BY <1>1, <1>2, <1>3, <1>4 DEF AccountedPreparing

(* A rollback begins: undo takes over from devs.                           *)
LEMMA RollbackFrame ==
  ASSUME IInv, ResourceInv, pc \in PreparingAt, Rollback,
         UNCHANGED <<store, cdi, ports>>, leaky \subseteq leaky',
         \A c \in Claim \ {cur} : Spared(c),
         cur \notin leaky' =>
           \A p \in Users[cur], q \in Request :
             dirs'[getSocketDir(p, cur, q)] # Absent =>
               \E pd \in devs : pd.dir = getSocketDir(p, cur, q)
  PROVE  ResourceInv'
<1>1. PICK k \in Claim : k = cur
  BY PreparingFacts
<1>2. /\ op' = "prepare" /\ pc' = "undo" /\ undo' = devs /\ cur' = k /\ store'[k] = {}
      /\ UNCHANGED <<store, cdi, ports>>
  BY <1>1, PreparingFacts DEF Rollback, callVars
<1>3. UndoneInv'
  BY <1>2 DEF UndoneInv
<1>4. PortsAmong(k, RecordsOf(k))'
  BY SMTT(60), <1>1, <1>2, PreparingFacts DEF PortsAmong
<1>5. ASSUME k \notin leaky'
      PROVE  Accounted(k)'
  <2>1. cdi[k] # {} => devs # {}
    BY <1>1, <1>5, PreparingFacts DEF IInv, PrepareInv
  <2>2. PortsAmong(k, devs)
    BY <1>1, <1>5, PreparingFacts
  <2>3. PortsAmong(k, undo)'
    BY SMTT(60), <1>2, <2>2 DEF PortsAmong
  <2>4. DirsAmong(k, undo)'
    BY <1>1, <1>2, <1>5 DEF DirsAmong
  <2>5. AccountedRollingBack(k)'
    BY <1>2, <2>1, <2>3, <2>4 DEF AccountedRollingBack
  <2> QED
    BY <1>2, <2>5 DEF Accounted, AccountedAtRest, AccountedPreparing, AccountedRecorded,
       PreparingAt
<1>6. PortsOnlyFor(k)
  BY <1>2 DEF PortsOnlyFor
<1> QED
  BY <1>1, <1>2, <1>3, <1>4, <1>5, <1>6, WorkFrame

(* The preparation goes on: devs says what there is after the step.        *)
LEMMA PreparingFrame ==
  ASSUME ResourceInv, NEW k \in Claim, cur = k, cur' = k, op' = "prepare",
         pc' \in PreparingAt, store'[k] = {},
         \A c \in Claim \ {k} : Spared(c), PortsOnlyFor(k), leaky \subseteq leaky',
         PortsAmong(k, RecordsOf(k))',
         k \notin leaky' => /\ pc' # "set" => cdi'[k] = {}
                            /\ DirsAmong(k, devs \cup InHand)'
                            /\ PortsAmong(k, devs)'
  PROVE  ResourceInv'
<1>1. UndoneInv'
  BY DEF UndoneInv
<1>2. ASSUME k \notin leaky'
      PROVE  Accounted(k)'
  BY <1>2 DEF Accounted, AccountedAtRest, AccountedPreparing, AccountedRollingBack,
     AccountedRecorded, PreparingAt, UndoingAt
<1> QED
  BY <1>1, <1>2, WorkFrame

(* CheckConfig: the directory of the next device is not in hand yet.       *)
LEMMA CheckConfigResources ==
  ASSUME IInv, ResourceInv, NEW r \in todo, CheckConfig(r)
  PROVE  ResourceInv'
<1>1. PICK k \in Claim : k = cur
  BY PreparingFacts DEF CheckConfig, PreparingAt
<1>2. /\ pc = "check" /\ pc \in PreparingAt
      /\ UNCHANGED <<store, cdi, dirs, ports, leaky>>
  BY DEF CheckConfig, Succeeds, nodeVars, PreparingAt
<1>3. \A c \in Claim : Spared(c)
  BY <1>2 DEF Spared
<1>4. CASE Rollback
  <2>1. cur \notin leaky => DirsAmong(cur, devs)
    BY <1>2, PreparingFacts DEF InHand
  <2> QED
    BY <1>2, <1>3, <1>4, <2>1, RollbackFrame DEF DirsAmong
<1>5. CASE /\ pc' = "mkdir" /\ dev' = r
           /\ UNCHANGED <<callVars, cur, devs, mtu, undo, err>>
  <2>1. /\ op' = "prepare" /\ pc' = "mkdir" /\ cur' = k /\ devs' = devs /\ store'[k] = {}
        /\ InHand = {} /\ InHand' = {}
    BY <1>1, <1>2, <1>5, PreparingFacts DEF callVars, InHand
  <2>2. PortsAmong(k, RecordsOf(k))'
    BY <1>1, <1>2, PreparingFacts DEF PortsAmong
  <2>3. ASSUME k \notin leaky'
        PROVE  cdi'[k] = {} /\ DirsAmong(k, devs \cup InHand)' /\ PortsAmong(k, devs)'
    <3>1. cdi[k] = {} /\ DirsAmong(k, devs) /\ PortsAmong(k, devs)
      BY <1>1, <1>2, <2>1, <2>3, PreparingFacts
    <3> QED
      BY <1>2, <2>1, <3>1 DEF DirsAmong, PortsAmong
  <2>4. PortsOnlyFor(k)
    BY <1>2 DEF PortsOnlyFor
  <2> QED
    BY <1>1, <1>2, <1>3, <2>1, <2>2, <2>3, <2>4, PreparingFrame DEF PreparingAt
<1> QED
  BY <1>4, <1>5 DEF CheckConfig

(* CreateSocketDir: the directory is that of the device in hand, or gone   *)
(* again, or the claim is leaky.                                           *)
LEMMA MakeSocketDirResources ==
  ASSUME DistinctDirs, IInv, ResourceInv, MakeSocketDir
  PROVE  ResourceInv'
<1> DEFINE d == getSocketDir(pod, cur, dev.request)
<1>1. PICK k \in Claim : k = cur
  BY PreparingFacts DEF MakeSocketDir, PreparingAt
<1>2. pc = "mkdir" /\ pc \in PreparingAt /\ UNCHANGED <<store, cdi, ports>>
  BY DEF MakeSocketDir, PreparingAt
<1>3. dev \in OwnResults(k) /\ dev.request \in Request /\ pod \in Users[k] /\ d \in Dir
  BY <1>1, <1>2, PreparingFacts, OwnResultType, DirType, AllocationAssumption
  DEF IInv, ControlInv
<1>4. UNCHANGED dirs \/ \E v : dirs' = [dirs EXCEPT ![d] = v]
  BY DEF MakeSocketDir, CreateSocketDir, MkdirFails, PermissionsFail, PermissionsFailAndStay
<1>5. \A c \in Claim \ {k} : Spared(c)
  BY SMTT(60), <1>1, <1>2, <1>3, <1>4, OtherClaimsDirs DEF Spared
<1>6. k \notin leaky => cdi[k] = {} /\ DirsAmong(k, devs) /\ PortsAmong(k, devs)
  BY <1>1, <1>2, PreparingFacts DEF InHand
<1>7. CASE /\ CreateSocketDir(d, config) /\ Succeeds /\ pc' = "port"
           /\ UNCHANGED <<callVars, cur, todo, devs, dev, undo, err>>
  <2>1. /\ op' = "prepare" /\ cur' = k /\ devs' = devs /\ store'[k] = {} /\ leaky' = leaky
        /\ InHand' = {preparedDevice(pod, k, dev)}
    BY <1>1, <1>2, <1>7, PreparingFacts DEF callVars, InHand, Succeeds
  <2>2. preparedDevice(pod, k, dev).dir = d
    BY SMTT(60), <1>1, RecordFields
  <2>3. \A e \in Dir : e # d => dirs'[e] = dirs[e]
    BY <1>7 DEF CreateSocketDir, IInv, TypeOK, SocketFSTypeOK
  <2>4. \A p \in Users[k], q \in Request : getSocketDir(p, k, q) \in Dir
    BY DirType, AllocationAssumption
  <2>5. PortsAmong(k, RecordsOf(k))'
    BY <1>1, <1>2, PreparingFacts DEF PortsAmong
  <2>6. ASSUME k \notin leaky'
        PROVE  cdi'[k] = {} /\ DirsAmong(k, devs \cup InHand)' /\ PortsAmong(k, devs)'
    <3>1. DirsAmong(k, devs \cup InHand)'
      BY <1>6, <2>1, <2>2, <2>3, <2>4, <2>6 DEF DirsAmong
    <3> QED
      BY <1>2, <1>6, <2>1, <2>6, <3>1 DEF PortsAmong
  <2>7. PortsOnlyFor(k)
    BY <1>2 DEF PortsOnlyFor
  <2> QED
    BY <1>1, <1>5, <1>7, <2>1, <2>5, <2>6, <2>7, PreparingFrame DEF PreparingAt
<1>8. CASE (MkdirFails(d) \/ PermissionsFail(d)) /\ Fails /\ Rollback
  <2>1. \A e \in Dir : dirs'[e] # Absent => dirs[e] # Absent
    BY <1>3, <1>8 DEF MkdirFails, PermissionsFail, IInv, TypeOK, SocketFSTypeOK
  <2>2. \A p \in Users[k], q \in Request : getSocketDir(p, k, q) \in Dir
    BY DirType, AllocationAssumption
  <2>3. leaky' = leaky
    BY <1>8 DEF Fails
  <2> QED
    BY <1>1, <1>2, <1>5, <1>6, <1>8, <2>1, <2>2, <2>3, RollbackFrame DEF DirsAmong
<1>9. CASE FailsLeaking /\ Rollback
  BY <1>1, <1>2, <1>5, <1>9, RollbackFrame DEF FailsLeaking
<1> QED
  BY <1>7, <1>8, <1>9 DEF MakeSocketDir

(* CreatePort: the port is that of the new record, or the claim is leaky.  *)
LEMMA MakePortResources ==
  ASSUME IInv, ResourceInv, MakePort
  PROVE  ResourceInv'
<1> DEFINE pd == preparedDevice(pod, cur, dev)
<1>1. PICK k \in Claim : k = cur
  BY PreparingFacts DEF MakePort, PreparingAt
<1>2. /\ pc = "port" /\ pc \in PreparingAt /\ UNCHANGED <<store, cdi, dirs>>
      /\ op' = op /\ pod' = pod
  BY DEF MakePort, PreparingAt, callVars
<1>3. /\ dev \in OwnResults(k) /\ dev.request \in Request /\ pod \in Users[k]
      /\ pd \in RecordsOf(k) /\ pd.port = ovsPortName(k, dev.request) /\ pd.bridge = dev.device
  BY SMTT(60), <1>1, <1>2, PreparingFacts, OwnResultType, RecordFields DEF IInv, ControlInv, RecordsOf
<1>4. cur' = k /\ op' = "prepare" /\ store'[k] = {} /\ pc' \in {"check", "rmdir"}
  BY <1>1, <1>2, PreparingFacts DEF MakePort, workVars
<1>5. \A n \in PortName :
        \/ ports'[n] = ports[n]
        \/ n = pd.port /\ ports'[n].claim = k /\ ports'[n].bridge = pd.bridge
  BY SMTT(60), <1>1, <1>3 DEF MakePort, CreatePort, IInv, TypeOK, OvsTypeOK
<1>6. PortsAmong(k, RecordsOf(k))'
  BY SMTT(60), <1>1, <1>2, <1>3, <1>5, PreparingFacts DEF PortsAmong
<1>7. (\A c \in Claim \ {k} : Spared(c)) /\ PortsOnlyFor(k)
  BY <1>2, <1>5 DEF Spared, PortsOnlyFor
<1>8. leaky \subseteq leaky' /\ (k \notin leaky' => UNCHANGED ports \/ devs' = devs \cup {pd})
  BY <1>1 DEF MakePort, Succeeds, Fails, FailsLeaking
<1>9. (devs \cup InHand)' = devs \cup {pd}
  BY <1>1, <1>2 DEF MakePort, InHand, workVars
<1>10. devs \subseteq devs'
  BY DEF MakePort, workVars
<1>11. ASSUME k \notin leaky'
       PROVE  cdi'[k] = {} /\ DirsAmong(k, devs \cup InHand)' /\ PortsAmong(k, devs)'
  <2>1. cdi[k] = {} /\ DirsAmong(k, devs \cup {pd}) /\ PortsAmong(k, devs)
    BY <1>1, <1>2, <1>8, <1>11, PreparingFacts DEF InHand
  <2>2. DirsAmong(k, devs \cup InHand)'
    BY <1>2, <1>9, <2>1 DEF DirsAmong
  <2>3. PortsAmong(k, devs)'
    BY SMTT(60), <1>5, <1>8, <1>10, <1>11, <2>1 DEF PortsAmong
  <2> QED
    BY <1>2, <2>1, <2>2, <2>3
<1> QED
  BY <1>1, <1>4, <1>6, <1>7, <1>8, <1>11, PreparingFrame DEF PreparingAt

(* The directory of the failed device is gone, or the claim is leaky.      *)
LEMMA RemoveFailedDirResources ==
  ASSUME DistinctDirs, IInv, ResourceInv, RemoveFailedDir
  PROVE  ResourceInv'
<1> DEFINE d == getSocketDir(pod, cur, dev.request)
<1>1. PICK k \in Claim : k = cur
  BY PreparingFacts DEF RemoveFailedDir, PreparingAt
<1>2. pc = "rmdir" /\ pc \in PreparingAt /\ UNCHANGED <<store, cdi, ports>> /\ Rollback
  BY DEF RemoveFailedDir, PreparingAt
<1>3. pod \in Users[k]
  BY <1>1, <1>2, PreparingFacts
<1>4. UNCHANGED dirs \/ dirs' = [dirs EXCEPT ![d] = Absent]
  BY DEF RemoveFailedDir, RemoveSocketDir
<1>5. \A c \in Claim \ {k} : Spared(c)
  BY SMTT(60), <1>1, <1>2, <1>3, <1>4, OtherClaimsDirs DEF Spared
<1>6. leaky \subseteq leaky' /\ (k \notin leaky' => dirs' = [dirs EXCEPT ![d] = Absent])
  BY <1>1 DEF RemoveFailedDir, RemoveSocketDir, Succeeds, FailsLeaking
<1>7. ASSUME k \notin leaky', NEW p \in Users[k], NEW q \in Request,
             dirs'[getSocketDir(p, k, q)] # Absent
      PROVE  \E pd \in devs : pd.dir = getSocketDir(p, k, q)
  <2>1. getSocketDir(p, k, q) \in Dir
    BY DirType, AllocationAssumption
  <2>2. getSocketDir(p, k, q) # d /\ dirs[getSocketDir(p, k, q)] # Absent
    BY <1>6, <1>7, <2>1 DEF IInv, TypeOK, SocketFSTypeOK
  <2>3. PICK pd \in devs \cup {preparedDevice(pod, k, dev)} : pd.dir = getSocketDir(p, k, q)
    BY <1>1, <1>2, <1>6, <1>7, <2>2, PreparingFacts DEF DirsAmong, InHand
  <2>4. preparedDevice(pod, k, dev).dir = d
    BY SMTT(60), <1>1, RecordFields
  <2> QED
    BY <2>2, <2>3, <2>4
<1> QED
  BY <1>1, <1>2, <1>5, <1>6, <1>7, RollbackFrame

(* A claim without a result of this driver has nothing.                    *)
LEMMA NoResultsResources ==
  ASSUME IInv, ResourceInv, NoResults
  PROVE  ResourceInv'
<1>1. /\ pc = "check" /\ pc \in PreparingAt /\ devs = {} /\ InHand = {}
      /\ cur' = NoClaim /\ pc' \notin UndoingAt
      /\ UNCHANGED <<store, cdi, dirs, ports, leaky>>
  BY DEF NoResults, PreparingAt, UndoingAt, InHand, Abort, DropWork, Succeeds, nodeVars
<1>2. cur \notin leaky => cdi[cur] = {} /\ DirsAmong(cur, {}) /\ PortsAmong(cur, {})
  BY <1>1, PreparingFacts
<1> QED
  BY <1>1, <1>2, EndFrame

(* CreateClaimSpecFile: the record about to be committed accounts for it.  *)
LEMMA WriteSpecResources ==
  ASSUME IInv, ResourceInv, WriteSpec
  PROVE  ResourceInv'
<1>1. PICK k \in Claim : k = cur
  BY PreparingFacts DEF WriteSpec, PreparingAt
<1>2. /\ pc = "check" /\ pc \in PreparingAt /\ InHand = {} /\ leaky' = leaky
      /\ UNCHANGED <<store, dirs, ports>>
  BY DEF WriteSpec, PreparingAt, InHand, Succeeds, Fails
<1>3. k \notin leaky => DirsAmong(k, devs) /\ PortsAmong(k, devs)
  BY <1>1, <1>2, PreparingFacts
<1>4. CASE UNCHANGED cdi /\ Rollback
  <2>1. \A c \in Claim : Spared(c)
    BY <1>2, <1>4 DEF Spared
  <2> QED
    BY <1>1, <1>2, <1>3, <1>4, <2>1, RollbackFrame DEF DirsAmong
<1>5. CASE CreateClaimSpecFile(cur, devs) /\ pc' = "set" /\ UNCHANGED <<callVars, workVars>>
  <2>1. cur' = k /\ op' = "prepare" /\ store'[k] = {} /\ devs' = devs /\ InHand' = {}
    BY <1>1, <1>2, <1>5, PreparingFacts DEF callVars, workVars, InHand
  <2>2. \A c \in Claim \ {k} : Spared(c)
    BY <1>1, <1>2, <1>5 DEF Spared, CreateClaimSpecFile, IInv, TypeOK, CDITypeOK
  <2>3. PortsAmong(k, RecordsOf(k))' /\ PortsOnlyFor(k)
    BY <1>1, <1>2, PreparingFacts DEF PortsAmong, PortsOnlyFor
  <2>4. k \notin leaky' => DirsAmong(k, devs \cup InHand)' /\ PortsAmong(k, devs)'
    BY SMTT(60), <1>2, <1>3, <2>1 DEF DirsAmong, PortsAmong
  <2> QED
    BY <1>1, <1>2, <1>5, <2>1, <2>2, <2>3, <2>4, PreparingFrame DEF PreparingAt
<1> QED
  BY <1>4, <1>5 DEF WriteSpec

(* claimStore.Set: the store takes over from devs.                         *)
LEMMA CheckpointResources ==
  ASSUME IInv, ResourceInv, Checkpoint
  PROVE  ResourceInv'
<1>1. PICK k \in Claim : k = cur
  BY PreparingFacts DEF Checkpoint, PreparingAt
<1>2. /\ pc = "set" /\ pc \in PreparingAt /\ InHand = {} /\ leaky' = leaky
      /\ UNCHANGED <<cdi, dirs, ports>>
  BY DEF Checkpoint, PreparingAt, InHand, Succeeds, Fails
<1>3. k \notin leaky => DirsAmong(k, devs) /\ PortsAmong(k, devs)
  BY <1>1, <1>2, PreparingFacts
<1>4. CASE UNCHANGED store /\ Rollback
  <2>1. \A c \in Claim : Spared(c)
    BY <1>2, <1>4 DEF Spared
  <2> QED
    BY <1>1, <1>2, <1>3, <1>4, <2>1, RollbackFrame DEF DirsAmong
<1>5. CASE StoreSet(cur, devs) /\ pc' = "status" /\ UNCHANGED <<callVars, workVars>>
  <2>1. cur' = k /\ op' = "prepare"
    BY <1>1, <1>2, <1>5, PreparingFacts DEF callVars, workVars
  <2>2. (\A c \in Claim \ {k} : Spared(c)) /\ store'[k] = devs
    BY <1>1, <1>2, <1>5 DEF Spared, StoreSet, IInv, TypeOK, StoreTypeOK
  <2>3. PortsAmong(k, RecordsOf(k))' /\ PortsOnlyFor(k)
    BY <1>1, <1>2, PreparingFacts DEF PortsAmong, PortsOnlyFor
  <2>4. pod \in Users[k] /\ devs = FullRecord(pod, k) /\ devs # {}
    BY <1>1, <1>2, PreparingFacts DEF IInv, PrepareInv
  <2>5. UndoneInv'
    BY <2>1 DEF UndoneInv
  <2>6. ASSUME k \notin leaky'
        PROVE  Accounted(k)'
    <3>1. AccountedRecorded(k)'
      BY <1>2, <1>3, <1>5, <2>1, <2>2, <2>6 DEF AccountedRecorded, DirsAmong, UndoingAt
    <3> QED
      BY <1>5, <2>1, <3>1 DEF Accounted, AccountedAtRest, AccountedPreparing,
         AccountedRollingBack, PreparingAt, UndoingAt
  <2> QED
    BY <1>1, <1>2, <2>1, <2>2, <2>3, <2>4, <2>5, <2>6, WorkFrame
<1> QED
  BY <1>4, <1>5 DEF Checkpoint

(* The handler goes on to the next claim and leaves a recorded one.        *)
LEMMA UpdateStatusResources ==
  ASSUME IInv, ResourceInv, UpdateStatus
  PROVE  ResourceInv'
<1>1. /\ cur' = NoClaim /\ pc' \notin UndoingAt /\ store[cur] # {}
      /\ UNCHANGED <<store, cdi, dirs, ports, leaky>>
  BY DEF UpdateStatus, UndoingAt, Continue, DropWork, Succeeds, nodeVars, IInv, PrepareInv
<1> QED
  BY <1>1, EndFrame

-----------------------------------------------------------------------------
(* The steps that unprepare devices preserve ResourceInv.                  *)

(* What holds while devices of cur are unprepared.                         *)
LEMMA UndoFacts ==
  ASSUME IInv, ResourceInv, pc \in UndoingAt
  PROVE  /\ cur \in Claim /\ op \in {"prepare", "unprepare"}
         /\ undo \subseteq RecordsOf(cur)
         /\ PortsAmong(cur, RecordsOf(cur))
         /\ store[cur] # {} => \E p \in Users[cur] : store[cur] = FullRecord(p, cur)
         /\ op = "prepare" <=> store[cur] = {}
         /\ op = "unprepare" => store[cur] \subseteq RecordsOf(cur) /\ undo \subseteq store[cur]
<1>1. cur \in Claim /\ undo \subseteq RecordsOf(cur)
  BY UndoingFacts
<1>2. op \in {"prepare", "unprepare"}
  BY DEF IInv, TypeOK, ControlInv, UndoingAt
<1>3. op = "prepare" => store[cur] = {}
  BY DEF IInv, PrepareInv
<1>4. op = "unprepare" => store[cur] # {} /\ undo \subseteq store[cur]
  BY DEF ResourceInv, UndoneInv
<1> QED
  BY <1>1, <1>2, <1>3, <1>4 DEF ResourceInv, OwnInv, IInv, RecordInv

(* The unpreparing goes on.                                                *)
LEMMA UndoFrame ==
  ASSUME IInv, ResourceInv, pc \in UndoingAt, NEW k \in Claim, cur = k, cur' = k,
         pc' \in UndoingAt, op' = op, store' = store,
         \A c \in Claim \ {k} : Spared(c), NoNewPorts, leaky \subseteq leaky',
         op = "unprepare" => UndoneInv',
         k \notin leaky' /\ op = "prepare" => AccountedRollingBack(k)',
         k \notin leaky' /\ op = "unprepare" => AccountedRecorded(k)'
  PROVE  ResourceInv'
<1>1. PortsOnlyFor(k)
  BY DEF NoNewPorts, PortsOnlyFor
<1>2. PortsAmong(k, RecordsOf(k))'
  BY SMTT(60), UndoFacts DEF PortsAmong, NoNewPorts
<1>3. UndoneInv'
  BY DEF UndoneInv
<1>4. ASSUME k \notin leaky'
      PROVE  Accounted(k)'
  <2>1. CASE op = "prepare"
    BY <1>4, <2>1, UndoFacts DEF Accounted, AccountedAtRest, AccountedPreparing,
       AccountedRecorded, PreparingAt, UndoingAt
  <2>2. CASE op = "unprepare"
    BY <1>4, <2>2, UndoFacts DEF Accounted, AccountedAtRest, AccountedPreparing,
       AccountedRollingBack, PreparingAt, UndoingAt
  <2> QED
    BY <2>1, <2>2, UndoFacts
<1> QED
  BY <1>1, <1>2, <1>3, <1>4, UndoFacts, WorkFrame

(* The CDI spec is gone, or the claim is leaky.                            *)
LEMMA UndoSpecResources ==
  ASSUME IInv, ResourceInv, NEW pd \in undo, UndoSpec(pd)
  PROVE  ResourceInv'
<1>1. /\ pc = "undo" /\ pc \in UndoingAt /\ pc' = "undoPort" /\ dev' = pd
      /\ UNCHANGED <<store, dirs, ports, op, cur, undo, err>> /\ leaky \subseteq leaky'
  BY DEF UndoSpec, UndoingAt, callVars, Succeeds, FailsLeaking
<1>2. PICK k \in Claim : k = cur
  BY <1>1, UndoFacts
<1>3. (\A c \in Claim \ {k} : Spared(c)) /\ NoNewPorts
  BY <1>1, <1>2 DEF UndoSpec, DeleteClaimSpecFile, Spared, NoNewPorts, IInv, TypeOK, CDITypeOK
<1>4. k \notin leaky' => cdi'[k] = {}
  BY <1>2 DEF UndoSpec, DeleteClaimSpecFile, FailsLeaking, IInv, TypeOK, CDITypeOK
<1>5. UndoneInv'
  BY <1>1 DEF ResourceInv, UndoneInv, PortGone, UndoingAt
<1>6. ASSUME k \notin leaky', op = "prepare"
      PROVE  AccountedRollingBack(k)'
  <2>1. DirsAmong(k, undo) /\ PortsAmong(k, undo)
    BY <1>1, <1>2, <1>6 DEF ResourceInv, Accounted, AccountedRollingBack
  <2> QED
    BY <1>1, <1>4, <1>6, <2>1 DEF AccountedRollingBack, DirsAmong, PortsAmong
<1>7. ASSUME k \notin leaky', op = "unprepare"
      PROVE  AccountedRecorded(k)'
  <2>1. store[k] # {} => DirsAmong(k, store[k])
    BY <1>1, <1>7 DEF ResourceInv, Accounted, AccountedRecorded
  <2> QED
    BY <1>1, <1>4, <1>7, <2>1 DEF AccountedRecorded, DirsAmong
<1> QED
  BY <1>1, <1>2, <1>3, <1>5, <1>6, <1>7, UndoFrame DEF UndoingAt

(* The port of the device is gone, or the record stays, or the claim is    *)
(* leaky.                                                                  *)
LEMMA UndoPortResources ==
  ASSUME IInv, ResourceInv, UndoPort
  PROVE  ResourceInv'
<1>1. /\ pc = "undoPort" /\ pc \in UndoingAt /\ pc' = "undoDir"
      /\ UNCHANGED <<store, cdi, dirs, op, cur, dev, undo>>
  BY DEF UndoPort, UndoingAt, callVars
<1>2. PICK k \in Claim : k = cur
  BY <1>1, UndoFacts
<1>3. dev \in undo /\ dev \in RecordsOf(k) /\ dev.port \in PortName
  BY <1>1, <1>2, UndoFacts, RecordOwn DEF IInv, ControlInv
<1>4. NoNewPorts
  BY <1>3 DEF UndoPort, DeletePort, NoNewPorts, IInv, TypeOK, OvsTypeOK
<1>5. /\ leaky \subseteq leaky'
      /\ \/ UNCHANGED err /\ PortGone(k, dev)'
         \/ err' = TRUE /\ (op = "prepare" => k \in leaky')
  <2>1. CASE /\ \/ PortNotFound(dev.port) /\ UNCHANGED ports
                \/ DeletePort(dev.bridge, dev.port)
             /\ Succeeds /\ UNCHANGED err
    <3>1. PortGone(k, dev)'
      BY <1>1, <1>3, <2>1 DEF PortNotFound, DeletePort, PortGone, IInv, TypeOK, OvsTypeOK
    <3> QED
      BY <2>1, <3>1 DEF Succeeds
  <2>2. CASE FailsUndoing /\ err' = TRUE
    BY <1>2, <2>2 DEF FailsUndoing, Fails, FailsLeaking
  <2> QED
    BY <2>1, <2>2 DEF UndoPort
<1>6. \A c \in Claim \ {k} : Spared(c)
  BY <1>1 DEF Spared
<1>7. ASSUME op = "unprepare"
      PROVE  UndoneInv'
  <2>1. store[k] # {} /\ undo \subseteq store[k]
    BY <1>1, <1>2, <1>7, UndoFacts
  <2>2. \A pd \in store[k] : pd.port \in PortName
    BY <1>1, <1>2, <1>7, UndoFacts, RecordOwn
  <2>3. ~err => \A pd \in store[k] \ undo : dirs[pd.dir] = Absent /\ PortGone(k, pd)
    BY <1>1, <1>2, <1>7 DEF ResourceInv, UndoneInv
  <2>4. ~err' => ~err /\ PortGone(k, dev)'
    BY <1>5
  <2>5. \A pd \in store[k] : PortGone(k, pd) => PortGone(k, pd)'
    BY <1>4, <2>2 DEF PortGone, NoNewPorts
  <2> QED
    BY <1>1, <1>2, <2>1, <2>3, <2>4, <2>5 DEF UndoneInv
<1>8. ASSUME k \notin leaky', op = "prepare"
      PROVE  AccountedRollingBack(k)'
  <2>1. cdi[k] = {} /\ DirsAmong(k, undo) /\ PortsAmong(k, undo)
    BY <1>1, <1>2, <1>5, <1>8 DEF ResourceInv, Accounted, AccountedRollingBack
  <2>2. PortGone(k, dev)'
    BY <1>5, <1>8
  <2>3. PortsAmong(k, undo \ {dev})'
    BY SMTT(60), <1>1, <1>4, <2>1, <2>2 DEF PortsAmong, PortGone, NoNewPorts
  <2> QED
    BY <1>1, <2>1, <2>3 DEF AccountedRollingBack, DirsAmong
<1>9. ASSUME k \notin leaky', op = "unprepare"
      PROVE  AccountedRecorded(k)'
  <2>1. (store[k] # {} => DirsAmong(k, store[k])) /\ cdi[k] = {}
    BY <1>1, <1>2, <1>5, <1>9 DEF ResourceInv, Accounted, AccountedRecorded
  <2> QED
    BY <1>1, <2>1 DEF AccountedRecorded, DirsAmong
<1> QED
  BY <1>1, <1>2, <1>4, <1>5, <1>6, <1>7, <1>8, <1>9, UndoFrame DEF UndoingAt

(* The directory of the device is gone, or the record stays, or the claim  *)
(* is leaky.                                                               *)
LEMMA UndoDirResources ==
  ASSUME DistinctDirs, IInv, ResourceInv, UndoDir
  PROVE  ResourceInv'
<1>1. /\ pc = "undoDir" /\ pc \in UndoingAt /\ pc' = "undo" /\ undo' = undo \ {dev}
      /\ UNCHANGED <<store, cdi, ports, op, cur>>
  BY DEF UndoDir, UndoingAt, callVars
<1>2. PICK k \in Claim : k = cur
  BY <1>1, UndoFacts
<1>3. dev \in undo /\ dev \in RecordsOf(k)
  BY <1>1, <1>2, UndoFacts DEF IInv, ControlInv
<1>4. PICK p0 \in Users[k], q0 \in Request : dev.dir = getSocketDir(p0, k, q0)
  BY <1>3, RecordOwn
<1>5. dev.dir \in Dir
  BY <1>3, RecordOwn
<1>6. UNCHANGED dirs \/ dirs' = [dirs EXCEPT ![dev.dir] = Absent]
  BY DEF UndoDir, RemoveSocketDir
<1>7. \A e \in Dir : dirs'[e] # Absent => dirs[e] # Absent
  BY <1>5, <1>6 DEF IInv, TypeOK, SocketFSTypeOK
<1>8. (\A c \in Claim \ {k} : Spared(c)) /\ NoNewPorts
  <2>1. UNCHANGED dirs \/ dirs' = [dirs EXCEPT ![getSocketDir(p0, k, q0)] = Absent]
    BY <1>4, <1>6
  <2>2. ASSUME NEW c \in Claim \ {k}, NEW p \in Users[c], NEW q \in Request
        PROVE  dirs'[getSocketDir(p, c, q)] = dirs[getSocketDir(p, c, q)]
    BY SMTT(60), <2>1, OtherClaimsDirs
  <2> QED
    BY <1>1, <2>2 DEF Spared, NoNewPorts
<1>9. /\ leaky \subseteq leaky'
      /\ \/ UNCHANGED err /\ dirs'[dev.dir] = Absent
         \/ err' = TRUE /\ (op = "prepare" => k \in leaky')
  <2>1. CASE RemoveSocketDir(dev.dir) /\ Succeeds /\ UNCHANGED err
    BY <1>5, <2>1 DEF RemoveSocketDir, Succeeds, IInv, TypeOK, SocketFSTypeOK
  <2>2. CASE FailsUndoing /\ err' = TRUE
    BY <1>2, <2>2 DEF FailsUndoing, Fails, FailsLeaking
  <2> QED
    BY <2>1, <2>2 DEF UndoDir
<1>10. \A p \in Users[k], q \in Request : getSocketDir(p, k, q) \in Dir
  BY DirType, AllocationAssumption
<1>11. ASSUME op = "unprepare"
       PROVE  UndoneInv'
  <2>1. store[k] # {} /\ undo \subseteq store[k]
    BY <1>1, <1>2, <1>11, UndoFacts
  <2>2. \A pd \in store[k] : pd.dir \in Dir
    BY <1>1, <1>2, <1>11, UndoFacts, RecordOwn
  <2>3. ~err => /\ \A pd \in store[k] \ undo : dirs[pd.dir] = Absent /\ PortGone(k, pd)
                /\ PortGone(k, dev)
    BY <1>1, <1>2, <1>11 DEF ResourceInv, UndoneInv
  <2>4. ~err' => ~err /\ dirs'[dev.dir] = Absent
    BY <1>9
  <2>5. ~err' => \A pd \in store[k] \ undo' : dirs'[pd.dir] = Absent /\ PortGone(k, pd)
    BY <1>1, <1>7, <2>2, <2>3, <2>4
  <2> QED
    BY <1>1, <1>2, <2>1, <2>5 DEF UndoneInv, PortGone
<1>12. ASSUME k \notin leaky', op = "prepare"
       PROVE  AccountedRollingBack(k)'
  <2>1. cdi[k] = {} /\ DirsAmong(k, undo) /\ PortsAmong(k, undo \ {dev})
    BY <1>1, <1>2, <1>9, <1>12 DEF ResourceInv, Accounted, AccountedRollingBack
  <2>2. dirs'[dev.dir] = Absent
    BY <1>9, <1>12
  <2>3. DirsAmong(k, undo)'
    BY <1>1, <1>7, <1>10, <2>1, <2>2 DEF DirsAmong
  <2> QED
    BY <1>1, <2>1, <2>3 DEF AccountedRollingBack, PortsAmong
<1>13. ASSUME k \notin leaky', op = "unprepare"
       PROVE  AccountedRecorded(k)'
  <2>1. (store[k] # {} => DirsAmong(k, store[k])) /\ cdi[k] = {}
    BY <1>1, <1>2, <1>9, <1>13 DEF ResourceInv, Accounted, AccountedRecorded
  <2> QED
    BY <1>1, <1>7, <1>10, <2>1 DEF AccountedRecorded, DirsAmong
<1> QED
  BY <1>1, <1>2, <1>8, <1>9, <1>11, <1>12, <1>13, UndoFrame DEF UndoingAt

(* A rollback that is over has left nothing, or the claim is leaky.        *)
LEMMA RolledBackResources ==
  ASSUME IInv, ResourceInv, RolledBack
  PROVE  ResourceInv'
<1>1. /\ pc = "undo" /\ pc \in UndoingAt /\ undo = {} /\ op = "prepare"
      /\ cur' = NoClaim /\ pc' \notin UndoingAt
      /\ UNCHANGED <<store, cdi, dirs, ports, leaky>>
  BY DEF RolledBack, UndoingAt, Abort, DropWork, Succeeds, nodeVars
<1>2. cur \in Claim \ leaky => cdi[cur] = {} /\ DirsAmong(cur, {}) /\ PortsAmong(cur, {})
  BY <1>1 DEF ResourceInv, Accounted, AccountedRollingBack
<1> QED
  BY <1>1, <1>2, EndFrame

(* An unprepare has everything to do at first.                             *)
LEMMA UnprepareBeginResources ==
  ASSUME IInv, ResourceInv, NEW c \in Claim, UnprepareBegin(c)
  PROVE  ResourceInv'
<1>1. /\ pc = "next" /\ op = "unprepare" /\ store[c] # {} /\ cur = NoClaim
      /\ pc' = "undo" /\ cur' = c /\ undo' = store[c]
      /\ UNCHANGED <<store, cdi, dirs, ports, op, leaky>>
  BY DEF UnprepareBegin, StoreGet, Succeeds, nodeVars, callVars, IInv, ControlInv, NoWork
<1>2. UndoneInv'
  BY <1>1 DEF UndoneInv
<1>3. PortsAmong(c, RecordsOf(c))'
  BY SMTT(60), <1>1 DEF ResourceInv, OwnInv, PortsAmong
<1>4. ASSUME c \notin leaky'
      PROVE  Accounted(c)'
  <2>1. DirsAmong(c, store[c])
    BY <1>1, <1>4 DEF ResourceInv, Accounted, AccountedRecorded
  <2>2. AccountedRecorded(c)'
    BY <1>1, <2>1 DEF AccountedRecorded, DirsAmong
  <2> QED
    BY <1>1, <2>2 DEF Accounted, AccountedAtRest, AccountedPreparing, AccountedRollingBack,
       PreparingAt
<1>5. (\A d \in Claim \ {c} : Spared(d)) /\ PortsOnlyFor(c)
  BY <1>1 DEF Spared, PortsOnlyFor
<1>6. store'[c] # {} => \E p \in Users[c] : store'[c] = FullRecord(p, c)
  BY <1>1 DEF ResourceInv, OwnInv
<1> QED
  BY <1>1, <1>2, <1>3, <1>4, <1>5, <1>6, WorkFrame

(* A claim with a device that could not be unprepared keeps its record.    *)
LEMMA UnprepareFailedResources ==
  ASSUME IInv, ResourceInv, UnprepareFailed
  PROVE  ResourceInv'
<1>1. /\ cur' = NoClaim /\ pc' \notin UndoingAt /\ store[cur] # {}
      /\ UNCHANGED <<store, cdi, dirs, ports, leaky>>
  BY DEF UnprepareFailed, UndoingAt, Continue, DropWork, Succeeds, nodeVars, ResourceInv, UndoneInv
<1> QED
  BY <1>1, EndFrame

(* When everything of a claim is unprepared, nothing is left that its      *)
(* record names, and its ports are all named.                              *)
LEMMA AllUndone ==
  ASSUME IInv, ResourceInv, Forget
  PROVE  /\ cur \in Claim /\ store[cur] # {}
         /\ \A pd \in store[cur] : dirs[pd.dir] = Absent
         /\ PortsAmong(cur, {})
<1>1. pc = "undo" /\ pc \in UndoingAt /\ undo = {} /\ op = "unprepare" /\ ~err
  BY DEF Forget, UndoingAt
<1>2. \A pd \in store[cur] : dirs[pd.dir] = Absent /\ PortGone(cur, pd)
  BY <1>1 DEF ResourceInv, UndoneInv
<1>3. cur \in Claim /\ store[cur] # {} /\ PortsAmong(cur, RecordsOf(cur))
  BY <1>1, UndoFacts
<1>4. PICK p \in Users[cur] : store[cur] = FullRecord(p, cur)
  BY <1>1, <1>3, UndoFacts
<1>5. ASSUME NEW pd \in RecordsOf(cur)
      PROVE  \E rec \in store[cur] : rec.port = pd.port /\ rec.bridge = pd.bridge
  <2>1. PICK u \in Users[cur], r \in OwnResults(cur) : pd = preparedDevice(u, cur, r)
    BY SMTT(60) DEF RecordsOf
  <2>2. preparedDevice(p, cur, r) \in store[cur]
    BY <1>4 DEF FullRecord
  <2> QED
    BY SMTT(60), <2>1, <2>2, RecordFields
<1>6. PortsAmong(cur, {})
  BY SMTT(60), <1>2, <1>3, <1>5 DEF PortsAmong, PortGone
<1> QED
  BY <1>2, <1>3, <1>6

(* claimStore.Delete forgets a claim of which nothing is left.             *)
LEMMA ForgetResources ==
  ASSUME IInv, ResourceInv, Forget
  PROVE  ResourceInv'
<1>1. /\ pc = "undo" /\ pc \in UndoingAt /\ undo = {} /\ op = "unprepare"
      /\ cur' = NoClaim /\ pc' \notin UndoingAt /\ leaky' = leaky
      /\ UNCHANGED <<cdi, dirs, ports>>
  BY DEF Forget, UndoingAt, Continue, Abort, DropWork, Succeeds, Fails
<1>2. PICK k \in Claim : k = cur
  BY AllUndone
<1>3. CASE UNCHANGED store
  BY <1>1, <1>3, AllUndone, EndFrame
<1>4. CASE StoreDelete(cur)
  <2>1. store'[k] = {} /\ \A c \in Claim \ {k} : Spared(c)
    BY <1>1, <1>2, <1>4 DEF StoreDelete, Spared, IInv, TypeOK, StoreTypeOK
  <2>2. PortsOnlyFor(k) /\ PortsAmong(k, {})' /\ PortsAmong(k, RecordsOf(k))'
    BY <1>1, <1>2, AllUndone DEF PortsOnlyFor, PortsAmong
  <2>3. UndoneInv'
    BY <1>1 DEF UndoneInv
  <2>4. ASSUME k \notin leaky'
        PROVE  Accounted(k)'
    <3>1. DirsAmong(k, store[k]) /\ cdi[k] = {}
      BY <1>1, <1>2, <2>4, AllUndone DEF ResourceInv, Accounted, AccountedRecorded
    <3>2. DirsAmong(k, {})'
      BY SMTT(60), <1>1, <1>2, <3>1, AllUndone DEF DirsAmong
    <3>3. k # cur'
      BY <1>1, NullAssumption
    <3> QED
      BY <1>1, <2>1, <2>2, <3>1, <3>2, <3>3 DEF Accounted, AccountedAtRest,
         AccountedPreparing, AccountedRollingBack, AccountedRecorded
  <2> QED
    BY <1>1, <1>2, <2>1, <2>2, <2>3, <2>4, WorkFrame
<1> QED
  BY <1>3, <1>4 DEF Forget

-----------------------------------------------------------------------------
(* The other steps preserve ResourceInv.                                   *)

(* A crash forgets a claim only with its record, or makes it leaky.        *)
LEMMA CrashResources ==
  ASSUME IInv, ResourceInv, Crash
  PROVE  ResourceInv'
<1>1. /\ cur' = NoClaim /\ pc' \notin UndoingAt /\ leaky \subseteq leaky'
      /\ UNCHANGED <<store, cdi, dirs, ports>>
  BY DEF Crash, DropWork, EndCall, UndoingAt, nodeVars
<1>2. ASSUME cur \in Claim \ leaky'
      PROVE  store[cur] # {}
  <2>1. cur # NoClaim /\ (op = "prepare" => pc = "status")
    BY <1>2, NullAssumption DEF Crash
  <2>2. CASE pc = "status"
    BY <2>2 DEF IInv, PrepareInv
  <2>3. CASE pc \in UndoingAt
    BY <2>1, <2>3, UndoFacts DEF UndoingAt
  <2>4. CASE pc \in PreparingAt
    BY <2>1, <2>4, PreparingFacts DEF PreparingAt
  <2>5. CASE pc \in {"idle", "next", "reply"}
    BY <2>1, <2>5 DEF IInv, ControlInv, NoWork
  <2> QED
    BY <2>2, <2>3, <2>4, <2>5 DEF IInv, TypeOK, PC, UndoingAt, PreparingAt
<1> QED
  BY <1>1, <1>2, EndFrame

(* After a reboot there is nothing.                                        *)
LEMMA RebootResources ==
  ASSUME Reboot
  PROVE  ResourceInv'
<1>1. /\ \A c \in Claim : store'[c] = {} /\ cdi'[c] = {}
      /\ \A d \in Dir : dirs'[d] = Absent
      /\ \A n \in PortName : ports'[n] = NoPort
      /\ cur' = NoClaim /\ pc' = "idle"
  BY DEF Reboot, StoreLost, DropTransientPorts, DropWork, EndCall
<1>2. \A c \in Claim : \A p \in Users[c], q \in Request : getSocketDir(p, c, q) \in Dir
  BY DirType, AllocationAssumption
<1>3. OwnInv' /\ UndoneInv'
  BY <1>1 DEF OwnInv, UndoneInv, PortsAmong, UndoingAt
<1>4. \A c \in Claim : DirsAmong(c, {})' /\ PortsAmong(c, {})'
  BY <1>1, <1>2 DEF DirsAmong, PortsAmong
<1>5. \A c \in Claim : Accounted(c)'
  BY <1>1, <1>4 DEF Accounted, AccountedAtRest, AccountedPreparing, AccountedRollingBack,
     AccountedRecorded, PreparingAt, UndoingAt
<1> QED
  BY <1>3, <1>5 DEF ResourceInv

(* There is nothing at first.                                              *)
LEMMA InitResources ==
  ASSUME Init
  PROVE  ResourceInv
<1>1. /\ \A c \in Claim : store[c] = {} /\ cdi[c] = {}
      /\ \A d \in Dir : dirs[d] = Absent
      /\ \A n \in PortName : ports[n] = NoPort
      /\ cur = NoClaim /\ pc = "idle"
  BY DEF Init, StoreInit, CDIInit, SocketFSInit, OvsInit, NoCall, NoWork
<1>2. \A c \in Claim : \A p \in Users[c], q \in Request : getSocketDir(p, c, q) \in Dir
  BY DirType, AllocationAssumption
<1>3. OwnInv /\ UndoneInv
  BY <1>1 DEF OwnInv, UndoneInv, PortsAmong, UndoingAt
<1>4. \A c \in Claim : DirsAmong(c, {}) /\ PortsAmong(c, {})
  BY <1>1, <1>2 DEF DirsAmong, PortsAmong
<1>5. \A c \in Claim : Accounted(c)
  BY <1>1, <1>4 DEF Accounted, AccountedAtRest, AccountedPreparing, AccountedRollingBack,
     AccountedRecorded, PreparingAt, UndoingAt
<1> QED
  BY <1>3, <1>5 DEF ResourceInv

(* Steps between claims touch nothing.                                     *)
LEMMA BetweenFrame ==
  ASSUME IInv, ResourceInv, pc \in {"idle", "next", "reply"}, cur' = NoClaim,
         pc' \notin UndoingAt, UNCHANGED <<store, cdi, dirs, ports, leaky>>
  PROVE  ResourceInv'
<1>1. cur = NoClaim
  BY DEF IInv, ControlInv, NoWork
<1> QED
  BY <1>1, NullAssumption, EndFrame

(* Every step preserves ResourceInv.                                       *)
LEMMA NextResources ==
  ASSUME DistinctDirs, IInv, ResourceInv, [Next]_vars
  PROVE  ResourceInv'
<1>1. CASE UNCHANGED vars
  <2>1. NoNewPorts
    BY <1>1 DEF vars, nodeVars, NoNewPorts
  <2> QED
    BY <1>1, <2>1, OvsFrame DEF vars, nodeVars, callVars, workVars
<1>2. CASE Kubelet
  <2>1. /\ pc = "idle" /\ pc' = "next"
        /\ UNCHANGED <<store, cdi, dirs, ports, leaky, cur>>
    BY <1>2 DEF Kubelet, PrepareResourceClaims, UnprepareResourceClaims, Receive, nodeVars, workVars
  <2>2. cur' = NoClaim
    BY <2>1 DEF IInv, ControlInv, NoWork
  <2> QED
    BY <2>1, <2>2, BetweenFrame DEF UndoingAt
<1>3. CASE PrepareStep
  <2>1. ASSUME NEW c \in Claim, PrepareGetFails(c) \/ PrepareCached(c) \/ PrepareRefused(c)
        PROVE  ResourceInv'
    <3>1. /\ pc = "next" /\ pc' \in {"next", "reply"} /\ cur' = NoClaim
          /\ UNCHANGED <<store, cdi, dirs, ports, leaky>>
      BY <2>1 DEF PrepareGetFails, PrepareCached, PrepareRefused, Abort, Continue, DropWork,
         Succeeds, Fails, nodeVars
    <3> QED
      BY <3>1, BetweenFrame DEF UndoingAt
  <2> QED
    BY <1>3, <2>1, PrepareBeginResources, CheckConfigResources, MakeSocketDirResources,
       MakePortResources, RemoveFailedDirResources, NoResultsResources, WriteSpecResources,
       CheckpointResources, UpdateStatusResources DEF PrepareStep
<1>4. CASE UndoStep
  BY <1>4, UndoSpecResources, UndoPortResources, UndoDirResources, RolledBackResources
  DEF UndoStep
<1>5. CASE UnprepareStep
  <2>1. ASSUME NEW c \in Claim, UnprepareGetFails(c) \/ UnprepareUnknown(c)
        PROVE  ResourceInv'
    <3>1. /\ pc = "next" /\ pc' \in {"next", "reply"} /\ cur' = NoClaim
          /\ UNCHANGED <<store, cdi, dirs, ports, leaky>>
      BY <2>1 DEF UnprepareGetFails, UnprepareUnknown, Abort, Continue, DropWork,
         Succeeds, Fails, nodeVars
    <3> QED
      BY <3>1, BetweenFrame DEF UndoingAt
  <2> QED
    BY <1>5, <2>1, UnprepareBeginResources, UnprepareFailedResources, ForgetResources
    DEF UnprepareStep
<1>6. CASE LoopDone \/ Reply \/ ReplyLost
  <2>1. /\ pc \in {"next", "reply"} /\ pc' \in {"idle", "reply"}
        /\ UNCHANGED <<store, cdi, dirs, ports, leaky, cur>>
    BY <1>6 DEF LoopDone, Reply, ReplyLost, EndCall, Succeeds, Fails, nodeVars, workVars
  <2>2. cur' = NoClaim
    BY <2>1 DEF IInv, ControlInv, NoWork
  <2> QED
    BY <2>1, <2>2, BetweenFrame DEF UndoingAt
<1>7. CASE Surroundings
  <2>1. /\ UNCHANGED <<store, cdi, dirs, pc, op, pod, cur, devs, dev, undo, err>>
        /\ leaky' = leaky
    BY <1>7 DEF Surroundings, OvsRestart, BridgeRemoved, BridgeAdded, ConfigReconciled,
       PolicyReconciled, Fails, nodeVars, callVars, workVars
  <2>2. NoNewPorts
    BY <1>7 DEF Surroundings, OvsRestart, BridgeRemoved, BridgeAdded, ConfigReconciled,
       PolicyReconciled, DropTransientPorts, RemoveBridge, AddBridge, nodeVars, NoNewPorts
  <2> QED
    BY <2>1, <2>2, OvsFrame
<1>8. CASE Crash \/ Reboot
  BY <1>8, CrashResources, RebootResources
<1> QED
  BY <1>1, <1>2, <1>3, <1>4, <1>5, <1>6, <1>7, <1>8 DEF Next, Handler, Environment

(* Everything on the node is accounted for, in every reachable state: by   *)
(* the store, by the locals of the handler, or by a failure of that claim. *)
THEOREM ResourcesAreAccountedFor ==
  ASSUME DistinctDirs
  PROVE  Spec => []ResourceInv
<1>1. Init => ResourceInv
  BY InitResources
<1>2. IInv /\ ResourceInv /\ [Next]_vars => ResourceInv'
  BY NextResources
<1>3. Spec => []IInv
  BY InductiveInvariant
<1> QED
  BY <1>1, <1>2, <1>3, PTL DEF Spec

(* What is at rest and has no record has nothing.                          *)
LEMMA ExplainedByAccounts ==
  ResourceInv => LeaksAreExplained
<1> SUFFICES ASSUME ResourceInv, NEW c \in Claim \ leaky, store[c] = {}, cur # c
             PROVE  Clean(c)
  BY DEF LeaksAreExplained
<1>1. cdi[c] = {} /\ DirsAmong(c, {}) /\ PortsAmong(c, {})
  BY DEF ResourceInv, Accounted, AccountedAtRest
<1>2. \A q \in Request : ovsPortName(c, q) \in PortName
  BY PortNameType
<1> QED
  BY <1>1, <1>2 DEF Clean, DirsAmong, PortsAmong

(* LeaksAreExplained for every instance: only the failures marked          *)
(* FailsLeaking, and a crash before the commit, make the driver forget     *)
(* resources of a claim.                                                   *)
THEOREM OnlyExplainedLeaks ==
  ASSUME DistinctDirs
  PROVE  Spec => []LeaksAreExplained
BY ExplainedByAccounts, ResourcesAreAccountedFor, PTL

(* A claim kubelet does not know is at rest and has no record.             *)
LEMMA UnknownIsAtRest ==
  ASSUME IInv, LeaksAreExplained
  PROVE  UnpreparedIsCleanOrLeaky
<1> SUFFICES ASSUME NEW c \in Claim \ leaky, kview[c] = "none"
             PROVE  Clean(c)
  BY DEF UnpreparedIsCleanOrLeaky
<1>1. store[c] = {}
  BY DEF IInv, RecordInv
<1>2. cur # c
  <2> SUFFICES ASSUME cur = c
               PROVE  FALSE
    OBVIOUS
  <2>1. pc \notin {"idle", "next", "reply"}
    BY NullAssumption DEF IInv, ControlInv, NoWork
  <2>2. c \in batch /\ op # "none"
    BY <2>1 DEF IInv, ControlInv
  <2>3. op \in {"prepare", "unprepare"}
    BY <2>2 DEF IInv, TypeOK
  <2> QED
    BY <2>2, <2>3 DEF IInv, KubeletInv
<1> QED
  BY <1>1, <1>2 DEF LeaksAreExplained

(* UnpreparedIsCleanOrLeaky for every instance: what README says of the    *)
(* deletion of a pod is true of every claim that no failure marked         *)
(* FailsLeaking, and no crash before the commit, has hit.                  *)
THEOREM UnpreparedIsCleanUnlessLeaky ==
  ASSUME DistinctDirs
  PROVE  Spec => []UnpreparedIsCleanOrLeaky
BY UnknownIsAtRest, InductiveInvariant, OnlyExplainedLeaks, PTL

-----------------------------------------------------------------------------
(* What a step may never do.                                               *)

(* Only the last step of an unprepare, and a reboot, take a record away.   *)
LEMMA RecordStep ==
  ASSUME IInv, ResourceInv, [Next]_vars,
         NEW c \in Claim, store[c] # {}, store'[c] # store[c]
  PROVE  /\ store'[c] = {}
         /\ \A pd \in store[c] :
              /\ dirs'[pd.dir] = Absent
              /\ ports'[pd.port] # NoPort => ports'[pd.port].claim # c
<1>1. \A pd \in store[c] : pd.dir \in Dir /\ pd.port \in PortName
  BY RecordOwn DEF IInv, RecordInv
<1>2. CASE Forget
  <2>1. cur \in Claim /\ (UNCHANGED store \/ store' = [store EXCEPT ![cur] = {}])
    BY <1>2, AllUndone DEF Forget, StoreDelete
  <2>2. c = cur /\ store'[c] = {}
    BY <2>1 DEF IInv, TypeOK, StoreTypeOK
  <2>3. UNCHANGED <<dirs, ports>>
    BY <1>2 DEF Forget
  <2> QED
    BY <1>1, <1>2, <2>2, <2>3, AllUndone DEF PortsAmong
<1>3. CASE Reboot
  BY <1>1, <1>3 DEF Reboot, StoreLost, DropTransientPorts
<1>4. CASE Checkpoint
  <2>1. cur \in Claim /\ store[cur] = {}
    BY <1>4, PreparingFacts DEF Checkpoint, PreparingAt
  <2>2. UNCHANGED store \/ store' = [store EXCEPT ![cur] = devs]
    BY <1>4 DEF Checkpoint, StoreSet
  <2> QED
    BY <2>1, <2>2 DEF IInv, TypeOK, StoreTypeOK
<1>5. CASE UNCHANGED store
  BY <1>5
<1>6. \/ Forget \/ Reboot \/ Checkpoint \/ UNCHANGED store
  <2>1. CASE UNCHANGED vars
    BY <2>1 DEF vars, nodeVars
  <2>2. CASE Kubelet
    BY <2>2 DEF Kubelet, PrepareResourceClaims, UnprepareResourceClaims, Receive, nodeVars
  <2>3. CASE PrepareStep
    BY <2>3 DEF PrepareStep, PrepareGetFails, PrepareCached, PrepareRefused, PrepareBegin,
       CheckConfig, MakeSocketDir, MakePort, RemoveFailedDir, NoResults, WriteSpec,
       UpdateStatus, nodeVars
  <2>4. CASE UndoStep
    BY <2>4 DEF UndoStep, UndoSpec, UndoPort, UndoDir, RolledBack, nodeVars
  <2>5. CASE UnprepareStep
    BY <2>5 DEF UnprepareStep, UnprepareGetFails, UnprepareUnknown, UnprepareBegin,
       UnprepareFailed, nodeVars
  <2>6. CASE LoopDone \/ Reply \/ ReplyLost
    BY <2>6 DEF LoopDone, Reply, ReplyLost, nodeVars
  <2>7. CASE Crash \/ Surroundings
    BY <2>7 DEF Crash, Surroundings, OvsRestart, BridgeRemoved, BridgeAdded,
       ConfigReconciled, PolicyReconciled, nodeVars
  <2> QED
    BY <2>1, <2>2, <2>3, <2>4, <2>5, <2>6, <2>7 DEF Next, Handler, Environment
<1> QED
  BY <1>2, <1>3, <1>4, <1>5, <1>6

(* RecordOutlivesResources for every instance: the record of a claim goes  *)
(* after its directories and ports.                                        *)
THEOREM RecordsOutliveResources ==
  ASSUME DistinctDirs
  PROVE  Spec => RecordOutlivesResources
<1> DEFINE A == \A c \in Claim : store[c] # {} /\ store'[c] # store[c] =>
                  /\ store'[c] = {}
                  /\ \A pd \in store[c] :
                       /\ dirs'[pd.dir] = Absent
                       /\ ports'[pd.port] # NoPort => ports'[pd.port].claim # c
<1>1. IInv /\ ResourceInv /\ [Next]_vars => [A]_vars
  BY RecordStep
<1>2. Spec => []IInv /\ []ResourceInv
  BY InductiveInvariant, ResourcesAreAccountedFor
<1> QED
  BY <1>1, <1>2, PTL DEF Spec, RecordOutlivesResources

(* The port of a record is in no row of another claim.                     *)
LEMMA PortOwner ==
  ASSUME DistinctPrefixes, ResourceInv, NEW k \in Claim, NEW pd \in RecordsOf(k),
         NEW c \in Claim, c # k, ports[pd.port] # NoPort
  PROVE  ports[pd.port].claim # c
<1> SUFFICES ASSUME ports[pd.port].claim = c
             PROVE  FALSE
  OBVIOUS
<1>1. PICK q \in Request : pd.port = ovsPortName(k, q)
  BY RecordOwn
<1>2. PICK rec \in RecordsOf(c) : rec.port = pd.port
  BY SMTT(60), RecordOwn DEF ResourceInv, OwnInv, PortsAmong
<1>3. PICK qc \in Request : rec.port = ovsPortName(c, qc)
  BY RecordOwn
<1>4. UIDPrefix[k] = UIDPrefix[c]
  BY SMTT(60), <1>1, <1>2, <1>3 DEF ovsPortName
<1> QED
  BY <1>4 DEF DistinctPrefixes

(* A step of the handler spares every other claim, and its ports.          *)
LEMMA HandlerSpares ==
  ASSUME DistinctDirs, DistinctPrefixes, IInv, ResourceInv, Handler,
         NEW c \in Claim, c # cur
  PROVE  /\ Spared(c)
         /\ \A n \in PortName :
              (ports[n] # NoPort /\ ports[n].claim = c) => ports'[n] = ports[n]
<1> DEFINE Kept == \A n \in PortName :
                     (ports[n] # NoPort /\ ports[n].claim = c) => ports'[n] = ports[n]
<1>1. ASSUME UNCHANGED <<store, cdi, dirs, ports>>
      PROVE  Spared(c) /\ Kept
  BY <1>1 DEF Spared
<1>2. CASE PrepareStep
  <2>1. ASSUME NEW d \in Claim,
               PrepareGetFails(d) \/ PrepareCached(d) \/ PrepareRefused(d) \/ PrepareBegin(d)
        PROVE  Spared(c) /\ Kept
    BY <1>1, <2>1 DEF PrepareGetFails, PrepareCached, PrepareRefused, PrepareBegin, nodeVars
  <2>2. ASSUME NEW r \in todo, CheckConfig(r)
        PROVE  Spared(c) /\ Kept
    BY <1>1, <2>2 DEF CheckConfig, nodeVars
  <2>3. CASE NoResults \/ UpdateStatus
    BY <1>1, <2>3 DEF NoResults, UpdateStatus, nodeVars
  <2>4. CASE MakeSocketDir \/ RemoveFailedDir
    <3>1. cur \in Claim /\ pod \in Users[cur] /\ UNCHANGED <<store, cdi, ports>>
      BY <2>4, PreparingFacts DEF MakeSocketDir, RemoveFailedDir, PreparingAt
    <3>2. UNCHANGED dirs \/ \E v : dirs' = [dirs EXCEPT ![getSocketDir(pod, cur, dev.request)] = v]
      BY <2>4 DEF MakeSocketDir, RemoveFailedDir, CreateSocketDir, MkdirFails,
         PermissionsFail, PermissionsFailAndStay, RemoveSocketDir
    <3> QED
      BY SMTT(60), <3>1, <3>2, OtherClaimsDirs DEF Spared
  <2>5. CASE MakePort
    <3>1. UNCHANGED <<store, cdi, dirs>>
      BY <2>5 DEF MakePort
    <3>2. Kept
      BY <2>5 DEF MakePort, CreatePort, IInv, TypeOK, OvsTypeOK
    <3> QED
      BY <3>1, <3>2 DEF Spared
  <2>6. CASE WriteSpec \/ Checkpoint
    <3>1. UNCHANGED <<dirs, ports>> /\ store'[c] = store[c] /\ cdi'[c] = cdi[c]
      BY <2>6 DEF WriteSpec, Checkpoint, CreateClaimSpecFile, StoreSet, IInv, TypeOK,
         StoreTypeOK, CDITypeOK
    <3> QED
      BY <3>1 DEF Spared
  <2> QED
    BY <1>2, <2>1, <2>2, <2>3, <2>4, <2>5, <2>6 DEF PrepareStep
<1>3. CASE UndoStep
  <2>1. ASSUME NEW pd \in undo, UndoSpec(pd)
        PROVE  Spared(c) /\ Kept
    <3>1. UNCHANGED <<store, dirs, ports>> /\ cdi'[c] = cdi[c]
      BY <2>1 DEF UndoSpec, DeleteClaimSpecFile, IInv, TypeOK, CDITypeOK
    <3> QED
      BY <3>1 DEF Spared
  <2>2. CASE UndoPort
    <3>1. cur \in Claim /\ dev \in RecordsOf(cur) /\ UNCHANGED <<store, cdi, dirs>>
      BY <2>2, UndoFacts DEF UndoPort, UndoingAt, IInv, ControlInv
    <3>2. \A n \in PortName : ports'[n] = ports[n] \/ (n = dev.port /\ ports[n] # NoPort)
      BY <2>2 DEF UndoPort, DeletePort, IInv, TypeOK, OvsTypeOK
    <3>3. Kept
      BY SMTT(60), <3>1, <3>2, PortOwner
    <3> QED
      BY <3>1, <3>3 DEF Spared
  <2>3. CASE UndoDir
    <3>1. cur \in Claim /\ dev \in RecordsOf(cur) /\ UNCHANGED <<store, cdi, ports>>
      BY <2>3, UndoFacts DEF UndoDir, UndoingAt, IInv, ControlInv
    <3>2. PICK p \in Users[cur], q \in Request : dev.dir = getSocketDir(p, cur, q)
      BY <3>1, RecordOwn
    <3>3. UNCHANGED dirs \/ dirs' = [dirs EXCEPT ![getSocketDir(p, cur, q)] = Absent]
      BY <2>3, <3>2 DEF UndoDir, RemoveSocketDir
    <3> QED
      BY SMTT(60), <3>1, <3>3, OtherClaimsDirs DEF Spared
  <2>4. CASE RolledBack
    BY <1>1, <2>4 DEF RolledBack, nodeVars
  <2> QED
    BY <1>3, <2>1, <2>2, <2>3, <2>4 DEF UndoStep
<1>4. CASE UnprepareStep
  <2>1. ASSUME NEW d \in Claim, UnprepareGetFails(d) \/ UnprepareUnknown(d) \/ UnprepareBegin(d)
        PROVE  Spared(c) /\ Kept
    BY <1>1, <2>1 DEF UnprepareGetFails, UnprepareUnknown, UnprepareBegin, nodeVars
  <2>2. CASE UnprepareFailed
    BY <1>1, <2>2 DEF UnprepareFailed, nodeVars
  <2>3. CASE Forget
    <3>1. UNCHANGED <<cdi, dirs, ports>>
      BY <2>3 DEF Forget
    <3>2. UNCHANGED store \/ store' = [store EXCEPT ![cur] = {}]
      BY <2>3 DEF Forget, StoreDelete
    <3> QED
      BY <3>1, <3>2 DEF Spared, IInv, TypeOK, StoreTypeOK
  <2> QED
    BY <1>4, <2>1, <2>2, <2>3 DEF UnprepareStep
<1>5. CASE LoopDone \/ Reply \/ ReplyLost
  BY <1>1, <1>5 DEF LoopDone, Reply, ReplyLost, nodeVars
<1> QED
  BY <1>2, <1>3, <1>4, <1>5 DEF Handler

(* ClaimsAreIsolated for every instance, if UIDs differ in the part that   *)
(* ovsPortName keeps: a step for one claim leaves the others alone.        *)
THEOREM IsolatedClaims ==
  ASSUME DistinctDirs, DistinctPrefixes
  PROVE  Spec => ClaimsAreIsolated
<1> DEFINE A == Handler =>
                  \A c \in Claim \ {cur} :
                    /\ store'[c] = store[c]
                    /\ cdi'[c] = cdi[c]
                    /\ \A p \in Users[c], q \in Request :
                         dirs'[getSocketDir(p, c, q)] = dirs[getSocketDir(p, c, q)]
                    /\ \A n \in PortName :
                         (ports[n] # NoPort /\ ports[n].claim = c) => ports'[n] = ports[n]
<1>1. IInv /\ ResourceInv => [A]_vars
  BY HandlerSpares DEF Spared
<1>2. Spec => []IInv /\ []ResourceInv
  BY InductiveInvariant, ResourcesAreAccountedFor
<1> QED
  BY <1>1, <1>2, PTL DEF Spec, ClaimsAreIsolated

-----------------------------------------------------------------------------
(* A prepare fails only for a cause.                                       *)

(* The MTUs change only the way MtuInv allows.                             *)
LEMMA MtuFrame ==
  ASSUME MtuInv,
         \/ UNCHANGED allocatable
         \/ DeviceStateReset
         \/ \E mtus \in [Bridge -> MTU \cup {ZeroMTU}] : UpdatePolicyDevices(mtus),
         mtu' \in {mtu, ZeroMTU} \/ \E b \in Bridge : mtu' = allocatable[b]
  PROVE  MtuInv'
<1>1. \A b \in Bridge : allocatable'[b] \in ValidMTU \cup {ZeroMTU}
  <2>1. CASE UNCHANGED allocatable
    BY <2>1 DEF MtuInv
  <2>2. CASE DeviceStateReset
    BY <2>2 DEF DeviceStateReset
  <2>3. CASE \E mtus \in [Bridge -> MTU \cup {ZeroMTU}] : UpdatePolicyDevices(mtus)
    BY <2>3 DEF UpdatePolicyDevices
  <2> QED
    BY <2>1, <2>2, <2>3
<1>2. mtu' \in ValidMTU \cup {ZeroMTU}
  BY DEF MtuInv
<1> QED
  BY <1>1, <1>2 DEF MtuInv

(* So does every step of the driver.                                       *)
LEMMA MtuStep ==
  ASSUME IInv, MtuInv, [Next]_vars
  PROVE  MtuInv'
<1>1. CASE PrepareStep
  <2>1. UNCHANGED allocatable
    BY <1>1 DEF PrepareStep, PrepareGetFails, PrepareCached, PrepareRefused, PrepareBegin,
       CheckConfig, MakeSocketDir, MakePort, RemoveFailedDir, NoResults, WriteSpec, Checkpoint,
       UpdateStatus, memoryVars
  <2>2. CASE MakeSocketDir
    <3>1. cur \in Claim /\ dev \in OwnResults(cur)
      BY <2>2, DevsAreRecords DEF MakeSocketDir, PreparingAt, IInv, ControlInv
    <3>2. dev.device \in Bridge
      BY <3>1, OwnResultType
    <3> QED
      BY <2>1, <2>2, <3>2, MtuFrame DEF MakeSocketDir, Rollback
  <2>3. CASE ~MakeSocketDir
    <3>1. mtu' \in {mtu, ZeroMTU}
      BY <1>1, <2>3 DEF PrepareStep, PrepareGetFails, PrepareCached, PrepareRefused, PrepareBegin,
         CheckConfig, MakePort, RemoveFailedDir, NoResults, WriteSpec, Checkpoint, UpdateStatus,
         Abort, Continue, DropWork, Rollback, workVars
    <3> QED
      BY <2>1, <3>1, MtuFrame
  <2> QED
    BY <2>2, <2>3
<1>2. CASE UndoStep \/ UnprepareStep \/ LoopDone \/ Reply \/ ReplyLost \/ Kubelet
  <2>1. UNCHANGED allocatable
    BY <1>2 DEF UndoStep, UndoSpec, UndoPort, UndoDir, RolledBack, UnprepareStep,
       UnprepareGetFails, UnprepareUnknown, UnprepareBegin, UnprepareFailed, Forget,
       LoopDone, Reply, ReplyLost, Kubelet, PrepareResourceClaims, UnprepareResourceClaims,
       Receive, memoryVars
  <2>2. mtu' \in {mtu, ZeroMTU}
    BY <1>2 DEF UndoStep, UndoSpec, UndoPort, UndoDir, RolledBack, UnprepareStep,
       UnprepareGetFails, UnprepareUnknown, UnprepareBegin, UnprepareFailed, Forget,
       LoopDone, Reply, ReplyLost, Kubelet, PrepareResourceClaims, UnprepareResourceClaims,
       Receive, Abort, Continue, DropWork, workVars
  <2> QED
    BY <2>1, <2>2, MtuFrame
<1>3. CASE Crash \/ Reboot
  <2>1. DeviceStateReset /\ mtu' = ZeroMTU
    BY <1>3 DEF Crash, Reboot, DropWork
  <2> QED
    BY <2>1, MtuFrame
<1>4. CASE Surroundings
  <2>1. mtu' = mtu
    BY <1>4 DEF Surroundings, OvsRestart, BridgeRemoved, BridgeAdded, ConfigReconciled,
       PolicyReconciled, workVars
  <2>2. \/ UNCHANGED allocatable
        \/ \E mtus \in [Bridge -> MTU \cup {ZeroMTU}] : UpdatePolicyDevices(mtus)
    BY <1>4 DEF Surroundings, OvsRestart, BridgeRemoved, BridgeAdded, ConfigReconciled,
       PolicyReconciled, UpdateConfig, memoryVars
  <2> QED
    BY <2>1, <2>2, MtuFrame
<1>5. CASE UNCHANGED vars
  BY <1>5, MtuFrame DEF vars, memoryVars, workVars
<1> QED
  BY <1>1, <1>2, <1>3, <1>4, <1>5 DEF Next, Handler, Environment

(* When CreatePort is refused although no port of the claim was left over, *)
(* the name is taken by another device of the same claim.                  *)
LEMMA NameIsTaken ==
  ASSUME DistinctPrefixes, IInv, ResourceInv, pc = "port", cur \notin leaky,
         ports[ovsPortName(cur, dev.request)] # NoPort
  PROVE  ~Preparable(cur)
<1> DEFINE n == ovsPortName(cur, dev.request)
<1>1. /\ cur \in Claim /\ pod \in Users[cur] /\ PortsAmong(cur, devs)
      /\ dev \in OwnResults(cur) \ todo
      /\ devs = {preparedDevice(pod, cur, r) : r \in OwnResults(cur) \ (todo \cup {dev})}
  BY PreparingFacts DEF PreparingAt, IInv, ControlInv, PrepareInv
<1>2. n \in PortName
  BY <1>1, OwnResultType, PortNameType
<1>3. ports[n].claim = cur
  <2> DEFINE pd == preparedDevice(pod, cur, dev)
  <2>1. pd \in RecordsOf(cur) /\ pd.port = n
    BY SMTT(60), <1>1, RecordFields DEF RecordsOf
  <2>2. ports[n].claim \in Claim
    BY SMTT(60), <1>2 DEF IInv, TypeOK, OvsTypeOK, PortRow
  <2> HIDE DEF pd
  <2> QED
    BY <1>1, <2>1, <2>2, PortOwner
<1>4. PICK pd \in devs : pd.port = n
  BY <1>1, <1>2, <1>3 DEF PortsAmong
<1>5. PICK r \in OwnResults(cur) \ (todo \cup {dev}) : pd = preparedDevice(pod, cur, r)
  BY SMTT(60), <1>1, <1>4
<1>6. ovsPortName(cur, r.request) = ovsPortName(cur, dev.request)
  BY SMTT(60), <1>1, <1>4, <1>5, RecordFields
<1>7. r.request = dev.request /\ r # dev
  BY SMTT(60), <1>5, <1>6 DEF ovsPortName
<1> QED
  BY <1>1, <1>5, <1>7 DEF Preparable

(* Every step by which a prepare turns to failure.                         *)
LEMMA TurnsForACause ==
  ASSUME DistinctPrefixes, IInv, ResourceInv, MtuInv, Handler,
         ~PrepareFailing, PrepareFailing', faults' = faults
  PROVE  PrepareObstacle
<1>1. ~Fails /\ ~FailsLeaking
  <2>1. faults \in Nat
    BY SMTT(60), FaultsAssumption DEF IInv, TypeOK
  <2>2. faults' # faults + 1
    BY SMTT(60), <2>1
  <2> QED
    BY <2>2 DEF Fails, FailsLeaking
<1>2. ~(UNCHANGED <<op, failed>> /\ pc' \notin {"rmdir", "undo", "undoPort", "undoDir"})
  BY DEF PrepareFailing
<1>3. CASE PrepareStep
  <2>1. ASSUME NEW c \in Claim,
               PrepareGetFails(c) \/ PrepareCached(c) \/ PrepareRefused(c) \/ PrepareBegin(c)
        PROVE  PrepareObstacle
    <3>1. PrepareRefused(c)
      BY <1>1, <1>2, <2>1 DEF PrepareGetFails, PrepareCached, PrepareBegin, Continue, callVars
    <3>2. Misconfigured(c) /\ c \in batch /\ pc = "next"
      BY <1>1, <3>1 DEF PrepareRefused
    <3>3. cur = NoClaim
      BY <3>2 DEF IInv, ControlInv, NoWork
    <3> QED
      BY <3>2, <3>3 DEF PrepareObstacle
  <2>2. ASSUME NEW r \in todo, CheckConfig(r)
        PROVE  PrepareObstacle
    BY <1>2, <2>2 DEF CheckConfig, callVars, PrepareObstacle
  <2>3. CASE MakeSocketDir \/ Checkpoint \/ UpdateStatus
    BY <1>1, <1>2, <2>3 DEF MakeSocketDir, Checkpoint, UpdateStatus, Continue, callVars
  <2>4. CASE MakePort
    <3> DEFINE row == [claim |-> cur, bridge |-> dev.device, mtu |-> mtu,
                       params |-> ovsPortParams(portConfig(cur, dev.request))]
    <3>1. pc = "port" /\ CreatePortRefused(dev.device, ovsPortName(cur, dev.request), row)
      BY <1>1, <1>2, <2>4 DEF MakePort, callVars
    <3>2. row.mtu = mtu
      OBVIOUS
    <3>3. CASE mtu \notin ValidMTU
      BY <3>1, <3>3 DEF MtuInv, PrepareObstacle
    <3>4. CASE ports[ovsPortName(cur, dev.request)] # NoPort
      <4>1. cur \in Claim /\ cur # NoClaim
        BY <3>1, PreparingFacts, NullAssumption DEF PreparingAt
      <4> QED
        BY <3>1, <3>4, <4>1, NameIsTaken DEF PrepareObstacle
    <3> QED
      BY <3>1, <3>2, <3>3, <3>4 DEF CreatePortRefused
  <2>5. CASE RemoveFailedDir
    BY <2>5 DEF RemoveFailedDir, PrepareFailing, IInv, ControlInv, PreparingAt
  <2>6. CASE NoResults
    <3>1. cur \in Claim /\ cur # NoClaim
      BY <2>6, PreparingFacts, NullAssumption DEF PreparingAt, NoResults
    <3>2. {preparedDevice(pod, cur, r) : r \in OwnResults(cur) \ {}} = {}
      BY <2>6 DEF NoResults, IInv, PrepareInv
    <3>3. OwnResults(cur) = {}
      BY SMTT(60), <3>2
    <3> QED
      BY <3>1, <3>3 DEF PrepareObstacle, Preparable
  <2>7. CASE WriteSpec
    <3>1. pc = "check" /\ DuplicateDevices(cur)
      BY <1>1, <1>2, <2>7 DEF WriteSpec, callVars
    <3>2. cur \in Claim /\ cur # NoClaim
      BY <3>1, PreparingFacts, NullAssumption DEF PreparingAt
    <3> QED
      BY <3>1, <3>2 DEF DuplicateDevices, PrepareObstacle, Preparable
  <2> QED
    BY <1>3, <2>1, <2>2, <2>3, <2>4, <2>5, <2>6, <2>7 DEF PrepareStep
<1>4. CASE UndoStep
  <2>1. pc \in {"undo", "undoPort", "undoDir"} /\ op' = op
    BY <1>4 DEF UndoStep, UndoSpec, UndoPort, UndoDir, RolledBack, Abort, callVars
  <2> QED
    BY <2>1 DEF PrepareFailing
<1>5. CASE UnprepareStep
  <2>1. op = "unprepare" /\ op' = op
    BY <1>5 DEF UnprepareStep, UnprepareGetFails, UnprepareUnknown, UnprepareBegin,
       UnprepareFailed, Forget, Abort, Continue, callVars
  <2> QED
    BY <2>1 DEF PrepareFailing
<1>6. CASE LoopDone \/ Reply \/ ReplyLost
  BY <1>2, <1>6 DEF LoopDone, Reply, ReplyLost, EndCall, callVars, PrepareFailing
<1> QED
  BY <1>3, <1>4, <1>5, <1>6 DEF Handler

(* PrepareFailsForACause for every instance, if UIDs differ in the part    *)
(* that ovsPortName keeps: retries start from where the first attempt did. *)
THEOREM PreparesFailForACause ==
  ASSUME DistinctDirs, DistinctPrefixes
  PROVE  Spec => PrepareFailsForACause
<1>1. Init => MtuInv
  BY DEF Init, DeviceStateInit, NoWork, MtuInv
<1>2. IInv /\ MtuInv /\ [Next]_vars => MtuInv'
  BY MtuStep
<1>3. IInv /\ ResourceInv /\ MtuInv =>
        [~PrepareFailing /\ PrepareFailing' /\ faults' = faults /\ Handler => PrepareObstacle]_vars
  BY TurnsForACause
<1> QED
  BY <1>1, <1>2, <1>3, InductiveInvariant, ResourcesAreAccountedFor, PTL DEF Spec,
     PrepareFailsForACause

-----------------------------------------------------------------------------
(* The permissions of the directories.                                     *)

(* A step that at most removes directories and records.                    *)
LEMMA PermissionsFrame ==
  ASSUME IInv, PermissionsInv, \A c \in Claim : store'[c] \in {store[c], {}},
         \A d \in Dir : dirs'[d] \in {dirs[d], Absent},
         pc' \in PreparingAt => devs' = {} \/ (pc \in PreparingAt /\ devs' = devs),
         pc' = "port" => pc = "port" /\ UNCHANGED <<pod, cur, dev>>
  PROVE  PermissionsInv'
<1>1. \A d \in Dir : dirs[d] # NoConfig => dirs'[d] # NoConfig
  BY NullAssumption DEF Permissions
<1>2. \A pd \in DeviceRecord : pd.dir \in Dir
  BY DEF DeviceRecord
<1>3. PreparedWithConfig'
  BY <1>1, <1>2 DEF PermissionsInv, PreparedWithConfig, IInv, TypeOK, StoreTypeOK
<1>4. (pc \in PreparingAt => \A pd \in devs : dirs[pd.dir] # NoConfig)'
  BY <1>1, <1>2 DEF PermissionsInv, IInv, TypeOK
<1>5. (pc = "port" => dirs[getSocketDir(pod, cur, dev.request)] # NoConfig)'
  <2> SUFFICES ASSUME pc' = "port"
               PROVE  dirs'[getSocketDir(pod, cur, dev.request)] # NoConfig
    OBVIOUS
  <2>1. pc = "port" /\ cur \in Claim /\ pod \in Pod /\ dev \in OwnResults(cur)
    BY DevsAreRecords DEF PreparingAt, IInv, ControlInv
  <2>2. getSocketDir(pod, cur, dev.request) \in Dir
    BY <2>1, OwnResultType, DirType
  <2> QED
    BY <1>1, <2>1, <2>2 DEF PermissionsInv
<1> QED
  BY <1>3, <1>4, <1>5 DEF PermissionsInv

(* The directory is made with the configuration, if there still is one,    *)
(* whatever was there before.                                              *)
LEMMA MakeSocketDirPermissions ==
  ASSUME DistinctDirs, IInv, PermissionsInv, MakeSocketDir, config # NoConfig
  PROVE  PermissionsInv'
<1> DEFINE d == getSocketDir(pod, cur, dev.request)
<1>1. /\ pc = "mkdir" /\ cur \in Claim /\ pod \in Pod /\ pod \in Users[cur] /\ store[cur] = {}
      /\ dev \in OwnResults(cur) /\ devs \subseteq DeviceRecord /\ UNCHANGED store
  BY DevsAreRecords DEF MakeSocketDir, PreparingAt, IInv, TypeOK, ControlInv
<1>2. d \in Dir
  BY <1>1, OwnResultType, DirType
<1>3. dirs \in [Dir -> Permissions \cup {Absent}] /\ Absent # NoConfig
  BY NullAssumption DEF IInv, TypeOK, SocketFSTypeOK, Permissions
<1>4. UNCHANGED dirs \/ \E v : dirs' = [dirs EXCEPT ![d] = v]
  BY DEF MakeSocketDir, CreateSocketDir, MkdirFails, PermissionsFail, PermissionsFailAndStay
<1>5. PreparedWithConfig'
  <2> SUFFICES ASSUME NEW c \in Claim, NEW pd \in store[c]
               PROVE  dirs'[pd.dir] # NoConfig
    BY <1>1 DEF PreparedWithConfig
  <2>1. c # cur
    BY <1>1
  <2>2. dirs'[pd.dir] = dirs[pd.dir]
    BY <1>1, <1>4, <2>1, OtherDirs
  <2> QED
    BY <2>2 DEF PermissionsInv, PreparedWithConfig
<1>6. CASE CreateSocketDir(d, config) /\ pc' = "port" /\ UNCHANGED <<pod, cur, dev, devs>>
  <2>1. dirs'[d] = config
    BY <1>2, <1>3, <1>6 DEF CreateSocketDir
  <2>2. ASSUME NEW pd \in devs
        PROVE  dirs'[pd.dir] # NoConfig
    <3>1. pd.dir \in Dir /\ dirs[pd.dir] # NoConfig
      BY <1>1 DEF PermissionsInv, PreparingAt, DeviceRecord
    <3> QED
      BY <1>3, <1>6, <3>1 DEF CreateSocketDir
  <2>3. (\A pd \in devs : dirs[pd.dir] # NoConfig)'
    BY <1>6, <2>2
  <2>4. (dirs[getSocketDir(pod, cur, dev.request)] # NoConfig)'
    BY <1>6, <2>1
  <2> QED
    BY <1>5, <2>3, <2>4 DEF PermissionsInv
<1>7. CASE pc' = "undo"
  BY <1>5, <1>7 DEF PermissionsInv, PreparingAt
<1> QED
  BY <1>6, <1>7 DEF MakeSocketDir, Rollback, callVars

(* The new device's directory is the one that was just made.               *)
LEMMA MakePortPermissions ==
  ASSUME IInv, PermissionsInv, MakePort
  PROVE  PermissionsInv'
<1>1. pc = "port" /\ UNCHANGED <<store, dirs>>
  BY DEF MakePort
<1>2. CASE pc' = "rmdir" /\ UNCHANGED workVars
  BY <1>1, <1>2, PermissionsFrame DEF workVars, PreparingAt
<1>3. CASE pc' = "check" /\ devs' = devs \cup {preparedDevice(pod, cur, dev)}
  <2>1. preparedDevice(pod, cur, dev).dir = getSocketDir(pod, cur, dev.request)
    BY SMTT(60), RecordFields
  <2>2. \A pd \in devs \cup {preparedDevice(pod, cur, dev)} : dirs[pd.dir] # NoConfig
    BY <1>1, <2>1 DEF PermissionsInv, PreparingAt
  <2>3. (\A pd \in devs : dirs[pd.dir] # NoConfig)'
    BY <1>1, <1>3, <2>2
  <2>4. PreparedWithConfig'
    BY <1>1 DEF PermissionsInv, PreparedWithConfig
  <2> QED
    BY <1>3, <2>3, <2>4 DEF PermissionsInv
<1> QED
  BY <1>2, <1>3 DEF MakePort

(* The record is that of the devices in hand.                              *)
LEMMA CheckpointPermissions ==
  ASSUME IInv, PermissionsInv, Checkpoint
  PROVE  PermissionsInv'
<1>1. pc = "set" /\ pc' \in {"status", "undo"} /\ UNCHANGED dirs
  BY DEF Checkpoint, Rollback
<1>2. PICK k \in Claim : k = cur
  BY <1>1, DevsAreRecords DEF PreparingAt
<1>3. store' = store \/ store' = [store EXCEPT ![k] = devs]
  BY <1>2 DEF Checkpoint, StoreSet
<1>4. \A c \in Claim : store'[c] = store[c] \/ store'[c] = devs
  BY <1>3 DEF IInv, TypeOK, StoreTypeOK
<1>5. PreparedWithConfig'
  BY <1>1, <1>4 DEF PermissionsInv, PreparedWithConfig, PreparingAt
<1> QED
  BY <1>1, <1>5 DEF PermissionsInv, PreparingAt

(* Every step keeps the permissions, if the configuration is there when    *)
(* it is read for the second time.                                         *)
LEMMA NextPermissions ==
  ASSUME DistinctDirs, IInv, PermissionsInv, [Next]_vars, pc = "mkdir" => config # NoConfig
  PROVE  PermissionsInv'
<1>1. CASE UNCHANGED vars \/ Surroundings
  <2>1. UNCHANGED <<store, dirs, pc, pod, cur, dev, devs>>
    BY <1>1 DEF vars, nodeVars, callVars, workVars, Surroundings, OvsRestart, BridgeRemoved,
       BridgeAdded, ConfigReconciled, PolicyReconciled
  <2> QED
    BY <2>1, PermissionsFrame
<1>2. CASE Kubelet \/ LoopDone \/ Reply \/ ReplyLost \/ Crash
  <2>1. pc' \in {"next", "reply", "idle"} /\ UNCHANGED <<store, dirs>>
    BY <1>2 DEF Kubelet, PrepareResourceClaims, UnprepareResourceClaims, Receive, LoopDone, Reply,
       ReplyLost, Crash, EndCall, nodeVars
  <2> QED
    BY <2>1, PermissionsFrame DEF PreparingAt
<1>3. ASSUME NEW c \in Claim,
             PrepareGetFails(c) \/ PrepareCached(c) \/ PrepareRefused(c) \/ PrepareBegin(c)
      PROVE  PermissionsInv'
  <2>1. /\ pc' \in {"next", "reply", "check"} /\ UNCHANGED <<store, dirs>>
        /\ pc' = "check" => devs' = devs /\ pc = "next"
    BY <1>3 DEF PrepareGetFails, PrepareCached, PrepareRefused, PrepareBegin, Abort, Continue,
       nodeVars
  <2>2. pc = "next" => devs = {}
    BY DEF IInv, ControlInv, NoWork
  <2> QED
    BY <2>1, <2>2, PermissionsFrame DEF PreparingAt
<1>4. CASE (\E r \in todo : CheckConfig(r)) \/ WriteSpec
  <2>1. /\ pc = "check" /\ pc' \in {"undo", "mkdir", "set"} /\ UNCHANGED <<store, dirs>>
        /\ pc' # "undo" => devs' = devs
    BY <1>4 DEF CheckConfig, WriteSpec, Rollback, nodeVars, workVars
  <2> QED
    BY <2>1, PermissionsFrame DEF PreparingAt
<1>5. CASE RemoveFailedDir \/ NoResults \/ UpdateStatus \/ UndoStep
  <2>1. pc' \in {"undo", "undoPort", "undoDir", "reply", "next"} /\ UNCHANGED store
    BY <1>5 DEF RemoveFailedDir, NoResults, UpdateStatus, UndoStep, UndoSpec, UndoPort, UndoDir,
       RolledBack, Rollback, Abort, Continue, nodeVars
  <2>2. UNCHANGED dirs \/ \E d : dirs' = [dirs EXCEPT ![d] = Absent]
    BY <1>5 DEF RemoveFailedDir, NoResults, UpdateStatus, UndoStep, UndoSpec, UndoPort, UndoDir,
       RolledBack, RemoveSocketDir, nodeVars
  <2>3. \A d \in Dir : dirs'[d] \in {dirs[d], Absent}
    BY <2>2 DEF IInv, TypeOK, SocketFSTypeOK
  <2> QED
    BY <2>1, <2>3, PermissionsFrame DEF PreparingAt
<1>6. CASE UnprepareStep
  <2>1. pc' \in {"undo", "next", "reply"} /\ UNCHANGED dirs
    BY <1>6 DEF UnprepareStep, UnprepareGetFails, UnprepareUnknown, UnprepareBegin,
       UnprepareFailed, Forget, Abort, Continue, nodeVars
  <2>2. store' = store \/ store' = [store EXCEPT ![cur] = {}]
    BY <1>6 DEF UnprepareStep, UnprepareGetFails, UnprepareUnknown, UnprepareBegin,
       UnprepareFailed, Forget, StoreDelete, nodeVars
  <2>3. \A c \in Claim : store'[c] \in {store[c], {}}
    BY <2>2 DEF IInv, TypeOK, StoreTypeOK
  <2> QED
    BY <2>1, <2>3, PermissionsFrame DEF PreparingAt
<1>7. CASE Reboot
  <2>1. /\ pc' = "idle" /\ \A c \in Claim : store'[c] = {}
        /\ \A d \in Dir : dirs'[d] = Absent
    BY <1>7 DEF Reboot, EndCall, StoreLost
  <2> QED
    BY <2>1, PermissionsFrame DEF PreparingAt
<1>8. CASE MakeSocketDir
  BY <1>8, MakeSocketDirPermissions DEF MakeSocketDir
<1> QED
  BY <1>1, <1>2, <1>3, <1>4, <1>5, <1>6, <1>7, <1>8, MakePortPermissions, CheckpointPermissions
     DEF Next, Handler, PrepareStep, Environment

(* PreparedWithKeptConfig for every instance: the window between the two   *)
(* reads of the configuration is the only cause of a device prepared       *)
(* without one.                                                            *)
THEOREM ConfigMissesOnlyBetweenReads ==
  ASSUME DistinctDirs
  PROVE  Spec => PreparedWithKeptConfig
<1>1. Init => PermissionsInv
  BY DEF Init, StoreInit, NoCall, PermissionsInv, PreparedWithConfig, PreparingAt
<1>2. IInv /\ PermissionsInv /\ [Next]_vars /\ (pc = "mkdir" => config # NoConfig)
        => PermissionsInv'
  BY NextPermissions
<1>3. PermissionsInv => PreparedWithConfig
  BY DEF PermissionsInv
<1> QED
  BY <1>1, <1>2, <1>3, InductiveInvariant, PTL DEF Spec, PreparedWithKeptConfig
=============================================================================
