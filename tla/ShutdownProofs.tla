--------------------------- MODULE ShutdownProofs ---------------------------
(***************************************************************************)
(* The end of the process, for any number of claims, faults and calls the  *)
(* helper holds: what Driver guarantees is not lost when the driver is     *)
(* stopped at any moment and started again, and a handler that             *)
(* Driver.Stop waits for is not harmed by the shutdown.                    *)
(*                                                                         *)
(* Four steps of Shutdown are none of Driver's: a call of the closed store *)
(* or of the closed client, and the end of the process.  All others are    *)
(* covered by NextStep and NextResources.                                  *)
(***************************************************************************)
EXTENDS ResourceProofs, PromiseProofs, Shutdown

(* First-order leaves go to Zenon; a leaf for the SMT solver says SMTT.    *)
USE ZenonT(60), SMTT(60)

(* A handler that was entered before Wait returned runs only while the     *)
(* store is open and the client is connected.                              *)
LateInv ==
  /\ stage \in Stage
  /\ late \in BOOLEAN
  /\ pc # "idle" /\ ~late => stage \in {"serving", "stopping"}

-----------------------------------------------------------------------------
(* The four steps preserve IInv.                                           *)

(* A closed store: Set fails and the preparation is rolled back, Get and   *)
(* Delete fail and the call is given up.                                   *)
LEMMA StoreClosedStep ==
  ASSUME IInv, StoreClosed
  PROVE  IInv'
<1>1. /\ UNCHANGED <<kubeVars, nodeVars, memoryVars>>
      /\ faults' \in 0 .. MaxFaults /\ leaky' \subseteq Claim
  BY OutcomeType DEF StoreClosed, IInv
<1>2. CASE pc = "set" /\ Rollback
  <2>1. /\ op = "prepare" /\ cur \in batch /\ cur \in Claim /\ store[cur] = {}
        /\ devs \subseteq RecordsOf(cur) /\ devs \subseteq DeviceRecord
    BY <1>2, DevsAreRecords, RecordsOfType DEF IInv, ControlInv, PreparingAt
  <2>2. /\ UNCHANGED <<kview, holder, store, cdi, dirs, bridges, ports, config, allocatable>>
        /\ UNCHANGED <<op, pod, batch, ok, failed, cur, err>>
    BY <1>1, <1>2 DEF Rollback, kubeVars, nodeVars, memoryVars, callVars
  <2>3. TypeOK'
    BY <1>1, <1>2, <2>1, <2>2, NodeTypeFrame DEF Rollback, IInv, TypeOK, PC
  <2>4. ControlInv'
    BY <1>2, <2>1, <2>2 DEF Rollback, IInv, ControlInv, PreparingAt, UndoingAt
  <2>5. KubeletInv'
    BY <2>2 DEF IInv, KubeletInv
  <2>6. PrepareInv'
    BY <1>2, <2>1, <2>2 DEF Rollback, PrepareInv, PreparingAt, UndoingAt
  <2>7. RecordInv'
    BY <2>2 DEF IInv, RecordInv
  <2> QED
    BY <2>3, <2>4, <2>5, <2>6, <2>7 DEF IInv
<1>3. CASE pc # "idle" /\ Abort
  BY <1>1, <1>3, AbortFrame
<1> QED
  BY <1>2, <1>3 DEF StoreClosed, AtStore

(* CreatePort of a closed client: the directory is removed next.           *)
LEMMA CreatePortDisconnectedStep ==
  ASSUME IInv, CreatePortDisconnected
  PROVE  IInv'
<1>1. /\ pc = "port" /\ pc' = "rmdir"
      /\ UNCHANGED <<kubeVars, nodeVars, memoryVars, callVars, workVars, faults, leaky>>
  BY DEF CreatePortDisconnected, Succeeds
<1>2. UNCHANGED <<kview, holder, store, cdi, dirs, bridges, ports, config, allocatable,
                  op, pod, batch, ok, failed, cur, todo, devs, dev, mtu, undo, err>>
  BY <1>1 DEF kubeVars, nodeVars, memoryVars, callVars, workVars
<1>3. TypeOK'
  BY <1>1, <1>2, NodeTypeFrame DEF IInv, TypeOK, PC
<1>4. ControlInv'
  BY <1>1, <1>2 DEF IInv, ControlInv, PreparingAt, UndoingAt
<1>5. KubeletInv' /\ RecordInv'
  BY <1>2 DEF IInv, KubeletInv, RecordInv
<1>6. PrepareInv'
  BY <1>1, <1>2 DEF IInv, PrepareInv, PreparingAt, UndoingAt
<1> QED
  BY <1>3, <1>4, <1>5, <1>6 DEF IInv

(* DeletePort of a closed client: the error is noted, the loop goes on.    *)
LEMMA DeletePortDisconnectedStep ==
  ASSUME IInv, DeletePortDisconnected
  PROVE  IInv'
<1>1. /\ pc = "undoPort" /\ pc' = "undoDir" /\ err' = TRUE /\ cur \in Claim /\ cur \in batch
      /\ UNCHANGED <<kubeVars, nodeVars, memoryVars, callVars, faults>>
      /\ leaky' \subseteq leaky \cup {cur}
  BY UndoingFacts DEF DeletePortDisconnected, UndoingAt
<1>2. UNCHANGED <<kview, holder, store, cdi, dirs, bridges, ports, config, allocatable,
                  op, pod, batch, ok, failed, cur, todo, devs, dev, mtu, undo>>
  BY <1>1 DEF DeletePortDisconnected, kubeVars, nodeVars, memoryVars, callVars
<1>3. TypeOK'
  BY <1>1, <1>2, NodeTypeFrame DEF IInv, TypeOK, PC
<1>4. ControlInv'
  BY <1>1, <1>2 DEF IInv, ControlInv, PreparingAt, UndoingAt
<1>5. KubeletInv' /\ RecordInv'
  BY <1>2 DEF IInv, KubeletInv, RecordInv
<1>6. PrepareInv'
  BY <1>1, <1>2 DEF IInv, PrepareInv, PreparingAt, UndoingAt
<1> QED
  BY <1>3, <1>4, <1>5, <1>6 DEF IInv

(* The end of the process: as a crash, but not a fault.                    *)
LEMMA ExitStep ==
  ASSUME IInv, Exit
  PROVE  IInv'
<1>1. NoWork' /\ EndCall /\ UNCHANGED <<kubeVars, nodeVars, faults>>
  BY DEF Exit, DropWork, NoWork
<1>2. DeviceStateTypeOK'
  BY DEF Exit, DeviceStateReset, DeviceStateTypeOK, Permissions
<1>3. faults' \in 0 .. MaxFaults /\ leaky' \subseteq Claim
  BY DEF Exit, IInv, TypeOK
<1> QED
  BY <1>1, <1>2, <1>3, EndCallFrame

-----------------------------------------------------------------------------
(* The four steps preserve ResourceInv.                                    *)

(* The closed store refuses a call: as a failed call of the store.         *)
LEMMA StoreClosedResources ==
  ASSUME IInv, ResourceInv, StoreClosed
  PROVE  ResourceInv'
<1>1. UNCHANGED <<store, cdi, dirs, ports, leaky>>
  BY DEF StoreClosed, Succeeds, nodeVars
<1>2. CASE pc = "set" /\ Rollback
  <2>1. pc \in PreparingAt /\ InHand = {}
    BY <1>2 DEF PreparingAt, InHand
  <2>2. cur \notin leaky => DirsAmong(cur, devs)
    BY <2>1, PreparingFacts
  <2>3. \A c \in Claim : Spared(c)
    BY <1>1 DEF Spared
  <2> QED
    BY <1>1, <1>2, <2>1, <2>2, <2>3, RollbackFrame DEF DirsAmong
<1>3. CASE pc = "next" /\ Abort
  BY <1>1, <1>3, BetweenFrame DEF Abort, DropWork, UndoingAt
<1>4. CASE pc = "undo" /\ op = "unprepare" /\ Abort
  <2>1. store[cur] # {}
    BY <1>4 DEF ResourceInv, UndoneInv, UndoingAt
  <2> QED
    BY <1>1, <1>4, <2>1, EndFrame DEF Abort, DropWork, UndoingAt
<1> QED
  BY <1>2, <1>3, <1>4 DEF StoreClosed, AtStore

(* A port cannot be created any more: as a failed transaction.             *)
LEMMA CreatePortDisconnectedResources ==
  ASSUME IInv, ResourceInv, CreatePortDisconnected
  PROVE  ResourceInv'
<1>1. /\ pc = "port" /\ pc \in PreparingAt /\ pc' = "rmdir"
      /\ UNCHANGED <<store, cdi, dirs, ports, leaky, op, pod, cur, devs, dev>>
  BY DEF CreatePortDisconnected, Succeeds, PreparingAt, nodeVars, callVars, workVars
<1>2. PICK k \in Claim : k = cur
  BY <1>1, PreparingFacts
<1>3. (devs \cup InHand)' = devs \cup InHand
  BY <1>1 DEF InHand
<1>4. op' = "prepare" /\ store'[k] = {} /\ cur' = k
  BY <1>1, <1>2, PreparingFacts
<1>5. (\A c \in Claim \ {k} : Spared(c)) /\ PortsOnlyFor(k)
  BY <1>1 DEF Spared, PortsOnlyFor
<1>6. PortsAmong(k, RecordsOf(k))'
  BY SMTT(60), <1>1, <1>2, PreparingFacts DEF PortsAmong
<1>7. ASSUME k \notin leaky'
      PROVE  cdi'[k] = {} /\ DirsAmong(k, devs \cup InHand)' /\ PortsAmong(k, devs)'
  <2>1. cdi[k] = {} /\ DirsAmong(k, devs \cup InHand) /\ PortsAmong(k, devs)
    BY <1>1, <1>2, <1>7, PreparingFacts
  <2>2. DirsAmong(k, devs \cup InHand)'
    BY <1>1, <1>3, <2>1 DEF DirsAmong
  <2>3. PortsAmong(k, devs)'
    BY <1>1, <2>1 DEF PortsAmong
  <2> QED
    BY <1>1, <2>1, <2>2, <2>3
<1> QED
  BY <1>1, <1>2, <1>4, <1>5, <1>6, <1>7, PreparingFrame DEF PreparingAt

(* A port cannot be deleted any more: as a failed transaction.             *)
LEMMA DeletePortDisconnectedResources ==
  ASSUME IInv, ResourceInv, DeletePortDisconnected
  PROVE  ResourceInv'
<1>1. /\ pc = "undoPort" /\ pc \in UndoingAt /\ pc' = "undoDir" /\ err' = TRUE
      /\ UNCHANGED <<store, cdi, dirs, ports, op, cur, dev, undo>>
      /\ leaky \subseteq leaky' /\ (op = "prepare" => cur \in leaky')
  BY DEF DeletePortDisconnected, UndoingAt, nodeVars, callVars
<1>2. PICK k \in Claim : k = cur
  BY <1>1, UndoFacts
<1>3. (\A c \in Claim \ {k} : Spared(c)) /\ NoNewPorts
  BY <1>1 DEF Spared, NoNewPorts
<1>4. ASSUME op = "unprepare"
      PROVE  UndoneInv'
  BY <1>1, <1>4 DEF ResourceInv, UndoneInv
<1>5. ASSUME k \notin leaky', op = "unprepare"
      PROVE  AccountedRecorded(k)'
  <2>1. (store[k] # {} => DirsAmong(k, store[k])) /\ cdi[k] = {}
    BY <1>1, <1>2, <1>5 DEF ResourceInv, Accounted, AccountedRecorded
  <2> QED
    BY <1>1, <2>1 DEF AccountedRecorded, DirsAmong
<1> QED
  BY <1>1, <1>2, <1>3, <1>4, <1>5, UndoFrame DEF UndoingAt

(* The end of the process forgets a claim only with its record, or makes   *)
(* it leaky.                                                               *)
LEMMA ExitResources ==
  ASSUME IInv, ResourceInv, Exit
  PROVE  ResourceInv'
<1>1. /\ cur' = NoClaim /\ pc' \notin UndoingAt /\ leaky \subseteq leaky'
      /\ UNCHANGED <<store, cdi, dirs, ports>>
  BY DEF Exit, DropWork, EndCall, UndoingAt, nodeVars
<1>2. ASSUME cur \in Claim \ leaky'
      PROVE  store[cur] # {}
  <2>1. cur # NoClaim /\ (op = "prepare" => pc = "status")
    BY <1>2, NullAssumption DEF Exit
  <2>2. CASE pc = "status"
    BY <2>2 DEF IInv, PrepareInv
  <2>3. CASE pc \in UndoingAt
    BY <2>1, <2>3, UndoFacts DEF UndoingAt
  <2>4. CASE pc \in PreparingAt
    BY <2>1, <2>4, PreparingFacts DEF PreparingAt
  <2>5. CASE pc \in {"idle", "next", "reply"}
    BY <2>1, <2>5 DEF IInv, ControlInv, NoWork
  <2> QED
    BY <2>2, <2>3, <2>4, <2>5 DEF IInv, TypeOK, PC, UndoingAt, PreparingAt
<1> QED
  BY <1>1, <1>2, EndFrame

-----------------------------------------------------------------------------
(* Every step of the composition.                                          *)

(* A step is one of the four, or one of Driver.                            *)
LEMMA StopSteps ==
  ASSUME [StopNext]_allVars
  PROVE  \/ StoreClosed \/ CreatePortDisconnected \/ DeletePortDisconnected \/ Exit
         \/ [Next]_vars
<1>1. CASE Enter \/ HandlerStep \/ StopEnvironment
  BY <1>1 DEF Enter, HandlerStep, StopEnvironment, Next, Environment
<1>2. CASE StopHelper \/ WaitHandlers \/ CloseStore \/ CloseClients \/ UNCHANGED allVars
  BY <1>2 DEF StopHelper, WaitHandlers, CloseStore, CloseClients, Advance, allVars
<1> QED
  BY <1>1, <1>2 DEF StopNext, Work, Main

(* Every step of a driver that can be stopped keeps the invariants.        *)
LEMMA StopStep ==
  ASSUME DistinctDirs, IInv, ResourceInv, [StopNext]_allVars
  PROVE  IInv' /\ ResourceInv'
<1>1. CASE [Next]_vars
  BY <1>1, NextStep, NextResources
<1>2. CASE StoreClosed
  BY <1>2, StoreClosedStep, StoreClosedResources
<1>3. CASE CreatePortDisconnected
  BY <1>3, CreatePortDisconnectedStep, CreatePortDisconnectedResources
<1>4. CASE DeletePortDisconnected
  BY <1>4, DeletePortDisconnectedStep, DeletePortDisconnectedResources
<1>5. CASE Exit
  BY <1>5, ExitStep, ExitResources
<1> QED
  BY <1>1, <1>2, <1>3, <1>4, <1>5, StopSteps

(* The steps of the shutdown make no port and no record.                   *)
LEMMA StopStepConfig ==
  ASSUME IInv, ConfigInv, [StopNext]_allVars
  PROVE  ConfigInv'
<1>1. CASE [Next]_vars
  BY <1>1, NextConfig
<1>2. CASE StoreClosed \/ CreatePortDisconnected \/ DeletePortDisconnected \/ Exit
  <2>1. UNCHANGED <<store, ports>>
    BY <1>2 DEF StoreClosed, CreatePortDisconnected, DeletePortDisconnected, Exit, nodeVars
  <2>2. pc' \in PreparingAt => pc \in PreparingAt /\ cur' = cur
    BY <1>2 DEF StoreClosed, Rollback, Abort, CreatePortDisconnected, DeletePortDisconnected,
       Exit, EndCall, workVars, PreparingAt
  <2> QED
    BY <2>1, <2>2, ConfigFrame DEF NoNewPorts
<1> QED
  BY <1>1, <1>2, StopSteps

(* A handler that takes a step runs, and no step of it but one that is     *)
(* counted as a fault makes a claim leaky.                                 *)
LEMMA HandlerRuns ==
  ASSUME Handler
  PROVE  pc # "idle" /\ (faults' = faults /\ faults \in Nat => leaky' = leaky)
<1> USE DEF Succeeds, Fails, FailsLeaking, FailsUndoing
<1>1. CASE PrepareStep
  <2>1. pc # "idle"
    BY <1>1 DEF PrepareStep, PrepareGetFails, PrepareCached, PrepareRefused, PrepareBegin,
       CheckConfig, MakeSocketDir, MakePort, RemoveFailedDir, NoResults, WriteSpec, Checkpoint,
       UpdateStatus
  <2>2. leaky' = leaky \/ faults' = faults + 1
    BY <1>1 DEF PrepareStep, PrepareGetFails, PrepareCached, PrepareRefused, PrepareBegin,
       CheckConfig, MakeSocketDir, MakePort, RemoveFailedDir, NoResults, WriteSpec, Checkpoint,
       UpdateStatus
  <2> QED
    BY SMTT(60), <2>1, <2>2
<1>2. CASE UndoStep \/ UnprepareStep \/ LoopDone \/ Reply \/ ReplyLost
  <2>1. pc # "idle"
    BY <1>2 DEF UndoStep, UndoSpec, UndoPort, UndoDir, RolledBack, UnprepareStep,
       UnprepareGetFails, UnprepareUnknown, UnprepareBegin, UnprepareFailed, Forget,
       LoopDone, Reply, ReplyLost
  <2>2. leaky' = leaky \/ faults' = faults + 1
    BY <1>2 DEF UndoStep, UndoSpec, UndoPort, UndoDir, RolledBack, UnprepareStep,
       UnprepareGetFails, UnprepareUnknown, UnprepareBegin, UnprepareFailed, Forget,
       LoopDone, Reply, ReplyLost
  <2> QED
    BY SMTT(60), <2>1, <2>2
<1> QED
  BY <1>1, <1>2 DEF Handler

(* Wait is what makes LateInv hold: it returns only between calls.         *)
LEMMA LateStep ==
  ASSUME LateInv, [StopNext]_allVars
  PROVE  LateInv'
<1> USE DEF LateInv, Stage
<1>1. CASE Enter
  BY <1>1 DEF Enter
<1>2. CASE HandlerStep
  BY <1>2, HandlerRuns DEF HandlerStep
<1>3. CASE StoreClosed \/ CreatePortDisconnected \/ DeletePortDisconnected
  BY <1>3 DEF StoreClosed, AtStore, StoreOpen, CreatePortDisconnected, DeletePortDisconnected,
     Connected, stopVars
<1>4. CASE StopHelper \/ WaitHandlers \/ CloseStore \/ CloseClients
  <2>1. UNCHANGED <<pc, late>>
    BY <1>4 DEF StopHelper, WaitHandlers, CloseStore, CloseClients, Advance, vars
  <2> QED
    BY <1>4, <2>1 DEF StopHelper, WaitHandlers, CloseStore, CloseClients, Advance
<1>5. CASE Exit \/ ((Crash \/ Reboot) /\ Restarted)
  BY <1>5 DEF Exit, Restarted
<1>6. CASE UNCHANGED allVars \/ (Surroundings /\ UNCHANGED stopVars)
  <2>1. UNCHANGED <<pc, stage, late>>
    BY <1>6 DEF allVars, vars, stopVars, Surroundings, OvsRestart, BridgeRemoved, BridgeAdded,
       ConfigReconciled, PolicyReconciled
  <2> QED
    BY <2>1
<1> QED
  BY <1>1, <1>2, <1>3, <1>4, <1>5, <1>6 DEF StopNext, Work, Main, StopEnvironment

-----------------------------------------------------------------------------
(* The theorems.                                                           *)

(* The invariants of the handlers survive the end of the process, however  *)
(* far the shutdown has come when a handler is entered or cut off.         *)
THEOREM StopKeepsInvariants ==
  ASSUME DistinctDirs
  PROVE  StopSpec => [](IInv /\ ResourceInv)
<1>1. StopInit => IInv /\ ResourceInv
  BY InitIInv, InitResources DEF StopInit
<1>2. IInv /\ ResourceInv /\ [StopNext]_allVars => (IInv /\ ResourceInv)'
  BY StopStep
<1> QED
  BY <1>1, <1>2, PTL DEF StopSpec

(* PreparedIsBacked across shutdowns: a handler that finds the store       *)
(* closed reports no claim as prepared that has no record.                 *)
THEOREM PreparedIsBackedWhenStopped ==
  ASSUME DistinctDirs
  PROVE  StopSpec => []PreparedIsBacked
<1>1. IInv => PreparedIsBacked
  BY DEF IInv, RecordInv, PreparedIsBacked, FullRecord
<1> QED
  BY <1>1, StopKeepsInvariants, PTL

(* LeaksAreExplained across shutdowns: closed store and closed client make *)
(* the driver forget resources only of claims they are counted against.    *)
THEOREM ExplainedLeaksWhenStopped ==
  ASSUME DistinctDirs
  PROVE  StopSpec => []LeaksAreExplained
<1>1. ResourceInv => LeaksAreExplained
  BY ExplainedByAccounts
<1> QED
  BY <1>1, StopKeepsInvariants, PTL

(* A claim kubelet was told is unprepared has nothing on the node, across  *)
(* shutdowns, unless it is one of those claims.                            *)
THEOREM UnpreparedIsCleanWhenStopped ==
  ASSUME DistinctDirs
  PROVE  StopSpec => []UnpreparedIsCleanOrLeaky
BY UnknownIsAtRest, StopKeepsInvariants, ExplainedLeaksWhenStopped, PTL

(* ConfigInv across shutdowns: a handler cut off between two steps leaves  *)
(* no port of another configuration behind.                                *)
THEOREM ConfigurationIsKeptWhenStopped ==
  ASSUME DistinctDirs
  PROVE  StopSpec => []ConfigInv
<1>1. StopInit => ConfigInv
  BY InitConfig DEF StopInit
<1>2. IInv /\ ConfigInv /\ [StopNext]_allVars => ConfigInv'
  BY StopStepConfig
<1> QED
  BY <1>1, <1>2, StopKeepsInvariants, PTL DEF StopSpec

(* PortsAreAsRequested across shutdowns: a handler cut off between two     *)
(* steps leaves no port or record of another configuration behind.         *)
THEOREM PortsAsRequestedWhenStopped ==
  ASSUME DistinctDirs
  PROVE  StopSpec => []PortsAreAsRequested
<1>1. IInv /\ ConfigInv => PortsAreAsRequested
  BY AsRequestedByConfig
<1> QED
  BY <1>1, StopKeepsInvariants, ConfigurationIsKeptWhenStopped, PTL

(* StopIsClean for every instance: a handler Driver.Stop waited for meets  *)
(* neither a closed store nor a closed client, and the shutdown costs its  *)
(* claims no resources.                                                    *)
THEOREM StopIsAlwaysClean ==
  ASSUME DistinctDirs
  PROVE  StopSpec => StopIsClean
<1> DEFINE A == ~late => /\ pc # "idle" => StoreOpen /\ Connected
                         /\ faults' = faults => leaky' = leaky
<1>1. IInv /\ LateInv /\ [StopNext]_allVars => [A]_allVars
  <2>0. LateInv => (~late /\ pc # "idle" => StoreOpen /\ Connected)
    BY DEF LateInv, StoreOpen, Connected
  <2> SUFFICES ASSUME IInv, LateInv, StopNext, faults' = faults, ~late
               PROVE  leaky' = leaky
    BY <2>0
  <2>1. faults \in Nat
    BY SMTT(60), FaultsAssumption DEF IInv, TypeOK
  <2>2. faults' # faults + 1
    BY SMTT(60), <2>1
  <2>3. CASE Handler
    BY <2>1, <2>3, HandlerRuns
  <2>4. CASE Crash \/ Reboot
    BY <2>2, <2>4 DEF Crash, Reboot
  <2>5. CASE Kubelet \/ Surroundings \/ StoreClosed \/ CreatePortDisconnected
    BY <2>5 DEF Kubelet, PrepareResourceClaims, UnprepareResourceClaims, Receive, Surroundings,
       OvsRestart, BridgeRemoved, BridgeAdded, ConfigReconciled, PolicyReconciled, Fails,
       Succeeds, StoreClosed, CreatePortDisconnected
  <2>6. CASE DeletePortDisconnected
    BY <2>6 DEF DeletePortDisconnected, Connected, LateInv
  <2>7. CASE Exit
    <3>1. pc = "idle"
      BY <2>7 DEF Exit, LateInv
    <3>2. cur = NoClaim
      BY <3>1 DEF IInv, ControlInv, NoWork
    <3> QED
      BY <2>7, <3>2 DEF Exit
  <2>8. CASE StopHelper \/ WaitHandlers \/ CloseStore \/ CloseClients
    BY <2>8 DEF StopHelper, WaitHandlers, CloseStore, CloseClients, Advance, vars
  <2> QED
    BY <2>3, <2>4, <2>5, <2>6, <2>7, <2>8 DEF StopNext, Enter, Work, HandlerStep, Main,
       StopEnvironment
<1>2. StopInit => LateInv
  BY DEF StopInit, LateInv, Stage
<1>3. LateInv /\ [StopNext]_allVars => LateInv'
  BY LateStep
<1> QED
  BY <1>1, <1>2, <1>3, StopKeepsInvariants, PTL DEF StopSpec, StopIsClean

(* A closed store, a closed client and the end of the process take nothing *)
(* from the node and tell kubelet nothing.                                 *)
LEMMA StopStepKeeps ==
  ASSUME StoreClosed \/ CreatePortDisconnected \/ DeletePortDisconnected \/ Exit
  PROVE  UNCHANGED <<kview, holder, store, cdi, dirs, ports>>
BY DEF StoreClosed, CreatePortDisconnected, DeletePortDisconnected, Exit, nodeVars, kubeVars

(* A driver that is stopped at any moment and started again still          *)
(* implements PreparedClaims: no claim stops being usable because the      *)
(* process ends, and kubelet is told nothing that is not true because the  *)
(* store or the client was closed under a handler.                         *)
THEOREM StoppedDriverImplementsPreparedClaims ==
  ASSUME DistinctDirs
  PROVE  StopSpec => ImplementsPreparedClaims
<1>1. StopInit => Promise!Init
  BY DEF StopInit, Init, StoreInit, Promise!Init, usable, Backed
<1>2. IInv /\ [StopNext]_allVars => [Promise!Next]_promised
  <2> SUFFICES ASSUME IInv, [StopNext]_allVars
               PROVE  [Promise!Next]_promised
    OBVIOUS
  <2>1. CASE [Next]_vars
    BY <2>1, StepPromise
  <2>2. CASE StoreClosed \/ CreatePortDisconnected \/ DeletePortDisconnected \/ Exit
    BY <2>2, StopStepKeeps, UsableFrame DEF promised
  <2> QED
    BY <2>1, <2>2, StopSteps
<1> QED
  BY <1>1, <1>2, StopKeepsInvariants, PTL DEF StopSpec, ImplementsPreparedClaims, Promise!Spec,
     promised

(* RecordOutlivesResources across shutdowns: no step of the shutdown, and  *)
(* no handler it cuts off, drops a record before what the record lists.    *)
THEOREM RecordsOutliveResourcesWhenStopped ==
  ASSUME DistinctDirs
  PROVE  StopSpec => RecordOutlivesResources
<1> DEFINE A == \A c \in Claim : store[c] # {} /\ store'[c] # store[c] =>
                  /\ store'[c] = {}
                  /\ \A pd \in store[c] :
                       /\ dirs'[pd.dir] = Absent
                       /\ ports'[pd.port] # NoPort => ports'[pd.port].claim # c
<1>1. IInv /\ ResourceInv /\ [StopNext]_allVars => [A]_vars
  <2> SUFFICES ASSUME IInv, ResourceInv, [StopNext]_allVars
               PROVE  [A]_vars
    OBVIOUS
  <2>1. CASE [Next]_vars
    BY <2>1, RecordStep
  <2>2. CASE StoreClosed \/ CreatePortDisconnected \/ DeletePortDisconnected \/ Exit
    BY <2>2, StopStepKeeps
  <2> QED
    BY <2>1, <2>2, StopSteps
<1> QED
  BY <1>1, StopKeepsInvariants, PTL DEF StopSpec, RecordOutlivesResources

(* ClaimsAreIsolated across shutdowns: a handler that is entered late      *)
(* works on its own claim only.                                            *)
THEOREM IsolatedClaimsWhenStopped ==
  ASSUME DistinctDirs, DistinctPrefixes
  PROVE  StopSpec => ClaimsAreIsolated
<1> DEFINE A == Handler =>
                  \A c \in Claim \ {cur} :
                    /\ store'[c] = store[c]
                    /\ cdi'[c] = cdi[c]
                    /\ \A p \in Users[c], q \in Request :
                         dirs'[getSocketDir(p, c, q)] = dirs[getSocketDir(p, c, q)]
                    /\ \A n \in PortName :
                         (ports[n] # NoPort /\ ports[n].claim = c) => ports'[n] = ports[n]
<1>1. IInv /\ ResourceInv => [A]_vars
  BY HandlerSpares DEF Spared
<1> QED
  BY <1>1, StopKeepsInvariants, PTL DEF StopSpec, ClaimsAreIsolated

(* WorkAdvances for every instance: what d.wg.Wait waits for has an end,   *)
(* also when the store and the clients are closed.                         *)
THEOREM WorkAdvancesWhenStopped ==
  ASSUME DistinctDirs
  PROVE  StopSpec => WorkAdvances
<1>1. ASSUME IInv, Work
      PROVE  pc' = "idle" \/ Nearer
  <2>1. CASE HandlerStep
    BY <1>1, <2>1, HandlerStepsAdvance DEF HandlerStep
  <2>2. CASE StoreClosed
    <3>1. /\ batch' = batch
          /\ \/ pc = "set" /\ pc' = "undo"
             \/ pc \in {"next", "undo"} /\ pc' = "reply"
      BY <2>2 DEF StoreClosed, AtStore, Rollback, Abort, callVars
    <3> QED
      BY <3>1, LessWork
  <2>3. CASE CreatePortDisconnected
    BY <2>3, LessWork DEF CreatePortDisconnected, callVars
  <2>4. CASE DeletePortDisconnected
    BY <2>4, FewerSteps DEF DeletePortDisconnected, callVars
  <2> QED
    BY <1>1, <2>1, <2>2, <2>3, <2>4 DEF Work
<1>2. IInv => [Work => pc' = "idle" \/ Nearer]_allVars
  BY <1>1
<1> QED
  BY <1>2, StopKeepsInvariants, PTL DEF StopSpec, WorkAdvances

(* PrepareFailsForACause across shutdowns: what a handler that was cut off *)
(* has left behind is in the way of no claim but its own, whose failure    *)
(* is counted against it.                                                  *)
THEOREM PreparesFailForACauseWhenStopped ==
  ASSUME DistinctDirs, DistinctPrefixes
  PROVE  StopSpec => PrepareFailsForACause
<1>1. StopInit => MtuInv
  BY DEF StopInit, Init, DeviceStateInit, NoWork, MtuInv
<1>2. IInv /\ MtuInv /\ [StopNext]_allVars => MtuInv'
  <2> SUFFICES ASSUME IInv, MtuInv, [StopNext]_allVars
               PROVE  MtuInv'
    OBVIOUS
  <2>1. CASE [Next]_vars
    BY <2>1, MtuStep
  <2>2. CASE StoreClosed \/ CreatePortDisconnected \/ DeletePortDisconnected
    <3>1. UNCHANGED allocatable /\ mtu' \in {mtu, ZeroMTU}
      BY <2>2 DEF StoreClosed, Rollback, Abort, DropWork, CreatePortDisconnected,
         DeletePortDisconnected, memoryVars, workVars
    <3> QED
      BY <3>1, MtuFrame
  <2>3. CASE Exit
    <3>1. DeviceStateReset /\ mtu' = ZeroMTU
      BY <2>3 DEF Exit, DropWork
    <3> QED
      BY <3>1, MtuFrame
  <2> QED
    BY <2>1, <2>2, <2>3, StopSteps
<1>3. IInv /\ ResourceInv /\ MtuInv =>
        [~PrepareFailing /\ PrepareFailing' /\ faults' = faults /\ Handler => PrepareObstacle]_vars
  BY TurnsForACause
<1> QED
  BY <1>1, <1>2, <1>3, StopKeepsInvariants, PTL DEF StopSpec, PrepareFailsForACause
=============================================================================
