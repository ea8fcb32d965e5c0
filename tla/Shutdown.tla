----------------------------- MODULE Shutdown -----------------------------
(***************************************************************************)
(* The end of the process, composed with the handlers of Driver: run() of  *)
(* cmd/dra-driver-ovsdpdk/main.go returns after a signal, and its deferred *)
(* calls stop the driver, the Device Plugins and the OVS client.           *)
(* Driver.Stop of pkg/driver/driver.go stops the kubelet plugin helper     *)
(* (external), waits for the handlers and closes the claim store.          *)
(*                                                                         *)
(* The helper accepts a call before it enters the handler, where d.wg.Add  *)
(* is the first statement, and Helper.Stop does not abort what it has      *)
(* accepted.  So a call may enter its handler after d.wg.Wait has          *)
(* returned, and then meet a closed store, a closed OVS client, or the end *)
(* of the process.                                                         *)
(* The helper is taken not to cancel the contexts of calls that run, as    *)
(* the comment in Driver.Stop says; a cancelled CreatePort would fail the  *)
(* way FailsLeaking of Driver allows.                                      *)
(***************************************************************************)
EXTENDS Driver

CONSTANT MaxAccepted  \* bound on the calls the helper holds when it is stopped

VARIABLES
  stage,     \* how far the shutdown has come
  accepted,  \* calls the stopped helper holds that have not entered a handler
  late       \* history: the running handler was entered after Wait returned

stopVars == <<stage, accepted, late>>
allVars == <<vars, stopVars>>

Stage == {"serving", "stopping", "waited", "closed", "disconnected"}

StoreOpen == stage \in {"serving", "stopping", "waited"}
Connected == stage # "disconnected"

StopInit ==
  /\ Init
  /\ stage = "serving"
  /\ accepted = 0
  /\ late = FALSE

-----------------------------------------------------------------------------
(* The helper (external).                                                  *)

(* Mutant: the helper still serves while the handlers are waited for.      *)
EnterAlways ==
  /\ Kubelet
  /\ late' = (stage \notin {"serving", "stopping"})
  /\ UNCHANGED <<stage, accepted>>

(* A call enters its handler: any call while the helper serves, and then   *)
(* the ones it held when it was stopped.                                   *)
Enter ==
  /\ Kubelet
  /\ \/ stage = "serving" /\ UNCHANGED accepted
     \/ stage # "serving" /\ accepted > 0 /\ accepted' = accepted - 1
  /\ late' = (stage \notin {"serving", "stopping"})
  /\ UNCHANGED stage

-----------------------------------------------------------------------------
(* The handlers while the process ends.                                    *)

(* The next step of the handler is a Get, Set or Delete of the store.      *)
AtStore ==
  \/ pc = "next" /\ batch # {}
  \/ pc = "set"
  \/ pc = "undo" /\ undo = {} /\ op = "unprepare" /\ ~err

(* The next step of the handler is a transaction of the OVS client.        *)
AtOvs == pc \in {"port", "undoPort"}

HandlerStep ==
  /\ Handler
  /\ AtStore => StoreOpen
  /\ AtOvs => Connected
  /\ late' = (late /\ pc' # "idle")
  /\ UNCHANGED <<stage, accepted>>

(* Mutant: an error of Set is only logged.                                 *)
StoreClosedUnnoticed ==
  /\ AtStore /\ ~StoreOpen
  /\ Succeeds
  /\ IF pc = "set" THEN pc' = "status" /\ UNCHANGED <<callVars, workVars>> ELSE Abort
  /\ UNCHANGED <<kubeVars, nodeVars, memoryVars, stopVars>>

(* Every call of a closed store returns an error.                          *)
StoreClosed ==
  /\ AtStore /\ ~StoreOpen
  /\ Succeeds
  /\ IF pc = "set" THEN Rollback ELSE Abort
  /\ UNCHANGED <<kubeVars, nodeVars, memoryVars, stopVars>>

(* CreatePort and DeletePort of a closed client return an error.           *)
CreatePortDisconnected ==
  /\ pc = "port" /\ ~Connected
  /\ Succeeds
  /\ pc' = "rmdir"
  /\ UNCHANGED <<kubeVars, nodeVars, memoryVars, callVars, workVars, stopVars>>

(* Mutant: the port is tried again until the client is connected.          *)
DeletePortDisconnectedAgain ==
  /\ pc = "undoPort" /\ ~Connected
  /\ leaky' = IF op = "prepare" THEN leaky \cup {cur} ELSE leaky
  /\ err' = TRUE
  /\ UNCHANGED <<kubeVars, nodeVars, memoryVars, pc, callVars, faults,
                 cur, todo, devs, dev, mtu, undo, stopVars>>

DeletePortDisconnected ==
  /\ pc = "undoPort" /\ ~Connected
  /\ leaky' = IF op = "prepare" THEN leaky \cup {cur} ELSE leaky
  /\ pc' = "undoDir"
  /\ err' = TRUE
  /\ UNCHANGED <<kubeVars, nodeVars, memoryVars, callVars, faults,
                 cur, todo, devs, dev, mtu, undo, stopVars>>

Work ==
  HandlerStep \/ StoreClosed \/ CreatePortDisconnected \/ DeletePortDisconnected

-----------------------------------------------------------------------------
(* The main goroutine.                                                     *)

Advance(from, to) ==
  /\ stage = from
  /\ stage' = to
  /\ UNCHANGED <<vars, accepted, late>>

(* A signal, or the controller manager exits; then d.helper.Stop.          *)
StopHelper ==
  /\ stage = "serving"
  /\ stage' = "stopping"
  /\ accepted' \in 0 .. MaxAccepted
  /\ UNCHANGED <<vars, late>>

(* Mutant: the handlers are not waited for.                                *)
WaitForNobody == Advance("stopping", "waited")

(* d.wg.Wait returns.                                                      *)
WaitHandlers == pc = "idle" /\ Advance("stopping", "waited")

CloseStore == Advance("waited", "closed")

(* dpManager.StopAll and ovsClient.Close.                                  *)
CloseClients == Advance("closed", "disconnected")

(* The process ends, whatever its handlers do, and is started again.       *)
Restarted ==
  /\ stage' = "serving"
  /\ accepted' = 0
  /\ late' = FALSE

Exit ==
  /\ stage = "disconnected"
  /\ leaky' = IF op = "prepare" /\ cur # NoClaim /\ pc # "status"
              THEN leaky \cup {cur} ELSE leaky
  /\ DeviceStateReset
  /\ EndCall
  /\ DropWork
  /\ Restarted
  /\ UNCHANGED <<kubeVars, nodeVars, faults>>

Main == StopHelper \/ WaitHandlers \/ CloseStore \/ CloseClients \/ Exit

-----------------------------------------------------------------------------
StopEnvironment ==
  \/ (Crash \/ Reboot) /\ Restarted
  \/ Surroundings /\ UNCHANGED stopVars

StopNext == Enter \/ Work \/ Main \/ StopEnvironment

StopSpec == StopInit /\ [][StopNext]_allVars

(* The handler and the main goroutine are scheduled.  Nothing is assumed   *)
(* of signals, of kubelet or of the helper.                                *)
FairStopSpec ==
  /\ StopSpec
  /\ WF_allVars(Work)
  /\ WF_allVars(WaitHandlers \/ CloseStore \/ CloseClients \/ Exit)

-----------------------------------------------------------------------------
(* Whenever the driver is stopped, a handler that d.wg.Wait knew of runs   *)
(* to its end on an open store and a connected client, and the shutdown    *)
(* makes the driver forget resources of no claim (see LeaksAreExplained);  *)
(* both may happen to a call that entered its handler after Wait returned. *)
StopIsClean ==
  [][~late => /\ pc # "idle" => StoreOpen /\ Connected
              /\ faults' = faults => leaky' = leaky]_allVars

(* HandlerAdvances for the handlers that find the store or a client closed  *)
(* as well: they fail, and never try again in place.                       *)
WorkAdvances == [][Work => pc' = "idle" \/ Nearer]_allVars

(* A shutdown ends: the wait for the handlers is not held up by calls that *)
(* keep coming, and no handler gets stuck on a closed store or client.     *)
StopEnds == stage # "serving" ~> stage = "serving"
=============================================================================
