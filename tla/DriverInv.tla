----------------------------- MODULE DriverInv -----------------------------
(***************************************************************************)
(* The inductive invariant behind PreparedIsBacked: what the control state *)
(* of the handler says about its locals, and what the locals, the store,   *)
(* the CDI specs and the directories say about each other.                 *)
(***************************************************************************)
EXTENDS Driver

PreparingAt == {"check", "mkdir", "port", "rmdir", "set"}
UndoingAt == {"undo", "undoPort", "undoDir"}

(* The records prepareDevice can build for claim c.                        *)
RecordsOf(c) == {preparedDevice(p, c, r) : p \in Users[c], r \in OwnResults(c)}

(* The records of a complete preparation of c for pod p.                   *)
FullRecord(p, c) == {preparedDevice(p, c, r) : r \in OwnResults(c)}

ControlInv ==
  /\ pc = "idle" <=> op = "none"
  /\ pc \in {"idle", "next", "reply"} => NoWork
  /\ pc \notin {"idle", "next", "reply"} => cur \in batch
  /\ pc \in PreparingAt \cup {"status"} => op = "prepare"
  /\ pc = "idle" => batch = {} /\ ok = {}
  /\ pc \in {"mkdir", "port", "rmdir"} => dev \in OwnResults(cur) \ todo
  /\ pc \in {"undoPort", "undoDir"} => dev \in undo
  /\ pc \in PreparingAt => todo \subseteq OwnResults(cur)
  /\ pc \in UndoingAt => undo \subseteq RecordsOf(cur)

KubeletInv ==
  /\ \A c \in Claim : kview[c] # "none" => holder[c] \in Users[c]
  /\ op = "prepare" => /\ pod \in Pod
                       /\ \A c \in batch \cup ok :
                            holder[c] = pod /\ kview[c] \in {"pending", "prepared"}
  /\ op = "unprepare" => \A c \in batch \cup ok : kview[c] = "unpreparing"

(* How far the preparation of cur has come.                                *)
PrepareInv ==
  /\ op = "prepare" /\ pc \in PreparingAt \cup UndoingAt => store[cur] = {}
  /\ pc = "check" =>
       devs = {preparedDevice(pod, cur, r) : r \in OwnResults(cur) \ todo}
  /\ pc \in {"mkdir", "port", "rmdir"} =>
       devs = {preparedDevice(pod, cur, r) : r \in OwnResults(cur) \ (todo \cup {dev})}
  /\ pc \in PreparingAt \ {"rmdir"} => \A pd \in devs : dirs[pd.dir] # Absent
  /\ pc = "port" => dirs[getSocketDir(pod, cur, dev.request)] # Absent
  /\ pc = "set" => devs = FullRecord(pod, cur) /\ devs # {} /\ cdi[cur] = devs
  /\ pc = "status" => store[cur] # {}

(* A recorded claim that is not being unprepared is completely prepared.   *)
RecordInv ==
  /\ \A c \in Claim : store[c] \subseteq RecordsOf(c)
  /\ \A c \in Claim : kview[c] = "none" => store[c] = {}
  /\ \A c \in Claim : kview[c] = "prepared" => store[c] # {}
  /\ op = "prepare" => \A c \in ok : store[c] # {}
  /\ op = "unprepare" => \A c \in ok : store[c] = {}
  /\ \A c \in Claim : store[c] # {} /\ kview[c] # "unpreparing" =>
       /\ store[c] = FullRecord(holder[c], c)
       /\ cdi[c] = store[c]
       /\ \A pd \in store[c] : dirs[pd.dir] # Absent

IInv == TypeOK /\ ControlInv /\ KubeletInv /\ PrepareInv /\ RecordInv
=============================================================================
