-------------------------- MODULE DriverResources --------------------------
(***************************************************************************)
(* The inductive invariant behind LeaksAreExplained,                       *)
(* RecordOutlivesResources and ClaimsAreIsolated: for every directory,     *)
(* port and CDI spec on the node, the record in the store or in the locals *)
(* of the handler that will lead to its removal.                           *)
(***************************************************************************)
EXTENDS DriverInv

(* Every directory of claim c that exists is that of one of the records.   *)
DirsAmong(c, recs) ==
  \A p \in Users[c], q \in Request :
    dirs[getSocketDir(p, c, q)] # Absent =>
      \E pd \in recs : pd.dir = getSocketDir(p, c, q)

(* Every port of claim c that exists is that of one of the records.        *)
PortsAmong(c, recs) ==
  \A n \in PortName :
    ports[n] # NoPort /\ ports[n].claim = c =>
      \E pd \in recs : pd.port = n /\ pd.bridge = ports[n].bridge

(* Nothing of the recorded device is left.                                 *)
PortGone(c, pd) ==
  ~ (ports[pd.port] # NoPort /\ ports[pd.port].claim = c /\ ports[pd.port].bridge = pd.bridge)

(* The device whose directory exists and that is not in devs yet.          *)
InHand == IF pc \in {"port", "rmdir"} THEN {preparedDevice(pod, cur, dev)} ELSE {}

(* A claim that is not worked on and has no record has nothing.            *)
AccountedAtRest(c) ==
  store[c] = {} /\ cur # c => cdi[c] = {} /\ DirsAmong(c, {}) /\ PortsAmong(c, {})

(* While a claim is prepared, devs says what there is.                     *)
AccountedPreparing(c) ==
  cur = c /\ pc \in PreparingAt =>
    /\ pc # "set" => cdi[c] = {}
    /\ DirsAmong(c, devs \cup InHand)
    /\ PortsAmong(c, devs)

(* While it is rolled back, undo does.                                     *)
AccountedRollingBack(c) ==
  cur = c /\ op = "prepare" /\ pc \in UndoingAt =>
    /\ cdi[c] # {} => pc = "undo" /\ undo # {}
    /\ DirsAmong(c, undo)
    /\ PortsAmong(c, IF pc = "undoDir" THEN undo \ {dev} ELSE undo)

(* Afterwards the store does, and the spec goes with the first device.     *)
AccountedRecorded(c) ==
  /\ store[c] # {} => DirsAmong(c, store[c])
  /\ cur = c /\ op = "unprepare" /\ pc \in UndoingAt /\ (pc # "undo" \/ undo # store[c]) =>
       cdi[c] = {}

Accounted(c) ==
  /\ AccountedAtRest(c)
  /\ AccountedPreparing(c)
  /\ AccountedRollingBack(c)
  /\ AccountedRecorded(c)

(* What an unprepare has got through without an error is gone.             *)
UndoneInv ==
  op = "unprepare" /\ pc \in UndoingAt =>
    /\ store[cur] # {}
    /\ undo \subseteq store[cur]
    /\ ~err => \A pd \in store[cur] \ undo : dirs[pd.dir] = Absent /\ PortGone(cur, pd)
    /\ ~err /\ pc = "undoDir" => PortGone(cur, dev)

(* The ports of a claim are those of its allocation, and its record is     *)
(* complete, also of a claim hit by a failure that leaks.                  *)
OwnInv ==
  \A c \in Claim :
    /\ PortsAmong(c, RecordsOf(c))
    /\ store[c] # {} => \E p \in Users[c] : store[c] = FullRecord(p, c)

(* Every directory, port and CDI spec on the node can be traced: to the    *)
(* record the claim store holds, to the devices prepareDevice has returned *)
(* or rollback has still to undo, or to one of the failures of that claim  *)
(* the code only logs; and what UnprepareResourceClaim has got through     *)
(* without an error is gone.                                               *)
ResourceInv ==
  /\ OwnInv
  /\ UndoneInv
  /\ \A c \in Claim \ leaky : Accounted(c)

(* A claim with a bad entry is never worked on, and a port has the         *)
(* parameters parseClaimConfigs and getConfig find for its request.        *)
ConfigInv ==
  /\ pc \in PreparingAt => ~Misconfigured(cur)
  /\ \A c \in Claim : store[c] # {} => ~Misconfigured(c)
  /\ \A c \in Claim, q \in Request : LET row == ports[ovsPortName(c, q)] IN
       row # NoPort /\ row.claim = c =>
         ~Misconfigured(c) /\ row.params = ovsPortParams(portConfig(c, q))

(* The MTU prepareDevice goes on with is one validation has let through,   *)
(* or that of the zero BridgeSpec.                                         *)
MtuInv ==
  /\ \A b \in Bridge : allocatable[b] \in ValidMTU \cup {ZeroMTU}
  /\ mtu \in ValidMTU \cup {ZeroMTU}

(* The directories of the devices that are recorded, or will be, have the  *)
(* permissions of a configuration.                                         *)
PermissionsInv ==
  /\ PreparedWithConfig
  /\ pc \in PreparingAt => \A pd \in devs : dirs[pd.dir] # NoConfig
  /\ pc = "port" => dirs[getSocketDir(pod, cur, dev.request)] # NoConfig

(* A step that makes no port.                                              *)
NoNewPorts == \A n \in PortName : ports'[n] \in {NoPort, ports[n]}
=============================================================================
