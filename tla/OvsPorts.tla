------------------------------ MODULE OvsPorts ------------------------------
(***************************************************************************)
(* pkg/ovs, the port half of the client: CreatePort and DeletePort, and    *)
(* what the OVS database (external) makes of their transactions.  A port   *)
(* row is the claim, MTU, VLAN and policing it was created with and the    *)
(* bridge that references it.                                              *)
(*                                                                         *)
(* The port name is an index of the Port table: a second row of the name   *)
(* is refused, and so is an MTU out of the range of mtu_request.  A row no *)
(* bridge references is collected at the end of its own transaction,       *)
(* without an error, so a CreatePort on a bridge that does not exist       *)
(* succeeds and creates nothing.                                           *)
(***************************************************************************)
EXTENDS PreparedDevice

CONSTANTS
  MTU,     \* MTU values bridges are configured with
  NoPort   \* no row of the name

VARIABLES bridges, ports

(* The MTU of the zero BridgeSpec.                                         *)
ZeroMTU == 0

(* The range of MTU and of the column mtu_request.                         *)
ValidMTU == 68 .. 65535

PortParams == {ovsPortParams(cfg) : cfg \in OvsPortConfig}

PortRow == [claim : Claim, bridge : Bridge, mtu : MTU \cup {ZeroMTU}, params : PortParams]

OvsTypeOK ==
  /\ bridges \subseteq Bridge
  /\ ports \in [PortName -> PortRow \cup {NoPort}]

OvsInit ==
  /\ bridges = Bridge
  /\ ports = [n \in PortName |-> NoPort]

-----------------------------------------------------------------------------
(* Mutant: the rate of the policer does not reach the row.                 *)
CreatePortUnpoliced(b, n, row) ==
  /\ row.mtu \in ValidMTU
  /\ b \in bridges => ports[n] = NoPort
  /\ ports' = IF b \in bridges THEN [ports EXCEPT ![n] = [row EXCEPT !.params.rate = 0]] ELSE ports

(* The CreatePort transaction commits.                                     *)
CreatePort(b, n, row) ==
  /\ row.mtu \in ValidMTU
  /\ b \in bridges => ports[n] = NoPort
  /\ ports' = IF b \in bridges THEN [ports EXCEPT ![n] = row] ELSE ports

(* The database refuses the transaction: the MTU is out of the range of    *)
(* the column, or the name is taken.                                       *)
CreatePortRefused(b, n, row) ==
  row.mtu \notin ValidMTU \/ (b \in bridges /\ ports[n] # NoPort)

(* Mutant: a port that does not exist is an error.                         *)
PortAlwaysFound(n) == FALSE

(* DeletePort finds no row of the name: ErrPortNotFound.                   *)
PortNotFound(n) == ports[n] = NoPort

(* DeletePort takes the row out of the named bridge; a row that another    *)
(* bridge references stays, and that is no error either.                   *)
DeletePort(b, n) ==
  /\ ports[n] # NoPort
  /\ ports' = IF ports[n].bridge = b THEN [ports EXCEPT ![n] = NoPort] ELSE ports

(* The ports are created transient: OVS drops them when it starts.         *)
DropTransientPorts == ports' = [n \in PortName |-> NoPort]

(* Somebody removes a bridge, and its ports with it.                       *)
RemoveBridge(b) ==
  /\ b \in bridges
  /\ bridges' = bridges \ {b}
  /\ ports' = [n \in PortName |->
                 IF ports[n] # NoPort /\ ports[n].bridge = b THEN NoPort ELSE ports[n]]

AddBridge(b) ==
  /\ b \notin bridges
  /\ bridges' = bridges \cup {b}
  /\ UNCHANGED ports
=============================================================================
