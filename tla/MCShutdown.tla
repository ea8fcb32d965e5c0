---------------------------- MODULE MCShutdown ----------------------------
(***************************************************************************)
(* An instance of Shutdown for TLC: two claims of one pod with a device    *)
(* each; c1 asks for a policer, an entry of c2 for a VLAN that does not    *)
(* exist.                                                                  *)
(***************************************************************************)
EXTENDS Shutdown, DriverResources

CONSTANTS c1, c2, p1, q1, b1, s1

Results ==
  [c \in Claim |-> {[driver |-> DriverName, request |-> q1, device |-> b1, share |-> s1]}]

Entry(vlan, policing) ==
  [driver |-> DriverName, source |-> "FromClaim", requests |-> {}, parses |-> TRUE,
   config |-> [vlan |-> vlan, policing |-> policing]]

BadVlan ==
  [c \in Claim |-> IF c = c2 THEN <<Entry(4095, Nil), Entry(4096, Nil)>>
                   ELSE <<Entry(0, [maxRate |-> 5, burst |-> Nil])>>]

OnePod == [c \in Claim |-> {p1}]

Own == [c \in Claim |-> c]

NoAnnotations == [c \in Claim |-> NoAnnotation]
=============================================================================
