----------------------------- MODULE MCDriver -----------------------------
(***************************************************************************)
(* Instances of Driver for TLC: what is allocated to the claims, which     *)
(* pods use them, and how they are named.                                  *)
(***************************************************************************)
EXTENDS DriverRefinement, DriverResources, TLC

CONSTANTS c1, c2, c3, p1, p2, p3, q1, q2, b1, s1, s2

own(q, s) == [driver |-> DriverName, request |-> q, device |-> b1, share |-> s]
foreign(q) == [driver |-> "other-driver", request |-> q, device |-> b1, share |-> s1]

(* c1 has two devices and one of another driver, c2 has one device.        *)
TwoAndOne ==
  [c \in Claim |->
     IF c = c1 THEN {own(q1, s1), own(q2, s2), foreign(q1)} ELSE {own(q1, s1)}]

(* Every claim has one device.                                             *)
OneEach == [c \in Claim |-> {own(q1, s1)}]

(* c1 has one device, one request of c2 is allocated two shares of the     *)
(* bridge, and nothing of c3 belongs to this driver.                       *)
OneSharesAndNone ==
  [c \in Claim |-> IF c = c1 THEN {own(q1, s1)}
                   ELSE IF c = c2 THEN {own(q1, s1), own(q1, s2)} ELSE {foreign(q1)}]

-----------------------------------------------------------------------------
fromClaim(requests, vlan, policing) ==
  [driver |-> DriverName, source |-> "FromClaim", requests |-> requests,
   parses |-> TRUE, config |-> [vlan |-> vlan, policing |-> policing]]

(* Claims without configuration entries.                                   *)
Unconfigured == [c \in Claim |-> <<>>]

(* c1 has entries that overlap, that are replaced by later ones, and that  *)
(* are not the driver's; c2 has none.                                      *)
Overlapping ==
  [c \in Claim |->
     IF c # c1 THEN <<>>
     ELSE << fromClaim({q1, q2}, Nil, [maxRate |-> 5, burst |-> 2]),
             fromClaim({q1}, 4095, Nil),
             fromClaim({}, 1, Nil),
             fromClaim({}, 0, [maxRate |-> 0, burst |-> Nil]),
             [fromClaim({q1}, 7, Nil) EXCEPT !.source = "FromClass"],
             [fromClaim({q2}, 8, Nil) EXCEPT !.driver = "other-driver", !.parses = FALSE] >>]

-----------------------------------------------------------------------------
(* Every claim has its own UID prefix and object name.                     *)
Own == [c \in Claim |-> c]

(* Every pod may use every claim, one after the other.                     *)
AllPods == [c \in Claim |-> Pod]

(* c1 goes from pod to pod, the others belong to a third pod.              *)
HandedOver == [c \in Claim |-> IF c = c1 THEN {p1, p2} ELSE {p3}]

(* The pods of c1 are alike.                                               *)
AlikePods == Permutations({p1, p2})

(* Hand-written claims.                                                    *)
NoAnnotations == [c \in Claim |-> NoAnnotation]

(* c1 and c2 come from templates of one pod-local name.                    *)
SameLocalName == [c \in Claim |-> IF c = c3 THEN NoAnnotation ELSE "net"]
=============================================================================
