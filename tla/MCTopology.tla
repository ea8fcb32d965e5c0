----------------------------- MODULE MCTopology -----------------------------
(***************************************************************************)
(* Instances of Topology for TLC: the NUMA nodes of the uplinks and the    *)
(* policies.  Only the run that shuts the driver down may come to a stop.  *)
(***************************************************************************)
EXTENDS TopologyInv, TLC

CONSTANTS b1, b2, u1, u2, u3, r1, r2

spec(b, r) == [name |-> b, mtu |-> 1500, resource |-> r]

(* Two uplinks on node 0, one on node 1.                                   *)
ZeroZeroOne == u1 :> 0 @@ u2 :> 0 @@ u3 :> 1

(* Uplinks on node 0, on node 1 and without affinity.                      *)
ZeroOneNone == [u \in Uplink |-> IF u = u1 THEN 0 ELSE IF u = u2 THEN 1 ELSE -1]

Shared == <<spec(b1, r1), spec(b2, r1)>>
Alone == <<spec(b1, r1)>>

on(terms, specs) == [selector |-> [terms |-> terms, parses |-> TRUE], bridges |-> specs]

OnlyShared == {[labels |-> {}, policies |-> <<on({}, Shared)>>]}
OnlyAlone == {[labels |-> {}, policies |-> <<on({}, Alone)>>]}

(* One bridge, which by the labels of the node has a resource, none or two *)
(* of them; and one with an MTU out of range, beside a selector that does  *)
(* not parse.                                                              *)
OneBridge ==
  LET ByLabel == << on({{"dpdk"}}, Alone),
                    on({{"plain"}}, <<spec(b1, NoResource)>>),
                    on({{"dpdk", "spare"}, {}}, <<spec(b1, r2)>>) >>
      Invalid == << on({}, <<[spec(b1, r1) EXCEPT !.mtu = 67]>>),
                    [on({{"dpdk"}}, Alone) EXCEPT !.selector.parses = FALSE] >>
  IN {[labels |-> L, policies |-> ByLabel] : L \in {{"dpdk"}, {"plain"}, {"dpdk", "spare"}}}
       \cup {[labels |-> {"dpdk"}, policies |-> Invalid]}

(* What is in the database when the driver starts.                         *)
Nothing == [u \in Uplink |-> Unborn]
FirstOnB1 == [Nothing EXCEPT ![u1] = b1]
OneUplinkEach == [Nothing EXCEPT ![u1] = b1, ![u2] = b2]
=============================================================================
