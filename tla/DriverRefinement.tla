-------------------------- MODULE DriverRefinement --------------------------
(***************************************************************************)
(* Driver implements PreparedClaims.  What kubelet knows is the same in    *)
(* both; a claim is usable when it is recorded, its CDI spec lists the     *)
(* recorded devices and every directory the spec mounts exists.            *)
(***************************************************************************)
EXTENDS DriverInv

Backed(c) ==
  /\ store[c] # {}
  /\ cdi[c] = store[c]
  /\ \A pd \in store[c] : dirs[pd.dir] # Absent

usable == {c \in Claim : Backed(c)}

Promise == INSTANCE PreparedClaims WITH view <- kview, holder <- holder, usable <- usable

(* Every behaviour of the handlers, through failures, lost replies,        *)
(* restarts of the driver, of OVS and of the node, is one PreparedClaims   *)
(* allows: among others, no claim stops being usable before kubelet asks   *)
(* to unprepare it, and none is let go while its containers could still be *)
(* started with it.                                                        *)
ImplementsPreparedClaims == Promise!Spec
=============================================================================
