--------------------------- MODULE PreparedClaims ---------------------------
(***************************************************************************)
(* What the driver promises kubelet, without handlers, stores, files or    *)
(* ports: which claims are usable on the node, and when kubelet may be     *)
(* told so.  A claim becomes usable only while kubelet waits for it, stays *)
(* usable until kubelet asks to unprepare it, whatever happens in between  *)
(* short of a reboot, and is let go only when it is no longer usable.      *)
(***************************************************************************)
CONSTANTS Claim, Pod, NoPod, Users

VARIABLES
  view,    \* what kubelet knows of each claim
  holder,  \* the pod each claim is prepared for
  usable   \* claims whose containers can be started and run

Init ==
  /\ view = [c \in Claim |-> "none"]
  /\ holder = [c \in Claim |-> NoPod]
  /\ usable = {}

(* Kubelet asks for the claims of a pod, or repeats the request.           *)
AskPrepare(p, S) ==
  /\ \A c \in S : /\ view[c] # "unpreparing"
                  /\ p \in Users[c]
                  /\ holder[c] \in {NoPod, p}
  /\ holder' = [c \in Claim |-> IF c \in S THEN p ELSE holder[c]]
  /\ view' = [c \in Claim |-> IF c \in S /\ view[c] = "none" THEN "pending" ELSE view[c]]
  /\ UNCHANGED usable

AskUnprepare(S) ==
  /\ \A c \in S : view[c] # "none"
  /\ view' = [c \in Claim |-> IF c \in S THEN "unpreparing" ELSE view[c]]
  /\ UNCHANGED <<holder, usable>>

Prepared(c) ==
  /\ view[c] = "pending" /\ holder[c] \in Users[c]
  /\ c \notin usable
  /\ usable' = usable \cup {c}
  /\ UNCHANGED <<view, holder>>

Dismantled(c) ==
  /\ view[c] = "unpreparing"
  /\ c \in usable
  /\ usable' = usable \ {c}
  /\ UNCHANGED <<view, holder>>

(* Kubelet is told that claims are prepared: all of them are usable.       *)
TellPrepared(S) ==
  /\ \A c \in S : view[c] \in {"pending", "prepared"} /\ c \in usable
  /\ view' = [c \in Claim |-> IF c \in S THEN "prepared" ELSE view[c]]
  /\ UNCHANGED <<holder, usable>>

(* Kubelet is told that claims are unprepared: none of them is usable.     *)
TellUnprepared(S) ==
  /\ \A c \in S : view[c] = "unpreparing" /\ c \notin usable
  /\ view' = [c \in Claim |-> IF c \in S THEN "none" ELSE view[c]]
  /\ holder' = [c \in Claim |-> IF c \in S THEN NoPod ELSE holder[c]]
  /\ UNCHANGED usable

(* The node reboots: nothing is usable, and kubelet asks again.            *)
Lost ==
  /\ view' = [c \in Claim |-> IF view[c] = "prepared" THEN "pending" ELSE view[c]]
  /\ usable' = {}
  /\ UNCHANGED holder

Next ==
  \/ \E S \in (SUBSET Claim) \ {{}} :
       \/ \E p \in Pod : AskPrepare(p, S)
       \/ AskUnprepare(S) \/ TellPrepared(S) \/ TellUnprepared(S)
  \/ \E c \in Claim : Prepared(c) \/ Dismantled(c)
  \/ Lost

Spec == Init /\ [][Next]_<<view, holder, usable>>
=============================================================================
