------------------------ MODULE MCClaimStatusUpdate ------------------------
(***************************************************************************)
(* An instance of ClaimStatusUpdate for TLC.  A status update that is over *)
(* stays over: the behaviour may stop.                                     *)
(***************************************************************************)
EXTENDS StatusRefinement
=============================================================================
