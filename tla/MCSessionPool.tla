---------------------------- MODULE MCSessionPool ----------------------------
(***************************************************************************)
(* Instances of SessionPool for TLC.                                       *)
(***************************************************************************)
EXTENDS SessionPool
=============================================================================
