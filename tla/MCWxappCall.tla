----------------------------- MODULE MCWxappCall -----------------------------
(***************************************************************************)
(* Instances of WxappCall for TLC.                                         *)
(***************************************************************************)
EXTENDS WxappCall
=============================================================================
