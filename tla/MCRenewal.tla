------------------------------ MODULE MCRenewal ------------------------------
(***************************************************************************)
(* Instances of Renewal for TLC.                                           *)
(***************************************************************************)
EXTENDS Renewal
=============================================================================
