------------------------------ MODULE MCQrLogin ------------------------------
(***************************************************************************)
(* Instances of QrLogin for TLC.                                           *)
(***************************************************************************)
EXTENDS QrLogin
=============================================================================
