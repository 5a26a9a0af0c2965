------------------------------- MODULE MCAudio -------------------------------
(***************************************************************************)
(* Instances of Audio for TLC.                                             *)
(***************************************************************************)
EXTENDS Audio
=============================================================================
