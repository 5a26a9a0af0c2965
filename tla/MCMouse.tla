------------------------------- MODULE MCMouse -------------------------------
(***************************************************************************)
(* Instances of Mouse for TLC.                                             *)
(***************************************************************************)
EXTENDS Mouse
=============================================================================
