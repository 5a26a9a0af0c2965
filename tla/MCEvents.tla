------------------------------ MODULE MCEvents ------------------------------
(***************************************************************************)
(* Instances of Events for TLC: two words per event, enough for half of an *)
(* event to be written and the other half not.                             *)
(***************************************************************************)
EXTENDS Events

CONSTANTS key, click, menu, none

MCWord == {key, click, menu, none}
MCHandlerEvents == {<<key, key>>, <<click, click>>}
MCProgramEvents == {<<menu, menu>>}
MCBlank == <<none, none>>
=============================================================================
