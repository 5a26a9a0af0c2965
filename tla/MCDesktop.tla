------------------------------ MODULE MCDesktop ------------------------------
(***************************************************************************)
(* Instances of Desktop for TLC: one menu of two items, and two menus of   *)
(* which the first covers the place of the second.                         *)
(***************************************************************************)
EXTENDS Desktop

OneMenu == <<2>>

Under == <<{1}>>

TwoMenus == <<1, 1>>

Overlapping == <<{1, 2}, {2}>>
=============================================================================
