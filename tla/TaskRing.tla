------------------------------ MODULE TaskRing ------------------------------
(***************************************************************************)
(* The order in which the fox32os scheduler runs its threads: they form a  *)
(* ring, the head of which runs.  A thread that gives up the CPU goes to   *)
(* the end of the ring, one that it has just created goes right before it, *)
(* and one that ends leaves.  Nobody else moves.                           *)
(***************************************************************************)
EXTENDS Naturals, Sequences

CONSTANTS
  Thread,   \* whatever may be in the ring
  First     \* the thread the machine starts with

VARIABLE ring

Init == ring = <<First>>

Rotate ==
  /\ ring # <<>>
  /\ ring' = Append(Tail(ring), Head(ring))

(* This is what the code does.  Its comment promises that the created      *)
(* thread is the next to run, which is another ring: <<t>> \o Tail(ring).  *)
Create(t) ==
  /\ ring # <<>>
  /\ \A i \in 1..Len(ring) : ring[i] # t
  /\ ring' = Tail(ring) \o <<t, Head(ring)>>

Leave ==
  /\ ring # <<>>
  /\ ring' = Tail(ring)

Next == Rotate \/ (\E t \in Thread : Create(t)) \/ Leave

Spec == Init /\ [][Next]_ring
=============================================================================
