----------------------------- MODULE EventFifo -----------------------------
(***************************************************************************)
(* What the ROM's event system promises to a program, with nothing of how  *)
(* fox32rom/event.asm keeps the promise: events come out whole, once, and  *)
(* in the order in which the interrupt handler and the program put them    *)
(* in, and "no event" is answered only by an empty queue.                  *)
(***************************************************************************)
EXTENDS Naturals, Sequences

CONSTANTS
  Batches,  \* the sequences of events that one poster may append in one go
  Empty     \* the answer EVENT_TYPE_EMPTY, which is not an event

VARIABLES
  queue,    \* the events posted and not yet taken, oldest first
  out       \* the latest answer given to the program

Init ==
  /\ queue = <<>>
  /\ out = Empty

(* Events posted together stay together and in order. *)
Post(es) ==
  /\ queue' = queue \o es
  /\ UNCHANGED out

Take ==
  /\ queue # <<>>
  /\ out' = Head(queue)
  /\ queue' = Tail(queue)

TakeNothing ==
  /\ queue = <<>>
  /\ out' = Empty
  /\ UNCHANGED queue

Next == (\E es \in Batches : Post(es)) \/ Take \/ TakeNothing

Spec == Init /\ [][Next]_<<queue, out>>
=============================================================================
