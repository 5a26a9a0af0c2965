-------------------------------- MODULE Mouse --------------------------------
(***************************************************************************)
(* The mouse button, from the user to the event queue.  The window thread  *)
(* (fox32/src/main.rs) looks at the button once per turn of its event loop *)
(* and records in three bits of struct Mouse (fox32/src/mouse.rs) what     *)
(* happened; the CPU thread runs mouse_update (fox32rom/mouse.asm) once    *)
(* per vsync, which reads the bits with one in instruction and writes all  *)
(* three back with an out instruction per event.  Each access takes the    *)
(* mutex, the sequence of them does not.                                   *)
(*                                                                         *)
(* The counters stop at MaxPresses + 1.                                    *)
(***************************************************************************)
EXTENDS Naturals

CONSTANT
  MaxPresses   \* BOUND: how often the user presses the button

ASSUME MouseAssumption == MaxPresses \in Nat

VARIABLES
  down,      \* the button itself
  pressed,   \* pressed since the window thread last looked
  bits,      \* the bits of struct Mouse that are set
  pc,        \* where mouse_update is
  r3,        \* the bits as it read them
  presses,   \* how often the button went down
  clicks,    \* how often the click bit was answered
  releases,  \* how often a release event was given to new_event
  patient    \* so far the user waited until the last change was dealt with

vars == <<down, pressed, bits, pc, r3, presses, clicks, releases, patient>>

Bits == {"clicked", "released", "held"}

Count(n) == IF n <= MaxPresses THEN n + 1 ELSE n

Init ==
  /\ down = FALSE
  /\ pressed = FALSE
  /\ bits = {}
  /\ pc = "idle"
  /\ r3 = {}
  /\ presses = 0
  /\ clicks = 0
  /\ releases = 0
  /\ patient = TRUE
-----------------------------------------------------------------------------
(* The user. *)

Settled == ~pressed /\ pc = "idle" /\ bits = IF down THEN {"held"} ELSE {}

Press ==
  /\ ~down
  /\ presses < MaxPresses
  /\ down' = TRUE
  /\ pressed' = TRUE
  /\ presses' = presses + 1
  /\ patient' = (patient /\ Settled)
  /\ UNCHANGED <<bits, pc, r3, clicks, releases>>

LetGo ==
  /\ down
  /\ down' = FALSE
  /\ patient' = (patient /\ Settled)
  /\ UNCHANGED <<pressed, bits, pc, r3, presses, clicks, releases>>
-----------------------------------------------------------------------------
(* The window thread: mouse_held(0) is down, mouse_pressed(0) is pressed.  *)

Mark(b, set) == IF set THEN {b} ELSE {}

(* Mutant: a button that is up counts as released. *)
SeenUp ==
  (bits \cap {"clicked", "released"})
    \cup Mark("released", ~down) \cup Mark("held", down) \cup Mark("clicked", pressed)

Seen ==
  (bits \cap {"clicked", "released"})
    \cup Mark("released", "held" \in bits /\ ~down)
    \cup Mark("held", down) \cup Mark("clicked", pressed)

Look ==
  /\ bits' = Seen
  /\ pressed' = FALSE
  /\ UNCHANGED <<down, pc, r3, presses, clicks, releases, patient>>
-----------------------------------------------------------------------------
(* mouse_update.  The handler restores the register when it returns.       *)

Keep(b) == r3' = IF pc' = "idle" THEN {} ELSE b

(* in r0, 0x80000401 and in r3, 0x80000400. *)
Read ==
  /\ pc = "idle"
  /\ pc' = IF "clicked" \in bits THEN "click"
           ELSE IF "released" \in bits THEN "release" ELSE "idle"
  /\ Keep(bits)
  /\ UNCHANGED <<down, pressed, bits, presses, clicks, releases, patient>>

(* out r2, r3, after bcl r3, 0. *)
ClearClick == bits' = r3 \ {"clicked"}

(* mouse_update_clicked: the click is answered with an event of the menu   *)
(* bar or of the program, or with none (see Desktop.tla).                  *)
Click ==
  /\ pc = "click"
  /\ ClearClick
  /\ clicks' = Count(clicks)
  /\ pc' = IF "released" \in r3 THEN "release" ELSE "idle"
  /\ Keep(r3)
  /\ UNCHANGED <<down, pressed, presses, releases, patient>>

(* mouse_update_released: the pop has restored r3 to what was read.        *)
Release ==
  /\ pc = "release"
  /\ bits' = r3 \ {"released"}
  /\ releases' = Count(releases)
  /\ pc' = "idle"
  /\ Keep(r3)
  /\ UNCHANGED <<down, pressed, presses, clicks, patient>>
-----------------------------------------------------------------------------
MouseUpdate == Read \/ Click \/ Release

Next == Press \/ LetGo \/ Look \/ MouseUpdate

Spec == Init /\ [][Next]_vars
-----------------------------------------------------------------------------
(* Properties. *)

(* The bits, registers and counters hold what the two threads may put      *)
(* there; in particular mouse_update never answers a bit it has not read.  *)
TypeOK ==
  /\ down \in BOOLEAN
  /\ pressed \in BOOLEAN
  /\ bits \subseteq Bits
  /\ pc \in {"idle", "click", "release"}
  /\ r3 \subseteq Bits
  /\ pc = "click" => "clicked" \in r3
  /\ pc = "release" => "released" \in r3
  /\ presses \in 0..MaxPresses
  /\ clicks \in 0 .. MaxPresses + 1
  /\ releases \in 0 .. MaxPresses + 1
  /\ patient \in BOOLEAN

(* The user lets go only of what was pressed: however the two threads      *)
(* overwrite each other's bits, a release is never reported twice.         *)
ReleasesBounded == releases <= presses

(* As long as the user waits for the machine, every press is one click and *)
(* every release one release event.                                        *)
EachCounted ==
  patient /\ Settled =>
    /\ clicks = presses
    /\ releases = IF down THEN presses - 1 ELSE presses

(* mouse.asm: a click event is added "if the mouse button was clicked".    *)
ClicksBounded == clicks <= presses
=============================================================================
