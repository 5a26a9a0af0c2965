------------------------------- MODULE Events -------------------------------
(***************************************************************************)
(* The event queue of fox32rom/event.asm, shared by two contexts of the    *)
(* one CPU: the program (its event loop, which takes events and, through   *)
(* the menu code, also posts them) and system_vsync_handler                *)
(* (fox32rom/vsync.asm), which interrupts the program between any two of   *)
(* its instructions while the interrupt flag is set and posts what         *)
(* mouse_update and keyboard_update saw.                                   *)
(*                                                                         *)
(* The handler runs with the flag clear from its first instruction to its  *)
(* reti, so it is one action.  The program's code is one action per        *)
(* instruction that touches the shared words, except the body of           *)
(* event_next between icl and ise, which nothing can interrupt.            *)
(*                                                                         *)
(* An address EVENT_QUEUE_BOTTOM + 32*k is written k + 1, and 0 is the 0   *)
(* that RAM holds before event__init has run.                              *)
(***************************************************************************)
EXTENDS Naturals, Sequences

CONSTANTS
  Word,         \* what one 32-bit word of an event may hold
  Words,        \* words of an event told apart (EVENT_SIZE / 4 = 8 in the code)
  Slots,        \* BOUND: entries the queue is let grow to; the code has no limit
  HandlerEvents,\* events the vsync handler posts (mouse and key events)
  Burst,        \* most events one vsync posts (click, release, key: 3)
  ProgramEvents,\* events the program itself posts (menu events)
  Blank,        \* the contents of RAM never written
  Empty         \* what event__empty answers

Event == [1..Words -> Word]

ASSUME EventsAssumption ==
  /\ Words \in Nat \ {0}
  /\ Slots \in Nat \ {0}
  /\ Burst \in Nat \ {0}
  /\ HandlerEvents \subseteq Event
  /\ ProgramEvents \subseteq Event
  /\ Blank \in Event
  /\ Empty \notin Event

VARIABLES
  ptr,     \* [EVENT_QUEUE_POINTER]
  slots,   \* the words from EVENT_QUEUE_BOTTOM on, by entry
  iflag,   \* the CPU's interrupt flag
  zero,    \* the CPU's zero flag, between a cmp and the jump that reads it
  pc,      \* where the program is
  op,      \* the routine the program called: "next", "wait" or "new"
  arg,     \* r0..r7 of a call of new_event
  r8,      \* the entry event_new stores to
  w,       \* the next word event__store writes
  got,     \* r0..r7 of the program's latest answer
  mon,     \* TRUE: the handler is inside invoke_monitor
  masked,  \* so far the program called new_event only with interrupts off
           \* and no event was posted into the window of event__init
  alone    \* so far nobody opened the monitor

vars == <<ptr, slots, iflag, zero, pc, op, arg, r8, w, got, mon, masked, alone>>

BOTTOM == 1

Bursts == UNION {[1..n -> HandlerEvents] : n \in 0..Burst}

Init ==
  /\ ptr \in {0, BOTTOM}
  /\ slots = [i \in 1..Slots |-> Blank]
  /\ iflag = TRUE
  /\ zero = FALSE
  /\ pc = "run"
  /\ op = "next"
  /\ arg = Blank
  /\ r8 = BOTTOM
  /\ w = 1
  /\ got = Empty
  /\ mon = FALSE
  /\ masked = TRUE
  /\ alone = TRUE
-----------------------------------------------------------------------------
(* The program between calls. *)

CallNext ==
  /\ pc = "run"
  /\ pc' = "init_cmp"
  /\ op' = "next"
  /\ UNCHANGED <<ptr, slots, iflag, zero, arg, r8, w, got, mon, masked, alone>>

CallWait ==
  /\ pc = "run"
  /\ pc' = "init_cmp"
  /\ op' = "wait"
  /\ UNCHANGED <<ptr, slots, iflag, zero, arg, r8, w, got, mon, masked, alone>>

(* ptr <= Slots is the bound, not the code's. *)
CallNew(e) ==
  /\ pc = "run"
  /\ ptr <= Slots
  /\ pc' = "init_cmp"
  /\ op' = "new"
  /\ arg' = e
  /\ masked' = (masked /\ ~iflag)
  /\ UNCHANGED <<ptr, slots, iflag, zero, r8, w, got, mon, alone>>

(* The program's own ise and icl. *)
SetFlag(b) ==
  /\ pc = "run"
  /\ iflag' = b
  /\ UNCHANGED <<ptr, slots, zero, pc, op, arg, r8, w, got, mon, masked,
                 alone>>
-----------------------------------------------------------------------------
(* event__init: a compare and a conditional move.  Its ret leads back into *)
(* the routine that was called.                                            *)

InitCmp ==
  /\ pc = "init_cmp"
  /\ zero' = (ptr = 0)
  /\ pc' = "init_mov"
  /\ UNCHANGED <<ptr, slots, iflag, op, arg, r8, w, got, mon, masked, alone>>

AfterInit == [next |-> "next_cmp", wait |-> "wait_ise", new |-> "new_load"]

InitMov ==
  /\ pc = "init_mov"
  /\ ptr' = IF zero THEN BOTTOM ELSE ptr
  /\ pc' = AfterInit[op]
  /\ UNCHANGED <<slots, iflag, zero, op, arg, r8, w, got, mon, masked, alone>>
-----------------------------------------------------------------------------
(* event_wait: sleep first, look at the queue after. *)

WaitIse ==
  /\ pc = "wait_ise"
  /\ iflag' = TRUE
  /\ pc' = "wait_halt"
  /\ UNCHANGED <<ptr, slots, zero, op, arg, r8, w, got, mon, masked, alone>>

WaitHalt ==
  /\ pc = "wait_halt"
  /\ pc' = "halted"
  /\ UNCHANGED <<ptr, slots, iflag, zero, op, arg, r8, w, got, mon, masked,
                 alone>>

WaitCmp ==
  /\ pc = "wait_cmp"
  /\ zero' = (ptr = BOTTOM)
  /\ pc' = "wait_jmp"
  /\ UNCHANGED <<ptr, slots, iflag, op, arg, r8, w, got, mon, masked, alone>>

(* Mutant: ifnz for ifz. *)
WaitJmpInverted ==
  /\ pc = "wait_jmp"
  /\ pc' = IF zero THEN "next_icl" ELSE "wait_ise"
  /\ UNCHANGED <<ptr, slots, iflag, zero, op, arg, r8, w, got, mon, masked,
                 alone>>

WaitJmp ==
  /\ pc = "wait_jmp"
  /\ pc' = IF zero THEN "wait_ise" ELSE "next_icl"
  /\ UNCHANGED <<ptr, slots, iflag, zero, op, arg, r8, w, got, mon, masked,
                 alone>>
-----------------------------------------------------------------------------
(* event_next. *)

(* Mutant: event_next compares as event__init does. *)
NextCmpZero ==
  /\ pc = "next_cmp"
  /\ zero' = (ptr = 0)
  /\ pc' = "next_jmp"
  /\ UNCHANGED <<ptr, slots, iflag, op, arg, r8, w, got, mon, masked, alone>>

NextCmp ==
  /\ pc = "next_cmp"
  /\ zero' = (ptr = BOTTOM)
  /\ pc' = "next_jmp"
  /\ UNCHANGED <<ptr, slots, iflag, op, arg, r8, w, got, mon, masked, alone>>

(* Mutant: the ret of event__empty is missing, and the code below it ends  *)
(* in event_wait.                                                          *)
NextEmptyWaits ==
  /\ pc = "next_jmp"
  /\ zero
  /\ pc' = "wait_ise"
  /\ UNCHANGED <<ptr, slots, iflag, zero, op, arg, r8, w, got, mon, masked,
                 alone>>

NextEmpty ==
  /\ pc = "next_jmp"
  /\ zero
  /\ got' = Empty
  /\ pc' = "run"
  /\ UNCHANGED <<ptr, slots, iflag, zero, op, arg, r8, w, mon, masked, alone>>

NextSome ==
  /\ pc = "next_jmp"
  /\ ~zero
  /\ pc' = "next_icl"
  /\ UNCHANGED <<ptr, slots, iflag, zero, op, arg, r8, w, got, mon, masked,
                 alone>>

(* Mutant: the copying loop ends one entry early. *)
ShiftedShort(s, p) == [i \in 1..Slots |-> IF i + 2 < p THEN s[i + 1] ELSE s[i]]

(* The copying loop: entries 2 .. ptr - 1 move down by one; the last one  *)
(* also stays where it was.                                                *)
Shifted(s, p) == [i \in 1..Slots |-> IF i + 1 < p THEN s[i + 1] ELSE s[i]]

(* icl ... ise: the oldest entry is saved in EVENT_TEMP, the others are    *)
(* shifted, the saved one is answered and interrupts are back on whatever  *)
(* they were before the call.                                              *)
NextTake ==
  /\ pc = "next_icl"
  /\ ptr > BOTTOM
  /\ got' = slots[1]
  /\ slots' = Shifted(slots, ptr)
  /\ ptr' = ptr - 1
  /\ iflag' = TRUE
  /\ pc' = "run"
  /\ UNCHANGED <<zero, op, arg, r8, w, mon, masked, alone>>

(* On an empty queue the loop's cmp [EVENT_QUEUE_POINTER], r9 first fails  *)
(* at BOTTOM + 32 and the copying runs away, interrupts off.               *)
NextRunaway ==
  /\ pc = "next_icl"
  /\ ptr <= BOTTOM
  /\ iflag' = FALSE
  /\ pc' = "runaway"
  /\ UNCHANGED <<ptr, slots, zero, op, arg, r8, w, got, mon, masked, alone>>
-----------------------------------------------------------------------------
(* event_new, called by the program. *)

NewLoad ==
  /\ pc = "new_load"
  /\ r8' = ptr
  /\ w' = 1
  /\ pc' = "new_store"
  /\ UNCHANGED <<ptr, slots, iflag, zero, op, arg, got, mon, masked, alone>>

NewStore ==
  /\ pc = "new_store"
  /\ slots' = [slots EXCEPT ![r8] = [@ EXCEPT ![w] = arg[w]]]
  /\ IF w = Words THEN pc' = "new_mov" /\ UNCHANGED w
                  ELSE w' = w + 1 /\ UNCHANGED pc
  /\ UNCHANGED <<ptr, iflag, zero, op, arg, r8, got, mon, masked, alone>>

NewMov ==
  /\ pc = "new_mov"
  /\ ptr' = r8 + 1
  /\ pc' = "run"
  /\ UNCHANGED <<slots, iflag, zero, op, arg, r8, w, got, mon, masked, alone>>
-----------------------------------------------------------------------------
(* A vsync interrupt: the handler calls event_new, event__init included,   *)
(* once per event of es, saves and restores every register and flag, and   *)
(* wakes the CPU if it was halted.  base + Len(es) <= Slots is the bound.  *)
(* monitor_vsync_handler looks at the keyboard only: one event at most.    *)

(* Mutant: event__init resets the queue on every call. *)
BaseReset == BOTTOM

Base == IF ptr = 0 THEN BOTTOM ELSE ptr

(* Mutant: the first event goes one entry too high. *)
StoredHigh(s, base, es) ==
  [i \in 1..Slots |-> IF i \in base + 1 .. base + Len(es)
                        THEN es[i - base] ELSE s[i]]

Stored(s, base, es) ==
  [i \in 1..Slots |-> IF i \in base .. base + Len(es) - 1
                        THEN es[i - base + 1] ELSE s[i]]

(* The program saw a pointer of 0 and is about to overwrite it. *)
InWindow == pc = "init_mov" /\ zero

Woken == IF pc = "halted" THEN "wait_cmp" ELSE pc

VSync(es) ==
  /\ iflag
  /\ mon => Len(es) <= 1
  /\ es # <<>> => Base + Len(es) <= Slots
  /\ ptr' = IF es = <<>> THEN ptr ELSE Base + Len(es)
  /\ slots' = Stored(slots, Base, es)
  /\ pc' = Woken
  /\ masked' = (masked /\ (es # <<>> => ~InWindow))
  /\ UNCHANGED <<iflag, zero, op, arg, r8, w, got, mon, alone>>

(* F12: keyboard_update jumps to invoke_monitor, which turns interrupts on *)
(* inside the handler and polls the same queue, with a handler of its own  *)
(* that posts to it, until the user leaves.  The program is suspended.     *)
(* Its first poll runs event__init.                                        *)
F12 ==
  /\ iflag
  /\ ~mon
  /\ mon' = TRUE
  /\ ptr' = Base
  /\ pc' = Woken
  /\ alone' = FALSE
  /\ UNCHANGED <<slots, iflag, zero, op, arg, r8, w, got, masked>>

MonitorTake ==
  /\ mon
  /\ ptr > BOTTOM
  /\ slots' = Shifted(slots, ptr)
  /\ ptr' = ptr - 1
  /\ UNCHANGED <<iflag, zero, pc, op, arg, r8, w, got, mon, masked, alone>>

MonitorExit ==
  /\ mon
  /\ mon' = FALSE
  /\ UNCHANGED <<ptr, slots, iflag, zero, pc, op, arg, r8, w, got, masked,
                 alone>>
-----------------------------------------------------------------------------
Client ==
  \/ CallNext
  \/ CallWait
  \/ \E e \in ProgramEvents : CallNew(e)
  \/ \E b \in BOOLEAN : SetFlag(b)

Routine ==
  \/ InitCmp \/ InitMov
  \/ WaitIse \/ WaitHalt \/ WaitCmp \/ WaitJmp
  \/ NextCmp \/ NextEmpty \/ NextSome \/ NextTake \/ NextRunaway
  \/ NewLoad \/ NewStore \/ NewMov

Interrupt == \E es \in Bursts : VSync(es)

Next ==
  \/ ~mon /\ (Client \/ Routine)
  \/ Interrupt
  \/ F12 \/ MonitorTake \/ MonitorExit

Spec == Init /\ [][Next]_vars

(* The CPU keeps executing, and the window's event loop keeps requesting   *)
(* vsync (fox32/src/main.rs, Event::MainEventsCleared), which wakes the    *)
(* CPU whether or not there is anything to post.                           *)
FairSpec == Spec /\ WF_vars(~mon /\ Routine) /\ WF_vars(VSync(<<>>))

(* Every program of the repository takes an event at each turn of its      *)
(* main loop, whatever else it does in between.                            *)
LoopSpec == FairSpec /\ SF_vars(~mon /\ (CallNext \/ CallWait))
-----------------------------------------------------------------------------
(* Properties. *)

Pcs == {"run", "init_cmp", "init_mov", "wait_ise", "wait_halt", "halted",
        "wait_cmp", "wait_jmp", "next_cmp", "next_jmp", "next_icl", "runaway",
        "new_load", "new_store", "new_mov"}

(* Every variable holds what the code may put there; in particular the     *)
(* queue pointer is never moved below EVENT_QUEUE_BOTTOM by event_next nor *)
(* past the entries the bound allows.                                      *)
TypeOK ==
  /\ ptr \in 0 .. Slots + 1
  /\ slots \in [1..Slots -> Event]
  /\ iflag \in BOOLEAN
  /\ zero \in BOOLEAN
  /\ pc \in Pcs
  /\ op \in {"next", "wait", "new"}
  /\ arg \in Event
  /\ r8 \in 0 .. Slots + 1
  /\ w \in 1..Words
  /\ got \in Event \cup {Empty}
  /\ mon \in BOOLEAN
  /\ masked \in BOOLEAN
  /\ alone \in BOOLEAN

(* event_next reads the pointer with interrupts on and shifts the queue    *)
(* with interrupts off: as long as nobody opened the monitor, what it saw  *)
(* non-empty is still non-empty when the copying loop runs, although the   *)
(* handler ran in between, so the loop ends.                               *)
NeverRunsAway == alone => pc # "runaway"

WholeQueue == \A i \in 1..Slots : i < ptr => slots[i] \in HandlerEvents \cup ProgramEvents

(* As long as the program posts with interrupts off, an entry below the    *)
(* queue pointer is an event somebody posted: never a mixture of two       *)
(* events nor memory nobody wrote.                                         *)
EventsWhole == masked => WholeQueue

(* Then the queue pointer moves down only when event_next takes an event,  *)
(* for the program or for the monitor.                                     *)
NoneDropped == [][masked' /\ ptr' < ptr => pc = "next_icl" \/ mon]_vars

(* event_next always comes back to the program, and so does event_new,     *)
(* however often they are interrupted, until the monitor is opened.        *)
CallsReturn == (pc # "run" /\ op # "wait") ~> (pc = "run" \/ ~alone)

(* A program that sleeps in wait_for_event while an event is queued gets   *)
(* it, also when the event was queued between the last look at the queue   *)
(* and the halt: the next vsync wakes it.                                  *)
WaitReturns ==
  (pc # "run" /\ op = "wait" /\ ptr > BOTTOM) ~> (pc = "run" \/ ~alone \/ ~masked)

Queue == [i \in 1 .. (IF ptr = 0 THEN 0 ELSE ptr - 1) |-> slots[i]]

(* An event in the queue is handed to a program that keeps polling. *)
AllDelivered ==
  \A e \in HandlerEvents :
    (\E i \in 1 .. ptr - 1 : slots[i] = e) ~> (got = e \/ ~alone \/ ~masked)

(* As long as the program posts with interrupts off and nobody opened the  *)
(* monitor, the routines implement the queue of EventFifo.  An answer      *)
(* "empty" takes effect at the compare, not at the jump that follows it.   *)
Answer == IF pc = "next_jmp" /\ zero THEN Empty ELSE got

Fifo == INSTANCE EventFifo WITH
  Batches <- Bursts \cup {<<e>> : e \in ProgramEvents},
  queue <- Queue,
  out <- Answer

FifoSpec == Fifo!Init /\ [][masked' /\ alone' => Fifo!Next]_<<Queue, Answer>>
=============================================================================
