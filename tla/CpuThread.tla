------------------------------ MODULE CpuThread ------------------------------
(***************************************************************************)
(* The threads of the emulator (fox32/src/main.rs) and the channel between *)
(* them.  The window thread requests a vsync interrupt at each turn of its *)
(* event loop, the audio thread a buffer swap after each buffer it played, *)
(* and the CPU thread takes at most one request before each instruction,   *)
(* or sleeps in recv while the CPU is halted.                              *)
(*                                                                         *)
(* The program is any sequence of instructions as far as interrupts go:    *)
(* only those that change the interrupt flag, halt the CPU, end a handler, *)
(* switch audio or fail are told apart, and "nop" is every other one.      *)
(***************************************************************************)
EXTENDS Naturals, Sequences

CONSTANTS
  Runtime,      \* "rust" (fox32/src/cpu.rs) or "core" (fox32core/fox32.c)
  ProgramOps,   \* the instructions of the program
  HandlerOps,   \* the instructions of the interrupt handlers
  MaxRequests,  \* BOUND: requests waiting in the channel; it has no limit
  MaxNesting    \* BOUND: handlers that interrupt one another

Ops == {"nop", "ise", "icl", "halt", "reti", "play", "stop", "fault", "locked fault"}

ASSUME CpuThreadAssumption ==
  /\ Runtime \in {"rust", "core"}
  /\ ProgramOps \subseteq Ops \ {"reti"}
  /\ HandlerOps \subseteq Ops
  /\ MaxRequests \in Nat \ {0}
  /\ MaxNesting \in Nat \ {0}

VARIABLES
  iflag,     \* the interrupt flag
  halted,    \* the halted flag
  frames,    \* the flags pushed by the interrupts not yet returned from
  thread,    \* the CPU thread: "running", "ended" or "panicked"
  chan,      \* the interrupt requests sent and not yet received
  window,    \* the window thread: about to "send" or to "draw", or gone
  playing,   \* struct Audio: the audio port is on
  audio,     \* the audio thread: about to "look" or to "send", or "panicked"
  poisoned,  \* the CPU thread panicked with the overlays locked
  last,      \* the instruction executed last
  wanted     \* the interrupt flag as the program itself set it last

cpu == <<iflag, halted, frames>>
vars == <<iflag, halted, frames, thread, chan, window, playing, audio, poisoned,
          last, wanted>>

Init ==
  /\ iflag = FALSE
  /\ halted = FALSE
  /\ frames = <<>>
  /\ thread = "running"
  /\ chan = <<>>
  /\ window = "send"
  /\ playing = FALSE
  /\ audio = "look"
  /\ poisoned = FALSE
  /\ last = "nop"
  /\ wanted = FALSE
-----------------------------------------------------------------------------
(* The CPU.  A state of it is a record, for a request and an instruction   *)
(* are dealt with in one turn of the loop.                                 *)

State == [iflag |-> iflag, halted |-> halted, frames |-> frames]

(* Mutant: the flags are pushed after the interrupt flag has been cleared. *)
RaisedClearFirst(c) ==
  IF ~c.iflag THEN c
  ELSE [iflag |-> FALSE, halted |-> c.halted, frames |-> Append(c.frames, FALSE)]

(* Mutant: what fox32core does. *)
RaisedHalted(c) ==
  IF ~c.iflag THEN c
  ELSE [iflag |-> FALSE, halted |-> TRUE, frames |-> Append(c.frames, TRUE)]

(* Cpu::interrupt and vm_raise: a request that finds interrupts off is     *)
(* dropped; otherwise the flags are pushed and interrupts turned off.      *)
(* vm_raise also halts the CPU.                                            *)
Raised(c) ==
  IF ~c.iflag THEN c
  ELSE [iflag  |-> FALSE,
        halted |-> c.halted \/ Runtime = "core",
        frames |-> Append(c.frames, c.iflag)]

Executed(i, c) ==
  CASE i = "ise"  -> [c EXCEPT !.iflag = TRUE]
    [] i = "icl"  -> [c EXCEPT !.iflag = FALSE]
    [] i = "halt" -> [c EXCEPT !.halted = TRUE]
    [] i = "reti" -> [c EXCEPT !.iflag = c.frames[Len(c.frames)],
                               !.frames = SubSeq(@, 1, Len(@) - 1)]
    [] OTHER      -> c

Becomes(c) ==
  /\ iflag' = c.iflag
  /\ halted' = c.halted
  /\ frames' = c.frames

(* The instruction comes from the program or, after an interrupt, from its *)
(* handler; a handler turns interrupts on only up to the bound.            *)
Fetched(c, i) ==
  IF c.frames = <<>> THEN i \in ProgramOps
  ELSE i \in HandlerOps /\ (i = "ise" => Len(c.frames) < MaxNesting)

(* A panic of the thread: a bad opcode or a division by zero, or an access *)
(* to an overlay port that does not exist, which happens under the lock.   *)
Failing(i) == i \in {"fault", "locked fault"}

(* One turn of the inner loop: try_recv, raise, step. *)
Turn ==
  /\ thread = "running"
  /\ ~halted
  /\ chan' = IF chan = <<>> THEN chan ELSE Tail(chan)
  /\ LET c == IF chan = <<>> THEN State ELSE Raised(State) IN
       \E i \in Ops :
         /\ Fetched(c, i)
         /\ Becomes(Executed(i, c))
         /\ last' = i
         /\ wanted' = IF c.frames # <<>> THEN wanted ELSE Executed(i, c).iflag
         /\ playing' = CASE i = "play" -> TRUE [] i = "stop" -> FALSE [] OTHER -> playing
         /\ thread' = IF Failing(i) THEN "panicked" ELSE thread
         /\ poisoned' = (i = "locked fault")
  /\ UNCHANGED <<window, audio>>

(* The CPU was halted and interrupts are disabled: the thread ends. *)
End ==
  /\ thread = "running"
  /\ halted
  /\ ~iflag
  /\ thread' = "ended"
  /\ UNCHANGED <<cpu, chan, window, playing, audio, poisoned, last, wanted>>

(* Mutant: recv does not reset the halted flag. *)
WakeHalted ==
  /\ thread = "running"
  /\ halted
  /\ iflag
  /\ chan # <<>>
  /\ chan' = Tail(chan)
  /\ Becomes(Raised(State))
  /\ UNCHANGED <<thread, window, playing, audio, poisoned, last, wanted>>

(* recv: the request that ends the sleep. *)
Wake ==
  /\ thread = "running"
  /\ halted
  /\ iflag
  /\ chan # <<>>
  /\ chan' = Tail(chan)
  /\ Becomes(Raised([State EXCEPT !.halted = FALSE]))
  /\ UNCHANGED <<thread, window, playing, audio, poisoned, last, wanted>>
-----------------------------------------------------------------------------
(* The other threads.  The receiving end of the channel is dropped when    *)
(* the CPU thread ends or panics.                                          *)

Receiving == thread = "running"

(* Mutant: an error of send is ignored. *)
SendVSyncIgnoring ==
  /\ window = "send"
  /\ IF Receiving
       THEN /\ Len(chan) < MaxRequests
            /\ chan' = Append(chan, "vsync")
       ELSE UNCHANGED chan
  /\ window' = "draw"
  /\ UNCHANGED <<cpu, thread, playing, audio, poisoned, last, wanted>>

(* Event::MainEventsCleared, up to its update of the display. *)
SendVSync ==
  /\ window = "send"
  /\ IF Receiving
       THEN /\ Len(chan) < MaxRequests
            /\ chan' = Append(chan, "vsync")
            /\ window' = "draw"
       ELSE /\ window' = "closed"
            /\ UNCHANGED chan
  /\ UNCHANGED <<cpu, thread, playing, audio, poisoned, last, wanted>>

(* Display::update locks the overlays. *)
Draw ==
  /\ window = "draw"
  /\ window' = IF poisoned THEN "panicked" ELSE "send"
  /\ UNCHANGED <<cpu, thread, chan, playing, audio, poisoned, last, wanted>>

(* The audio thread, which ends with the process. *)
AudioLook ==
  /\ window \in {"send", "draw"}
  /\ audio = "look"
  /\ playing
  /\ audio' = "send"
  /\ UNCHANGED <<cpu, thread, chan, window, playing, poisoned, last, wanted>>

AudioSend ==
  /\ window \in {"send", "draw"}
  /\ audio = "send"
  /\ IF Receiving
       THEN /\ Len(chan) < MaxRequests
            /\ chan' = Append(chan, "swap")
            /\ audio' = "look"
       ELSE /\ audio' = "panicked"
            /\ UNCHANGED chan
  /\ UNCHANGED <<cpu, thread, window, playing, poisoned, last, wanted>>
-----------------------------------------------------------------------------
CpuLoop == Turn \/ End \/ Wake
Window == SendVSync \/ Draw

Next == CpuLoop \/ Window \/ AudioLook \/ AudioSend

Spec == Init /\ [][Next]_vars

(* The CPU thread runs or sleeps in recv, and the window polls its events. *)
FairSpec == Spec /\ WF_vars(CpuLoop) /\ WF_vars(Window)
-----------------------------------------------------------------------------
(* Properties. *)

(* Every variable is typed; in particular reti always finds flags to pop,  *)
(* and the window closes on its own only when the CPU thread is gone.      *)
TypeOK ==
  /\ iflag \in BOOLEAN
  /\ halted \in BOOLEAN
  /\ frames \in Seq(BOOLEAN)
  /\ thread \in {"running", "ended", "panicked"}
  /\ chan \in Seq({"vsync", "swap"})
  /\ window \in {"send", "draw", "closed", "panicked"}
  /\ playing \in BOOLEAN
  /\ window = "closed" => thread # "running"
  /\ audio \in {"look", "send", "panicked"}
  /\ poisoned \in BOOLEAN
  /\ last \in Ops
  /\ wanted \in BOOLEAN

(* However interrupts come and nest, the program finds the interrupt flag  *)
(* as it left it: the handlers are invisible to it.                        *)
FlagRestored ==
  /\ frames = <<>> => (iflag <=> wanted)
  /\ \A i \in 1..Len(frames) : frames[i]
  /\ frames # <<>> => wanted

(* The CPU thread ends only if the CPU executed a halt with interrupts off *)
(* (main.rs: "the cpu was halted and interrupts are disabled").            *)
EndsOnlyByHalt == thread = "ended" => last = "halt" /\ ~iflag

(* A halted CPU that can be interrupted runs again. *)
WakesUp == (thread = "running" /\ halted /\ iflag) ~> (~halted)

(* When the CPU thread is gone, by a halt with interrupts off (how         *)
(* vulpine shuts down) or by a panic, the window closes.                   *)
WindowFollows == (thread # "running") ~> (window \in {"closed", "panicked"})
=============================================================================
