--------------------------- MODULE CpuThreadProofs ---------------------------
(***************************************************************************)
(* The interrupt flag as the program sees it, and how the CPU thread ends, *)
(* for every program, every handler and every length of the channel.       *)
(***************************************************************************)
EXTENDS CpuThread, SequenceTheorems, TLAPS

(* What the loop keeps true of a state of the CPU, before and after it     *)
(* raises a request, and after it executes an instruction.                 *)
Good(c, want) ==
  /\ c.iflag \in BOOLEAN
  /\ c.halted \in BOOLEAN
  /\ c.frames \in Seq(BOOLEAN)
  /\ c.frames = <<>> => (c.iflag <=> want)
  /\ \A i \in 1..Len(c.frames) : c.frames[i]
  /\ c.frames # <<>> => want

Machine == [iflag : BOOLEAN, halted : BOOLEAN, frames : Seq(BOOLEAN)]

Inv ==
  /\ TypeOK
  /\ FlagRestored
  /\ thread = "ended" => halted /\ ~iflag
  /\ Runtime = "rust" /\ halted => last = "halt"

LEMMA RaisedGood ==
  ASSUME NEW c \in Machine, NEW want \in BOOLEAN, Good(c, want)
  PROVE  Raised(c) \in Machine /\ Good(Raised(c), want)
<1>1. CASE ~c.iflag
  BY <1>1 DEF Raised
<1>2. CASE c.iflag
  <2> DEFINE f == Append(c.frames, c.iflag)
  <2>1. f \in Seq(BOOLEAN) /\ Len(f) = Len(c.frames) + 1 /\ f # <<>>
        /\ \A i \in 1..Len(f) : f[i]
    <3>1. c.frames \in Seq(BOOLEAN) /\ c.iflag \in BOOLEAN
      BY DEF Machine
    <3>2. /\ f \in Seq(BOOLEAN)
          /\ Len(f) = Len(c.frames) + 1
          /\ \A i \in 1..Len(f) : f[i] = IF i <= Len(c.frames) THEN c.frames[i] ELSE c.iflag
      BY <3>1, AppendProperties
    <3>3. c.iflag /\ \A i \in 1..Len(c.frames) : c.frames[i]
      BY <1>2, Zenon DEF Good
    <3>4. Len(c.frames) \in Nat /\ f # <<>>
      BY <3>1, <3>2
    <3>5. ASSUME NEW i \in 1..Len(f) PROVE f[i]
      <4>1. CASE i <= Len(c.frames)
        <5>1. i \in 1..Len(c.frames) /\ f[i] = c.frames[i]
          BY <3>2, <3>4, <4>1
        <5> QED BY <3>3, <5>1, Zenon
      <4>2. CASE ~(i <= Len(c.frames))
        <5>1. f[i] = c.iflag
          BY <3>2, <4>2
        <5> QED BY <3>3, <5>1, Zenon
      <4> QED BY <4>1, <4>2
    <3> QED BY <3>2, <3>4, <3>5
  <2>2. want
    BY <1>2 DEF Good
  <2>3. /\ Raised(c).iflag = FALSE
        /\ Raised(c).halted \in BOOLEAN
        /\ Raised(c).frames = f
        /\ Raised(c) \in Machine
    BY <1>2, <2>1 DEF Raised, Machine
  <2> HIDE DEF f
  <2> QED BY <2>1, <2>2, <2>3 DEF Good
<1> QED BY <1>1, <1>2

LEMMA ExecutedCases ==
  ASSUME NEW i, NEW c
  PROVE  /\ i = "ise" => Executed(i, c) = [c EXCEPT !.iflag = TRUE]
         /\ i = "icl" => Executed(i, c) = [c EXCEPT !.iflag = FALSE]
         /\ i = "halt" => Executed(i, c) = [c EXCEPT !.halted = TRUE]
         /\ i = "reti" => Executed(i, c) =
              [c EXCEPT !.iflag = c.frames[Len(c.frames)],
                        !.frames = SubSeq(@, 1, Len(@) - 1)]
         /\ i \notin {"ise", "icl", "halt", "reti"} => Executed(i, c) = c
BY Zenon DEF Executed

LEMMA ExecutedGood ==
  ASSUME NEW i \in Ops, NEW c \in Machine, NEW want \in BOOLEAN,
         Good(c, want), Fetched(c, i)
  PROVE  /\ Executed(i, c) \in Machine
         /\ Good(Executed(i, c), IF c.frames # <<>> THEN want ELSE Executed(i, c).iflag)
         /\ Executed(i, c).halted => c.halted \/ i = "halt"
<1> DEFINE d == Executed(i, c)
           w == IF c.frames # <<>> THEN want ELSE d.iflag
<1>0. c.frames \in Seq(BOOLEAN) /\ Len(c.frames) \in Nat
  BY DEF Machine
<1>1. CASE i \in {"ise", "icl"}
  <2>0. d = [c EXCEPT !.iflag = TRUE] \/ d = [c EXCEPT !.iflag = FALSE]
    BY <1>1, ExecutedCases, Zenon
  <2>1. /\ d \in Machine /\ d.frames = c.frames /\ d.halted = c.halted
    BY <2>0 DEF Machine
  <2> HIDE DEF d
  <2>2. ASSUME c.frames = <<>> PROVE Good(d, d.iflag)
    BY <2>1, <2>2 DEF Good, Machine
  <2>3. ASSUME c.frames # <<>> PROVE Good(d, want)
    BY <2>1, <2>3 DEF Good, Machine
  <2> QED BY <2>1, <2>2, <2>3 DEF d
<1>2. CASE i = "halt"
  <2>0. d = [c EXCEPT !.halted = TRUE]
    BY <1>2, ExecutedCases, Zenon
  <2>1. d \in Machine /\ d.frames = c.frames /\ d.iflag = c.iflag
    BY <2>0 DEF Machine
  <2> HIDE DEF d
  <2>2. ASSUME c.frames = <<>> PROVE Good(d, d.iflag)
    BY <2>1, <2>2 DEF Good, Machine
  <2>3. ASSUME c.frames # <<>> PROVE Good(d, want)
    BY <2>1, <2>3 DEF Good, Machine
  <2> QED BY <1>2, <2>1, <2>2, <2>3 DEF d
<1>3. CASE i = "reti"
  <2>1. c.frames # <<>>
    BY <1>3, CpuThreadAssumption DEF Fetched
  <2>2. Len(c.frames) >= 1 /\ want
    BY <1>0, <2>1, EmptySeq DEF Good
  <2>3. /\ d.iflag = c.frames[Len(c.frames)]
        /\ d.halted = c.halted
        /\ d.frames = SubSeq(c.frames, 1, Len(c.frames) - 1)
        /\ d = [iflag |-> d.iflag, halted |-> d.halted, frames |-> d.frames]
    <3>1. d = [c EXCEPT !.iflag = c.frames[Len(c.frames)],
                        !.frames = SubSeq(@, 1, Len(@) - 1)]
      BY <1>3, ExecutedCases, Zenon
    <3> QED BY <3>1 DEF Machine
  <2>4. d.iflag
    <3>1. Len(c.frames) \in 1..Len(c.frames)
      BY <1>0, <2>2
    <3> QED BY <2>3, <3>1, Zenon DEF Good
  <2>5. /\ d.frames \in Seq(BOOLEAN) /\ Len(d.frames) = Len(c.frames) - 1
        /\ \A k \in 1..Len(d.frames) : d.frames[k] = c.frames[k]
    BY <1>0, <2>2, <2>3, SubSeqProperties
  <2>6. ASSUME NEW k \in 1..Len(d.frames) PROVE d.frames[k]
    <3>1. k \in 1..Len(c.frames) /\ d.frames[k] = c.frames[k]
      BY <1>0, <2>5
    <3> QED BY <3>1, Zenon DEF Good
  <2>7. d.iflag \in BOOLEAN /\ d.halted \in BOOLEAN
    <3>1. Len(c.frames) \in 1..Len(c.frames)
      BY <1>0, <2>2
    <3> QED BY <1>0, <2>3, <3>1 DEF Machine
  <2>8. d \in Machine
    BY <2>3, <2>5, <2>7 DEF Machine
  <2> HIDE DEF d
  <2>9. Good(d, w)
    BY <2>1, <2>2, <2>4, <2>5, <2>6, <2>7 DEF Good
  <2> QED BY <2>3, <2>8, <2>9 DEF d
<1>4. CASE i \notin {"ise", "icl", "halt", "reti"}
  <2>1. d = c
    BY <1>4, ExecutedCases
  <2> HIDE DEF d
  <2>2. ASSUME c.frames = <<>> PROVE Good(d, d.iflag)
    BY <2>1, <2>2 DEF Good, Machine
  <2>3. ASSUME c.frames # <<>> PROVE Good(d, want)
    BY <2>1, <2>3 DEF Good, Machine
  <2> QED BY <2>1, <2>2, <2>3 DEF d
<1> QED BY <1>1, <1>2, <1>3, <1>4

(* The variables, seen as a state of the CPU. *)
LEMMA StateGood ==
  ASSUME TypeOK, FlagRestored
  PROVE  /\ State \in Machine /\ Good(State, wanted)
         /\ State.iflag = iflag /\ State.halted = halted /\ State.frames = frames
<1>1. State.iflag = iflag /\ State.halted = halted /\ State.frames = frames
  BY DEF State
<1>2. State \in Machine
  BY DEF State, Machine, TypeOK
<1>3. Good(State, wanted)
  <2> HIDE DEF State
  <2>1. iflag \in BOOLEAN /\ halted \in BOOLEAN /\ frames \in Seq(BOOLEAN)
    BY DEF TypeOK
  <2>2. /\ frames = <<>> => (iflag <=> wanted)
        /\ \A i \in 1..Len(frames) : frames[i]
        /\ frames # <<>> => wanted
    BY Zenon DEF FlagRestored
  <2> QED BY <1>1, <2>1, <2>2, Zenon DEF Good
<1> QED BY <1>1, <1>2, <1>3

LEMMA GoodRestores ==
  ASSUME NEW c \in Machine, NEW w \in BOOLEAN, Good(c, w), Becomes(c), wanted' = w
  PROVE  /\ FlagRestored'
         /\ iflag' \in BOOLEAN /\ halted' \in BOOLEAN /\ frames' \in Seq(BOOLEAN)
<1>1. iflag' = c.iflag /\ halted' = c.halted /\ frames' = c.frames
  BY Zenon DEF Becomes
<1>2. iflag' \in BOOLEAN /\ halted' \in BOOLEAN /\ frames' \in Seq(BOOLEAN)
  BY <1>1, Zenon DEF Good
<1>3. /\ frames' = <<>> => (iflag' <=> w)
      /\ \A i \in 1..Len(frames') : frames'[i]
      /\ frames' # <<>> => w
  BY <1>1, Zenon DEF Good
<1>4. frames' = <<>> => (iflag' <=> wanted')
  BY <1>3, Zenon
<1>5. \A i \in 1..Len(frames)' : frames'[i]
  BY <1>3, Zenon
<1> QED BY <1>2, <1>3, <1>4, <1>5, Zenon DEF FlagRestored

LEMMA RaisedHalts ==
  ASSUME NEW c \in Machine, Runtime = "rust"
  PROVE  Raised(c).halted = c.halted
BY DEF Raised, Machine

LEMMA InvInit == Init => Inv
<1> SUFFICES ASSUME Init PROVE Inv
  OBVIOUS
<1>1. frames = <<>> /\ iflag = FALSE /\ wanted = FALSE /\ halted = FALSE /\ thread = "running"
  BY Zenon DEF Init
<1>2. FlagRestored
  <2>1. 1..Len(frames) = {}
    BY <1>1
  <2>2. iflag <=> wanted
    BY <1>1, Zenon
  <2> QED BY <1>1, <2>1, <2>2, Zenon DEF FlagRestored
<1>3. TypeOK
  <2>1. iflag \in BOOLEAN /\ halted \in BOOLEAN /\ playing \in BOOLEAN
        /\ poisoned \in BOOLEAN /\ wanted \in BOOLEAN
    BY Zenon DEF Init
  <2>2. frames \in Seq(BOOLEAN) /\ chan \in Seq({"vsync", "swap"})
    BY EmptySeq DEF Init
  <2>3. window = "send" /\ audio = "look" /\ last = "nop"
    BY Zenon DEF Init
  <2> QED BY <1>1, <2>1, <2>2, <2>3, Zenon DEF TypeOK, Ops
<1> QED BY <1>1, <1>2, <1>3, Zenon DEF Inv

(* One turn of the loop: the request first, then the instruction. *)
LEMMA TurnInv == ASSUME Inv, Turn PROVE Inv'
<1>0. TypeOK /\ FlagRestored /\ thread = "running" /\ ~halted
  BY Zenon DEF Inv, Turn
<1> DEFINE c == IF chan = <<>> THEN State ELSE Raised(State)
<1>1. c \in Machine /\ Good(c, wanted) /\ wanted \in BOOLEAN
  <2>1. wanted \in BOOLEAN
    BY <1>0 DEF TypeOK
  <2> QED BY <1>0, <2>1, StateGood, RaisedGood
<1>2. Runtime = "rust" => ~c.halted
  BY <1>0, StateGood, RaisedHalts
<1>3. PICK i \in Ops :
        /\ Fetched(c, i)
        /\ Becomes(Executed(i, c))
        /\ last' = i
        /\ wanted' = IF c.frames # <<>> THEN wanted ELSE Executed(i, c).iflag
        /\ playing' = CASE i = "play" -> TRUE [] i = "stop" -> FALSE [] OTHER -> playing
        /\ thread' = IF Failing(i) THEN "panicked" ELSE thread
        /\ poisoned' = (i = "locked fault")
  BY Zenon DEF Turn
<1> DEFINE d == Executed(i, c)
           w == IF c.frames # <<>> THEN wanted ELSE d.iflag
<1> HIDE DEF c
<1>4. d \in Machine /\ Good(d, w) /\ (d.halted => c.halted \/ i = "halt")
  <2>1. i \in Ops /\ c \in Machine /\ wanted \in BOOLEAN /\ Good(c, wanted) /\ Fetched(c, i)
    BY <1>1, <1>3, Zenon
  <2> HIDE DEF Good
  <2> QED BY <2>1, ExecutedGood
<1> HIDE DEF d
<1>5. w \in BOOLEAN
  BY <1>1, <1>4 DEF Machine
<1>6. wanted' = w /\ Becomes(d)
  BY <1>3 DEF d
<1> HIDE DEF w
<1>7. FlagRestored' /\ iflag' \in BOOLEAN /\ halted' \in BOOLEAN /\ frames' \in Seq(BOOLEAN)
  BY <1>4, <1>5, <1>6, GoodRestores
<1>8. playing' \in BOOLEAN /\ poisoned' \in BOOLEAN
  <2>1. playing \in BOOLEAN
    BY <1>0 DEF TypeOK
  <2> QED BY <1>3, <2>1, Zenon
<1>9. thread' \in {"running", "panicked"}
  BY <1>0, <1>3, Zenon
<1>10. chan' \in Seq({"vsync", "swap"})
  <2>1. chan \in Seq({"vsync", "swap"})
    BY <1>0 DEF TypeOK
  <2>2. chan' = IF chan = <<>> THEN chan ELSE Tail(chan)
    BY Zenon DEF Turn
  <2> QED BY <2>1, <2>2, HeadTailProperties
<1>11. TypeOK'
  <2>1. UNCHANGED <<window, audio>>
    BY Zenon DEF Turn
  <2>2. window' \in {"send", "draw", "closed", "panicked"}
        /\ audio' \in {"look", "send", "panicked"}
    BY <1>0, <2>1 DEF TypeOK
  <2>3. thread' \in {"running", "ended", "panicked"} /\ last' \in Ops /\ wanted' \in BOOLEAN
    BY <1>3, <1>5, <1>6, <1>9
  <2>4. window' # "closed"
    BY <1>0, <2>1 DEF TypeOK
  <2> QED BY <1>7, <1>8, <1>10, <2>2, <2>3, <2>4, Zenon DEF TypeOK
<1>12. Runtime = "rust" /\ halted' => last' = "halt"
  BY <1>2, <1>3, <1>4, <1>6, Zenon DEF Becomes
<1> QED BY <1>7, <1>9, <1>11, <1>12 DEF Inv

LEMMA WakeInv == ASSUME Inv, Wake PROVE Inv'
<1>0. TypeOK /\ FlagRestored /\ thread = "running" /\ chan # <<>>
      /\ UNCHANGED <<thread, window, playing, audio, poisoned, last, wanted>>
  BY Zenon DEF Inv, Wake
<1> DEFINE c == [State EXCEPT !.halted = FALSE]
<1>1. c \in Machine /\ Good(c, wanted) /\ wanted \in BOOLEAN /\ c.halted = FALSE
  <2>1. State \in Machine /\ Good(State, wanted) /\ wanted \in BOOLEAN
    BY <1>0, StateGood DEF TypeOK
  <2>2. c \in Machine /\ c.halted = FALSE /\ c.iflag = State.iflag /\ c.frames = State.frames
    BY <2>1 DEF Machine
  <2> HIDE DEF c
  <2>3. Good(c, wanted)
    BY <2>1, <2>2, Zenon DEF Good
  <2> QED BY <2>1, <2>2, <2>3
<1>2. Becomes(Raised(c)) /\ chan' = Tail(chan)
  BY DEF Wake
<1> HIDE DEF c
<1>3. Raised(c) \in Machine /\ Good(Raised(c), wanted)
  BY <1>1, RaisedGood
<1>4. FlagRestored' /\ iflag' \in BOOLEAN /\ halted' \in BOOLEAN /\ frames' \in Seq(BOOLEAN)
  <2>1. wanted' = wanted
    BY <1>0
  <2> QED BY <1>1, <1>2, <1>3, <2>1, GoodRestores
<1>5. Runtime = "rust" => ~halted'
  BY <1>1, <1>2, RaisedHalts, Zenon DEF Becomes
<1>6. chan' \in Seq({"vsync", "swap"})
  BY <1>0, <1>2, HeadTailProperties DEF TypeOK
<1>7. TypeOK'
  BY <1>0, <1>4, <1>6, Zenon DEF TypeOK
<1>8. thread' # "ended"
  BY <1>0
<1> QED BY <1>4, <1>5, <1>7, <1>8, Zenon DEF Inv

(* The other steps leave the CPU alone. *)
LEMMA QuietInv ==
  ASSUME Inv, cpu' = cpu, last' = last, wanted' = wanted, playing' = playing,
         poisoned' = poisoned,
         thread' = thread \/ (thread' = "ended" /\ halted /\ ~iflag),
         chan' \in Seq({"vsync", "swap"}),
         window' \in {"send", "draw", "closed", "panicked"},
         window' = "closed" => thread' # "running",
         audio' \in {"look", "send", "panicked"}
  PROVE  Inv'
<1>1. /\ iflag' = iflag /\ halted' = halted /\ frames' = frames /\ last' = last
      /\ wanted' = wanted /\ playing' = playing /\ poisoned' = poisoned
  BY DEF cpu
<1>2. TypeOK /\ FlagRestored /\ (thread = "ended" => halted /\ ~iflag)
      /\ (Runtime = "rust" /\ halted => last = "halt")
  BY Zenon DEF Inv
<1>3. thread' \in {"running", "ended", "panicked"}
  BY <1>2 DEF TypeOK
<1>4. TypeOK'
  BY <1>1, <1>2, <1>3, Zenon DEF TypeOK
<1>5. FlagRestored'
  <2>1. State \in Machine /\ Good(State, wanted) /\ wanted \in BOOLEAN
    BY <1>2, StateGood DEF TypeOK
  <2>2. Becomes(State)
    BY <1>1, <1>2, StateGood DEF Becomes
  <2> QED BY <1>1, <2>1, <2>2, GoodRestores
<1>6. thread' = "ended" => halted' /\ ~iflag'
  BY <1>1, <1>2, Zenon
<1>7. Runtime = "rust" /\ halted' => last' = "halt"
  BY <1>1, <1>2, Zenon
<1> QED BY <1>4, <1>5, <1>6, <1>7, Zenon DEF Inv

LEMMA StepInv == Inv /\ [Next]_vars => Inv'
<1> SUFFICES ASSUME Inv, [Next]_vars PROVE Inv'
  OBVIOUS
<1>0. /\ chan \in Seq({"vsync", "swap"})
      /\ window \in {"send", "draw", "closed", "panicked"}
      /\ audio \in {"look", "send", "panicked"}
      /\ (window = "closed" => thread # "running")
  BY DEF Inv, TypeOK
<1>1. CASE Turn
  BY <1>1, TurnInv
<1>2. CASE End
  <2>1. cpu' = cpu /\ last' = last /\ wanted' = wanted /\ playing' = playing
        /\ poisoned' = poisoned
        /\ chan' = chan /\ window' = window /\ audio' = audio
        /\ thread' = "ended" /\ halted /\ ~iflag
    BY <1>2 DEF End
  <2>2. chan' \in Seq({"vsync", "swap"})
        /\ window' \in {"send", "draw", "closed", "panicked"}
        /\ audio' \in {"look", "send", "panicked"}
    BY <1>0, <2>1
  <2>3. window' = "closed" => thread' # "running"
    BY <2>1
  <2> QED BY <2>1, <2>2, <2>3, QuietInv, Zenon
<1>3. CASE Wake
  BY <1>3, WakeInv
<1>4. CASE SendVSync
  <2>1. cpu' = cpu /\ last' = last /\ wanted' = wanted /\ playing' = playing
        /\ poisoned' = poisoned
        /\ thread' = thread /\ audio' = audio
        /\ window' \in {"draw", "closed"}
        /\ (chan' = Append(chan, "vsync") \/ chan' = chan)
        /\ (window' = "closed" => thread # "running")
    BY <1>4 DEF SendVSync, Receiving
  <2>2. chan' \in Seq({"vsync", "swap"})
    BY <1>0, <2>1, AppendProperties
  <2>3. window' \in {"send", "draw", "closed", "panicked"}
        /\ audio' \in {"look", "send", "panicked"}
        /\ (window' = "closed" => thread' # "running")
    BY <1>0, <2>1
  <2> QED BY <2>1, <2>2, <2>3, QuietInv, Zenon
<1>5. CASE Draw
  <2>1. cpu' = cpu /\ last' = last /\ wanted' = wanted /\ playing' = playing
        /\ poisoned' = poisoned
        /\ thread' = thread /\ audio' = audio /\ chan' = chan
        /\ window' \in {"send", "panicked"}
    BY <1>5 DEF Draw
  <2>2. chan' \in Seq({"vsync", "swap"})
        /\ window' \in {"send", "draw", "closed", "panicked"}
        /\ audio' \in {"look", "send", "panicked"}
        /\ (window' = "closed" => thread' # "running")
    BY <1>0, <2>1
  <2> QED BY <2>1, <2>2, QuietInv, Zenon
<1>6. CASE AudioLook
  <2>1. cpu' = cpu /\ last' = last /\ wanted' = wanted /\ playing' = playing
        /\ poisoned' = poisoned
        /\ thread' = thread /\ window' = window /\ chan' = chan
        /\ audio' \in {"look", "send", "panicked"}
    BY <1>6 DEF AudioLook
  <2>2. chan' \in Seq({"vsync", "swap"})
        /\ window' \in {"send", "draw", "closed", "panicked"}
        /\ audio' \in {"look", "send", "panicked"}
        /\ (window' = "closed" => thread' # "running")
    BY <1>0, <2>1
  <2> QED BY <2>1, <2>2, QuietInv, Zenon
<1>7. CASE AudioSend
  <2>1. cpu' = cpu /\ last' = last /\ wanted' = wanted /\ playing' = playing
        /\ poisoned' = poisoned
        /\ thread' = thread /\ window' = window
        /\ audio' \in {"look", "panicked"}
        /\ (chan' = Append(chan, "swap") \/ chan' = chan)
    BY <1>7 DEF AudioSend
  <2>2. chan' \in Seq({"vsync", "swap"})
    BY <1>0, <2>1, AppendProperties
  <2>3. window' \in {"send", "draw", "closed", "panicked"}
        /\ audio' \in {"look", "send", "panicked"}
        /\ (window' = "closed" => thread' # "running")
    BY <1>0, <2>1
  <2> QED BY <2>1, <2>2, <2>3, QuietInv, Zenon
<1>8. CASE UNCHANGED vars
  <2>1. cpu' = cpu /\ last' = last /\ wanted' = wanted /\ playing' = playing
        /\ poisoned' = poisoned
        /\ thread' = thread /\ window' = window /\ audio' = audio /\ chan' = chan
    BY <1>8 DEF vars, cpu
  <2>2. chan' \in Seq({"vsync", "swap"})
        /\ window' \in {"send", "draw", "closed", "panicked"}
        /\ audio' \in {"look", "send", "panicked"}
        /\ (window' = "closed" => thread' # "running")
    BY <1>0, <2>1
  <2> QED BY <2>1, <2>2, QuietInv, Zenon
<1> QED BY <1>1, <1>2, <1>3, <1>4, <1>5, <1>6, <1>7, <1>8 DEF Next, CpuLoop, Window

(* The program never notices an interrupt in its interrupt flag, whatever  *)
(* the handlers do and however they nest, in both runtimes.                *)
THEOREM FlagTheorem == Spec => [](TypeOK /\ FlagRestored)
<1>1. Inv => TypeOK /\ FlagRestored
  BY Zenon DEF Inv
<1> QED BY <1>1, InvInit, StepInv, PTL DEF Spec

(* With fox32/src/cpu.rs the CPU thread ends only by a halt of its own.    *)
THEOREM RustEndsOnlyByHalt ==
  ASSUME Runtime = "rust"
  PROVE  Spec => []EndsOnlyByHalt
<1>1. Inv => EndsOnlyByHalt
  BY Zenon DEF Inv, EndsOnlyByHalt
<1> QED BY <1>1, InvInit, StepInv, PTL DEF Spec
=============================================================================
