------------------------------- MODULE TwoCpus -------------------------------
(***************************************************************************)
(* The two runtimes side by side.  main.rs takes either fox32/src/cpu.rs   *)
(* or fox32core, as the environment says, to run the same ROM: here both   *)
(* start from one machine, execute the same instructions and receive the   *)
(* same interrupt requests.                                                *)
(*                                                                         *)
(* "ins" is the instruction that both find at their instruction pointer.   *)
(* The first one is any of Program; those after it are any of Sequel.      *)
(***************************************************************************)
EXTENDS Machine

CONSTANTS
  Start,     \* the machines to begin with
  Program,   \* the instructions executed first
  Sequel,    \* the instructions executed later
  Vectors,   \* the interrupt vectors requested
  Answers,   \* what an input port may answer
  MaxSteps   \* BOUND: instructions and interrupts of a behaviour

VARIABLES
  rust,    \* the machine of struct Cpu
  core,    \* the machine of fox32_vm_t
  ins,     \* the instruction to be executed next
  raised,  \* an interrupt has been raised in this turn of the CPU thread's loop
  last,    \* both machines before and after the interrupt raised last
  same,    \* everything so far means the same to both
  steps

vars == <<rust, core, ins, raised, last, same, steps>>

R == INSTANCE RustCpu WITH cpu <- rust
C == INSTANCE CoreCpu WITH cpu <- core

(* An immediate operand is a number of the instruction's size. *)
Instructions ==
  {i \in [op : ZeroOps, cond : Conds, size : Sizes, src : {None}, dst : {None}] \cup
         [op : OneOps, cond : Conds, size : Sizes, src : Operands("word"), dst : {None}] \cup
         [op : TwoOps, cond : Conds, size : Sizes, src : Operands("word"), dst : Operands("word")] :
     {i.src, i.dst} \subseteq Operands(i.size) \cup {None}}

ASSUME TwoCpusAssumption ==
  /\ Start \subseteq Machines
  /\ Program \cup Sequel \subseteq Instructions
  /\ Answers \subseteq Word
  /\ Vectors \subseteq Nat
  /\ MaxSteps \in Nat

Init ==
  /\ rust \in Start
  /\ core = rust
  /\ ins \in Program
  /\ raised = FALSE
  /\ last = <<>>
  /\ same = TRUE
  /\ steps = 0
-----------------------------------------------------------------------------
(* What the two do not agree on.  Each disjunct names the reason.          *)

(* The machine both have had so far. *)
now == rust
Reads(o, s) == IsPointer(o) => Mapped(Pointer(now, o), s)
InRom(o) == IsPointer(o) /\ Pointer(now, o) >= RomStart

(* Only one of them decodes it: cpu.rs has no signed operations and no     *)
(* immediate destinations, fox32.c has some opcodes for words only, and a  *)
(* breakpoint is an error of fox32.c alone.                                *)
DecodedByOne(i) ==
  \/ i.op \in SignedOps
  \/ i.dst.kind = "imm"
  \/ i.op \in C!WordOps /\ i.size # "word"
  \/ i.op = "brk" /\ R!Holds(i.cond)

(* Only one of them has an effect although the condition does not hold:    *)
(* fox32.c on comparisons, cpu.rs on loops and input, and cpu.rs panics.   *)
SkippedByOne(i) ==
  /\ ~R!Holds(i.cond)
  /\ \/ i.op \in {"cmp", "bts", "loop", "rloop", "in"}
     \/ i.op \in {"inc", "dec", "not", "pop"} /\ i.src.kind = "imm"
     \/ i.op = "not" /\ ~Reads(i.src, i.size)
     \/ i.op \in TwoOps \cup {"jmp", "rjmp", "call", "rcall", "push"} /\ ~R!SourceMapped(i)
     \/ i.op \in TwoOps \ {"mov", "rta", "out"} /\ ~Reads(i.dst, i.size)
     \/ i.op \in {"div", "rem"} /\ IsPointer(i.dst)
     \/ i.op = "movz" /\ IsPointer(i.dst)

(* An operand means another place or another value. *)
OtherOperand(i) ==
  /\ R!Holds(i.cond)
  /\ \/ i.op \notin {"inc", "dec", "not", "pop"} /\ Reads(i.src, i.size) /\ ~R!SourceMapped(i)
     \/ i.op \in {"movz", "rta"} /\ IsPointer(i.dst)
     \/ i.op = "pop" /\ i.src = [kind |-> "regptr", v |-> "rsp"]
     \/ i.op \in {"loop", "rloop"} /\ i.src.kind \in {"reg", "regptr"} /\ i.src.v = "r31"
     \/ i.op \in {"loop", "rloop"} /\ ~R!SourceMapped(i)

(* fox32.c does not let a program write to ROM. *)
WritesRom(i) ==
  \/ i.op \in TwoOps \ {"cmp", "bts", "out"} /\ InRom(i.dst)
  \/ i.op \in {"inc", "dec", "not", "pop"} /\ InRom(i.src)
  \/ i.op \in {"push", "call", "rcall"} /\ now.reg["rsp"] > RomStart

(* cpu.rs takes a shift's carry from the count and masks the count; its    *)
(* sra is not arithmetic, and its bse and bcl leave the zero flag alone.   *)
OtherResult(i) ==
  /\ i.op \in ShiftOps \cup {"bse", "bcl", "bts"}
  /\ R!Holds(i.cond)
  /\ R!SourceMapped(i)
  /\ Reads(i.dst, i.size)
  /\ \/ i.op \in {"sla", "rol"} /\ R!TopBit(i) # now.carry
     \/ i.op \in {"sra", "srl", "ror"} /\ R!BottomBit(i) # now.carry
     \/ R!S(i) >= Width(i.size)
     \/ i.op = "sra" /\ R!D(i) >= Mod(i.size) \div 2
     \/ i.op = "bse" /\ now.zero
     \/ i.op = "bcl" /\ now.zero # (BitAnd(i.size, R!D(i), BitNot(i.size, 2 ^ R!S(i))) = 0)

Differs(i) ==
  DecodedByOne(i) \/ SkippedByOne(i) \/ OtherOperand(i) \/ WritesRom(i) \/ OtherResult(i)
-----------------------------------------------------------------------------
(* One turn of the loop of the CPU thread: a request may be taken first,   *)
(* and the instruction after it is executed even if the request has halted *)
(* the machine.                                                            *)

Runs(x) == ~x.dead /\ (~x.halted \/ raised)

Step ==
  /\ steps < MaxSteps
  /\ Runs(rust) \/ Runs(core)
  /\ \E v \in IF ins.op = "in" THEN Answers ELSE {0} :
       /\ IF Runs(rust) THEN R!Execute(ins, v) ELSE UNCHANGED rust
       /\ IF Runs(core) THEN C!Execute(ins, v) ELSE UNCHANGED core
  /\ same' = (same /\ ~Differs(ins))
  /\ ins' \in Sequel
  /\ raised' = FALSE
  /\ steps' = steps + 1
  /\ UNCHANGED last

Request(vector) ==
  /\ steps < MaxSteps
  /\ ~raised
  /\ Runs(rust) /\ Runs(core)
  /\ rust.int \/ core.int
  /\ R!Interrupt(vector)
  /\ C!Raise(vector)
  /\ last' = [rust |-> <<rust, rust'>>, core |-> <<core, core'>>]
  /\ same' = FALSE
  /\ ins' \in Sequel
  /\ raised' = TRUE
  /\ steps' = steps + 1

Next == Step \/ \E vector \in Vectors : Request(vector)

Spec == Init /\ [][Next]_vars
-----------------------------------------------------------------------------
(* A program cannot tell the two runtimes apart: as long as it has met     *)
(* none of the reasons in Differs, both have the same registers, memory,   *)
(* flags, port accesses and instruction pointer, have both halted or not   *)
(* halted, and have panicked together.                                     *)
Agree == same => rust = core

(* What fox32asm emits for the instruction: node_to_immediate_values after *)
(* the opcode half.                                                        *)
Emitted(o, s) ==
  CASE o.kind \in {"reg", "regptr"} -> 1
    [] o.kind = "imm" -> Bytes(s)
    [] o.kind = "immptr" -> 4
    [] OTHER -> 0
AssembledLength(i) == 2 + Emitted(i.src, i.size) + Emitted(i.dst, i.size)

Jumps == {"jmp", "call", "loop", "rjmp", "rcall", "rloop", "ret", "reti"}

(* x becomes y by the instruction ins. *)
Executes(x, y) == Runs(x) /\ ~raised' /\ steps' # steps /\ ~y.dead

(* Each machine before and after a step, and whether ins is skipped. *)
Turns == {[x |-> rust, y |-> rust', skipped |-> ~R!Holds(ins.cond)],
          [x |-> core, y |-> core', skipped |-> C!Skips(ins.cond)]}

(* Whether it is executed or skipped, and whatever its size and operands,  *)
(* an instruction is followed by the one the assembler has put after it,   *)
(* if it is no jump: neither CPU ever starts to decode inside an operand.  *)
FollowsOn ==
  [][\A t \in Turns :
       Executes(t.x, t.y) /\ (ins.op \notin Jumps \/ t.skipped)
         => t.y.ip = Wrap(t.x.ip + AssembledLength(ins))]_vars

(* The operand an instruction writes, if it writes one, and how wide: the  *)
(* opcodes without sizes write words.                                      *)
Written(i) == IF i.op \in TwoOps THEN i.dst ELSE i.src
Effect(i) == IF i.op \in C!WordOps THEN "word" ELSE i.size

(* Where the cells an instruction may write begin: at its operand, or      *)
(* below the old stack pointer.  The pointer is relative to the            *)
(* instruction for cpu.rs' rta, and moves with the stack for fox32.c's     *)
(* pop.                                                                    *)
Places(x, i) ==
  {Pushed(x, Effect(i))} \cup
  IF IsPointer(Written(i))
  THEN LET o == Written(i) IN
       {Pointer(x, o), Pointer(Popped(x, i.size), o), Wrap(x.ip + Pointer(x, o))}
  ELSE {}
Cells(x, i) == UNION {a .. a + Bytes(Effect(i)) - 1 : a \in Places(x, i)}

(* An instruction of a narrow size has a narrow effect: it changes no      *)
(* cells but the few of its operand, no register but its own, the stack    *)
(* pointer and the loop counter, and of its own register only the low      *)
(* part, except that movz clears the rest.                                 *)
NarrowWrites ==
  [][\A t \in Turns :
       Executes(t.x, t.y) =>
         /\ \A c \in DOMAIN t.x.mem :
              t.y.mem[c] # t.x.mem[c] => c \in Cells(t.x, ins)
         /\ \A r \in Regs :
              t.y.reg[r] # t.x.reg[r] =>
                \/ r = "rsp" /\ ins.op \in {"push", "pop", "call", "rcall", "ret", "reti"}
                \/ r = "r31" /\ ins.op \in {"loop", "rloop"}
                \/ /\ Written(ins).kind = "reg" /\ Written(ins).v = r
                   /\ \/ ins.op = "movz"
                      \/ t.y.reg[r] \div Mod(Effect(ins)) = t.x.reg[r] \div Mod(Effect(ins))]_vars

(* The frame a machine y has pushed on receiving an interrupt as x is on   *)
(* top of the stack of z.                                                  *)
FrameOnTop(z, y) ==
  /\ z.reg["rsp"] = y.reg["rsp"]
  /\ \A k \in 0 .. 4 : z.mem[Wrap(z.reg["rsp"] + k)] = y.mem[Wrap(z.reg["rsp"] + k)]

(* A handler that finds its frame again returns to what was interrupted:   *)
(* the instruction that would have been next, the three flags and the      *)
(* stack pointer are the ones of the moment of the interrupt, whatever the *)
(* handler has computed in between, and interrupts are on again.           *)
Returns(z, z1, l) ==
  (l[1].int /\ Executes(z, z1) /\ FrameOnTop(z, l[2])) =>
    /\ z1.ip = l[1].ip
    /\ z1.reg["rsp"] = l[1].reg["rsp"]
    /\ <<z1.zero, z1.carry, z1.int>> = <<l[1].zero, l[1].carry, TRUE>>

ReturnsToInterrupted ==
  [][ins.op = "reti" /\ ins.cond = "always" /\ last # <<>> =>
       Returns(rust, rust', last.rust) /\ Returns(core, core', last.core)]_vars
=============================================================================
