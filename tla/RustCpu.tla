------------------------------- MODULE RustCpu -------------------------------
(***************************************************************************)
(* The instruction set as fox32/src/cpu.rs executes it, in a release       *)
(* build: arithmetic wraps around and shift counts are masked.  There is   *)
(* one action for each arm of Cpu::execute_instruction.  A panic, of the   *)
(* match on an operand or of an access to unmapped memory, ends the CPU    *)
(* thread.                                                                 *)
(***************************************************************************)
EXTENDS Machine

VARIABLE cpu

(* Cpu::check_condition. *)
Holds(c) ==
  \/ c = "always"
  \/ c = "ifz" /\ cpu.zero
  \/ c = "ifnz" /\ ~cpu.zero
  \/ c = "ifc" /\ cpu.carry
  \/ c = "ifnc" /\ ~cpu.carry
  \/ c = "ifgt" /\ ~cpu.carry /\ ~cpu.zero
  \/ c = "iflteq" /\ (cpu.carry \/ cpu.zero)

(* Operands: what follows the opcode half, in addresses. *)
OperandLength(o, s) ==
  IF o.kind \in {"reg", "regptr"} THEN 1
  ELSE IF o.kind = "imm" THEN Bytes(s)
  ELSE IF o.kind = "immptr" THEN 4
  ELSE 0
Length(i) == 2 + OperandLength(i.src, i.size) + OperandLength(i.dst, i.size)

(* Cpu::read_source.  A register pointer reads a whole word, whatever the  *)
(* size of the instruction, and a register is not cut to it.               *)
SourceSize(i) == IF i.src.kind \in {"reg", "regptr"} THEN "word" ELSE i.size
SourceMapped(i) == IsPointer(i.src) => Mapped(Pointer(cpu, i.src), SourceSize(i))
Source(i) == Value(cpu, i.src, SourceSize(i))

Advanced(i) == [cpu EXCEPT !.ip = Wrap(@ + Length(i))]
Absolute(x) == Wrap(cpu.ip + x)
Jumped(m, a) == [m EXCEPT !.ip = a]

(* The end of an arm: it panics, or goes on to the next instruction if its *)
(* condition does not hold, or else takes effect as the machine m.         *)
Outcome(i, panics, m) ==
  cpu' = IF panics THEN [cpu EXCEPT !.dead = TRUE]
         ELSE IF Holds(i.cond) THEN m
         ELSE Advanced(i)
-----------------------------------------------------------------------------
(* Arms with a destination and a source.  A destination in memory is read  *)
(* and the result computed before the condition is looked at.              *)

S(i) == Low(i.size, Source(i))
D(i) == Value(cpu, i.dst, i.size)
DestMapped(i) == IsPointer(i.dst) => Mapped(Pointer(cpu, i.dst), i.size)

WithResult(m, r) == [m EXCEPT !.zero = r.zero, !.carry = r.carry]
Writes(i, r) == WithResult(Put(Advanced(i), i.dst, i.size, r.v), r)
Tests(i, r) == WithResult(Advanced(i), r)

(* overflowing_add, overflowing_sub and overflowing_mul *)
Arithmetic(s, x) == [v |-> Low(s, x), zero |-> Low(s, x) = 0, carry |-> x \notin 0 .. Mod(s) - 1]
Logical(x) == [v |-> x, zero |-> x = 0, carry |-> cpu.carry]
Quiet(x) == [v |-> x, zero |-> cpu.zero, carry |-> cpu.carry]

Binary(i, m) == Outcome(i, ~SourceMapped(i) \/ ~DestMapped(i), m)

Add(i) == i.op = "add" /\ Binary(i, Writes(i, Arithmetic(i.size, D(i) + S(i))))
Sub(i) == i.op = "sub" /\ Binary(i, Writes(i, Arithmetic(i.size, D(i) - S(i))))
Mul(i) == i.op = "mul" /\ Binary(i, Writes(i, Arithmetic(i.size, D(i) * S(i))))
Cmp(i) == i.op = "cmp" /\ Binary(i, Tests(i, Arithmetic(i.size, D(i) - S(i))))

(* A division by zero panics; of a memory operand even when the condition  *)
(* does not hold.                                                          *)
DividesByZero(i) == S(i) = 0 /\ (IsPointer(i.dst) \/ Holds(i.cond))
Division(i, m) == Outcome(i, ~SourceMapped(i) \/ ~DestMapped(i) \/ DividesByZero(i), m)

Div(i) == i.op = "div" /\ Division(i, Writes(i, Logical(D(i) \div S(i))))
Rem(i) == i.op = "rem" /\ Division(i, Writes(i, Logical(D(i) % S(i))))

And(i) == i.op = "and" /\ Binary(i, Writes(i, Logical(BitAnd(i.size, D(i), S(i)))))
Or(i) == i.op = "or" /\ Binary(i, Writes(i, Logical(BitOr(i.size, D(i), S(i)))))
Xor(i) == i.op = "xor" /\ Binary(i, Writes(i, Logical(BitXor(i.size, D(i), S(i)))))

(* Shifts and rotations.  The carry is a bit of the shift count, which is  *)
(* masked to the width of the destination.                                 *)
Count(i) == Source(i) % Width(i.size)
TopBit(i) == Bit(Source(i), Width(i.size) - 1) = 1
BottomBit(i) == Bit(Source(i), 0) = 1
Shifted(x, c) == [v |-> x, zero |-> x = 0, carry |-> c]

Left(s, x, n) == Low(s, x * 2 ^ n)
Right(x, n) == x \div 2 ^ n
RotateLeft(s, x, n) == Left(s, x, n) + Right(x, Width(s) - n)

Sla(i) == i.op = "sla" /\ Binary(i, Writes(i, Shifted(Left(i.size, D(i), Count(i)), TopBit(i))))
Srl(i) == i.op = "srl" /\ Binary(i, Writes(i, Shifted(Right(D(i), Count(i)), BottomBit(i))))
Sra(i) == i.op = "sra" /\ Binary(i, Writes(i, Shifted(Right(D(i), Count(i)), BottomBit(i))))
Rol(i) ==
  /\ i.op = "rol"
  /\ Binary(i, Writes(i, Shifted(RotateLeft(i.size, D(i), Count(i)), TopBit(i))))
Ror(i) ==
  /\ i.op = "ror"
  /\ LET n == (Width(i.size) - Count(i)) % Width(i.size)
     IN  Binary(i, Writes(i, Shifted(RotateLeft(i.size, D(i), n), BottomBit(i))))

Bse(i) == i.op = "bse" /\ Binary(i, Writes(i, Quiet(BitOr(i.size, D(i), 2 ^ Count(i)))))
Bcl(i) ==
  /\ i.op = "bcl"
  /\ Binary(i, Writes(i, Quiet(BitAnd(i.size, D(i), BitNot(i.size, 2 ^ Count(i))))))
Bts(i) ==
  /\ i.op = "bts"
  /\ Binary(i, [Advanced(i) EXCEPT !.zero = Bit(D(i), Count(i)) = 0])
-----------------------------------------------------------------------------
(* Moves, which do not read their destination. *)

Mov(i) ==
  /\ i.op = "mov"
  /\ Outcome(i, ~SourceMapped(i) \/ (Holds(i.cond) /\ ~DestMapped(i)),
             Put(Advanced(i), i.dst, i.size, S(i)))

Movz(i) ==
  /\ i.op = "movz"
  /\ Outcome(i, ~SourceMapped(i) \/ i.dst.kind # "reg",
             Put(Advanced(i), i.dst, "word", S(i)))

(* A pointer is relative too. *)
Rta(i) ==
  /\ i.op = "rta"
  /\ LET pointer == Absolute(Pointer(cpu, i.dst))
         value == Absolute(Source(i))
     IN  Outcome(i,
           ~SourceMapped(i) \/ (Holds(i.cond) /\ IsPointer(i.dst) /\ ~Mapped(pointer, "word")),
           IF i.dst.kind = "reg" THEN Put(Advanced(i), i.dst, "word", value)
           ELSE [Advanced(i) EXCEPT !.mem = Store(@, pointer, "word", value)])

(* Bus::read_io is called even when the condition does not hold; v is what *)
(* the port answers.                                                       *)
In(i, v) ==
  /\ i.op = "in"
  /\ LET lost == IsPointer(i.dst) /\ ~Mapped(Pointer(cpu, i.dst), "word")
         read == [Advanced(i) EXCEPT !.io = Append(@, <<"in", Source(i), v>>)]
     IN  IF ~SourceMapped(i) \/ (Holds(i.cond) /\ lost) THEN cpu' = [cpu EXCEPT !.dead = TRUE]
         ELSE cpu' = IF Holds(i.cond) THEN Put(read, i.dst, "word", v) ELSE read

Out(i) ==
  /\ i.op = "out"
  /\ LET unmapped == IsPointer(i.dst) /\ ~Mapped(Pointer(cpu, i.dst), "word")
     IN  Outcome(i, ~SourceMapped(i) \/ (Holds(i.cond) /\ unmapped),
           [Advanced(i) EXCEPT !.io = Append(@, <<"out", Value(cpu, i.dst, "word"), Source(i)>>)])
-----------------------------------------------------------------------------
(* Arms with one operand that is read and written back: inc and dec look   *)
(* at the condition before they touch memory, not after it.                *)

Operand(i) == Value(cpu, i.src, i.size)
OperandMapped(i) == IsPointer(i.src) => Mapped(Pointer(cpu, i.src), i.size)
Replaces(i, r) == WithResult(Put(Advanced(i), i.src, i.size, r.v), r)

Counting(i, x) ==
  Outcome(i, i.src.kind = "imm" \/ (Holds(i.cond) /\ ~OperandMapped(i)),
          Replaces(i, Arithmetic(i.size, x)))
Inc(i) == i.op = "inc" /\ Counting(i, Operand(i) + 1)
Dec(i) == i.op = "dec" /\ Counting(i, Operand(i) - 1)

Not(i) ==
  /\ i.op = "not"
  /\ Outcome(i, i.src.kind = "imm" \/ ~OperandMapped(i),
             Replaces(i, Logical(BitNot(i.size, Operand(i)))))
-----------------------------------------------------------------------------
(* Jumps and the stack.  The source is read before the condition is looked *)
(* at, and the loop counter is decremented even when it does not hold.     *)

Jump(i, a) == Outcome(i, ~SourceMapped(i), Jumped(cpu, a))
Jmp(i) == i.op = "jmp" /\ Jump(i, Source(i))
Rjmp(i) == i.op = "rjmp" /\ Jump(i, Absolute(Source(i)))

PushUnmapped(i, s) == Holds(i.cond) /\ ~Mapped(Pushed(cpu, s), s)
Calls(i, a) ==
  Outcome(i, ~SourceMapped(i) \/ PushUnmapped(i, "word"),
          Jumped(Push(cpu, "word", Advanced(i).ip), a))
Call(i) == i.op = "call" /\ Calls(i, Source(i))
Rcall(i) == i.op = "rcall" /\ Calls(i, Absolute(Source(i)))

Loops(i, a) ==
  LET count == Wrap(cpu.reg["r31"] - 1)
      counted == [Advanced(i) EXCEPT !.reg["r31"] = count]
  IN  IF ~SourceMapped(i) THEN cpu' = [cpu EXCEPT !.dead = TRUE]
      ELSE cpu' = IF Holds(i.cond) /\ count # 0 THEN Jumped(counted, a) ELSE counted
Loop(i) == i.op = "loop" /\ Loops(i, Source(i))
Rloop(i) == i.op = "rloop" /\ Loops(i, Absolute(Source(i)))

PushArm(i) ==
  /\ i.op = "push"
  /\ Outcome(i, ~SourceMapped(i) \/ PushUnmapped(i, i.size), Push(Advanced(i), i.size, S(i)))

PopUnmapped(i, s) == Holds(i.cond) /\ ~Mapped(cpu.reg["rsp"], s)

(* The pointer of a memory operand is read before the stack pointer moves. *)
PopArm(i) ==
  /\ i.op = "pop"
  /\ Outcome(i, \/ i.src.kind = "imm"
                \/ PopUnmapped(i, i.size)
                \/ Holds(i.cond) /\ ~OperandMapped(i),
       LET m == Popped(Advanced(i), i.size) IN
       IF i.src.kind = "reg" THEN Put(m, i.src, i.size, Top(cpu, i.size))
       ELSE [m EXCEPT !.mem = Store(@, Pointer(cpu, i.src), i.size, Top(cpu, i.size))])

Ret(i) ==
  /\ i.op = "ret"
  /\ Outcome(i, PopUnmapped(i, "word"), Jumped(Popped(cpu, "word"), Top(cpu, "word")))

(* Mutant: the address is popped before the flags. *)
RetiSwapped(i) ==
  /\ i.op = "reti"
  /\ LET m == Popped(cpu, "word")
     IN  Outcome(i, Holds(i.cond) /\ ~(/\ Mapped(cpu.reg["rsp"], "word")
                                       /\ Mapped(m.reg["rsp"], "byte")),
                 Jumped(Popped(WithFlags(m, Top(m, "byte")), "byte"), Top(cpu, "word")))

Reti(i) ==
  /\ i.op = "reti"
  /\ LET m == Popped(WithFlags(cpu, Top(cpu, "byte")), "byte")
     IN  Outcome(i, Holds(i.cond) /\ ~(/\ Mapped(cpu.reg["rsp"], "byte")
                                       /\ Mapped(m.reg["rsp"], "word")),
                 Jumped(Popped(m, "word"), Top(m, "word")))
-----------------------------------------------------------------------------
Nop(i) == i.op = "nop" /\ cpu' = Advanced(i)
Brk(i) == i.op = "brk" /\ cpu' = Advanced(i)
Halt(i) == i.op = "halt" /\ Outcome(i, FALSE, [Advanced(i) EXCEPT !.halted = TRUE])
Ise(i) == i.op = "ise" /\ Outcome(i, FALSE, [Advanced(i) EXCEPT !.int = TRUE])
Icl(i) == i.op = "icl" /\ Outcome(i, FALSE, [Advanced(i) EXCEPT !.int = FALSE])

(* Instruction::from_half: an immediate destination and the opcodes that   *)
(* only fox32core has are bad opcodes.                                     *)
BadOpcode(i) == i.dst.kind = "imm" \/ i.op \in SignedOps
Bad(i) == BadOpcode(i) /\ cpu' = [cpu EXCEPT !.dead = TRUE]

Known(i, v) ==
  \/ Add(i) \/ Sub(i) \/ Mul(i) \/ Div(i) \/ Rem(i) \/ And(i) \/ Or(i) \/ Xor(i)
  \/ Sla(i) \/ Sra(i) \/ Srl(i) \/ Rol(i) \/ Ror(i) \/ Bse(i) \/ Bcl(i) \/ Bts(i) \/ Cmp(i)
  \/ Mov(i) \/ Movz(i) \/ Rta(i) \/ In(i, v) \/ Out(i) \/ Inc(i) \/ Dec(i) \/ Not(i)
  \/ Jmp(i) \/ Rjmp(i) \/ Call(i) \/ Rcall(i) \/ Loop(i) \/ Rloop(i)
  \/ PushArm(i) \/ PopArm(i) \/ Ret(i) \/ Reti(i)
  \/ Nop(i) \/ Brk(i) \/ Halt(i) \/ Ise(i) \/ Icl(i)

(* Cpu::execute_memory_instruction. *)
Execute(i, v) == Bad(i) \/ (~BadOpcode(i) /\ Known(i, v))

(* Cpu::interrupt and handle_interrupt. *)
Interrupt(vector) ==
  IF ~cpu.int THEN UNCHANGED cpu
  ELSE LET pushed == Push(cpu, "word", cpu.ip)
       IN  IF /\ Mapped(4 * vector, "word")
              /\ Mapped(Pushed(cpu, "word"), "word")
              /\ Mapped(Pushed(pushed, "byte"), "byte")
           THEN cpu' = [Push(pushed, "byte", FlagsByte(cpu))
                          EXCEPT !.int = FALSE, !.ip = Load(cpu.mem, 4 * vector, "word")]
           ELSE cpu' = [cpu EXCEPT !.dead = TRUE]
=============================================================================
