------------------------------- MODULE CoreCpu -------------------------------
(***************************************************************************)
(* The instruction set as fox32core/fox32.c executes it.  vm_execute       *)
(* selects the case of an opcode and a size; the macros VM_IMPL_* are the  *)
(* bodies of the cases.  vm_panic returns an error to the emulator, which  *)
(* ends the CPU thread with it.                                            *)
(*                                                                         *)
(* A shift by a negative count or by the width of an int or more is        *)
(* undefined: the machine either masks the count or shifts everything out, *)
(* and a division by zero traps.                                           *)
(***************************************************************************)
EXTENDS Machine

VARIABLE cpu

Dies == cpu' = [cpu EXCEPT !.dead = TRUE]

(* Mutant: ifgt is skipped only if both flags are set. *)
SkipsGreater(c) ==
  \/ c = "ifz" /\ cpu.zero = FALSE
  \/ c = "ifnz" /\ cpu.zero = TRUE
  \/ c = "ifc" /\ cpu.carry = FALSE
  \/ c = "ifnc" /\ cpu.carry = TRUE
  \/ c = "ifgt" /\ cpu.zero = TRUE /\ cpu.carry = TRUE
  \/ c = "iflteq" /\ cpu.zero = FALSE /\ cpu.carry = FALSE

(* vm_shouldskip *)
Skips(c) ==
  \/ c = "ifz" /\ cpu.zero = FALSE
  \/ c = "ifnz" /\ cpu.zero = TRUE
  \/ c = "ifc" /\ cpu.carry = FALSE
  \/ c = "ifnc" /\ cpu.carry = TRUE
  \/ c = "ifgt" /\ (cpu.zero = TRUE \/ cpu.carry = TRUE)
  \/ c = "iflteq" /\ cpu.zero = FALSE /\ cpu.carry = FALSE

(* Mutant: a pointer is as long as the instruction's size. *)
ParamSized(o, s) == IF o.kind \in {"reg", "regptr"} THEN 1 ELSE IF o.kind = "none" THEN 0 ELSE Bytes(s)

(* vm_skipparam, and how far a macro for source and target moves. *)
ParamLength(o, s) ==
  IF o.kind \in {"reg", "regptr"} THEN 1
  ELSE IF o.kind = "immptr" THEN 4
  ELSE IF o.kind = "imm" THEN Bytes(s)
  ELSE 0
CaseLength(i) == 2 + ParamLength(i.src, i.size) + ParamLength(i.dst, i.size)
After(i) == Wrap(cpu.ip + CaseLength(i))
Moved(i) == [cpu EXCEPT !.ip = After(i)]

(* vm_findmemory: ROM is not written. *)
Writable(a, s) == a + Bytes(s) <= RamSize

Readable(o, s) == IsPointer(o) => Mapped(Pointer(cpu, o), s)
Assignable(o, s) == o.kind # "imm" /\ (IsPointer(o) => Writable(Pointer(cpu, o), s))

(* The preludes: a skipped instruction moves past its parameters, and any  *)
(* other one panics or becomes one of the machines ms.                     *)
OneOf(i, panics, ms) ==
  IF Skips(i.cond) THEN cpu' = Moved(i)
  ELSE IF panics THEN Dies
  ELSE cpu' \in ms
Outcome(i, panics, m) == OneOf(i, panics, {m})
-----------------------------------------------------------------------------
(* VM_IMPL_ADD and VM_IMPL_AND: target and source, the flags first. *)

A(i) == Value(cpu, i.src, i.size)
B(i) == Value(cpu, i.dst, i.size)
SA(i) == Signed(i.size, A(i))
SB(i) == Signed(i.size, B(i))

Faults(i) == \/ ~Readable(i.src, i.size)
             \/ ~Readable(i.dst, i.size)
             \/ ~Assignable(i.dst, i.size)

(* CHECKED_ADD, CHECKED_SUB, CHECKED_MUL; x is the exact result. *)
ImplAdd(i, x, range) ==
  LET v == Low(i.size, x) IN
  Outcome(i, Faults(i),
    [Put(Moved(i), i.dst, i.size, v) EXCEPT !.zero = v = 0, !.carry = x \notin range])

Unsigned(s) == 0 .. Mod(s) - 1
SignedRange(s) == -(Mod(s) \div 2) .. Mod(s) \div 2 - 1

Add(i) == i.op = "add" /\ ImplAdd(i, B(i) + A(i), Unsigned(i.size))
Sub(i) == i.op = "sub" /\ ImplAdd(i, B(i) - A(i), Unsigned(i.size))
Mul(i) == i.op = "mul" /\ ImplAdd(i, B(i) * A(i), Unsigned(i.size))
Imul(i) ==
  /\ i.op = "imul"
  /\ ImplAdd(i, SB(i) * SA(i), SignedRange(i.size))

(* x is one of the values the expression may have. *)
Result(i, v) == [Put(Moved(i), i.dst, i.size, v) EXCEPT !.zero = v = 0]
ImplAnd(i, xs) == OneOf(i, Faults(i), {Result(i, Low(i.size, x)) : x \in xs})

And(i) == i.op = "and" /\ ImplAnd(i, {BitAnd(i.size, B(i), A(i))})
Or(i) == i.op = "or" /\ ImplAnd(i, {BitOr(i.size, B(i), A(i))})
Xor(i) == i.op = "xor" /\ ImplAnd(i, {BitXor(i.size, B(i), A(i))})

(* OPER_DIV and OPER_REM, which truncate towards zero.  A division by zero *)
(* traps, and so does one whose quotient is no int.                        *)
Magnitude(x) == IF x < 0 THEN -x ELSE x
Quotient(b, a) ==
  LET q == Magnitude(b) \div Magnitude(a) IN IF (b < 0) = (a < 0) THEN q ELSE -q

ImplDiv(i, traps, x) == OneOf(i, Faults(i) \/ traps, {Result(i, Low(i.size, x))})

Div(i) == i.op = "div" /\ ImplDiv(i, A(i) = 0, B(i) \div A(i))
Rem(i) == i.op = "rem" /\ ImplDiv(i, A(i) = 0, B(i) % A(i))

Traps(i) == SA(i) = 0 \/ (SA(i) = -1 /\ SB(i) = -(Mod("word") \div 2))
Idiv(i) == i.op = "idiv" /\ ImplDiv(i, Traps(i), Quotient(SB(i), SA(i)))
Irem(i) == i.op = "irem" /\ ImplDiv(i, Traps(i), SB(i) - SA(i) * Quotient(SB(i), SA(i)))

(* Shifts, made in the width of an int: a count out of its range gives one *)
(* of two results.                                                         *)
IntWidth == Width("word")
Counts(n) == IF n \in 0 .. IntWidth - 1 THEN {n} ELSE {n % IntWidth, IntWidth}
ShiftLeft(x, n) == {IF c = IntWidth THEN 0 ELSE Low("word", x * 2 ^ c) : c \in Counts(n)}
ShiftRight(x, n) == {x \div 2 ^ c : c \in Counts(n)}
Rotated(s, high, low) == {BitOr(s, Low(s, x), Low(s, y)) : x \in high, y \in low}

Sla(i) == i.op = "sla" /\ ImplAnd(i, ShiftLeft(B(i), A(i)))
Srl(i) == i.op = "srl" /\ ImplAnd(i, ShiftRight(B(i), A(i)))
Sra(i) == i.op = "sra" /\ ImplAnd(i, ShiftRight(SB(i), SA(i)))
Rol(i) ==
  /\ i.op = "rol"
  /\ ImplAnd(i, Rotated(i.size, ShiftLeft(B(i), A(i)),
                                ShiftRight(B(i), Width(i.size) - A(i))))
Ror(i) ==
  /\ i.op = "ror"
  /\ ImplAnd(i, Rotated(i.size, ShiftLeft(B(i), Width(i.size) - A(i)),
                                ShiftRight(B(i), A(i))))

(* OPER_BIT_SET and OPER_BIT_CLEAR, which set the zero flag too. *)
Bse(i) ==
  /\ i.op = "bse"
  /\ ImplAnd(i, {BitOr(i.size, B(i), Low(i.size, x)) : x \in ShiftLeft(1, A(i))})
Bcl(i) ==
  /\ i.op = "bcl"
  /\ ImplAnd(i, {BitAnd(i.size, B(i), BitNot(i.size, Low(i.size, x))) : x \in ShiftLeft(1, A(i))})

(* VM_IMPL_CMP and VM_IMPL_BTS have no prelude: the condition is ignored. *)
Compared(i, ms) ==
  IF Readable(i.src, i.size) /\ Readable(i.dst, i.size) THEN cpu' \in ms ELSE Dies
Cmp(i) ==
  /\ i.op = "cmp"
  /\ LET x == B(i) - A(i) IN
     Compared(i, {[Moved(i) EXCEPT !.zero = x = 0, !.carry = x \notin Unsigned(i.size)]})
Bts(i) ==
  /\ i.op = "bts"
  /\ Compared(i, {[Moved(i) EXCEPT !.zero = BitAnd(i.size, B(i), Low(i.size, x)) = 0] :
                     x \in ShiftLeft(1, A(i))})
-----------------------------------------------------------------------------
(* VM_IMPL_MOV; vm_target8_zero and vm_target16_zero clear the rest of a   *)
(* register, but write no more than the size to memory.                    *)
MovFaults(i) == ~Readable(i.src, i.size) \/ ~Assignable(i.dst, i.size)
Mov(i) == i.op = "mov" /\ Outcome(i, MovFaults(i), Put(Moved(i), i.dst, i.size, A(i)))
Movz(i) ==
  /\ i.op = "movz"
  /\ Outcome(i, MovFaults(i),
       Put(Moved(i), i.dst, IF i.dst.kind = "reg" THEN "word" ELSE i.size, A(i)))

(* Cases that exist for words only. *)
Base(x) == Wrap(cpu.ip + x)
Rta(i) == i.op = "rta" /\ Outcome(i, MovFaults(i), Put(Moved(i), i.dst, "word", Base(A(i))))

In(i, v) ==
  /\ i.op = "in"
  /\ Outcome(i, MovFaults(i),
       Put([Moved(i) EXCEPT !.io = Append(@, <<"in", A(i), v>>)], i.dst, "word", v))
Out(i) ==
  /\ i.op = "out"
  /\ Outcome(i, ~Readable(i.src, "word") \/ ~Readable(i.dst, "word"),
       [Moved(i) EXCEPT !.io = Append(@, <<"out", B(i), A(i)>>)])

(* VM_IMPL_INC and VM_IMPL_NOT. *)
OneFaults(i) == ~Readable(i.src, i.size) \/ ~Assignable(i.src, i.size)
ImplInc(i, x) ==
  LET v == Low(i.size, x) IN
  Outcome(i, OneFaults(i),
    [Put(Moved(i), i.src, i.size, v) EXCEPT !.zero = v = 0, !.carry = x \notin Unsigned(i.size)])
Inc(i) == i.op = "inc" /\ ImplInc(i, A(i) + 1)
Dec(i) == i.op = "dec" /\ ImplInc(i, A(i) - 1)
Not(i) ==
  /\ i.op = "not"
  /\ LET v == BitNot(i.size, A(i)) IN
     Outcome(i, OneFaults(i), [Put(Moved(i), i.src, i.size, v) EXCEPT !.zero = v = 0])
-----------------------------------------------------------------------------
(* VM_IMPL_JMP, VM_IMPL_CALL and VM_IMPL_LOOP, with the source as it is or *)
(* relative to the instruction.                                            *)
ImplJmp(i, a) == Outcome(i, ~Readable(i.src, "word"), [cpu EXCEPT !.ip = a])
Jmp(i) == i.op = "jmp" /\ ImplJmp(i, A(i))
Rjmp(i) == i.op = "rjmp" /\ ImplJmp(i, Base(A(i)))

ImplCall(i, a) ==
  Outcome(i, ~Readable(i.src, "word") \/ ~Writable(Pushed(cpu, "word"), "word"),
          [Push(cpu, "word", After(i)) EXCEPT !.ip = a])
Call(i) == i.op = "call" /\ ImplCall(i, A(i))
Rcall(i) == i.op = "rcall" /\ ImplCall(i, Base(A(i)))

(* The source is read after the loop counter has been decremented, and not *)
(* at all when the loop ends.                                              *)
Counted == [cpu EXCEPT !.reg["r31"] = Wrap(@ - 1)]
LoopTarget(i) == Value(Counted, i.src, "word")
ImplLoop(i, relative) ==
  IF Skips(i.cond) THEN cpu' = Moved(i)
  ELSE IF Counted.reg["r31"] = 0 THEN cpu' = [Counted EXCEPT !.ip = After(i)]
  ELSE IF IsPointer(i.src) /\ ~Mapped(Pointer(Counted, i.src), "word") THEN Dies
  ELSE cpu' = [Counted EXCEPT !.ip = IF relative THEN Base(LoopTarget(i)) ELSE LoopTarget(i)]
Loop(i) == i.op = "loop" /\ ImplLoop(i, FALSE)
Rloop(i) == i.op = "rloop" /\ ImplLoop(i, TRUE)

(* VM_IMPL_PUSH and VM_IMPL_POP, whose target is found after the pop. *)
PushCase(i) ==
  /\ i.op = "push"
  /\ Outcome(i, ~Readable(i.src, i.size) \/ ~Writable(Pushed(cpu, i.size), i.size),
             Push(Moved(i), i.size, A(i)))
PopCase(i) ==
  /\ i.op = "pop"
  /\ LET m == Popped(Moved(i), i.size) IN
     Outcome(i, \/ ~Mapped(cpu.reg["rsp"], i.size)
                \/ i.src.kind = "imm"
                \/ IsPointer(i.src) /\ ~Writable(Pointer(m, i.src), i.size),
             Put(m, i.src, i.size, Top(cpu, i.size)))

Ret(i) ==
  /\ i.op = "ret"
  /\ Outcome(i, ~Mapped(cpu.reg["rsp"], "word"),
             [Popped(cpu, "word") EXCEPT !.ip = Top(cpu, "word")])
Reti(i) ==
  /\ i.op = "reti"
  /\ LET m == Popped(WithFlags(cpu, Top(cpu, "byte")), "byte") IN
     Outcome(i, ~Mapped(cpu.reg["rsp"], "byte") \/ ~Mapped(Popped(cpu, "byte").reg["rsp"], "word"),
             [Popped(m, "word") EXCEPT !.ip = Top(m, "word")])
-----------------------------------------------------------------------------
Nop(i) == i.op = "nop" /\ cpu' = Moved(i)
Brk(i) == i.op = "brk" /\ Outcome(i, TRUE, cpu)
Halt(i) == i.op = "halt" /\ Outcome(i, FALSE, [Moved(i) EXCEPT !.halted = TRUE])
Ise(i) == i.op = "ise" /\ Outcome(i, FALSE, [Moved(i) EXCEPT !.int = TRUE])
Icl(i) == i.op = "icl" /\ Outcome(i, FALSE, [Moved(i) EXCEPT !.int = FALSE])

(* The opcodes of the switch that have no case for bytes and halves. *)
WordOps == {"in", "out", "rta", "ret", "reti", "ise", "icl",
            "jmp", "call", "loop", "rjmp", "rcall", "rloop"}
BadOpcode(i) == i.op \in WordOps /\ i.size # "word"

Known(i, v) ==
  \/ Add(i) \/ Sub(i) \/ Mul(i) \/ Imul(i) \/ Div(i) \/ Rem(i) \/ Idiv(i) \/ Irem(i)
  \/ And(i) \/ Or(i) \/ Xor(i) \/ Sla(i) \/ Sra(i) \/ Srl(i) \/ Rol(i) \/ Ror(i)
  \/ Bse(i) \/ Bcl(i) \/ Bts(i) \/ Cmp(i) \/ Mov(i) \/ Movz(i) \/ Rta(i) \/ In(i, v) \/ Out(i)
  \/ Inc(i) \/ Dec(i) \/ Not(i) \/ Jmp(i) \/ Rjmp(i) \/ Call(i) \/ Rcall(i) \/ Loop(i) \/ Rloop(i)
  \/ PushCase(i) \/ PopCase(i) \/ Ret(i) \/ Reti(i)
  \/ Nop(i) \/ Brk(i) \/ Halt(i) \/ Ise(i) \/ Icl(i)

(* vm_execute *)
Execute(i, v) == (BadOpcode(i) /\ Dies) \/ (~BadOpcode(i) /\ Known(i, v))

(* vm_raise, which also halts the machine. *)
Raise(vector) ==
  IF ~cpu.int THEN UNCHANGED cpu
  ELSE LET pushed == Push(cpu, "word", cpu.ip)
       IN  IF /\ Mapped(4 * vector, "word")
              /\ Writable(Pushed(cpu, "word"), "word")
              /\ Writable(Pushed(pushed, "byte"), "byte")
           THEN cpu' = [Push(pushed, "byte", FlagsByte(cpu))
                          EXCEPT !.int = FALSE, !.halted = TRUE,
                                 !.ip = Load(cpu.mem, 4 * vector, "word")]
           ELSE Dies
=============================================================================
