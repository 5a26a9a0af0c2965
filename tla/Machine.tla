------------------------------- MODULE Machine -------------------------------
(***************************************************************************)
(* What a fox32 program sees: registers, memory, flags and I/O, and the    *)
(* instructions it is made of.  Both implementations of the instruction    *)
(* set, RustCpu and CoreCpu, change a machine of this kind.                *)
(*                                                                         *)
(* Values are numbers.  A byte has ByteBits bits, a half is two bytes and  *)
(* a word, a register or an address is four, least significant byte first, *)
(* so that an instruction has the same length in addresses at any          *)
(* ByteBits.  The instructions themselves are not in the modelled memory:  *)
(* which one is executed next is the choice of the module that composes.   *)
(***************************************************************************)
EXTENDS Naturals, Integers, Sequences

CONSTANTS
  ByteBits,   \* bits of a byte: 8 in the code
  Regs,       \* the registers, the loop counter and the stack pointer included
  RamSize,    \* RAM starts at address 0
  RomStart,
  RomSize

Sizes == {"byte", "half", "word"}
Bytes(s) == IF s = "byte" THEN 1 ELSE IF s = "half" THEN 2 ELSE 4
Width(s) == ByteBits * Bytes(s)
Mod(s) == 2 ^ Width(s)
Byte == 0 .. Mod("byte") - 1
Word == 0 .. Mod("word") - 1

Ram == 0 .. RamSize - 1
Rom == RomStart .. RomStart + RomSize - 1

(* Shift counts are taken modulo the width by masking, which is the same   *)
(* only for a power of two; three flags must fit in a byte.  ROM does not  *)
(* reach the end of the address space.                                     *)
ASSUME MachineAssumption ==
  /\ ByteBits \in {4, 8}
  /\ {"r31", "rsp"} \subseteq Regs
  /\ RamSize \in Nat /\ RomStart \in Nat /\ RomSize \in Nat
  /\ RamSize <= RomStart
  /\ RomStart + RomSize < Mod("word")
-----------------------------------------------------------------------------
(* Words, their parts and their bits. *)

Wrap(x) == x % Mod("word")
Low(s, x) == x % Mod(s)
Splice(x, s, v) == x - Low(s, x) + v

Bit(x, k) == (x \div 2 ^ k) % 2
FromBits(w, b) ==
  LET sum[k \in 0 .. w] == IF k = 0 THEN 0 ELSE sum[k - 1] + b[k - 1] * 2 ^ (k - 1)
  IN  sum[w]

BitAnd(s, x, y) == FromBits(Width(s), [k \in 0 .. Width(s) - 1 |-> Bit(x, k) * Bit(y, k)])
BitXor(s, x, y) == FromBits(Width(s), [k \in 0 .. Width(s) - 1 |-> (Bit(x, k) + Bit(y, k)) % 2])
BitOr(s, x, y) == x + y - BitAnd(s, x, y)
BitNot(s, x) == Mod(s) - 1 - x

(* The two's complement value of a number of size s. *)
Signed(s, x) == IF x >= Mod(s) \div 2 THEN x - Mod(s) ELSE x

Flag(b) == IF b THEN 1 ELSE 0
-----------------------------------------------------------------------------
(* Memory.  The mapped check is made in wider arithmetic than addresses'.  *)

Mapped(a, s) ==
  \/ a + Bytes(s) <= RamSize
  \/ a >= RomStart /\ a + Bytes(s) <= RomStart + RomSize

Load(mem, a, s) ==
  LET b == Mod("byte") IN
  CASE s = "byte" -> mem[a]
    [] s = "half" -> mem[a] + b * mem[a + 1]
    [] s = "word" -> mem[a] + b * (mem[a + 1] + b * (mem[a + 2] + b * mem[a + 3]))

Store(mem, a, s, v) ==
  [c \in Ram \cup Rom |->
     IF c \in a .. a + Bytes(s) - 1 THEN (v \div Mod("byte") ^ (c - a)) % Mod("byte")
                                    ELSE mem[c]]
-----------------------------------------------------------------------------
(* A machine: ip is the address of the next instruction, reg also holds    *)
(* the stack pointer, io lists the port accesses made so far, and a dead   *)
(* machine's CPU thread has panicked.                                      *)

Machines ==
  [ip : Word, reg : [Regs -> Word], mem : [Ram \cup Rom -> Byte],
   zero : BOOLEAN, carry : BOOLEAN, int : BOOLEAN,
   halted : BOOLEAN, dead : BOOLEAN,
   io : Seq({"in", "out"} \X Word \X Word)]

Conds == {"always", "ifz", "ifnz", "ifc", "ifnc", "ifgt", "iflteq"}

ZeroOps == {"nop", "halt", "brk", "ret", "reti", "ise", "icl"}
OneOps == {"inc", "dec", "not", "jmp", "call", "loop", "rjmp", "rcall", "rloop", "push", "pop"}
ShiftOps == {"sla", "sra", "srl", "rol", "ror"}
SignedOps == {"imul", "idiv", "irem"}
TwoOps ==
  {"add", "sub", "mul", "div", "rem", "and", "or", "xor", "bse", "bcl", "bts", "cmp",
   "mov", "movz", "rta", "in", "out"} \cup ShiftOps \cup SignedOps

(* An operand is a register, the memory a register points to, an immediate *)
(* or the memory an immediate points to.                                   *)
Operands(s) ==
  [kind : {"reg", "regptr"}, v : Regs] \cup [kind : {"imm"}, v : 0 .. Mod(s) - 1]
    \cup [kind : {"immptr"}, v : Word]
None == [kind |-> "none"]

IsPointer(o) == o.kind \in {"regptr", "immptr"}
Pointer(m, o) == IF o.kind = "regptr" THEN m.reg[o.v] ELSE o.v

(* Mutant: a narrow value replaces the whole register. *)
PutWhole(m, o, s, v) ==
  IF o.kind = "reg" THEN [m EXCEPT !.reg[o.v] = v]
  ELSE [m EXCEPT !.mem = Store(@, Pointer(m, o), s, v)]

(* The operand as a number of size s, its pointer mapped, and the machine  *)
(* with v put in its place: a narrow value replaces the low part only.     *)
Value(m, o, s) ==
  IF o.kind = "reg" THEN Low(s, m.reg[o.v])
  ELSE IF o.kind = "imm" THEN o.v
  ELSE Load(m.mem, Pointer(m, o), s)

Put(m, o, s, v) ==
  IF o.kind = "reg" THEN [m EXCEPT !.reg[o.v] = Splice(@, s, v)]
  ELSE [m EXCEPT !.mem = Store(@, Pointer(m, o), s, v)]

(* The stack grows towards lower addresses, and its pointer wraps around. *)
Pushed(m, s) == Wrap(m.reg["rsp"] - Bytes(s))
Push(m, s, v) == [m EXCEPT !.reg["rsp"] = Pushed(m, s), !.mem = Store(@, Pushed(m, s), s, v)]
Popped(m, s) == [m EXCEPT !.reg["rsp"] = Wrap(@ + Bytes(s))]
Top(m, s) == Load(m.mem, m.reg["rsp"], s)

FlagsByte(m) == 4 * Flag(m.int) + 2 * Flag(m.carry) + Flag(m.zero)
WithFlags(m, b) == [m EXCEPT !.zero = Bit(b, 0) = 1, !.carry = Bit(b, 1) = 1, !.int = Bit(b, 2) = 1]
=============================================================================
