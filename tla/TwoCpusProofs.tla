---------------------------- MODULE TwoCpusProofs ----------------------------
(***************************************************************************)
(* Proofs about TwoCpus, for every program, every memory layout, every     *)
(* number of steps and either width of a byte.                             *)
(***************************************************************************)
EXTENDS TwoCpus, MachineFacts

(* The fields of a machine.  What is in them does not matter here, but     *)
(* changing one must leave the others alone.                               *)
Fields == {"ip", "reg", "mem", "zero", "carry", "int", "halted", "dead", "io"}

Shaped(m) == m = [f \in Fields |-> m[f]]

(* y is a machine that goes on with the instruction after i, which x has   *)
(* found at its instruction pointer.                                       *)
Advances(x, y, i) == Shaped(y) /\ y.ip = Wrap(x.ip + AssembledLength(i))

LEMMA StartShaped == \A m \in Machines : Shaped(m)
BY DEF Machines, Shaped, Fields

LEMMA Dying ==
  ASSUME NEW m, Shaped(m)
  PROVE  Shaped([m EXCEPT !.dead = TRUE]) /\ [m EXCEPT !.dead = TRUE].dead = TRUE
BY DEF Shaped, Fields
-----------------------------------------------------------------------------
(* Lengths: the assembler, cpu.rs and fox32.c agree.                       *)

LEMMA SameBytes == \A s : R!Bytes(s) = Bytes(s) /\ C!Bytes(s) = Bytes(s)
BY DEF Bytes, R!Bytes, C!Bytes

LEMMA SameWrap == \A x : R!Wrap(x) = Wrap(x) /\ C!Wrap(x) = Wrap(x)
BY SameBytes DEF Wrap, R!Wrap, C!Wrap, Mod, R!Mod, C!Mod, Width, R!Width, C!Width

LEMMA SameParts ==
  ASSUME NEW o, NEW s
  PROVE  R!OperandLength(o, s) = Emitted(o, s) /\ C!ParamLength(o, s) = Emitted(o, s)
<1>1. CASE o.kind \in {"reg", "regptr"}
  <2>1. Emitted(o, s) = 1
    BY <1>1, Zenon DEF Emitted
  <2> QED BY <1>1, <2>1 DEF R!OperandLength, C!ParamLength
<1>2. CASE o.kind = "imm"
  <2>1. Emitted(o, s) = Bytes(s)
    BY <1>2, Zenon DEF Emitted
  <2> QED BY <1>2, <2>1, SameBytes DEF R!OperandLength, C!ParamLength
<1>3. CASE o.kind = "immptr"
  <2>1. Emitted(o, s) = 4
    BY <1>3, Zenon DEF Emitted
  <2> QED BY <1>3, <2>1 DEF R!OperandLength, C!ParamLength
<1>4. CASE o.kind \notin {"reg", "regptr", "imm", "immptr"}
  <2>1. Emitted(o, s) = 0
    BY <1>4, Zenon DEF Emitted
  <2> QED BY <1>4, <2>1 DEF R!OperandLength, C!ParamLength
<1> QED BY <1>1, <1>2, <1>3, <1>4

LEMMA SameLength ==
  ASSUME NEW i
  PROVE  R!Length(i) = AssembledLength(i) /\ C!CaseLength(i) = AssembledLength(i)
BY SameParts DEF R!Length, C!CaseLength, AssembledLength
-----------------------------------------------------------------------------
(* cpu.rs.  First what the arms are made of.                               *)

LEMMA RustAdvanced ==
  ASSUME Shaped(rust), NEW i
  PROVE  Advances(rust, R!Advanced(i), i)
BY SameLength, SameWrap DEF R!Advanced, Advances, Shaped, Fields

LEMMA RustPut ==
  ASSUME NEW m, NEW o, NEW s, NEW v, Shaped(m)
  PROVE  Shaped(R!Put(m, o, s, v)) /\ R!Put(m, o, s, v).ip = m.ip
BY DEF Shaped, R!Put, Fields

LEMMA RustWrites ==
  ASSUME Shaped(rust), NEW i, NEW r
  PROVE  /\ Advances(rust, R!Writes(i, r), i)
         /\ Advances(rust, R!Tests(i, r), i)
         /\ Advances(rust, R!Replaces(i, r), i)
<1>1. ASSUME NEW m, Advances(rust, m, i) PROVE Advances(rust, R!WithResult(m, r), i)
  BY <1>1 DEF R!WithResult, Advances, Shaped, Fields
<1>2. ASSUME NEW o PROVE Advances(rust, R!Put(R!Advanced(i), o, i.size, r.v), i)
  BY RustAdvanced, RustPut DEF Advances
<1> QED BY <1>1, <1>2, RustAdvanced DEF R!Writes, R!Tests, R!Replaces

LEMMA RustStack ==
  ASSUME NEW m, NEW s, NEW v, Shaped(m)
  PROVE  /\ Shaped(R!Push(m, s, v)) /\ R!Push(m, s, v).ip = m.ip
         /\ Shaped(R!Popped(m, s)) /\ R!Popped(m, s).ip = m.ip
         /\ Shaped(R!WithFlags(m, v))
BY DEF Shaped, R!Push, R!Popped, R!WithFlags, Fields

LEMMA RustJumped == ASSUME NEW m, NEW a, Shaped(m) PROVE Shaped(R!Jumped(m, a))
BY DEF Shaped, R!Jumped, Fields

(* An arm panics, goes on after the instruction, or jumps where it may.    *)
RustTurn(i) ==
  /\ Shaped(rust')
  /\ \/ rust'.dead = TRUE
     \/ Advances(rust, rust', i)
     \/ i.op \in Jumps /\ R!Holds(i.cond)

LEMMA RustWriting ==
  ASSUME Shaped(rust), NEW i,
         \/ R!Add(i) \/ R!Sub(i) \/ R!Mul(i) \/ R!Cmp(i) \/ R!Div(i) \/ R!Rem(i)
         \/ R!And(i) \/ R!Or(i) \/ R!Xor(i)
         \/ R!Sla(i) \/ R!Srl(i) \/ R!Sra(i) \/ R!Rol(i) \/ R!Ror(i)
         \/ R!Bse(i) \/ R!Bcl(i) \/ R!Inc(i) \/ R!Dec(i) \/ R!Not(i)
  PROVE  RustTurn(i)
<1>1. \/ rust' = [rust EXCEPT !.dead = TRUE]
      \/ rust' = R!Advanced(i)
      \/ \E r : rust' \in {R!Writes(i, r), R!Tests(i, r), R!Replaces(i, r)}
  <2>1. CASE R!Add(i) \/ R!Sub(i) \/ R!Mul(i) \/ R!Cmp(i) \/ R!Div(i) \/ R!Rem(i)
    BY <2>1, Zenon DEF R!Add, R!Sub, R!Mul, R!Cmp, R!Div, R!Rem, R!Binary, R!Division, R!Outcome
  <2>2. CASE R!And(i) \/ R!Or(i) \/ R!Xor(i) \/ R!Bse(i) \/ R!Bcl(i)
    BY <2>2, Zenon DEF R!And, R!Or, R!Xor, R!Bse, R!Bcl, R!Binary, R!Outcome
  <2>3. CASE R!Sla(i) \/ R!Srl(i) \/ R!Sra(i) \/ R!Rol(i) \/ R!Ror(i)
    BY <2>3, Zenon DEF R!Sla, R!Srl, R!Sra, R!Rol, R!Ror, R!Binary, R!Outcome
  <2>4. CASE R!Inc(i) \/ R!Dec(i) \/ R!Not(i)
    BY <2>4, Zenon DEF R!Inc, R!Dec, R!Not, R!Counting, R!Outcome
  <2> QED BY <2>1, <2>2, <2>3, <2>4
<1> QED BY <1>1, Dying, RustAdvanced, RustWrites DEF RustTurn, Advances

LEMMA RustMoving ==
  ASSUME Shaped(rust), NEW i, NEW v,
         \/ R!Bts(i) \/ R!Mov(i) \/ R!Movz(i) \/ R!Rta(i) \/ R!In(i, v) \/ R!Out(i)
         \/ R!PushArm(i) \/ R!PopArm(i)
         \/ R!Nop(i) \/ R!Brk(i) \/ R!Halt(i) \/ R!Ise(i) \/ R!Icl(i)
  PROVE  RustTurn(i)
<1> DEFINE passed == R!Advanced(i)
<1>1. Advances(rust, passed, i)
  BY RustAdvanced
<1>2. ASSUME rust' = [rust EXCEPT !.dead = TRUE] \/ Advances(rust, rust', i)
      PROVE  RustTurn(i)
  BY <1>2, Dying DEF RustTurn, Advances
<1>3. ASSUME NEW m, Advances(rust, m, i), NEW o, NEW s, NEW x
      PROVE  Advances(rust, R!Put(m, o, s, x), i)
  BY <1>3, RustPut DEF Advances
<1>4. ASSUME NEW m, Advances(rust, m, i), NEW x
      PROVE  /\ Advances(rust, [m EXCEPT !.zero = x], i)
             /\ Advances(rust, [m EXCEPT !.int = x], i)
             /\ Advances(rust, [m EXCEPT !.halted = x], i)
             /\ Advances(rust, [m EXCEPT !.mem = x], i)
             /\ Advances(rust, [m EXCEPT !.io = x], i)
  BY <1>4 DEF Advances, Shaped, Fields
<1>5. ASSUME NEW m, Advances(rust, m, i), NEW s, NEW x
      PROVE  Advances(rust, R!Push(m, s, x), i) /\ Advances(rust, R!Popped(m, s), i)
  BY <1>5, RustStack DEF Advances
<1> HIDE DEF passed
<1>6. CASE R!Bts(i)
  BY <1>1, <1>2, <1>4, <1>6 DEF R!Bts, R!Binary, R!Outcome, passed
<1>7. CASE R!Mov(i) \/ R!Movz(i)
  BY <1>1, <1>2, <1>3, <1>7 DEF R!Mov, R!Movz, R!Outcome, passed
<1>8. CASE R!Rta(i)
  BY <1>1, <1>2, <1>3, <1>4, <1>8 DEF R!Rta, R!Outcome, passed
<1>9. CASE R!In(i, v)
  <2> DEFINE read == [passed EXCEPT !.io = Append(@, <<"in", R!Source(i), v>>)]
  <2>1. Advances(rust, read, i)
    BY <1>1, <1>4
  <2>2. \/ rust' = [rust EXCEPT !.dead = TRUE]
        \/ rust' = read
        \/ rust' = R!Put(read, i.dst, "word", v)
    BY <1>9, Zenon DEF R!In, passed
  <2> HIDE DEF read
  <2> QED BY <1>2, <1>3, <2>1, <2>2
<1>10. CASE R!Out(i)
  BY <1>1, <1>2, <1>4, <1>10 DEF R!Out, R!Outcome, passed
<1>11. CASE R!PushArm(i)
  BY <1>1, <1>2, <1>5, <1>11 DEF R!PushArm, R!Outcome, passed
<1>12. CASE R!PopArm(i)
  BY <1>1, <1>2, <1>3, <1>4, <1>5, <1>12 DEF R!PopArm, R!Outcome, passed
<1>13. CASE R!Nop(i) \/ R!Brk(i)
  BY <1>1, <1>2, <1>13 DEF R!Nop, R!Brk, passed
<1>14. CASE R!Halt(i) \/ R!Ise(i) \/ R!Icl(i)
  <2>1. \/ rust' = passed
        \/ rust' = [passed EXCEPT !.halted = TRUE]
        \/ rust' = [passed EXCEPT !.int = TRUE]
        \/ rust' = [passed EXCEPT !.int = FALSE]
    BY <1>14, Zenon DEF R!Halt, R!Ise, R!Icl, R!Outcome, passed
  <2>2. /\ Advances(rust, [passed EXCEPT !.halted = TRUE], i)
        /\ Advances(rust, [passed EXCEPT !.int = TRUE], i)
        /\ Advances(rust, [passed EXCEPT !.int = FALSE], i)
    BY <1>1, <1>4, Zenon
  <2> QED BY <1>1, <1>2, <2>1, <2>2, Zenon
<1> QED BY <1>6, <1>7, <1>8, <1>9, <1>10, <1>11, <1>12, <1>13, <1>14

LEMMA RustJumping ==
  ASSUME Shaped(rust), NEW i,
         \/ R!Jmp(i) \/ R!Rjmp(i) \/ R!Call(i) \/ R!Rcall(i) \/ R!Loop(i) \/ R!Rloop(i)
         \/ R!Ret(i) \/ R!Reti(i)
  PROVE  RustTurn(i)
<1>1. i.op \in Jumps
  BY DEF R!Jmp, R!Rjmp, R!Call, R!Rcall, R!Loop, R!Rloop, R!Ret, R!Reti, Jumps
<1>2. CASE \E a : R!Jump(i, a) \/ R!Calls(i, a)
  BY <1>1, <1>2, Dying, RustAdvanced, RustJumped, RustStack
     DEF R!Jump, R!Calls, R!Outcome, RustTurn, Advances
<1>3. ASSUME NEW a, R!Loops(i, a) PROVE RustTurn(i)
  <2> DEFINE Counted == [R!Advanced(i) EXCEPT !.reg["r31"] = R!Wrap(rust.reg["r31"] - 1)]
  <2>1. Advances(rust, Counted, i)
    BY RustAdvanced DEF Advances, Shaped, Fields
  <2>2. \/ rust' = [rust EXCEPT !.dead = TRUE]
        \/ rust' = Counted
        \/ rust' = R!Jumped(Counted, a) /\ R!Holds(i.cond)
    BY <1>3, Zenon DEF R!Loops
  <2> HIDE DEF Counted
  <2> QED BY <1>1, <2>1, <2>2, Dying, RustJumped DEF RustTurn, Advances
<1>4. CASE R!Ret(i)
  BY <1>1, <1>4, Dying, RustAdvanced, RustJumped, RustStack
     DEF R!Ret, R!Outcome, RustTurn, Advances
<1>5. CASE R!Reti(i)
  BY <1>1, <1>5, Dying, RustAdvanced, RustJumped, RustStack
     DEF R!Reti, R!Outcome, RustTurn, Advances
<1>6. CASE R!Jmp(i) \/ R!Rjmp(i) \/ R!Call(i) \/ R!Rcall(i)
  BY <1>2, <1>6, Zenon DEF R!Jmp, R!Rjmp, R!Call, R!Rcall
<1>7. CASE R!Loop(i) \/ R!Rloop(i)
  BY <1>3, <1>7, Zenon DEF R!Loop, R!Rloop
<1> QED BY <1>4, <1>5, <1>6, <1>7

LEMMA RustStep == ASSUME Shaped(rust), NEW i, NEW v, R!Execute(i, v) PROVE RustTurn(i)
<1>1. CASE R!Bad(i)
  BY <1>1, Dying DEF R!Bad, RustTurn
<1>2. CASE R!Known(i, v)
  BY <1>2, RustWriting, RustMoving, RustJumping, Zenon DEF R!Known
<1> QED BY <1>1, <1>2 DEF R!Execute
-----------------------------------------------------------------------------
(* fox32.c, in the same order.                                             *)

LEMMA CoreMoved ==
  ASSUME Shaped(core), NEW i
  PROVE  Advances(core, C!Moved(i), i)
BY SameLength, SameWrap DEF C!Moved, C!After, Advances, Shaped, Fields

LEMMA CorePut ==
  ASSUME NEW m, NEW o, NEW s, NEW v, Shaped(m)
  PROVE  Shaped(C!Put(m, o, s, v)) /\ C!Put(m, o, s, v).ip = m.ip
BY DEF Shaped, C!Put, Fields

LEMMA CoreStack ==
  ASSUME NEW m, NEW s, NEW v, Shaped(m)
  PROVE  /\ Shaped(C!Push(m, s, v)) /\ C!Push(m, s, v).ip = m.ip
         /\ Shaped(C!Popped(m, s)) /\ C!Popped(m, s).ip = m.ip
         /\ Shaped(C!WithFlags(m, v))
BY DEF Shaped, C!Push, C!Popped, C!WithFlags, Fields

LEMMA CoreFlags ==
  ASSUME Shaped(core), NEW i, NEW m, Advances(core, m, i), NEW z, NEW c
  PROVE  /\ Advances(core, [m EXCEPT !.zero = z], i)
         /\ Advances(core, [m EXCEPT !.zero = z, !.carry = c], i)
         /\ Advances(core, [m EXCEPT !.int = z], i)
         /\ Advances(core, [m EXCEPT !.halted = z], i)
         /\ Advances(core, [m EXCEPT !.io = z], i)
BY DEF Advances, Shaped, Fields

LEMMA JumpShaped ==
  ASSUME NEW m, NEW a, Shaped(m)
  PROVE  Shaped([m EXCEPT !.ip = a])
BY DEF Shaped, Fields

CoreTurn(i) ==
  /\ Shaped(core')
  /\ \/ core'.dead = TRUE
     \/ Advances(core, core', i)
     \/ i.op \in Jumps /\ ~C!Skips(i.cond)

LEMMA CorePassed ==
  ASSUME Shaped(core), NEW i, C!Dies \/ Advances(core, core', i)
  PROVE  CoreTurn(i)
BY Dying DEF C!Dies, CoreTurn, Advances

(* The bodies that compute: VM_IMPL_ADD, VM_IMPL_AND, VM_IMPL_INC and so   *)
(* on.                                                                     *)
LEMMA CoreComputing ==
  ASSUME Shaped(core), NEW i,
         \/ C!Add(i) \/ C!Sub(i) \/ C!Mul(i) \/ C!Imul(i)
         \/ C!Div(i) \/ C!Rem(i) \/ C!Idiv(i) \/ C!Irem(i)
         \/ C!And(i) \/ C!Or(i) \/ C!Xor(i)
         \/ C!Sla(i) \/ C!Sra(i) \/ C!Srl(i) \/ C!Rol(i) \/ C!Ror(i)
         \/ C!Bse(i) \/ C!Bcl(i) \/ C!Inc(i) \/ C!Dec(i)
  PROVE  CoreTurn(i)
<1>1. ASSUME NEW o, NEW s, NEW x PROVE Advances(core, C!Put(C!Moved(i), o, s, x), i)
  BY CoreMoved, CorePut DEF Advances
<1>2. ASSUME NEW x, NEW range, C!ImplAdd(i, x, range) PROVE CoreTurn(i)
  <2>1. \/ core' = C!Moved(i)
        \/ C!Dies
        \/ core' = [C!Put(C!Moved(i), i.dst, i.size, C!Low(i.size, x))
                      EXCEPT !.zero = C!Low(i.size, x) = 0, !.carry = x \notin range]
    BY <1>2, Zenon DEF C!ImplAdd, C!Outcome, C!OneOf
  <2>2. Advances(core, [C!Put(C!Moved(i), i.dst, i.size, C!Low(i.size, x))
                         EXCEPT !.zero = C!Low(i.size, x) = 0, !.carry = x \notin range], i)
    BY <1>1, CoreFlags, Zenon
  <2> QED BY <2>1, <2>2, CoreMoved, CorePassed, Zenon
<1>3. ASSUME NEW p, NEW xs, C!OneOf(i, p, {C!Result(i, C!Low(i.size, x)) : x \in xs})
      PROVE  CoreTurn(i)
  <2>1. core' = C!Moved(i) \/ C!Dies \/ \E v : core' = C!Result(i, v)
    BY <1>3, Zenon DEF C!OneOf
  <2>2. ASSUME NEW v PROVE Advances(core, C!Result(i, v), i)
    BY <1>1, CoreFlags, Zenon DEF C!Result
  <2> QED BY <2>1, <2>2, CoreMoved, CorePassed, Zenon
<1>4. ASSUME NEW x, C!ImplInc(i, x) PROVE CoreTurn(i)
  <2>1. \/ core' = C!Moved(i)
        \/ C!Dies
        \/ core' = [C!Put(C!Moved(i), i.src, i.size, C!Low(i.size, x))
                      EXCEPT !.zero = C!Low(i.size, x) = 0, !.carry = x \notin C!Unsigned(i.size)]
    BY <1>4, Zenon DEF C!ImplInc, C!Outcome, C!OneOf
  <2>2. Advances(core, [C!Put(C!Moved(i), i.src, i.size, C!Low(i.size, x))
                         EXCEPT !.zero = C!Low(i.size, x) = 0, !.carry = x \notin C!Unsigned(i.size)], i)
    BY <1>1, CoreFlags, Zenon
  <2> QED BY <2>1, <2>2, CoreMoved, CorePassed, Zenon
<1>5. ASSUME NEW xs, C!ImplAnd(i, xs) PROVE CoreTurn(i)
  BY <1>3, <1>5, Zenon DEF C!ImplAnd
<1>6. ASSUME NEW traps, NEW x, C!ImplDiv(i, traps, x) PROVE CoreTurn(i)
  <2>1. core' = C!Moved(i) \/ C!Dies \/ core' = C!Result(i, C!Low(i.size, x))
    BY <1>6, Zenon DEF C!ImplDiv, C!OneOf
  <2>2. Advances(core, C!Result(i, C!Low(i.size, x)), i)
    BY <1>1, CoreFlags, Zenon DEF C!Result
  <2> QED BY <2>1, <2>2, CoreMoved, CorePassed, Zenon
<1>7. CASE C!Add(i) \/ C!Sub(i) \/ C!Mul(i) \/ C!Imul(i)
  BY <1>2, <1>7, Zenon DEF C!Add, C!Sub, C!Mul, C!Imul
<1>8. CASE C!Div(i) \/ C!Rem(i) \/ C!Idiv(i) \/ C!Irem(i)
  BY <1>6, <1>8, Zenon DEF C!Div, C!Rem, C!Idiv, C!Irem
<1>9. CASE C!And(i) \/ C!Or(i) \/ C!Xor(i) \/ C!Bse(i) \/ C!Bcl(i)
  BY <1>5, <1>9, Zenon DEF C!And, C!Or, C!Xor, C!Bse, C!Bcl
<1>10. CASE C!Sla(i) \/ C!Sra(i) \/ C!Srl(i) \/ C!Rol(i) \/ C!Ror(i)
  BY <1>5, <1>10, Zenon DEF C!Sla, C!Sra, C!Srl, C!Rol, C!Ror
<1>11. CASE C!Inc(i) \/ C!Dec(i)
  BY <1>4, <1>11, Zenon DEF C!Inc, C!Dec
<1> QED BY <1>7, <1>8, <1>9, <1>10, <1>11

(* A comparison whose condition does not hold is made all the same, and    *)
(* goes on all the same.                                                   *)
LEMMA CoreMoving ==
  ASSUME Shaped(core), NEW i, NEW v,
         \/ C!Bts(i) \/ C!Cmp(i) \/ C!Not(i)
         \/ C!Mov(i) \/ C!Movz(i) \/ C!Rta(i) \/ C!In(i, v) \/ C!Out(i)
         \/ C!PushCase(i) \/ C!PopCase(i)
         \/ C!Nop(i) \/ C!Brk(i) \/ C!Halt(i) \/ C!Ise(i) \/ C!Icl(i)
  PROVE  CoreTurn(i)
<1> DEFINE moved == C!Moved(i)
<1>1. Advances(core, moved, i)
  BY CoreMoved
<1>2. ASSUME core' = moved \/ C!Dies \/ Advances(core, core', i) PROVE CoreTurn(i)
  BY <1>1, <1>2, CorePassed, Zenon
<1>3. ASSUME NEW m, Advances(core, m, i), NEW o, NEW s, NEW x
      PROVE  Advances(core, C!Put(m, o, s, x), i)
  BY <1>3, CorePut DEF Advances
<1>4. ASSUME NEW m, Advances(core, m, i), NEW s, NEW x
      PROVE  Advances(core, C!Push(m, s, x), i) /\ Advances(core, C!Popped(m, s), i)
  BY <1>4, CoreStack DEF Advances
<1> HIDE DEF moved
<1>5. CASE C!Bts(i)
  <2>1. C!Dies \/ \E z : core' = [moved EXCEPT !.zero = z]
    BY <1>5, Zenon DEF C!Bts, C!Compared, moved
  <2>2. ASSUME NEW z PROVE Advances(core, [moved EXCEPT !.zero = z], i)
    BY <1>1, CoreFlags, Zenon
  <2> QED BY <1>2, <2>1, <2>2, Zenon
<1>6. CASE C!Cmp(i)
  <2>1. C!Dies \/ \E z, c : core' = [moved EXCEPT !.zero = z, !.carry = c]
    BY <1>6, Zenon DEF C!Cmp, C!Compared, moved
  <2>2. CASE ~C!Dies
    <3>1. PICK z, c : core' = [moved EXCEPT !.zero = z, !.carry = c]
      BY <2>1, <2>2
    <3>2. Advances(core, [moved EXCEPT !.zero = z, !.carry = c], i)
      BY <1>1, CoreFlags, Zenon
    <3> QED BY <1>2, <3>1, <3>2, Zenon
  <2> QED BY <1>2, <2>2, Zenon
<1>7. CASE C!Not(i)
  <2>1. \/ core' = moved \/ C!Dies
        \/ \E x, z : core' = [C!Put(moved, i.src, i.size, x) EXCEPT !.zero = z]
    BY <1>7, Zenon DEF C!Not, C!Outcome, C!OneOf, moved
  <2>2. ASSUME NEW x, NEW z
        PROVE  Advances(core, [C!Put(moved, i.src, i.size, x) EXCEPT !.zero = z], i)
    BY <1>1, <1>3, CoreFlags, Zenon
  <2> QED BY <1>2, <2>1, <2>2, Zenon
<1>8. CASE C!Mov(i) \/ C!Movz(i) \/ C!Rta(i)
  <2>1. core' = moved \/ C!Dies \/ \E s, x : core' = C!Put(moved, i.dst, s, x)
    BY <1>8, Zenon DEF C!Mov, C!Movz, C!Rta, C!Outcome, C!OneOf, moved
  <2> QED BY <1>1, <1>2, <1>3, <2>1, Zenon
<1>9. CASE C!In(i, v)
  <2> DEFINE read == [moved EXCEPT !.io = Append(@, <<"in", C!A(i), v>>)]
  <2>1. Advances(core, read, i)
    BY <1>1, CoreFlags, Zenon
  <2>2. core' = moved \/ C!Dies \/ core' = C!Put(read, i.dst, "word", v)
    BY <1>9, Zenon DEF C!In, C!Outcome, C!OneOf, moved
  <2> HIDE DEF read
  <2> QED BY <1>2, <1>3, <2>1, <2>2, Zenon
<1>10. CASE C!Out(i)
  <2> DEFINE written == [moved EXCEPT !.io = Append(@, <<"out", C!B(i), C!A(i)>>)]
  <2>1. Advances(core, written, i)
    BY <1>1, CoreFlags, Zenon
  <2>2. core' = moved \/ C!Dies \/ core' = written
    BY <1>10, Zenon DEF C!Out, C!Outcome, C!OneOf, moved
  <2> HIDE DEF written
  <2> QED BY <1>2, <2>1, <2>2, Zenon
<1>11. CASE C!PushCase(i)
  <2>1. core' = moved \/ C!Dies \/ core' = C!Push(moved, i.size, C!A(i))
    BY <1>11, Zenon DEF C!PushCase, C!Outcome, C!OneOf, moved
  <2> QED BY <1>1, <1>2, <1>4, <2>1, Zenon
<1>12. CASE C!PopCase(i)
  <2>1. \/ core' = moved \/ C!Dies
        \/ core' = C!Put(C!Popped(moved, i.size), i.src, i.size, C!Top(core, i.size))
    BY <1>12, Zenon DEF C!PopCase, C!Outcome, C!OneOf, moved
  <2> QED BY <1>1, <1>2, <1>3, <1>4, <2>1, Zenon
<1>13. CASE C!Nop(i) \/ C!Brk(i)
  BY <1>2, <1>13, Zenon DEF C!Nop, C!Brk, C!Outcome, C!OneOf, moved
<1>14. CASE C!Halt(i) \/ C!Ise(i) \/ C!Icl(i)
  <2>1. \/ core' = moved \/ C!Dies
        \/ \E b : core' \in {[moved EXCEPT !.halted = b], [moved EXCEPT !.int = b]}
    BY <1>14, Zenon DEF C!Halt, C!Ise, C!Icl, C!Outcome, C!OneOf, moved
  <2>2. ASSUME NEW b
        PROVE  /\ Advances(core, [moved EXCEPT !.halted = b], i)
               /\ Advances(core, [moved EXCEPT !.int = b], i)
    BY <1>1, CoreFlags, Zenon
  <2> QED BY <1>2, <2>1, <2>2, Zenon
<1> QED BY <1>5, <1>6, <1>7, <1>8, <1>9, <1>10, <1>11, <1>12, <1>13, <1>14

LEMMA CoreJumping ==
  ASSUME Shaped(core), NEW i,
         \/ C!Jmp(i) \/ C!Rjmp(i) \/ C!Call(i) \/ C!Rcall(i) \/ C!Loop(i) \/ C!Rloop(i)
         \/ C!Ret(i) \/ C!Reti(i)
  PROVE  CoreTurn(i)
<1>1. i.op \in Jumps
  BY DEF C!Jmp, C!Rjmp, C!Call, C!Rcall, C!Loop, C!Rloop, C!Ret, C!Reti, Jumps
<1>2. ASSUME NEW m, Shaped(m), NEW a,
             core' = C!Moved(i) \/ C!Dies \/ (core' = [m EXCEPT !.ip = a] /\ ~C!Skips(i.cond))
      PROVE  CoreTurn(i)
  <2>1. CASE core' = C!Moved(i) \/ C!Dies
    BY <2>1, CoreMoved, CorePassed, Zenon
  <2>2. CASE core' = [m EXCEPT !.ip = a] /\ ~C!Skips(i.cond)
    BY <1>1, <1>2, <2>2, JumpShaped DEF CoreTurn
  <2> QED BY <1>2, <2>1, <2>2
<1>3. ASSUME NEW a, C!ImplJmp(i, a) PROVE CoreTurn(i)
  BY <1>2, <1>3, Zenon DEF C!ImplJmp, C!Outcome, C!OneOf
<1>4. ASSUME NEW a, C!ImplCall(i, a) PROVE CoreTurn(i)
  <2> DEFINE m == C!Push(core, "word", C!After(i))
  <2>1. core' = C!Moved(i) \/ C!Dies \/ (core' = [m EXCEPT !.ip = a] /\ ~C!Skips(i.cond))
    BY <1>4, Zenon DEF C!ImplCall, C!Outcome, C!OneOf
  <2>2. Shaped(m)
    BY CoreStack, Zenon
  <2> HIDE DEF m
  <2> QED BY <1>2, <2>1, <2>2, Zenon
<1>5. ASSUME NEW b, C!ImplLoop(i, b) PROVE CoreTurn(i)
  <2>1. Shaped(C!Counted)
    BY DEF C!Counted, Shaped, Fields
  <2>2. \E a : core' = C!Moved(i) \/ C!Dies
                \/ (core' = [C!Counted EXCEPT !.ip = a] /\ ~C!Skips(i.cond))
    BY <1>5, Zenon DEF C!ImplLoop
  <2> QED BY <1>2, <2>1, <2>2, Zenon
<1>6. CASE C!Ret(i)
  <2>1. Shaped(C!Popped(core, "word"))
    BY CoreStack, Zenon
  <2> QED BY <1>2, <1>6, <2>1, Zenon DEF C!Ret, C!Outcome, C!OneOf
<1>7. CASE C!Reti(i)
  <2> DEFINE flagged == C!Popped(C!WithFlags(core, C!Top(core, "byte")), "byte")
             m == C!Popped(flagged, "word")
  <2>1. Shaped(flagged) /\ Shaped(m)
    BY CoreStack, Zenon
  <2>2. \/ core' = C!Moved(i) \/ C!Dies
        \/ core' = [m EXCEPT !.ip = C!Top(flagged, "word")] /\ ~C!Skips(i.cond)
    BY <1>7, Zenon DEF C!Reti, C!Outcome, C!OneOf
  <2> HIDE DEF m
  <2> QED BY <1>2, <2>1, <2>2, Zenon
<1>8. CASE C!Jmp(i) \/ C!Rjmp(i)
  BY <1>3, <1>8, Zenon DEF C!Jmp, C!Rjmp
<1>9. CASE C!Call(i) \/ C!Rcall(i)
  BY <1>4, <1>9, Zenon DEF C!Call, C!Rcall
<1>10. CASE C!Loop(i) \/ C!Rloop(i)
  BY <1>5, <1>10, Zenon DEF C!Loop, C!Rloop
<1> QED BY <1>6, <1>7, <1>8, <1>9, <1>10

LEMMA CoreStep == ASSUME Shaped(core), NEW i, NEW v, C!Execute(i, v) PROVE CoreTurn(i)
<1>1. CASE C!Dies
  BY <1>1, CorePassed
<1>2. CASE C!Known(i, v)
  BY <1>2, CoreComputing, CoreMoving, CoreJumping, Zenon DEF C!Known
<1> QED BY <1>1, <1>2 DEF C!Execute
-----------------------------------------------------------------------------
(* An interrupt leaves machines behind, too. *)

LEMMA RaisedShaped ==
  ASSUME Shaped(rust), Shaped(core), NEW vector, R!Interrupt(vector), C!Raise(vector)
  PROVE  Shaped(rust') /\ Shaped(core')
<1>1. Shaped(rust')
  <2>1. \/ rust' = rust
        \/ rust' = [rust EXCEPT !.dead = TRUE]
        \/ \E m, b, f, a :
             rust' = [R!Push(R!Push(rust, "word", b), "byte", f) EXCEPT !.int = m, !.ip = a]
    BY Zenon DEF R!Interrupt
  <2>2. CASE rust' \notin {rust, [rust EXCEPT !.dead = TRUE]}
    <3> DEFINE frame(b, f) == R!Push(R!Push(rust, "word", b), "byte", f)
    <3>1. PICK m, b, f, a : rust' = [frame(b, f) EXCEPT !.int = m, !.ip = a]
      BY <2>1, <2>2
    <3>2. Shaped(frame(b, f))
      BY RustStack, Zenon
    <3> HIDE DEF frame
    <3> QED BY <3>1, <3>2 DEF Shaped, Fields
  <2> QED BY <2>2, Dying
<1>2. Shaped(core')
  <2>1. \/ core' = core
        \/ core' = [core EXCEPT !.dead = TRUE]
        \/ \E m, h, b, f, a :
             core' = [C!Push(C!Push(core, "word", b), "byte", f)
                       EXCEPT !.int = m, !.halted = h, !.ip = a]
    BY Zenon DEF C!Raise, C!Dies
  <2>2. CASE core' \notin {core, [core EXCEPT !.dead = TRUE]}
    <3> DEFINE frame(b, f) == C!Push(C!Push(core, "word", b), "byte", f)
    <3>1. PICK m, h, b, f, a : core' = [frame(b, f) EXCEPT !.int = m, !.halted = h, !.ip = a]
      BY <2>1, <2>2
    <3>2. Shaped(frame(b, f))
      BY CoreStack, Zenon
    <3> HIDE DEF frame
    <3> QED BY <3>1, <3>2 DEF Shaped, Fields
  <2> QED BY <2>2, Dying
<1> QED BY <1>1, <1>2

BothShaped == Shaped(rust) /\ Shaped(core)

LEMMA StepShaped == BothShaped /\ [Next]_vars => BothShaped'
<1> SUFFICES ASSUME BothShaped, [Next]_vars PROVE BothShaped'
  OBVIOUS
<1>1. CASE Step
  <2>1. PICK v : /\ IF Runs(rust) THEN R!Execute(ins, v) ELSE UNCHANGED rust
                 /\ IF Runs(core) THEN C!Execute(ins, v) ELSE UNCHANGED core
    BY <1>1, Zenon DEF Step
  <2>2. Shaped(rust')
    BY <2>1, RustStep DEF BothShaped, RustTurn
  <2>3. Shaped(core')
    BY <2>1, CoreStep DEF BothShaped, CoreTurn
  <2> QED BY <2>2, <2>3 DEF BothShaped, Shaped, Fields
<1>2. ASSUME NEW vector \in Vectors, Request(vector) PROVE BothShaped'
  BY <1>2, RaisedShaped DEF BothShaped, Request, Shaped, Fields
<1>3. CASE UNCHANGED vars
  BY <1>3 DEF vars, BothShaped, Shaped, Fields
<1> QED BY <1>1, <1>2, <1>3 DEF Next

LEMMA StepFollowsOn ==
  BothShaped /\ [Next]_vars =>
    [\A t \in Turns :
       Executes(t.x, t.y) /\ (ins.op \notin Jumps \/ t.skipped)
         => t.y.ip = Wrap(t.x.ip + AssembledLength(ins))]_vars
<1> SUFFICES ASSUME BothShaped, Next, NEW t \in Turns, Executes(t.x, t.y),
                    ins.op \notin Jumps \/ t.skipped
             PROVE  t.y.ip = Wrap(t.x.ip + AssembledLength(ins))
  OBVIOUS
<1>1. Step
  BY Zenon DEF Next, Request, Executes
<1>2. PICK v : /\ IF Runs(rust) THEN R!Execute(ins, v) ELSE UNCHANGED rust
               /\ IF Runs(core) THEN C!Execute(ins, v) ELSE UNCHANGED core
  BY <1>1, Zenon DEF Step
<1>3. CASE t = [x |-> rust, y |-> rust', skipped |-> ~R!Holds(ins.cond)]
  <2>1. Runs(rust) /\ ~rust'.dead
    BY <1>3 DEF Executes
  <2>2. RustTurn(ins)
    BY <1>2, <2>1, RustStep DEF BothShaped
  <2> QED BY <1>3, <2>1, <2>2 DEF RustTurn, Advances
<1>4. CASE t = [x |-> core, y |-> core', skipped |-> C!Skips(ins.cond)]
  <2>1. Runs(core) /\ ~core'.dead
    BY <1>4 DEF Executes
  <2>2. CoreTurn(ins)
    BY <1>2, <2>1, CoreStep DEF BothShaped
  <2> QED BY <1>4, <2>1, <2>2 DEF CoreTurn, Advances
<1> QED BY <1>3, <1>4 DEF Turns

(* Neither CPU ever starts to decode inside an operand: whatever the       *)
(* program, its size and its operands, executed or skipped, an instruction *)
(* that does not jump is followed by the one the assembler put after it.   *)
THEOREM OperandsNeverDecoded == Spec => FollowsOn
<1>1. Init => BothShaped
  BY StartShaped, TwoCpusAssumption DEF Init, BothShaped
<1> QED BY <1>1, StepShaped, StepFollowsOn, PTL DEF Spec, FollowsOn

LEMMA NextBit ==
  ASSUME NEW x \in Int, NEW p \in Nat \ {0}
  PROVE  x % (2 * p) = (x % p) + ((x \div p) % 2) * p
<1> DEFINE a == x \div p
           r == x % p
           c == a \div 2
           d == a % 2
<1>1. a \in Int /\ r \in 0 .. p - 1 /\ x = p * a + r
  BY Divides
<1>2. c \in Int /\ d \in 0 .. 1 /\ a = 2 * c + d
  BY <1>1
<1> HIDE DEF a, r, c, d
<1>3. d * p + r \in 0 .. 2 * p - 1
  <2>1. d = 0 \/ d = 1
    BY <1>2
  <2> QED BY <1>1, <2>1
<1>4. x = (2 * p) * c + (d * p + r)
  <2>1. p * a = p * (2 * c) + p * d
    BY <1>2
  <2> QED BY <1>1, <1>2, <2>1
<1>5. x % (2 * p) = d * p + r
  <2>1. 2 * p \in Nat \ {0}
    OBVIOUS
  <2> QED BY <1>2, <1>3, <1>4, <2>1, DividesOnce
<1> QED BY <1>1, <1>2, <1>5 DEF a, r, d

LEMMA Powers ==
  /\ Pow(0) = 1 /\ Pow(1) = 2 /\ Pow(2) = 4 /\ Pow(3) = 8 /\ Pow(4) = 16 /\ Pow(5) = 32
  /\ Pow(6) = 64 /\ Pow(7) = 128 /\ Pow(8) = 256 /\ Pow(9) = 512 /\ Pow(10) = 1024
  /\ Pow(11) = 2048 /\ Pow(12) = 4096 /\ Pow(13) = 8192 /\ Pow(14) = 16384 /\ Pow(15) = 32768
  /\ Pow(16) = 65536 /\ Pow(17) = 131072 /\ Pow(18) = 262144 /\ Pow(19) = 524288
  /\ Pow(20) = 1048576 /\ Pow(21) = 2097152 /\ Pow(22) = 4194304 /\ Pow(23) = 8388608
  /\ Pow(24) = 16777216 /\ Pow(25) = 33554432 /\ Pow(26) = 67108864 /\ Pow(27) = 134217728
  /\ Pow(28) = 268435456 /\ Pow(29) = 536870912 /\ Pow(30) = 1073741824
  /\ Pow(31) = 2147483648 /\ Pow(32) = 4294967296
BY DEF Pow

LEMMA PowerStep == ASSUME NEW n \in 0 .. 31 PROVE Pow(n + 1) = 2 * Pow(n)
<1>1. n \in {0, 1, 2, 3, 4, 5, 6, 7, 8, 9, 10, 11, 12, 13, 14, 15, 16, 17, 18, 19, 20, 21, 22,
             23, 24, 25, 26, 27, 28, 29, 30, 31}
  OBVIOUS
<1> QED BY <1>1, Powers

LEMMA PowerPositive == \A n \in 0 .. 32 : Pow(n) \in Nat \ {0}
<1>1. \A n \in 0 .. 32 : n \in {0, 1, 2, 3, 4, 5, 6, 7, 8, 9, 10, 11, 12, 13, 14, 15, 16, 17, 18, 19, 20,
             21, 22, 23, 24, 25, 26, 27, 28, 29, 30, 31, 32}
  OBVIOUS
<1> QED BY <1>1, Powers

(* The partial sums of FromBits. *)
Sums(f, w, b) == f = [k \in 0 .. w |-> IF k = 0 THEN 0 ELSE f[k - 1] + b[k - 1] * 2 ^ (k - 1)]

LEMMA SumsExist == ASSUME NEW w \in Nat, NEW b PROVE \E f : Sums(f, w, b)
<1> DEFINE S == {n \in 0 .. w : \E f : Sums(f, n, b)}
<1>1. 0 \in S
  <2>1. Sums([k \in 0 .. 0 |-> 0], 0, b)
    BY DEF Sums
  <2> QED BY <2>1
<1>2. ASSUME NEW n \in 0 .. w - 1, n \in S PROVE n + 1 \in S
  <2>1. PICK f : Sums(f, n, b)
    BY <1>2
  <2> DEFINE g == [k \in 0 .. n + 1 |-> IF k = n + 1 THEN f[n] + b[n] * 2 ^ n ELSE f[k]]
  <2>2. \A k \in 0 .. n + 1 : g[k] = IF k = 0 THEN 0 ELSE g[k - 1] + b[k - 1] * 2 ^ (k - 1)
    <3>1. \A k \in 0 .. n : f[k] = IF k = 0 THEN 0 ELSE f[k - 1] + b[k - 1] * 2 ^ (k - 1)
      BY <2>1 DEF Sums
    <3> QED BY <3>1
  <2>3. Sums(g, n + 1, b)
    BY <2>2 DEF Sums
  <2> QED BY <2>3
<1> HIDE DEF S
<1>3. w \in S
  BY <1>1, <1>2, UpTo
<1> QED BY <1>3 DEF S

LEMMA FromBitsSums == ASSUME NEW w \in Nat, NEW b PROVE \E f : Sums(f, w, b) /\ FromBits(w, b) = f[w]
<1> DEFINE f == CHOOSE f : Sums(f, w, b)
<1>1. Sums(f, w, b)
  BY SumsExist
<1>2. FromBits(w, b) = f[w]
  BY DEF FromBits, Sums
<1> QED BY <1>1, <1>2

LEMMA SumsStep ==
  ASSUME NEW w \in Nat, NEW b, NEW f, Sums(f, w, b)
  PROVE  f[0] = 0 /\ \A k \in 0 .. w - 1 : f[k + 1] = f[k] + b[k] * Pow(k)
<1>1. \A k \in 0 .. w : f[k] = IF k = 0 THEN 0 ELSE f[k - 1] + b[k - 1] * 2 ^ (k - 1)
  BY DEF Sums
<1>2. ASSUME NEW k \in 0 .. w - 1 PROVE f[k + 1] = f[k] + b[k] * Pow(k)
  <2>1. k + 1 \in 0 .. w /\ k + 1 # 0 /\ (k + 1) - 1 = k
    OBVIOUS
  <2> QED BY <1>1, <2>1 DEF Pow
<1> QED BY <1>1, <1>2

LEMMA BitIs == \A x, k : Bit(x, k) = (x \div Pow(k)) % 2
BY DEF Bit, Pow

LEMMA BitValue == ASSUME NEW x \in Int, NEW k \in 0 .. 32 PROVE Bit(x, k) \in {0, 1}
<1>1. x \div Pow(k) \in Int
  BY PowerPositive, Divides
<1> QED BY <1>1, BitIs

LEMMA BitNext ==
  ASSUME NEW x \in Int, NEW k \in 0 .. 31
  PROVE  x % Pow(k + 1) = (x % Pow(k)) + Bit(x, k) * Pow(k)
<1>1. Pow(k) \in Nat \ {0} /\ Pow(k + 1) = 2 * Pow(k)
  BY PowerPositive, PowerStep
<1>2. x % (2 * Pow(k)) = (x % Pow(k)) + ((x \div Pow(k)) % 2) * Pow(k)
  BY <1>1, NextBit
<1> QED BY <1>1, <1>2, BitIs

(* How the partial sums of the bits of x grow. *)
LEMMA PartBegins == ASSUME NEW x \in Int PROVE x % Pow(0) = 0
BY Powers

LEMMA PartGrows ==
  ASSUME NEW x \in Int, NEW k \in 0 .. 31
  PROVE  /\ x % Pow(k) \in 0 .. Pow(k) - 1
         /\ \/ Bit(x, k) = 0 /\ x % Pow(k + 1) = x % Pow(k)
            \/ Bit(x, k) = 1 /\ x % Pow(k + 1) = (x % Pow(k)) + Pow(k)
<1>1. Pow(k) \in Nat \ {0}
  BY PowerPositive
<1>2. x % Pow(k) \in 0 .. Pow(k) - 1
  BY <1>1, Divides
<1>3. Bit(x, k) \in {0, 1}
  BY BitValue
<1>4. x % Pow(k + 1) = (x % Pow(k)) + Bit(x, k) * Pow(k)
  BY BitNext
<1> QED BY <1>1, <1>2, <1>3, <1>4

LEMMA FromBitsRange ==
  ASSUME NEW w \in 0 .. 32, NEW b, \A k \in 0 .. w - 1 : b[k] \in {0, 1}
  PROVE  FromBits(w, b) \in 0 .. Pow(w) - 1
<1>1. PICK f : Sums(f, w, b) /\ FromBits(w, b) = f[w]
  BY FromBitsSums
<1> DEFINE S == {k \in 0 .. w : f[k] \in 0 .. Pow(k) - 1}
<1>2. 0 \in S
  BY <1>1, SumsStep, Powers
<1>3. ASSUME NEW k \in 0 .. w - 1, k \in S PROVE k + 1 \in S
  <2>1. f[k + 1] = f[k] + b[k] * Pow(k) /\ b[k] \in {0, 1} /\ f[k] \in 0 .. Pow(k) - 1
    BY <1>1, <1>3, SumsStep
  <2>2. Pow(k) \in Nat \ {0} /\ Pow(k + 1) = 2 * Pow(k)
    BY PowerPositive, PowerStep
  <2>3. f[k + 1] \in 0 .. Pow(k + 1) - 1
    BY <2>1, <2>2
  <2> QED BY <2>3
<1> HIDE DEF S
<1>4. w \in S
  BY <1>2, <1>3, UpTo
<1> QED BY <1>1, <1>4 DEF S

(* The number with all bits zero is zero, and only that one. *)
LEMMA FromBitsZero ==
  ASSUME NEW w \in 0 .. 32, NEW b, \A k \in 0 .. w - 1 : b[k] \in {0, 1}
  PROVE  FromBits(w, b) = 0 <=> \A k \in 0 .. w - 1 : b[k] = 0
<1>1. PICK f : Sums(f, w, b) /\ FromBits(w, b) = f[w]
  BY FromBitsSums
<1>2. ASSUME NEW k \in 0 .. w - 1
      PROVE  Pow(k) \in Nat \ {0} /\ \/ b[k] = 0 /\ f[k + 1] = f[k] + 0
                                     \/ b[k] = 1 /\ f[k + 1] = f[k] + Pow(k)
  <2>1. f[k + 1] = f[k] + b[k] * Pow(k) /\ b[k] \in {0, 1}
    BY <1>1, SumsStep
  <2> QED BY <2>1, PowerPositive
<1>3. ASSUME \A k \in 0 .. w - 1 : b[k] = 0 PROVE f[w] = 0
  <2> DEFINE S == {k \in 0 .. w : f[k] = 0}
  <2>1. 0 \in S
    BY <1>1, SumsStep
  <2>2. ASSUME NEW k \in 0 .. w - 1, k \in S PROVE k + 1 \in S
    <3>1. b[k] = 0 /\ f[k] = 0
      BY <1>3, <2>2
    <3> QED BY <1>2, <3>1
  <2> HIDE DEF S
  <2>3. w \in S
    BY <2>1, <2>2, UpTo
  <2> QED BY <2>3 DEF S
<1>4. ASSUME NEW j \in 0 .. w - 1, b[j] = 1 PROVE f[w] # 0
  <2> DEFINE S == {k \in 0 .. w : f[k] \in Nat /\ (k > j => f[k] > 0)}
  <2>1. 0 \in S
    BY <1>1, SumsStep
  <2>2. ASSUME NEW k \in 0 .. w - 1, k \in S PROVE k + 1 \in S
    <3>1. f[k] \in Nat /\ (k > j => f[k] > 0)
      BY <2>2
    <3>2. Pow(k) \in Nat \ {0} /\ \/ b[k] = 0 /\ f[k + 1] = f[k] + 0
                                  \/ b[k] = 1 /\ f[k + 1] = f[k] + Pow(k)
      BY <1>2
    <3>3. f[k + 1] \in Nat /\ (k + 1 > j => f[k + 1] > 0)
      <4>1. k = j => b[k] = 1
        BY <1>4
      <4> QED BY <3>1, <3>2, <4>1
    <3> QED BY <3>3
  <2> HIDE DEF S
  <2>3. w \in S
    BY <2>1, <2>2, UpTo
  <2>4. f[w] \in Nat /\ (w > j => f[w] > 0)
    BY <2>3 DEF S
  <2> QED BY <2>4
<1> QED BY <1>1, <1>3, <1>4

AndBits(w, x, y) == [k \in 0 .. w - 1 |-> Bit(x, k) * Bit(y, k)]
XorBits(w, x, y) == [k \in 0 .. w - 1 |-> (Bit(x, k) + Bit(y, k)) % 2]

LEMMA AndXorBits ==
  ASSUME NEW w \in 0 .. 32, NEW x \in Int, NEW y \in Int, NEW k \in 0 .. w - 1
  PROVE  /\ AndBits(w, x, y)[k] \in {0, 1} /\ XorBits(w, x, y)[k] \in {0, 1}
         /\ AndBits(w, x, y)[k] = 1 <=> Bit(x, k) = 1 /\ Bit(y, k) = 1
<1>1. Bit(x, k) \in {0, 1} /\ Bit(y, k) \in {0, 1}
  BY BitValue
<1> QED BY <1>1 DEF AndBits, XorBits

LEMMA AndSums ==
  ASSUME NEW w \in 0 .. 32, NEW x \in 0 .. Pow(w) - 1, NEW y \in 0 .. Pow(w) - 1
  PROVE  /\ FromBits(w, AndBits(w, x, y)) \in 0 .. x
         /\ FromBits(w, AndBits(w, x, y)) <= y
         /\ x + y - FromBits(w, AndBits(w, x, y)) <= Pow(w) - 1
         /\ x = y => FromBits(w, AndBits(w, x, y)) = x
<1> DEFINE b == AndBits(w, x, y)
<1>0. Pow(w) \in Nat \ {0} /\ x \in Int /\ y \in Int
  BY PowerPositive
<1>1. PICK f : Sums(f, w, b) /\ FromBits(w, b) = f[w]
  BY FromBitsSums
<1> DEFINE Good(k) == /\ f[k] \in 0 .. (x % Pow(k)) /\ f[k] <= y % Pow(k)
                      /\ (x % Pow(k)) + (y % Pow(k)) - f[k] <= Pow(k) - 1
                      /\ x = y => f[k] = x % Pow(k)
           S == {k \in 0 .. w : Good(k)}
<1>2. 0 \in S
  <2>1. f[0] = 0 /\ x % Pow(0) = 0 /\ y % Pow(0) = 0 /\ Pow(0) = 1
    BY <1>0, <1>1, SumsStep, PartBegins, Powers
  <2> QED BY <2>1
<1>3. ASSUME NEW k \in 0 .. w - 1, k \in S PROVE k + 1 \in S
  <2>0. k \in 0 .. 31
    OBVIOUS
  <2>1. Pow(k) \in Nat \ {0} /\ Pow(k + 1) = 2 * Pow(k)
    BY PowerPositive, PowerStep
  <2>2. /\ x % Pow(k) \in 0 .. Pow(k) - 1
        /\ \/ Bit(x, k) = 0 /\ x % Pow(k + 1) = x % Pow(k)
           \/ Bit(x, k) = 1 /\ x % Pow(k + 1) = (x % Pow(k)) + Pow(k)
    BY <1>0, <2>0, PartGrows
  <2>3. /\ y % Pow(k) \in 0 .. Pow(k) - 1
        /\ \/ Bit(y, k) = 0 /\ y % Pow(k + 1) = y % Pow(k)
           \/ Bit(y, k) = 1 /\ y % Pow(k + 1) = (y % Pow(k)) + Pow(k)
    BY <1>0, <2>0, PartGrows
  <2>4. /\ \/ Bit(x, k) = 1 /\ Bit(y, k) = 1 /\ f[k + 1] = f[k] + Pow(k)
           \/ ~(Bit(x, k) = 1 /\ Bit(y, k) = 1) /\ f[k + 1] = f[k]
        /\ f[k] \in 0 .. (x % Pow(k))
    <3>1. f[k + 1] = f[k] + b[k] * Pow(k)
      BY <1>1, SumsStep
    <3>2. b[k] \in {0, 1} /\ (b[k] = 1 <=> Bit(x, k) = 1 /\ Bit(y, k) = 1)
      BY <1>0, AndXorBits
    <3>3. f[k] \in 0 .. (x % Pow(k))
      BY <1>3
    <3> HIDE DEF b
    <3>4. f[k] \in Int
      BY <2>2, <3>3
    <3> QED BY <2>1, <3>1, <3>2, <3>3, <3>4
  <2>5. Good(k)
    BY <1>3
  <2>6. x = y => Bit(x, k) = Bit(y, k)
    OBVIOUS
  <2> DEFINE X == x % Pow(k)
             X1 == x % Pow(k + 1)
             Y == y % Pow(k)
             Y1 == y % Pow(k + 1)
             P == Pow(k)
  <2>7. /\ f[k + 1] \in 0 .. X1 /\ f[k + 1] <= Y1
        /\ X1 + Y1 - f[k + 1] <= 2 * P - 1
        /\ x = y => f[k + 1] = X1
    <3>1. /\ f[k] \in 0 .. X /\ f[k] <= Y /\ X + Y - f[k] <= P - 1
          /\ x = y => f[k] = X
      BY <2>5
    <3> HIDE DEF X, Y, X1, Y1, P
    <3>2. /\ P \in Nat \ {0} /\ X \in 0 .. P - 1 /\ Y \in 0 .. P - 1
          /\ \/ Bit(x, k) = 0 /\ X1 = X
             \/ Bit(x, k) = 1 /\ X1 = X + P
          /\ \/ Bit(y, k) = 0 /\ Y1 = Y
             \/ Bit(y, k) = 1 /\ Y1 = Y + P
          /\ \/ Bit(x, k) = 1 /\ Bit(y, k) = 1 /\ f[k + 1] = f[k] + P
             \/ ~(Bit(x, k) = 1 /\ Bit(y, k) = 1) /\ f[k + 1] = f[k]
      BY <2>1, <2>2, <2>3, <2>4 DEF X, Y, X1, Y1, P
    <3> HIDE DEF b
    <3> QED BY <2>6, <3>1, <3>2
  <2> QED BY <2>1, <2>7
<1> HIDE DEF S
<1>4. w \in S
  BY <1>2, <1>3, UpTo
<1>5. Good(w) /\ x % Pow(w) = x /\ y % Pow(w) = y
  BY <1>0, <1>4, Whole DEF S
<1> QED BY <1>1, <1>5

LEMMA PowerSum == ASSUME NEW a \in 0 .. 32, NEW b \in 0 .. 32 - a PROVE Pow(a + b) = Pow(a) * Pow(b)
<1> DEFINE S == {k \in 0 .. 32 - a : Pow(a + k) = Pow(a) * Pow(k)}
<1>1. 0 \in S
  BY PowerPositive, Powers
<1>2. ASSUME NEW k \in 0 .. (32 - a) - 1, k \in S PROVE k + 1 \in S
  <2>1. Pow(a) \in Nat /\ Pow(k) \in Nat
    BY PowerPositive
  <2>2. Pow(k + 1) = 2 * Pow(k)
    BY PowerStep
  <2>3. Pow((a + k) + 1) = 2 * Pow(a + k)
    BY PowerStep
  <2>4. Pow(a + k) = Pow(a) * Pow(k)
    BY <1>2
  <2>5. a + (k + 1) = (a + k) + 1
    OBVIOUS
  <2>6. 2 * (Pow(a) * Pow(k)) = Pow(a) * (2 * Pow(k))
    BY <2>1
  <2>7. Pow(a + (k + 1)) = Pow(a) * Pow(k + 1)
    BY <2>2, <2>3, <2>4, <2>5, <2>6
  <2> QED BY <2>7
<1> HIDE DEF S
<1>3. 32 - a \in Nat
  OBVIOUS
<1>4. b \in S
  BY <1>1, <1>2, <1>3, UpTo
<1> QED BY <1>4 DEF S

(* Below the place where a multiple of a power begins, its bits are zero,  *)
(* and so are those of a small number above it.                            *)
LEMMA LowBitsZero ==
  ASSUME NEW r \in Int, NEW n \in 0 .. 32, NEW k \in 0 .. n - 1
  PROVE  Bit(r * Pow(n), k) = 0
<1>1. n = k + (n - k) /\ n - k = (n - k - 1) + 1
  OBVIOUS
<1>2. Pow(n) = Pow(k) * Pow(n - k)
  <2>1. n - k \in 0 .. 32 - k
    OBVIOUS
  <2>2. Pow(k + (n - k)) = Pow(k) * Pow(n - k)
    BY <2>1, PowerSum
  <2> QED BY <1>1, <2>2
<1>3. Pow(n - k) = 2 * Pow(n - k - 1)
  BY <1>1, PowerStep
<1> DEFINE c == Pow(n - k - 1)
           p == Pow(k)
           q == r * c
<1>4. c \in Nat /\ p \in Nat \ {0}
  BY PowerPositive
<1> HIDE DEF c, p
<1>5. r * Pow(n) = p * (2 * (r * c)) + 0
  <2>1. Pow(n) = p * (2 * c)
    BY <1>2, <1>3 DEF c, p
  <2>2. r * (p * (2 * c)) = p * (2 * (r * c))
    BY <1>4
  <2> QED BY <1>4, <2>1, <2>2
<1>6. q \in Int
  BY <1>4
<1> HIDE DEF q
<1>7. (r * Pow(n)) \div p = 2 * q
  <2>1. r * Pow(n) \in Int /\ 2 * q \in Int /\ 0 \in 0 .. p - 1
    BY <1>4, <1>6, PowerPositive
  <2> QED BY <1>4, <1>5, <2>1, DividesOnce DEF q
<1>8. (2 * q) % 2 = 0
  BY <1>6
<1> QED BY <1>7, <1>8, BitIs DEF p

LEMMA PowerGrows == ASSUME NEW n \in 0 .. 32, NEW k \in n .. 32 PROVE Pow(n) <= Pow(k)
<1>1. Pow(n + (k - n)) = Pow(n) * Pow(k - n)
  BY PowerSum
<1>2. Pow(n) \in Nat \ {0} /\ Pow(k - n) \in Nat \ {0}
  BY PowerPositive
<1>3. n + (k - n) = k
  OBVIOUS
<1> QED BY <1>1, <1>2, <1>3

LEMMA HighBitsZero ==
  ASSUME NEW n \in 0 .. 32, NEW x \in 0 .. Pow(n) - 1, NEW k \in n .. 32
  PROVE  Bit(x, k) = 0
<1>1. Pow(n) \in Nat /\ Pow(k) \in Nat \ {0} /\ Pow(n) <= Pow(k)
  BY PowerPositive, PowerGrows
<1>2. x \div Pow(k) = 0
  BY <1>1, Whole
<1> QED BY <1>2, BitIs

LEMMA OneBit ==
  ASSUME NEW n \in 0 .. 31, NEW k \in 0 .. 31
  PROVE  Bit(Pow(n), k) = IF k = n THEN 1 ELSE 0
<1>1. Pow(n) \in Nat \ {0} /\ Pow(n + 1) = 2 * Pow(n)
  BY PowerPositive, PowerStep
<1>2. CASE k < n
  <2>1. k \in 0 .. n - 1 /\ 1 * Pow(n) = Pow(n) /\ n \in 0 .. 32
    BY <1>1, <1>2
  <2>2. Bit(1 * Pow(n), k) = 0
    BY <2>1, LowBitsZero
  <2> QED BY <1>2, <2>1, <2>2
<1>3. CASE k = n
  <2>1. Pow(n) \div Pow(n) = 1
    <3>1. Pow(n) = Pow(n) * 1 + 0
      BY <1>1
    <3> QED BY <1>1, <3>1, DividesOnce
  <2> QED BY <1>3, <2>1, BitIs
<1>4. CASE k > n
  <2>1. n + 1 \in 0 .. 32 /\ Pow(n) \in 0 .. Pow(n + 1) - 1 /\ k \in n + 1 .. 32
    BY <1>1, <1>4
  <2> QED BY <1>4, <2>1, HighBitsZero
<1> QED BY <1>2, <1>3, <1>4

(* A number rotated by n bits of w: its parts, and that they are disjoint. *)
LEMMA Halves ==
  ASSUME NEW w \in 0 .. 32, NEW n \in 0 .. w, NEW x \in 0 .. Pow(w) - 1
  PROVE  /\ (x * Pow(n)) % Pow(w) = (x % Pow(w - n)) * Pow(n)
         /\ (x % Pow(w - n)) * Pow(n) \in 0 .. Pow(w) - Pow(n)
         /\ x \div Pow(w - n) \in 0 .. Pow(n) - 1
<1> DEFINE q == Pow(w - n)
           p == Pow(n)
           r == x % q
           a == x \div q
<1>1. Pow(w) = q * p
  <2>1. Pow((w - n) + n) = q * p
    BY PowerSum
  <2>2. (w - n) + n = w
    OBVIOUS
  <2> QED BY <2>1, <2>2
<1>2. p \in Nat \ {0} /\ q \in Nat \ {0}
  BY PowerPositive
<1>3. r \in 0 .. q - 1 /\ a \in Int /\ x = q * a + r
  <2>1. x \in Int
    BY <1>1, <1>2
  <2> HIDE DEF q
  <2> QED BY <1>2, <2>1, Divides
<1> HIDE DEF p, q, r, a
<1>4. r * p \in 0 .. q * p - p
  <2>1. r * p <= (q - 1) * p /\ r * p >= 0
    BY <1>2, <1>3
  <2> QED BY <1>2, <1>3, <2>1
<1>5. x * p = (q * p) * a + r * p
  BY <1>2, <1>3
<1>6. (x * p) % (q * p) = r * p
  <2>1. q * p \in Nat \ {0} /\ r * p \in 0 .. q * p - 1 /\ x * p \in Int
    BY <1>1, <1>2, <1>3, <1>4
  <2> DEFINE P == q * p
             R0 == r * p
             X == x * p
  <2>2. P \in Nat \ {0} /\ R0 \in 0 .. P - 1 /\ X \in Int /\ X = P * a + R0
    BY <1>5, <2>1
  <2> HIDE DEF P, R0, X
  <2>3. X % P = R0
    BY <1>3, <2>2, DividesOnce
  <2> QED BY <2>3 DEF P, R0, X
<1>7. a \in 0 .. p - 1
  <2>1. q * a <= x /\ x < q * p /\ x < q * (a + 1) /\ 0 <= x
    BY <1>1, <1>2, <1>3
  <2>2. a < p
    BY <1>2, <1>3, <2>1
  <2>3. a + 1 > 0
    BY <1>2, <1>3, <2>1
  <2> QED BY <1>2, <1>3, <2>2, <2>3
<1> QED BY <1>1, <1>4, <1>6, <1>7 DEF p, q, r, a

LEMMA HalvesDisjoint ==
  ASSUME NEW w \in 0 .. 32, NEW n \in 0 .. w, NEW x \in 0 .. Pow(w) - 1
  PROVE  FromBits(w, AndBits(w, (x * Pow(n)) % Pow(w), x \div Pow(w - n))) = 0
<1> DEFINE h == (x * Pow(n)) % Pow(w)
           l == x \div Pow(w - n)
           r == x % Pow(w - n)
<1>1. h = r * Pow(n) /\ r * Pow(n) \in 0 .. Pow(w) - Pow(n) /\ l \in 0 .. Pow(n) - 1
  BY Halves
<1>2. r \in Int /\ l \in Int /\ h \in Int
  <2>1. Pow(w - n) \in Nat \ {0} /\ Pow(w) \in Nat \ {0} /\ Pow(n) \in Nat \ {0}
    BY PowerPositive
  <2>2. x \in Int
    BY <2>1
  <2>3. r \in Int
    BY <1>1, <2>1, <2>2
  <2>4. l \in Int
    BY <1>1, <2>1
  <2> HIDE DEF r, h, l
  <2>5. r * Pow(n) \in Int
    BY <2>1, <2>3
  <2> QED BY <1>1, <2>3, <2>4, <2>5
<1> HIDE DEF h, l, r
<1>3. ASSUME NEW k \in 0 .. w - 1 PROVE Bit(h, k) = 0 \/ Bit(l, k) = 0
  <2>1. CASE k < n
    <3>1. k \in 0 .. n - 1 /\ n \in 0 .. 32
      BY <2>1
    <3> QED BY <1>1, <1>2, <3>1, LowBitsZero
  <2>2. CASE k >= n
    <3>1. k \in n .. 32 /\ n \in 0 .. 32
      BY <2>2
    <3> QED BY <1>1, <3>1, HighBitsZero
  <2> QED BY <2>1, <2>2
<1>4. ASSUME NEW k \in 0 .. w - 1 PROVE AndBits(w, h, l)[k] = 0
  <2>1. AndBits(w, h, l)[k] \in {0, 1} /\ (AndBits(w, h, l)[k] = 1 <=> Bit(h, k) = 1 /\ Bit(l, k) = 1)
    BY <1>2, AndXorBits
  <2> QED BY <1>3, <2>1
<1>5. \A k \in 0 .. w - 1 : AndBits(w, h, l)[k] \in {0, 1}
  BY <1>4
<1>6. FromBits(w, AndBits(w, h, l)) = 0
  BY <1>4, <1>5, FromBitsZero
<1> QED BY <1>6 DEF h, l

LEMMA LowSame == ASSUME NEW s \in Sizes, NEW x \in 0 .. Mod(s) - 1 PROVE Low(s, x) = x
BY SizeFacts, Whole DEF Low

LEMMA LowOfWord ==
  ASSUME NEW s \in Sizes, NEW x \in Int
  PROVE  Low(s, x % Mod("word")) = Low(s, x)
<1>1. s = "byte" \/ s = "half" \/ s = "word"
  BY DEF Sizes
<1> QED BY <1>1, ModValues DEF Low

LEMMA WrapRange == ASSUME NEW x \in Int PROVE Wrap(x) \in Word
BY ModValues DEF Wrap, Word

Of(s) == 0 .. Mod(s) - 1

LEMMA AndIs == ASSUME NEW s, NEW x, NEW y PROVE BitAnd(s, x, y) = FromBits(Width(s), AndBits(Width(s), x, y))
BY Zenon DEF BitAnd, AndBits

LEMMA Logicals ==
  ASSUME NEW s \in Sizes, NEW x \in Of(s), NEW y \in Of(s)
  PROVE  /\ BitAnd(s, x, y) \in Of(s) /\ BitAnd(s, x, x) = x
         /\ BitOr(s, x, y) \in Of(s) /\ BitOr(s, x, y) >= y /\ BitOr(s, x, y) >= x
         /\ BitXor(s, x, y) \in Of(s)
         /\ BitNot(s, x) \in Of(s)
<1> DEFINE w == Width(s)
<1>1. w \in 0 .. 32 /\ Mod(s) = Pow(w) /\ Mod(s) \in Nat \ {0}
  BY SizeFacts
<1>2. /\ BitAnd(s, x, y) \in 0 .. x /\ BitAnd(s, x, y) <= y
      /\ x + y - BitAnd(s, x, y) <= Mod(s) - 1
  BY <1>1, AndIs, AndSums DEF Of
<1>3. BitAnd(s, x, x) = x
  BY <1>1, AndIs, AndSums DEF Of
<1>4. BitXor(s, x, y) \in Of(s)
  <2>1. BitXor(s, x, y) = FromBits(w, XorBits(w, x, y))
    BY Zenon DEF BitXor, XorBits
  <2>2. ASSUME NEW k \in 0 .. w - 1 PROVE XorBits(w, x, y)[k] \in {0, 1}
    <3>1. x \in Int /\ y \in Int
      BY <1>1 DEF Of
    <3> QED BY <1>1, <3>1, AndXorBits
  <2> HIDE DEF w
  <2> QED BY <1>1, <2>1, <2>2, FromBitsRange DEF Of
<1>5. BitNot(s, x) \in Of(s)
  BY <1>1 DEF BitNot, Of
<1> QED BY <1>1, <1>2, <1>3, <1>4, <1>5 DEF BitOr, Of

LEMMA AndBit ==
  ASSUME NEW s \in Sizes, NEW x \in Of(s), NEW n \in 0 .. Width(s) - 1
  PROVE  BitAnd(s, x, Pow(n)) = 0 <=> Bit(x, n) = 0
<1> DEFINE w == Width(s)
           b == AndBits(w, x, Pow(n))
<1>1. w \in 0 .. 32 /\ x \in Int /\ Pow(n) \in Int /\ n \in 0 .. 31
  BY SizeFacts, PowerPositive DEF Of
<1>2. ASSUME NEW k \in 0 .. w - 1
      PROVE  b[k] \in {0, 1} /\ (b[k] = 1 <=> k = n /\ Bit(x, k) = 1)
  <2>1. b[k] \in {0, 1} /\ (b[k] = 1 <=> Bit(x, k) = 1 /\ Bit(Pow(n), k) = 1)
    BY <1>1, AndXorBits
  <2>2. k \in 0 .. 31
    BY <1>1
  <2>3. Bit(Pow(n), k) = 1 <=> k = n
    BY <1>1, <2>2, OneBit
  <2> QED BY <2>1, <2>3
<1>3. BitAnd(s, x, Pow(n)) = FromBits(w, b)
  BY AndIs
<1>4. FromBits(w, b) = 0 <=> \A k \in 0 .. w - 1 : b[k] = 0
  <2> HIDE DEF b, w
  <2> QED BY <1>1, <1>2, FromBitsZero
<1>5. Bit(x, n) \in {0, 1}
  BY <1>1, BitValue
<1> HIDE DEF b, w
<1>6. n \in 0 .. w - 1
  BY DEF w
<1> QED BY <1>2, <1>3, <1>4, <1>5, <1>6

LEMMA Rotates ==
  ASSUME NEW s \in Sizes, NEW x \in Of(s), NEW n \in 0 .. Width(s)
  PROVE  LET h == Low(s, x * Pow(n))
             l == x \div Pow(Width(s) - n)
         IN  /\ h \in Of(s) /\ l \in Of(s) /\ h + l \in Of(s) /\ BitOr(s, h, l) = h + l
             /\ n = Width(s) => h = 0 /\ l = x
             /\ n = 0 => h = x /\ l = 0
<1> DEFINE w == Width(s)
           h == Low(s, x * Pow(n))
           l == x \div Pow(w - n)
<1>1. w \in 0 .. 32 /\ n \in 0 .. w /\ Mod(s) = Pow(w) /\ x \in 0 .. Pow(w) - 1
  BY SizeFacts DEF Of
<1>2. Pow(n) \in Nat \ {0} /\ Pow(w) \in Nat \ {0} /\ Pow(w - n) \in Nat \ {0} /\ n \in 0 .. 32
  BY <1>1, PowerPositive
<1>3. h = (x * Pow(n)) % Pow(w)
  BY <1>1 DEF Low
<1> HIDE DEF w
<1>4. /\ (x * Pow(n)) % Pow(w) \in 0 .. Pow(w) - Pow(n)
      /\ l \in 0 .. Pow(n) - 1
  BY <1>1, Halves
<1>5. FromBits(w, AndBits(w, (x * Pow(n)) % Pow(w), l)) = 0
  BY <1>1, HalvesDisjoint
<1>6. BitOr(s, h, l) = h + l - 0
  BY <1>3, <1>5, AndIs DEF BitOr, w
<1>7. Pow(n) <= Pow(w)
  BY <1>1, PowerGrows
<1>8. ASSUME n = w PROVE h = 0 /\ l = x
  <2>1. w - n = 0 /\ Pow(w - n) = 1
    BY <1>1, <1>8, Powers
  <2>2. h \in 0 .. Pow(w) - Pow(n)
    BY <1>3, <1>4
  <2> HIDE DEF h
  <2>3. h = 0
    BY <1>2, <1>8, <2>2
  <2> QED BY <1>1, <1>2, <2>1, <2>3
<1>9. ASSUME n = 0 PROVE h = x /\ l = 0
  <2>1. Pow(n) = 1 /\ w - n = w /\ x * Pow(n) = x
    BY <1>1, <1>2, <1>9, Powers
  <2> QED BY <1>1, <1>2, <1>3, <2>1, Whole
<1> HIDE DEF h, l
<1>10. h \in 0 .. Pow(w) - Pow(n) /\ l \in 0 .. Pow(n) - 1
  BY <1>3, <1>4
<1>11. h \in Of(s) /\ l \in Of(s) /\ h + l \in Of(s) /\ BitOr(s, h, l) = h + l
  BY <1>1, <1>2, <1>6, <1>7, <1>10 DEF Of
<1> QED BY <1>8, <1>9, <1>11 DEF h, l, w

(* Memory. *)
Memories == [Ram \cup Rom -> Byte]

LEMMA MappedCells ==
  ASSUME NEW a \in Word, NEW s \in Sizes, Mapped(a, s), NEW k \in 0 .. Bytes(s) - 1
  PROVE  a + k \in Ram \cup Rom
<1>1. a \in Nat /\ Bytes(s) \in {1, 2, 4}
  BY WordFacts, SizeFacts
<1> QED BY <1>1, MachineAssumption DEF Mapped, Ram, Rom

LEMMA MappedLess ==
  ASSUME NEW a \in Word, NEW s \in Sizes, Mapped(a, "word")
  PROVE  Mapped(a, s)
<1>1. a \in Nat /\ Bytes(s) \in {1, 2, 4} /\ Bytes("word") = 4
  BY WordFacts, SizeFacts DEF Bytes
<1> QED BY <1>1, MachineAssumption DEF Mapped

LEMMA Loads ==
  ASSUME NEW mem \in Memories, NEW a \in Word, NEW s \in Sizes, Mapped(a, s)
  PROVE  Load(mem, a, s) \in Of(s)
<1> DEFINE b == Mod("byte")
<1>0. a \in Nat
  BY WordFacts
<1>1. ASSUME NEW k \in 0 .. Bytes(s) - 1 PROVE mem[a + k] \in 0 .. b - 1
  BY MappedCells DEF Memories, Byte
<1>2. b \in {16, 256}
  BY ModValues
<1> HIDE DEF b
<1>3. CASE s = "byte"
  <2>1. mem[a] \in 0 .. b - 1
    <3>1. Bytes(s) = 1 /\ a + 0 = a
      BY <1>0, <1>3 DEF Bytes
    <3> QED BY <1>1, <3>1
  <2> QED BY <1>3, <2>1, Zenon DEF Load, Of, b
<1>4. CASE s = "half"
  <2>1. mem[a] \in 0 .. b - 1 /\ mem[a + 1] \in 0 .. b - 1
    <3>1. Bytes(s) = 2 /\ a + 0 = a
      BY <1>0, <1>4 DEF Bytes
    <3> QED BY <1>1, <3>1
  <2>2. Load(mem, a, s) = mem[a] + b * mem[a + 1]
    BY <1>4 DEF Load, b
  <2>3. Mod(s) = b * b
    BY <1>4, ModValues DEF b
  <2> QED BY <1>2, <2>1, <2>2, <2>3 DEF Of
<1>5. CASE s = "word"
  <2>1. /\ mem[a] \in 0 .. b - 1 /\ mem[a + 1] \in 0 .. b - 1
        /\ mem[a + 2] \in 0 .. b - 1 /\ mem[a + 3] \in 0 .. b - 1
    <3>1. Bytes(s) = 4 /\ a + 0 = a
      BY <1>0, <1>5 DEF Bytes
    <3> QED BY <1>1, <3>1
  <2>2. Load(mem, a, s) = mem[a] + b * (mem[a + 1] + b * (mem[a + 2] + b * mem[a + 3]))
    BY <1>5 DEF Load, b
  <2>3. Mod(s) = b * b * b * b
    BY <1>5, ModValues DEF b
  <2> QED BY <1>2, <2>1, <2>2, <2>3 DEF Of
<1> QED BY <1>3, <1>4, <1>5 DEF Sizes

LEMMA LoadLow ==
  ASSUME NEW mem \in Memories, NEW a \in Word, NEW s \in Sizes, Mapped(a, "word")
  PROVE  Low(s, Load(mem, a, "word")) = Load(mem, a, s)
<1> DEFINE b == Mod("byte")
<1>0. a \in Nat
  BY WordFacts
<1>1. /\ mem[a] \in 0 .. b - 1 /\ mem[a + 1] \in 0 .. b - 1
      /\ mem[a + 2] \in 0 .. b - 1 /\ mem[a + 3] \in 0 .. b - 1
  <2>1. ASSUME NEW k \in 0 .. 3 PROVE mem[a + k] \in 0 .. b - 1
    <3>1. k \in 0 .. Bytes("word") - 1
      BY DEF Bytes
    <3> QED BY <3>1, MappedCells, WordSize DEF Memories, Byte
  <2> HIDE DEF b
  <2> QED BY <1>0, <2>1
<1>2. b \in {16, 256} /\ Mod("half") = b * b /\ Mod("word") = b * b * b * b
  BY ModValues
<1>3. Load(mem, a, "word") = mem[a] + b * (mem[a + 1] + b * (mem[a + 2] + b * mem[a + 3]))
  BY DEF Load
<1>4. s = "byte" => Load(mem, a, s) = mem[a] /\ Low(s, Load(mem, a, "word")) = Load(mem, a, "word") % b
  BY DEF Load, Low
<1>5. s = "half" => /\ Load(mem, a, s) = mem[a] + b * mem[a + 1]
                    /\ Low(s, Load(mem, a, "word")) = Load(mem, a, "word") % (b * b)
  BY <1>2 DEF Load, Low
<1> HIDE DEF b
<1> DEFINE x == Load(mem, a, "word")
           q == mem[a + 2] + b * mem[a + 3]
           q1 == mem[a + 1] + b * (mem[a + 2] + b * mem[a + 3])
           r == mem[a] + b * mem[a + 1]
           p == b * b
<1>9. b \in Nat \ {0} /\ p \in Nat \ {0} /\ q \in Int /\ r \in 0 .. p - 1 /\ q1 \in Int
  BY <1>1, <1>2
<1>10. x = b * q1 + mem[a] /\ x = p * q + r /\ x \in Int
  BY <1>1, <1>2, <1>3
<1> HIDE DEF x, q, q1, r, p
<1>6. CASE s = "byte"
  <2>1. x % b = mem[a]
    BY <1>1, <1>9, <1>10, DividesOnce
  <2> QED BY <1>4, <1>6, <2>1 DEF x
<1>7. CASE s = "half"
  <2>1. x % p = r
    BY <1>9, <1>10, DividesOnce
  <2> QED BY <1>5, <1>7, <2>1 DEF x, p, r
<1>8. CASE s = "word"
  BY <1>8, Loads, LowSame, WordSize DEF Of
<1> QED BY <1>6, <1>7, <1>8 DEF Sizes

LEMMA Stores ==
  ASSUME NEW mem \in Memories, NEW a \in Int, NEW s \in Sizes, NEW v \in Int
  PROVE  Store(mem, a, s, v) \in Memories
<1>1. ASSUME NEW c \in a .. a + Bytes(s) - 1
      PROVE  (v \div Mod("byte") ^ (c - a)) % Mod("byte") \in Byte
  <2>1. c - a \in {0, 1, 2, 3}
    BY SizeFacts
  <2>2. Mod("byte") ^ (c - a) \in Nat \ {0}
    <3>1. Mod("byte") \in {16, 256}
      BY ModValues
    <3>2. BytePow(Mod("byte"), c - a) \in Nat \ {0}
      BY <2>1, <3>1, BytePowers
    <3> QED BY <3>2 DEF BytePow
  <2> HIDE DEF Byte
  <2>3. v \div Mod("byte") ^ (c - a) \in Int
    BY <2>2, Divides
  <2> QED BY <2>3, ModValues DEF Byte
<1> QED BY <1>1 DEF Store, Memories

-----------------------------------------------------------------------------
(* Machines. *)
LEMMA MachineFields ==
  ASSUME NEW m \in Machines
  PROVE  /\ m.ip \in Word /\ m.reg \in [Regs -> Word] /\ m.mem \in Memories
         /\ m.zero \in BOOLEAN /\ m.carry \in BOOLEAN /\ m.int \in BOOLEAN
         /\ m.halted \in BOOLEAN /\ m.dead \in BOOLEAN
         /\ m.io \in Seq({"in", "out"} \X Word \X Word)
BY DEF Machines, Memories

LEMMA WordNat == /\ \A x \in Word : x \in Nat /\ x \in Int
                 /\ \A s \in Sizes : \A x \in Of(s) : x \in Nat /\ x \in Int /\ x \in Word
<1>1. \A s \in Sizes : s = "byte" \/ s = "half" \/ s = "word"
  BY DEF Sizes
<1> QED BY <1>1, ModValues DEF Word, Of

LEMMA Updated ==
  ASSUME NEW m \in Machines
  PROVE  /\ \A a \in Word : [m EXCEPT !.ip = a] \in Machines
         /\ \A b \in BOOLEAN : /\ [m EXCEPT !.zero = b] \in Machines /\ [m EXCEPT !.carry = b] \in Machines
                               /\ [m EXCEPT !.int = b] \in Machines /\ [m EXCEPT !.halted = b] \in Machines
                               /\ [m EXCEPT !.dead = b] \in Machines
         /\ \A mem \in Memories : [m EXCEPT !.mem = mem] \in Machines
         /\ \A r \in Regs, x \in Word : [m EXCEPT !.reg[r] = x] \in Machines
         /\ \A k \in {"in", "out"}, x \in Word, y \in Word :
              [m EXCEPT !.io = Append(m.io, <<k, x, y>>)] \in Machines
<1>1. \A a \in Word : [m EXCEPT !.ip = a] \in Machines
  BY DEF Machines
<1>2. ASSUME NEW b \in BOOLEAN
      PROVE  /\ [m EXCEPT !.zero = b] \in Machines /\ [m EXCEPT !.carry = b] \in Machines
             /\ [m EXCEPT !.int = b] \in Machines /\ [m EXCEPT !.halted = b] \in Machines
             /\ [m EXCEPT !.dead = b] \in Machines
  BY DEF Machines
<1>3. \A mem \in Memories : [m EXCEPT !.mem = mem] \in Machines
  BY DEF Machines, Memories
<1>4. ASSUME NEW r \in Regs, NEW x \in Word PROVE [m EXCEPT !.reg[r] = x] \in Machines
  <2>1. [m.reg EXCEPT ![r] = x] \in [Regs -> Word]
    BY DEF Machines
  <2>2. [m EXCEPT !.reg = [m.reg EXCEPT ![r] = x]] \in Machines
    BY <2>1 DEF Machines
  <2> QED BY <2>2
<1>5. ASSUME NEW k \in {"in", "out"}, NEW x \in Word, NEW y \in Word
      PROVE  [m EXCEPT !.io = Append(m.io, <<k, x, y>>)] \in Machines
  <2> DEFINE E == {"in", "out"} \X Word \X Word
             io == Append(m.io, <<k, x, y>>)
  <2>1. m.io \in Seq(E) /\ <<k, x, y>> \in E
    BY DEF Machines
  <2>2. io \in Seq(E)
    <3> HIDE DEF E
    <3> QED BY <2>1
  <2> HIDE DEF io
  <2>3. [m EXCEPT !.io = io] \in Machines
    BY <2>2 DEF Machines
  <2> QED BY <2>3 DEF io
<1> QED BY <1>1, <1>2, <1>3, <1>4, <1>5

LEMMA StackRegs == "rsp" \in Regs /\ "r31" \in Regs
BY MachineAssumption

LEMMA Splices ==
  ASSUME NEW x \in Word, NEW s \in Sizes, NEW v \in Of(s)
  PROVE  Splice(x, s, v) \in Word
<1>1. s = "byte" \/ s = "half" \/ s = "word"
  BY DEF Sizes
<1> QED BY <1>1, ModValues DEF Splice, Low, Word, Of

(* A place an operand of size s can name. *)
IsPlace(m, o) ==
  /\ o.kind = "reg" => o.v \in Regs
  /\ o.kind # "reg" => Pointer(m, o) \in Word

LEMMA Puts ==
  ASSUME NEW m \in Machines, NEW o, IsPlace(m, o), NEW s \in Sizes, NEW v \in Of(s)
  PROVE  Put(m, o, s, v) \in Machines
<1>1. CASE o.kind = "reg"
  <2>1. Splice(m.reg[o.v], s, v) \in Word
    BY <1>1, MachineFields, Splices DEF IsPlace
  <2>2. o.v \in Regs
    BY <1>1 DEF IsPlace
  <2>3. [m EXCEPT !.reg[o.v] = Splice(m.reg[o.v], s, v)] \in Machines
    BY <2>1, <2>2, Updated
  <2> QED BY <1>1, <2>3 DEF Put
<1>2. CASE o.kind # "reg"
  <2>1. Pointer(m, o) \in Int /\ v \in Int
    BY <1>2, WordNat, SizeFacts DEF IsPlace, Of
  <2>2. Store(m.mem, Pointer(m, o), s, v) \in Memories
    BY <2>1, MachineFields, Stores
  <2>3. [m EXCEPT !.mem = Store(m.mem, Pointer(m, o), s, v)] \in Machines
    BY <2>2, Updated
  <2> QED BY <1>2, <2>3 DEF Put
<1> QED BY <1>1, <1>2

LEMMA Pops ==
  ASSUME NEW m \in Machines, NEW s \in Sizes
  PROVE  Popped(m, s) \in Machines /\ Pushed(m, s) \in Word
<1>1. m.reg["rsp"] \in Word /\ m.reg["rsp"] \in Int /\ Bytes(s) \in Int
  BY MachineFields, StackRegs, WordNat, SizeFacts
<1>2. Wrap(m.reg["rsp"] + Bytes(s)) \in Word /\ Wrap(m.reg["rsp"] - Bytes(s)) \in Word
  BY <1>1, WrapRange
<1>3. [m EXCEPT !.reg["rsp"] = Wrap(m.reg["rsp"] + Bytes(s))] \in Machines
  BY <1>2, StackRegs, Updated
<1> QED BY <1>2, <1>3 DEF Popped, Pushed

LEMMA Pushes ==
  ASSUME NEW m \in Machines, NEW s \in Sizes, NEW v \in Int
  PROVE  Push(m, s, v) \in Machines
<1>1. Pushed(m, s) \in Word /\ Pushed(m, s) \in Int
  BY Pops, WordNat
<1>2. Store(m.mem, Pushed(m, s), s, v) \in Memories
  BY <1>1, MachineFields, Stores
<1> DEFINE a == Pushed(m, s)
           mem == Store(m.mem, a, s, v)
<1>3. [m EXCEPT !.reg["rsp"] = a] \in Machines
  BY <1>1, StackRegs, Updated
<1>4. [[m EXCEPT !.reg["rsp"] = a] EXCEPT !.mem = mem] \in Machines
  BY <1>2, <1>3, Updated
<1>5. Push(m, s, v) = [[m EXCEPT !.reg["rsp"] = a] EXCEPT !.mem = mem]
  BY DEF Push, Machines
<1> QED BY <1>4, <1>5

LEMMA Flagged ==
  ASSUME NEW m \in Machines, NEW b
  PROVE  WithFlags(m, b) \in Machines
BY DEF WithFlags, Machines

(* Operands. *)
LEMMA OperandKinds ==
  ASSUME NEW s \in Sizes, NEW o \in Operands(s)
  PROVE  /\ o.kind \in {"reg", "regptr", "imm", "immptr"}
         /\ o.kind \in {"reg", "regptr"} => o.v \in Regs
         /\ o.kind = "imm" => o.v \in Of(s)
         /\ o.kind = "immptr" => o.v \in Word
BY DEF Operands, Of

LEMMA Points ==
  ASSUME NEW m \in Machines, NEW s \in Sizes, NEW o \in Operands(s)
  PROVE  /\ IsPointer(o) => Pointer(m, o) \in Word
         /\ o.kind # "imm" => IsPlace(m, o)
         /\ IsPlace(m, o)
BY OperandKinds, MachineFields, WordNat DEF IsPointer, Pointer, IsPlace, Of

LEMMA Values ==
  ASSUME NEW m \in Machines, NEW s \in Sizes, NEW o \in Operands(s),
         NEW t \in Sizes, t = s \/ o.kind # "imm", IsPointer(o) => Mapped(Pointer(m, o), t)
  PROVE  Value(m, o, t) \in Of(t)
<1>1. CASE o.kind = "reg"
  <2>1. m.reg[o.v] \in Int
    BY <1>1, OperandKinds, MachineFields, WordNat
  <2> QED BY <1>1, <2>1, LowRange DEF Value, Of
<1>2. CASE o.kind = "imm"
  BY <1>2, OperandKinds DEF Value
<1>3. CASE IsPointer(o)
  <2>1. Pointer(m, o) \in Word
    BY <1>3, Points
  <2>2. Load(m.mem, Pointer(m, o), t) \in Of(t)
    BY <1>3, <2>1, MachineFields, Loads
  <2> QED BY <1>3, <2>2 DEF Value, IsPointer
<1> QED BY <1>1, <1>2, <1>3, OperandKinds DEF IsPointer

-----------------------------------------------------------------------------
(* The machine of cpu.rs and the one of fox32.c are made of the same parts. *)
LEMMA SameSizes ==
  ASSUME NEW s
  PROVE  /\ R!Bytes(s) = Bytes(s) /\ R!Width(s) = Width(s) /\ R!Mod(s) = Mod(s)
         /\ C!Bytes(s) = Bytes(s) /\ C!Width(s) = Width(s) /\ C!Mod(s) = Mod(s)
BY DEF Bytes, R!Bytes, C!Bytes, Width, R!Width, C!Width, Mod, R!Mod, C!Mod

LEMMA SameNumbersAt ==
  ASSUME NEW s, NEW x, NEW y
  PROVE  /\ R!Wrap(x) = Wrap(x) /\ R!Low(s, x) = Low(s, x) /\ R!Splice(x, s, y) = Splice(x, s, y)
         /\ C!Wrap(x) = Wrap(x) /\ C!Low(s, x) = Low(s, x) /\ C!Splice(x, s, y) = Splice(x, s, y)
         /\ R!Bit(x, y) = Bit(x, y) /\ R!BitNot(s, x) = BitNot(s, x)
         /\ C!Bit(x, y) = Bit(x, y) /\ C!BitNot(s, x) = BitNot(s, x)
         /\ C!Signed(s, x) = Signed(s, x)
BY SameSizes DEF Wrap, R!Wrap, C!Wrap, Low, R!Low, C!Low, Splice, R!Splice, C!Splice,
   Bit, R!Bit, C!Bit, BitNot, R!BitNot, C!BitNot, Signed, C!Signed

LEMMA SameNumbers ==
  /\ \A x : R!Wrap(x) = Wrap(x) /\ C!Wrap(x) = Wrap(x)
  /\ \A s, x : R!Low(s, x) = Low(s, x) /\ C!Low(s, x) = Low(s, x)
  /\ \A x, s, y : R!Splice(x, s, y) = Splice(x, s, y) /\ C!Splice(x, s, y) = Splice(x, s, y)
  /\ \A x, k : R!Bit(x, k) = Bit(x, k) /\ C!Bit(x, k) = Bit(x, k)
  /\ \A s, x : R!BitNot(s, x) = BitNot(s, x) /\ C!BitNot(s, x) = BitNot(s, x)
  /\ \A s, x : C!Signed(s, x) = Signed(s, x)
BY SameNumbersAt, Zenon

LEMMA SameFromBits ==
  ASSUME NEW w, NEW b
  PROVE  R!FromBits(w, b) = FromBits(w, b) /\ C!FromBits(w, b) = FromBits(w, b)
BY DEF FromBits, R!FromBits, C!FromBits

LEMMA SameLogicals ==
  ASSUME NEW s, NEW x, NEW y
  PROVE  /\ R!BitAnd(s, x, y) = BitAnd(s, x, y) /\ R!BitXor(s, x, y) = BitXor(s, x, y)
         /\ C!BitAnd(s, x, y) = BitAnd(s, x, y) /\ C!BitXor(s, x, y) = BitXor(s, x, y)
         /\ R!BitOr(s, x, y) = BitOr(s, x, y) /\ C!BitOr(s, x, y) = BitOr(s, x, y)
<1>1. /\ R!BitAnd(s, x, y) = BitAnd(s, x, y) /\ C!BitAnd(s, x, y) = BitAnd(s, x, y)
  BY SameSizes, SameNumbers, SameFromBits DEF BitAnd, R!BitAnd, C!BitAnd, Bit, R!Bit, C!Bit
<1>2. /\ R!BitXor(s, x, y) = BitXor(s, x, y) /\ C!BitXor(s, x, y) = BitXor(s, x, y)
  BY SameSizes, SameNumbers, SameFromBits DEF BitXor, R!BitXor, C!BitXor, Bit, R!Bit, C!Bit
<1> QED BY <1>1, <1>2 DEF BitOr, R!BitOr, C!BitOr

LEMMA SameMemoryAt ==
  ASSUME NEW mem, NEW a, NEW s, NEW v
  PROVE  /\ R!Mapped(a, s) = Mapped(a, s) /\ C!Mapped(a, s) = Mapped(a, s)
         /\ R!Load(mem, a, s) = Load(mem, a, s) /\ C!Load(mem, a, s) = Load(mem, a, s)
         /\ R!Store(mem, a, s, v) = Store(mem, a, s, v)
         /\ C!Store(mem, a, s, v) = Store(mem, a, s, v)
<1>1. R!Mapped(a, s) = Mapped(a, s) /\ C!Mapped(a, s) = Mapped(a, s)
  BY SameSizes DEF Mapped, R!Mapped, C!Mapped
<1>2. R!Load(mem, a, s) = Load(mem, a, s) /\ C!Load(mem, a, s) = Load(mem, a, s)
  BY SameSizes DEF Load, R!Load, C!Load
<1>3. R!Store(mem, a, s, v) = Store(mem, a, s, v) /\ C!Store(mem, a, s, v) = Store(mem, a, s, v)
  BY SameSizes DEF Store, R!Store, C!Store, Ram, R!Ram, C!Ram, Rom, R!Rom, C!Rom
<1> QED BY <1>1, <1>2, <1>3

LEMMA SameMemory ==
  /\ \A a, s : R!Mapped(a, s) = Mapped(a, s) /\ C!Mapped(a, s) = Mapped(a, s)
  /\ \A mem, a, s : R!Load(mem, a, s) = Load(mem, a, s) /\ C!Load(mem, a, s) = Load(mem, a, s)
  /\ \A mem, a, s, v : /\ R!Store(mem, a, s, v) = Store(mem, a, s, v)
                        /\ C!Store(mem, a, s, v) = Store(mem, a, s, v)
BY SameMemoryAt, Zenon

LEMMA SameOperandsAt ==
  ASSUME NEW m, NEW o, NEW s, NEW v
  PROVE  /\ R!IsPointer(o) = IsPointer(o) /\ C!IsPointer(o) = IsPointer(o)
         /\ R!Pointer(m, o) = Pointer(m, o) /\ C!Pointer(m, o) = Pointer(m, o)
         /\ R!Value(m, o, s) = Value(m, o, s) /\ C!Value(m, o, s) = Value(m, o, s)
         /\ R!Put(m, o, s, v) = Put(m, o, s, v) /\ C!Put(m, o, s, v) = Put(m, o, s, v)
<1>1. /\ R!IsPointer(o) = IsPointer(o) /\ C!IsPointer(o) = IsPointer(o)
      /\ R!Pointer(m, o) = Pointer(m, o) /\ C!Pointer(m, o) = Pointer(m, o)
  BY DEF IsPointer, R!IsPointer, C!IsPointer, Pointer, R!Pointer, C!Pointer
<1>2. R!Value(m, o, s) = Value(m, o, s) /\ C!Value(m, o, s) = Value(m, o, s)
  BY <1>1, SameNumbers, SameMemory, Zenon DEF Value, R!Value, C!Value
<1>3. R!Put(m, o, s, v) = Put(m, o, s, v) /\ C!Put(m, o, s, v) = Put(m, o, s, v)
  <2>1. /\ R!Splice(m.reg[o.v], s, v) = Splice(m.reg[o.v], s, v)
        /\ C!Splice(m.reg[o.v], s, v) = Splice(m.reg[o.v], s, v)
        /\ R!Store(m.mem, Pointer(m, o), s, v) = Store(m.mem, Pointer(m, o), s, v)
        /\ C!Store(m.mem, Pointer(m, o), s, v) = Store(m.mem, Pointer(m, o), s, v)
    BY SameNumbers, SameMemory
  <2> QED BY <1>1, <2>1, Zenon DEF Put, R!Put, C!Put
<1> QED BY <1>1, <1>2, <1>3

LEMMA SameOperands ==
  /\ \A o : R!IsPointer(o) = IsPointer(o) /\ C!IsPointer(o) = IsPointer(o)
  /\ \A m, o : R!Pointer(m, o) = Pointer(m, o) /\ C!Pointer(m, o) = Pointer(m, o)
  /\ \A m, o, s : R!Value(m, o, s) = Value(m, o, s) /\ C!Value(m, o, s) = Value(m, o, s)
  /\ \A m, o, s, v : R!Put(m, o, s, v) = Put(m, o, s, v) /\ C!Put(m, o, s, v) = Put(m, o, s, v)
BY SameOperandsAt, Zenon

LEMMA SameStackAt ==
  ASSUME NEW m, NEW s, NEW v
  PROVE  /\ R!Pushed(m, s) = Pushed(m, s) /\ C!Pushed(m, s) = Pushed(m, s)
         /\ R!Push(m, s, v) = Push(m, s, v) /\ C!Push(m, s, v) = Push(m, s, v)
         /\ R!Popped(m, s) = Popped(m, s) /\ C!Popped(m, s) = Popped(m, s)
         /\ R!Top(m, s) = Top(m, s) /\ C!Top(m, s) = Top(m, s)
         /\ R!FlagsByte(m) = FlagsByte(m) /\ C!FlagsByte(m) = FlagsByte(m)
         /\ R!WithFlags(m, v) = WithFlags(m, v) /\ C!WithFlags(m, v) = WithFlags(m, v)
<1>1. R!Pushed(m, s) = Pushed(m, s) /\ C!Pushed(m, s) = Pushed(m, s)
  BY SameSizes, SameNumbers DEF Pushed, R!Pushed, C!Pushed
<1>2. R!Push(m, s, v) = Push(m, s, v) /\ C!Push(m, s, v) = Push(m, s, v)
  <2>1. /\ R!Store(m.mem, Pushed(m, s), s, v) = Store(m.mem, Pushed(m, s), s, v)
        /\ C!Store(m.mem, Pushed(m, s), s, v) = Store(m.mem, Pushed(m, s), s, v)
    BY SameMemory
  <2> QED BY <1>1, <2>1, Zenon DEF Push, R!Push, C!Push
<1>3. R!Popped(m, s) = Popped(m, s) /\ C!Popped(m, s) = Popped(m, s)
  <2>1. /\ R!Wrap(m.reg["rsp"] + Bytes(s)) = Wrap(m.reg["rsp"] + Bytes(s))
        /\ C!Wrap(m.reg["rsp"] + Bytes(s)) = Wrap(m.reg["rsp"] + Bytes(s))
        /\ R!Bytes(s) = Bytes(s) /\ C!Bytes(s) = Bytes(s)
    BY SameSizes, SameNumbers
  <2> QED BY <2>1, Zenon DEF Popped, R!Popped, C!Popped
<1>4. R!Top(m, s) = Top(m, s) /\ C!Top(m, s) = Top(m, s)
  BY SameMemory DEF Top, R!Top, C!Top
<1>5. R!FlagsByte(m) = FlagsByte(m) /\ C!FlagsByte(m) = FlagsByte(m)
  BY DEF FlagsByte, R!FlagsByte, C!FlagsByte, Flag, R!Flag, C!Flag
<1>6. R!WithFlags(m, v) = WithFlags(m, v) /\ C!WithFlags(m, v) = WithFlags(m, v)
  <2>1. ASSUME NEW k PROVE R!Bit(v, k) = Bit(v, k) /\ C!Bit(v, k) = Bit(v, k)
    BY SameNumbers
  <2> QED BY <2>1, Zenon DEF WithFlags, R!WithFlags, C!WithFlags
<1> QED BY <1>1, <1>2, <1>3, <1>4, <1>5, <1>6
LEMMA SameStack ==
  /\ \A m, s : R!Pushed(m, s) = Pushed(m, s) /\ C!Pushed(m, s) = Pushed(m, s)
  /\ \A m, s, v : R!Push(m, s, v) = Push(m, s, v) /\ C!Push(m, s, v) = Push(m, s, v)
  /\ \A m, s : R!Popped(m, s) = Popped(m, s) /\ C!Popped(m, s) = Popped(m, s)
  /\ \A m, s : R!Top(m, s) = Top(m, s) /\ C!Top(m, s) = Top(m, s)
  /\ \A m : R!FlagsByte(m) = FlagsByte(m) /\ C!FlagsByte(m) = FlagsByte(m)
  /\ \A m, v : R!WithFlags(m, v) = WithFlags(m, v) /\ C!WithFlags(m, v) = WithFlags(m, v)
BY SameStackAt, Zenon

-----------------------------------------------------------------------------
LEMMA InstructionFacts ==
  ASSUME NEW i \in Instructions
  PROVE  /\ i.size \in Sizes /\ i.cond \in Conds
         /\ \/ i.op \in ZeroOps /\ i.src = None /\ i.dst = None
            \/ i.op \in OneOps /\ i.src \in Operands(i.size) /\ i.dst = None
            \/ i.op \in TwoOps /\ i.src \in Operands(i.size) /\ i.dst \in Operands(i.size)
<1>1. /\ i.size \in Sizes /\ i.cond \in Conds
      /\ \/ i.op \in ZeroOps /\ i.src = None /\ i.dst = None
         \/ i.op \in OneOps /\ i.src \in Operands("word") /\ i.dst = None
         \/ i.op \in TwoOps /\ i.src \in Operands("word") /\ i.dst \in Operands("word")
  BY DEF Instructions
<1>2. i.src \in Operands(i.size) \cup {None} /\ i.dst \in Operands(i.size) \cup {None}
  BY DEF Instructions
<1>3. None \notin Operands("word")
  BY DEF None, Operands
<1> QED BY <1>1, <1>2, <1>3

LEMMA OperatorsApart ==
  ASSUME NEW i \in Instructions
  PROVE  /\ i.op \in TwoOps => i.src \in Operands(i.size) /\ i.dst \in Operands(i.size)
         /\ i.op \in OneOps => i.src \in Operands(i.size)
BY InstructionFacts DEF ZeroOps, OneOps, TwoOps, ShiftOps, SignedOps

Passed(m, i) == [m EXCEPT !.ip = Wrap(@ + AssembledLength(i))]
Died(m) == [m EXCEPT !.dead = TRUE]
Gets(m, i, o, v, z, c) == [Put(Passed(m, i), o, i.size, v) EXCEPT !.zero = z, !.carry = c]

LEMMA LengthNat == ASSUME NEW i \in Instructions PROVE AssembledLength(i) \in Nat
<1>1. ASSUME NEW o PROVE Emitted(o, i.size) \in Nat
  <2>1. i.size \in Sizes /\ Bytes(i.size) \in Nat
    BY InstructionFacts, SizeFacts
  <2>2. Emitted(o, i.size) = (CASE o.kind \in {"reg", "regptr"} -> 1
    [] o.kind = "imm" -> Bytes(i.size)
    [] o.kind = "immptr" -> 4
    [] OTHER -> 0)
    BY DEF Emitted
  <2> QED BY <2>1, <2>2
<1> QED BY <1>1 DEF AssembledLength

LEMMA PassedTyped ==
  ASSUME NEW m \in Machines, NEW i \in Instructions
  PROVE  Passed(m, i) \in Machines /\ Died(m) \in Machines
<1>1. Wrap(m.ip + AssembledLength(i)) \in Word
  BY LengthNat, MachineFields, WordNat, WrapRange
<1> QED BY <1>1, Updated DEF Passed, Died

LEMMA PassedFields ==
  ASSUME NEW m \in Machines, NEW i \in Instructions
  PROVE  /\ Passed(m, i).reg = m.reg /\ Passed(m, i).mem = m.mem
         /\ Passed(m, i).zero = m.zero /\ Passed(m, i).carry = m.carry /\ Passed(m, i).int = m.int
         /\ Passed(m, i).halted = m.halted /\ Passed(m, i).dead = m.dead /\ Passed(m, i).io = m.io
         /\ Passed(m, i).ip = Wrap(m.ip + AssembledLength(i))
         /\ \A o : Pointer(Passed(m, i), o) = Pointer(m, o)
BY DEF Passed, Machines, Pointer

LEMMA GetsTyped ==
  ASSUME NEW m \in Machines, NEW i \in Instructions, NEW o \in Operands(i.size),
         NEW v \in Of(i.size), NEW z \in BOOLEAN, NEW c \in BOOLEAN
  PROVE  Gets(m, i, o, v, z, c) \in Machines
<1>1. Passed(m, i) \in Machines
  BY PassedTyped
<1>2. i.size \in Sizes
  BY InstructionFacts
<1>3. Put(Passed(m, i), o, i.size, v) \in Machines
  BY <1>1, <1>2, Points, Puts
<1> QED BY <1>3 DEF Gets, Machines
-----------------------------------------------------------------------------
(* cpu.rs: what its arms are made of, in terms of the machine. *)

LEMMA RustParts ==
  ASSUME NEW i
  PROVE  /\ R!Advanced(i) = Passed(rust, i)
         /\ \A r : R!Writes(i, r) = Gets(rust, i, i.dst, r.v, r.zero, r.carry)
         /\ \A r : R!Replaces(i, r) = Gets(rust, i, i.src, r.v, r.zero, r.carry)
         /\ \A r : R!Tests(i, r) = [Passed(rust, i) EXCEPT !.zero = r.zero, !.carry = r.carry]
<1>1. R!Advanced(i) = Passed(rust, i)
  BY SameLength, SameNumbers DEF R!Advanced, Passed
<1>2. ASSUME NEW r PROVE R!Writes(i, r) = Gets(rust, i, i.dst, r.v, r.zero, r.carry)
  <2> DEFINE m == Passed(rust, i)
  <2>1. R!Put(m, i.dst, i.size, r.v) = Put(m, i.dst, i.size, r.v)
    BY SameOperands
  <2> HIDE DEF m
  <2> QED BY <1>1, <2>1 DEF R!Writes, R!WithResult, Gets, m
<1>3. ASSUME NEW r PROVE R!Replaces(i, r) = Gets(rust, i, i.src, r.v, r.zero, r.carry)
  <2> DEFINE m == Passed(rust, i)
  <2>1. R!Put(m, i.src, i.size, r.v) = Put(m, i.src, i.size, r.v)
    BY SameOperands
  <2> HIDE DEF m
  <2> QED BY <1>1, <2>1 DEF R!Replaces, R!WithResult, Gets, m
<1>4. ASSUME NEW r PROVE R!Tests(i, r) = [Passed(rust, i) EXCEPT !.zero = r.zero, !.carry = r.carry]
  BY <1>1, Zenon DEF R!Tests, R!WithResult
<1> QED BY <1>1, <1>2, <1>3, <1>4

(* The values of the operands. *)
Src(m, i) == Value(m, i.src, i.size)
Dst(m, i) == Value(m, i.dst, i.size)
Reach(m, o, s) == IsPointer(o) => Mapped(Pointer(m, o), s)

LEMMA RustSource ==
  ASSUME rust \in Machines, NEW i \in Instructions, i.src \in Operands(i.size), R!SourceMapped(i)
  PROVE  /\ Reach(rust, i.src, i.size)
         /\ R!Source(i) \in Word
         /\ R!S(i) = Src(rust, i) /\ Src(rust, i) \in Of(i.size)
         /\ i.size = "word" => R!Source(i) = Src(rust, i)
         /\ Low(i.size, R!Source(i)) = Src(rust, i)
<1> DEFINE t == R!SourceSize(i)
<1>1. i.size \in Sizes /\ t \in Sizes /\ (t = i.size \/ i.src.kind # "imm") /\ t \in {"word", i.size}
      /\ (i.size = "word" => t = "word")
  BY InstructionFacts, WordSize DEF R!SourceSize
<1>2. IsPointer(i.src) => Mapped(Pointer(rust, i.src), t)
  BY SameOperands, SameMemory DEF R!SourceMapped
<1>3. R!Source(i) = Value(rust, i.src, t)
  BY SameOperands DEF R!Source
<1>4. Value(rust, i.src, t) \in Of(t)
  <2> HIDE DEF t
  <2> QED BY <1>1, <1>2, Values
<1>5. R!Source(i) \in Word /\ R!Source(i) \in Int
  BY <1>1, <1>3, <1>4, WordNat
<1>6. IsPointer(i.src) => Pointer(rust, i.src) \in Word
  BY <1>1, Points
<1>7. Reach(rust, i.src, i.size)
  BY <1>1, <1>2, <1>6, MappedLess DEF Reach
<1>8. Src(rust, i) \in Of(i.size)
  BY <1>1, <1>7, Values DEF Src, Reach
<1>9. R!S(i) = Low(i.size, R!Source(i))
  BY SameNumbers DEF R!S
<1>10. Low(i.size, R!Source(i)) = Src(rust, i)
  <2>1. CASE t = i.size
    BY <1>1, <1>3, <1>4, <2>1, LowSame DEF Src, Of
  <2>2. CASE i.src.kind = "reg" /\ t = "word"
    <3>1. R!Source(i) = rust.reg[i.src.v] % Mod("word") /\ Src(rust, i) = Low(i.size, rust.reg[i.src.v])
      BY <1>3, <2>2 DEF Value, Src, Low
    <3>2. rust.reg[i.src.v] \in Int
      BY <1>1, <2>2, OperandKinds, MachineFields, WordNat
    <3> QED BY <1>1, <3>1, <3>2, LowOfWord
  <2>3. CASE i.src.kind = "regptr" /\ t = "word"
    <3>1. R!Source(i) = Load(rust.mem, Pointer(rust, i.src), "word")
      BY <1>3, <2>3 DEF Value
    <3>2. Src(rust, i) = Load(rust.mem, Pointer(rust, i.src), i.size)
      BY <2>3 DEF Value, Src
    <3>3. Mapped(Pointer(rust, i.src), "word") /\ Pointer(rust, i.src) \in Word
      BY <1>2, <1>6, <2>3 DEF IsPointer
    <3> QED BY <1>1, <3>1, <3>2, <3>3, MachineFields, LoadLow
  <2> QED BY <2>1, <2>2, <2>3 DEF R!SourceSize
<1> HIDE DEF t
<1> QED BY <1>1, <1>3, <1>5, <1>7, <1>8, <1>9, <1>10 DEF Src

LEMMA RustDest ==
  ASSUME rust \in Machines, NEW i \in Instructions, i.dst \in Operands(i.size)
  PROVE  /\ R!DestMapped(i) = Reach(rust, i.dst, i.size) /\ R!D(i) = Dst(rust, i)
         /\ R!DestMapped(i) => Dst(rust, i) \in Of(i.size)
<1>1. R!DestMapped(i) = Reach(rust, i.dst, i.size) /\ R!D(i) = Dst(rust, i)
  BY SameOperands, SameMemory DEF R!DestMapped, R!D, Reach, Dst
<1>2. R!DestMapped(i) => Dst(rust, i) \in Of(i.size)
  BY <1>1, InstructionFacts, Values DEF Reach, Dst
<1> QED BY <1>1, <1>2

-----------------------------------------------------------------------------
(* A result that can be put into an operand of size s. *)
Fits(s, r) == r.v \in Of(s) /\ r.zero \in BOOLEAN /\ r.carry \in BOOLEAN

LEMMA RustResults ==
  ASSUME rust \in Machines, NEW s \in Sizes, NEW x, NEW b \in BOOLEAN
  PROVE  /\ x \in Int => Fits(s, R!Arithmetic(s, x))
         /\ x \in Of(s) => Fits(s, R!Logical(x)) /\ Fits(s, R!Quiet(x)) /\ Fits(s, R!Shifted(x, b))
<1>1. ASSUME x \in Int PROVE Fits(s, R!Arithmetic(s, x))
  <2>1. R!Low(s, x) \in Of(s)
    BY <1>1, SameNumbers, LowRange DEF Of
  <2> QED BY <2>1 DEF R!Arithmetic, Fits
<1>2. rust.carry \in BOOLEAN /\ rust.zero \in BOOLEAN
  BY MachineFields
<1>3. ASSUME x \in Of(s)
      PROVE  Fits(s, R!Logical(x)) /\ Fits(s, R!Quiet(x)) /\ Fits(s, R!Shifted(x, b))
  BY <1>2, <1>3 DEF R!Logical, R!Quiet, R!Shifted, Fits
<1> QED BY <1>1, <1>3

LEMMA Halved ==
  ASSUME NEW s \in Sizes, NEW x \in Of(s), NEW p \in Nat \ {0}
  PROVE  x \div p \in Of(s) /\ x % p \in Of(s)
<1>1. x \in Nat /\ Mod(s) \in Nat
  BY SizeFacts, WordNat
<1>2. x % p \in 0 .. p - 1 /\ x \div p \in Int /\ x = p * (x \div p) + (x % p)
  BY <1>1, Divides
<1> DEFINE q == x \div p
           r == x % p
<1> HIDE DEF q, r
<1>3. q >= 0 /\ q <= x /\ r <= x
  <2>1. r \in 0 .. p - 1 /\ q \in Int /\ x = p * q + r
    BY <1>2 DEF q, r
  <2>2. q > -1
    BY <1>1, <2>1
  <2>3. p * q >= q
    BY <2>1, <2>2
  <2> QED BY <1>1, <2>1, <2>2, <2>3
<1>4. q \in Of(s) /\ r \in Of(s)
  BY <1>1, <1>2, <1>3 DEF Of, q, r
<1> QED BY <1>4 DEF q, r

LEMMA RustShifts ==
  ASSUME NEW s \in Sizes, NEW x \in Of(s), NEW n \in 0 .. Width(s)
  PROVE  /\ R!Left(s, x, n) = Low(s, x * Pow(n)) /\ R!Right(x, n) = x \div Pow(n)
         /\ R!RotateLeft(s, x, n) = Low(s, x * Pow(n)) + x \div Pow(Width(s) - n)
         /\ R!Left(s, x, n) \in Of(s) /\ R!Right(x, n) \in Of(s) /\ R!RotateLeft(s, x, n) \in Of(s)
<1>1. n \in 0 .. 32 /\ Pow(n) \in Nat \ {0} /\ x \in Int
  BY SizeFacts, PowerPositive, WordNat
<1>2. R!Left(s, x, n) = Low(s, x * Pow(n))
  BY SameNumbers DEF R!Left, Pow
<1>3. ASSUME NEW k PROVE R!Right(x, k) = x \div Pow(k)
  BY DEF R!Right, Pow
<1>4. R!RotateLeft(s, x, n) = Low(s, x * Pow(n)) + x \div Pow(Width(s) - n)
  BY <1>2, <1>3, SameSizes DEF R!RotateLeft
<1>5. x \div Pow(n) \in Of(s)
  BY <1>1, Halved
<1>6. Low(s, x * Pow(n)) \in Of(s) /\ Low(s, x * Pow(n)) + x \div Pow(Width(s) - n) \in Of(s)
  BY Rotates
<1> QED BY <1>2, <1>3, <1>4, <1>5, <1>6

LEMMA RustCounts ==
  ASSUME rust \in Machines, NEW i \in Instructions, R!Source(i) \in Word
  PROVE  /\ R!Count(i) \in 0 .. Width(i.size) - 1
         /\ (Width(i.size) - R!Count(i)) % Width(i.size) \in 0 .. Width(i.size) - 1
         /\ R!Width(i.size) = Width(i.size)
         /\ R!TopBit(i) \in BOOLEAN /\ R!BottomBit(i) \in BOOLEAN
         /\ Pow(R!Count(i)) \in Of(i.size) /\ 2 ^ R!Count(i) = Pow(R!Count(i)) /\ Pow(R!Count(i)) \in Nat \ {0}
<1> DEFINE w == Width(i.size)
           n == R!Count(i)
<1>1. i.size \in Sizes /\ w \in {4, 8, 16, 32} /\ Mod(i.size) = Pow(w) /\ R!Source(i) \in Int
  BY InstructionFacts, SizeFacts, WordNat
<1>2. R!Width(i.size) = w
  BY SameSizes
<1>3. n = R!Source(i) % w
  BY <1>2 DEF R!Count
<1> HIDE DEF w, n
<1>4. n \in 0 .. w - 1
  BY <1>1, <1>3
<1>5. (w - n) % w \in 0 .. w - 1
  BY <1>1, <1>4
<1>6. Pow(n) \in Nat \ {0} /\ Pow(n + 1) = 2 * Pow(n) /\ Pow(n + 1) <= Pow(w) /\ Pow(w) \in Nat
  <2>1. n \in 0 .. 31 /\ n + 1 \in 0 .. 32 /\ w \in n + 1 .. 32 /\ w \in 0 .. 32
    BY <1>1, <1>4
  <2>2. Pow(n) \in Nat \ {0} /\ Pow(w) \in Nat
    BY <2>1, PowerPositive
  <2>3. Pow(n + 1) = 2 * Pow(n)
    BY <2>1, PowerStep
  <2>4. Pow(n + 1) <= Pow(w)
    BY <2>1, PowerGrows
  <2> QED BY <2>2, <2>3, <2>4
<1>7. Pow(n) \in Of(i.size)
  BY <1>1, <1>6 DEF Of
<1> QED BY <1>2, <1>4, <1>5, <1>6, <1>7 DEF w, n, R!TopBit, R!BottomBit, Pow

(* The result an arm with a destination and a source writes. *)
RustResult(i) ==
  CASE i.op = "add" -> R!Arithmetic(i.size, Dst(rust, i) + Src(rust, i))
    [] i.op = "sub" -> R!Arithmetic(i.size, Dst(rust, i) - Src(rust, i))
    [] i.op = "mul" -> R!Arithmetic(i.size, Dst(rust, i) * Src(rust, i))
    [] i.op = "div" -> R!Logical(Dst(rust, i) \div Src(rust, i))
    [] i.op = "rem" -> R!Logical(Dst(rust, i) % Src(rust, i))
    [] i.op = "and" -> R!Logical(BitAnd(i.size, Dst(rust, i), Src(rust, i)))
    [] i.op = "or" -> R!Logical(BitOr(i.size, Dst(rust, i), Src(rust, i)))
    [] i.op = "xor" -> R!Logical(BitXor(i.size, Dst(rust, i), Src(rust, i)))
    [] i.op = "sla" -> R!Shifted(R!Left(i.size, Dst(rust, i), R!Count(i)), R!TopBit(i))
    [] i.op \in {"srl", "sra"} -> R!Shifted(R!Right(Dst(rust, i), R!Count(i)), R!BottomBit(i))
    [] i.op = "rol" -> R!Shifted(R!RotateLeft(i.size, Dst(rust, i), R!Count(i)), R!TopBit(i))
    [] i.op = "ror" -> R!Shifted(R!RotateLeft(i.size, Dst(rust, i),
                                   (Width(i.size) - R!Count(i)) % Width(i.size)), R!BottomBit(i))
    [] i.op = "bse" -> R!Quiet(BitOr(i.size, Dst(rust, i), 2 ^ R!Count(i)))
    [] i.op = "bcl" -> R!Quiet(BitAnd(i.size, Dst(rust, i), BitNot(i.size, 2 ^ R!Count(i))))

Binaries == {"add", "sub", "mul", "div", "rem", "and", "or", "xor",
             "sla", "srl", "sra", "rol", "ror", "bse", "bcl"}
RustBinaries(i) ==
  \/ R!Add(i) \/ R!Sub(i) \/ R!Mul(i) \/ R!Div(i) \/ R!Rem(i) \/ R!And(i) \/ R!Or(i) \/ R!Xor(i)
  \/ R!Sla(i) \/ R!Srl(i) \/ R!Sra(i) \/ R!Rol(i) \/ R!Ror(i) \/ R!Bse(i) \/ R!Bcl(i)

LEMMA RustBinaryArms ==
  ASSUME rust \in Machines, NEW i \in Instructions, RustBinaries(i)
  PROVE  /\ i.op \in Binaries
         /\ R!SourceMapped(i) => \/ i.op \notin {"div", "rem"} /\ R!Binary(i, R!Writes(i, RustResult(i)))
                                 \/ i.op \in {"div", "rem"} /\ R!Division(i, R!Writes(i, RustResult(i)))
         /\ ~R!SourceMapped(i) => rust' = Died(rust)
<1>1. i.op \in Binaries
  BY DEF RustBinaries, Binaries, R!Add, R!Sub, R!Mul, R!Div, R!Rem, R!And, R!Or, R!Xor,
         R!Sla, R!Srl, R!Sra, R!Rol, R!Ror, R!Bse, R!Bcl
<1>2. i.op \in TwoOps /\ i.dst \in Operands(i.size) /\ i.src \in Operands(i.size)
  BY <1>1, OperatorsApart DEF Binaries, TwoOps, ShiftOps
<1>3. ASSUME ~R!SourceMapped(i) PROVE rust' = Died(rust)
  BY <1>3, Zenon DEF RustBinaries, R!Add, R!Sub, R!Mul, R!Div, R!Rem, R!And, R!Or, R!Xor,
         R!Sla, R!Srl, R!Sra, R!Rol, R!Ror, R!Bse, R!Bcl, R!Binary, R!Division, R!Outcome, Died
<1>4. ASSUME R!SourceMapped(i)
      PROVE  \/ i.op \notin {"div", "rem"} /\ R!Binary(i, R!Writes(i, RustResult(i)))
             \/ i.op \in {"div", "rem"} /\ R!Division(i, R!Writes(i, RustResult(i)))
  <2>1. R!S(i) = Src(rust, i) /\ R!D(i) = Dst(rust, i)
    BY <1>2, <1>4, RustSource, RustDest
  <2>2. R!Width(i.size) = Width(i.size)
    BY SameSizes
  <2>3. \A x, y : R!BitAnd(i.size, x, y) = BitAnd(i.size, x, y) /\ R!BitOr(i.size, x, y) = BitOr(i.size, x, y)
                  /\ R!BitXor(i.size, x, y) = BitXor(i.size, x, y) /\ R!BitNot(i.size, x) = BitNot(i.size, x)
    BY SameLogicals, SameNumbers
  <2>4. CASE R!Add(i) \/ R!Sub(i) \/ R!Mul(i)
    BY <2>1, <2>4 DEF R!Add, R!Sub, R!Mul, RustResult
  <2>5. CASE R!Div(i) \/ R!Rem(i)
    BY <2>1, <2>5 DEF R!Div, R!Rem, RustResult
  <2>6. CASE R!And(i) \/ R!Or(i) \/ R!Xor(i)
    BY <2>1, <2>3, <2>6 DEF R!And, R!Or, R!Xor, RustResult
  <2>7. CASE R!Sla(i) \/ R!Srl(i) \/ R!Sra(i)
    BY <2>1, <2>7 DEF R!Sla, R!Srl, R!Sra, RustResult
  <2>8. CASE R!Rol(i) \/ R!Ror(i)
    BY <2>1, <2>2, <2>8 DEF R!Rol, R!Ror, RustResult
  <2>9. CASE R!Bse(i) \/ R!Bcl(i)
    BY <2>1, <2>3, <2>9 DEF R!Bse, R!Bcl, RustResult
  <2> QED BY <2>4, <2>5, <2>6, <2>7, <2>8, <2>9 DEF RustBinaries
<1> QED BY <1>1, <1>3, <1>4

LEMMA RustBinaryTurn ==
  ASSUME rust \in Machines, NEW i \in Instructions, RustBinaries(i)
  PROVE  /\ i.op \in Binaries
         /\ rust' = IF \/ ~R!SourceMapped(i) \/ ~R!DestMapped(i)
                       \/ i.op \in {"div", "rem"} /\ R!DividesByZero(i)
                    THEN Died(rust)
                    ELSE IF R!Holds(i.cond)
                         THEN Gets(rust, i, i.dst, RustResult(i).v, RustResult(i).zero, RustResult(i).carry)
                         ELSE Passed(rust, i)
<1>1. R!Advanced(i) = Passed(rust, i)
  BY RustParts
<1> DEFINE r == RustResult(i)
<1>2. R!Writes(i, r) = Gets(rust, i, i.dst, r.v, r.zero, r.carry)
  BY RustParts
<1> HIDE DEF r
<1> DEFINE turn == IF \/ ~R!SourceMapped(i) \/ ~R!DestMapped(i)
                      \/ i.op \in {"div", "rem"} /\ R!DividesByZero(i)
                   THEN Died(rust)
                   ELSE IF R!Holds(i.cond) THEN Gets(rust, i, i.dst, r.v, r.zero, r.carry)
                        ELSE Passed(rust, i)
<1>3. ASSUME R!SourceMapped(i), R!Binary(i, R!Writes(i, r)), i.op \notin {"div", "rem"}
      PROVE  rust' = turn
  BY <1>1, <1>2, <1>3, Zenon DEF R!Binary, R!Outcome, Died
<1>4. ASSUME R!SourceMapped(i), R!Division(i, R!Writes(i, r)), i.op \in {"div", "rem"}
      PROVE  rust' = turn
  BY <1>1, <1>2, <1>4, Zenon DEF R!Division, R!Outcome, Died
<1>5. rust' = turn
  BY <1>3, <1>4, RustBinaryArms DEF r
<1> QED BY <1>5, RustBinaryArms DEF r

LEMMA RustBinaryFits ==
  ASSUME rust \in Machines, NEW i \in Instructions, i.op \in Binaries, R!SourceMapped(i), R!DestMapped(i),
         i.op \in {"div", "rem"} => Src(rust, i) # 0
  PROVE  Fits(i.size, RustResult(i))
<1>1. i.op \in TwoOps /\ i.dst \in Operands(i.size) /\ i.src \in Operands(i.size) /\ i.size \in Sizes
  BY OperatorsApart, InstructionFacts DEF Binaries, TwoOps, ShiftOps
<1> DEFINE s == i.size
           x == Dst(rust, i)
           y == Src(rust, i)
           n == R!Count(i)
           p == 2 ^ R!Count(i)
           k == (Width(i.size) - R!Count(i)) % Width(i.size)
<1>2. s \in Sizes /\ x \in Of(s) /\ y \in Of(s) /\ R!Source(i) \in Word
  BY <1>1, RustSource, RustDest
<1>3. /\ n \in 0 .. Width(s) - 1 /\ k \in 0 .. Width(s) - 1
      /\ R!TopBit(i) \in BOOLEAN /\ R!BottomBit(i) \in BOOLEAN /\ p \in Of(s)
  BY <1>2, RustCounts
<1>4. Width(s) \in Nat /\ x \in Int /\ y \in Int /\ x \in Nat /\ y \in Nat
  BY <1>2, SizeFacts, WordNat
<1>5. n \in 0 .. Width(s) /\ k \in 0 .. Width(s)
  BY <1>3, <1>4
<1>6. ASSUME i.op \in {"add", "sub", "mul"} PROVE Fits(s, RustResult(i))
  <2>1. x + y \in Int /\ x - y \in Int /\ x * y \in Int
    BY <1>4
  <2>2. \A z \in Int : Fits(s, R!Arithmetic(s, z))
    BY <1>2, RustResults
  <2> QED BY <1>6, <2>1, <2>2 DEF RustResult
<1>7. \A z \in Of(s) : Fits(s, R!Logical(z)) /\ Fits(s, R!Quiet(z))
  BY <1>2, RustResults
<1>8. ASSUME NEW z \in Of(s) PROVE Fits(s, R!Shifted(z, R!TopBit(i))) /\ Fits(s, R!Shifted(z, R!BottomBit(i)))
  BY <1>2, <1>3, RustResults
<1>9. ASSUME i.op \in {"div", "rem"} PROVE Fits(s, RustResult(i))
  <2>1. x \div y \in Of(s) /\ x % y \in Of(s)
    <3>1. y \in Nat \ {0}
      BY <1>4, <1>9
    <3> HIDE DEF x, y, s
    <3> QED BY <1>2, <3>1, Halved
  <2> QED BY <1>7, <1>9, <2>1 DEF RustResult
<1>10. ASSUME i.op \in {"and", "or", "xor", "bse", "bcl"} PROVE Fits(s, RustResult(i))
  <2>1. /\ BitAnd(s, x, y) \in Of(s) /\ BitOr(s, x, y) \in Of(s) /\ BitXor(s, x, y) \in Of(s)
        /\ BitOr(s, x, p) \in Of(s) /\ BitNot(s, p) \in Of(s)
    BY <1>2, <1>3, Logicals
  <2>2. BitAnd(s, x, BitNot(s, p)) \in Of(s)
    BY <1>2, <2>1, Logicals
  <2> QED BY <1>7, <1>10, <2>1, <2>2 DEF RustResult
<1>11. ASSUME i.op \in {"sla", "srl", "sra", "rol", "ror"} PROVE Fits(s, RustResult(i))
  <2>1. R!Left(s, x, n) \in Of(s) /\ R!Right(x, n) \in Of(s) /\ R!RotateLeft(s, x, n) \in Of(s)
        /\ R!RotateLeft(s, x, k) \in Of(s)
    BY <1>2, <1>5, RustShifts
  <2> QED BY <1>8, <1>11, <2>1 DEF RustResult
<1> QED BY <1>6, <1>9, <1>10, <1>11 DEF Binaries

-----------------------------------------------------------------------------
(* An arm leaves a machine behind if its effect is one. *)
RustTurns(i, panics, m) ==
  rust' = IF panics THEN Died(rust) ELSE IF R!Holds(i.cond) THEN m ELSE Passed(rust, i)

LEMMA RustOutcome ==
  ASSUME NEW i, NEW panics, NEW m, R!Outcome(i, panics, m)
  PROVE  RustTurns(i, panics, m)
BY RustParts, Zenon DEF R!Outcome, RustTurns, Died

LEMMA RustTyped ==
  ASSUME rust \in Machines, NEW i \in Instructions, NEW panics, NEW m, RustTurns(i, panics, m),
         ~panics /\ R!Holds(i.cond) => m \in Machines
  PROVE  rust' \in Machines
BY PassedTyped DEF RustTurns

LEMMA RustBinaryTyped ==
  ASSUME rust \in Machines, NEW i \in Instructions, RustBinaries(i)
  PROVE  rust' \in Machines
<1> DEFINE panics == \/ ~R!SourceMapped(i) \/ ~R!DestMapped(i)
                     \/ i.op \in {"div", "rem"} /\ R!DividesByZero(i)
           r == RustResult(i)
           m == Gets(rust, i, i.dst, r.v, r.zero, r.carry)
<1>1. i.op \in Binaries /\ RustTurns(i, panics, m)
  BY RustBinaryTurn DEF RustTurns
<1>2. i.dst \in Operands(i.size) /\ i.src \in Operands(i.size)
  BY <1>1, OperatorsApart DEF Binaries, TwoOps, ShiftOps
<1>3. ASSUME ~panics, R!Holds(i.cond) PROVE m \in Machines
  <2>1. i.op \in {"div", "rem"} => Src(rust, i) # 0
    BY <1>2, <1>3, RustSource DEF R!DividesByZero
  <2>2. Fits(i.size, RustResult(i))
    BY <1>1, <1>3, <2>1, RustBinaryFits
  <2> QED BY <1>2, <2>2, GetsTyped DEF Fits
<1> HIDE DEF panics, m
<1> QED BY <1>1, <1>3, RustTyped

LEMMA RustTests ==
  ASSUME rust \in Machines, NEW i \in Instructions, R!Cmp(i) \/ R!Bts(i)
  PROVE  /\ i.op \in {"cmp", "bts"}
         /\ R!Cmp(i) => RustTurns(i, ~R!SourceMapped(i) \/ ~R!DestMapped(i),
              LET r == R!Arithmetic(i.size, Dst(rust, i) - R!S(i)) IN
              [Passed(rust, i) EXCEPT !.zero = r.zero, !.carry = r.carry])
         /\ R!Bts(i) => RustTurns(i, ~R!SourceMapped(i) \/ ~R!DestMapped(i),
              [Passed(rust, i) EXCEPT !.zero = Bit(Dst(rust, i), R!Count(i)) = 0])
         /\ rust' \in Machines
<1> DEFINE panics == ~R!SourceMapped(i) \/ ~R!DestMapped(i)
           r == R!Arithmetic(i.size, Dst(rust, i) - R!S(i))
           m == [Passed(rust, i) EXCEPT !.zero = r.zero, !.carry = r.carry]
           n == [Passed(rust, i) EXCEPT !.zero = Bit(Dst(rust, i), R!Count(i)) = 0]
<1>1. i.op \in {"cmp", "bts"}
  BY DEF R!Cmp, R!Bts
<1>2. i.op \in TwoOps /\ i.dst \in Operands(i.size) /\ i.src \in Operands(i.size) /\ i.size \in Sizes
  BY <1>1, OperatorsApart, InstructionFacts DEF TwoOps, ShiftOps
<1>3. ASSUME R!Cmp(i) PROVE RustTurns(i, panics, m)
  <2>1. R!Outcome(i, panics, R!Tests(i, R!Arithmetic(i.size, R!D(i) - R!S(i))))
    BY <1>3, Zenon DEF R!Cmp, R!Binary
  <2>2. R!D(i) = Dst(rust, i)
    BY <1>2, RustDest
  <2>3. R!Tests(i, r) = m
    BY RustParts
  <2> HIDE DEF panics, m
  <2> QED BY <2>1, <2>2, <2>3, RustOutcome
<1>4. ASSUME R!Bts(i) PROVE RustTurns(i, panics, n)
  <2>1. R!Outcome(i, panics, [R!Advanced(i) EXCEPT !.zero = R!Bit(R!D(i), R!Count(i)) = 0])
    BY <1>4, Zenon DEF R!Bts, R!Binary
  <2>2. R!D(i) = Dst(rust, i)
    BY <1>2, RustDest
  <2>3. R!Advanced(i) = Passed(rust, i) /\ R!Bit(R!D(i), R!Count(i)) = Bit(R!D(i), R!Count(i))
    BY RustParts, SameNumbers
  <2>4. [R!Advanced(i) EXCEPT !.zero = R!Bit(R!D(i), R!Count(i)) = 0] = n
    BY <2>2, <2>3
  <2> HIDE DEF panics, n
  <2> QED BY <2>1, <2>4, RustOutcome
<1>5. ASSUME ~panics PROVE m \in Machines
  <2>1. Fits(i.size, r)
    <3>1. Dst(rust, i) \in Int /\ R!S(i) \in Int
      BY <1>2, <1>5, RustSource, RustDest, WordNat
    <3>2. Dst(rust, i) - R!S(i) \in Int
      BY <3>1
    <3> QED BY <1>2, <3>2, RustResults
  <2> HIDE DEF r
  <2>2. [[Passed(rust, i) EXCEPT !.zero = r.zero] EXCEPT !.carry = r.carry] \in Machines
    BY <2>1, PassedTyped, Updated DEF Fits
  <2> QED BY <2>2
<1>6. n \in Machines
  <2> DEFINE b == Bit(Dst(rust, i), R!Count(i)) = 0
  <2>1. b \in BOOLEAN
    OBVIOUS
  <2> HIDE DEF b
  <2>2. [Passed(rust, i) EXCEPT !.zero = b] \in Machines
    BY <2>1, PassedTyped, Updated
  <2> QED BY <2>2 DEF b
<1> HIDE DEF panics, m, n
<1>7. rust' \in Machines
  BY <1>3, <1>4, <1>5, <1>6, RustTyped
<1> QED BY <1>1, <1>3, <1>4, <1>7 DEF panics, m, n

LEMMA RustMoves ==
  ASSUME rust \in Machines, NEW i \in Instructions, R!Mov(i) \/ R!Movz(i)
  PROVE  /\ R!Mov(i) => RustTurns(i, ~R!SourceMapped(i) \/ (R!Holds(i.cond) /\ ~R!DestMapped(i)),
                                  Put(Passed(rust, i), i.dst, i.size, R!S(i)))
         /\ R!Movz(i) => RustTurns(i, ~R!SourceMapped(i) \/ i.dst.kind # "reg",
                                   Put(Passed(rust, i), i.dst, "word", R!S(i)))
         /\ rust' \in Machines
<1>1. i.op \in TwoOps
  BY DEF R!Mov, R!Movz, TwoOps
<1>2. i.dst \in Operands(i.size) /\ i.src \in Operands(i.size) /\ i.size \in Sizes
  BY <1>1, OperatorsApart, InstructionFacts
<1>3. ASSUME NEW s PROVE R!Put(R!Advanced(i), i.dst, s, R!S(i)) = Put(Passed(rust, i), i.dst, s, R!S(i))
  BY RustParts, SameOperands
<1>4. ASSUME R!SourceMapped(i)
      PROVE  /\ Put(Passed(rust, i), i.dst, i.size, R!S(i)) \in Machines
             /\ Put(Passed(rust, i), i.dst, "word", R!S(i)) \in Machines
  <2>1. R!S(i) \in Of(i.size) /\ R!S(i) \in Of("word")
    BY <1>2, <1>4, RustSource, WordNat DEF Of, Word
  <2>2. Passed(rust, i) \in Machines
    BY PassedTyped
  <2> QED BY <1>2, <2>1, <2>2, Points, Puts, WordSize
<1>5. ASSUME R!Mov(i)
      PROVE  RustTurns(i, ~R!SourceMapped(i) \/ (R!Holds(i.cond) /\ ~R!DestMapped(i)),
                       Put(Passed(rust, i), i.dst, i.size, R!S(i)))
  BY <1>3, <1>5, RustOutcome, Zenon DEF R!Mov
<1>6. ASSUME R!Movz(i)
      PROVE  RustTurns(i, ~R!SourceMapped(i) \/ i.dst.kind # "reg",
                       Put(Passed(rust, i), i.dst, "word", R!S(i)))
  BY <1>3, <1>6, RustOutcome, Zenon DEF R!Movz
<1>7. rust' \in Machines
  BY <1>4, <1>5, <1>6, RustTyped
<1> QED BY <1>5, <1>6, <1>7

LEMMA RustAddresses ==
  ASSUME NEW i
  PROVE  /\ \A x : R!Absolute(x) = Wrap(rust.ip + x)
         /\ R!DestMapped(i) = Reach(rust, i.dst, i.size)
         /\ R!OperandMapped(i) = Reach(rust, i.src, i.size)
         /\ \A s : R!PushUnmapped(i, s) = (R!Holds(i.cond) /\ ~Mapped(Pushed(rust, s), s))
         /\ \A s : R!PopUnmapped(i, s) = (R!Holds(i.cond) /\ ~Mapped(rust.reg["rsp"], s))
BY SameNumbers, SameOperands, SameMemory, SameStack
   DEF R!Absolute, R!DestMapped, R!OperandMapped, R!PushUnmapped, R!PopUnmapped, Reach

(* rta, with a value and a pointer relative to the instruction.            *)
LEMMA RustRta ==
  ASSUME rust \in Machines, NEW i \in Instructions, R!Rta(i)
  PROVE  /\ RustTurns(i,
              \/ ~R!SourceMapped(i)
              \/ R!Holds(i.cond) /\ IsPointer(i.dst) /\ ~Mapped(R!Absolute(Pointer(rust, i.dst)), "word"),
              IF i.dst.kind = "reg" THEN Put(Passed(rust, i), i.dst, "word", R!Absolute(R!Source(i)))
              ELSE [Passed(rust, i) EXCEPT
                      !.mem = Store(@, R!Absolute(Pointer(rust, i.dst)), "word", R!Absolute(R!Source(i)))])
         /\ rust' \in Machines
<1> DEFINE panics == \/ ~R!SourceMapped(i)
                     \/ R!Holds(i.cond) /\ IsPointer(i.dst) /\ ~Mapped(R!Absolute(Pointer(rust, i.dst)), "word")
           value == R!Absolute(R!Source(i))
           pointer == R!Absolute(Pointer(rust, i.dst))
           m1 == Put(Passed(rust, i), i.dst, "word", value)
           m2 == [Passed(rust, i) EXCEPT !.mem = Store(@, pointer, "word", value)]
           m == IF i.dst.kind = "reg" THEN m1 ELSE m2
<1>1. i.op \in TwoOps
  BY DEF R!Rta, TwoOps
<1>2. i.dst \in Operands(i.size) /\ i.src \in Operands(i.size) /\ i.size \in Sizes
  BY <1>1, OperatorsApart, InstructionFacts
<1>3. RustTurns(i, panics, m)
  <2>1. /\ R!Pointer(rust, i.dst) = Pointer(rust, i.dst) /\ R!IsPointer(i.dst) = IsPointer(i.dst)
        /\ R!Mapped(pointer, "word") = Mapped(pointer, "word")
        /\ R!Advanced(i) = Passed(rust, i)
        /\ R!Put(Passed(rust, i), i.dst, "word", value) = m1
        /\ R!Store(Passed(rust, i).mem, pointer, "word", value) = Store(Passed(rust, i).mem, pointer, "word", value)
    BY SameOperands, SameMemory, RustParts
  <2>2. R!Outcome(i, panics, m)
    BY <2>1, Zenon DEF R!Rta
  <2> HIDE DEF panics, m
  <2> QED BY <2>2, RustOutcome
<1>4. ASSUME ~panics PROVE m \in Machines
  <2>1. /\ R!Source(i) \in Int /\ rust.ip \in Int
        /\ i.dst.kind # "reg" => Pointer(rust, i.dst) \in Int
    BY <1>2, <1>4, RustSource, Points, MachineFields, WordNat DEF IsPlace
  <2>2. value \in Word /\ value \in Of("word") /\ value \in Int
    BY <2>1, RustAddresses, WrapRange, WordNat DEF Word, Of
  <2>3. Passed(rust, i) \in Machines
    BY PassedTyped
  <2>4. m1 \in Machines
    BY <1>2, <2>2, <2>3, Points, Puts, WordSize
  <2>5. ASSUME i.dst.kind # "reg" PROVE m2 \in Machines
    <3>1. pointer \in Int
      BY <2>1, <2>5, RustAddresses, WrapRange, WordNat
    <3> HIDE DEF pointer, value
    <3>2. Store(Passed(rust, i).mem, pointer, "word", value) \in Memories
      BY <2>2, <2>3, <3>1, MachineFields, Stores, WordSize
    <3> QED BY <2>3, <3>2, Updated
  <2> QED BY <2>4, <2>5
<1> HIDE DEF panics, m
<1>5. rust' \in Machines
  BY <1>3, <1>4, RustTyped
<1> QED BY <1>3, <1>5 DEF panics, m

LEMMA RustIn ==
  ASSUME rust \in Machines, NEW i \in Instructions, NEW v \in Word, R!In(i, v)
  PROVE  /\ rust' = IF ~R!SourceMapped(i) \/ (R!Holds(i.cond) /\ ~Reach(rust, i.dst, "word")) THEN Died(rust)
                    ELSE LET m == [Passed(rust, i) EXCEPT !.io = Append(@, <<"in", R!Source(i), v>>)]
                         IN  IF R!Holds(i.cond) THEN Put(m, i.dst, "word", v) ELSE m
         /\ rust' \in Machines
<1> DEFINE m == [Passed(rust, i) EXCEPT !.io = Append(@, <<"in", R!Source(i), v>>)]
           lost == IsPointer(i.dst) /\ ~Mapped(Pointer(rust, i.dst), "word")
<1>1. i.op \in TwoOps
  BY DEF R!In, TwoOps
<1>2. i.dst \in Operands(i.size) /\ i.src \in Operands(i.size) /\ i.size \in Sizes
  BY <1>1, OperatorsApart, InstructionFacts
<1>3. rust' = IF ~R!SourceMapped(i) \/ (R!Holds(i.cond) /\ lost) THEN Died(rust)
              ELSE IF R!Holds(i.cond) THEN Put(m, i.dst, "word", v) ELSE m
  <2>1. /\ R!Pointer(rust, i.dst) = Pointer(rust, i.dst) /\ R!IsPointer(i.dst) = IsPointer(i.dst)
        /\ R!Mapped(Pointer(rust, i.dst), "word") = Mapped(Pointer(rust, i.dst), "word")
        /\ R!Advanced(i) = Passed(rust, i)
        /\ R!Put(m, i.dst, "word", v) = Put(m, i.dst, "word", v)
    BY SameOperands, SameMemory, RustParts
  <2> QED BY <2>1, Zenon DEF R!In, Died
<1>4. ASSUME R!SourceMapped(i) PROVE m \in Machines /\ Put(m, i.dst, "word", v) \in Machines
  <2>1. R!Source(i) \in Word /\ Passed(rust, i) \in Machines
    BY <1>2, <1>4, RustSource, PassedTyped
  <2>2. m \in Machines
    BY <2>1, Updated
  <2> HIDE DEF m
  <2> QED BY <1>2, <2>2, Points, Puts, WordSize DEF Word, Of
<1> HIDE DEF m
<1>5. rust' \in Machines
  BY <1>3, <1>4, PassedTyped
<1> QED BY <1>3, <1>5 DEF m, Reach

LEMMA RustOut ==
  ASSUME rust \in Machines, NEW i \in Instructions, R!Out(i)
  PROVE  /\ RustTurns(i, ~R!SourceMapped(i) \/ (R!Holds(i.cond) /\ ~Reach(rust, i.dst, "word")),
              [Passed(rust, i) EXCEPT !.io = Append(@, <<"out", Value(rust, i.dst, "word"), R!Source(i)>>)])
         /\ rust' \in Machines
<1> DEFINE panics == ~R!SourceMapped(i) \/ (R!Holds(i.cond) /\ ~Reach(rust, i.dst, "word"))
           m == [Passed(rust, i) EXCEPT !.io = Append(@, <<"out", Value(rust, i.dst, "word"), R!Source(i)>>)]
<1>1. i.op \in TwoOps
  BY DEF R!Out, TwoOps
<1>2. i.dst \in Operands(i.size) /\ i.src \in Operands(i.size) /\ i.size \in Sizes
  BY <1>1, OperatorsApart, InstructionFacts
<1>3. RustTurns(i, panics, m)
  <2>1. /\ R!Pointer(rust, i.dst) = Pointer(rust, i.dst) /\ R!IsPointer(i.dst) = IsPointer(i.dst)
        /\ R!Mapped(Pointer(rust, i.dst), "word") = Mapped(Pointer(rust, i.dst), "word")
        /\ R!Advanced(i) = Passed(rust, i)
        /\ R!Value(rust, i.dst, "word") = Value(rust, i.dst, "word")
    BY SameOperands, SameMemory, RustParts
  <2>2. R!Outcome(i, panics, m)
    BY <2>1, Zenon DEF R!Out, Reach
  <2> HIDE DEF panics, m
  <2> QED BY <2>2, RustOutcome
<1>4. ASSUME ~panics, R!Holds(i.cond) PROVE m \in Machines
  <2>1. R!Source(i) \in Word /\ Passed(rust, i) \in Machines
    BY <1>2, <1>4, RustSource, PassedTyped
  <2>2. Value(rust, i.dst, "word") \in Word
    <3>1. CASE i.dst.kind = "imm"
      BY <1>2, <3>1, OperandKinds, WordNat DEF Value
    <3>2. CASE i.dst.kind # "imm"
      BY <1>2, <1>4, <3>2, Values, WordSize, WordNat DEF Reach
    <3> QED BY <3>1, <3>2
  <2> QED BY <2>1, <2>2, Updated
<1> HIDE DEF panics, m
<1>5. rust' \in Machines
  BY <1>3, <1>4, RustTyped
<1> QED BY <1>3, <1>5 DEF panics, m

-----------------------------------------------------------------------------
(* inc, dec and not. *)
RustSingle(i) ==
  CASE i.op = "inc" -> R!Arithmetic(i.size, Src(rust, i) + 1)
    [] i.op = "dec" -> R!Arithmetic(i.size, Src(rust, i) - 1)
    [] i.op = "not" -> R!Logical(BitNot(i.size, Src(rust, i)))

LEMMA RustSingles ==
  ASSUME rust \in Machines, NEW i \in Instructions, R!Inc(i) \/ R!Dec(i) \/ R!Not(i)
  PROVE  /\ i.op \in {"inc", "dec", "not"}
         /\ RustTurns(i, \/ i.src.kind = "imm"
                         \/ (i.op = "not" \/ R!Holds(i.cond)) /\ ~Reach(rust, i.src, i.size),
                      Gets(rust, i, i.src, RustSingle(i).v, RustSingle(i).zero, RustSingle(i).carry))
         /\ rust' \in Machines
<1> DEFINE panics == \/ i.src.kind = "imm"
                     \/ (i.op = "not" \/ R!Holds(i.cond)) /\ ~Reach(rust, i.src, i.size)
           r == RustSingle(i)
           m == Gets(rust, i, i.src, r.v, r.zero, r.carry)
<1>1. i.op \in {"inc", "dec", "not"}
  BY DEF R!Inc, R!Dec, R!Not
<1>2. i.src \in Operands(i.size) /\ i.size \in Sizes
  BY <1>1, OperatorsApart, InstructionFacts DEF OneOps
<1>3. /\ R!Operand(i) = Src(rust, i) /\ R!OperandMapped(i) = Reach(rust, i.src, i.size)
      /\ R!BitNot(i.size, Src(rust, i)) = BitNot(i.size, Src(rust, i))
  BY SameOperands, SameNumbers, RustAddresses DEF R!Operand, Src
<1>4. R!Replaces(i, r) = m
  BY RustParts
<1>5. RustTurns(i, panics, m)
  <2>1. ASSUME R!Inc(i) \/ R!Dec(i)
        PROVE  R!Outcome(i, i.src.kind = "imm" \/ (R!Holds(i.cond) /\ ~R!OperandMapped(i)), R!Replaces(i, r))
               /\ i.op # "not"
    BY <1>3, <2>1 DEF R!Inc, R!Dec, R!Counting, RustSingle
  <2>2. ASSUME R!Not(i)
        PROVE  R!Outcome(i, i.src.kind = "imm" \/ ~R!OperandMapped(i), R!Replaces(i, r)) /\ i.op = "not"
    BY <1>3, <2>2 DEF R!Not, RustSingle
  <2> HIDE DEF r, m
  <2>3. R!Outcome(i, panics, R!Replaces(i, r))
    <3>1. CASE R!Inc(i) \/ R!Dec(i)
      BY <1>3, <2>1, <3>1
    <3>2. CASE R!Not(i)
      BY <1>3, <2>2, <3>2
    <3> QED BY <3>1, <3>2
  <2> HIDE DEF panics
  <2> QED BY <1>4, <2>3, RustOutcome
<1>6. ASSUME ~panics, R!Holds(i.cond) PROVE m \in Machines
  <2>1. Src(rust, i) \in Of(i.size) /\ Src(rust, i) \in Int
    BY <1>2, <1>6, Values, WordNat DEF Src, Reach
  <2>2. Src(rust, i) + 1 \in Int /\ Src(rust, i) - 1 \in Int /\ BitNot(i.size, Src(rust, i)) \in Of(i.size)
    <3>1. Mod(i.size) \in Nat
      BY <1>2, SizeFacts
    <3> QED BY <2>1, <3>1 DEF BitNot, Of
  <2>3. Fits(i.size, r)
    <3>1. \A x \in Int : Fits(i.size, R!Arithmetic(i.size, x))
      BY <1>2, RustResults
    <3>2. \A x \in Of(i.size) : Fits(i.size, R!Logical(x))
      BY <1>2, RustResults
    <3> QED BY <1>1, <2>2, <3>1, <3>2 DEF RustSingle
  <2> HIDE DEF r
  <2> QED BY <1>2, <2>3, GetsTyped DEF Fits
<1> HIDE DEF panics, m
<1>7. rust' \in Machines
  BY <1>5, <1>6, RustTyped
<1> QED BY <1>1, <1>5, <1>7 DEF panics, m

(* Where a jump leads to. *)
RustTarget(i) == IF i.op \in {"jmp", "call", "loop"} THEN R!Source(i) ELSE Wrap(rust.ip + R!Source(i))

LEMMA RustTargets ==
  ASSUME rust \in Machines, NEW i \in Instructions, i.src \in Operands(i.size), R!SourceMapped(i)
  PROVE  RustTarget(i) \in Word
<1>1. R!Source(i) \in Word /\ R!Source(i) \in Int /\ rust.ip \in Int
  BY RustSource, MachineFields, WordNat
<1> QED BY <1>1, WrapRange DEF RustTarget

LEMMA RustJumps ==
  ASSUME rust \in Machines, NEW i \in Instructions, R!Jmp(i) \/ R!Rjmp(i)
  PROVE  /\ i.op \in {"jmp", "rjmp"}
         /\ RustTurns(i, ~R!SourceMapped(i), [rust EXCEPT !.ip = RustTarget(i)])
         /\ rust' \in Machines
<1>1. i.op \in {"jmp", "rjmp"} /\ i.src \in Operands(i.size)
  <2>1. i.op \in {"jmp", "rjmp"}
    BY DEF R!Jmp, R!Rjmp
  <2> QED BY <2>1, OperatorsApart DEF OneOps
<1>2. R!Jump(i, RustTarget(i))
  BY RustAddresses DEF R!Jmp, R!Rjmp, RustTarget
<1>3. RustTurns(i, ~R!SourceMapped(i), [rust EXCEPT !.ip = RustTarget(i)])
  BY <1>2, RustOutcome, Zenon DEF R!Jump, R!Jumped
<1>4. R!SourceMapped(i) => [rust EXCEPT !.ip = RustTarget(i)] \in Machines
  BY <1>1, RustTargets, Updated
<1>5. rust' \in Machines
  BY <1>3, <1>4, RustTyped
<1> QED BY <1>1, <1>3, <1>5

LEMMA RustCalls ==
  ASSUME rust \in Machines, NEW i \in Instructions, R!Call(i) \/ R!Rcall(i)
  PROVE  /\ i.op \in {"call", "rcall"}
         /\ RustTurns(i, ~R!SourceMapped(i) \/ (R!Holds(i.cond) /\ ~Mapped(Pushed(rust, "word"), "word")),
                      [Push(rust, "word", Passed(rust, i).ip) EXCEPT !.ip = RustTarget(i)])
         /\ rust' \in Machines
<1> DEFINE panics == ~R!SourceMapped(i) \/ (R!Holds(i.cond) /\ ~Mapped(Pushed(rust, "word"), "word"))
           m == [Push(rust, "word", Passed(rust, i).ip) EXCEPT !.ip = RustTarget(i)]
<1>1. i.op \in {"call", "rcall"} /\ i.src \in Operands(i.size)
  <2>1. i.op \in {"call", "rcall"}
    BY DEF R!Call, R!Rcall
  <2> QED BY <2>1, OperatorsApart DEF OneOps
<1>2. R!Calls(i, RustTarget(i))
  BY RustAddresses DEF R!Call, R!Rcall, RustTarget
<1>3. RustTurns(i, panics, m)
  <2>1. R!Advanced(i) = Passed(rust, i)
    BY RustParts
  <2>2. R!Push(rust, "word", Passed(rust, i).ip) = Push(rust, "word", Passed(rust, i).ip)
    BY SameStack
  <2>3. R!Jumped(R!Push(rust, "word", R!Advanced(i).ip), RustTarget(i)) = m
    BY <2>1, <2>2, Zenon DEF R!Jumped
  <2>4. R!PushUnmapped(i, "word") = (R!Holds(i.cond) /\ ~Mapped(Pushed(rust, "word"), "word"))
    BY RustAddresses
  <2>5. R!Outcome(i, ~R!SourceMapped(i) \/ R!PushUnmapped(i, "word"), m)
    BY <1>2, <2>3, Zenon DEF R!Calls
  <2> HIDE DEF m
  <2>6. R!Outcome(i, panics, m)
    BY <2>4, <2>5
  <2> HIDE DEF panics
  <2> QED BY <2>6, RustOutcome
<1>4. ASSUME ~panics PROVE m \in Machines
  <2>1. RustTarget(i) \in Word
    BY <1>1, <1>4, RustTargets
  <2>2. Passed(rust, i).ip \in Int
    BY PassedTyped, MachineFields, WordNat
  <2>3. Push(rust, "word", Passed(rust, i).ip) \in Machines
    BY <2>2, Pushes, WordSize
  <2> QED BY <2>1, <2>3, Updated
<1> HIDE DEF panics, m
<1>5. rust' \in Machines
  BY <1>3, <1>4, RustTyped
<1> QED BY <1>1, <1>3, <1>5 DEF panics, m

LEMMA RustLoops ==
  ASSUME rust \in Machines, NEW i \in Instructions, R!Loop(i) \/ R!Rloop(i)
  PROVE  /\ i.op \in {"loop", "rloop"}
         /\ LET count == Wrap(rust.reg["r31"] - 1)
                counted == [Passed(rust, i) EXCEPT !.reg["r31"] = count]
            IN  rust' = IF ~R!SourceMapped(i) THEN Died(rust)
                        ELSE IF R!Holds(i.cond) /\ count # 0 THEN [counted EXCEPT !.ip = RustTarget(i)]
                        ELSE counted
         /\ rust' \in Machines
<1> DEFINE count == Wrap(rust.reg["r31"] - 1)
           counted == [Passed(rust, i) EXCEPT !.reg["r31"] = count]
<1>1. i.op \in {"loop", "rloop"} /\ i.src \in Operands(i.size)
  <2>1. i.op \in {"loop", "rloop"}
    BY DEF R!Loop, R!Rloop
  <2> QED BY <2>1, OperatorsApart DEF OneOps
<1>2. R!Loops(i, RustTarget(i))
  BY RustAddresses DEF R!Loop, R!Rloop, RustTarget
<1>3. R!Wrap(rust.reg["r31"] - 1) = count /\ R!Advanced(i) = Passed(rust, i)
  BY SameNumbers, RustParts
<1>4. rust' = IF ~R!SourceMapped(i) THEN Died(rust)
              ELSE IF R!Holds(i.cond) /\ count # 0 THEN [counted EXCEPT !.ip = RustTarget(i)]
              ELSE counted
  BY <1>2, <1>3, Zenon DEF R!Loops, R!Jumped, Died
<1>5. counted \in Machines
  <2>1. rust.reg["r31"] \in Int
    BY MachineFields, StackRegs, WordNat
  <2>2. count \in Word
    BY <2>1, WrapRange
  <2> HIDE DEF count
  <2> QED BY <2>2, PassedTyped, StackRegs, Updated
<1> HIDE DEF counted
<1>6. rust' \in Machines
  BY <1>1, <1>4, <1>5, PassedTyped, RustTargets, Updated
<1> QED BY <1>1, <1>4, <1>6 DEF counted

LEMMA RustPush ==
  ASSUME rust \in Machines, NEW i \in Instructions, R!PushArm(i)
  PROVE  /\ i.op = "push"
         /\ RustTurns(i, ~R!SourceMapped(i) \/ (R!Holds(i.cond) /\ ~Mapped(Pushed(rust, i.size), i.size)),
                      Push(Passed(rust, i), i.size, R!S(i)))
         /\ rust' \in Machines
<1> DEFINE panics == ~R!SourceMapped(i) \/ (R!Holds(i.cond) /\ ~Mapped(Pushed(rust, i.size), i.size))
           m == Push(Passed(rust, i), i.size, R!S(i))
<1>1. i.op = "push" /\ i.src \in Operands(i.size) /\ i.size \in Sizes
  <2>1. i.op = "push"
    BY DEF R!PushArm
  <2> QED BY <2>1, OperatorsApart, InstructionFacts DEF OneOps
<1>2. RustTurns(i, panics, m)
  <2>1. R!Push(R!Advanced(i), i.size, R!S(i)) = m
    BY RustParts, SameStack
  <2>2. R!PushUnmapped(i, i.size) = (R!Holds(i.cond) /\ ~Mapped(Pushed(rust, i.size), i.size))
    BY RustAddresses
  <2>3. R!Outcome(i, ~R!SourceMapped(i) \/ R!PushUnmapped(i, i.size), m)
    BY <2>1, Zenon DEF R!PushArm
  <2> HIDE DEF m
  <2>4. R!Outcome(i, panics, m)
    BY <2>2, <2>3
  <2> HIDE DEF panics
  <2> QED BY <2>4, RustOutcome
<1>3. ASSUME ~panics PROVE m \in Machines
  <2>1. R!S(i) \in Int
    BY <1>1, <1>3, RustSource, WordNat
  <2> QED BY <1>1, <2>1, PassedTyped, Pushes
<1> HIDE DEF panics, m
<1>4. rust' \in Machines
  BY <1>2, <1>3, RustTyped
<1> QED BY <1>1, <1>2, <1>4 DEF panics, m

LEMMA Tops ==
  ASSUME NEW m \in Machines, NEW s \in Sizes, Mapped(m.reg["rsp"], s)
  PROVE  Top(m, s) \in Of(s)
<1>1. m.reg["rsp"] \in Word
  BY MachineFields, StackRegs
<1> QED BY <1>1, MachineFields, Loads DEF Top

LEMMA RustPop ==
  ASSUME rust \in Machines, NEW i \in Instructions, R!PopArm(i)
  PROVE  /\ i.op = "pop"
         /\ RustTurns(i, \/ i.src.kind = "imm"
                         \/ R!Holds(i.cond) /\ ~Mapped(rust.reg["rsp"], i.size)
                         \/ R!Holds(i.cond) /\ ~Reach(rust, i.src, i.size),
              LET m == Popped(Passed(rust, i), i.size) IN
              IF i.src.kind = "reg" THEN Put(m, i.src, i.size, Top(rust, i.size))
              ELSE [m EXCEPT !.mem = Store(@, Pointer(rust, i.src), i.size, Top(rust, i.size))])
         /\ rust' \in Machines
<1> DEFINE panics == \/ i.src.kind = "imm"
                     \/ R!Holds(i.cond) /\ ~Mapped(rust.reg["rsp"], i.size)
                     \/ R!Holds(i.cond) /\ ~Reach(rust, i.src, i.size)
           p == Popped(Passed(rust, i), i.size)
           v == Top(rust, i.size)
           a == Pointer(rust, i.src)
           m1 == Put(p, i.src, i.size, v)
           m2 == [p EXCEPT !.mem = Store(@, a, i.size, v)]
           m == IF i.src.kind = "reg" THEN m1 ELSE m2
<1>1. i.op = "pop" /\ i.src \in Operands(i.size) /\ i.size \in Sizes
  <2>1. i.op = "pop"
    BY DEF R!PopArm
  <2> QED BY <2>1, OperatorsApart, InstructionFacts DEF OneOps
<1>2. RustTurns(i, panics, m)
  <2>1. /\ R!Popped(R!Advanced(i), i.size) = p /\ R!Top(rust, i.size) = v /\ R!Pointer(rust, i.src) = a
        /\ R!Put(p, i.src, i.size, v) = m1
        /\ R!Store(p.mem, a, i.size, v) = Store(p.mem, a, i.size, v)
    BY RustParts, SameStack, SameOperands, SameMemory
  <2>2. /\ R!PopUnmapped(i, i.size) = (R!Holds(i.cond) /\ ~Mapped(rust.reg["rsp"], i.size))
        /\ R!OperandMapped(i) = Reach(rust, i.src, i.size)
    BY RustAddresses
  <2> HIDE DEF p, v, a
  <2>3. R!Outcome(i, \/ i.src.kind = "imm" \/ R!PopUnmapped(i, i.size)
                     \/ R!Holds(i.cond) /\ ~R!OperandMapped(i), m)
    BY <2>1, Zenon DEF R!PopArm
  <2> HIDE DEF m
  <2>4. R!Outcome(i, panics, m)
    BY <2>2, <2>3
  <2> HIDE DEF panics
  <2> QED BY <2>4, RustOutcome
<1>3. ASSUME ~panics, R!Holds(i.cond) PROVE m \in Machines
  <2>1. v \in Of(i.size) /\ v \in Int
    BY <1>1, <1>3, Tops, WordNat
  <2>2. p \in Machines
    BY <1>1, PassedTyped, Pops
  <2> HIDE DEF p, v
  <2>3. m1 \in Machines
    BY <1>1, <2>1, <2>2, Points, Puts
  <2>4. ASSUME i.src.kind # "reg" PROVE m2 \in Machines
    <3>1. a \in Word /\ a \in Int
      BY <1>1, <1>3, <2>4, Points, OperandKinds, WordNat DEF IsPlace
    <3> HIDE DEF a
    <3>2. Store(p.mem, a, i.size, v) \in Memories
      BY <1>1, <2>1, <2>2, <3>1, MachineFields, Stores
    <3> QED BY <2>2, <3>2, Updated
  <2> QED BY <2>3, <2>4
<1> HIDE DEF panics, m
<1>4. rust' \in Machines
  BY <1>2, <1>3, RustTyped
<1> QED BY <1>1, <1>2, <1>4 DEF panics, m, m1, m2, p, v, a

LEMMA RustRet ==
  ASSUME rust \in Machines, NEW i \in Instructions, R!Ret(i)
  PROVE  /\ i.op = "ret"
         /\ RustTurns(i, R!Holds(i.cond) /\ ~Mapped(rust.reg["rsp"], "word"),
                      [Popped(rust, "word") EXCEPT !.ip = Top(rust, "word")])
         /\ rust' \in Machines
<1> DEFINE panics == R!Holds(i.cond) /\ ~Mapped(rust.reg["rsp"], "word")
           m == [Popped(rust, "word") EXCEPT !.ip = Top(rust, "word")]
<1>1. i.op = "ret"
  BY DEF R!Ret
<1>2. RustTurns(i, panics, m)
  <2>1. R!Popped(rust, "word") = Popped(rust, "word") /\ R!Top(rust, "word") = Top(rust, "word")
    BY SameStack
  <2>2. R!PopUnmapped(i, "word") = panics
    BY RustAddresses
  <2>3. R!Outcome(i, R!PopUnmapped(i, "word"), m)
    BY <2>1, Zenon DEF R!Ret, R!Jumped
  <2> HIDE DEF m, panics
  <2> QED BY <2>2, <2>3, RustOutcome
<1>3. ASSUME ~panics, R!Holds(i.cond) PROVE m \in Machines
  <2>1. Top(rust, "word") \in Word
    BY <1>3, Tops, WordSize, WordNat
  <2> QED BY <2>1, Pops, WordSize, Updated
<1> HIDE DEF panics, m
<1>4. rust' \in Machines
  BY <1>2, <1>3, RustTyped
<1> QED BY <1>1, <1>2, <1>4 DEF panics, m

(* A machine that has found flags on its stack.                            *)
Restored(m) == Popped(WithFlags(m, Top(m, "byte")), "byte")

LEMMA RestoredTyped ==
  ASSUME NEW m \in Machines
  PROVE  /\ Restored(m) \in Machines
         /\ Restored(m).reg["rsp"] = Popped(m, "byte").reg["rsp"]
<1>1. WithFlags(m, Top(m, "byte")) \in Machines
  BY Flagged
<1>2. Restored(m) \in Machines
  BY <1>1, Pops, WordSize DEF Restored
<1>3. Restored(m).reg = Popped(m, "byte").reg
  BY DEF Restored, WithFlags, Popped, Machines
<1> QED BY <1>2, <1>3

LEMMA RustReti ==
  ASSUME rust \in Machines, NEW i \in Instructions, R!Reti(i)
  PROVE  /\ i.op = "reti"
         /\ RustTurns(i, R!Holds(i.cond) /\ ~(/\ Mapped(rust.reg["rsp"], "byte")
                                              /\ Mapped(Restored(rust).reg["rsp"], "word")),
                      [Popped(Restored(rust), "word") EXCEPT !.ip = Top(Restored(rust), "word")])
         /\ rust' \in Machines
<1> DEFINE r == Restored(rust)
           panics == R!Holds(i.cond) /\ ~(/\ Mapped(rust.reg["rsp"], "byte")
                                          /\ Mapped(r.reg["rsp"], "word"))
           m == [Popped(r, "word") EXCEPT !.ip = Top(r, "word")]
<1>1. i.op = "reti"
  BY DEF R!Reti
<1>2. RustTurns(i, panics, m)
  <2>1. R!Popped(R!WithFlags(rust, R!Top(rust, "byte")), "byte") = r
    BY SameStack DEF Restored
  <2>2. /\ R!Popped(r, "word") = Popped(r, "word") /\ R!Top(r, "word") = Top(r, "word")
        /\ R!Mapped(rust.reg["rsp"], "byte") = Mapped(rust.reg["rsp"], "byte")
        /\ R!Mapped(r.reg["rsp"], "word") = Mapped(r.reg["rsp"], "word")
    BY SameStack, SameMemory
  <2> HIDE DEF r
  <2>3. R!Outcome(i, panics, m)
    BY <2>1, <2>2, Zenon DEF R!Reti, R!Jumped
  <2> HIDE DEF m, panics
  <2> QED BY <2>3, RustOutcome
<1>3. ASSUME ~panics, R!Holds(i.cond) PROVE m \in Machines
  <2>1. r \in Machines
    BY RestoredTyped
  <2>2. Top(r, "word") \in Word
    BY <1>3, <2>1, Tops, WordSize, WordNat
  <2> QED BY <2>1, <2>2, Pops, WordSize, Updated
<1> HIDE DEF panics, m, r
<1>4. rust' \in Machines
  BY <1>2, <1>3, RustTyped
<1> QED BY <1>1, <1>2, <1>4 DEF panics, m, r

LEMMA RustPlain ==
  ASSUME rust \in Machines, NEW i \in Instructions,
         R!Nop(i) \/ R!Brk(i) \/ R!Halt(i) \/ R!Ise(i) \/ R!Icl(i)
  PROVE  /\ R!Nop(i) => i.op = "nop" /\ rust' = Passed(rust, i)
         /\ R!Brk(i) => i.op = "brk" /\ rust' = Passed(rust, i)
         /\ R!Halt(i) => i.op = "halt" /\ RustTurns(i, FALSE, [Passed(rust, i) EXCEPT !.halted = TRUE])
         /\ R!Ise(i) => i.op = "ise" /\ RustTurns(i, FALSE, [Passed(rust, i) EXCEPT !.int = TRUE])
         /\ R!Icl(i) => i.op = "icl" /\ RustTurns(i, FALSE, [Passed(rust, i) EXCEPT !.int = FALSE])
         /\ rust' \in Machines
<1>1. R!Advanced(i) = Passed(rust, i)
  BY RustParts
<1>2. R!Nop(i) => i.op = "nop" /\ rust' = Passed(rust, i)
  BY <1>1 DEF R!Nop
<1>3. R!Brk(i) => i.op = "brk" /\ rust' = Passed(rust, i)
  BY <1>1 DEF R!Brk
<1>4. R!Halt(i) => i.op = "halt" /\ RustTurns(i, FALSE, [Passed(rust, i) EXCEPT !.halted = TRUE])
  BY <1>1, RustOutcome, Zenon DEF R!Halt
<1>5. R!Ise(i) => i.op = "ise" /\ RustTurns(i, FALSE, [Passed(rust, i) EXCEPT !.int = TRUE])
  BY <1>1, RustOutcome, Zenon DEF R!Ise
<1>6. R!Icl(i) => i.op = "icl" /\ RustTurns(i, FALSE, [Passed(rust, i) EXCEPT !.int = FALSE])
  BY <1>1, RustOutcome, Zenon DEF R!Icl
<1>7. /\ [Passed(rust, i) EXCEPT !.halted = TRUE] \in Machines
      /\ [Passed(rust, i) EXCEPT !.int = TRUE] \in Machines
      /\ [Passed(rust, i) EXCEPT !.int = FALSE] \in Machines
      /\ Passed(rust, i) \in Machines
  BY PassedTyped, Updated
<1>8. rust' \in Machines
  BY <1>2, <1>3, <1>4, <1>5, <1>6, <1>7, RustTyped
<1> QED BY <1>2, <1>3, <1>4, <1>5, <1>6, <1>8

LEMMA RustExecutes ==
  ASSUME rust \in Machines, NEW i \in Instructions, NEW v \in Word, R!Execute(i, v)
  PROVE  rust' \in Machines
<1>1. CASE R!Bad(i)
  BY <1>1, PassedTyped DEF R!Bad, Died
<1>2. CASE RustBinaries(i)
  BY <1>2, RustBinaryTyped
<1>3. CASE R!Cmp(i) \/ R!Bts(i)
  BY <1>3, RustTests
<1>4. CASE R!Mov(i) \/ R!Movz(i)
  BY <1>4, RustMoves
<1>5. CASE R!Rta(i)
  BY <1>5, RustRta
<1>6. CASE R!In(i, v)
  BY <1>6, RustIn
<1>7. CASE R!Out(i)
  BY <1>7, RustOut
<1>8. CASE R!Inc(i) \/ R!Dec(i) \/ R!Not(i)
  BY <1>8, RustSingles
<1>9. CASE R!Jmp(i) \/ R!Rjmp(i)
  BY <1>9, RustJumps
<1>10. CASE R!Call(i) \/ R!Rcall(i)
  BY <1>10, RustCalls
<1>11. CASE R!Loop(i) \/ R!Rloop(i)
  BY <1>11, RustLoops
<1>12. CASE R!PushArm(i)
  BY <1>12, RustPush
<1>13. CASE R!PopArm(i)
  BY <1>13, RustPop
<1>14. CASE R!Ret(i)
  BY <1>14, RustRet
<1>15. CASE R!Reti(i)
  BY <1>15, RustReti
<1>16. CASE R!Nop(i) \/ R!Brk(i) \/ R!Halt(i) \/ R!Ise(i) \/ R!Icl(i)
  BY <1>16, RustPlain
<1> QED BY <1>1, <1>2, <1>3, <1>4, <1>5, <1>6, <1>7, <1>8, <1>9, <1>10, <1>11, <1>12, <1>13,
           <1>14, <1>15, <1>16, Zenon DEF R!Execute, R!Known, RustBinaries

-----------------------------------------------------------------------------
(* fox32.c, in the same way. *)
CoreTurns(i, panics, m) ==
  core' = IF C!Skips(i.cond) THEN Passed(core, i) ELSE IF panics THEN Died(core) ELSE m

Writable(a, s) == a + Bytes(s) <= RamSize
Assignable(m, o, s) == o.kind # "imm" /\ (IsPointer(o) => Writable(Pointer(m, o), s))

LEMMA CoreParts ==
  /\ \A i : C!Moved(i) = Passed(core, i) /\ C!After(i) = Wrap(core.ip + AssembledLength(i))
  /\ \A i : C!A(i) = Src(core, i) /\ C!B(i) = Dst(core, i)
  /\ \A o, s : C!Readable(o, s) = Reach(core, o, s)
  /\ \A a, s : C!Writable(a, s) = Writable(a, s)
  /\ \A o, s : C!Assignable(o, s) = Assignable(core, o, s)
  /\ \A x : C!Base(x) = Wrap(core.ip + x)
  /\ C!Dies <=> core' = Died(core)
<1>1. ASSUME NEW i PROVE C!After(i) = Wrap(core.ip + AssembledLength(i)) /\ C!Moved(i) = Passed(core, i)
  BY SameLength, SameNumbers DEF C!Moved, C!After, Passed
<1>2. ASSUME NEW i PROVE C!A(i) = Src(core, i) /\ C!B(i) = Dst(core, i)
  BY SameOperands DEF C!A, C!B, Src, Dst
<1>3. ASSUME NEW o, NEW s
      PROVE  C!Readable(o, s) = Reach(core, o, s) /\ C!Assignable(o, s) = Assignable(core, o, s)
  BY SameOperands, SameMemory, SameSizes DEF C!Readable, Reach, C!Assignable, Assignable, C!Writable, Writable
<1>4. ASSUME NEW a, NEW s PROVE C!Writable(a, s) = Writable(a, s)
  BY SameSizes DEF C!Writable, Writable
<1>5. ASSUME NEW x PROVE C!Base(x) = Wrap(core.ip + x)
  BY SameNumbers DEF C!Base
<1>6. C!Dies <=> core' = Died(core)
  BY DEF C!Dies, Died
<1> QED BY <1>1, <1>2, <1>3, <1>4, <1>5, <1>6, Zenon

LEMMA CoreOutcome ==
  ASSUME NEW i, NEW panics, NEW m, C!Outcome(i, panics, m)
  PROVE  CoreTurns(i, panics, m)
BY CoreParts, Zenon DEF C!Outcome, C!OneOf, CoreTurns

LEMMA CoreOperands ==
  ASSUME core \in Machines, NEW i \in Instructions
  PROVE  /\ i.src \in Operands(i.size) /\ Reach(core, i.src, i.size) => Src(core, i) \in Of(i.size)
         /\ i.dst \in Operands(i.size) /\ Reach(core, i.dst, i.size) => Dst(core, i) \in Of(i.size)
<1>1. i.size \in Sizes
  BY InstructionFacts
<1>2. ASSUME i.src \in Operands(i.size), Reach(core, i.src, i.size) PROVE Src(core, i) \in Of(i.size)
  BY <1>1, <1>2, Values DEF Src, Reach
<1>3. ASSUME i.dst \in Operands(i.size), Reach(core, i.dst, i.size) PROVE Dst(core, i) \in Of(i.size)
  BY <1>1, <1>3, Values DEF Dst, Reach
<1> QED BY <1>2, <1>3

(* What VM_IMPL_ADD, VM_IMPL_AND and their relatives leave behind.         *)
CoreGets(i, o, x, c) == Gets(core, i, o, Low(i.size, x), Low(i.size, x) = 0, c)

LEMMA CoreGetsTyped ==
  ASSUME core \in Machines, NEW i \in Instructions, NEW o \in Operands(i.size), NEW x \in Int, NEW c \in BOOLEAN
  PROVE  CoreGets(i, o, x, c) \in Machines
<1>1. Low(i.size, x) \in Of(i.size)
  BY InstructionFacts, LowRange DEF Of
<1> DEFINE z == Low(i.size, x) = 0
<1>2. z \in BOOLEAN
  OBVIOUS
<1> HIDE DEF z
<1>3. Gets(core, i, o, Low(i.size, x), z, c) \in Machines
  BY <1>1, <1>2, GetsTyped
<1> QED BY <1>3 DEF CoreGets, z

CoreFaults(i) == ~Reach(core, i.src, i.size) \/ ~Reach(core, i.dst, i.size) \/ ~Assignable(core, i.dst, i.size)

LEMMA CoreBodies ==
  ASSUME core \in Machines, NEW i \in Instructions, i.dst \in Operands(i.size)
  PROVE  /\ C!Faults(i) = CoreFaults(i)
         /\ \A x, range : C!ImplAdd(i, x, range) =>
              CoreTurns(i, CoreFaults(i), CoreGets(i, i.dst, x, x \notin range))
         /\ \A p, xs : C!OneOf(i, C!Faults(i) \/ p, {C!Result(i, C!Low(i.size, x)) : x \in xs}) =>
              \/ CoreTurns(i, CoreFaults(i) \/ p, Died(core)) /\ (CoreFaults(i) \/ p \/ C!Skips(i.cond))
              \/ \E x \in xs : CoreTurns(i, CoreFaults(i) \/ p, CoreGets(i, i.dst, x, core.carry))
<1>1. C!Faults(i) = CoreFaults(i)
  BY CoreParts DEF C!Faults, CoreFaults
<1>2. ASSUME NEW x, NEW range, C!ImplAdd(i, x, range)
      PROVE  CoreTurns(i, CoreFaults(i), CoreGets(i, i.dst, x, x \notin range))
  <2> DEFINE m == Passed(core, i)
             v == Low(i.size, x)
  <2>1. C!Put(m, i.dst, i.size, v) = Put(m, i.dst, i.size, v) /\ C!Moved(i) = m /\ C!Low(i.size, x) = v
    BY CoreParts, SameOperands, SameNumbers
  <2> HIDE DEF m, v
  <2>2. C!Outcome(i, CoreFaults(i),
          [Put(m, i.dst, i.size, v) EXCEPT !.zero = v = 0, !.carry = x \notin range])
    BY <1>1, <1>2, <2>1, Zenon DEF C!ImplAdd
  <2>3. C!Outcome(i, CoreFaults(i), CoreGets(i, i.dst, x, x \notin range))
    BY <2>2, Zenon DEF CoreGets, Gets, m, v
  <2> QED BY <2>3, CoreOutcome
<1>3. ASSUME NEW x PROVE C!Result(i, C!Low(i.size, x)) = CoreGets(i, i.dst, x, core.carry)
  <2> DEFINE m == Passed(core, i)
             v == Low(i.size, x)
             p == Put(m, i.dst, i.size, v)
             z == (v = 0)
  <2>1. C!Put(m, i.dst, i.size, v) = p /\ C!Moved(i) = m /\ C!Low(i.size, x) = v
    BY CoreParts, SameOperands, SameNumbers
  <2>2. m \in Machines /\ m.carry = core.carry
    BY PassedTyped, PassedFields
  <2> HIDE DEF m, v
  <2>3. p.carry = core.carry /\ Shaped(p)
    <3>1. Shaped(m)
      BY <2>2, StartShaped
    <3> QED BY <2>2, <3>1 DEF Put, Shaped, Fields
  <2>4. C!Result(i, C!Low(i.size, x)) = [p EXCEPT !.zero = z]
    BY <2>1, Zenon DEF C!Result
  <2> HIDE DEF p, z
  <2>5. [p EXCEPT !.zero = z] = [p EXCEPT !.zero = z, !.carry = core.carry]
    BY <2>3 DEF Shaped, Fields
  <2>6. CoreGets(i, i.dst, x, core.carry) = [p EXCEPT !.zero = z, !.carry = core.carry]
    BY Zenon DEF CoreGets, Gets, p, z, m, v
  <2> QED BY <2>4, <2>5, <2>6
<1>4. ASSUME NEW p, NEW xs, C!OneOf(i, C!Faults(i) \/ p, {C!Result(i, C!Low(i.size, x)) : x \in xs})
      PROVE  \/ CoreTurns(i, CoreFaults(i) \/ p, Died(core)) /\ (CoreFaults(i) \/ p \/ C!Skips(i.cond))
             \/ \E x \in xs : CoreTurns(i, CoreFaults(i) \/ p, CoreGets(i, i.dst, x, core.carry))
  <2>1. CASE C!Skips(i.cond)
    BY <1>4, <2>1, CoreParts DEF C!OneOf, CoreTurns
  <2>2. CASE ~C!Skips(i.cond) /\ (CoreFaults(i) \/ p)
    BY <1>1, <1>4, <2>2, CoreParts DEF C!OneOf, CoreTurns
  <2>3. CASE ~C!Skips(i.cond) /\ ~(CoreFaults(i) \/ p)
    <3>1. PICK x \in xs : core' = C!Result(i, C!Low(i.size, x))
      BY <1>1, <1>4, <2>3 DEF C!OneOf
    <3>2. CoreTurns(i, CoreFaults(i) \/ p, CoreGets(i, i.dst, x, core.carry))
      BY <1>3, <2>3, <3>1 DEF CoreTurns
    <3> QED BY <3>2
  <2> QED BY <2>1, <2>2, <2>3
<1> QED BY <1>1, <1>2, <1>4

-----------------------------------------------------------------------------
(* The instruction is skipped, ends the thread, or has one of the results. *)
CoreBecomes(i, traps, xs) ==
  \/ (C!Skips(i.cond) \/ CoreFaults(i) \/ traps) /\ CoreTurns(i, CoreFaults(i) \/ traps, Died(core))
  \/ \E x \in xs : CoreTurns(i, CoreFaults(i) \/ traps, CoreGets(i, i.dst, x, core.carry))

LEMMA CoreComputes ==
  ASSUME core \in Machines, NEW i \in Instructions, i.dst \in Operands(i.size)
  PROVE  /\ \A xs : C!ImplAnd(i, xs) => CoreBecomes(i, FALSE, xs)
         /\ \A traps, x : C!ImplDiv(i, traps, x) => CoreBecomes(i, traps, {x})
<1>1. ASSUME NEW xs, C!ImplAnd(i, xs) PROVE CoreBecomes(i, FALSE, xs)
  <2>1. C!OneOf(i, C!Faults(i) \/ FALSE, {C!Result(i, C!Low(i.size, x)) : x \in xs})
    BY <1>1, Zenon DEF C!ImplAnd, C!OneOf
  <2> QED BY <2>1, CoreBodies DEF CoreBecomes
<1>2. ASSUME NEW traps, NEW x, C!ImplDiv(i, traps, x) PROVE CoreBecomes(i, traps, {x})
  <2>1. {C!Result(i, C!Low(i.size, y)) : y \in {x}} = {C!Result(i, C!Low(i.size, x))}
    OBVIOUS
  <2>2. C!OneOf(i, C!Faults(i) \/ traps, {C!Result(i, C!Low(i.size, x))})
    BY <1>2, Zenon DEF C!ImplDiv
  <2>3. C!OneOf(i, C!Faults(i) \/ traps, {C!Result(i, C!Low(i.size, y)) : y \in {x}})
    BY <2>1, <2>2, Zenon
  <2> DEFINE xs == {x}
  <2> HIDE DEF xs
  <2>4. C!OneOf(i, C!Faults(i) \/ traps, {C!Result(i, C!Low(i.size, y)) : y \in xs})
    BY <2>3 DEF xs
  <2>5. CoreBecomes(i, traps, xs)
    BY <2>4, CoreBodies DEF CoreBecomes
  <2> QED BY <2>5 DEF xs
<1> QED BY <1>1, <1>2

LEMMA CoreShifts ==
  ASSUME NEW x \in Int, NEW n \in Int
  PROVE  /\ C!ShiftLeft(x, n) \subseteq Int /\ C!ShiftRight(x, n) \subseteq Int
         /\ n \in 0 .. Width("word") - 1 => /\ C!ShiftLeft(x, n) = {Low("word", x * Pow(n))}
                                            /\ C!ShiftRight(x, n) = {x \div Pow(n)}
         /\ n = Width("word") => /\ C!ShiftLeft(x, n) = {Low("word", x), 0}
                                 /\ C!ShiftRight(x, n) = {x, x \div Pow(n)}
<1> DEFINE w == Width("word")
<1>1. w \in {16, 32}
  BY SizeFacts, WordSize
<1>2. C!IntWidth = w
  BY SameSizes DEF C!IntWidth
<1> HIDE DEF w
<1>3. /\ C!Counts(n) \subseteq 0 .. w
      /\ n \in 0 .. w - 1 => C!Counts(n) = {n}
      /\ n = w => C!Counts(n) = {0, w}
  BY <1>1, <1>2 DEF C!Counts
<1>4. \A y : C!Low("word", y) = Low("word", y)
  BY SameNumbers
<1>5. \A c \in 0 .. w : Pow(c) \in Nat \ {0}
  BY <1>1, PowerPositive
<1>6. C!ShiftLeft(x, n) = {IF c = w THEN 0 ELSE Low("word", x * Pow(c)) : c \in C!Counts(n)}
  BY <1>2, <1>4 DEF C!ShiftLeft, Pow
<1>7. C!ShiftRight(x, n) = {x \div Pow(c) : c \in C!Counts(n)}
  BY DEF C!ShiftRight, Pow
<1>8. ASSUME NEW c \in 0 .. w PROVE x * Pow(c) \in Int /\ x \div Pow(c) \in Int /\ Low("word", x * Pow(c)) \in Int
  <2>1. x * Pow(c) \in Int /\ x \div Pow(c) \in Int
    BY <1>5, Divides
  <2>2. Low("word", x * Pow(c)) \in Of("word")
    BY <2>1, LowRange, WordSize DEF Of
  <2> QED BY <2>1, <2>2, WordNat, WordSize
<1>9. C!ShiftLeft(x, n) \subseteq Int /\ C!ShiftRight(x, n) \subseteq Int
  BY <1>3, <1>6, <1>7, <1>8
<1>10. ASSUME n \in 0 .. w - 1
       PROVE  C!ShiftLeft(x, n) = {Low("word", x * Pow(n))} /\ C!ShiftRight(x, n) = {x \div Pow(n)}
  <2>1. C!Counts(n) = {n} /\ n # w
    BY <1>1, <1>3, <1>10
  <2> QED BY <1>6, <1>7, <2>1
<1>11. ASSUME n = w
       PROVE  C!ShiftLeft(x, n) = {Low("word", x), 0} /\ C!ShiftRight(x, n) = {x, x \div Pow(n)}
  <2>1. C!Counts(n) = {0, w} /\ 0 # w
    BY <1>1, <1>3, <1>11
  <2>2. x * Pow(0) = x /\ x \div Pow(0) = x
    BY Powers
  <2> QED BY <1>6, <1>7, <1>11, <2>1, <2>2
<1> QED BY <1>9, <1>10, <1>11 DEF w

CoreResults(i) ==
  LET x == Dst(core, i)
      y == Src(core, i)
      s == i.size
  IN CASE i.op = "div" -> {x \div y}
       [] i.op = "rem" -> {x % y}
       [] i.op = "and" -> {BitAnd(s, x, y)}
       [] i.op = "or" -> {BitOr(s, x, y)}
       [] i.op = "xor" -> {BitXor(s, x, y)}
       [] i.op = "sla" -> C!ShiftLeft(x, y)
       [] i.op = "srl" -> C!ShiftRight(x, y)
       [] i.op = "sra" -> C!ShiftRight(Signed(s, x), Signed(s, y))
       [] i.op = "rol" -> {BitOr(s, Low(s, a), Low(s, b)) :
                             a \in C!ShiftLeft(x, y), b \in C!ShiftRight(x, Width(s) - y)}
       [] i.op = "ror" -> {BitOr(s, Low(s, a), Low(s, b)) :
                             a \in C!ShiftLeft(x, Width(s) - y), b \in C!ShiftRight(x, y)}
       [] i.op = "bse" -> {BitOr(s, x, Low(s, a)) : a \in C!ShiftLeft(1, y)}
       [] i.op = "bcl" -> {BitAnd(s, x, BitNot(s, Low(s, a))) : a \in C!ShiftLeft(1, y)}

CoreLogicals(i) ==
  \/ C!Div(i) \/ C!Rem(i) \/ C!And(i) \/ C!Or(i) \/ C!Xor(i)
  \/ C!Sla(i) \/ C!Srl(i) \/ C!Sra(i) \/ C!Rol(i) \/ C!Ror(i) \/ C!Bse(i) \/ C!Bcl(i)

LEMMA CoreLogicalTurn ==
  ASSUME core \in Machines, NEW i \in Instructions, CoreLogicals(i)
  PROVE  /\ i.op \in Binaries \ {"add", "sub", "mul"}
         /\ i.dst \in Operands(i.size) /\ i.src \in Operands(i.size)
         /\ CoreBecomes(i, i.op \in {"div", "rem"} /\ Src(core, i) = 0, CoreResults(i))
<1> DEFINE x == Dst(core, i)
           y == Src(core, i)
           s == i.size
<1>1. i.op \in Binaries \ {"add", "sub", "mul"}
  BY DEF CoreLogicals, Binaries, C!Div, C!Rem, C!And, C!Or, C!Xor,
         C!Sla, C!Srl, C!Sra, C!Rol, C!Ror, C!Bse, C!Bcl
<1>2. i.op \in TwoOps /\ i.dst \in Operands(i.size) /\ i.src \in Operands(i.size)
  BY <1>1, OperatorsApart DEF Binaries, TwoOps, ShiftOps
<1>3. C!A(i) = y /\ C!B(i) = x /\ C!SA(i) = Signed(s, y) /\ C!SB(i) = Signed(s, x) /\ C!Width(s) = Width(s)
  BY CoreParts, SameNumbers, SameSizes DEF C!SA, C!SB
<1>4. /\ \A a, b : C!BitAnd(s, a, b) = BitAnd(s, a, b) /\ C!BitOr(s, a, b) = BitOr(s, a, b)
                   /\ C!BitXor(s, a, b) = BitXor(s, a, b)
      /\ \A a : C!BitNot(s, a) = BitNot(s, a) /\ C!Low(s, a) = Low(s, a)
  BY SameLogicals, SameNumbers
<1>5. ASSUME C!Div(i) \/ C!Rem(i)
      PROVE  CoreBecomes(i, y = 0, CoreResults(i)) /\ i.op \in {"div", "rem"}
  <2>1. CASE C!Div(i)
    <3>1. C!ImplDiv(i, C!A(i) = 0, C!B(i) \div C!A(i)) /\ i.op = "div"
      BY <2>1 DEF C!Div
    <3>2. CoreResults(i) = {x \div y}
      BY <3>1 DEF CoreResults
    <3>3. CoreBecomes(i, C!A(i) = 0, {C!B(i) \div C!A(i)})
      BY <1>2, <3>1, CoreComputes
    <3> QED BY <1>3, <3>1, <3>2, <3>3
  <2>2. CASE C!Rem(i)
    <3>1. C!ImplDiv(i, C!A(i) = 0, C!B(i) % C!A(i)) /\ i.op = "rem"
      BY <2>2 DEF C!Rem
    <3>2. CoreResults(i) = {x % y}
      BY <3>1 DEF CoreResults
    <3>3. CoreBecomes(i, C!A(i) = 0, {C!B(i) % C!A(i)})
      BY <1>2, <3>1, CoreComputes
    <3> QED BY <1>3, <3>1, <3>2, <3>3
  <2> QED BY <1>5, <2>1, <2>2
<1>6. ASSUME ~(C!Div(i) \/ C!Rem(i))
      PROVE  C!ImplAnd(i, CoreResults(i))
  <2>1. CASE C!And(i) \/ C!Or(i) \/ C!Xor(i)
    <3>1. CASE C!And(i)
      <4>1. i.op = "and" /\ C!ImplAnd(i, {C!BitAnd(i.size, C!B(i), C!A(i))})
        BY <3>1 DEF C!And
      <4>2. CoreResults(i) = {BitAnd(s, x, y)}
        BY <4>1 DEF CoreResults
      <4> QED BY <1>3, <1>4, <4>1, <4>2
    <3>2. CASE C!Or(i)
      <4>1. i.op = "or" /\ C!ImplAnd(i, {C!BitOr(i.size, C!B(i), C!A(i))})
        BY <3>2 DEF C!Or
      <4>2. CoreResults(i) = {BitOr(s, x, y)}
        BY <4>1 DEF CoreResults
      <4> QED BY <1>3, <1>4, <4>1, <4>2
    <3>3. CASE C!Xor(i)
      <4>1. i.op = "xor" /\ C!ImplAnd(i, {C!BitXor(i.size, C!B(i), C!A(i))})
        BY <3>3 DEF C!Xor
      <4>2. CoreResults(i) = {BitXor(s, x, y)}
        BY <4>1 DEF CoreResults
      <4> QED BY <1>3, <1>4, <4>1, <4>2
    <3> QED BY <2>1, <3>1, <3>2, <3>3
  <2>2. CASE C!Sla(i) \/ C!Srl(i) \/ C!Sra(i)
    BY <1>3, <2>2 DEF C!Sla, C!Srl, C!Sra, CoreResults
  <2>3. CASE C!Rol(i)
    <3>1. C!Rotated(s, C!ShiftLeft(x, y), C!ShiftRight(x, Width(s) - y)) =
            {BitOr(s, Low(s, a), Low(s, b)) : a \in C!ShiftLeft(x, y), b \in C!ShiftRight(x, Width(s) - y)}
      BY <1>4 DEF C!Rotated
    <3> QED BY <1>3, <2>3, <3>1 DEF C!Rol, CoreResults
  <2>4. CASE C!Ror(i)
    <3>1. C!Rotated(s, C!ShiftLeft(x, Width(s) - y), C!ShiftRight(x, y)) =
            {BitOr(s, Low(s, a), Low(s, b)) : a \in C!ShiftLeft(x, Width(s) - y), b \in C!ShiftRight(x, y)}
      BY <1>4 DEF C!Rotated
    <3> QED BY <1>3, <2>4, <3>1 DEF C!Ror, CoreResults
  <2>5. CASE C!Bse(i)
    <3>1. {C!BitOr(s, x, C!Low(s, a)) : a \in C!ShiftLeft(1, y)} = {BitOr(s, x, Low(s, a)) : a \in C!ShiftLeft(1, y)}
      BY <1>4
    <3> QED BY <1>3, <2>5, <3>1 DEF C!Bse, CoreResults
  <2>6. CASE C!Bcl(i)
    <3>0. i.op = "bcl" /\ C!ImplAnd(i, {C!BitAnd(i.size, C!B(i), C!BitNot(i.size, C!Low(i.size, a))) : a \in C!ShiftLeft(1, C!A(i))})
      BY <2>6 DEF C!Bcl
    <3>2. CoreResults(i) = {BitAnd(s, x, BitNot(s, Low(s, a))) : a \in C!ShiftLeft(1, y)}
      BY <3>0 DEF CoreResults
    <3>1. {C!BitAnd(s, x, C!BitNot(s, C!Low(s, a))) : a \in C!ShiftLeft(1, y)} =
            {BitAnd(s, x, BitNot(s, Low(s, a))) : a \in C!ShiftLeft(1, y)}
      BY <1>4
    <3> QED BY <1>3, <3>0, <3>1, <3>2
  <2>7. C!And(i) \/ C!Or(i) \/ C!Xor(i) \/ C!Sla(i) \/ C!Srl(i) \/ C!Sra(i)
        \/ C!Rol(i) \/ C!Ror(i) \/ C!Bse(i) \/ C!Bcl(i)
    BY <1>6 DEF CoreLogicals
  <2> QED BY <2>1, <2>2, <2>3, <2>4, <2>5, <2>6, <2>7
<1>7. CoreBecomes(i, i.op \in {"div", "rem"} /\ y = 0, CoreResults(i))
  <2>1. CASE C!Div(i) \/ C!Rem(i)
    BY <1>5, <2>1, Zenon DEF CoreBecomes, CoreTurns
  <2>2. CASE ~(C!Div(i) \/ C!Rem(i))
    <3>1. CoreBecomes(i, FALSE, CoreResults(i))
      BY <1>2, <1>6, <2>2, CoreComputes
    <3>2. i.op \notin {"div", "rem"}
      BY <2>2 DEF CoreLogicals, C!And, C!Or, C!Xor, C!Sla, C!Srl, C!Sra, C!Rol, C!Ror, C!Bse, C!Bcl
    <3> QED BY <3>2, <3>1, Zenon DEF CoreBecomes, CoreTurns
  <2> QED BY <2>1, <2>2
<1> QED BY <1>1, <1>2, <1>7

-----------------------------------------------------------------------------
(* Both have the same machine, and nothing in i is a reason for them to    *)
(* disagree.                                                               *)
Common(i) == rust = core /\ rust \in Machines /\ i \in Instructions /\ ~Differs(i)

LEMMA SameCondition ==
  ASSUME NEW i, Common(i)
  PROVE  R!Holds(i.cond) <=> ~C!Skips(i.cond)
<1>1. i.cond \in Conds /\ rust.zero \in BOOLEAN /\ rust.carry \in BOOLEAN /\ rust = core
  BY InstructionFacts, MachineFields DEF Common
<1> QED BY <1>1 DEF R!Holds, C!Skips, Conds

(* Two outcomes are one. *)
LEMMA TurnsMeet ==
  ASSUME NEW i, Common(i), NEW p, NEW q, NEW m, NEW n, RustTurns(i, p, m), CoreTurns(i, q, n),
         R!Holds(i.cond) => (p <=> q),
         ~R!Holds(i.cond) => ~p,
         R!Holds(i.cond) /\ ~p => m = n
  PROVE  rust' = core'
BY SameCondition, Zenon DEF RustTurns, CoreTurns, Common

LEMMA CommonReads ==
  ASSUME NEW i, Common(i)
  PROVE  /\ \A o, s : Reads(o, s) = Reach(rust, o, s)
         /\ i.op \notin SignedOps /\ i.dst.kind # "imm"
         /\ i.op \in C!WordOps => i.size = "word"
BY DEF Common, Differs, DecodedByOne, Reads, Reach, now

LEMMA CommonSource ==
  ASSUME NEW i, Common(i), i.src \in Operands(i.size), i.op \notin {"inc", "dec", "not", "pop"}
  PROVE  R!Holds(i.cond) => (R!SourceMapped(i) <=> Reach(rust, i.src, i.size))
<1>1. ASSUME R!SourceMapped(i) PROVE Reach(rust, i.src, i.size)
  BY <1>1, RustSource DEF Common
<1>2. ASSUME R!Holds(i.cond), Reach(rust, i.src, i.size) PROVE R!SourceMapped(i)
  BY <1>2, CommonReads DEF Common, Differs, OtherOperand
<1> QED BY <1>1, <1>2

(* What is mapped and not in ROM may be written. *)
LEMMA CommonWritable ==
  ASSUME rust \in Machines, NEW s \in Sizes, NEW o \in Operands(s), NEW t \in Sizes,
         o.kind # "imm", ~InRom(o)
  PROVE  Reach(rust, o, t) => Assignable(rust, o, t)
<1>1. CASE ~IsPointer(o)
  BY <1>1 DEF Assignable
<1>2. CASE IsPointer(o)
  <2>1. Pointer(rust, o) \in Word /\ Pointer(rust, o) \in Int
    BY <1>2, Points, WordNat
  <2>2. Bytes(t) \in Nat
    BY SizeFacts
  <2> QED BY <1>2, <2>1, <2>2, MachineAssumption DEF Assignable, Writable, Reach, Mapped, InRom, now
<1> QED BY <1>1, <1>2

LEMMA CommonPushed ==
  ASSUME rust \in Machines, NEW s \in Sizes, rust.reg["rsp"] <= RomStart
  PROVE  Mapped(Pushed(rust, s), s) <=> Writable(Pushed(rust, s), s)
<1> DEFINE r == rust.reg["rsp"]
           b == Bytes(s)
           m == Mod("word")
           a == Pushed(rust, s)
<1>1. r \in Word
  BY MachineFields, StackRegs
<1>2. r \in 0 .. m - 1 /\ m \in Nat \ {0} /\ b \in {1, 2, 4} /\ m > 4
  BY <1>1, SizeFacts, ModValues, WordSize DEF Word
<1>3. a = (r - b) % m
  BY DEF Pushed, Wrap
<1>4. a = IF r >= b THEN r - b ELSE m + r - b
  <2>1. CASE r >= b
    <3>1. (r - b) \in 0 .. m - 1
      BY <1>2, <2>1
    <3> HIDE DEF r, b, m, a
    <3>2. (r - b) % m = r - b
      BY <1>2, <3>1, Whole
    <3> QED BY <1>3, <2>1, <3>2
  <2>2. CASE r < b
    <3> HIDE DEF r, b, m, a
    <3>1. m + r - b \in 0 .. m - 1 /\ r - b \in Int /\ r - b = m * (-1) + (m + r - b)
      BY <1>2, <2>2
    <3>2. (r - b) % m = m + r - b
      BY <1>2, <3>1, DividesOnce
    <3> QED BY <1>2, <1>3, <2>2, <3>2
  <2> HIDE DEF r, b, m, a
  <2> QED BY <1>2, <2>1, <2>2
<1>5. RamSize \in Nat /\ RomStart \in Nat /\ RomSize \in Nat /\ RomStart + RomSize < m /\ r <= RomStart
  BY MachineAssumption
<1>6. /\ Mapped(a, s) <=> (a + b <= RamSize \/ (a >= RomStart /\ a + b <= RomStart + RomSize))
      /\ Writable(a, s) <=> a + b <= RamSize
  BY DEF Mapped, Writable
<1> HIDE DEF r, b, m, a
<1>7. Mapped(a, s) <=> Writable(a, s)
  BY <1>2, <1>4, <1>5, <1>6
<1> QED BY <1>7 DEF a

(* The count of a shift that is less than the width.                       *)
LEMMA CommonCount ==
  ASSUME rust \in Machines, NEW i \in Instructions, i.src \in Operands(i.size), R!SourceMapped(i),
         Src(rust, i) < Width(i.size)
  PROVE  R!Count(i) = Src(rust, i)
<1> DEFINE w == Width(i.size)
           m == Mod(i.size)
           x == R!Source(i)
           y == Src(rust, i)
<1>1. w \in {4, 8, 16, 32} /\ m = Pow(w) /\ x \in Int /\ m \in Nat \ {0}
  BY InstructionFacts, SizeFacts, RustSource, WordNat
<1>2. y = x % m /\ R!Count(i) = x % w /\ y < w
  BY RustSource, SameSizes DEF R!Count, Low
<1> HIDE DEF w, m, x, y
<1>3. \E k \in Int : m = w * k
  <2>1. CASE w = 4
    BY <1>1, <2>1, Powers
  <2>2. CASE w = 8
    BY <1>1, <2>2, Powers
  <2>3. CASE w = 16
    BY <1>1, <2>3, Powers
  <2>4. CASE w = 32
    BY <1>1, <2>4, Powers
  <2> QED BY <1>1, <2>1, <2>2, <2>3, <2>4
<1>4. PICK k \in Int : m = w * k
  BY <1>3
<1> DEFINE q == x \div m
<1>5. y \in 0 .. m - 1 /\ q \in Int /\ x = m * q + y
  BY <1>1, <1>2, Divides
<1> HIDE DEF q
<1>6. y \in 0 .. w - 1 /\ (k * q) \in Int /\ x = w * (k * q) + y
  <2>1. m * q = w * (k * q)
    BY <1>1, <1>4, <1>5
  <2> QED BY <1>1, <1>2, <1>5, <2>1
<1>7. x % w = y
  BY <1>1, <1>6, DividesOnce
<1> QED BY <1>2, <1>7 DEF y

-----------------------------------------------------------------------------
(* x is the exact result of fox32.c that leaves behind what r does. *)
SameResult(i, r, x) ==
  r.v = Low(i.size, x) /\ r.zero = (Low(i.size, x) = 0) /\ r.carry = rust.carry

LEMMA WordShift == ASSUME NEW s \in Sizes, NEW x \in Int PROVE Low(s, Low("word", x)) = Low(s, x)
BY LowOfWord DEF Low

LEMMA ShiftsMeet ==
  ASSUME NEW s \in Sizes, NEW x \in Of(s), NEW y \in 0 .. Width(s) - 1
  PROVE  /\ \A a \in C!ShiftLeft(x, y) : Low(s, a) = Low(s, x * Pow(y))
         /\ \A b \in C!ShiftRight(x, y) : b = x \div Pow(y) /\ Low(s, b) = x \div Pow(y)
<1>1. x \in Int /\ y \in Int /\ y \in 0 .. Width("word") - 1 /\ y \in 0 .. 32
  BY SizeFacts, WordNat
<1>2. Pow(y) \in Nat \ {0}
  BY <1>1, PowerPositive
<1>3. C!ShiftLeft(x, y) = {Low("word", x * Pow(y))} /\ C!ShiftRight(x, y) = {x \div Pow(y)}
  BY <1>1, CoreShifts
<1>4. x * Pow(y) \in Int
  BY <1>1, <1>2
<1>5. x \div Pow(y) \in Of(s)
  BY <1>2, Halved
<1> QED BY <1>3, <1>4, <1>5, WordShift, LowSame DEF Of

(* Of a shift by the whole width fox32.c has two results, as a count of    *)
(* nothing or of everything; a rotation joins both to the same value.      *)
LEMMA ShiftsWhole ==
  ASSUME NEW s \in Sizes, NEW x \in Of(s)
  PROVE  LET w == Width(s) IN
         /\ w < Width("word") => /\ \A a \in C!ShiftLeft(x, w) : Low(s, a) = 0
                                 /\ \A b \in C!ShiftRight(x, w) : Low(s, b) = 0
         /\ w = Width("word") => /\ \A a \in C!ShiftLeft(x, w) : Low(s, a) \in {x, 0}
                                 /\ \A b \in C!ShiftRight(x, w) : Low(s, b) \in {x, 0}
<1> DEFINE w == Width(s)
<1>1. x \in Int /\ w \in 0 .. 32 /\ w \in Int /\ w <= Width("word") /\ Width("word") \in Int /\ w >= 0
  BY SizeFacts, WordNat
<1>2. Pow(w) \in Nat \ {0} /\ Mod(s) = Pow(w) /\ x \in 0 .. Pow(w) - 1
  BY <1>1, PowerPositive, SizeFacts DEF Of
<1>3. x \div Pow(w) = 0
  BY <1>2, Whole
<1>4. Low(s, x * Pow(w)) = 0
  BY Rotates, <1>1
<1>5. x * Pow(w) \in Int /\ 0 \in Of(s)
  BY <1>1, <1>2 DEF Of
<1>6. Low(s, 0) = 0 /\ Low(s, x) = x
  BY <1>5, LowSame DEF Of
<1>7. Low(s, Low("word", x)) = x
  BY <1>1, <1>6, WordShift
<1>8. ASSUME w < Width("word")
      PROVE  /\ \A a \in C!ShiftLeft(x, w) : Low(s, a) = 0
             /\ \A b \in C!ShiftRight(x, w) : Low(s, b) = 0
  <2>1. w \in 0 .. Width("word") - 1
    BY <1>1, <1>8
  <2>2. C!ShiftLeft(x, w) = {Low("word", x * Pow(w))} /\ C!ShiftRight(x, w) = {x \div Pow(w)}
    BY <1>1, <2>1, CoreShifts
  <2> QED BY <1>3, <1>4, <1>5, <1>6, <2>2, WordShift
<1>9. ASSUME w = Width("word")
      PROVE  /\ \A a \in C!ShiftLeft(x, w) : Low(s, a) \in {x, 0}
             /\ \A b \in C!ShiftRight(x, w) : Low(s, b) \in {x, 0}
  <2>1. C!ShiftLeft(x, w) = {Low("word", x), 0} /\ C!ShiftRight(x, w) = {x, x \div Pow(w)}
    BY <1>1, <1>9, CoreShifts
  <2> QED BY <1>3, <1>6, <1>7, <2>1
<1> QED BY <1>8, <1>9 DEF w

LEMMA OrItself ==
  ASSUME NEW s \in Sizes, NEW x \in Of(s)
  PROVE  BitOr(s, x, x) = x /\ BitOr(s, 0, x) = x /\ BitOr(s, x, 0) = x
<1>1. BitAnd(s, x, x) = x /\ x \in Int
  BY Logicals, WordNat
<1>2. BitOr(s, x, x) = x
  BY <1>1 DEF BitOr
<1>3. Width(s) \in Nat /\ 0 \in 0 .. Width(s)
  BY SizeFacts
<1> DEFINE h == Low(s, x * Pow(0))
           l == x \div Pow(Width(s) - 0)
           h1 == Low(s, x * Pow(Width(s)))
           l1 == x \div Pow(Width(s) - Width(s))
<1>4. BitOr(s, h, l) = h + l /\ h = x /\ l = 0
  BY <1>3, Rotates
<1>5. BitOr(s, h1, l1) = h1 + l1 /\ h1 = 0 /\ l1 = x
  BY <1>3, Rotates
<1> HIDE DEF h, l, h1, l1
<1> QED BY <1>1, <1>2, <1>4, <1>5

LEMMA RolMeets ==
  ASSUME NEW s \in Sizes, NEW x \in Of(s), NEW y \in 0 .. Width(s) - 1,
         NEW a \in C!ShiftLeft(x, y), NEW b \in C!ShiftRight(x, Width(s) - y)
  PROVE  BitOr(s, Low(s, a), Low(s, b)) = Low(s, x * Pow(y)) + x \div Pow(Width(s) - y)
<1> DEFINE w == Width(s)
           h == Low(s, x * Pow(y))
           l == x \div Pow(w - y)
<1>1. w \in Nat /\ y \in 0 .. w /\ w <= Width("word") /\ Width("word") \in Nat /\ y \in Int /\ x \in Int
  BY SizeFacts, WordNat
<1>2. Low(s, a) = h
  BY ShiftsMeet
<1>3. BitOr(s, h, l) = h + l /\ (y = 0 => h = x /\ l = 0)
  BY <1>1, Rotates
<1>4. CASE y # 0
  <2>1. w - y \in 0 .. w - 1
    BY <1>1, <1>4
  <2>2. Low(s, b) = l
    BY <2>1, ShiftsMeet
  <2> QED BY <1>2, <1>3, <2>2
<1>5. CASE y = 0
  <2>1. w - y = w
    BY <1>1, <1>5
  <2>2. Low(s, b) \in {x, 0}
    BY <1>1, <2>1, ShiftsWhole
  <2>3. h = x /\ l = 0 /\ h + l = x
    BY <1>1, <1>3, <1>5
  <2>4. BitOr(s, x, Low(s, b)) = x
    BY <2>2, OrItself
  <2> QED BY <1>2, <2>3, <2>4
<1> QED BY <1>4, <1>5

LEMMA RorMeets ==
  ASSUME NEW s \in Sizes, NEW x \in Of(s), NEW y \in 0 .. Width(s) - 1,
         NEW a \in C!ShiftLeft(x, Width(s) - y), NEW b \in C!ShiftRight(x, y)
  PROVE  LET n == (Width(s) - y) % Width(s) IN
         BitOr(s, Low(s, a), Low(s, b)) = Low(s, x * Pow(n)) + x \div Pow(Width(s) - n)
<1> DEFINE w == Width(s)
           n == (w - y) % w
           h == Low(s, x * Pow(n))
           l == x \div Pow(w - n)
<1>1. w \in Nat \ {0} /\ w <= Width("word") /\ Width("word") \in Nat /\ y \in Int /\ x \in Int
  BY SizeFacts, WordNat
<1>2. Low(s, b) = x \div Pow(y)
  BY ShiftsMeet
<1>3. n = IF y = 0 THEN 0 ELSE w - y
  <2>1. y = 0 => w - y = w * 1 + 0 /\ 0 \in 0 .. w - 1
    BY <1>1
  <2>2. y # 0 => w - y \in 0 .. w - 1
    BY <1>1
  <2>3. w - y \in Int
    BY <1>1
  <2> HIDE DEF w
  <2>4. y = 0 => n = 0
    <3> SUFFICES ASSUME y = 0 PROVE (w - y) % w = 0
      OBVIOUS
    <3> QED BY <1>1, <2>1, <2>3, DividesOnce
  <2>5. y # 0 => n = w - y
    BY <1>1, <2>2, Whole
  <2> QED BY <2>4, <2>5
<1>4. n \in 0 .. w
  <2>0. y \in 0 .. w - 1
    OBVIOUS
  <2> HIDE DEF n, w
  <2>1. y = 0 \/ w - y \in 0 .. w
    BY <1>1, <2>0
  <2>2. 0 \in 0 .. w
    BY <1>1
  <2> QED BY <1>3, <2>1, <2>2
<1>5. BitOr(s, h, l) = h + l /\ (n = 0 => h = x /\ l = 0)
  BY <1>4, Rotates
<1>6. CASE y # 0
  <2>1. n \in 0 .. w - 1 /\ w - y = n /\ w - n = y
    BY <1>1, <1>3, <1>6
  <2>2. Low(s, a) = h
    BY <2>1, ShiftsMeet
  <2>3. Low(s, b) = l
    BY <1>2, <2>1
  <2> QED BY <1>5, <2>2, <2>3
<1>7. CASE y = 0
  <2>1. w - y = w /\ n = 0
    BY <1>1, <1>3, <1>7
  <2>2. Low(s, a) \in {x, 0}
    BY <1>1, <2>1, ShiftsWhole
  <2>3. h = x /\ l = 0 /\ h + l = x
    BY <1>1, <1>5, <2>1
  <2>4. x \div Pow(0) = x
    BY <1>1, Powers
  <2>5. Low(s, b) = x
    BY <1>2, <1>7, <2>4
  <2>6. BitOr(s, Low(s, a), x) = x
    BY <2>2, OrItself
  <2> QED BY <2>3, <2>5, <2>6
<1> QED BY <1>6, <1>7

-----------------------------------------------------------------------------
LEMMA SameShown ==
  ASSUME NEW i \in Instructions, NEW v \in Of(i.size), NEW x \in Int, Low(i.size, x) = v
  PROVE  /\ SameResult(i, R!Logical(v), x)
         /\ \A c : c = rust.carry => SameResult(i, R!Shifted(v, c), x)
         /\ rust.zero = (v = 0) => SameResult(i, R!Quiet(v), x)
BY DEF SameResult, R!Logical, R!Shifted, R!Quiet

LEMMA SameDefined ==
  ASSUME NEW i \in Instructions, NEW v \in Of(i.size)
  PROVE  Low(i.size, v) = v /\ v \in Int
<1>1. i.size \in Sizes
  BY InstructionFacts
<1> QED BY <1>1, LowSame, WordNat DEF Of

(* What the condition, the operands and Differs leave of a shift.          *)
LEMMA CommonShift ==
  ASSUME NEW i, Common(i), i.op \in ShiftOps \cup {"bse", "bcl", "bts"},
         R!Holds(i.cond), R!SourceMapped(i), R!DestMapped(i)
  PROVE  /\ i.op \in {"sla", "rol"} => R!TopBit(i) = rust.carry
         /\ i.op \in {"sra", "srl", "ror"} => R!BottomBit(i) = rust.carry
         /\ Src(rust, i) \in 0 .. Width(i.size) - 1 /\ R!Count(i) = Src(rust, i)
         /\ i.op = "sra" => Dst(rust, i) < Mod(i.size) \div 2
         /\ i.op = "bse" => rust.zero = FALSE
         /\ i.op = "bcl" => rust.zero = (BitAnd(i.size, Dst(rust, i), BitNot(i.size, Pow(Src(rust, i)))) = 0)
<1>1. /\ i \in Instructions /\ rust \in Machines
      /\ i.src \in Operands(i.size) /\ i.dst \in Operands(i.size) /\ i.size \in Sizes
  BY OperatorsApart, InstructionFacts DEF Common, TwoOps, ShiftOps
<1>2. Reads(i.dst, i.size)
  BY <1>1, CommonReads, RustDest
<1>3. R!S(i) = Src(rust, i) /\ R!D(i) = Dst(rust, i) /\ Src(rust, i) \in Of(i.size) /\ Dst(rust, i) \in Of(i.size)
  BY <1>1, RustSource, RustDest
<1>4. ~OtherResult(i)
  BY DEF Common, Differs
<1>5. rust.zero \in BOOLEAN /\ rust.carry \in BOOLEAN /\ Src(rust, i) \in Nat /\ Dst(rust, i) \in Nat
      /\ Width(i.size) \in Nat /\ Mod(i.size) \in Nat
  BY <1>1, <1>3, MachineFields, WordNat, SizeFacts
<1>6. ~(Src(rust, i) >= Width(i.size))
  BY <1>2, <1>3, <1>4 DEF OtherResult
<1>7. Src(rust, i) \in 0 .. Width(i.size) - 1 /\ Src(rust, i) < Width(i.size)
  BY <1>5, <1>6
<1>8. R!Count(i) = Src(rust, i)
  BY <1>1, <1>7, CommonCount
<1>9. /\ i.op \in {"sla", "rol"} => R!TopBit(i) = rust.carry
      /\ i.op \in {"sra", "srl", "ror"} => R!BottomBit(i) = rust.carry
      /\ i.op = "bse" => rust.zero = FALSE
  BY <1>2, <1>4, <1>5 DEF OtherResult, now
<1>10. i.op = "sra" => ~(Dst(rust, i) >= Mod(i.size) \div 2)
  BY <1>2, <1>3, <1>4 DEF OtherResult
<1>11. i.op = "sra" => Dst(rust, i) < Mod(i.size) \div 2
  BY <1>5, <1>10
<1>12. i.op = "bcl" => rust.zero = (BitAnd(i.size, Dst(rust, i), BitNot(i.size, Pow(Src(rust, i)))) = 0)
  BY <1>2, <1>3, <1>4, <1>5 DEF OtherResult, now, Pow
<1> QED BY <1>7, <1>8, <1>9, <1>11, <1>12

LEMMA UnsignedOnes ==
  ASSUME NEW s \in Sizes, NEW x \in Of(s), x < Mod(s) \div 2
  PROVE  Signed(s, x) = x
<1>1. x \in Int /\ Mod(s) \div 2 \in Int
  BY WordNat, SizeFacts
<1> DEFINE h == Mod(s) \div 2
<1>2. Signed(s, x) = IF x >= h THEN x - Mod(s) ELSE x
  BY DEF Signed
<1> HIDE DEF h
<1>3. ~(x >= h)
  <2>1. x < h
    BY DEF h
  <2> QED BY <1>1, <2>1 DEF h
<1> QED BY <1>2, <1>3

LEMMA LogicalsMeet ==
  ASSUME NEW i, Common(i), i.op \in Binaries \ {"add", "sub", "mul"},
         R!Holds(i.cond), R!SourceMapped(i), R!DestMapped(i),
         i.op \in {"div", "rem"} => Src(rust, i) # 0,
         NEW z \in CoreResults(i)
  PROVE  SameResult(i, RustResult(i), z)
<1> DEFINE s == i.size
           x == Dst(rust, i)
           y == Src(rust, i)
           w == Width(s)
<1>1. /\ i \in Instructions /\ rust \in Machines /\ rust = core
      /\ i.src \in Operands(i.size) /\ i.dst \in Operands(i.size) /\ s \in Sizes
  BY OperatorsApart, InstructionFacts DEF Common, Binaries, TwoOps, ShiftOps
<1>2. x \in Of(s) /\ y \in Of(s) /\ x \in Int /\ y \in Int
  BY <1>1, RustSource, RustDest, WordNat
<1>3. Fits(s, RustResult(i))
  BY <1>1, RustBinaryFits
<1>4. Dst(core, i) = x /\ Src(core, i) = y
  BY <1>1
<1>5. CASE i.op \in {"div", "rem"}
  <2>1. y \in Nat \ {0}
    BY <1>1, <1>2, <1>5, WordNat
  <2>2. x \div y \in Of(s) /\ x % y \in Of(s)
    <3> HIDE DEF x, y, s
    <3> QED BY <1>1, <1>2, <2>1, Halved
  <2>3. i.op = "div" => z = x \div y /\ RustResult(i) = R!Logical(x \div y)
    BY <1>4 DEF CoreResults, RustResult
  <2>4. i.op = "rem" => z = x % y /\ RustResult(i) = R!Logical(x % y)
    BY <1>4 DEF CoreResults, RustResult
  <2> QED BY <1>1, <1>5, <2>2, <2>3, <2>4, SameDefined, SameShown
<1>6. CASE i.op \in {"and", "or", "xor"}
  <2>1. BitAnd(s, x, y) \in Of(s) /\ BitOr(s, x, y) \in Of(s) /\ BitXor(s, x, y) \in Of(s)
    BY <1>1, <1>2, Logicals
  <2>2. i.op = "and" => z = BitAnd(s, x, y) /\ RustResult(i) = R!Logical(BitAnd(s, x, y))
    BY <1>4 DEF CoreResults, RustResult
  <2>3. i.op = "or" => z = BitOr(s, x, y) /\ RustResult(i) = R!Logical(BitOr(s, x, y))
    BY <1>4 DEF CoreResults, RustResult
  <2>4. i.op = "xor" => z = BitXor(s, x, y) /\ RustResult(i) = R!Logical(BitXor(s, x, y))
    BY <1>4 DEF CoreResults, RustResult
  <2> QED BY <1>1, <1>6, <2>1, <2>2, <2>3, <2>4, SameDefined, SameShown
<1>7. ASSUME i.op \in ShiftOps \cup {"bse", "bcl"}
      PROVE  /\ i.op \in {"sla", "rol"} => R!TopBit(i) = rust.carry
             /\ i.op \in {"sra", "srl", "ror"} => R!BottomBit(i) = rust.carry
             /\ y \in 0 .. w - 1 /\ R!Count(i) = y /\ y \in 0 .. w
             /\ Pow(y) \in Nat \ {0} /\ Pow(y) \in Of(s)
             /\ (w - y) % w \in 0 .. w
  <2>1. /\ i.op \in {"sla", "rol"} => R!TopBit(i) = rust.carry
        /\ i.op \in {"sra", "srl", "ror"} => R!BottomBit(i) = rust.carry
        /\ y \in 0 .. w - 1 /\ R!Count(i) = y
    BY <1>7, CommonShift DEF ShiftOps
  <2>2. R!Source(i) \in Word
    BY <1>1, RustSource
  <2>3. Pow(y) \in Of(s) /\ Pow(y) \in Nat \ {0} /\ (w - y) % w \in 0 .. w - 1
    BY <1>1, <2>1, <2>2, RustCounts
  <2>4. w \in Nat
    BY <1>1, SizeFacts
  <2> HIDE DEF w, y, s
  <2> QED BY <2>1, <2>3, <2>4
<1>8. CASE i.op = "sla"
  <2>1. z \in C!ShiftLeft(x, y)
    BY <1>4, <1>8 DEF CoreResults
  <2>2. Low(s, z) = Low(s, x * Pow(y))
    BY <1>1, <1>2, <1>7, <1>8, <2>1, ShiftsMeet DEF ShiftOps
  <2>3. RustResult(i) = R!Shifted(Low(s, x * Pow(y)), R!TopBit(i)) /\ Low(s, x * Pow(y)) \in Of(s)
    <3>1. R!Left(s, x, y) = Low(s, x * Pow(y)) /\ R!Left(s, x, y) \in Of(s) /\ R!Count(i) = y
      BY <1>1, <1>2, <1>7, <1>8, RustShifts DEF ShiftOps
    <3> QED BY <1>8, <3>1 DEF RustResult
  <2>4. z \in Int
    BY <1>2, <2>1, CoreShifts
  <2> QED BY <1>1, <1>7, <1>8, <2>2, <2>3, <2>4, SameShown DEF ShiftOps
<1>9. CASE i.op \in {"srl", "sra"}
  <2>1. z \in C!ShiftRight(x, y)
    <3>1. CASE i.op = "srl"
      BY <1>4, <3>1 DEF CoreResults
    <3>2. CASE i.op = "sra"
      <4>1. x < Mod(s) \div 2
        BY <3>2, CommonShift DEF ShiftOps
      <4>2. y < Mod(s) \div 2
        <5>1. w < Mod(s) \div 2 + 1 /\ w \in Nat /\ Mod(s) \div 2 \in Int
          BY <1>1, SizeFacts
        <5>2. y \in 0 .. w - 1
          BY <1>7, <3>2 DEF ShiftOps
        <5> DEFINE h == Mod(s) \div 2
        <5> HIDE DEF h, w, y
        <5>3. y < h
          <6>1. w < h + 1 /\ w \in Nat /\ h \in Int
            BY <5>1 DEF h
          <6> QED BY <5>2, <6>1
        <5> QED BY <5>3 DEF h
      <4>3. Signed(s, x) = x /\ Signed(s, y) = y
        BY <1>1, <1>2, <4>1, <4>2, UnsignedOnes
      <4> QED BY <1>4, <3>2, <4>3 DEF CoreResults
    <3> QED BY <1>9, <3>1, <3>2
  <2>2. z = x \div Pow(y) /\ Low(s, z) = x \div Pow(y)
    BY <1>1, <1>2, <1>7, <1>9, <2>1, ShiftsMeet DEF ShiftOps
  <2>3. RustResult(i) = R!Shifted(x \div Pow(y), R!BottomBit(i)) /\ x \div Pow(y) \in Of(s)
    <3>1. R!Right(x, y) = x \div Pow(y) /\ R!Right(x, y) \in Of(s) /\ R!Count(i) = y
      BY <1>1, <1>2, <1>7, <1>9, RustShifts DEF ShiftOps
    <3> QED BY <1>9, <3>1 DEF RustResult
  <2>4. z \in Int
    BY <1>2, <2>1, CoreShifts
  <2> QED BY <1>1, <1>7, <1>9, <2>2, <2>3, <2>4, SameShown DEF ShiftOps
<1>10. CASE i.op = "rol"
  <2>1. PICK a \in C!ShiftLeft(x, y), b \in C!ShiftRight(x, w - y) : z = BitOr(s, Low(s, a), Low(s, b))
    BY <1>4, <1>10 DEF CoreResults
  <2> DEFINE v == Low(s, x * Pow(y)) + x \div Pow(w - y)
  <2>2. z = v
    BY <1>1, <1>2, <1>7, <1>10, <2>1, RolMeets DEF ShiftOps
  <2>3. RustResult(i) = R!Shifted(v, R!TopBit(i)) /\ v \in Of(s)
    <3>1. R!RotateLeft(s, x, y) = v /\ R!RotateLeft(s, x, y) \in Of(s) /\ R!Count(i) = y
      BY <1>1, <1>2, <1>7, <1>10, RustShifts DEF ShiftOps
    <3> HIDE DEF v
    <3> QED BY <1>10, <3>1 DEF RustResult
  <2> HIDE DEF v
  <2> QED BY <1>1, <1>7, <1>10, <2>2, <2>3, SameShown, SameDefined DEF ShiftOps
<1>11. CASE i.op = "ror"
  <2>1. PICK a \in C!ShiftLeft(x, w - y), b \in C!ShiftRight(x, y) : z = BitOr(s, Low(s, a), Low(s, b))
    BY <1>4, <1>11 DEF CoreResults
  <2> DEFINE n == (w - y) % w
             v == Low(s, x * Pow(n)) + x \div Pow(w - n)
  <2>2. z = v
    BY <1>1, <1>2, <1>7, <1>11, <2>1, RorMeets DEF ShiftOps
  <2>3. RustResult(i) = R!Shifted(v, R!BottomBit(i)) /\ v \in Of(s)
    <3>1. n \in 0 .. w
      BY <1>7, <1>11 DEF ShiftOps
    <3>2. R!RotateLeft(s, x, n) = v /\ R!RotateLeft(s, x, n) \in Of(s) /\ R!Count(i) = y
      BY <1>1, <1>2, <1>7, <1>11, <3>1, RustShifts DEF ShiftOps
    <3> HIDE DEF v
    <3> QED BY <1>11, <3>2 DEF RustResult
  <2> HIDE DEF v
  <2> QED BY <1>1, <1>7, <1>11, <2>2, <2>3, SameShown, SameDefined DEF ShiftOps
<1>12. CASE i.op \in {"bse", "bcl"}
  <2> DEFINE p == Pow(y)
  <2>1. y \in 0 .. w - 1 /\ R!Count(i) = y /\ p \in Of(s) /\ p \in Nat \ {0} /\ 2 ^ R!Count(i) = p
    BY <1>7, <1>12 DEF Pow
  <2>2. \A a \in C!ShiftLeft(1, y) : Low(s, a) = p
    <3>1. 1 \in Of(s)
      <4>1. 2 <= Mod(s) /\ Mod(s) \in Nat
        BY <1>1, ModValues, SizeFacts DEF Sizes
      <4> QED BY <4>1 DEF Of
    <3>2. \A a \in C!ShiftLeft(1, y) : Low(s, a) = Low(s, 1 * Pow(y))
      BY <1>1, <2>1, <3>1, ShiftsMeet
    <3>3. 1 * Pow(y) = p
      BY <2>1
    <3>4. Low(s, p) = p
      BY <1>1, <2>1, LowSame DEF Of
    <3> QED BY <3>2, <3>3, <3>4
  <2> DEFINE vs == BitOr(s, x, p)
             vc == BitAnd(s, x, BitNot(s, p))
  <2>3. vs \in Of(s) /\ vs >= p /\ BitNot(s, p) \in Of(s)
    BY <1>1, <1>2, <2>1, Logicals
  <2>4. vc \in Of(s) /\ vs # 0
    <3>1. vc \in Of(s)
      BY <1>1, <1>2, <2>3, Logicals
    <3>2. vs \in Int /\ p > 0
      BY <1>1, <2>1, <2>3, WordNat
    <3> HIDE DEF vs, p
    <3> QED BY <2>1, <2>3, <3>1, <3>2
  <2>5. i.op = "bse" => z = vs /\ RustResult(i) = R!Quiet(vs)
    BY <1>4, <2>1, <2>2 DEF CoreResults, RustResult
  <2>6. i.op = "bcl" => z = vc /\ RustResult(i) = R!Quiet(vc)
    BY <1>4, <2>1, <2>2 DEF CoreResults, RustResult
  <2>7. i.op = "bse" => rust.zero = (vs = 0)
    BY <1>12, <2>4, CommonShift
  <2>8. i.op = "bcl" => rust.zero = (vc = 0)
    BY <1>12, CommonShift
  <2> HIDE DEF vs, vc
  <2> QED BY <1>1, <1>12, <2>3, <2>4, <2>5, <2>6, <2>7, <2>8, SameShown, SameDefined
<1> QED BY <1>5, <1>6, <1>8, <1>9, <1>10, <1>11, <1>12 DEF Binaries

-----------------------------------------------------------------------------
(* The operands of an instruction with two of them. *)
LEMMA CommonTwo ==
  ASSUME NEW i, Common(i), i.op \in TwoOps
  PROVE  /\ i \in Instructions /\ i.size \in Sizes /\ i.dst.kind # "imm"
         /\ i.src \in Operands(i.size) /\ i.dst \in Operands(i.size)
         /\ R!DestMapped(i) = Reach(rust, i.dst, i.size)
         /\ Reach(core, i.src, i.size) = Reach(rust, i.src, i.size)
         /\ Reach(core, i.dst, i.size) = Reach(rust, i.dst, i.size)
         /\ R!Holds(i.cond) => (R!SourceMapped(i) <=> Reach(rust, i.src, i.size))
         /\ ~R!Holds(i.cond) => R!SourceMapped(i)
<1>1. /\ i \in Instructions /\ rust \in Machines /\ rust = core
      /\ i.src \in Operands(i.size) /\ i.dst \in Operands(i.size) /\ i.size \in Sizes
  BY OperatorsApart, InstructionFacts DEF Common
<1>2. R!DestMapped(i) = Reach(rust, i.dst, i.size)
  BY <1>1, RustDest
<1>3. R!Holds(i.cond) => (R!SourceMapped(i) <=> Reach(rust, i.src, i.size))
  BY <1>1, CommonSource DEF TwoOps, ShiftOps, SignedOps
<1>4. ~R!Holds(i.cond) => R!SourceMapped(i)
  BY DEF Common, Differs, SkippedByOne
<1> QED BY <1>1, <1>2, <1>3, <1>4, CommonReads

(* A destination in memory that is mapped is not in ROM. *)
LEMMA CommonDest ==
  ASSUME NEW i, Common(i), i.op \in TwoOps \ {"cmp", "bts", "out"}
  PROVE  /\ Reach(rust, i.dst, i.size) => Assignable(rust, i.dst, i.size)
         /\ Assignable(rust, i.dst, i.size) => Reach(rust, i.dst, i.size)
         /\ Assignable(core, i.dst, i.size) = Assignable(rust, i.dst, i.size)
<1>1. ~InRom(i.dst) /\ rust \in Machines /\ rust = core
  BY DEF Common, Differs, WritesRom
<1>2. Reach(rust, i.dst, i.size) => Assignable(rust, i.dst, i.size)
  BY <1>1, CommonTwo, CommonWritable
<1>3. Assignable(rust, i.dst, i.size) => Reach(rust, i.dst, i.size)
  BY DEF Assignable, Reach, Writable, Mapped
<1> QED BY <1>1, <1>2, <1>3

CoreArithmetic(i) == C!Add(i) \/ C!Sub(i) \/ C!Mul(i)

ExactResult(i) ==
  CASE i.op = "add" -> Dst(core, i) + Src(core, i)
    [] i.op = "sub" -> Dst(core, i) - Src(core, i)
    [] i.op = "mul" -> Dst(core, i) * Src(core, i)

LEMMA CoreArithmeticTurn ==
  ASSUME core \in Machines, NEW i \in Instructions, CoreArithmetic(i)
  PROVE  /\ i.op \in {"add", "sub", "mul"}
         /\ CoreTurns(i, CoreFaults(i), CoreGets(i, i.dst, ExactResult(i), ExactResult(i) \notin Of(i.size)))
<1>1. i.op \in {"add", "sub", "mul"}
  BY DEF CoreArithmetic, C!Add, C!Sub, C!Mul
<1>2. i.dst \in Operands(i.size)
  BY <1>1, OperatorsApart DEF TwoOps
<1>3. C!Unsigned(i.size) = Of(i.size)
  BY SameSizes DEF C!Unsigned, Of
<1>4. C!A(i) = Src(core, i) /\ C!B(i) = Dst(core, i)
  BY CoreParts
<1>5. C!ImplAdd(i, ExactResult(i), Of(i.size))
  BY <1>3, <1>4 DEF CoreArithmetic, C!Add, C!Sub, C!Mul, ExactResult
<1> QED BY <1>1, <1>2, <1>5, CoreBodies

LEMMA ArithmeticMeets ==
  ASSUME NEW i, Common(i), i.op \in {"add", "sub", "mul"}
  PROVE  CoreGets(i, i.dst, ExactResult(i), ExactResult(i) \notin Of(i.size)) =
           Gets(rust, i, i.dst, RustResult(i).v, RustResult(i).zero, RustResult(i).carry)
<1>1. rust = core
  BY DEF Common
<1> DEFINE x == ExactResult(i)
<1>2. RustResult(i) = R!Arithmetic(i.size, x)
  BY <1>1 DEF RustResult, ExactResult
<1> HIDE DEF x
<1>3. R!Arithmetic(i.size, x) = [v |-> Low(i.size, x), zero |-> Low(i.size, x) = 0, carry |-> x \notin Of(i.size)]
  BY SameNumbers, SameSizes DEF R!Arithmetic, Of
<1>4. RustResult(i).v = Low(i.size, x) /\ RustResult(i).zero = (Low(i.size, x) = 0)
      /\ RustResult(i).carry = (x \notin Of(i.size))
  BY <1>2, <1>3
<1> QED BY <1>1, <1>4 DEF CoreGets, x

LEMMA BinariesMeet ==
  ASSUME NEW i, Common(i), RustBinaries(i), CoreArithmetic(i) \/ CoreLogicals(i)
  PROVE  rust' = core'
<1> DEFINE panics == \/ ~R!SourceMapped(i) \/ ~R!DestMapped(i)
                     \/ i.op \in {"div", "rem"} /\ R!DividesByZero(i)
           r == RustResult(i)
           m == Gets(rust, i, i.dst, r.v, r.zero, r.carry)
           traps == i.op \in {"div", "rem"} /\ Src(core, i) = 0
           faults == CoreFaults(i) \/ traps
<1>1. i.op \in Binaries /\ RustTurns(i, panics, m)
  BY RustBinaryTurn DEF RustTurns, Common
<1>2. i.op \in TwoOps \ {"cmp", "bts", "out", "mov", "rta"}
  BY <1>1 DEF Binaries, TwoOps, ShiftOps
<1>3. /\ i \in Instructions /\ i.size \in Sizes /\ rust \in Machines /\ rust = core /\ core \in Machines
      /\ i.src \in Operands(i.size) /\ i.dst \in Operands(i.size)
  BY <1>2, CommonTwo DEF Common
<1>4. R!Holds(i.cond) => (panics <=> faults)
  <2>1. ASSUME R!Holds(i.cond), R!SourceMapped(i)
        PROVE  R!DividesByZero(i) <=> Src(core, i) = 0
    BY <1>3, <2>1, RustSource DEF R!DividesByZero
  <2> QED BY <1>2, <2>1, CommonTwo, CommonDest DEF CoreFaults
<1>5. ~R!Holds(i.cond) => ~panics
  <2>1. ASSUME ~R!Holds(i.cond) PROVE R!SourceMapped(i) /\ R!DestMapped(i)
    BY <1>2, <2>1, CommonTwo, CommonReads DEF Common, Differs, SkippedByOne
  <2>2. ASSUME ~R!Holds(i.cond), i.op \in {"div", "rem"} PROVE ~IsPointer(i.dst)
    BY <2>2 DEF Common, Differs, SkippedByOne
  <2>3. R!IsPointer(i.dst) = IsPointer(i.dst)
    BY SameOperands
  <2> QED BY <2>1, <2>2, <2>3 DEF R!DividesByZero
<1>6. CASE CoreArithmetic(i)
  <2> DEFINE n == CoreGets(i, i.dst, ExactResult(i), ExactResult(i) \notin Of(i.size))
  <2>1. i.op \in {"add", "sub", "mul"} /\ CoreTurns(i, CoreFaults(i), n)
    BY <1>3, <1>6, CoreArithmeticTurn
  <2>2. n = m
    BY <2>1, ArithmeticMeets
  <2>3. R!Holds(i.cond) => (panics <=> CoreFaults(i))
    BY <1>4, <2>1
  <2> HIDE DEF n, m, panics
  <2> QED BY <1>1, <1>5, <2>1, <2>2, <2>3, TurnsMeet
<1>7. CASE CoreLogicals(i)
  <2>1. i.op \in Binaries \ {"add", "sub", "mul"} /\ CoreBecomes(i, traps, CoreResults(i))
    BY <1>3, <1>7, CoreLogicalTurn
  <2>2. CASE (C!Skips(i.cond) \/ faults) /\ CoreTurns(i, faults, Died(core))
    <3>1. R!Holds(i.cond) /\ ~panics => m = Died(core)
      BY <1>4, <2>2, SameCondition
    <3> HIDE DEF m, panics, faults
    <3> QED BY <1>1, <1>4, <1>5, <2>2, <3>1, TurnsMeet
  <2>3. CASE \E x \in CoreResults(i) : CoreTurns(i, faults, CoreGets(i, i.dst, x, core.carry))
    <3>1. PICK x \in CoreResults(i) : CoreTurns(i, faults, CoreGets(i, i.dst, x, core.carry))
      BY <2>3
    <3>2. R!Holds(i.cond) /\ ~panics => m = CoreGets(i, i.dst, x, core.carry)
      <4>1. SUFFICES ASSUME R!Holds(i.cond), ~panics PROVE m = CoreGets(i, i.dst, x, core.carry)
        OBVIOUS
      <4>2. i.op \in {"div", "rem"} => Src(rust, i) # 0
        BY <1>3, <1>4, <4>1
      <4>3. SameResult(i, r, x)
        BY <2>1, <4>1, <4>2, LogicalsMeet
      <4> QED BY <1>3, <4>3 DEF SameResult, CoreGets
    <3> DEFINE n == CoreGets(i, i.dst, x, core.carry)
    <3> HIDE DEF m, panics, faults, n
    <3>3. CoreTurns(i, faults, n) /\ (R!Holds(i.cond) /\ ~panics => m = n)
      BY <3>1, <3>2 DEF n
    <3> QED BY <1>1, <1>4, <1>5, <3>3, TurnsMeet
  <2> QED BY <2>1, <2>2, <2>3 DEF CoreBecomes
<1> QED BY <1>6, <1>7

-----------------------------------------------------------------------------
(* The other cases of vm_execute, in terms of the machine.                 *)

CoreReads(i) == Reach(core, i.src, i.size) /\ Reach(core, i.dst, i.size)

LEMMA CoreTests ==
  ASSUME NEW i
  PROVE  /\ C!Cmp(i) => LET x == Dst(core, i) - Src(core, i) IN
              core' = IF CoreReads(i)
                      THEN [Passed(core, i) EXCEPT !.zero = x = 0, !.carry = x \notin Of(i.size)]
                      ELSE Died(core)
         /\ C!Bts(i) =>
              \/ CoreReads(i) /\ \E z \in C!ShiftLeft(1, Src(core, i)) :
                   core' = [Passed(core, i) EXCEPT !.zero = BitAnd(i.size, Dst(core, i), Low(i.size, z)) = 0]
              \/ ~CoreReads(i) /\ core' = Died(core)
<1> DEFINE x == Dst(core, i) - Src(core, i)
           m == [Passed(core, i) EXCEPT !.zero = x = 0, !.carry = x \notin Of(i.size)]
<1>1. C!B(i) = Dst(core, i) /\ C!A(i) = Src(core, i) /\ C!Moved(i) = Passed(core, i)
      /\ (C!Readable(i.src, i.size) /\ C!Readable(i.dst, i.size)) = CoreReads(i)
      /\ (C!Dies <=> core' = Died(core))
  BY CoreParts DEF CoreReads
<1>2. C!Unsigned(i.size) = Of(i.size)
  BY SameSizes DEF C!Unsigned, Of
<1>3. ASSUME C!Cmp(i) PROVE core' = IF CoreReads(i) THEN m ELSE Died(core)
  <2>1. C!Compared(i, {[C!Moved(i) EXCEPT !.zero = C!B(i) - C!A(i) = 0,
                                           !.carry = C!B(i) - C!A(i) \notin C!Unsigned(i.size)]})
    BY <1>3, Zenon DEF C!Cmp
  <2>2. C!Compared(i, {m})
    BY <1>1, <1>2, <2>1
  <2> HIDE DEF m
  <2> QED BY <1>1, <2>2 DEF C!Compared
<1>4. ASSUME C!Bts(i)
      PROVE  \/ CoreReads(i) /\ \E z \in C!ShiftLeft(1, Src(core, i)) :
                  core' = [Passed(core, i) EXCEPT !.zero = BitAnd(i.size, Dst(core, i), Low(i.size, z)) = 0]
             \/ ~CoreReads(i) /\ core' = Died(core)
  <2>1. CASE ~CoreReads(i)
    BY <1>1, <1>4, <2>1, Zenon DEF C!Bts, C!Compared
  <2>2. CASE CoreReads(i)
    <3>1. PICK z \in C!ShiftLeft(1, C!A(i)) :
            core' = [C!Moved(i) EXCEPT !.zero = C!BitAnd(i.size, C!B(i), C!Low(i.size, z)) = 0]
      BY <1>1, <1>4, <2>2 DEF C!Bts, C!Compared
    <3>2. C!BitAnd(i.size, C!B(i), C!Low(i.size, z)) = BitAnd(i.size, Dst(core, i), Low(i.size, z))
      BY <1>1, SameLogicals, SameNumbers
    <3> QED BY <1>1, <2>2, <3>1, <3>2
  <2> QED BY <2>1, <2>2
<1> QED BY <1>3, <1>4

CoreMovFaults(i) == ~Reach(core, i.src, i.size) \/ ~Assignable(core, i.dst, i.size)

LEMMA CoreMoves ==
  ASSUME NEW i
  PROVE  /\ C!MovFaults(i) = CoreMovFaults(i)
         /\ C!Mov(i) => CoreTurns(i, CoreMovFaults(i), Put(Passed(core, i), i.dst, i.size, Src(core, i)))
         /\ C!Movz(i) => CoreTurns(i, CoreMovFaults(i),
              Put(Passed(core, i), i.dst, IF i.dst.kind = "reg" THEN "word" ELSE i.size, Src(core, i)))
         /\ C!Rta(i) => CoreTurns(i, CoreMovFaults(i),
              Put(Passed(core, i), i.dst, "word", Wrap(core.ip + Src(core, i))))
<1>1. C!MovFaults(i) = CoreMovFaults(i)
  BY CoreParts DEF C!MovFaults, CoreMovFaults
<1>2. \A s, x : C!Put(C!Moved(i), i.dst, s, x) = Put(Passed(core, i), i.dst, s, x)
  BY CoreParts, SameOperands
<1>3. C!A(i) = Src(core, i) /\ C!Base(C!A(i)) = Wrap(core.ip + Src(core, i))
  BY CoreParts
<1>4. ASSUME C!Mov(i)
      PROVE  CoreTurns(i, CoreMovFaults(i), Put(Passed(core, i), i.dst, i.size, Src(core, i)))
  BY <1>1, <1>2, <1>3, <1>4, CoreOutcome, Zenon DEF C!Mov
<1>5. ASSUME C!Movz(i)
      PROVE  CoreTurns(i, CoreMovFaults(i),
               Put(Passed(core, i), i.dst, IF i.dst.kind = "reg" THEN "word" ELSE i.size, Src(core, i)))
  BY <1>1, <1>2, <1>3, <1>5, CoreOutcome, Zenon DEF C!Movz
<1>6. ASSUME C!Rta(i)
      PROVE  CoreTurns(i, CoreMovFaults(i),
               Put(Passed(core, i), i.dst, "word", Wrap(core.ip + Src(core, i))))
  BY <1>1, <1>2, <1>3, <1>6, CoreOutcome, Zenon DEF C!Rta
<1> QED BY <1>1, <1>4, <1>5, <1>6

LEMMA CoreIn ==
  ASSUME NEW i, NEW v, C!In(i, v)
  PROVE  CoreTurns(i, CoreMovFaults(i),
           Put([Passed(core, i) EXCEPT !.io = Append(@, <<"in", Src(core, i), v>>)], i.dst, "word", v))
<1> DEFINE m == [Passed(core, i) EXCEPT !.io = Append(@, <<"in", Src(core, i), v>>)]
           n == Put(m, i.dst, "word", v)
<1>1. C!A(i) = Src(core, i) /\ C!Moved(i) = Passed(core, i) /\ C!Put(m, i.dst, "word", v) = n
  BY CoreParts, SameOperands
<1>2. C!Outcome(i, CoreMovFaults(i), n)
  BY <1>1, CoreMoves, Zenon DEF C!In
<1> HIDE DEF n
<1>3. CoreTurns(i, CoreMovFaults(i), n)
  BY <1>2, CoreOutcome
<1> QED BY <1>3 DEF n

LEMMA CoreOut ==
  ASSUME NEW i, C!Out(i)
  PROVE  CoreTurns(i, ~Reach(core, i.src, "word") \/ ~Reach(core, i.dst, "word"),
           [Passed(core, i) EXCEPT !.io = Append(@, <<"out", Dst(core, i), Src(core, i)>>)])
<1> DEFINE q == ~Reach(core, i.src, "word") \/ ~Reach(core, i.dst, "word")
           n == [Passed(core, i) EXCEPT !.io = Append(@, <<"out", Dst(core, i), Src(core, i)>>)]
<1>1. C!A(i) = Src(core, i) /\ C!B(i) = Dst(core, i) /\ C!Moved(i) = Passed(core, i)
      /\ (~C!Readable(i.src, "word") \/ ~C!Readable(i.dst, "word")) = q
  BY CoreParts
<1> HIDE DEF q
<1>2. C!Outcome(i, q, n)
  BY <1>1, Zenon DEF C!Out
<1> HIDE DEF n
<1>3. CoreTurns(i, q, n)
  BY <1>2, CoreOutcome
<1> QED BY <1>3 DEF q, n

CoreTarget(i) == IF i.op \in {"jmp", "call", "loop"} THEN Src(core, i) ELSE Wrap(core.ip + Src(core, i))

LEMMA CoreJumps ==
  ASSUME NEW i, C!Jmp(i) \/ C!Rjmp(i)
  PROVE  CoreTurns(i, ~Reach(core, i.src, "word"), [core EXCEPT !.ip = CoreTarget(i)])
<1> DEFINE q == ~Reach(core, i.src, "word")
           a == CoreTarget(i)
           n == [core EXCEPT !.ip = a]
<1>1. C!Base(C!A(i)) = Wrap(core.ip + Src(core, i)) /\ C!A(i) = Src(core, i)
      /\ (~C!Readable(i.src, "word")) = q
  BY CoreParts
<1>2. C!ImplJmp(i, a)
  BY <1>1 DEF C!Jmp, C!Rjmp, CoreTarget
<1> HIDE DEF a
<1>3. C!Outcome(i, q, n)
  BY <1>1, <1>2 DEF C!ImplJmp
<1> HIDE DEF q, n
<1>4. CoreTurns(i, q, n)
  BY <1>3, CoreOutcome
<1> QED BY <1>4 DEF q, n, a

LEMMA CoreCalls ==
  ASSUME NEW i, C!Call(i) \/ C!Rcall(i)
  PROVE  CoreTurns(i, ~Reach(core, i.src, "word") \/ ~Writable(Pushed(core, "word"), "word"),
           [Push(core, "word", Wrap(core.ip + AssembledLength(i))) EXCEPT !.ip = CoreTarget(i)])
<1> DEFINE a == CoreTarget(i)
           q == ~Reach(core, i.src, "word") \/ ~Writable(Pushed(core, "word"), "word")
           after == Wrap(core.ip + AssembledLength(i))
           n == [Push(core, "word", after) EXCEPT !.ip = a]
<1>1. C!Base(C!A(i)) = Wrap(core.ip + Src(core, i)) /\ C!A(i) = Src(core, i) /\ C!After(i) = after
  BY CoreParts
<1>2. C!Pushed(core, "word") = Pushed(core, "word") /\ C!Push(core, "word", after) = Push(core, "word", after)
  BY SameStack
<1>3. C!Readable(i.src, "word") = Reach(core, i.src, "word")
      /\ C!Writable(Pushed(core, "word"), "word") = Writable(Pushed(core, "word"), "word")
  BY CoreParts
<1>4. C!ImplCall(i, a)
  BY <1>1 DEF C!Call, C!Rcall, CoreTarget
<1> HIDE DEF a, after
<1>5. C!Outcome(i, q, n)
  BY <1>1, <1>2, <1>3, <1>4, Zenon DEF C!ImplCall
<1> HIDE DEF q, n
<1>6. CoreTurns(i, q, n)
  BY <1>5, CoreOutcome
<1> QED BY <1>6 DEF q, n, a, after

LEMMA CoreLoops ==
  ASSUME core \in Machines, NEW i, C!Loop(i) \/ C!Rloop(i)
  PROVE  LET count == Wrap(core.reg["r31"] - 1)
             n == [core EXCEPT !.reg["r31"] = count]
             target == Value(n, i.src, "word")
         IN  core' = IF C!Skips(i.cond) THEN Passed(core, i)
                     ELSE IF count = 0 THEN [n EXCEPT !.ip = Wrap(core.ip + AssembledLength(i))]
                     ELSE IF ~Reach(n, i.src, "word") THEN Died(core)
                     ELSE [n EXCEPT !.ip = IF i.op = "loop" THEN target ELSE Wrap(core.ip + target)]
<1> DEFINE count == Wrap(core.reg["r31"] - 1)
           n == [core EXCEPT !.reg["r31"] = count]
           target == Value(n, i.src, "word")
<1>1. C!Counted = n
  BY SameNumbers DEF C!Counted
<1>2. n.reg["r31"] = count
  BY StackRegs DEF Machines
<1> HIDE DEF n
<1>3. C!LoopTarget(i) = target /\ (C!IsPointer(i.src) /\ ~C!Mapped(C!Pointer(n, i.src), "word")) = ~Reach(n, i.src, "word")
  BY <1>1, SameOperands, SameMemory DEF C!LoopTarget, Reach
<1>4. C!Moved(i) = Passed(core, i) /\ C!After(i) = Wrap(core.ip + AssembledLength(i))
      /\ C!Base(target) = Wrap(core.ip + target) /\ (C!Dies <=> core' = Died(core))
  BY CoreParts
<1> HIDE DEF count, target
<1>5. core' = IF C!Skips(i.cond) THEN Passed(core, i)
              ELSE IF count = 0 THEN [n EXCEPT !.ip = Wrap(core.ip + AssembledLength(i))]
              ELSE IF ~Reach(n, i.src, "word") THEN Died(core)
              ELSE [n EXCEPT !.ip = IF i.op = "loop" THEN target ELSE Wrap(core.ip + target)]
  <2>1. CASE C!Loop(i)
    <3>1. i.op = "loop" /\ C!ImplLoop(i, FALSE)
      BY <2>1 DEF C!Loop
    <3> QED BY <1>1, <1>2, <1>3, <1>4, <3>1 DEF C!ImplLoop
  <2>2. CASE C!Rloop(i)
    <3>1. i.op = "rloop" /\ C!ImplLoop(i, TRUE)
      BY <2>2 DEF C!Rloop
    <3> QED BY <1>1, <1>2, <1>3, <1>4, <3>1 DEF C!ImplLoop
  <2> QED BY <2>1, <2>2
<1> QED BY <1>5 DEF n, count, target

LEMMA CorePush ==
  ASSUME NEW i, C!PushCase(i)
  PROVE  CoreTurns(i, ~Reach(core, i.src, i.size) \/ ~Writable(Pushed(core, i.size), i.size),
           Push(Passed(core, i), i.size, Src(core, i)))
<1> DEFINE q == ~Reach(core, i.src, i.size) \/ ~Writable(Pushed(core, i.size), i.size)
           n == Push(Passed(core, i), i.size, Src(core, i))
<1>1. /\ C!Moved(i) = Passed(core, i) /\ C!A(i) = Src(core, i)
      /\ C!Readable(i.src, i.size) = Reach(core, i.src, i.size)
      /\ C!Writable(Pushed(core, i.size), i.size) = Writable(Pushed(core, i.size), i.size)
  BY CoreParts
<1>2. C!Pushed(core, i.size) = Pushed(core, i.size) /\ C!Push(Passed(core, i), i.size, Src(core, i)) = n
  BY SameStack
<1>3. C!Outcome(i, q, n)
  BY <1>1, <1>2, Zenon DEF C!PushCase
<1> HIDE DEF q, n
<1>4. CoreTurns(i, q, n)
  BY <1>3, CoreOutcome
<1> QED BY <1>4 DEF q, n

LEMMA CorePop ==
  ASSUME NEW i, C!PopCase(i)
  PROVE  LET m == Popped(Passed(core, i), i.size) IN
         CoreTurns(i, \/ ~Mapped(core.reg["rsp"], i.size)
                      \/ i.src.kind = "imm"
                      \/ IsPointer(i.src) /\ ~Writable(Pointer(m, i.src), i.size),
                   Put(m, i.src, i.size, Top(core, i.size)))
<1> DEFINE s == i.size
           o == i.src
           top == Top(core, s)
           m == Popped(Passed(core, i), s)
           q == \/ ~Mapped(core.reg["rsp"], s)
                \/ o.kind = "imm"
                \/ IsPointer(o) /\ ~Writable(Pointer(m, o), s)
           n == Put(m, o, s, top)
<1>1. C!Popped(C!Moved(i), s) = m /\ C!Top(core, s) = top
  BY CoreParts, SameStack
<1>2. C!Put(m, o, s, top) = n /\ C!IsPointer(o) = IsPointer(o) /\ C!Pointer(m, o) = Pointer(m, o)
  BY SameOperands
<1>3. C!Mapped(core.reg["rsp"], s) = Mapped(core.reg["rsp"], s)
  BY SameMemory
<1>4. C!Writable(Pointer(m, o), s) = Writable(Pointer(m, o), s)
  BY CoreParts
<1> HIDE DEF m, top
<1>5. C!Outcome(i, q, n)
  BY <1>1, <1>2, <1>3, <1>4, Zenon DEF C!PopCase
<1> HIDE DEF q, n
<1>6. CoreTurns(i, q, n)
  BY <1>5, CoreOutcome
<1> QED BY <1>6 DEF q, n, m, top

LEMMA CoreRet ==
  ASSUME NEW i, C!Ret(i)
  PROVE  CoreTurns(i, ~Mapped(core.reg["rsp"], "word"), [Popped(core, "word") EXCEPT !.ip = Top(core, "word")])
<1> DEFINE q == ~Mapped(core.reg["rsp"], "word")
           n == [Popped(core, "word") EXCEPT !.ip = Top(core, "word")]
<1>1. C!Popped(core, "word") = Popped(core, "word") /\ C!Top(core, "word") = Top(core, "word")
      /\ C!Mapped(core.reg["rsp"], "word") = Mapped(core.reg["rsp"], "word")
  BY SameStack, SameMemory
<1>2. C!Outcome(i, q, n)
  BY <1>1, Zenon DEF C!Ret
<1> HIDE DEF q, n
<1>3. CoreTurns(i, q, n)
  BY <1>2, CoreOutcome
<1> QED BY <1>3 DEF q, n

LEMMA CoreReti ==
  ASSUME core \in Machines, NEW i, C!Reti(i)
  PROVE  LET r == Restored(core) IN
         CoreTurns(i, ~Mapped(core.reg["rsp"], "byte") \/ ~Mapped(r.reg["rsp"], "word"),
                   [Popped(r, "word") EXCEPT !.ip = Top(r, "word")])
<1> DEFINE r == Restored(core)
           m == [Popped(r, "word") EXCEPT !.ip = Top(r, "word")]
           q == ~Mapped(core.reg["rsp"], "byte") \/ ~Mapped(r.reg["rsp"], "word")
<1>1. C!Popped(C!WithFlags(core, C!Top(core, "byte")), "byte") = r
  BY SameStack DEF Restored
<1>2. C!Popped(core, "byte").reg["rsp"] = r.reg["rsp"]
  BY SameStack, RestoredTyped
<1>3. C!Popped(r, "word") = Popped(r, "word") /\ C!Top(r, "word") = Top(r, "word")
      /\ C!Mapped(core.reg["rsp"], "byte") = Mapped(core.reg["rsp"], "byte")
      /\ C!Mapped(r.reg["rsp"], "word") = Mapped(r.reg["rsp"], "word")
  BY SameStack, SameMemory
<1> HIDE DEF r
<1>4. C!Outcome(i, q, m)
  BY <1>1, <1>2, <1>3, Zenon DEF C!Reti
<1> HIDE DEF q, m
<1>5. CoreTurns(i, q, m)
  BY <1>4, CoreOutcome
<1> QED BY <1>5 DEF q, m, r

LEMMA CorePlain ==
  ASSUME NEW i
  PROVE  /\ C!Nop(i) => core' = Passed(core, i)
         /\ C!Brk(i) => CoreTurns(i, TRUE, core)
         /\ C!Halt(i) => CoreTurns(i, FALSE, [Passed(core, i) EXCEPT !.halted = TRUE])
         /\ C!Ise(i) => CoreTurns(i, FALSE, [Passed(core, i) EXCEPT !.int = TRUE])
         /\ C!Icl(i) => CoreTurns(i, FALSE, [Passed(core, i) EXCEPT !.int = FALSE])
<1>1. C!Moved(i) = Passed(core, i)
  BY CoreParts
<1>2. C!Nop(i) => core' = Passed(core, i)
  BY <1>1 DEF C!Nop
<1>3. C!Brk(i) => CoreTurns(i, TRUE, core)
  BY CoreOutcome, Zenon DEF C!Brk
<1>4. C!Halt(i) => CoreTurns(i, FALSE, [Passed(core, i) EXCEPT !.halted = TRUE])
  BY <1>1, CoreOutcome, Zenon DEF C!Halt
<1>5. C!Ise(i) => CoreTurns(i, FALSE, [Passed(core, i) EXCEPT !.int = TRUE])
  BY <1>1, CoreOutcome, Zenon DEF C!Ise
<1>6. C!Icl(i) => CoreTurns(i, FALSE, [Passed(core, i) EXCEPT !.int = FALSE])
  BY <1>1, CoreOutcome, Zenon DEF C!Icl
<1> QED BY <1>2, <1>3, <1>4, <1>5, <1>6

-----------------------------------------------------------------------------
(* Equal as numbers of a size: the difference of two is zero if its low    *)
(* part is.                                                                *)
LEMMA Differences ==
  ASSUME NEW s \in Sizes, NEW x \in Of(s), NEW y \in Of(s)
  PROVE  Low(s, x - y) = 0 <=> x - y = 0
<1> DEFINE m == Mod(s)
<1>1. m \in Nat \ {0} /\ x \in 0 .. m - 1 /\ y \in 0 .. m - 1 /\ x \in Int /\ y \in Int
  BY SizeFacts, WordNat DEF Of
<1> HIDE DEF m
<1>2. x - y \in Int
  BY <1>1
<1> DEFINE d == x - y
           q == d \div m
<1>3. d % m \in 0 .. m - 1 /\ q \in Int /\ d = m * q + (d % m)
  BY <1>1, <1>2, Divides
<1>4. d < m /\ d > -m
  BY <1>1
<1> HIDE DEF d, q
<1>5. ASSUME d % m = 0 PROVE d = 0
  <2>1. d = m * q /\ m \in Int /\ d \in Int
    BY <1>1, <1>2, <1>3, <1>5 DEF d
  <2>2. q >= 1 => d >= m
    BY <1>1, <1>3, <2>1
  <2>3. q <= -1 => d <= -m
    BY <1>1, <1>3, <2>1
  <2>4. q = 0
    BY <1>1, <1>3, <1>4, <2>1, <2>2, <2>3
  <2> QED BY <1>1, <2>1, <2>4
<1>6. 0 % m = 0
  BY <1>1, Whole
<1>7. d % m = 0 <=> d = 0
  BY <1>5, <1>6
<1> QED BY <1>7 DEF Low, d, m

LEMMA CmpMeets ==
  ASSUME NEW i, Common(i), R!Cmp(i), C!Cmp(i)
  PROVE  rust' = core'
<1>1. i.op = "cmp" /\ i.op \in TwoOps
  BY DEF R!Cmp, TwoOps
<1>2. /\ i \in Instructions /\ i.size \in Sizes /\ rust \in Machines /\ rust = core
      /\ i.src \in Operands(i.size) /\ i.dst \in Operands(i.size) /\ R!Holds(i.cond)
  BY <1>1, CommonTwo DEF Common, Differs, SkippedByOne
<1> DEFINE x == Dst(rust, i) - Src(rust, i)
           m == [Passed(rust, i) EXCEPT !.zero = x = 0, !.carry = x \notin Of(i.size)]
           faults == ~Reach(rust, i.src, i.size) \/ ~Reach(rust, i.dst, i.size)
<1>4. core' = IF faults THEN Died(rust) ELSE m
  <2>1. core' = IF CoreReads(i) THEN m ELSE Died(core)
    BY <1>2, CoreTests
  <2> HIDE DEF m
  <2> QED BY <1>1, <1>2, <2>1, CommonTwo DEF CoreReads
<1> DEFINE r == R!Arithmetic(i.size, Dst(rust, i) - R!S(i))
           n == [Passed(rust, i) EXCEPT !.zero = r.zero, !.carry = r.carry]
<1>5. RustTurns(i, ~R!SourceMapped(i) \/ ~R!DestMapped(i), n)
  BY <1>2, RustTests
<1>6. rust' = IF faults THEN Died(rust) ELSE n
  <2> HIDE DEF n
  <2> QED BY <1>1, <1>2, <1>5, CommonTwo DEF RustTurns
<1>7. ASSUME ~faults PROVE n = m
  <2>1. R!S(i) = Src(rust, i) /\ Src(rust, i) \in Of(i.size) /\ Dst(rust, i) \in Of(i.size)
    BY <1>1, <1>2, <1>7, CommonTwo, RustSource, RustDest
  <2>2. (Low(i.size, x) = 0) = (x = 0)
    BY <1>2, <2>1, Differences
  <2>3. R!Arithmetic(i.size, x) = [v |-> Low(i.size, x), zero |-> Low(i.size, x) = 0, carry |-> x \notin Of(i.size)]
    BY SameNumbers, SameSizes DEF R!Arithmetic, Of
  <2> HIDE DEF x
  <2>4. r.zero = (x = 0) /\ r.carry = (x \notin Of(i.size))
    BY <2>1, <2>2, <2>3 DEF x
  <2> HIDE DEF r
  <2> QED BY <2>4
<1> HIDE DEF m, n, faults
<1> QED BY <1>4, <1>6, <1>7

LEMMA BtsMeets ==
  ASSUME NEW i, Common(i), R!Bts(i), C!Bts(i)
  PROVE  rust' = core'
<1>1. i.op = "bts" /\ i.op \in TwoOps
  BY DEF R!Bts, TwoOps
<1>2. /\ i \in Instructions /\ i.size \in Sizes /\ rust \in Machines /\ rust = core
      /\ i.src \in Operands(i.size) /\ i.dst \in Operands(i.size) /\ R!Holds(i.cond)
  BY <1>1, CommonTwo DEF Common, Differs, SkippedByOne
<1> DEFINE faults == ~Reach(rust, i.src, i.size) \/ ~Reach(rust, i.dst, i.size)
           x == Dst(rust, i)
           y == Src(rust, i)
           n == [Passed(rust, i) EXCEPT !.zero = Bit(x, R!Count(i)) = 0]
<1>3. RustTurns(i, ~R!SourceMapped(i) \/ ~R!DestMapped(i), n)
  BY <1>2, RustTests
<1>4. rust' = IF faults THEN Died(rust) ELSE n
  <2> HIDE DEF n
  <2> QED BY <1>1, <1>2, <1>3, CommonTwo DEF RustTurns
<1>5. CASE faults
  <2>1. core' = Died(core)
    BY <1>1, <1>2, <1>5, CoreTests, CommonTwo DEF CoreReads
  <2> QED BY <1>2, <1>4, <1>5, <2>1
<1>6. CASE ~faults
  <2>1. R!SourceMapped(i) /\ R!DestMapped(i)
    BY <1>1, <1>2, <1>6, CommonTwo
  <2>2. x \in Of(i.size) /\ y \in 0 .. Width(i.size) - 1 /\ R!Count(i) = y
    BY <1>1, <1>2, <2>1, CommonShift, RustDest
  <2>3. PICK z \in C!ShiftLeft(1, y) : core' = [Passed(rust, i) EXCEPT !.zero = BitAnd(i.size, x, Low(i.size, z)) = 0]
    BY <1>1, <1>2, <1>6, CoreTests, CommonTwo DEF CoreReads
  <2>4. Low(i.size, z) = Pow(y)
    <3>1. 1 \in Of(i.size)
      <4>1. 2 <= Mod(i.size) /\ Mod(i.size) \in Nat
        BY <1>2, ModValues, SizeFacts DEF Sizes
      <4> QED BY <4>1 DEF Of
    <3>2. Low(i.size, z) = Low(i.size, 1 * Pow(y))
      BY <1>2, <2>2, <3>1, ShiftsMeet
    <3>3. Pow(y) \in Of(i.size) /\ Pow(y) \in Nat \ {0}
      <4>1. R!Source(i) \in Word
        BY <1>2, <2>1, RustSource
      <4> QED BY <1>2, <2>2, <4>1, RustCounts
    <3>4. 1 * Pow(y) = Pow(y)
      BY <3>3
    <3> QED BY <1>2, <3>2, <3>3, <3>4, LowSame DEF Of
  <2>5. (BitAnd(i.size, x, Low(i.size, z)) = 0) = (Bit(x, R!Count(i)) = 0)
    BY <1>2, <2>2, <2>4, AndBit
  <2> QED BY <1>4, <1>6, <2>3, <2>5
<1> QED BY <1>5, <1>6

-----------------------------------------------------------------------------
LEMMA MovMeets ==
  ASSUME NEW i, Common(i), R!Mov(i), C!Mov(i)
  PROVE  rust' = core'
<1> DEFINE p == ~R!SourceMapped(i) \/ (R!Holds(i.cond) /\ ~R!DestMapped(i))
           m == Put(Passed(rust, i), i.dst, i.size, R!S(i))
           n == Put(Passed(core, i), i.dst, i.size, Src(core, i))
<1>1. i.op \in TwoOps \ {"cmp", "bts", "out"}
  BY DEF R!Mov, TwoOps
<1>2. i \in Instructions /\ rust \in Machines /\ rust = core /\ i.src \in Operands(i.size)
  BY <1>1, CommonTwo DEF Common
<1>3. RustTurns(i, p, m) /\ CoreTurns(i, CoreMovFaults(i), n)
  BY <1>2, RustMoves, CoreMoves
<1>4. R!Holds(i.cond) => (p <=> CoreMovFaults(i))
  BY <1>1, <1>2, CommonTwo, CommonDest DEF CoreMovFaults
<1>5. ~R!Holds(i.cond) => ~p
  BY <1>1, CommonTwo
<1>6. R!Holds(i.cond) /\ ~p => m = n
  BY <1>2, RustSource
<1> HIDE DEF p, m, n
<1> QED BY <1>3, <1>4, <1>5, <1>6, TurnsMeet

LEMMA MovzMeets ==
  ASSUME NEW i, Common(i), R!Movz(i), C!Movz(i)
  PROVE  rust' = core'
<1> DEFINE p == ~R!SourceMapped(i) \/ i.dst.kind # "reg"
           m == Put(Passed(rust, i), i.dst, "word", R!S(i))
           n == Put(Passed(core, i), i.dst, IF i.dst.kind = "reg" THEN "word" ELSE i.size, Src(core, i))
<1>1. i.op \in TwoOps \ {"cmp", "bts", "out"} /\ i.op = "movz"
  BY DEF R!Movz, TwoOps
<1>2. i \in Instructions /\ rust \in Machines /\ rust = core /\ i.src \in Operands(i.size)
  BY <1>1, CommonTwo DEF Common
<1>3. i.dst.kind = "reg" /\ ~IsPointer(i.dst)
  <2>1. ~IsPointer(i.dst)
    BY <1>1 DEF Common, Differs, SkippedByOne, OtherOperand
  <2> QED BY <1>1, <2>1, CommonTwo, OperandKinds DEF IsPointer
<1>4. RustTurns(i, p, m) /\ CoreTurns(i, CoreMovFaults(i), n)
  BY <1>2, RustMoves, CoreMoves
<1>5. R!Holds(i.cond) => (p <=> CoreMovFaults(i))
  BY <1>1, <1>2, <1>3, CommonTwo DEF CoreMovFaults, Assignable
<1>6. ~R!Holds(i.cond) => ~p
  BY <1>1, <1>3, CommonTwo
<1>7. R!Holds(i.cond) /\ ~p => m = n
  BY <1>2, <1>3, RustSource
<1> HIDE DEF p, m, n
<1> QED BY <1>4, <1>5, <1>6, <1>7, TurnsMeet

LEMMA RtaMeets ==
  ASSUME NEW i, Common(i), R!Rta(i), C!Rta(i)
  PROVE  rust' = core'
<1> DEFINE pointer == R!Absolute(Pointer(rust, i.dst))
           value == R!Absolute(R!Source(i))
           p == \/ ~R!SourceMapped(i)
                \/ R!Holds(i.cond) /\ IsPointer(i.dst) /\ ~Mapped(pointer, "word")
           m == IF i.dst.kind = "reg" THEN Put(Passed(rust, i), i.dst, "word", value)
                ELSE [Passed(rust, i) EXCEPT !.mem = Store(@, pointer, "word", value)]
           n == Put(Passed(core, i), i.dst, "word", Wrap(core.ip + Src(core, i)))
<1>1. i.op \in TwoOps \ {"cmp", "bts", "out"} /\ i.op = "rta"
  BY DEF R!Rta, TwoOps
<1>2. i \in Instructions /\ rust \in Machines /\ rust = core /\ i.src \in Operands(i.size) /\ i.size = "word"
  BY <1>1, CommonTwo, CommonReads DEF Common, C!WordOps
<1>3. R!Holds(i.cond) => i.dst.kind = "reg" /\ ~IsPointer(i.dst)
  <2>1. R!Holds(i.cond) => ~IsPointer(i.dst)
    BY <1>1 DEF Common, Differs, OtherOperand
  <2> QED BY <1>1, <2>1, CommonTwo, OperandKinds DEF IsPointer
<1>4. RustTurns(i, p, m) /\ CoreTurns(i, CoreMovFaults(i), n)
  BY <1>2, RustRta, CoreMoves
<1>5. R!Holds(i.cond) => (p <=> CoreMovFaults(i))
  BY <1>1, <1>2, <1>3, CommonTwo DEF CoreMovFaults, Assignable
<1>6. ~R!Holds(i.cond) => ~p
  BY <1>1, CommonTwo
<1>7. R!Holds(i.cond) /\ ~p => m = n
  BY <1>2, <1>3, RustSource, RustAddresses
<1> HIDE DEF p, m, n
<1> QED BY <1>4, <1>5, <1>6, <1>7, TurnsMeet

LEMMA InMeets ==
  ASSUME NEW i, NEW v \in Word, Common(i), R!In(i, v), C!In(i, v)
  PROVE  rust' = core'
<1> DEFINE p == ~R!SourceMapped(i) \/ (R!Holds(i.cond) /\ ~Reach(rust, i.dst, "word"))
           m1 == [Passed(rust, i) EXCEPT !.io = Append(@, <<"in", R!Source(i), v>>)]
           m == Put(m1, i.dst, "word", v)
           n1 == [Passed(core, i) EXCEPT !.io = Append(@, <<"in", Src(core, i), v>>)]
           n == Put(n1, i.dst, "word", v)
<1>1. i.op \in TwoOps \ {"cmp", "bts", "out"} /\ i.op = "in"
  BY DEF R!In, TwoOps
<1>2. /\ i \in Instructions /\ rust \in Machines /\ rust = core /\ i.src \in Operands(i.size)
      /\ i.size = "word" /\ R!Holds(i.cond)
  BY <1>1, CommonTwo, CommonReads DEF Common, C!WordOps, Differs, SkippedByOne
<1>3. CoreTurns(i, CoreMovFaults(i), n)
  BY CoreIn
<1>4. rust' = IF p THEN Died(rust) ELSE IF R!Holds(i.cond) THEN m ELSE m1
  BY <1>2, RustIn
<1>5. RustTurns(i, p, m)
  <2> HIDE DEF p, m, m1
  <2> QED BY <1>2, <1>4 DEF RustTurns
<1>6. R!Holds(i.cond) => (p <=> CoreMovFaults(i))
  BY <1>1, <1>2, CommonTwo, CommonDest DEF CoreMovFaults
<1>7. R!Holds(i.cond) /\ ~p => m = n
  BY <1>2, RustSource
<1> HIDE DEF p, m, n
<1> QED BY <1>2, <1>3, <1>5, <1>6, <1>7, TurnsMeet

LEMMA OutMeets ==
  ASSUME NEW i, Common(i), R!Out(i), C!Out(i)
  PROVE  rust' = core'
<1> DEFINE p == ~R!SourceMapped(i) \/ (R!Holds(i.cond) /\ ~Reach(rust, i.dst, "word"))
           m == [Passed(rust, i) EXCEPT !.io = Append(@, <<"out", Value(rust, i.dst, "word"), R!Source(i)>>)]
           q == ~Reach(core, i.src, "word") \/ ~Reach(core, i.dst, "word")
           n == [Passed(core, i) EXCEPT !.io = Append(@, <<"out", Dst(core, i), Src(core, i)>>)]
<1>1. i.op \in TwoOps /\ i.op = "out"
  BY DEF R!Out, TwoOps
<1>2. i \in Instructions /\ rust \in Machines /\ rust = core /\ i.src \in Operands(i.size) /\ i.size = "word"
  BY <1>1, CommonTwo, CommonReads DEF Common, C!WordOps
<1>3. CoreTurns(i, q, n)
  BY CoreOut
<1>4. RustTurns(i, p, m)
  BY <1>2, RustOut
<1>5. R!Holds(i.cond) => (p <=> q)
  BY <1>1, <1>2, CommonTwo
<1>6. ~R!Holds(i.cond) => ~p
  BY <1>1, CommonTwo
<1>7. R!Holds(i.cond) /\ ~p => m = n
  BY <1>2, RustSource DEF Dst
<1> HIDE DEF p, m, n, q
<1> QED BY <1>3, <1>4, <1>5, <1>6, <1>7, TurnsMeet

-----------------------------------------------------------------------------
(* VM_IMPL_INC and VM_IMPL_NOT. *)
CoreOneFaults(i) == ~Reach(core, i.src, i.size) \/ ~Assignable(core, i.src, i.size)

CoreSingle(i) ==
  CASE i.op = "inc" -> Src(core, i) + 1
    [] i.op = "dec" -> Src(core, i) - 1
    [] i.op = "not" -> BitNot(i.size, Src(core, i))

LEMMA CoreSingles ==
  ASSUME core \in Machines, NEW i \in Instructions, C!Inc(i) \/ C!Dec(i) \/ C!Not(i)
  PROVE  LET x == CoreSingle(i)
             v == IF i.op = "not" THEN x ELSE Low(i.size, x)
             c == IF i.op = "not" THEN core.carry ELSE x \notin Of(i.size)
         IN  CoreTurns(i, CoreOneFaults(i), Gets(core, i, i.src, v, v = 0, c))
<1> DEFINE x == CoreSingle(i)
           l == Low(i.size, x)
           m == Passed(core, i)
<1>1. /\ C!A(i) = Src(core, i) /\ C!Moved(i) = m /\ C!OneFaults(i) = CoreOneFaults(i)
      /\ C!Unsigned(i.size) = Of(i.size) /\ C!BitNot(i.size, C!A(i)) = BitNot(i.size, Src(core, i))
  BY CoreParts, SameSizes, SameNumbers DEF C!OneFaults, CoreOneFaults, C!Unsigned, Of
<1>2. \A v : C!Put(m, i.src, i.size, v) = Put(m, i.src, i.size, v)
  BY SameOperands
<1>3. C!Low(i.size, x) = l
  BY SameNumbers
<1>4. ASSUME C!Inc(i) \/ C!Dec(i)
      PROVE  i.op # "not" /\ CoreTurns(i, CoreOneFaults(i), Gets(core, i, i.src, l, l = 0, x \notin Of(i.size)))
  <2>1. i.op # "not" /\ C!ImplInc(i, x)
    BY <1>1, <1>4 DEF C!Inc, C!Dec, CoreSingle
  <2> HIDE DEF m, l, x
  <2>2. C!Outcome(i, CoreOneFaults(i),
          [Put(m, i.src, i.size, l) EXCEPT !.zero = l = 0, !.carry = x \notin Of(i.size)])
    BY <1>1, <1>2, <1>3, <2>1, Zenon DEF C!ImplInc
  <2>3. C!Outcome(i, CoreOneFaults(i), Gets(core, i, i.src, l, l = 0, x \notin Of(i.size)))
    BY <2>2, Zenon DEF Gets, m
  <2> QED BY <2>1, <2>3, CoreOutcome
<1>5. ASSUME C!Not(i)
      PROVE  i.op = "not" /\ CoreTurns(i, CoreOneFaults(i), Gets(core, i, i.src, x, x = 0, core.carry))
  <2>1. i.op = "not" /\ x = BitNot(i.size, Src(core, i))
    BY <1>5 DEF C!Not, CoreSingle
  <2> DEFINE p == Put(m, i.src, i.size, x)
             z == (x = 0)
  <2>2. m \in Machines /\ m.carry = core.carry
    BY PassedTyped, PassedFields
  <2> HIDE DEF m, x
  <2>3. p.carry = core.carry /\ Shaped(p)
    <3>1. Shaped(m)
      BY <2>2, StartShaped
    <3> QED BY <2>2, <3>1 DEF Put, Shaped, Fields
  <2>4. C!Outcome(i, CoreOneFaults(i), [p EXCEPT !.zero = z])
    BY <1>1, <1>2, <1>5, <2>1, Zenon DEF C!Not
  <2> HIDE DEF p, z
  <2>5. [p EXCEPT !.zero = z] = [p EXCEPT !.zero = z, !.carry = core.carry]
    BY <2>3 DEF Shaped, Fields
  <2>6. Gets(core, i, i.src, x, z, core.carry) = [p EXCEPT !.zero = z, !.carry = core.carry]
    BY Zenon DEF Gets, p, m
  <2>7. C!Outcome(i, CoreOneFaults(i), Gets(core, i, i.src, x, z, core.carry))
    BY <2>4, <2>5, <2>6
  <2>8. CoreTurns(i, CoreOneFaults(i), Gets(core, i, i.src, x, z, core.carry))
    BY <2>7, CoreOutcome
  <2> QED BY <2>1, <2>8 DEF z
<1>6. CASE C!Inc(i) \/ C!Dec(i)
  BY <1>4, <1>6, Zenon
<1>7. CASE C!Not(i)
  BY <1>5, <1>7, Zenon
<1> QED BY <1>6, <1>7, Zenon

LEMMA SinglesMeet ==
  ASSUME NEW i, Common(i), R!Inc(i) \/ R!Dec(i) \/ R!Not(i), C!Inc(i) \/ C!Dec(i) \/ C!Not(i)
  PROVE  rust' = core'
<1> DEFINE p == \/ i.src.kind = "imm"
                \/ (i.op = "not" \/ R!Holds(i.cond)) /\ ~Reach(rust, i.src, i.size)
           r == RustSingle(i)
           m == Gets(rust, i, i.src, r.v, r.zero, r.carry)
           x == CoreSingle(i)
           v == IF i.op = "not" THEN x ELSE Low(i.size, x)
           c == IF i.op = "not" THEN core.carry ELSE x \notin Of(i.size)
           n == Gets(core, i, i.src, v, v = 0, c)
<1>1. i.op \in {"inc", "dec", "not"} /\ RustTurns(i, p, m)
  BY RustSingles DEF Common
<1>2. /\ i \in Instructions /\ i.size \in Sizes /\ rust \in Machines /\ rust = core
      /\ i.src \in Operands(i.size)
  BY <1>1, OperatorsApart, InstructionFacts DEF Common, OneOps
<1>3. CoreTurns(i, CoreOneFaults(i), n)
  BY <1>2, CoreSingles
<1>4. R!Holds(i.cond) => (p <=> CoreOneFaults(i))
  <2>1. ~InRom(i.src)
    BY <1>1 DEF Common, Differs, WritesRom
  <2>2. i.src.kind # "imm" /\ Reach(rust, i.src, i.size) => Assignable(rust, i.src, i.size)
    BY <1>2, <2>1, CommonWritable
  <2>3. Assignable(rust, i.src, i.size) => i.src.kind # "imm"
    BY DEF Assignable
  <2> QED BY <1>2, <2>2, <2>3 DEF CoreOneFaults
<1>5. ~R!Holds(i.cond) => ~p
  BY <1>1, CommonReads DEF Common, Differs, SkippedByOne
<1>6. m = n
  <2>1. i.op \in {"inc", "dec"} => r = R!Arithmetic(i.size, x)
    BY <1>2 DEF RustSingle, CoreSingle
  <2>2. i.op = "not" => r = R!Logical(x)
    BY <1>2 DEF RustSingle, CoreSingle
  <2> HIDE DEF x
  <2>3. R!Arithmetic(i.size, x) = [v |-> Low(i.size, x), zero |-> Low(i.size, x) = 0, carry |-> x \notin Of(i.size)]
    BY SameNumbers, SameSizes DEF R!Arithmetic, Of
  <2>4. R!Logical(x) = [v |-> x, zero |-> x = 0, carry |-> rust.carry]
    BY DEF R!Logical
  <2>5. r.v = v /\ r.zero = (v = 0) /\ r.carry = c
    <3>1. CASE i.op = "not"
      BY <1>2, <2>2, <2>4, <3>1
    <3>2. CASE i.op \in {"inc", "dec"}
      BY <2>1, <2>3, <3>2
    <3> QED BY <1>1, <3>1, <3>2
  <2> HIDE DEF r, v, c
  <2> QED BY <1>2, <2>5
<1> HIDE DEF p, m, n
<1> QED BY <1>1, <1>3, <1>4, <1>5, <1>6, TurnsMeet
-----------------------------------------------------------------------------
(* Jumps.                                                                  *)

LEMMA CommonJump ==
  ASSUME NEW i, Common(i), i.op \in {"jmp", "rjmp", "call", "rcall", "loop", "rloop"}
  PROVE  /\ i \in Instructions /\ rust \in Machines /\ rust = core /\ i.size = "word"
         /\ i.src \in Operands(i.size)
         /\ R!Holds(i.cond) => (R!SourceMapped(i) <=> Reach(rust, i.src, "word"))
         /\ R!SourceMapped(i) => RustTarget(i) = CoreTarget(i)
         /\ i.op \in {"loop", "rloop"} => R!Holds(i.cond)
         /\ ~R!Holds(i.cond) => R!SourceMapped(i)
<1>1. i \in Instructions /\ rust \in Machines /\ rust = core /\ i.size = "word" /\ i.src \in Operands(i.size)
  BY CommonReads, OperatorsApart DEF Common, C!WordOps, OneOps
<1>2. R!Holds(i.cond) => (R!SourceMapped(i) <=> Reach(rust, i.src, "word"))
  BY <1>1, CommonSource
<1>3. R!SourceMapped(i) => R!Source(i) = Src(rust, i)
  BY <1>1, RustSource
<1>4. /\ i.op \in {"loop", "rloop"} => R!Holds(i.cond)
      /\ ~R!Holds(i.cond) => R!SourceMapped(i)
  BY DEF Common, Differs, SkippedByOne
<1> QED BY <1>1, <1>2, <1>3, <1>4 DEF RustTarget, CoreTarget

LEMMA JumpsMeet ==
  ASSUME NEW i, Common(i), R!Jmp(i) \/ R!Rjmp(i), C!Jmp(i) \/ C!Rjmp(i)
  PROVE  rust' = core'
<1> DEFINE p == ~R!SourceMapped(i)
           q == ~Reach(core, i.src, "word")
           m == [rust EXCEPT !.ip = RustTarget(i)]
           n == [core EXCEPT !.ip = CoreTarget(i)]
<1>1. i.op \in {"jmp", "rjmp"} /\ RustTurns(i, p, m)
  BY RustJumps DEF Common
<1>2. CoreTurns(i, q, n)
  BY CoreJumps
<1>3. R!Holds(i.cond) => (p <=> q)
  BY <1>1, CommonJump
<1>4. ~R!Holds(i.cond) => ~p
  BY <1>1, CommonJump
<1>5. R!Holds(i.cond) /\ ~p => m = n
  BY <1>1, CommonJump
<1> HIDE DEF p, q, m, n
<1> QED BY <1>1, <1>2, <1>3, <1>4, <1>5, TurnsMeet

LEMMA CallsMeet ==
  ASSUME NEW i, Common(i), R!Call(i) \/ R!Rcall(i), C!Call(i) \/ C!Rcall(i)
  PROVE  rust' = core'
<1> DEFINE p == ~R!SourceMapped(i) \/ (R!Holds(i.cond) /\ ~Mapped(Pushed(rust, "word"), "word"))
           q == ~Reach(core, i.src, "word") \/ ~Writable(Pushed(core, "word"), "word")
           m == [Push(rust, "word", Passed(rust, i).ip) EXCEPT !.ip = RustTarget(i)]
           after == Wrap(core.ip + AssembledLength(i))
           n == [Push(core, "word", after) EXCEPT !.ip = CoreTarget(i)]
<1>1. i.op \in {"call", "rcall"} /\ RustTurns(i, p, m)
  BY RustCalls DEF Common
<1>2. CoreTurns(i, q, n)
  BY CoreCalls
<1>3. R!Holds(i.cond) => (p <=> q)
  <2>1. ~(now.reg["rsp"] > RomStart)
    BY <1>1 DEF Common, Differs, WritesRom
  <2>2. rust.reg["rsp"] \in Int /\ RomStart \in Int /\ rust \in Machines /\ rust = core
    BY <1>1, CommonJump, MachineFields, StackRegs, WordNat, MachineAssumption
  <2>3. rust.reg["rsp"] <= RomStart
    BY <2>1, <2>2 DEF now
  <2>4. Mapped(Pushed(rust, "word"), "word") <=> Writable(Pushed(rust, "word"), "word")
    BY <2>2, <2>3, CommonPushed, WordSize
  <2> QED BY <1>1, <2>2, <2>4, CommonJump
<1>4. ~R!Holds(i.cond) => ~p
  BY <1>1, CommonJump
<1>5. R!Holds(i.cond) /\ ~p => m = n
  <2>1. Passed(rust, i).ip = after /\ rust = core
    BY <1>1, CommonJump, PassedFields
  <2> HIDE DEF after
  <2> QED BY <1>1, <2>1, CommonJump
<1> HIDE DEF p, q, m, n
<1> QED BY <1>1, <1>2, <1>3, <1>4, <1>5, TurnsMeet

-----------------------------------------------------------------------------
(* A register other than the loop counter is not touched by a loop.        *)
LEMMA LoopOperand ==
  ASSUME NEW m \in Machines, NEW o \in Operands("word"), NEW a,
         o.kind \in {"reg", "regptr"} => o.v # "r31"
  PROVE  LET n == [m EXCEPT !.reg["r31"] = a] IN
         Pointer(n, o) = Pointer(m, o) /\ Value(n, o, "word") = Value(m, o, "word")
<1> DEFINE n == [m EXCEPT !.reg["r31"] = a]
<1>1. m.reg \in [Regs -> Word] /\ (o.kind \in {"reg", "regptr"} => o.v \in Regs)
  BY MachineFields, OperandKinds, WordSize
<1>2. n.mem = m.mem /\ n.reg = [m.reg EXCEPT !["r31"] = a]
  BY DEF Machines
<1> HIDE DEF n
<1>3. o.kind \in {"reg", "regptr"} => n.reg[o.v] = m.reg[o.v]
  BY <1>1, <1>2
<1>4. Pointer(n, o) = Pointer(m, o)
  BY <1>3 DEF Pointer
<1>5. Value(n, o, "word") = Value(m, o, "word")
  BY <1>2, <1>3, <1>4 DEF Value
<1> QED BY <1>4, <1>5 DEF n

LEMMA LoopsMeet ==
  ASSUME NEW i, Common(i), R!Loop(i) \/ R!Rloop(i), C!Loop(i) \/ C!Rloop(i)
  PROVE  rust' = core'
<1> DEFINE count == Wrap(rust.reg["r31"] - 1)
           counted == [Passed(rust, i) EXCEPT !.reg["r31"] = count]
           n == [rust EXCEPT !.reg["r31"] = count]
           target == Value(n, i.src, "word")
           a == CoreTarget(i)
<1>1. i.op \in {"loop", "rloop"}
      /\ rust' = IF ~R!SourceMapped(i) THEN Died(rust)
                 ELSE IF R!Holds(i.cond) /\ count # 0 THEN [counted EXCEPT !.ip = RustTarget(i)]
                 ELSE counted
  BY RustLoops DEF Common
<1>2. /\ rust \in Machines /\ rust = core /\ i.size = "word" /\ i.src \in Operands("word") /\ i \in Instructions
      /\ R!Holds(i.cond) /\ ~C!Skips(i.cond)
  BY <1>1, CommonJump, SameCondition
<1>3. R!SourceMapped(i) /\ Reach(rust, i.src, "word") /\ RustTarget(i) = a
  <2>1. R!SourceMapped(i)
    BY <1>1, <1>2 DEF Common, Differs, OtherOperand
  <2> QED BY <1>1, <1>2, <2>1, CommonJump
<1>4. i.src.kind \in {"reg", "regptr"} => i.src.v # "r31"
  BY <1>1, <1>2 DEF Common, Differs, OtherOperand
<1>5. Pointer(n, i.src) = Pointer(rust, i.src) /\ Value(n, i.src, "word") = Src(rust, i)
  BY <1>2, <1>4, LoopOperand DEF Src
<1>6. core' = IF count = 0 THEN [n EXCEPT !.ip = Wrap(rust.ip + AssembledLength(i))]
              ELSE IF ~Reach(n, i.src, "word") THEN Died(core)
              ELSE [n EXCEPT !.ip = IF i.op = "loop" THEN target ELSE Wrap(core.ip + target)]
  BY <1>2, CoreLoops
<1>7. Reach(n, i.src, "word") /\ (IF i.op = "loop" THEN target ELSE Wrap(core.ip + target)) = a
  <2> HIDE DEF n
  <2> QED BY <1>1, <1>2, <1>3, <1>5 DEF Reach, CoreTarget
<1>8. core' = IF count = 0 THEN [n EXCEPT !.ip = Wrap(rust.ip + AssembledLength(i))] ELSE [n EXCEPT !.ip = a]
  <2> HIDE DEF n, count, a, target
  <2> QED BY <1>6, <1>7
<1>9. /\ counted = [n EXCEPT !.ip = Wrap(rust.ip + AssembledLength(i))]
      /\ [counted EXCEPT !.ip = a] = [n EXCEPT !.ip = a]
  <2> HIDE DEF count, a
  <2> QED BY <1>2 DEF Passed, Machines
<1> HIDE DEF n, counted, count, target, a
<1> QED BY <1>1, <1>2, <1>3, <1>8, <1>9
-----------------------------------------------------------------------------
(* The stack.                                                              *)

LEMMA PushMeets ==
  ASSUME NEW i, Common(i), R!PushArm(i), C!PushCase(i)
  PROVE  rust' = core'
<1> DEFINE p == ~R!SourceMapped(i) \/ (R!Holds(i.cond) /\ ~Mapped(Pushed(rust, i.size), i.size))
           q == ~Reach(core, i.src, i.size) \/ ~Writable(Pushed(core, i.size), i.size)
           m == Push(Passed(rust, i), i.size, R!S(i))
           n == Push(Passed(core, i), i.size, Src(core, i))
<1>1. i.op = "push" /\ RustTurns(i, p, m)
  BY RustPush DEF Common
<1>2. /\ i \in Instructions /\ i.size \in Sizes /\ rust \in Machines /\ rust = core
      /\ i.src \in Operands(i.size)
  BY <1>1, OperatorsApart, InstructionFacts DEF Common, OneOps
<1>3. CoreTurns(i, q, n)
  BY CorePush
<1>4. R!Holds(i.cond) => (p <=> q)
  <2>1. ~(now.reg["rsp"] > RomStart)
    BY <1>1 DEF Common, Differs, WritesRom
  <2>2. rust.reg["rsp"] \in Int /\ RomStart \in Int
    BY <1>2, MachineFields, StackRegs, WordNat, MachineAssumption
  <2>3. rust.reg["rsp"] <= RomStart
    BY <2>1, <2>2 DEF now
  <2>4. Mapped(Pushed(rust, i.size), i.size) <=> Writable(Pushed(rust, i.size), i.size)
    BY <1>2, <2>3, CommonPushed
  <2>5. R!Holds(i.cond) => (R!SourceMapped(i) <=> Reach(rust, i.src, i.size))
    BY <1>1, <1>2, CommonSource
  <2> QED BY <1>2, <2>4, <2>5
<1>5. ~R!Holds(i.cond) => ~p
  BY <1>1 DEF Common, Differs, SkippedByOne
<1>6. R!Holds(i.cond) /\ ~p => m = n
  BY <1>2, RustSource
<1> HIDE DEF p, q, m, n
<1> QED BY <1>1, <1>3, <1>4, <1>5, <1>6, TurnsMeet

LEMMA PopMeets ==
  ASSUME NEW i, Common(i), R!PopArm(i), C!PopCase(i)
  PROVE  rust' = core'
<1> DEFINE s == i.size
           o == i.src
           top == Top(rust, s)
           popped == Popped(Passed(rust, i), s)
           p == \/ o.kind = "imm"
                \/ R!Holds(i.cond) /\ ~Mapped(rust.reg["rsp"], s)
                \/ R!Holds(i.cond) /\ ~Reach(rust, o, s)
           m == IF o.kind = "reg" THEN Put(popped, o, s, top)
                ELSE [popped EXCEPT !.mem = Store(@, Pointer(rust, o), s, top)]
           q == \/ ~Mapped(rust.reg["rsp"], s)
                \/ o.kind = "imm"
                \/ IsPointer(o) /\ ~Writable(Pointer(popped, o), s)
           n == Put(popped, o, s, top)
<1>1. i.op = "pop" /\ RustTurns(i, p, m)
  BY RustPop DEF Common
<1>2. i \in Instructions /\ s \in Sizes /\ rust \in Machines /\ rust = core /\ o \in Operands(s)
  BY <1>1, OperatorsApart, InstructionFacts DEF Common, OneOps
<1>3. CoreTurns(i, q, n)
  BY <1>2, CorePop
<1>4. R!Holds(i.cond) /\ IsPointer(o) => Pointer(popped, o) = Pointer(rust, o)
  <2>1. SUFFICES ASSUME R!Holds(i.cond), IsPointer(o) PROVE Pointer(popped, o) = Pointer(rust, o)
    OBVIOUS
  <2>2. CASE o.kind = "immptr"
    BY <2>2 DEF Pointer
  <2>3. CASE o.kind = "regptr"
    <3>1. o.v \in Regs /\ o # [kind |-> "regptr", v |-> "rsp"]
      BY <1>1, <1>2, <2>1, <2>3, OperandKinds DEF Common, Differs, OtherOperand
    <3>2. o = [kind |-> o.kind, v |-> o.v]
      BY <1>2 DEF Operands
    <3>3. o.v # "rsp"
      BY <2>3, <3>1, <3>2
    <3>4. Passed(rust, i).reg = rust.reg /\ Passed(rust, i) \in Machines
      BY <1>2, PassedFields, PassedTyped
    <3>5. popped.reg = [rust.reg EXCEPT !["rsp"] = Wrap(@ + Bytes(s))]
      BY <3>4 DEF Popped, Machines
    <3>6. popped.reg[o.v] = rust.reg[o.v]
      <4>1. rust.reg \in [Regs -> Word]
        BY <1>2, MachineFields
      <4> HIDE DEF popped, s, o
      <4> QED BY <3>1, <3>3, <3>5, <4>1
    <3> QED BY <2>3, <3>6 DEF Pointer
  <2> QED BY <2>1, <2>2, <2>3 DEF IsPointer
<1>5. R!Holds(i.cond) => (p <=> q)
  <2>1. ~InRom(o)
    BY <1>1 DEF Common, Differs, WritesRom
  <2>2. o.kind # "imm" /\ Reach(rust, o, s) => Assignable(rust, o, s)
    BY <1>2, <2>1, CommonWritable
  <2>3. Writable(Pointer(rust, o), s) => Mapped(Pointer(rust, o), s)
    BY DEF Writable, Mapped
  <2> HIDE DEF popped
  <2> QED BY <1>4, <2>2, <2>3 DEF Assignable, Reach
<1>6. ~R!Holds(i.cond) => ~p
  BY <1>1 DEF Common, Differs, SkippedByOne
<1>7. R!Holds(i.cond) /\ ~p => m = n
  <2>1. o.kind \notin {"imm", "reg"} => IsPointer(o)
    BY <1>2, OperandKinds DEF IsPointer
  <2> HIDE DEF popped, top
  <2> QED BY <1>4, <2>1 DEF Put
<1> HIDE DEF p, q, m, n
<1> QED BY <1>1, <1>3, <1>5, <1>6, <1>7, TurnsMeet

LEMMA RetMeets ==
  ASSUME NEW i, Common(i), R!Ret(i), C!Ret(i)
  PROVE  rust' = core'
<1> DEFINE p == R!Holds(i.cond) /\ ~Mapped(rust.reg["rsp"], "word")
           m == [Popped(rust, "word") EXCEPT !.ip = Top(rust, "word")]
           q == ~Mapped(core.reg["rsp"], "word")
           n == [Popped(core, "word") EXCEPT !.ip = Top(core, "word")]
<1>1. RustTurns(i, p, m) /\ rust = core
  BY RustRet DEF Common
<1>2. CoreTurns(i, q, n)
  BY CoreRet
<1>3. (R!Holds(i.cond) => (p <=> q)) /\ (~R!Holds(i.cond) => ~p) /\ m = n
  BY <1>1
<1> HIDE DEF p, q, m, n
<1> QED BY <1>1, <1>2, <1>3, TurnsMeet

LEMMA RetiMeets ==
  ASSUME NEW i, Common(i), R!Reti(i), C!Reti(i)
  PROVE  rust' = core'
<1> DEFINE r == Restored(rust)
           p == R!Holds(i.cond) /\ ~(Mapped(rust.reg["rsp"], "byte") /\ Mapped(r.reg["rsp"], "word"))
           m == [Popped(r, "word") EXCEPT !.ip = Top(r, "word")]
           q == ~Mapped(rust.reg["rsp"], "byte") \/ ~Mapped(r.reg["rsp"], "word")
<1>1. RustTurns(i, p, m) /\ rust = core /\ rust \in Machines
  BY RustReti DEF Common
<1>2. CoreTurns(i, q, m)
  BY <1>1, CoreReti
<1>3. (R!Holds(i.cond) => (p <=> q)) /\ (~R!Holds(i.cond) => ~p)
  OBVIOUS
<1> HIDE DEF p, q, m
<1> QED BY <1>1, <1>2, <1>3, TurnsMeet

LEMMA PlainMeets ==
  ASSUME NEW i, Common(i),
         R!Nop(i) \/ R!Brk(i) \/ R!Halt(i) \/ R!Ise(i) \/ R!Icl(i),
         C!Nop(i) \/ C!Brk(i) \/ C!Halt(i) \/ C!Ise(i) \/ C!Icl(i)
  PROVE  rust' = core'
<1>1. rust = core /\ i \in Instructions /\ rust \in Machines
  BY DEF Common
<1>2. (R!Holds(i.cond) <=> ~C!Skips(i.cond)) /\ ~(i.op = "brk" /\ R!Holds(i.cond))
  BY SameCondition DEF Common, Differs, DecodedByOne
<1>3. CASE C!Nop(i)
  <2>1. R!Nop(i)
    BY <1>3 DEF C!Nop, R!Nop, R!Brk, R!Halt, R!Ise, R!Icl
  <2> QED BY <1>1, <1>3, <2>1, RustPlain, CorePlain
<1>4. CASE C!Brk(i)
  <2>1. R!Brk(i) /\ i.op = "brk"
    BY <1>4 DEF C!Brk, R!Nop, R!Brk, R!Halt, R!Ise, R!Icl
  <2>2. rust' = Passed(rust, i) /\ CoreTurns(i, TRUE, core)
    BY <1>1, <1>4, <2>1, RustPlain, CorePlain
  <2> QED BY <1>1, <1>2, <2>1, <2>2 DEF CoreTurns
<1>5. CASE C!Halt(i)
  <2> DEFINE n == [Passed(core, i) EXCEPT !.halted = TRUE]
  <2>1. R!Halt(i)
    BY <1>5 DEF C!Halt, R!Nop, R!Brk, R!Halt, R!Ise, R!Icl
  <2>2. RustTurns(i, FALSE, n) /\ CoreTurns(i, FALSE, n)
    BY <1>1, <1>5, <2>1, RustPlain, CorePlain
  <2> HIDE DEF n
  <2> QED BY <2>2, TurnsMeet
<1>6. CASE C!Ise(i)
  <2> DEFINE n == [Passed(core, i) EXCEPT !.int = TRUE]
  <2>1. R!Ise(i)
    BY <1>6 DEF C!Ise, R!Nop, R!Brk, R!Halt, R!Ise, R!Icl
  <2>2. RustTurns(i, FALSE, n) /\ CoreTurns(i, FALSE, n)
    BY <1>1, <1>6, <2>1, RustPlain, CorePlain
  <2> HIDE DEF n
  <2> QED BY <2>2, TurnsMeet
<1>7. CASE C!Icl(i)
  <2> DEFINE n == [Passed(core, i) EXCEPT !.int = FALSE]
  <2>1. R!Icl(i)
    BY <1>7 DEF C!Icl, R!Nop, R!Brk, R!Halt, R!Ise, R!Icl
  <2>2. RustTurns(i, FALSE, n) /\ CoreTurns(i, FALSE, n)
    BY <1>1, <1>7, <2>1, RustPlain, CorePlain
  <2> HIDE DEF n
  <2> QED BY <2>2, TurnsMeet
<1> QED BY <1>3, <1>4, <1>5, <1>6, <1>7

-----------------------------------------------------------------------------
LEMMA RustNames ==
  ASSUME NEW i, NEW v
  PROVE  /\ (R!Add(i) => i.op = "add") /\ (R!Sub(i) => i.op = "sub") /\ (R!Mul(i) => i.op = "mul")
         /\ (R!Div(i) => i.op = "div") /\ (R!Rem(i) => i.op = "rem") /\ (R!And(i) => i.op = "and")
         /\ (R!Or(i) => i.op = "or") /\ (R!Xor(i) => i.op = "xor") /\ (R!Sla(i) => i.op = "sla")
         /\ (R!Sra(i) => i.op = "sra") /\ (R!Srl(i) => i.op = "srl") /\ (R!Rol(i) => i.op = "rol")
         /\ (R!Ror(i) => i.op = "ror") /\ (R!Bse(i) => i.op = "bse") /\ (R!Bcl(i) => i.op = "bcl")
         /\ (R!Bts(i) => i.op = "bts") /\ (R!Cmp(i) => i.op = "cmp") /\ (R!Mov(i) => i.op = "mov")
         /\ (R!Movz(i) => i.op = "movz") /\ (R!Rta(i) => i.op = "rta") /\ (R!Inc(i) => i.op = "inc")
         /\ (R!Dec(i) => i.op = "dec") /\ (R!Not(i) => i.op = "not") /\ (R!Jmp(i) => i.op = "jmp")
         /\ (R!Rjmp(i) => i.op = "rjmp") /\ (R!Call(i) => i.op = "call") /\ (R!Rcall(i) => i.op = "rcall")
         /\ (R!Loop(i) => i.op = "loop") /\ (R!Rloop(i) => i.op = "rloop") /\ (R!Ret(i) => i.op = "ret")
         /\ (R!Reti(i) => i.op = "reti") /\ (R!Nop(i) => i.op = "nop") /\ (R!Brk(i) => i.op = "brk")
         /\ (R!Halt(i) => i.op = "halt") /\ (R!Ise(i) => i.op = "ise") /\ (R!Icl(i) => i.op = "icl")
         /\ (R!Out(i) => i.op = "out") /\ (R!In(i, v) => i.op = "in") /\ (R!PushArm(i) => i.op = "push")
         /\ (R!PopArm(i) => i.op = "pop")
BY DEF R!Add, R!Sub, R!Mul, R!Div, R!Rem, R!And, R!Or, R!Xor, R!Sla, R!Sra, R!Srl, R!Rol,
       R!Ror, R!Bse, R!Bcl, R!Bts, R!Cmp, R!Mov, R!Movz, R!Rta, R!Inc, R!Dec, R!Not, R!Jmp,
       R!Rjmp, R!Call, R!Rcall, R!Loop, R!Rloop, R!Ret, R!Reti, R!Nop, R!Brk, R!Halt, R!Ise, R!Icl,
       R!Out, R!In, R!PushArm, R!PopArm

LEMMA CoreNames ==
  ASSUME NEW i, NEW v
  PROVE  /\ (C!Add(i) => i.op = "add") /\ (C!Sub(i) => i.op = "sub") /\ (C!Mul(i) => i.op = "mul")
         /\ (C!Div(i) => i.op = "div") /\ (C!Rem(i) => i.op = "rem") /\ (C!And(i) => i.op = "and")
         /\ (C!Or(i) => i.op = "or") /\ (C!Xor(i) => i.op = "xor") /\ (C!Sla(i) => i.op = "sla")
         /\ (C!Sra(i) => i.op = "sra") /\ (C!Srl(i) => i.op = "srl") /\ (C!Rol(i) => i.op = "rol")
         /\ (C!Ror(i) => i.op = "ror") /\ (C!Bse(i) => i.op = "bse") /\ (C!Bcl(i) => i.op = "bcl")
         /\ (C!Bts(i) => i.op = "bts") /\ (C!Cmp(i) => i.op = "cmp") /\ (C!Mov(i) => i.op = "mov")
         /\ (C!Movz(i) => i.op = "movz") /\ (C!Rta(i) => i.op = "rta") /\ (C!Inc(i) => i.op = "inc")
         /\ (C!Dec(i) => i.op = "dec") /\ (C!Not(i) => i.op = "not") /\ (C!Jmp(i) => i.op = "jmp")
         /\ (C!Rjmp(i) => i.op = "rjmp") /\ (C!Call(i) => i.op = "call") /\ (C!Rcall(i) => i.op = "rcall")
         /\ (C!Loop(i) => i.op = "loop") /\ (C!Rloop(i) => i.op = "rloop") /\ (C!Ret(i) => i.op = "ret")
         /\ (C!Reti(i) => i.op = "reti") /\ (C!Nop(i) => i.op = "nop") /\ (C!Brk(i) => i.op = "brk")
         /\ (C!Halt(i) => i.op = "halt") /\ (C!Ise(i) => i.op = "ise") /\ (C!Icl(i) => i.op = "icl")
         /\ (C!Out(i) => i.op = "out") /\ (C!Imul(i) => i.op = "imul") /\ (C!Idiv(i) => i.op = "idiv")
         /\ (C!Irem(i) => i.op = "irem") /\ (C!In(i, v) => i.op = "in") /\ (C!PushCase(i) => i.op = "push")
         /\ (C!PopCase(i) => i.op = "pop")
BY DEF C!Add, C!Sub, C!Mul, C!Div, C!Rem, C!And, C!Or, C!Xor, C!Sla, C!Sra, C!Srl, C!Rol,
       C!Ror, C!Bse, C!Bcl, C!Bts, C!Cmp, C!Mov, C!Movz, C!Rta, C!Inc, C!Dec, C!Not, C!Jmp,
       C!Rjmp, C!Call, C!Rcall, C!Loop, C!Rloop, C!Ret, C!Reti, C!Nop, C!Brk, C!Halt, C!Ise, C!Icl,
       C!Out, C!Imul, C!Idiv, C!Irem, C!In, C!PushCase, C!PopCase

(* The step of one instruction that has no reason to differ. *)
LEMMA StepsMeet ==
  ASSUME NEW i, NEW v \in Word, Common(i), R!Execute(i, v), C!Execute(i, v)
  PROVE  rust' = core'
<1>1. i.op \notin SignedOps /\ R!Known(i, v)
  BY CommonReads DEF R!Execute, R!Bad, R!BadOpcode, SignedOps, R!SignedOps
<1>2. C!Known(i, v)
  BY CommonReads DEF C!Execute, C!BadOpcode
<1>3. CASE RustBinaries(i)
  <2>1. i.op \in Binaries
    BY <1>3, RustNames DEF RustBinaries, Binaries
  <2>2. CoreArithmetic(i) \/ CoreLogicals(i)
    BY <1>1, <1>2, <2>1, CoreNames DEF C!Known, CoreArithmetic, CoreLogicals, Binaries, SignedOps
  <2> QED BY <1>3, <2>2, BinariesMeet
<1>4. CASE R!Cmp(i)
  <2>1. i.op \in {"cmp"}
    BY <1>4, RustNames
  <2>2. C!Cmp(i)
    BY <1>2, <2>1, CoreNames DEF C!Known
  <2> QED BY <1>4, <2>2, CmpMeets
<1>5. CASE R!Bts(i)
  <2>1. i.op \in {"bts"}
    BY <1>5, RustNames
  <2>2. C!Bts(i)
    BY <1>2, <2>1, CoreNames DEF C!Known
  <2> QED BY <1>5, <2>2, BtsMeets
<1>6. CASE R!Mov(i)
  <2>1. i.op \in {"mov"}
    BY <1>6, RustNames
  <2>2. C!Mov(i)
    BY <1>2, <2>1, CoreNames DEF C!Known
  <2> QED BY <1>6, <2>2, MovMeets
<1>7. CASE R!Movz(i)
  <2>1. i.op \in {"movz"}
    BY <1>7, RustNames
  <2>2. C!Movz(i)
    BY <1>2, <2>1, CoreNames DEF C!Known
  <2> QED BY <1>7, <2>2, MovzMeets
<1>8. CASE R!Rta(i)
  <2>1. i.op \in {"rta"}
    BY <1>8, RustNames
  <2>2. C!Rta(i)
    BY <1>2, <2>1, CoreNames DEF C!Known
  <2> QED BY <1>8, <2>2, RtaMeets
<1>9. CASE R!In(i, v)
  <2>1. i.op \in {"in"}
    BY <1>9, RustNames
  <2>2. C!In(i, v)
    BY <1>2, <2>1, CoreNames DEF C!Known
  <2> QED BY <1>9, <2>2, InMeets
<1>10. CASE R!Out(i)
  <2>1. i.op \in {"out"}
    BY <1>10, RustNames
  <2>2. C!Out(i)
    BY <1>2, <2>1, CoreNames DEF C!Known
  <2> QED BY <1>10, <2>2, OutMeets
<1>11. CASE R!Inc(i) \/ R!Dec(i) \/ R!Not(i)
  <2>1. i.op \in {"inc", "dec", "not"}
    BY <1>11, RustNames
  <2>2. C!Inc(i) \/ C!Dec(i) \/ C!Not(i)
    BY <1>2, <2>1, CoreNames DEF C!Known
  <2> QED BY <1>11, <2>2, SinglesMeet
<1>12. CASE R!Jmp(i) \/ R!Rjmp(i)
  <2>1. i.op \in {"jmp", "rjmp"}
    BY <1>12, RustNames
  <2>2. C!Jmp(i) \/ C!Rjmp(i)
    BY <1>2, <2>1, CoreNames DEF C!Known
  <2> QED BY <1>12, <2>2, JumpsMeet
<1>13. CASE R!Call(i) \/ R!Rcall(i)
  <2>1. i.op \in {"call", "rcall"}
    BY <1>13, RustNames
  <2>2. C!Call(i) \/ C!Rcall(i)
    BY <1>2, <2>1, CoreNames DEF C!Known
  <2> QED BY <1>13, <2>2, CallsMeet
<1>14. CASE R!Loop(i) \/ R!Rloop(i)
  <2>1. i.op \in {"loop", "rloop"}
    BY <1>14, RustNames
  <2>2. C!Loop(i) \/ C!Rloop(i)
    BY <1>2, <2>1, CoreNames DEF C!Known
  <2> QED BY <1>14, <2>2, LoopsMeet
<1>15. CASE R!PushArm(i)
  <2>1. i.op \in {"push"}
    BY <1>15, RustNames
  <2>2. C!PushCase(i)
    BY <1>2, <2>1, CoreNames DEF C!Known
  <2> QED BY <1>15, <2>2, PushMeets
<1>16. CASE R!PopArm(i)
  <2>1. i.op \in {"pop"}
    BY <1>16, RustNames
  <2>2. C!PopCase(i)
    BY <1>2, <2>1, CoreNames DEF C!Known
  <2> QED BY <1>16, <2>2, PopMeets
<1>17. CASE R!Ret(i)
  <2>1. i.op \in {"ret"}
    BY <1>17, RustNames
  <2>2. C!Ret(i)
    BY <1>2, <2>1, CoreNames DEF C!Known
  <2> QED BY <1>17, <2>2, RetMeets
<1>18. CASE R!Reti(i)
  <2>1. i.op \in {"reti"}
    BY <1>18, RustNames
  <2>2. C!Reti(i)
    BY <1>2, <2>1, CoreNames DEF C!Known
  <2> QED BY <1>18, <2>2, RetiMeets
<1>19. CASE R!Nop(i) \/ R!Brk(i) \/ R!Halt(i) \/ R!Ise(i) \/ R!Icl(i)
  <2>1. i.op \in {"nop", "brk", "halt", "ise", "icl"}
    BY <1>19, RustNames
  <2>2. C!Nop(i) \/ C!Brk(i) \/ C!Halt(i) \/ C!Ise(i) \/ C!Icl(i)
    BY <1>2, <2>1, CoreNames DEF C!Known
  <2> QED BY <1>19, <2>2, PlainMeets
<1> QED BY <1>1, <1>3, <1>4, <1>5, <1>6, <1>7, <1>8, <1>9, <1>10, <1>11, <1>12, <1>13, <1>14, <1>15, <1>16, <1>17, <1>18, <1>19,
           Zenon DEF R!Known, RustBinaries

AgreeInv == ins \in Instructions /\ (same => rust = core /\ rust \in Machines)

(* TwoCpus!Agree.  A program cannot tell the two runtimes apart as long as *)
(* it has met none of the reasons in Differs: every instruction does the   *)
(* same to registers, memory, flags, ports and the instruction pointer in  *)
(* cpu.rs and in fox32.c, or lets both panic.                              *)
THEOREM SameToPrograms == Spec => []Agree
<1>1. Init => AgreeInv
  BY TwoCpusAssumption DEF Init, AgreeInv
<1>2. AgreeInv /\ [Next]_vars => AgreeInv'
  <2> SUFFICES ASSUME AgreeInv, [Next]_vars PROVE AgreeInv'
    OBVIOUS
  <2>1. CASE Step
    <3>1. ins' \in Instructions
      BY <2>1, TwoCpusAssumption DEF Step
    <3>2. ASSUME same' PROVE rust' = core' /\ rust' \in Machines
      <4>1. same /\ ~Differs(ins)
        BY <2>1, <3>2 DEF Step
      <4>2. Common(ins)
        BY <4>1 DEF AgreeInv, Common
      <4>3. PICK v \in IF ins.op = "in" THEN Answers ELSE {0} :
              /\ IF Runs(rust) THEN R!Execute(ins, v) ELSE UNCHANGED rust
              /\ IF Runs(core) THEN C!Execute(ins, v) ELSE UNCHANGED core
        BY <2>1 DEF Step
      <4>4. v \in Word
        BY TwoCpusAssumption, WordFacts
      <4>5. Runs(rust) /\ Runs(core)
        BY <2>1, <4>2 DEF Step, Common
      <4>6. R!Execute(ins, v) /\ C!Execute(ins, v)
        BY <4>3, <4>5
      <4>7. rust' \in Machines
        BY <4>2, <4>4, <4>6, RustExecutes DEF Common
      <4> QED BY <4>2, <4>4, <4>6, <4>7, StepsMeet
    <3> QED BY <3>1, <3>2 DEF AgreeInv
  <2>2. ASSUME NEW vector \in Vectors, Request(vector) PROVE AgreeInv'
    BY <2>2, TwoCpusAssumption DEF Request, AgreeInv
  <2>3. CASE UNCHANGED vars
    BY <2>3 DEF vars, AgreeInv
  <2> QED BY <2>1, <2>2, <2>3 DEF Next
<1>3. AgreeInv => Agree
  BY DEF AgreeInv, Agree
<1> QED BY <1>1, <1>2, <1>3, PTL DEF Spec
-----------------------------------------------------------------------------
(* Narrow effects: from x to y, no other cells have changed than those the *)
(* instruction i may write, and no other registers.                        *)
CellsKept(x, y, i) == \A c \in Ram \cup Rom : y.mem[c] # x.mem[c] => c \in Cells(x, i)

RegKept(x, y, i, r) ==
  \/ r = "rsp" /\ i.op \in {"push", "pop", "call", "rcall", "ret", "reti"}
  \/ r = "r31" /\ i.op \in {"loop", "rloop"}
  \/ /\ Written(i).kind = "reg" /\ Written(i).v = r
     /\ i.op = "movz" \/ y.reg[r] \div Mod(Effect(i)) = x.reg[r] \div Mod(Effect(i))
RegsKept(x, y, i) == \A r \in Regs : y.reg[r] # x.reg[r] => RegKept(x, y, i, r)

Narrow(x, y, i) == CellsKept(x, y, i) /\ RegsKept(x, y, i)

LEMMA SameMem == ASSUME NEW x, NEW y, NEW i, y.mem = x.mem PROVE CellsKept(x, y, i)
BY DEF CellsKept

LEMMA SameRegs == ASSUME NEW x, NEW y, NEW i, y.reg = x.reg PROVE RegsKept(x, y, i)
BY DEF RegsKept

LEMMA NarrowSame == ASSUME NEW x, NEW y, NEW i, y.mem = x.mem, y.reg = x.reg PROVE Narrow(x, y, i)
BY SameMem, SameRegs DEF Narrow

LEMMA NarrowLike ==
  ASSUME NEW x, NEW y, NEW z, NEW i, Narrow(x, y, i), z.mem = y.mem, z.reg = y.reg
  PROVE  Narrow(x, z, i)
BY DEF Narrow, CellsKept, RegsKept, RegKept

LEMMA StoredCells ==
  ASSUME NEW x, NEW y, NEW i, NEW a \in Places(x, i), NEW v, y.mem = Store(x.mem, a, Effect(i), v)
  PROVE  CellsKept(x, y, i)
<1> SUFFICES ASSUME NEW c \in Ram \cup Rom, c \notin a .. a + Bytes(Effect(i)) - 1
             PROVE  y.mem[c] = x.mem[c]
  BY Zenon DEF CellsKept, Cells
<1> QED BY Zenon DEF Store

LEMMA SpliceKeeps ==
  ASSUME NEW x \in Word, NEW s \in Sizes, NEW v \in Of(s)
  PROVE  Splice(x, s, v) \div Mod(s) = x \div Mod(s)
<1> DEFINE p == Mod(s)
           q == x \div p
           r == x % p
<1>1. p \in Nat \ {0} /\ x \in Int /\ v \in 0 .. p - 1
  BY SizeFacts, WordNat DEF Of
<1>2. r \in 0 .. p - 1 /\ q \in Int /\ x = p * q + r
  BY <1>1, Divides
<1> HIDE DEF p, q, r
<1>3. p * q \in Int
  BY <1>1, <1>2
<1>4. x - r + v = p * q + v /\ x - r + v \in Int
  BY <1>1, <1>2, <1>3
<1>5. (x - r + v) \div p = q
  BY <1>1, <1>2, <1>4, DividesOnce
<1> QED BY <1>5 DEF Splice, Low, p, q, r

LEMMA SplicedReg ==
  ASSUME NEW x \in Machines, NEW y, NEW i \in Instructions, NEW r \in Regs, NEW v \in Of(Effect(i)),
         y.reg = [x.reg EXCEPT ![r] = Splice(x.reg[r], Effect(i), v)],
         Effect(i) \in Sizes, Written(i).kind = "reg", Written(i).v = r
  PROVE  RegsKept(x, y, i)
<1>1. x.reg \in [Regs -> Word]
  BY MachineFields
<1>2. y.reg[r] \div Mod(Effect(i)) = x.reg[r] \div Mod(Effect(i))
  BY <1>1, SpliceKeeps
<1>3. \A q \in Regs : q # r => y.reg[q] = x.reg[q]
  BY <1>1
<1> QED BY <1>2, <1>3, Zenon DEF RegsKept, RegKept

LEMMA EffectSize ==
  ASSUME NEW i \in Instructions
  PROVE  Effect(i) \in Sizes
BY InstructionFacts, WordSize DEF Effect

(* A value put in the operand that i writes, as wide as its effect. *)
LEMMA PutNarrow ==
  ASSUME NEW x \in Machines, NEW b, b.mem = x.mem, b.reg = x.reg, b \in Machines, NEW i \in Instructions,
         Written(i) \in Operands(i.size), Written(i).kind # "imm", NEW v \in Of(Effect(i))
  PROVE  Narrow(x, Put(b, Written(i), Effect(i), v), i)
<1> DEFINE o == Written(i)
           s == Effect(i)
           y == Put(b, o, s, v)
<1>1. s \in Sizes /\ i.size \in Sizes
  BY EffectSize, InstructionFacts
<1>2. CASE o.kind = "reg"
  <2>1. o.v \in Regs
    BY <1>1, <1>2, OperandKinds
  <2>2. y = [b EXCEPT !.reg[o.v] = Splice(b.reg[o.v], s, v)]
    BY <1>2, Zenon DEF Put
  <2> HIDE DEF y, o, s
  <2>3. y.mem = x.mem /\ y.reg = [x.reg EXCEPT ![o.v] = Splice(x.reg[o.v], s, v)]
    BY <2>2 DEF Machines
  <2>4. RegsKept(x, y, i)
    BY <1>1, <1>2, <2>1, <2>3, SplicedReg DEF o, s
  <2>5. CellsKept(x, y, i)
    BY <2>3, SameMem
  <2> QED BY <2>4, <2>5 DEF Narrow, y, o, s
<1>3. CASE o.kind # "reg"
  <2> DEFINE a == Pointer(x, o)
  <2>1. IsPointer(o)
    BY <1>1, <1>3, OperandKinds DEF IsPointer
  <2>2. a \in Places(x, i)
    BY <2>1, Zenon DEF Places
  <2>3. Pointer(b, o) = a
    BY Zenon DEF Pointer
  <2>4. y = [b EXCEPT !.mem = Store(b.mem, a, s, v)]
    BY <1>3, <2>3, Zenon DEF Put
  <2> HIDE DEF y, o, s, a
  <2>5. y.mem = Store(x.mem, a, s, v) /\ y.reg = x.reg
    BY <2>4 DEF Machines
  <2> QED BY <2>2, <2>5, StoredCells, SameRegs DEF Narrow, y, o, s
<1> QED BY <1>2, <1>3

(* movz clears the rest of a register. *)
LEMMA ZeroedNarrow ==
  ASSUME NEW x \in Machines, NEW b \in Machines, b.mem = x.mem, b.reg = x.reg, NEW i \in Instructions,
         i.op = "movz", i.dst.kind = "reg", NEW s, NEW v
  PROVE  Narrow(x, Put(b, i.dst, s, v), i)
<1> DEFINE r == i.dst.v
           y == Put(b, i.dst, s, v)
<1>1. y = [b EXCEPT !.reg[r] = Splice(b.reg[r], s, v)]
  BY Zenon DEF Put
<1>2. Written(i) = i.dst
  BY DEF Written, TwoOps
<1> HIDE DEF y
<1>3. y.mem = x.mem /\ \A q \in Regs : q # r => y.reg[q] = x.reg[q]
  <2>1. x.reg \in [Regs -> Word]
    BY MachineFields
  <2> HIDE DEF r
  <2> QED BY <1>1, <2>1 DEF Machines
<1>4. RegsKept(x, y, i)
  BY <1>2, <1>3, Zenon DEF RegsKept, RegKept
<1> QED BY <1>3, <1>4, SameMem DEF Narrow, y

LEMMA GetsNarrow ==
  ASSUME NEW x \in Machines, NEW i \in Instructions, i.op \notin C!WordOps, NEW o, o = Written(i),
         o \in Operands(i.size), o.kind # "imm", NEW v \in Of(i.size), NEW z, NEW c
  PROVE  Narrow(x, Gets(x, i, o, v, z, c), i)
<1> DEFINE b == Passed(x, i)
           p == Put(b, o, i.size, v)
           y == Gets(x, i, o, v, z, c)
<1>1. Effect(i) = i.size /\ i.size \in Sizes
  BY InstructionFacts DEF Effect
<1>2. b \in Machines /\ b.mem = x.mem /\ b.reg = x.reg
  BY PassedTyped, PassedFields
<1>3. y = [p EXCEPT !.zero = z, !.carry = c]
  BY DEF Gets
<1> HIDE DEF b, y
<1>4. Narrow(x, p, i)
  BY <1>1, <1>2, PutNarrow
<1>5. p \in Machines
  BY <1>1, <1>2, Points, Puts
<1> HIDE DEF p
<1>6. y.mem = p.mem /\ y.reg = p.reg
  BY <1>3, <1>5 DEF Machines
<1> QED BY <1>4, <1>6, NarrowLike DEF y

(* Only the stack pointer or the loop counter has changed. *)
LEMMA OneReg ==
  ASSUME NEW x \in Machines, NEW y, NEW i, NEW r \in Regs, NEW v, y.reg = [x.reg EXCEPT ![r] = v],
         \/ r = "rsp" /\ i.op \in {"push", "pop", "call", "rcall", "ret", "reti"}
         \/ r = "r31" /\ i.op \in {"loop", "rloop"}
  PROVE  RegsKept(x, y, i)
<1>1. x.reg \in [Regs -> Word]
  BY MachineFields
<1>2. \A q \in Regs : q # r => y.reg[q] = x.reg[q]
  BY <1>1
<1> QED BY <1>2, Zenon DEF RegsKept, RegKept

LEMMA PushedNarrow ==
  ASSUME NEW x \in Machines, NEW b \in Machines, b.mem = x.mem, b.reg = x.reg, NEW i \in Instructions,
         i.op \in {"push", "call", "rcall"}, NEW v
  PROVE  Narrow(x, Push(b, Effect(i), v), i)
<1> DEFINE s == Effect(i)
           a == Pushed(x, s)
           y == Push(b, s, v)
<1>1. Pushed(b, s) = a
  BY DEF Pushed
<1>2. a \in Places(x, i)
  BY Zenon DEF Places
<1>3. y = [b EXCEPT !.reg["rsp"] = a, !.mem = Store(b.mem, a, s, v)]
  BY <1>1 DEF Push
<1> HIDE DEF y, a, s
<1>4. y.mem = Store(x.mem, a, s, v) /\ y.reg = [x.reg EXCEPT !["rsp"] = a]
  BY <1>3 DEF Machines
<1>5. RegsKept(x, y, i)
  BY <1>4, OneReg, StackRegs
<1>6. CellsKept(x, y, i)
  BY <1>2, <1>4, StoredCells DEF s
<1> QED BY <1>5, <1>6 DEF Narrow, y, s

(* pop: a register, the stack pointer too, or memory found before or after *)
(* the pointer has moved.                                                  *)
LEMMA PoppedNarrow ==
  ASSUME NEW x \in Machines, NEW i \in Instructions, i.op = "pop", i.src \in Operands(i.size),
         NEW v \in Of(i.size)
  PROVE  LET p == Popped(Passed(x, i), i.size) IN
         /\ i.src.kind = "reg" => Narrow(x, Put(p, i.src, i.size, v), i)
         /\ \A a : a \in {Pointer(x, i.src), Pointer(p, i.src)} /\ IsPointer(i.src) =>
              Narrow(x, [p EXCEPT !.mem = Store(@, a, i.size, v)], i)
<1> DEFINE b == Passed(x, i)
           p == Popped(b, i.size)
           n == Wrap(b.reg["rsp"] + Bytes(i.size))
<1>1. Effect(i) = i.size /\ i.size \in Sizes /\ Written(i) = i.src
  BY InstructionFacts DEF Effect, Written, C!WordOps, TwoOps, ShiftOps, SignedOps
<1>2. b \in Machines /\ b.mem = x.mem /\ b.reg = x.reg
  BY PassedTyped, PassedFields
<1>3. p \in Machines /\ p = [b EXCEPT !.reg["rsp"] = n]
  BY <1>1, <1>2, Pops DEF Popped
<1>4. x.reg \in [Regs -> Word] /\ "rsp" \in Regs
  BY MachineFields, StackRegs
<1>5. Popped(x, i.size).reg = [x.reg EXCEPT !["rsp"] = n]
  BY <1>2 DEF Popped, Machines
<1> HIDE DEF n, b, p
<1>6. p.mem = x.mem /\ p.reg = [x.reg EXCEPT !["rsp"] = n]
  BY <1>2, <1>3 DEF Machines
<1>7. ASSUME i.src.kind = "reg" PROVE Narrow(x, Put(p, i.src, i.size, v), i)
  <2> DEFINE r == i.src.v
             w == Splice(p.reg[r], i.size, v)
             y == Put(p, i.src, i.size, v)
  <2>1. y = [p EXCEPT !.reg[r] = w]
    BY <1>7, Zenon DEF Put
  <2>2. r \in Regs
    BY <1>1, <1>7, OperandKinds
  <2>3. r # "rsp" => w \div Mod(i.size) = x.reg[r] \div Mod(i.size)
    <3>1. r # "rsp" => p.reg[r] = x.reg[r] /\ x.reg[r] \in Word
      BY <1>4, <1>6, <2>2
    <3> QED BY <1>1, <3>1, SpliceKeeps
  <2> HIDE DEF y, w, r
  <2>4. y.mem = x.mem /\ y.reg = [p.reg EXCEPT ![r] = w]
    BY <1>3, <1>6, <2>1 DEF Machines
  <2>5. \A q \in Regs : q # "rsp" /\ q # r => y.reg[q] = x.reg[q]
    BY <1>4, <1>6, <2>4
  <2>6. y.reg[r] = w
    BY <1>4, <1>6, <2>2, <2>4
  <2>7. ASSUME NEW q \in Regs, y.reg[q] # x.reg[q] PROVE RegKept(x, y, i, q)
    <3>1. q = "rsp" \/ (q = r /\ q # "rsp")
      BY <2>5, <2>7
    <3>2. CASE q = "rsp"
      BY <3>2 DEF RegKept
    <3>3. CASE q = r /\ q # "rsp"
      <4>1. y.reg[q] \div Mod(Effect(i)) = x.reg[q] \div Mod(Effect(i))
        BY <1>1, <2>3, <2>6, <3>3
      <4>2. Written(i).kind = "reg" /\ Written(i).v = q
        BY <1>1, <1>7, <3>3 DEF r
      <4> QED BY <4>1, <4>2 DEF RegKept
    <3> QED BY <3>1, <3>2, <3>3
  <2> QED BY <2>4, <2>7, SameMem DEF Narrow, RegsKept, y
<1>8. ASSUME NEW a, a \in {Pointer(x, i.src), Pointer(p, i.src)}, IsPointer(i.src)
      PROVE  Narrow(x, [p EXCEPT !.mem = Store(@, a, i.size, v)], i)
  <2> DEFINE y == [p EXCEPT !.mem = Store(p.mem, a, i.size, v)]
  <2>1. Pointer(p, i.src) = Pointer(Popped(x, i.size), i.src)
    BY <1>5, <1>6 DEF Pointer
  <2>2. a \in Places(x, i)
    BY <1>1, <1>8, <2>1, Zenon DEF Places
  <2>3. y.mem = Store(x.mem, a, Effect(i), v) /\ y.reg = [x.reg EXCEPT !["rsp"] = n]
    BY <1>1, <1>3, <1>6 DEF Machines
  <2> HIDE DEF y
  <2>4. RegsKept(x, y, i)
    BY <1>4, <2>3, OneReg
  <2>5. CellsKept(x, y, i)
    BY <2>2, <2>3, StoredCells
  <2> QED BY <2>4, <2>5 DEF Narrow, y
<1> QED BY <1>7, <1>8 DEF p, b
-----------------------------------------------------------------------------
(* Every arm of cpu.rs has a narrow effect. *)

LEMMA RustTurnNarrow ==
  ASSUME rust \in Machines, NEW i \in Instructions, NEW panics, NEW m, RustTurns(i, panics, m),
         ~panics /\ R!Holds(i.cond) => Narrow(rust, m, i)
  PROVE  Narrow(rust, rust', i)
<1>1. Died(rust).mem = rust.mem /\ Died(rust).reg = rust.reg
  BY DEF Died, Machines
<1>2. Narrow(rust, Died(rust), i) /\ Narrow(rust, Passed(rust, i), i)
  BY <1>1, PassedFields, NarrowSame
<1> QED BY <1>2, Zenon DEF RustTurns

LEMMA RustBinaryNarrow ==
  ASSUME rust \in Machines, NEW i \in Instructions, i.dst.kind # "imm", RustBinaries(i)
  PROVE  Narrow(rust, rust', i)
<1> DEFINE panics == \/ ~R!SourceMapped(i) \/ ~R!DestMapped(i)
                     \/ i.op \in {"div", "rem"} /\ R!DividesByZero(i)
           r == RustResult(i)
           m == Gets(rust, i, i.dst, r.v, r.zero, r.carry)
<1>1. i.op \in Binaries /\ RustTurns(i, panics, m)
  BY RustBinaryTurn DEF RustTurns
<1>2. i.dst \in Operands(i.size) /\ i.src \in Operands(i.size)
  BY <1>1, OperatorsApart DEF Binaries, TwoOps, ShiftOps
<1>3. i.dst = Written(i) /\ i.op \notin C!WordOps
  BY <1>1 DEF Binaries, TwoOps, ShiftOps, Written, C!WordOps
<1>4. ASSUME ~panics, R!Holds(i.cond) PROVE Narrow(rust, m, i)
  <2>1. i.op \in {"div", "rem"} => Src(rust, i) # 0
    BY <1>2, <1>4, RustSource DEF R!DividesByZero
  <2>2. Fits(i.size, RustResult(i))
    BY <1>1, <1>4, <2>1, RustBinaryFits
  <2> HIDE DEF r
  <2> QED BY <1>2, <1>3, <2>2, GetsNarrow DEF Fits, r
<1> HIDE DEF panics, m
<1> QED BY <1>1, <1>4, RustTurnNarrow

LEMMA RustSingleNarrow ==
  ASSUME rust \in Machines, NEW i \in Instructions, R!Inc(i) \/ R!Dec(i) \/ R!Not(i)
  PROVE  Narrow(rust, rust', i)
<1> DEFINE panics == \/ i.src.kind = "imm"
                     \/ (i.op = "not" \/ R!Holds(i.cond)) /\ ~Reach(rust, i.src, i.size)
           r == RustSingle(i)
           m == Gets(rust, i, i.src, r.v, r.zero, r.carry)
<1>1. i.op \in {"inc", "dec", "not"} /\ RustTurns(i, panics, m)
  BY RustSingles
<1>2. i.src \in Operands(i.size) /\ i.size \in Sizes
  BY <1>1, OperatorsApart, InstructionFacts DEF OneOps
<1>3. i.src = Written(i) /\ i.op \notin C!WordOps
  BY <1>1 DEF TwoOps, ShiftOps, SignedOps, Written, C!WordOps
<1>4. ASSUME ~panics, R!Holds(i.cond) PROVE Narrow(rust, m, i)
  <2>1. Src(rust, i) \in Of(i.size) /\ Src(rust, i) \in Int
    BY <1>2, <1>4, Values, WordNat DEF Src, Reach
  <2>2. Src(rust, i) + 1 \in Int /\ Src(rust, i) - 1 \in Int /\ BitNot(i.size, Src(rust, i)) \in Of(i.size)
    <3>1. Mod(i.size) \in Nat
      BY <1>2, SizeFacts
    <3> QED BY <2>1, <3>1 DEF BitNot, Of
  <2>3. Fits(i.size, r)
    <3>1. \A x \in Int : Fits(i.size, R!Arithmetic(i.size, x))
      BY <1>2, RustResults
    <3>2. \A x \in Of(i.size) : Fits(i.size, R!Logical(x))
      BY <1>2, RustResults
    <3> QED BY <1>1, <2>2, <3>1, <3>2 DEF RustSingle
  <2> HIDE DEF r
  <2> QED BY <1>2, <1>3, <1>4, <2>3, GetsNarrow DEF Fits
<1> HIDE DEF panics, m
<1> QED BY <1>1, <1>4, RustTurnNarrow

(* Arms that change neither memory nor registers. *)
LEMMA RustTestNarrow ==
  ASSUME rust \in Machines, NEW i \in Instructions, R!Cmp(i) \/ R!Bts(i)
  PROVE  Narrow(rust, rust', i)
<1> DEFINE panics == ~R!SourceMapped(i) \/ ~R!DestMapped(i)
           b == Passed(rust, i)
<1>1. b \in Machines /\ b.mem = rust.mem /\ b.reg = rust.reg
  BY PassedTyped, PassedFields
<1>2. PICK m : RustTurns(i, panics, m) /\ m.mem = b.mem /\ m.reg = b.reg
  <2> DEFINE r == R!Arithmetic(i.size, Dst(rust, i) - R!S(i))
             z == Bit(Dst(rust, i), R!Count(i)) = 0
             m1 == [b EXCEPT !.zero = r.zero, !.carry = r.carry]
             m2 == [b EXCEPT !.zero = z]
  <2>1. (R!Cmp(i) => RustTurns(i, panics, m1)) /\ (R!Bts(i) => RustTurns(i, panics, m2))
    BY RustTests, Zenon
  <2> HIDE DEF b, r, z, panics
  <2>2. m1.mem = b.mem /\ m1.reg = b.reg /\ m2.mem = b.mem /\ m2.reg = b.reg
    BY <1>1 DEF Machines
  <2> QED BY <2>1, <2>2
<1>3. Narrow(rust, m, i)
  BY <1>1, <1>2, NarrowSame
<1> HIDE DEF panics, b
<1> QED BY <1>2, <1>3, RustTurnNarrow

LEMMA RustPlainNarrow ==
  ASSUME rust \in Machines, NEW i \in Instructions,
         R!Nop(i) \/ R!Brk(i) \/ R!Halt(i) \/ R!Ise(i) \/ R!Icl(i)
  PROVE  Narrow(rust, rust', i)
<1> DEFINE b == Passed(rust, i)
<1>1. b \in Machines /\ b.mem = rust.mem /\ b.reg = rust.reg
  BY PassedTyped, PassedFields
<1>2. rust' = b \/ \E m : RustTurns(i, FALSE, m) /\ m.mem = b.mem /\ m.reg = b.reg
  <2> DEFINE m1 == [b EXCEPT !.halted = TRUE]
             m2 == [b EXCEPT !.int = TRUE]
             m3 == [b EXCEPT !.int = FALSE]
  <2>1. rust' = b \/ RustTurns(i, FALSE, m1) \/ RustTurns(i, FALSE, m2) \/ RustTurns(i, FALSE, m3)
    BY RustPlain, Zenon
  <2> HIDE DEF b
  <2>2. /\ m1.mem = b.mem /\ m1.reg = b.reg /\ m2.mem = b.mem /\ m2.reg = b.reg
        /\ m3.mem = b.mem /\ m3.reg = b.reg
    BY <1>1 DEF Machines
  <2> HIDE DEF m1, m2, m3
  <2> QED BY <2>1, <2>2
<1>3. CASE rust' = b
  BY <1>1, <1>3, NarrowSame
<1>4. ASSUME NEW m, RustTurns(i, FALSE, m), m.mem = b.mem, m.reg = b.reg PROVE Narrow(rust, rust', i)
  <2>1. Narrow(rust, m, i)
    BY <1>1, <1>4, NarrowSame
  <2> QED BY <1>4, <2>1, RustTurnNarrow
<1> QED BY <1>2, <1>3, <1>4

LEMMA RustJumpNarrow ==
  ASSUME rust \in Machines, NEW i \in Instructions, R!Jmp(i) \/ R!Rjmp(i)
  PROVE  Narrow(rust, rust', i)
<1> DEFINE m == [rust EXCEPT !.ip = RustTarget(i)]
<1>1. RustTurns(i, ~R!SourceMapped(i), m)
  BY RustJumps
<1>2. m.mem = rust.mem /\ m.reg = rust.reg
  BY DEF Machines
<1>3. Narrow(rust, m, i)
  BY <1>2, NarrowSame
<1> HIDE DEF m
<1> QED BY <1>1, <1>3, RustTurnNarrow

LEMMA RustMoveNarrow ==
  ASSUME rust \in Machines, NEW i \in Instructions, i.dst.kind # "imm", R!Mov(i) \/ R!Movz(i)
  PROVE  Narrow(rust, rust', i)
<1> DEFINE b == Passed(rust, i)
           m == Put(b, i.dst, i.size, R!S(i))
           n == Put(b, i.dst, "word", R!S(i))
<1>1. i.op \in {"mov", "movz"} /\ i.op \in TwoOps /\ (R!Mov(i) => i.op = "mov") /\ (R!Movz(i) => i.op = "movz")
  BY DEF R!Mov, R!Movz, TwoOps
<1>2. i.dst \in Operands(i.size) /\ i.src \in Operands(i.size) /\ i.size \in Sizes
  BY <1>1, OperatorsApart, InstructionFacts
<1>3. b \in Machines /\ b.mem = rust.mem /\ b.reg = rust.reg
  BY PassedTyped, PassedFields
<1>4. i.dst = Written(i) /\ Effect(i) = i.size
  BY <1>1 DEF Written, Effect, C!WordOps
<1>5. ASSUME R!SourceMapped(i) PROVE Narrow(rust, m, i)
  <2>1. R!S(i) \in Of(Effect(i))
    BY <1>2, <1>4, <1>5, RustSource
  <2> HIDE DEF b
  <2> QED BY <1>2, <1>3, <1>4, <2>1, PutNarrow
<1>6. ASSUME R!Movz(i), i.dst.kind = "reg" PROVE Narrow(rust, n, i)
  BY <1>1, <1>3, <1>6, ZeroedNarrow
<1>7. CASE R!Mov(i)
  <2> DEFINE panics == ~R!SourceMapped(i) \/ (R!Holds(i.cond) /\ ~R!DestMapped(i))
  <2>1. RustTurns(i, panics, m)
    BY <1>7, RustMoves
  <2>2. ~panics => Narrow(rust, m, i)
    BY <1>5
  <2> HIDE DEF panics, m
  <2> QED BY <2>1, <2>2, RustTurnNarrow
<1>8. CASE R!Movz(i)
  <2> DEFINE panics == ~R!SourceMapped(i) \/ i.dst.kind # "reg"
  <2>1. RustTurns(i, panics, n)
    BY <1>8, RustMoves
  <2>2. ~panics => Narrow(rust, n, i)
    BY <1>6, <1>8
  <2> HIDE DEF panics, n
  <2> QED BY <2>1, <2>2, RustTurnNarrow
<1> QED BY <1>7, <1>8

LEMMA RustRtaNarrow ==
  ASSUME rust \in Machines, NEW i \in Instructions, i.dst.kind # "imm", R!Rta(i)
  PROVE  Narrow(rust, rust', i)
<1> DEFINE b == Passed(rust, i)
           value == R!Absolute(R!Source(i))
           pointer == R!Absolute(Pointer(rust, i.dst))
           panics == \/ ~R!SourceMapped(i)
                     \/ R!Holds(i.cond) /\ IsPointer(i.dst) /\ ~Mapped(pointer, "word")
           m1 == Put(b, i.dst, "word", value)
           m2 == [b EXCEPT !.mem = Store(@, pointer, "word", value)]
           m == IF i.dst.kind = "reg" THEN m1 ELSE m2
<1>1. i.op = "rta" /\ i.op \in TwoOps
  BY DEF R!Rta, TwoOps
<1>2. i.dst \in Operands(i.size) /\ i.src \in Operands(i.size) /\ i.size \in Sizes
  BY <1>1, OperatorsApart, InstructionFacts
<1>3. RustTurns(i, panics, m)
  BY RustRta
<1>4. b \in Machines /\ b.mem = rust.mem /\ b.reg = rust.reg
  BY PassedTyped, PassedFields
<1>5. i.dst = Written(i) /\ Effect(i) = "word"
  BY <1>1 DEF Written, Effect, C!WordOps, TwoOps
<1>6. ASSUME ~panics, i.dst.kind = "reg" PROVE Narrow(rust, m1, i)
  <2>1. R!Source(i) \in Int /\ rust.ip \in Int
    BY <1>2, <1>6, RustSource, MachineFields, WordNat
  <2>2. value \in Of("word")
    BY <2>1, RustAddresses, WrapRange DEF Word, Of
  <2> HIDE DEF b, value
  <2> QED BY <1>2, <1>4, <1>5, <2>2, PutNarrow
<1>7. ASSUME i.dst.kind # "reg" PROVE Narrow(rust, m2, i)
  <2>1. IsPointer(i.dst)
    BY <1>2, <1>7, OperandKinds DEF IsPointer
  <2>2. pointer = Wrap(rust.ip + Pointer(rust, i.dst))
    BY RustAddresses
  <2>3. pointer \in Places(rust, i)
    BY <1>5, <2>1, <2>2, Zenon DEF Places
  <2> HIDE DEF b, pointer, value
  <2>4. m2.mem = Store(rust.mem, pointer, "word", value) /\ m2.reg = rust.reg
    BY <1>4 DEF Machines
  <2> HIDE DEF m2
  <2> QED BY <1>5, <2>3, <2>4, StoredCells, SameRegs DEF Narrow
<1>8. ~panics => Narrow(rust, m, i)
  BY <1>6, <1>7
<1> HIDE DEF panics, m
<1> QED BY <1>3, <1>8, RustTurnNarrow

LEMMA RustPortNarrow ==
  ASSUME rust \in Machines, NEW i \in Instructions, i.dst.kind # "imm", NEW v \in Word,
         R!In(i, v) \/ R!Out(i)
  PROVE  Narrow(rust, rust', i)
<1> DEFINE b == Passed(rust, i)
<1>1. i.op \in {"in", "out"} /\ i.op \in TwoOps
  BY DEF R!In, R!Out, TwoOps
<1>2. i.dst \in Operands(i.size) /\ i.src \in Operands(i.size) /\ i.size \in Sizes
  BY <1>1, OperatorsApart, InstructionFacts
<1>3. b \in Machines /\ b.mem = rust.mem /\ b.reg = rust.reg
  BY PassedTyped, PassedFields
<1>4. i.dst = Written(i) /\ Effect(i) = "word"
  BY <1>1 DEF Written, Effect, C!WordOps
<1>5. CASE R!In(i, v)
  <2> DEFINE x == Append(b.io, <<"in", R!Source(i), v>>)
             m == [b EXCEPT !.io = x]
             n == Put(m, i.dst, "word", v)
             d == Died(rust)
             panics == ~R!SourceMapped(i) \/ (R!Holds(i.cond) /\ ~Reach(rust, i.dst, "word"))
  <2>1. rust' = IF panics THEN d ELSE IF R!Holds(i.cond) THEN n ELSE m
    BY <1>5, RustIn
  <2>2. d.mem = rust.mem /\ d.reg = rust.reg
    BY DEF Died, Machines
  <2>3. Narrow(rust, d, i)
    BY <2>2, NarrowSame
  <2>4. ~panics => m \in Machines
    <3>1. ~panics => R!Source(i) \in Word
      BY <1>2, RustSource
    <3> HIDE DEF b
    <3> QED BY <1>3, <3>1, Updated
  <2>5. m.mem = rust.mem /\ m.reg = rust.reg
    <3> HIDE DEF b, x
    <3> QED BY <1>3 DEF Machines
  <2>6. v \in Of(Effect(i))
    BY <1>4 DEF Of, Word
  <2> HIDE DEF m, panics
  <2>7. ~panics => Narrow(rust, n, i)
    BY <1>2, <1>4, <2>4, <2>5, <2>6, PutNarrow
  <2>8. Narrow(rust, m, i)
    BY <2>5, NarrowSame
  <2> HIDE DEF n, d
  <2> QED BY <2>1, <2>3, <2>7, <2>8, Zenon
<1>6. CASE R!Out(i)
  <2> DEFINE x == Append(b.io, <<"out", Value(rust, i.dst, "word"), R!Source(i)>>)
             m == [b EXCEPT !.io = x]
             panics == ~R!SourceMapped(i) \/ (R!Holds(i.cond) /\ ~Reach(rust, i.dst, "word"))
  <2>1. RustTurns(i, panics, m)
    BY <1>6, RustOut
  <2> HIDE DEF b, x
  <2>2. m.mem = rust.mem /\ m.reg = rust.reg
    BY <1>3 DEF Machines
  <2> HIDE DEF m, panics
  <2> QED BY <2>1, <2>2, NarrowSame, RustTurnNarrow
<1> QED BY <1>5, <1>6

LEMMA RustCallNarrow ==
  ASSUME rust \in Machines, NEW i \in Instructions, R!Call(i) \/ R!Rcall(i)
  PROVE  Narrow(rust, rust', i)
<1> DEFINE panics == ~R!SourceMapped(i) \/ (R!Holds(i.cond) /\ ~Mapped(Pushed(rust, "word"), "word"))
           t == RustTarget(i)
           p == Push(rust, "word", Passed(rust, i).ip)
           m == [p EXCEPT !.ip = t]
<1>1. i.op \in {"call", "rcall"} /\ RustTurns(i, panics, m)
  BY RustCalls
<1>2. Effect(i) = "word"
  BY <1>1 DEF Effect, C!WordOps
<1>3. Narrow(rust, p, i)
  BY <1>1, <1>2, PushedNarrow
<1>4. p \in Machines
  BY PassedTyped, MachineFields, WordNat, Pushes, WordSize
<1> HIDE DEF p, t
<1>5. m.mem = p.mem /\ m.reg = p.reg
  BY <1>4 DEF Machines
<1>6. Narrow(rust, m, i)
  BY <1>3, <1>5, NarrowLike
<1> HIDE DEF panics, m
<1> QED BY <1>1, <1>6, RustTurnNarrow

LEMMA RustLoopNarrow ==
  ASSUME rust \in Machines, NEW i \in Instructions, R!Loop(i) \/ R!Rloop(i)
  PROVE  Narrow(rust, rust', i)
<1> DEFINE b == Passed(rust, i)
           count == Wrap(rust.reg["r31"] - 1)
           m == [b EXCEPT !.reg["r31"] = count]
           n == [m EXCEPT !.ip = RustTarget(i)]
           d == Died(rust)
<1>1. i.op \in {"loop", "rloop"}
      /\ rust' = IF ~R!SourceMapped(i) THEN d ELSE IF R!Holds(i.cond) /\ count # 0 THEN n ELSE m
  BY RustLoops
<1>2. b \in Machines /\ b.mem = rust.mem /\ b.reg = rust.reg
  BY PassedTyped, PassedFields
<1>3. d.mem = rust.mem /\ d.reg = rust.reg
  BY DEF Died, Machines
<1>4. Narrow(rust, d, i)
  BY <1>3, NarrowSame
<1> HIDE DEF b, count, d
<1>5. /\ m.mem = rust.mem /\ m.reg = [rust.reg EXCEPT !["r31"] = count]
      /\ n.mem = m.mem /\ n.reg = m.reg
  BY <1>2 DEF Machines
<1> HIDE DEF m, n
<1>6. Narrow(rust, m, i)
  BY <1>1, <1>5, StackRegs, OneReg, SameMem DEF Narrow
<1>7. Narrow(rust, n, i)
  BY <1>5, <1>6, NarrowLike
<1> QED BY <1>1, <1>4, <1>6, <1>7

LEMMA RustPushNarrow ==
  ASSUME rust \in Machines, NEW i \in Instructions, R!PushArm(i)
  PROVE  Narrow(rust, rust', i)
<1> DEFINE panics == ~R!SourceMapped(i) \/ (R!Holds(i.cond) /\ ~Mapped(Pushed(rust, i.size), i.size))
           m == Push(Passed(rust, i), i.size, R!S(i))
<1>1. i.op = "push" /\ RustTurns(i, panics, m)
  BY RustPush
<1>2. Effect(i) = i.size
  BY <1>1 DEF Effect, C!WordOps
<1>3. Narrow(rust, m, i)
  BY <1>1, <1>2, PassedTyped, PassedFields, PushedNarrow
<1> HIDE DEF panics, m
<1> QED BY <1>1, <1>3, RustTurnNarrow

(* ret and reti change no register but the stack pointer. *)
LEMMA ReturnNarrow ==
  ASSUME NEW x \in Machines, NEW i \in Instructions, i.op \in {"ret", "reti"}, NEW a
  PROVE  /\ Narrow(x, [Popped(x, "word") EXCEPT !.ip = a], i)
         /\ Narrow(x, [Popped(Restored(x), "word") EXCEPT !.ip = a], i)
<1>1. ASSUME NEW b \in Machines, b.mem = x.mem, NEW k, b.reg = [x.reg EXCEPT !["rsp"] = k] \/ b.reg = x.reg
      PROVE  Narrow(x, [Popped(b, "word") EXCEPT !.ip = a], i)
  <2> DEFINE n == Wrap(b.reg["rsp"] + Bytes("word"))
             p == Popped(b, "word")
             y == [p EXCEPT !.ip = a]
  <2>1. p = [b EXCEPT !.reg["rsp"] = n] /\ p \in Machines
    BY Pops, WordSize DEF Popped
  <2> HIDE DEF p, n
  <2>2. y.mem = x.mem /\ y.reg = [b.reg EXCEPT !["rsp"] = n]
    BY <1>1, <2>1 DEF Machines
  <2>3. y.reg = [x.reg EXCEPT !["rsp"] = n]
    BY <1>1, <2>2, MachineFields, StackRegs
  <2> HIDE DEF y
  <2>4. RegsKept(x, y, i)
    BY <2>3, StackRegs, OneReg
  <2> QED BY <2>2, <2>4, SameMem DEF Narrow, y, p
<1>2. Narrow(x, [Popped(x, "word") EXCEPT !.ip = a], i)
  BY <1>1
<1>3. Narrow(x, [Popped(Restored(x), "word") EXCEPT !.ip = a], i)
  <2> DEFINE f == Top(x, "byte")
             w == WithFlags(x, f)
             k == Wrap(w.reg["rsp"] + Bytes("byte"))
             r == Restored(x)
  <2>1. w \in Machines /\ r \in Machines /\ r = [w EXCEPT !.reg["rsp"] = k]
    BY Flagged, RestoredTyped DEF Restored, Popped
  <2>2. w.mem = x.mem /\ w.reg = x.reg
    <3> HIDE DEF f
    <3> QED BY DEF WithFlags, Machines
  <2> HIDE DEF w, k, r, f
  <2>3. r.mem = x.mem /\ r.reg = [x.reg EXCEPT !["rsp"] = k]
    BY <2>1, <2>2 DEF Machines
  <2> QED BY <1>1, <2>1, <2>3 DEF r
<1> QED BY <1>2, <1>3

LEMMA RustReturnNarrow ==
  ASSUME rust \in Machines, NEW i \in Instructions, R!Ret(i) \/ R!Reti(i)
  PROVE  Narrow(rust, rust', i)
<1> DEFINE r == Restored(rust)
           p == R!Holds(i.cond) /\ ~Mapped(rust.reg["rsp"], "word")
           q == R!Holds(i.cond) /\ ~(Mapped(rust.reg["rsp"], "byte") /\ Mapped(r.reg["rsp"], "word"))
           m == [Popped(rust, "word") EXCEPT !.ip = Top(rust, "word")]
           n == [Popped(r, "word") EXCEPT !.ip = Top(r, "word")]
<1>1. i.op \in {"ret", "reti"} /\ (RustTurns(i, p, m) \/ RustTurns(i, q, n))
  BY RustRet, RustReti
<1>2. Narrow(rust, m, i) /\ Narrow(rust, n, i)
  BY <1>1, ReturnNarrow
<1> HIDE DEF p, q, m, n
<1> QED BY <1>1, <1>2, RustTurnNarrow

LEMMA RustPopNarrow ==
  ASSUME rust \in Machines, NEW i \in Instructions, R!PopArm(i)
  PROVE  Narrow(rust, rust', i)
<1> DEFINE panics == \/ i.src.kind = "imm"
                     \/ R!Holds(i.cond) /\ ~Mapped(rust.reg["rsp"], i.size)
                     \/ R!Holds(i.cond) /\ ~Reach(rust, i.src, i.size)
           p == Popped(Passed(rust, i), i.size)
           v == Top(rust, i.size)
           a == Pointer(rust, i.src)
           m1 == Put(p, i.src, i.size, v)
           m2 == [p EXCEPT !.mem = Store(@, a, i.size, v)]
           m == IF i.src.kind = "reg" THEN m1 ELSE m2
<1>1. i.op = "pop" /\ RustTurns(i, panics, m)
  BY RustPop
<1>2. i.src \in Operands(i.size) /\ i.size \in Sizes
  BY <1>1, OperatorsApart, InstructionFacts DEF OneOps
<1>3. ASSUME ~panics, R!Holds(i.cond) PROVE Narrow(rust, m, i)
  <2>1. v \in Of(i.size)
    BY <1>2, <1>3, Tops
  <2>2. i.src.kind # "reg" => IsPointer(i.src)
    BY <1>2, <1>3, OperandKinds DEF IsPointer
  <2> HIDE DEF v
  <2>3. i.src.kind = "reg" => Narrow(rust, m1, i)
    BY <1>1, <1>2, <2>1, PoppedNarrow
  <2>4. i.src.kind # "reg" => Narrow(rust, m2, i)
    BY <1>1, <1>2, <2>1, <2>2, PoppedNarrow
  <2> QED BY <2>3, <2>4
<1> HIDE DEF panics, m
<1> QED BY <1>1, <1>3, RustTurnNarrow

LEMMA RustNarrow ==
  ASSUME rust \in Machines, NEW i \in Instructions, NEW v \in Word, R!Execute(i, v)
  PROVE  Narrow(rust, rust', i)
<1>1. CASE R!Bad(i)
  <2> DEFINE d == Died(rust)
  <2>1. rust' = d /\ d.mem = rust.mem /\ d.reg = rust.reg
    BY <1>1 DEF R!Bad, Died, Machines
  <2> QED BY <2>1, NarrowSame
<1>2. CASE ~R!BadOpcode(i) /\ R!Known(i, v)
  <2>1. i.dst.kind # "imm"
    BY <1>2 DEF R!BadOpcode
  <2>2. CASE RustBinaries(i)
    BY <2>1, <2>2, RustBinaryNarrow
  <2>3. CASE R!Cmp(i) \/ R!Bts(i)
    BY <2>3, RustTestNarrow
  <2>4. CASE R!Mov(i) \/ R!Movz(i)
    BY <2>1, <2>4, RustMoveNarrow
  <2>5. CASE R!Rta(i)
    BY <2>1, <2>5, RustRtaNarrow
  <2>6. CASE R!In(i, v) \/ R!Out(i)
    BY <2>1, <2>6, RustPortNarrow
  <2>7. CASE R!Inc(i) \/ R!Dec(i) \/ R!Not(i)
    BY <2>7, RustSingleNarrow
  <2>8. CASE R!Jmp(i) \/ R!Rjmp(i)
    BY <2>8, RustJumpNarrow
  <2>9. CASE R!Call(i) \/ R!Rcall(i)
    BY <2>9, RustCallNarrow
  <2>10. CASE R!Loop(i) \/ R!Rloop(i)
    BY <2>10, RustLoopNarrow
  <2>11. CASE R!PushArm(i)
    BY <2>11, RustPushNarrow
  <2>12. CASE R!PopArm(i)
    BY <2>12, RustPopNarrow
  <2>13. CASE R!Ret(i) \/ R!Reti(i)
    BY <2>13, RustReturnNarrow
  <2>14. CASE R!Nop(i) \/ R!Brk(i) \/ R!Halt(i) \/ R!Ise(i) \/ R!Icl(i)
    BY <2>14, RustPlainNarrow
  <2> QED BY <1>2, <2>2, <2>3, <2>4, <2>5, <2>6, <2>7, <2>8, <2>9, <2>10, <2>11, <2>12, <2>13,
             <2>14, Zenon DEF R!Known, RustBinaries
<1> QED BY <1>1, <1>2 DEF R!Execute
-----------------------------------------------------------------------------
(* Every case of fox32.c makes a machine of a machine and has a narrow     *)
(* effect.                                                                 *)
CoreGood(i) == core' \in Machines /\ Narrow(core, core', i)

LEMMA DiedNarrow ==
  ASSUME NEW x \in Machines, NEW i \in Instructions
  PROVE  /\ Died(x) \in Machines /\ Narrow(x, Died(x), i)
         /\ Passed(x, i) \in Machines /\ Narrow(x, Passed(x, i), i)
<1>1. Died(x).mem = x.mem /\ Died(x).reg = x.reg
  BY DEF Died, Machines
<1> QED BY <1>1, PassedTyped, PassedFields, NarrowSame

LEMMA CoreTurnGood ==
  ASSUME core \in Machines, NEW i \in Instructions, NEW panics, NEW m, CoreTurns(i, panics, m),
         ~panics => m \in Machines /\ Narrow(core, m, i)
  PROVE  CoreGood(i)
BY DiedNarrow, Zenon DEF CoreTurns, CoreGood

LEMMA CoreGetsGood ==
  ASSUME core \in Machines, NEW i \in Instructions, i.op \notin C!WordOps,
         Written(i) \in Operands(i.size), Written(i).kind # "imm", NEW x \in Int, NEW c \in BOOLEAN
  PROVE  LET m == CoreGets(i, Written(i), x, c) IN m \in Machines /\ Narrow(core, m, i)
<1>1. Low(i.size, x) \in Of(i.size)
  BY InstructionFacts, LowRange DEF Of
<1>2. Narrow(core, CoreGets(i, Written(i), x, c), i)
  BY <1>1, GetsNarrow DEF CoreGets
<1> QED BY <1>2, CoreGetsTyped

(* The cases with a target and a source that write the target. *)
LEMMA CoreAddGood ==
  ASSUME core \in Machines, NEW i \in Instructions, i.op \in TwoOps, i.op \notin C!WordOps,
         NEW x, NEW range, C!ImplAdd(i, x, range), ~CoreFaults(i) => x \in Int
  PROVE  CoreGood(i)
<1>1. i.dst \in Operands(i.size) /\ Written(i) = i.dst
  BY OperatorsApart DEF Written
<1> DEFINE c == x \notin range
           m == CoreGets(i, i.dst, x, c)
<1>2. CoreTurns(i, CoreFaults(i), m) /\ c \in BOOLEAN
  BY <1>1, CoreBodies
<1>3. ~CoreFaults(i) => i.dst.kind # "imm"
  BY DEF CoreFaults, Assignable
<1> HIDE DEF c
<1>4. ~CoreFaults(i) => m \in Machines /\ Narrow(core, m, i)
  BY <1>1, <1>2, <1>3, CoreGetsGood
<1> HIDE DEF m
<1> QED BY <1>2, <1>4, CoreTurnGood

LEMMA CoreBecomesGood ==
  ASSUME core \in Machines, NEW i \in Instructions, i.op \in TwoOps, i.op \notin C!WordOps,
         NEW traps, NEW xs, CoreBecomes(i, traps, xs), ~CoreFaults(i) /\ ~traps => xs \subseteq Int
  PROVE  CoreGood(i)
<1>1. i.dst \in Operands(i.size) /\ Written(i) = i.dst
  BY OperatorsApart DEF Written
<1>2. CASE (C!Skips(i.cond) \/ CoreFaults(i) \/ traps) /\ CoreTurns(i, CoreFaults(i) \/ traps, Died(core))
  BY <1>2, DiedNarrow, CoreTurnGood
<1>3. ASSUME NEW x \in xs, CoreTurns(i, CoreFaults(i) \/ traps, CoreGets(i, i.dst, x, core.carry))
      PROVE  CoreGood(i)
  <2> DEFINE m == CoreGets(i, i.dst, x, core.carry)
             panics == CoreFaults(i) \/ traps
  <2>1. ~panics => i.dst.kind # "imm" /\ x \in Int
    BY <1>3 DEF CoreFaults, Assignable
  <2>2. core.carry \in BOOLEAN
    BY MachineFields
  <2>3. ~panics => m \in Machines /\ Narrow(core, m, i)
    BY <1>1, <2>1, <2>2, CoreGetsGood
  <2>4. CoreTurns(i, panics, m)
    BY <1>3
  <2> HIDE DEF m, panics
  <2> QED BY <2>3, <2>4, CoreTurnGood
<1> QED BY <1>2, <1>3, Zenon DEF CoreBecomes

LEMMA CoreNumbers ==
  ASSUME core \in Machines, NEW i \in Instructions, i.op \in TwoOps, ~CoreFaults(i)
  PROVE  /\ i.size \in Sizes
         /\ Src(core, i) \in Of(i.size) /\ Dst(core, i) \in Of(i.size)
         /\ Src(core, i) \in Nat /\ Dst(core, i) \in Nat
<1>1. i.src \in Operands(i.size) /\ i.dst \in Operands(i.size) /\ i.size \in Sizes
  BY OperatorsApart, InstructionFacts
<1>2. Src(core, i) \in Of(i.size) /\ Dst(core, i) \in Of(i.size)
  BY <1>1, CoreOperands DEF CoreFaults
<1> QED BY <1>1, <1>2, WordNat

LEMMA SignedInt ==
  ASSUME NEW s \in Sizes, NEW x \in Of(s)
  PROVE  Signed(s, x) \in Int
<1>1. Mod(s) \in Nat /\ x \in Int
  BY SizeFacts, WordNat
<1> QED BY <1>1 DEF Signed

LEMMA CoreResultsInt ==
  ASSUME core \in Machines, NEW i \in Instructions, i.op \in Binaries \ {"add", "sub", "mul"}, ~CoreFaults(i),
         i.op \in {"div", "rem"} => Src(core, i) # 0
  PROVE  CoreResults(i) \subseteq Int
<1> DEFINE x == Dst(core, i)
           y == Src(core, i)
           s == i.size
<1>1. i.op \in TwoOps
  BY DEF Binaries, TwoOps, ShiftOps
<1>2. s \in Sizes /\ x \in Of(s) /\ y \in Of(s) /\ x \in Nat /\ y \in Nat
  BY <1>1, CoreNumbers
<1>3. \A a \in Of(s) : a \in Int
  BY <1>2, WordNat
<1>4. \A a \in Int : Low(s, a) \in Of(s)
  BY <1>2, LowRange DEF Of
<1>5. Width(s) \in Nat /\ 1 \in Int
  BY <1>2, SizeFacts
<1>6. Signed(s, x) \in Int /\ Signed(s, y) \in Int
  BY <1>2, SignedInt
<1>7. \A a, b \in Of(s) : /\ BitAnd(s, a, b) \in Int /\ BitOr(s, a, b) \in Int /\ BitXor(s, a, b) \in Int
                          /\ BitNot(s, a) \in Of(s)
  BY <1>2, <1>3, Logicals
<1> HIDE DEF x, y, s
<1>8. Width(s) - y \in Int
  BY <1>2, <1>5
<1>9. \A a, n \in Int : C!ShiftLeft(a, n) \subseteq Int /\ C!ShiftRight(a, n) \subseteq Int
  BY CoreShifts
<1>10. CASE i.op = "div" \/ i.op = "rem"
  <2>1. x \div y \in Int /\ x % y \in Int
    BY <1>2, <1>10, Divides DEF y
  <2> QED BY <1>10, <2>1 DEF CoreResults, x, y
<1>11. CASE i.op \in {"and", "or", "xor"}
  <2>1. BitAnd(s, x, y) \in Int /\ BitOr(s, x, y) \in Int /\ BitXor(s, x, y) \in Int
    BY <1>2, <1>7
  <2>2. \/ i.op = "and" /\ CoreResults(i) = {BitAnd(s, x, y)}
        \/ i.op = "or" /\ CoreResults(i) = {BitOr(s, x, y)}
        \/ i.op = "xor" /\ CoreResults(i) = {BitXor(s, x, y)}
    BY <1>11 DEF CoreResults, x, y, s
  <2> QED BY <2>1, <2>2
<1>12. CASE i.op \in {"sla", "srl", "sra"}
  <2>1. C!ShiftLeft(x, y) \subseteq Int /\ C!ShiftRight(x, y) \subseteq Int
        /\ C!ShiftRight(Signed(s, x), Signed(s, y)) \subseteq Int
    BY <1>2, <1>6, <1>9
  <2> QED BY <1>12, <2>1 DEF CoreResults, x, y, s
<1>13. CASE i.op = "rol" \/ i.op = "ror"
  <2> DEFINE rol == {BitOr(s, Low(s, a), Low(s, b)) : a \in C!ShiftLeft(x, y), b \in C!ShiftRight(x, Width(s) - y)}
             ror == {BitOr(s, Low(s, a), Low(s, b)) : a \in C!ShiftLeft(x, Width(s) - y), b \in C!ShiftRight(x, y)}
  <2>1. \A a, b \in Int : BitOr(s, Low(s, a), Low(s, b)) \in Int
    BY <1>4, <1>7
  <2>2. rol \subseteq Int /\ ror \subseteq Int
    <3>1. C!ShiftLeft(x, y) \subseteq Int /\ C!ShiftRight(x, y) \subseteq Int
          /\ C!ShiftLeft(x, Width(s) - y) \subseteq Int /\ C!ShiftRight(x, Width(s) - y) \subseteq Int
      BY <1>2, <1>8, <1>9
    <3>2. ASSUME NEW z \in rol PROVE z \in Int
      <4>1. PICK a \in C!ShiftLeft(x, y), b \in C!ShiftRight(x, Width(s) - y) : z = BitOr(s, Low(s, a), Low(s, b))
        BY <3>2
      <4> QED BY <2>1, <3>1, <4>1
    <3>3. ASSUME NEW z \in ror PROVE z \in Int
      <4>1. PICK a \in C!ShiftLeft(x, Width(s) - y), b \in C!ShiftRight(x, y) : z = BitOr(s, Low(s, a), Low(s, b))
        BY <3>3
      <4> QED BY <2>1, <3>1, <4>1
    <3> HIDE DEF rol, ror
    <3> QED BY <3>2, <3>3
  <2>3. CASE i.op = "rol"
    <3>1. CoreResults(i) = rol
      BY <2>3 DEF CoreResults, x, y, s
    <3> QED BY <2>2, <3>1
  <2>4. CASE i.op = "ror"
    <3>1. CoreResults(i) = ror
      BY <2>4 DEF CoreResults, x, y, s
    <3> QED BY <2>2, <3>1
  <2> QED BY <1>13, <2>3, <2>4
<1>14. CASE i.op = "bse" \/ i.op = "bcl"
  <2> DEFINE bse == {BitOr(s, x, Low(s, a)) : a \in C!ShiftLeft(1, y)}
             bcl == {BitAnd(s, x, BitNot(s, Low(s, a))) : a \in C!ShiftLeft(1, y)}
  <2>1. \A a \in Int : BitOr(s, x, Low(s, a)) \in Int /\ BitAnd(s, x, BitNot(s, Low(s, a))) \in Int
    BY <1>2, <1>4, <1>7
  <2>2. C!ShiftLeft(1, y) \subseteq Int
    BY <1>2, <1>9
  <2>3. bse \subseteq Int /\ bcl \subseteq Int
    BY <2>1, <2>2
  <2>4. CASE i.op = "bse"
    <3>1. CoreResults(i) = bse
      BY <2>4 DEF CoreResults, x, y, s
    <3> QED BY <2>3, <3>1
  <2>5. CASE i.op = "bcl"
    <3>1. CoreResults(i) = bcl
      BY <2>5 DEF CoreResults, x, y, s
    <3> QED BY <2>3, <3>1
  <2> QED BY <1>14, <2>4, <2>5
<1> QED BY <1>10, <1>11, <1>12, <1>13, <1>14 DEF Binaries

LEMMA CoreArithmeticGood ==
  ASSUME core \in Machines, NEW i \in Instructions, CoreArithmetic(i) \/ C!Imul(i)
  PROVE  CoreGood(i)
<1> DEFINE x == Dst(core, i)
           y == Src(core, i)
<1>1. i.op \in {"add", "sub", "mul", "imul"}
  BY DEF CoreArithmetic, C!Add, C!Sub, C!Mul, C!Imul
<1>2. i.op \in TwoOps /\ i.op \notin C!WordOps
  BY <1>1 DEF TwoOps, SignedOps, C!WordOps
<1>3. ~CoreFaults(i) => i.size \in Sizes /\ x \in Of(i.size) /\ y \in Of(i.size) /\ x \in Nat /\ y \in Nat
  BY <1>2, CoreNumbers
<1>4. /\ C!A(i) = y /\ C!B(i) = x
      /\ C!SA(i) = Signed(i.size, y) /\ C!SB(i) = Signed(i.size, x)
  BY CoreParts, SameNumbers DEF C!SA, C!SB
<1>5. ~CoreFaults(i) => Signed(i.size, x) \in Int /\ Signed(i.size, y) \in Int
  BY <1>3, SignedInt
<1> HIDE DEF x, y
<1>6. ~CoreFaults(i) => x + y \in Int /\ x - y \in Int /\ x * y \in Int
  BY <1>3
<1>7. ~CoreFaults(i) => Signed(i.size, x) * Signed(i.size, y) \in Int
  BY <1>5
<1>8. PICK z, range : C!ImplAdd(i, z, range) /\ (~CoreFaults(i) => z \in Int)
  <2>1. \/ C!ImplAdd(i, x + y, C!Unsigned(i.size)) \/ C!ImplAdd(i, x - y, C!Unsigned(i.size))
        \/ C!ImplAdd(i, x * y, C!Unsigned(i.size))
        \/ C!ImplAdd(i, Signed(i.size, x) * Signed(i.size, y), C!SignedRange(i.size))
    BY <1>4, Zenon DEF CoreArithmetic, C!Add, C!Sub, C!Mul, C!Imul
  <2> QED BY <1>6, <1>7, <2>1, Zenon
<1> QED BY <1>2, <1>8, CoreAddGood

LEMMA CoreLogicalGood ==
  ASSUME core \in Machines, NEW i \in Instructions, CoreLogicals(i)
  PROVE  CoreGood(i)
<1> DEFINE traps == i.op \in {"div", "rem"} /\ Src(core, i) = 0
<1>1. i.op \in Binaries \ {"add", "sub", "mul"} /\ CoreBecomes(i, traps, CoreResults(i))
  BY CoreLogicalTurn
<1>2. i.op \in TwoOps /\ i.op \notin C!WordOps
  BY <1>1 DEF Binaries, TwoOps, ShiftOps, C!WordOps
<1>3. ~CoreFaults(i) /\ ~traps => CoreResults(i) \subseteq Int
  BY <1>1, CoreResultsInt
<1> HIDE DEF traps
<1> QED BY <1>1, <1>2, <1>3, CoreBecomesGood

LEMMA CoreSignedGood ==
  ASSUME core \in Machines, NEW i \in Instructions, C!Idiv(i) \/ C!Irem(i)
  PROVE  CoreGood(i)
<1> DEFINE x == C!SB(i)
           y == C!SA(i)
           q == C!Quotient(x, y)
<1>1. i.op \in {"idiv", "irem"}
  BY DEF C!Idiv, C!Irem
<1>2. i.op \in TwoOps /\ i.op \notin C!WordOps /\ i.dst \in Operands(i.size)
  <2>1. i.op \in TwoOps /\ i.op \notin C!WordOps
    BY <1>1 DEF TwoOps, SignedOps, C!WordOps
  <2> QED BY <2>1, OperatorsApart
<1>3. ~CoreFaults(i) => x \in Int /\ y \in Int
  <2>1. x = Signed(i.size, Dst(core, i)) /\ y = Signed(i.size, Src(core, i))
    BY CoreParts, SameNumbers DEF C!SA, C!SB
  <2> QED BY <1>2, <2>1, CoreNumbers, SignedInt
<1>4. C!ImplDiv(i, C!Traps(i), q) \/ C!ImplDiv(i, C!Traps(i), x - y * q)
  BY Zenon DEF C!Idiv, C!Irem
<1>5. ~C!Traps(i) => y # 0
  BY DEF C!Traps
<1> HIDE DEF x, y
<1>6. ~CoreFaults(i) /\ ~C!Traps(i) => q \in Int /\ x - y * q \in Int
  <2> SUFFICES ASSUME x \in Int, y \in Int, y # 0 PROVE q \in Int /\ x - y * q \in Int
    BY <1>3, <1>5
  <2> DEFINE a == C!Magnitude(x)
             b == C!Magnitude(y)
             d == a \div b
  <2>1. a \in Int /\ b \in Nat \ {0}
    BY DEF C!Magnitude
  <2> HIDE DEF a, b
  <2>2. d \in Int
    BY <2>1, Divides
  <2>3. q = d \/ q = -d
    BY DEF C!Quotient, a, b
  <2> HIDE DEF d, q
  <2>4. q \in Int
    BY <2>2, <2>3
  <2>5. y * q \in Int
    BY <2>4
  <2> QED BY <2>4, <2>5
<1> HIDE DEF q
<1>7. PICK z : C!ImplDiv(i, C!Traps(i), z) /\ (~CoreFaults(i) /\ ~C!Traps(i) => z \in Int)
  BY <1>4, <1>6
<1>8. CoreBecomes(i, C!Traps(i), {z})
  BY <1>2, <1>7, CoreComputes
<1>9. ~CoreFaults(i) /\ ~C!Traps(i) => {z} \subseteq Int
  BY <1>7
<1> QED BY <1>2, <1>8, <1>9, CoreBecomesGood

LEMMA CoreTestGood ==
  ASSUME core \in Machines, NEW i \in Instructions, C!Cmp(i) \/ C!Bts(i)
  PROVE  CoreGood(i)
<1> DEFINE b == Passed(core, i)
<1>1. b \in Machines /\ b.mem = core.mem /\ b.reg = core.reg
  BY PassedTyped, PassedFields
<1>2. \/ core' = Died(core)
      \/ \E z, c \in BOOLEAN : core' = [b EXCEPT !.zero = z, !.carry = c]
      \/ \E z \in BOOLEAN : core' = [b EXCEPT !.zero = z]
  <2>1. CASE C!Cmp(i)
    <3> DEFINE x == Dst(core, i) - Src(core, i)
               z == x = 0
               c == x \notin Of(i.size)
    <3>1. core' = Died(core) \/ core' = [b EXCEPT !.zero = z, !.carry = c]
      BY <2>1, CoreTests
    <3>2. z \in BOOLEAN /\ c \in BOOLEAN
      OBVIOUS
    <3> HIDE DEF z, c, b
    <3> QED BY <3>1, <3>2
  <2>2. CASE C!Bts(i)
    <3>1. \/ core' = Died(core)
          \/ \E a : core' = [b EXCEPT !.zero = BitAnd(i.size, Dst(core, i), Low(i.size, a)) = 0]
      BY <2>2, CoreTests
    <3>2. ASSUME NEW a, core' = [b EXCEPT !.zero = BitAnd(i.size, Dst(core, i), Low(i.size, a)) = 0]
          PROVE  \E z \in BOOLEAN : core' = [b EXCEPT !.zero = z]
      <4> DEFINE z == BitAnd(i.size, Dst(core, i), Low(i.size, a)) = 0
      <4>1. z \in BOOLEAN /\ core' = [b EXCEPT !.zero = z]
        BY <3>2
      <4> HIDE DEF z
      <4> QED BY <4>1
    <3> QED BY <3>1, <3>2
  <2> QED BY <2>1, <2>2
<1> HIDE DEF b
<1>3. CASE core' = Died(core)
  BY <1>3, DiedNarrow DEF CoreGood
<1>4. ASSUME NEW z \in BOOLEAN, NEW c \in BOOLEAN, core' = [b EXCEPT !.zero = z, !.carry = c] PROVE CoreGood(i)
  <2>1. core' \in Machines /\ core'.mem = core.mem /\ core'.reg = core.reg
    BY <1>1, <1>4 DEF Machines
  <2> QED BY <2>1, NarrowSame DEF CoreGood
<1>5. ASSUME NEW z \in BOOLEAN, core' = [b EXCEPT !.zero = z] PROVE CoreGood(i)
  <2>1. core' \in Machines /\ core'.mem = core.mem /\ core'.reg = core.reg
    BY <1>1, <1>5 DEF Machines
  <2> QED BY <2>1, NarrowSame DEF CoreGood
<1> QED BY <1>2, <1>3, <1>4, <1>5

LEMMA CoreSingleGood ==
  ASSUME core \in Machines, NEW i \in Instructions, C!Inc(i) \/ C!Dec(i) \/ C!Not(i)
  PROVE  CoreGood(i)
<1> DEFINE x == CoreSingle(i)
           v == IF i.op = "not" THEN x ELSE Low(i.size, x)
           c == IF i.op = "not" THEN core.carry ELSE x \notin Of(i.size)
           z == v = 0
           m == Gets(core, i, i.src, v, z, c)
<1>1. i.op \in {"inc", "dec", "not"}
  BY DEF C!Inc, C!Dec, C!Not
<1>2. CoreTurns(i, CoreOneFaults(i), m)
  BY CoreSingles
<1>3. i.src \in Operands(i.size) /\ i.size \in Sizes /\ i.src = Written(i) /\ i.op \notin C!WordOps
  <2>1. i.op \in OneOps /\ i.src = Written(i) /\ i.op \notin C!WordOps
    BY <1>1 DEF OneOps, TwoOps, ShiftOps, SignedOps, Written, C!WordOps
  <2> QED BY <2>1, OperatorsApart, InstructionFacts
<1>4. z \in BOOLEAN /\ c \in BOOLEAN
  BY MachineFields
<1>5. ~CoreOneFaults(i) => i.src.kind # "imm" /\ Src(core, i) \in Of(i.size) /\ Src(core, i) \in Int
  BY <1>3, CoreOperands, WordNat DEF CoreOneFaults, Assignable
<1>6. ~CoreOneFaults(i) => v \in Of(i.size)
  <2> DEFINE y == Src(core, i)
  <2> SUFFICES ASSUME y \in Of(i.size), y \in Int PROVE v \in Of(i.size)
    BY <1>5
  <2>1. \A a \in Int : Low(i.size, a) \in Of(i.size)
    BY <1>3, LowRange DEF Of
  <2>2. BitNot(i.size, y) \in Of(i.size)
    BY <1>3, Logicals
  <2> HIDE DEF y
  <2>3. y + 1 \in Int /\ y - 1 \in Int
    OBVIOUS
  <2> QED BY <1>1, <2>1, <2>2, <2>3 DEF CoreSingle, y
<1> HIDE DEF z, c, v
<1>7. ~CoreOneFaults(i) => m \in Machines /\ Narrow(core, m, i)
  BY <1>3, <1>4, <1>5, <1>6, GetsTyped, GetsNarrow
<1> HIDE DEF m
<1> QED BY <1>2, <1>7, CoreTurnGood

LEMMA CoreMoveGood ==
  ASSUME core \in Machines, NEW i \in Instructions, i.op \in C!WordOps => i.size = "word",
         C!Mov(i) \/ C!Movz(i) \/ C!Rta(i)
  PROVE  CoreGood(i)
<1> DEFINE b == Passed(core, i)
           v == Src(core, i)
           w == Wrap(core.ip + v)
           m1 == Put(b, i.dst, i.size, v)
           m2 == Put(b, i.dst, "word", v)
           m3 == Put(b, i.dst, "word", w)
<1>1. i.op \in {"mov", "movz", "rta"} /\ i.op \in TwoOps
      /\ (C!Mov(i) => i.op = "mov") /\ (C!Movz(i) => i.op = "movz") /\ (C!Rta(i) => i.op = "rta")
  BY DEF C!Mov, C!Movz, C!Rta, TwoOps
<1>2. i.dst \in Operands(i.size) /\ i.src \in Operands(i.size) /\ i.size \in Sizes /\ "word" \in Sizes
  BY <1>1, OperatorsApart, InstructionFacts, WordSize
<1>3. b \in Machines /\ b.mem = core.mem /\ b.reg = core.reg
  BY PassedTyped, PassedFields
<1>4. i.dst = Written(i) /\ Effect(i) = IF i.op = "rta" THEN "word" ELSE i.size
  BY <1>1 DEF Written, Effect, C!WordOps
<1>5. ~CoreMovFaults(i) => i.dst.kind # "imm" /\ v \in Of(i.size) /\ v \in Of("word") /\ w \in Of("word")
  <2>1. ~CoreMovFaults(i) => i.dst.kind # "imm" /\ v \in Of(i.size)
    BY <1>2, CoreOperands DEF CoreMovFaults, Assignable
  <2>2. core.ip \in Int
    BY MachineFields, WordNat
  <2>3. v \in Of(i.size) => v \in Word /\ v \in Int
    BY <1>2, WordNat
  <2> HIDE DEF v
  <2>4. v \in Of(i.size) => w \in Word
    <3>1. v \in Of(i.size) => core.ip + v \in Int
      BY <2>2, <2>3
    <3> QED BY <3>1, WrapRange
  <2> QED BY <2>1, <2>3, <2>4 DEF Of, Word
<1>6. IsPlace(b, i.dst)
  BY <1>2, <1>3, Points
<1> HIDE DEF b, v, w
<1>7. ~CoreMovFaults(i) => m1 \in Machines /\ m2 \in Machines /\ m3 \in Machines
  BY <1>2, <1>3, <1>5, <1>6, Puts
<1>8. ~CoreMovFaults(i) /\ i.op # "rta" => Narrow(core, m1, i)
  BY <1>2, <1>3, <1>4, <1>5, PutNarrow
<1>9. ~CoreMovFaults(i) /\ i.op = "rta" => Narrow(core, m3, i)
  BY <1>2, <1>3, <1>4, <1>5, PutNarrow
<1>10. i.op = "movz" /\ i.dst.kind = "reg" => Narrow(core, m2, i)
  BY <1>3, ZeroedNarrow
<1>11. \/ C!Mov(i) /\ CoreTurns(i, CoreMovFaults(i), m1)
       \/ C!Movz(i) /\ CoreTurns(i, CoreMovFaults(i), Put(b, i.dst, IF i.dst.kind = "reg" THEN "word" ELSE i.size, v))
       \/ C!Rta(i) /\ CoreTurns(i, CoreMovFaults(i), m3)
  BY CoreMoves DEF b, v, w
<1>12. \/ i.op = "mov" /\ CoreTurns(i, CoreMovFaults(i), m1)
       \/ i.op = "movz" /\ i.dst.kind = "reg" /\ CoreTurns(i, CoreMovFaults(i), m2)
       \/ i.op = "movz" /\ CoreTurns(i, CoreMovFaults(i), m1)
       \/ i.op = "rta" /\ CoreTurns(i, CoreMovFaults(i), m3)
  BY <1>1, <1>11
<1> HIDE DEF m1, m2, m3
<1>13. CASE i.op = "mov" /\ CoreTurns(i, CoreMovFaults(i), m1)
  BY <1>7, <1>8, <1>13, CoreTurnGood
<1>14. CASE i.op = "movz" /\ i.dst.kind = "reg" /\ CoreTurns(i, CoreMovFaults(i), m2)
  BY <1>7, <1>10, <1>14, CoreTurnGood
<1>15. CASE i.op = "movz" /\ CoreTurns(i, CoreMovFaults(i), m1)
  BY <1>7, <1>8, <1>15, CoreTurnGood
<1>16. CASE i.op = "rta" /\ CoreTurns(i, CoreMovFaults(i), m3)
  BY <1>7, <1>9, <1>16, CoreTurnGood
<1> QED BY <1>12, <1>13, <1>14, <1>15, <1>16

LEMMA CorePortGood ==
  ASSUME core \in Machines, NEW i \in Instructions, i.size = "word", NEW v \in Word, C!In(i, v) \/ C!Out(i)
  PROVE  CoreGood(i)
<1> DEFINE b == Passed(core, i)
           s == Src(core, i)
           d == Dst(core, i)
<1>1. i.op \in {"in", "out"} /\ i.op \in TwoOps
  BY DEF C!In, C!Out, TwoOps
<1>2. i.dst \in Operands(i.size) /\ i.src \in Operands(i.size) /\ i.size \in Sizes /\ Of(i.size) = Word
  BY <1>1, OperatorsApart, InstructionFacts DEF Of, Word
<1>3. b \in Machines /\ b.mem = core.mem /\ b.reg = core.reg
  BY PassedTyped, PassedFields
<1>4. i.dst = Written(i) /\ Effect(i) = "word"
  BY <1>1 DEF Written, Effect, C!WordOps
<1>5. (Reach(core, i.src, "word") => s \in Word) /\ (Reach(core, i.dst, "word") => d \in Word)
  BY <1>2, CoreOperands
<1> HIDE DEF b, s, d
<1>6. CASE C!In(i, v)
  <2> DEFINE x == Append(b.io, <<"in", s, v>>)
             m == [b EXCEPT !.io = x]
             n == Put(m, i.dst, "word", v)
  <2>1. CoreTurns(i, CoreMovFaults(i), n)
    BY <1>6, CoreIn DEF b, s
  <2>2. ~CoreMovFaults(i) => s \in Word /\ i.dst.kind # "imm"
    BY <1>5 DEF CoreMovFaults, Assignable
  <2>3. ~CoreMovFaults(i) => m \in Machines
    BY <1>3, <2>2, Updated
  <2>4. m.mem = core.mem /\ m.reg = core.reg
    <3> HIDE DEF x
    <3> QED BY <1>3 DEF Machines
  <2>5. v \in Of(Effect(i)) /\ v \in Of("word")
    BY <1>4 DEF Of, Word
  <2> HIDE DEF m
  <2>6. ~CoreMovFaults(i) => n \in Machines
    <3>1. ~CoreMovFaults(i) => IsPlace(m, i.dst)
      BY <1>2, <2>3, Points
    <3> QED BY <2>3, <2>5, <3>1, Puts, WordSize
  <2>7. ~CoreMovFaults(i) => Narrow(core, n, i)
    BY <1>2, <1>4, <2>2, <2>3, <2>4, <2>5, PutNarrow
  <2> HIDE DEF n
  <2> QED BY <2>1, <2>6, <2>7, CoreTurnGood
<1>7. CASE C!Out(i)
  <2> DEFINE x == Append(b.io, <<"out", d, s>>)
             m == [b EXCEPT !.io = x]
             panics == ~Reach(core, i.src, "word") \/ ~Reach(core, i.dst, "word")
  <2>1. CoreTurns(i, panics, m)
    BY <1>7, CoreOut DEF b, s, d
  <2>2. ~panics => m \in Machines
    BY <1>3, <1>5, Updated
  <2>3. m.mem = core.mem /\ m.reg = core.reg
    <3> HIDE DEF x
    <3> QED BY <1>3 DEF Machines
  <2> HIDE DEF m, panics
  <2> QED BY <2>1, <2>2, <2>3, NarrowSame, CoreTurnGood
<1> QED BY <1>6, <1>7

LEMMA CoreTargets ==
  ASSUME core \in Machines, NEW i \in Instructions, i.size = "word", i.src \in Operands(i.size),
         Reach(core, i.src, "word")
  PROVE  CoreTarget(i) \in Word
<1> DEFINE s == Src(core, i)
<1>1. s \in Word
  BY CoreOperands DEF Of, Word
<1>2. core.ip \in Int
  BY MachineFields, WordNat
<1> HIDE DEF s
<1>3. core.ip + s \in Int
  BY <1>1, <1>2, WordNat
<1>4. Wrap(core.ip + s) \in Word
  BY <1>3, WrapRange
<1> QED BY <1>1, <1>4 DEF CoreTarget, s

LEMMA CoreJumpGood ==
  ASSUME core \in Machines, NEW i \in Instructions, i.size = "word",
         C!Jmp(i) \/ C!Rjmp(i) \/ C!Call(i) \/ C!Rcall(i)
  PROVE  CoreGood(i)
<1> DEFINE t == CoreTarget(i)
           a == Wrap(core.ip + AssembledLength(i))
           p == Push(core, "word", a)
           m == [core EXCEPT !.ip = t]
           n == [p EXCEPT !.ip = t]
<1>1. i.op \in {"jmp", "rjmp", "call", "rcall"} /\ (C!Call(i) \/ C!Rcall(i) => i.op \in {"call", "rcall"})
  BY DEF C!Jmp, C!Rjmp, C!Call, C!Rcall
<1>2. i.src \in Operands(i.size) /\ Effect(i) = "word"
  BY <1>1, OperatorsApart DEF OneOps, Effect, C!WordOps
<1>3. Reach(core, i.src, "word") => t \in Word
  BY <1>2, CoreTargets
<1>4. a \in Int
  BY MachineFields, WordNat, LengthNat, WrapRange
<1>5. p \in Machines
  BY <1>4, Pushes, WordSize
<1>6. i.op \in {"call", "rcall"} => Narrow(core, p, i)
  BY <1>2, PushedNarrow
<1> HIDE DEF t, p, a
<1>7. m.mem = core.mem /\ m.reg = core.reg /\ n.mem = p.mem /\ n.reg = p.reg
  BY <1>5 DEF Machines
<1>8. Reach(core, i.src, "word") => m \in Machines /\ n \in Machines
  BY <1>3, <1>5, Updated
<1>9. CASE C!Jmp(i) \/ C!Rjmp(i)
  <2>1. CoreTurns(i, ~Reach(core, i.src, "word"), m)
    BY <1>9, CoreJumps DEF t
  <2>2. Narrow(core, m, i)
    BY <1>7, NarrowSame
  <2> HIDE DEF m
  <2> QED BY <1>8, <2>1, <2>2, CoreTurnGood
<1>10. CASE C!Call(i) \/ C!Rcall(i)
  <2> DEFINE panics == ~Reach(core, i.src, "word") \/ ~Writable(Pushed(core, "word"), "word")
  <2>1. CoreTurns(i, panics, n)
    BY <1>10, CoreCalls DEF t, p, a
  <2>2. Narrow(core, n, i)
    BY <1>1, <1>6, <1>7, <1>10, NarrowLike
  <2>3. ~panics => n \in Machines /\ Narrow(core, n, i)
    BY <1>8, <2>2
  <2> HIDE DEF n, panics
  <2> QED BY <2>1, <2>3, CoreTurnGood
<1> QED BY <1>9, <1>10

LEMMA CoreLoopGood ==
  ASSUME core \in Machines, NEW i \in Instructions, i.size = "word", C!Loop(i) \/ C!Rloop(i)
  PROVE  CoreGood(i)
<1> DEFINE count == Wrap(core.reg["r31"] - 1)
           n == [core EXCEPT !.reg["r31"] = count]
           target == Value(n, i.src, "word")
           a == Wrap(core.ip + AssembledLength(i))
           b == IF i.op = "loop" THEN target ELSE Wrap(core.ip + target)
           n1 == [n EXCEPT !.ip = a]
           n2 == [n EXCEPT !.ip = b]
<1>1. i.op \in {"loop", "rloop"}
  BY DEF C!Loop, C!Rloop
<1>2. i.src \in Operands(i.size)
  BY <1>1, OperatorsApart DEF OneOps
<1>3. core' = IF C!Skips(i.cond) THEN Passed(core, i)
              ELSE IF count = 0 THEN n1 ELSE IF ~Reach(n, i.src, "word") THEN Died(core) ELSE n2
  BY CoreLoops
<1>4. core.ip \in Int /\ core.reg["r31"] \in Int /\ AssembledLength(i) \in Int
  BY MachineFields, WordNat, LengthNat, StackRegs
<1>5. count \in Word /\ a \in Word
  <2>1. core.reg["r31"] - 1 \in Int /\ core.ip + AssembledLength(i) \in Int
    BY <1>4
  <2> QED BY <2>1, WrapRange
<1> HIDE DEF count, a
<1>6. n \in Machines
  BY <1>5, StackRegs, Updated
<1>7. n.mem = core.mem /\ n.reg = [core.reg EXCEPT !["r31"] = count]
  BY DEF Machines
<1> HIDE DEF n
<1>8. Reach(n, i.src, "word") => target \in Word
  BY <1>2, <1>6, Values, WordSize DEF Reach, Of, Word
<1> HIDE DEF target
<1>9. Reach(n, i.src, "word") => b \in Word
  <2>1. target \in Word => core.ip + target \in Int
    BY <1>4, WordNat
  <2>2. target \in Word => Wrap(core.ip + target) \in Word
    BY <2>1, WrapRange
  <2> QED BY <1>8, <2>2
<1> HIDE DEF b
<1>10. n1 \in Machines /\ (Reach(n, i.src, "word") => n2 \in Machines)
  BY <1>5, <1>6, <1>9, Updated
<1>11. n1.mem = n.mem /\ n1.reg = n.reg /\ n2.mem = n.mem /\ n2.reg = n.reg
  BY <1>6 DEF Machines
<1>12. Narrow(core, n, i)
  BY <1>1, <1>7, StackRegs, OneReg, SameMem DEF Narrow
<1> HIDE DEF n1, n2
<1>13. Narrow(core, n1, i) /\ Narrow(core, n2, i)
  BY <1>11, <1>12, NarrowLike
<1> QED BY <1>3, <1>10, <1>13, DiedNarrow, Zenon DEF CoreGood

LEMMA CorePushGood ==
  ASSUME core \in Machines, NEW i \in Instructions, C!PushCase(i)
  PROVE  CoreGood(i)
<1> DEFINE panics == ~Reach(core, i.src, i.size) \/ ~Writable(Pushed(core, i.size), i.size)
           b == Passed(core, i)
           v == Src(core, i)
           m == Push(b, i.size, v)
<1>1. i.op = "push" /\ CoreTurns(i, panics, m)
  BY CorePush DEF C!PushCase
<1>2. i.src \in Operands(i.size) /\ i.size \in Sizes /\ Effect(i) = i.size
  BY <1>1, OperatorsApart, InstructionFacts DEF OneOps, Effect, C!WordOps
<1>3. b \in Machines /\ b.mem = core.mem /\ b.reg = core.reg
  BY PassedTyped, PassedFields
<1>4. ~panics => v \in Int
  BY <1>2, CoreOperands, WordNat
<1> HIDE DEF b, v
<1>5. ~panics => m \in Machines
  BY <1>2, <1>3, <1>4, Pushes
<1>6. Narrow(core, m, i)
  BY <1>1, <1>2, <1>3, PushedNarrow
<1> HIDE DEF panics, m
<1> QED BY <1>1, <1>5, <1>6, CoreTurnGood

LEMMA CorePopGood ==
  ASSUME core \in Machines, NEW i \in Instructions, C!PopCase(i)
  PROVE  CoreGood(i)
<1> DEFINE p == Popped(Passed(core, i), i.size)
           v == Top(core, i.size)
           a == Pointer(p, i.src)
           m == Put(p, i.src, i.size, v)
           n == [p EXCEPT !.mem = Store(@, a, i.size, v)]
           panics == \/ ~Mapped(core.reg["rsp"], i.size)
                     \/ i.src.kind = "imm"
                     \/ IsPointer(i.src) /\ ~Writable(a, i.size)
<1>1. i.op = "pop" /\ CoreTurns(i, panics, m)
  BY CorePop DEF C!PopCase
<1>2. i.src \in Operands(i.size) /\ i.size \in Sizes
  BY <1>1, OperatorsApart, InstructionFacts DEF OneOps
<1>3. p \in Machines
  BY <1>2, PassedTyped, Pops
<1>4. ~panics => v \in Of(i.size)
  BY <1>2, Tops
<1>5. ~panics /\ i.src.kind # "reg" => IsPointer(i.src)
  BY <1>2, OperandKinds DEF IsPointer
<1>6. i.src.kind # "reg" => m = n
  BY Zenon DEF Put
<1>7. /\ v \in Of(i.size) /\ i.src.kind = "reg" => Narrow(core, m, i)
      /\ v \in Of(i.size) /\ IsPointer(i.src) => Narrow(core, n, i)
  BY <1>1, <1>2, PoppedNarrow
<1> HIDE DEF p, v, a
<1>8. ~panics => m \in Machines
  BY <1>2, <1>3, <1>4, Points, Puts
<1> HIDE DEF m, n, panics
<1>9. ~panics => m \in Machines /\ Narrow(core, m, i)
  BY <1>4, <1>5, <1>6, <1>7, <1>8
<1> QED BY <1>1, <1>9, CoreTurnGood

LEMMA CoreReturnGood ==
  ASSUME core \in Machines, NEW i \in Instructions, C!Ret(i) \/ C!Reti(i)
  PROVE  CoreGood(i)
<1> DEFINE r == Restored(core)
           p == ~Mapped(core.reg["rsp"], "word")
           q == ~Mapped(core.reg["rsp"], "byte") \/ ~Mapped(r.reg["rsp"], "word")
           s == Top(core, "word")
           t == Top(r, "word")
           m == [Popped(core, "word") EXCEPT !.ip = s]
           n == [Popped(r, "word") EXCEPT !.ip = t]
<1>1. i.op \in {"ret", "reti"} /\ (CoreTurns(i, p, m) \/ CoreTurns(i, q, n))
  BY CoreRet, CoreReti DEF C!Ret, C!Reti
<1>2. Narrow(core, m, i) /\ Narrow(core, n, i)
  BY <1>1, ReturnNarrow
<1>3. r \in Machines
  BY RestoredTyped
<1>4. (~p => s \in Word) /\ (~q => t \in Word)
  BY <1>3, Tops, WordSize, WordNat
<1>5. Popped(core, "word") \in Machines /\ Popped(r, "word") \in Machines
  BY <1>3, Pops, WordSize
<1> HIDE DEF r, s, t
<1>6. (~p => m \in Machines) /\ (~q => n \in Machines)
  BY <1>4, <1>5, Updated
<1> HIDE DEF p, q, m, n
<1> QED BY <1>1, <1>2, <1>6, CoreTurnGood

LEMMA CorePlainGood ==
  ASSUME core \in Machines, NEW i \in Instructions,
         C!Nop(i) \/ C!Brk(i) \/ C!Halt(i) \/ C!Ise(i) \/ C!Icl(i)
  PROVE  CoreGood(i)
<1> DEFINE b == Passed(core, i)
           m1 == [b EXCEPT !.halted = TRUE]
           m2 == [b EXCEPT !.int = TRUE]
           m3 == [b EXCEPT !.int = FALSE]
<1>1. b \in Machines /\ b.mem = core.mem /\ b.reg = core.reg
  BY PassedTyped, PassedFields
<1>2. \/ core' = b
      \/ CoreTurns(i, TRUE, core) \/ CoreTurns(i, FALSE, m1)
      \/ CoreTurns(i, FALSE, m2) \/ CoreTurns(i, FALSE, m3)
  BY CorePlain
<1> HIDE DEF b
<1>3. m1 \in Machines /\ m2 \in Machines /\ m3 \in Machines
  BY <1>1, Updated
<1>4. /\ m1.mem = core.mem /\ m1.reg = core.reg /\ m2.mem = core.mem /\ m2.reg = core.reg
      /\ m3.mem = core.mem /\ m3.reg = core.reg
  BY <1>1 DEF Machines
<1> HIDE DEF m1, m2, m3
<1>5. Narrow(core, m1, i) /\ Narrow(core, m2, i) /\ Narrow(core, m3, i)
  BY <1>4, NarrowSame
<1>6. CASE core' = b
  BY <1>6, DiedNarrow DEF b, CoreGood
<1>7. CASE CoreTurns(i, TRUE, core)
  BY <1>7, CoreTurnGood
<1>8. CASE CoreTurns(i, FALSE, m1) \/ CoreTurns(i, FALSE, m2) \/ CoreTurns(i, FALSE, m3)
  BY <1>3, <1>5, <1>8, CoreTurnGood
<1> QED BY <1>2, <1>6, <1>7, <1>8

(* A machine that executes an instruction stays a machine, and has changed *)
(* what the instruction addresses.                                         *)
LEMMA CoreExecutes ==
  ASSUME core \in Machines, NEW i \in Instructions, NEW v \in Word, C!Execute(i, v)
  PROVE  CoreGood(i)
<1>1. CASE C!BadOpcode(i) /\ C!Dies
  BY <1>1, CoreParts, DiedNarrow DEF CoreGood
<1>2. CASE ~C!BadOpcode(i) /\ C!Known(i, v)
  <2>1. i.op \in C!WordOps => i.size = "word"
    BY <1>2 DEF C!BadOpcode
  <2>2. CASE CoreArithmetic(i) \/ C!Imul(i)
    BY <2>2, CoreArithmeticGood
  <2>3. CASE CoreLogicals(i)
    BY <2>3, CoreLogicalGood
  <2>4. CASE C!Idiv(i) \/ C!Irem(i)
    BY <2>4, CoreSignedGood
  <2>5. CASE C!Cmp(i) \/ C!Bts(i)
    BY <2>5, CoreTestGood
  <2>6. CASE C!Mov(i) \/ C!Movz(i) \/ C!Rta(i)
    BY <2>1, <2>6, CoreMoveGood
  <2>7. CASE C!In(i, v) \/ C!Out(i)
    <3>1. i.size = "word"
      BY <2>1, <2>7 DEF C!In, C!Out, C!WordOps
    <3> QED BY <2>7, <3>1, CorePortGood
  <2>8. CASE C!Inc(i) \/ C!Dec(i) \/ C!Not(i)
    BY <2>8, CoreSingleGood
  <2>9. CASE C!Jmp(i) \/ C!Rjmp(i) \/ C!Call(i) \/ C!Rcall(i)
    <3>1. i.size = "word"
      BY <2>1, <2>9 DEF C!Jmp, C!Rjmp, C!Call, C!Rcall, C!WordOps
    <3> QED BY <2>9, <3>1, CoreJumpGood
  <2>10. CASE C!Loop(i) \/ C!Rloop(i)
    <3>1. i.size = "word"
      BY <2>1, <2>10 DEF C!Loop, C!Rloop, C!WordOps
    <3> QED BY <2>10, <3>1, CoreLoopGood
  <2>11. CASE C!PushCase(i)
    BY <2>11, CorePushGood
  <2>12. CASE C!PopCase(i)
    BY <2>12, CorePopGood
  <2>13. CASE C!Ret(i) \/ C!Reti(i)
    BY <2>13, CoreReturnGood
  <2>14. CASE C!Nop(i) \/ C!Brk(i) \/ C!Halt(i) \/ C!Ise(i) \/ C!Icl(i)
    BY <2>14, CorePlainGood
  <2> QED BY <1>2, <2>2, <2>3, <2>4, <2>5, <2>6, <2>7, <2>8, <2>9, <2>10, <2>11, <2>12, <2>13,
             <2>14, Zenon DEF C!Known, CoreArithmetic, CoreLogicals
<1> QED BY <1>1, <1>2 DEF C!Execute
-----------------------------------------------------------------------------
(* Interrupts: the frame, and the machine that enters the handler.         *)

Framed(x) == Push(Push(x, "word", x.ip), "byte", FlagsByte(x))

(* What an interrupt that turned x into y leaves to be found again.        *)
Interrupted(x, y) ==
  x.int /\ ~y.dead =>
    /\ Mapped(Pushed(x, "word"), "word")
    /\ Mapped(Pushed(Push(x, "word", x.ip), "byte"), "byte")
    /\ y.mem = Framed(x).mem /\ y.reg = Framed(x).reg

LEMMA FlagsNumber == ASSUME NEW m PROVE FlagsByte(m) \in 0 .. 7
<1>1. Flag(m.int) \in {0, 1} /\ Flag(m.carry) \in {0, 1} /\ Flag(m.zero) \in {0, 1}
  BY Zenon DEF Flag
<1> QED BY <1>1 DEF FlagsByte

LEMMA FramedTyped == ASSUME NEW x \in Machines PROVE Framed(x) \in Machines
<1> DEFINE p == Push(x, "word", x.ip)
<1>1. x.ip \in Int
  BY MachineFields, WordNat
<1>2. p \in Machines
  BY <1>1, Pushes, WordSize
<1>3. FlagsByte(x) \in Int
  BY FlagsNumber
<1> HIDE DEF p
<1> QED BY <1>2, <1>3, Pushes, WordSize DEF Framed, p

LEMMA DiedDead == ASSUME NEW m \in Machines PROVE Died(m).dead = TRUE
BY DEF Died, Machines

(* The vector table is within the mapped memory, and so within a word. *)
LEMMA VectorLoads ==
  ASSUME NEW x \in Machines, NEW vector \in Nat, Mapped(4 * vector, "word")
  PROVE  Load(x.mem, 4 * vector, "word") \in Word
<1> DEFINE a == 4 * vector
<1>1. a \in Nat
  OBVIOUS
<1>2. Mapped(a, "word")
  OBVIOUS
<1>3. Mod("word") \in Nat /\ Bytes("word") = 4
  BY SizeFacts, WordSize DEF Bytes
<1> HIDE DEF a
<1>4. a < Mod("word")
  BY <1>1, <1>2, <1>3, MachineAssumption DEF Mapped
<1>5. a \in Word
  BY <1>1, <1>3, <1>4 DEF Word
<1>6. x.mem \in Memories
  BY MachineFields
<1>7. Load(x.mem, a, "word") \in Of("word")
  BY <1>2, <1>5, <1>6, Loads, WordSize
<1> QED BY <1>7, WordSize, WordNat DEF a

LEMMA HandlerTyped ==
  ASSUME NEW x \in Machines, NEW a \in Word
  PROVE  LET y == [Framed(x) EXCEPT !.int = FALSE, !.ip = a]
             z == [Framed(x) EXCEPT !.int = FALSE, !.halted = TRUE, !.ip = a]
         IN  /\ y \in Machines /\ y.mem = Framed(x).mem /\ y.reg = Framed(x).reg
             /\ z \in Machines /\ z.mem = Framed(x).mem /\ z.reg = Framed(x).reg
<1> DEFINE f == Framed(x)
<1>1. f \in Machines
  BY FramedTyped
<1> HIDE DEF f
<1>2. LET y == [f EXCEPT !.int = FALSE, !.ip = a]
          z == [f EXCEPT !.int = FALSE, !.halted = TRUE, !.ip = a]
      IN  /\ y \in Machines /\ y.mem = f.mem /\ y.reg = f.reg
          /\ z \in Machines /\ z.mem = f.mem /\ z.reg = f.reg
  BY <1>1 DEF Machines
<1> QED BY <1>2 DEF f

LEMMA InterruptedMeans ==
  ASSUME NEW x, NEW y, x.int /\ ~y.dead, Interrupted(x, y)
  PROVE  /\ Mapped(Pushed(x, "word"), "word")
         /\ Mapped(Pushed(Push(x, "word", x.ip), "byte"), "byte")
         /\ y.mem = Framed(x).mem /\ y.reg = Framed(x).reg
BY DEF Interrupted

LEMMA RustInterrupted ==
  ASSUME rust \in Machines, NEW vector \in Nat, R!Interrupt(vector)
  PROVE  rust' \in Machines /\ Interrupted(rust, rust')
<1> DEFINE a == Load(rust.mem, 4 * vector, "word")
           p == Mapped(Pushed(rust, "word"), "word")
           q == Mapped(Pushed(Push(rust, "word", rust.ip), "byte"), "byte")
           y == [Framed(rust) EXCEPT !.int = FALSE, !.ip = a]
<1>1. \/ ~rust.int /\ rust' = rust
      \/ rust.int /\ Mapped(4 * vector, "word") /\ p /\ q /\ rust' = y
      \/ rust.int /\ rust' = Died(rust)
  BY SameMemory, SameStack, Zenon DEF R!Interrupt, Framed, Died
<1>2. CASE ~rust.int /\ rust' = rust
  BY <1>2 DEF Interrupted
<1>3. CASE rust.int /\ Mapped(4 * vector, "word") /\ p /\ q /\ rust' = y
  <2>1. a \in Word
    BY <1>3, VectorLoads
  <2> HIDE DEF a
  <2>2. y \in Machines /\ y.mem = Framed(rust).mem /\ y.reg = Framed(rust).reg
    BY <2>1, HandlerTyped
  <2> HIDE DEF y
  <2> QED BY <1>3, <2>2 DEF Interrupted
<1>4. CASE rust.int /\ rust' = Died(rust)
  <2>1. Died(rust) \in Machines /\ Died(rust).dead = TRUE
    BY DiedDead, Updated DEF Died
  <2> QED BY <1>4, <2>1 DEF Interrupted
<1> QED BY <1>1, <1>2, <1>3, <1>4

LEMMA CoreInterrupted ==
  ASSUME core \in Machines, NEW vector \in Nat, C!Raise(vector)
  PROVE  core' \in Machines /\ Interrupted(core, core')
<1> DEFINE a == Load(core.mem, 4 * vector, "word")
           c == Pushed(core, "word")
           d == Pushed(Push(core, "word", core.ip), "byte")
           y == [Framed(core) EXCEPT !.int = FALSE, !.halted = TRUE, !.ip = a]
<1>1. \/ ~core.int /\ core' = core
      \/ core.int /\ Mapped(4 * vector, "word") /\ Writable(c, "word") /\ Writable(d, "byte") /\ core' = y
      \/ core.int /\ core' = Died(core)
  BY SameMemory, SameStack, CoreParts, Zenon DEF C!Raise, Framed
<1>2. CASE ~core.int /\ core' = core
  BY <1>2 DEF Interrupted
<1>3. CASE core.int /\ Mapped(4 * vector, "word") /\ Writable(c, "word") /\ Writable(d, "byte") /\ core' = y
  <2>1. a \in Word
    BY <1>3, VectorLoads
  <2>2. Mapped(c, "word") /\ Mapped(d, "byte")
    BY <1>3 DEF Writable, Mapped
  <2> HIDE DEF a
  <2>3. y \in Machines /\ y.mem = Framed(core).mem /\ y.reg = Framed(core).reg
    BY <2>1, HandlerTyped
  <2> HIDE DEF y
  <2> QED BY <1>3, <2>2, <2>3 DEF Interrupted
<1>4. CASE core.int /\ core' = Died(core)
  <2>1. Died(core) \in Machines /\ Died(core).dead = TRUE
    BY DiedDead, Updated DEF Died
  <2> QED BY <1>4, <2>1 DEF Interrupted
<1> QED BY <1>1, <1>2, <1>3, <1>4
-----------------------------------------------------------------------------
(* Both CPUs stay machines, after they have parted too.                    *)

BothMachines == ins \in Instructions /\ rust \in Machines /\ core \in Machines

LEMMA StepExecutes ==
  ASSUME Step
  PROVE  \E v \in Word : /\ IF Runs(rust) THEN R!Execute(ins, v) ELSE rust' = rust
                         /\ IF Runs(core) THEN C!Execute(ins, v) ELSE core' = core
<1>1. (IF ins.op = "in" THEN Answers ELSE {0}) \subseteq Word
  BY TwoCpusAssumption, WordFacts
<1> QED BY <1>1, Zenon DEF Step

LEMMA StepKeepsMachines ==
  ASSUME BothMachines, [Next]_vars
  PROVE  BothMachines'
<1>1. CASE Step
  <2>1. PICK v \in Word : /\ IF Runs(rust) THEN R!Execute(ins, v) ELSE rust' = rust
                          /\ IF Runs(core) THEN C!Execute(ins, v) ELSE core' = core
    BY <1>1, StepExecutes
  <2>2. ins' \in Instructions
    BY <1>1, TwoCpusAssumption DEF Step
  <2>3. rust' \in Machines
    BY <2>1, RustExecutes DEF BothMachines
  <2>4. core' \in Machines
    BY <2>1, CoreExecutes DEF BothMachines, CoreGood
  <2> QED BY <2>2, <2>3, <2>4 DEF BothMachines
<1>2. ASSUME NEW vector \in Vectors, Request(vector) PROVE BothMachines'
  <2>1. ins' \in Instructions /\ vector \in Nat
    BY <1>2, TwoCpusAssumption DEF Request
  <2>2. R!Interrupt(vector) /\ C!Raise(vector)
    BY <1>2 DEF Request
  <2> QED BY <2>1, <2>2, RustInterrupted, CoreInterrupted DEF BothMachines
<1>3. CASE UNCHANGED vars
  BY <1>3 DEF vars, BothMachines
<1> QED BY <1>1, <1>2, <1>3 DEF Next

(* Whatever is executed, skipped, popped, read from a port or interrupted, *)
(* every register, cell, flag and instruction pointer of cpu.rs and of     *)
(* fox32.c keeps its width, and a CPU panics rather than leave the mapped  *)
(* memory: the two need not agree for this.                                *)
THEOREM MachinesStayMachines == Spec => []BothMachines
<1>1. Init => BothMachines
  BY TwoCpusAssumption DEF Init, BothMachines
<1> QED BY <1>1, StepKeepsMachines, PTL DEF Spec

LEMMA StepNarrow ==
  ASSUME BothMachines, [Next]_vars
  PROVE  [\A t \in Turns :
            Executes(t.x, t.y) =>
              /\ \A c \in DOMAIN t.x.mem :
                   t.y.mem[c] # t.x.mem[c] => c \in Cells(t.x, ins)
              /\ \A r \in Regs :
                   t.y.reg[r] # t.x.reg[r] =>
                     \/ r = "rsp" /\ ins.op \in {"push", "pop", "call", "rcall", "ret", "reti"}
                     \/ r = "r31" /\ ins.op \in {"loop", "rloop"}
                     \/ /\ Written(ins).kind = "reg" /\ Written(ins).v = r
                        /\ \/ ins.op = "movz"
                           \/ t.y.reg[r] \div Mod(Effect(ins)) = t.x.reg[r] \div Mod(Effect(ins))]_vars
<1> SUFFICES ASSUME Next
             PROVE  \A t \in Turns : Executes(t.x, t.y) => t.x \in Machines /\ Narrow(t.x, t.y, ins)
  <2>1. ASSUME NEW x \in Machines PROVE DOMAIN x.mem = Ram \cup Rom
    BY DEF Machines
  <2> QED BY <2>1, Zenon DEF Narrow, CellsKept, RegsKept, RegKept
<1>1. ASSUME Executes(rust, rust') PROVE Narrow(rust, rust', ins)
  <2>1. Step /\ Runs(rust)
    BY <1>1, Zenon DEF Executes, Next, Request
  <2>2. PICK v \in Word : IF Runs(rust) THEN R!Execute(ins, v) ELSE rust' = rust
    BY <2>1, StepExecutes
  <2> QED BY <2>1, <2>2, RustNarrow DEF BothMachines
<1>2. ASSUME Executes(core, core') PROVE Narrow(core, core', ins)
  <2>1. Step /\ Runs(core)
    BY <1>2, Zenon DEF Executes, Next, Request
  <2>2. PICK v \in Word : IF Runs(core) THEN C!Execute(ins, v) ELSE core' = core
    BY <2>1, StepExecutes
  <2> QED BY <2>1, <2>2, CoreExecutes DEF BothMachines, CoreGood
<1>3. \A t \in Turns : (t.x = rust /\ t.y = rust') \/ (t.x = core /\ t.y = core')
  BY DEF Turns
<1> QED BY <1>1, <1>2, <1>3 DEF BothMachines

(* For every instruction, size and operand, either CPU changes no cells    *)
(* but those the instruction addresses, and no register but its own, the   *)
(* stack pointer and the loop counter; and of its own register no more     *)
(* than the low part of its size, unless it is a movz.                     *)
THEOREM NarrowEffects == Spec => NarrowWrites
<1>1. Init => BothMachines
  BY TwoCpusAssumption DEF Init, BothMachines
<1> QED BY <1>1, StepKeepsMachines, StepNarrow, PTL DEF Spec, NarrowWrites
-----------------------------------------------------------------------------
(* A word is its four bytes again, and a byte of flags its three flags.    *)

LEMMA FlagBits ==
  ASSUME NEW m \in Machines
  PROVE  /\ (Bit(FlagsByte(m), 0) = 1) = m.zero
         /\ (Bit(FlagsByte(m), 1) = 1) = m.carry
         /\ (Bit(FlagsByte(m), 2) = 1) = m.int
         /\ FlagsByte(m) \in Of("byte")
<1> DEFINE i == Flag(m.int)
           c == Flag(m.carry)
           z == Flag(m.zero)
           f == FlagsByte(m)
<1>1. /\ i \in {0, 1} /\ (i = 1) = m.int
      /\ c \in {0, 1} /\ (c = 1) = m.carry
      /\ z \in {0, 1} /\ (z = 1) = m.zero
  <2>1. \A b \in BOOLEAN : Flag(b) \in {0, 1} /\ (Flag(b) = 1) = b
    BY DEF Flag
  <2> QED BY <2>1, MachineFields, Zenon
<1>2. f = 4 * i + 2 * c + z
  BY DEF FlagsByte
<1> HIDE DEF i, c, z, f
<1>3. (f \div 1) % 2 = z /\ (f \div 2) % 2 = c /\ (f \div 4) % 2 = i
  BY <1>1, <1>2
<1>4. Bit(f, 0) = z /\ Bit(f, 1) = c /\ Bit(f, 2) = i
  BY <1>3, BitIs, Powers
<1>5. f \in Of("byte")
  BY <1>1, <1>2, ModValues DEF Of
<1> QED BY <1>1, <1>4, <1>5, Zenon DEF f

(* The frame does not wrap around: its five cells are below the top. *)
LEMMA FramePlaces ==
  ASSUME NEW x \in Machines,
         Mapped(Pushed(x, "word"), "word"),
         Mapped(Pushed(Push(x, "word", x.ip), "byte"), "byte")
  PROVE  LET a == Pushed(x, "word") IN
         /\ a \in Nat /\ a >= 1 /\ a + 4 < Mod("word") /\ a + 4 = x.reg["rsp"]
         /\ Mapped(a, "word") /\ Mapped(a - 1, "byte")
         /\ Framed(x).reg["rsp"] = a - 1
         /\ Framed(x).mem = Store(Store(x.mem, a, "word", x.ip), a - 1, "byte", FlagsByte(x))
<1> DEFINE a == Pushed(x, "word")
           p == Push(x, "word", x.ip)
           c == Pushed(p, "byte")
           s == x.reg["rsp"]
           g == FlagsByte(x)
<1>1. s \in Word /\ a \in Word /\ "rsp" \in Regs /\ x.ip \in Int
  BY MachineFields, StackRegs, Pops, WordSize, WordNat
<1>2. p \in Machines
  BY <1>1, Pushes, WordSize
<1>3. p.reg["rsp"] = a /\ p.mem = Store(x.mem, a, "word", x.ip)
  <2> DEFINE m == Store(x.mem, a, "word", x.ip)
  <2>1. p = [x EXCEPT !.reg["rsp"] = a, !.mem = m]
    BY DEF Push
  <2> HIDE DEF m, a, p
  <2> QED BY <1>1, <2>1 DEF Machines, m
<1>4. c = Wrap(a - 1) /\ a = Wrap(s - 4)
  BY <1>3 DEF Pushed, Bytes
<1>5. Framed(x).reg["rsp"] = c /\ Framed(x).mem = Store(p.mem, c, "byte", g)
  <2> DEFINE m == Store(p.mem, c, "byte", g)
  <2>1. Framed(x) = [p EXCEPT !.reg["rsp"] = c, !.mem = m]
    BY DEF Framed, Push
  <2> HIDE DEF m, c, p
  <2> QED BY <1>1, <1>2, <2>1 DEF Machines, m
<1>6. Mapped(a, "word") /\ Mapped(c, "byte")
  OBVIOUS
<1> HIDE DEF a, c, s, p, g
<1> DEFINE w == Mod("word")
<1>7. w \in Nat \ {0} /\ s \in 0 .. w - 1 /\ a \in 0 .. w - 1 /\ w > 8
  BY <1>1, ModValues DEF Word
<1>8. a + 4 < w
  BY <1>6, <1>7, MachineAssumption DEF Mapped, Bytes
<1>9. s >= 4 /\ a = s - 4
  <2>1. s < 4 => a = s - 4 + w
    <3>1. s < 4 => s - 4 = w * (0 - 1) + (s - 4 + w) /\ s - 4 + w \in 0 .. w - 1
      BY <1>7
    <3>2. s < 4 => (s - 4) % w = s - 4 + w
      BY <1>7, <3>1, DividesOnce
    <3> QED BY <1>4, <3>2 DEF Wrap
  <2>2. s >= 4
    BY <1>7, <1>8, <2>1
  <2>3. (s - 4) % w = s - 4
    BY <1>7, <2>2, Whole
  <2> QED BY <1>4, <2>2, <2>3 DEF Wrap
<1>10. a >= 1 /\ c = a - 1
  <2>1. a = 0 => c = w - 1
    <3>1. 0 - 1 = w * (0 - 1) + (w - 1) /\ w - 1 \in 0 .. w - 1
      BY <1>7
    <3>2. (0 - 1) % w = w - 1
      BY <1>7, <3>1, DividesOnce
    <3> QED BY <1>4, <3>2 DEF Wrap
  <2>2. c = w - 1 => FALSE
    BY <1>6, <1>7, MachineAssumption DEF Mapped, Bytes
  <2>3. a >= 1
    BY <1>7, <2>1, <2>2
  <2>4. (a - 1) % w = a - 1
    BY <1>7, <2>3, Whole
  <2> QED BY <1>4, <2>3, <2>4 DEF Wrap
<1> QED BY <1>3, <1>5, <1>6, <1>7, <1>8, <1>9, <1>10 DEF a, c, s, p, g

LEMMA StoredCell ==
  ASSUME NEW mem, NEW a \in Int, NEW s \in Sizes, NEW v, NEW k \in 0 .. Bytes(s) - 1, a + k \in Ram \cup Rom
  PROVE  Store(mem, a, s, v)[a + k] = ByteOf(v, k)
<1> DEFINE c == a + k
<1>1. c \in a .. a + Bytes(s) - 1 /\ c - a = k /\ c \in Ram \cup Rom
  BY SizeFacts
<1> HIDE DEF c
<1>2. Store(mem, a, s, v)[c] = (v \div Mod("byte") ^ (c - a)) % Mod("byte")
  BY <1>1, Zenon DEF Store
<1> QED BY <1>1, <1>2 DEF c, ByteOf, Digit, BytePow

LEMMA KeptCell ==
  ASSUME NEW mem, NEW a, NEW s, NEW v, NEW c \in Ram \cup Rom, c \notin a .. a + Bytes(s) - 1
  PROVE  Store(mem, a, s, v)[c] = mem[c]
BY Zenon DEF Store

LEMMA FirstByte == ASSUME NEW v \in Of("byte") PROVE ByteOf(v, 0) = v
<1> DEFINE b == Mod("byte")
<1>1. b \in {16, 256} /\ v \in 0 .. b - 1
  BY ModValues DEF Of
<1>2. BytePow(16, 0) = 1 /\ BytePow(256, 0) = 1
  BY DEF BytePow
<1> HIDE DEF b
<1>3. v \div 1 = v /\ v % b = v
  BY <1>1, Whole
<1> QED BY <1>1, <1>2, <1>3 DEF ByteOf, Digit, b

(* A machine that has the frame on top of its stack reads from it what was *)
(* pushed.                                                                 *)
LEMMA FrameRead ==
  ASSUME NEW x \in Machines, NEW y, NEW z \in Machines,
         Mapped(Pushed(x, "word"), "word"),
         Mapped(Pushed(Push(x, "word", x.ip), "byte"), "byte"),
         y.mem = Framed(x).mem, y.reg = Framed(x).reg, FrameOnTop(z, y)
  PROVE  /\ z.reg["rsp"] + 1 = Pushed(x, "word")
         /\ Top(z, "byte") = FlagsByte(x)
         /\ Load(z.mem, Pushed(x, "word"), "word") = x.ip
<1> DEFINE a == Pushed(x, "word")
           g == FlagsByte(x)
           inner == Store(x.mem, a, "word", x.ip)
           outer == Store(inner, a - 1, "byte", g)
           w == Mod("word")
<1>1. /\ a \in Nat /\ a >= 1 /\ a + 4 < w
      /\ Mapped(a, "word") /\ Mapped(a - 1, "byte")
      /\ y.reg["rsp"] = a - 1 /\ y.mem = outer
  BY FramePlaces
<1>2. w \in Nat \ {0} /\ Word = 0 .. w - 1
  BY ModValues DEF Word
<1>3. g \in Of("byte") /\ x.ip \in Word
  BY FlagBits, MachineFields
<1> HIDE DEF a, g, w
<1>4. a \in Word /\ a - 1 \in Word
  BY <1>1, <1>2
<1>5. /\ Bytes("word") = 4 /\ Bytes("byte") = 1
  BY DEF Bytes
<1>6. \A k \in 0 .. 3 : a + k \in Ram \cup Rom
  <2>1. Mapped(a, "word") /\ "word" \in Sizes
    BY <1>1, WordSize
  <2>2. \A k \in 0 .. 3 : k \in 0 .. Bytes("word") - 1
    BY <1>5
  <2>3. \A k \in 0 .. Bytes("word") - 1 : a + k \in Ram \cup Rom
    BY <1>4, <2>1, MappedCells
  <2> QED BY <2>2, <2>3
<1>7. a - 1 \in Ram \cup Rom /\ (a - 1) + 0 \in Ram \cup Rom
  <2>1. (a - 1) + 0 \in Ram \cup Rom
    <3> DEFINE e == a - 1
    <3>1. e \in Word /\ Mapped(e, "byte") /\ "byte" \in Sizes /\ 0 \in 0 .. Bytes("byte") - 1
      BY <1>1, <1>4, <1>5, WordSize
    <3> HIDE DEF e
    <3>2. e + 0 \in Ram \cup Rom
      BY <3>1, MappedCells
    <3> QED BY <3>2 DEF e
  <2>2. (a - 1) + 0 = a - 1
    BY <1>1
  <2> QED BY <2>1, <2>2
<1>8. outer[a - 1] = g
  <2>1. outer[(a - 1) + 0] = ByteOf(g, 0)
    <3> DEFINE e == a - 1
               k == 0
    <3>1. e \in Int /\ k \in 0 .. Bytes("byte") - 1 /\ e + k \in Ram \cup Rom
      BY <1>1, <1>5, <1>7
    <3> HIDE DEF inner, e, k
    <3>2. Store(inner, e, "byte", g)[e + k] = ByteOf(g, k)
      BY <3>1, StoredCell, WordSize
    <3> QED BY <3>2 DEF e, k
  <2>2. (a - 1) + 0 = a - 1
    BY <1>1
  <2> QED BY <1>3, <2>1, <2>2, FirstByte
<1>9. \A k \in 0 .. 3 : outer[a + k] = ByteOf(x.ip, k)
  <2> TAKE k \in 0 .. 3
  <2>1. inner[a + k] = ByteOf(x.ip, k)
    <3> DEFINE m == x.mem
               v == x.ip
               s == "word"
    <3>1. a \in Int /\ s \in Sizes /\ k \in 0 .. Bytes(s) - 1 /\ a + k \in Ram \cup Rom
      BY <1>1, <1>5, <1>6, WordSize
    <3> HIDE DEF inner, outer, m, v, s
    <3>2. Store(m, a, s, v)[a + k] = ByteOf(v, k)
      BY <3>1, StoredCell
    <3> QED BY <3>2 DEF m, v, s, inner
  <2>2. a + k \in Ram \cup Rom /\ a + k \notin (a - 1) .. (a - 1) + Bytes("byte") - 1
    BY <1>1, <1>5, <1>6
  <2> HIDE DEF inner
  <2>3. outer[a + k] = inner[a + k]
    BY <2>2, KeptCell
  <2> QED BY <2>1, <2>3
<1> HIDE DEF inner, outer
<1>10. z.reg["rsp"] = a - 1 /\ \A k \in 0 .. 4 : z.mem[Wrap((a - 1) + k)] = outer[Wrap((a - 1) + k)]
  BY <1>1 DEF FrameOnTop
<1>11. \A k \in 0 .. 4 : Wrap((a - 1) + k) = (a - 1) + k
  <2> TAKE k \in 0 .. 4
  <2>1. (a - 1) + k \in 0 .. w - 1
    BY <1>1, <1>2
  <2>2. ((a - 1) + k) % w = (a - 1) + k
    BY <1>2, <2>1, Whole
  <2> QED BY <2>2 DEF Wrap, w
<1>12. \A k \in 0 .. 4 : z.mem[(a - 1) + k] = outer[(a - 1) + k]
  BY <1>10, <1>11
<1>13. z.mem[a - 1] = g
  <2>1. (a - 1) + 0 = a - 1 /\ 0 \in 0 .. 4
    BY <1>1
  <2> QED BY <1>8, <1>12, <2>1
<1>14. \A k \in 0 .. 3 : z.mem[a + k] = ByteOf(x.ip, k)
  <2> TAKE k \in 0 .. 3
  <2>1. (a - 1) + (k + 1) = a + k /\ k + 1 \in 0 .. 4
    BY <1>1
  <2> QED BY <1>9, <1>12, <2>1
<1>15. Top(z, "byte") = g
  BY <1>10, <1>13 DEF Top, Load
<1>16. Load(z.mem, a, "word") = x.ip
  <2>1. /\ z.mem[a] = ByteOf(x.ip, 0) /\ z.mem[a + 1] = ByteOf(x.ip, 1)
        /\ z.mem[a + 2] = ByteOf(x.ip, 2) /\ z.mem[a + 3] = ByteOf(x.ip, 3)
    <3>1. a + 0 = a
      BY <1>1
    <3> QED BY <1>14, <3>1
  <2>2. Load(z.mem, a, "word") = Numeral(Mod("byte"), z.mem[a], z.mem[a + 1], z.mem[a + 2], z.mem[a + 3])
    BY DEF Load, Numeral
  <2> QED BY <1>3, <2>1, <2>2, Digits
<1>17. z.reg["rsp"] + 1 = a
  BY <1>1, <1>10
<1> QED BY <1>15, <1>16, <1>17 DEF a, g

LEMMA RestoredFields ==
  ASSUME NEW m \in Machines
  PROVE  LET r == Restored(m)
             f == Top(m, "byte")
         IN  /\ r \in Machines /\ r.mem = m.mem /\ r.reg["rsp"] = Wrap(m.reg["rsp"] + 1)
             /\ r.zero = (Bit(f, 0) = 1) /\ r.carry = (Bit(f, 1) = 1) /\ r.int = (Bit(f, 2) = 1)
<1> DEFINE f == Top(m, "byte")
           w == WithFlags(m, f)
           n == Wrap(w.reg["rsp"] + Bytes("byte"))
           r == Restored(m)
<1>1. w \in Machines /\ r \in Machines /\ r = [w EXCEPT !.reg["rsp"] = n] /\ "rsp" \in Regs
  BY Flagged, RestoredTyped, StackRegs DEF Restored, Popped
<1>2. /\ w.mem = m.mem /\ w.reg = m.reg
      /\ w.zero = (Bit(f, 0) = 1) /\ w.carry = (Bit(f, 1) = 1) /\ w.int = (Bit(f, 2) = 1)
  <2> HIDE DEF f
  <2> QED BY DEF WithFlags, Machines
<1>3. Bytes("byte") = 1
  BY DEF Bytes
<1>4. n = Wrap(m.reg["rsp"] + 1)
  BY <1>2, <1>3
<1> HIDE DEF w, n, r, f
<1>5. r.mem = w.mem /\ r.reg["rsp"] = n /\ r.zero = w.zero /\ r.carry = w.carry /\ r.int = w.int
  BY <1>1 DEF Machines
<1>6. r.zero = (Bit(f, 0) = 1) /\ r.carry = (Bit(f, 1) = 1) /\ r.int = (Bit(f, 2) = 1)
  BY <1>2, <1>5, Zenon
<1> QED BY <1>1, <1>2, <1>4, <1>5, <1>6 DEF r, f

(* What reti makes of the machine z when it is executed, and that this is  *)
(* where the machine x was.                                                *)
RetiOf(z) == [Popped(Restored(z), "word") EXCEPT !.ip = Top(Restored(z), "word")]
ReturnedTo(x, z1) ==
  /\ z1.ip = x.ip
  /\ z1.reg["rsp"] = x.reg["rsp"]
  /\ <<z1.zero, z1.carry, z1.int>> = <<x.zero, x.carry, TRUE>>

(* An interrupt and a reti that finds its frame are inverse: the address   *)
(* is read above the flags, and the stack pointer goes back by both.       *)
LEMMA Returned ==
  ASSUME NEW x \in Machines, NEW z \in Machines, NEW y, NEW z1,
         x.int /\ Interrupted(x, y) /\ ~y.dead /\ FrameOnTop(z, y), z1 = RetiOf(z)
  PROVE  ReturnedTo(x, z1)
<1> DEFINE a == Pushed(x, "word")
           r == Restored(z)
           f == Top(z, "byte")
           g == FlagsByte(x)
           t == Top(r, "word")
           n == Wrap(r.reg["rsp"] + Bytes("word"))
<1>1. /\ Mapped(Pushed(x, "word"), "word")
      /\ Mapped(Pushed(Push(x, "word", x.ip), "byte"), "byte")
      /\ y.mem = Framed(x).mem /\ y.reg = Framed(x).reg /\ FrameOnTop(z, y)
  BY InterruptedMeans
<1>2. a \in Nat /\ a + 4 < Mod("word") /\ a + 4 = x.reg["rsp"]
  BY <1>1, FramePlaces
<1>3. z.reg["rsp"] + 1 = a /\ f = g /\ Load(z.mem, a, "word") = x.ip
  BY <1>1, FrameRead
<1>4. /\ r \in Machines /\ r.mem = z.mem /\ r.reg["rsp"] = Wrap(z.reg["rsp"] + 1)
      /\ r.zero = (Bit(f, 0) = 1) /\ r.carry = (Bit(f, 1) = 1) /\ r.int = (Bit(f, 2) = 1)
  BY RestoredFields
<1>5. (Bit(g, 0) = 1) = x.zero /\ (Bit(g, 1) = 1) = x.carry /\ (Bit(g, 2) = 1) = x.int
  BY FlagBits
<1>6. Popped(r, "word") = [r EXCEPT !.reg["rsp"] = n] /\ z1 = [Popped(r, "word") EXCEPT !.ip = t]
  BY DEF Popped, RetiOf
<1>7. x.int = TRUE
  BY MachineFields, Zenon
<1>8. Mod("word") \in Nat \ {0} /\ Bytes("word") = 4
  BY SizeFacts, WordSize DEF Bytes
<1> HIDE DEF a, r, f, g, n
<1>9. r.zero = x.zero /\ r.carry = x.carry /\ r.int = TRUE
  BY <1>3, <1>4, <1>5, <1>7, Zenon
<1>10. Wrap(a) = a /\ Wrap(a + 4) = a + 4
  <2>1. a \in 0 .. Mod("word") - 1 /\ a + 4 \in 0 .. Mod("word") - 1
    BY <1>2, <1>8
  <2>2. a % Mod("word") = a /\ (a + 4) % Mod("word") = a + 4
    BY <1>8, <2>1, Whole
  <2> QED BY <2>2 DEF Wrap
<1>11. r.reg["rsp"] = a
  BY <1>3, <1>4, <1>10
<1>12. t = x.ip
  BY <1>3, <1>4, <1>11 DEF Top
<1>13. n = x.reg["rsp"]
  BY <1>2, <1>8, <1>10, <1>11 DEF n
<1> HIDE DEF t
<1>14. /\ z1.ip = t /\ z1.reg["rsp"] = n
       /\ z1.zero = r.zero /\ z1.carry = r.carry /\ z1.int = r.int
  BY <1>4, <1>6, StackRegs DEF Machines
<1>15. <<z1.zero, z1.carry, z1.int>> = <<x.zero, x.carry, TRUE>>
  BY <1>9, <1>14, Zenon
<1> QED BY <1>12, <1>13, <1>14, <1>15 DEF ReturnedTo

(* What is recorded of the last request is an interrupt of a machine, and  *)
(* a CPU that has not survived it stays dead.                              *)
LastOf(l, z) == l[1] \in Machines /\ Interrupted(l[1], l[2]) /\ (l[2].dead => z.dead)
LastRaised == last # <<>> => LastOf(last.rust, rust) /\ LastOf(last.core, core)
ReturnInv == BothMachines /\ LastRaised

LEMMA StepKeepsLast ==
  ASSUME ReturnInv, [Next]_vars
  PROVE  ReturnInv'
<1>1. BothMachines'
  BY StepKeepsMachines DEF ReturnInv
<1>2. CASE Step
  <2>1. last' = last
    BY <1>2 DEF Step
  <2>2. PICK v \in Word : /\ IF Runs(rust) THEN R!Execute(ins, v) ELSE rust' = rust
                          /\ IF Runs(core) THEN C!Execute(ins, v) ELSE core' = core
    BY <1>2, StepExecutes
  <2>3. (rust.dead => rust' = rust) /\ (core.dead => core' = core)
    BY <2>2, Zenon DEF Runs
  <2> QED BY <1>1, <2>1, <2>3 DEF ReturnInv, LastRaised, LastOf
<1>3. ASSUME NEW vector \in Vectors, Request(vector) PROVE ReturnInv'
  <2>1. vector \in Nat /\ R!Interrupt(vector) /\ C!Raise(vector)
    BY <1>3, TwoCpusAssumption DEF Request
  <2>2. Interrupted(rust, rust') /\ Interrupted(core, core') /\ rust \in Machines /\ core \in Machines
    BY <2>1, RustInterrupted, CoreInterrupted DEF ReturnInv, BothMachines
  <2>3. last' = [rust |-> <<rust, rust'>>, core |-> <<core, core'>>]
    BY <1>3 DEF Request
  <2>4. /\ last'.rust[1] = rust /\ last'.rust[2] = rust'
        /\ last'.core[1] = core /\ last'.core[2] = core'
    BY <2>3
  <2> QED BY <1>1, <2>2, <2>4 DEF ReturnInv, LastRaised, LastOf
<1>4. CASE UNCHANGED vars
  BY <1>4 DEF vars, ReturnInv, BothMachines, LastRaised, LastOf
<1> QED BY <1>2, <1>3, <1>4 DEF Next

LEMMA StepReturns ==
  ASSUME ReturnInv, [Next]_vars
  PROVE  [ins.op = "reti" /\ ins.cond = "always" /\ last # <<>> =>
            Returns(rust, rust', last.rust) /\ Returns(core, core', last.core)]_vars
<1> SUFFICES ASSUME Next, ins.op = "reti", ins.cond = "always", last # <<>>
             PROVE  Returns(rust, rust', last.rust) /\ Returns(core, core', last.core)
  OBVIOUS
<1>1. CASE ~Step
  BY <1>1, Zenon DEF Next, Request, Returns, Executes
<1>2. CASE Step
  <2>1. PICK v \in Word : /\ IF Runs(rust) THEN R!Execute(ins, v) ELSE rust' = rust
                          /\ IF Runs(core) THEN C!Execute(ins, v) ELSE core' = core
    BY <1>2, StepExecutes
  <2>2. LastOf(last.rust, rust) /\ LastOf(last.core, core) /\ rust \in Machines /\ core \in Machines
        /\ ins \in Instructions
    BY DEF ReturnInv, LastRaised, BothMachines
  <2>3. Returns(rust, rust', last.rust)
    <3> DEFINE x == last.rust[1]
               y == last.rust[2]
    <3> SUFFICES ASSUME x.int /\ Executes(rust, rust') /\ FrameOnTop(rust, y)
                 PROVE  ReturnedTo(x, rust')
      BY Zenon DEF Returns, ReturnedTo
    <3>1. Runs(rust) /\ ~rust.dead /\ ~rust'.dead
      BY DEF Executes, Runs
    <3>2. R!Reti(ins)
      <4>1. R!Execute(ins, v)
        BY <2>1, <3>1
      <4>2. ~R!Bad(ins)
        BY <2>2, <3>1, DiedDead DEF R!Bad, Died
      <4> QED BY <4>1, <4>2, RustNames DEF R!Execute, R!Known
    <3>3. rust' = RetiOf(rust)
      <4>1. R!Holds(ins.cond)
        BY DEF R!Holds
      <4>2. Died(rust).dead = TRUE
        BY <2>2, DiedDead
      <4> QED BY <2>2, <3>1, <3>2, <4>1, <4>2, RustReti, Zenon DEF RustTurns, RetiOf
    <3>4. x \in Machines /\ Interrupted(x, y) /\ ~y.dead
      BY <2>2, <3>1 DEF LastOf
    <3>5. x.int /\ Interrupted(x, y) /\ ~y.dead /\ FrameOnTop(rust, y)
      BY <3>4
    <3> HIDE DEF x, y
    <3> QED BY <2>2, <3>3, <3>4, <3>5, Returned
  <2>4. Returns(core, core', last.core)
    <3> DEFINE x == last.core[1]
               y == last.core[2]
    <3> SUFFICES ASSUME x.int /\ Executes(core, core') /\ FrameOnTop(core, y)
                 PROVE  ReturnedTo(x, core')
      BY Zenon DEF Returns, ReturnedTo
    <3>1. Runs(core) /\ ~core.dead /\ ~core'.dead
      BY DEF Executes, Runs
    <3>2. C!Reti(ins)
      <4>1. C!Execute(ins, v)
        BY <2>1, <3>1
      <4>2. ~C!Dies
        BY <2>2, <3>1, DiedDead, CoreParts
      <4> QED BY <4>1, <4>2, CoreNames DEF C!Execute, C!Known
    <3>3. core' = RetiOf(core)
      <4>1. ~C!Skips(ins.cond)
        BY DEF C!Skips
      <4>2. Died(core).dead = TRUE
        BY <2>2, DiedDead
      <4> QED BY <2>2, <3>1, <3>2, <4>1, <4>2, CoreReti, Zenon DEF CoreTurns, RetiOf
    <3>4. x \in Machines /\ Interrupted(x, y) /\ ~y.dead
      BY <2>2, <3>1 DEF LastOf
    <3>5. x.int /\ Interrupted(x, y) /\ ~y.dead /\ FrameOnTop(core, y)
      BY <3>4
    <3> HIDE DEF x, y
    <3> QED BY <2>2, <3>3, <3>4, <3>5, Returned
  <2> QED BY <2>3, <2>4
<1> QED BY <1>1, <1>2

(* However often requests arrive and whatever a handler computes, if its   *)
(* reti finds the frame of the last request on top of the stack, it goes   *)
(* back to the instruction that would have been next, with the flags and   *)
(* the stack pointer of that moment and interrupts on: handle_interrupt    *)
(* and reti of cpu.rs, vm_raise and reti of fox32.c, are inverse.          *)
THEOREM InterruptsReturn == Spec => ReturnsToInterrupted
<1>1. Init => ReturnInv
  BY TwoCpusAssumption DEF Init, ReturnInv, BothMachines, LastRaised
<1> QED BY <1>1, StepKeepsLast, StepReturns, PTL DEF Spec, ReturnsToInterrupted
=============================================================================
