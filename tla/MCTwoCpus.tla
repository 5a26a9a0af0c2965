------------------------------ MODULE MCTwoCpus ------------------------------
(* Bytes of 4 bits and a word of 16: RAM is 0 .. 15 and ROM 32 .. 35.      *)
EXTENDS TwoCpus

MCRegs == {"r0", "r1", "r31", "rsp"}

Memory(k) == [c \in Ram \cup Rom |-> (k * (c + 3)) % Mod("byte")]

Machine(ip, r0, r1, r31, rsp, k, z, c, i) ==
  [ip |-> ip, reg |-> [r0 |-> r0, r1 |-> r1, r31 |-> r31, rsp |-> rsp], mem |-> Memory(k),
   zero |-> z, carry |-> c, int |-> i, halted |-> FALSE, dead |-> FALSE, io |-> <<>>]

MCStart ==
  {Machine(32, 8, 1, 2, 16, 3, FALSE, FALSE, TRUE),
   Machine(65534, 12, 0, 1, 13, 9, TRUE, FALSE, FALSE),
   Machine(0, 30000, 15, 0, 6, 0, FALSE, TRUE, TRUE),
   Machine(7, 33, 30001, 3, 2, 15, TRUE, TRUE, FALSE),
   Machine(35, 4, 0, 32768, 36, 2, TRUE, FALSE, TRUE),
   Machine(20, 33, 2, 65535, 8, 13, TRUE, TRUE, TRUE),
   Machine(99, 32768, 34, 9, 65535, 4, FALSE, TRUE, FALSE),
   Machine(300, 10, 12, 1, 0, 6, FALSE, FALSE, FALSE)}

Reg(r) == [kind |-> "reg", v |-> r]
At(r) == [kind |-> "regptr", v |-> r]
Imm(n) == [kind |-> "imm", v |-> n]
AtImm(a) == [kind |-> "immptr", v |-> a]

Sources(s) == {Reg("r1"), At("r1"), Imm(3), Imm(IF s = "word" THEN 32768 ELSE Mod(s) - 1), AtImm(5)}
Destinations == {Reg("r0"), At("r0"), Imm(1), AtImm(9), AtImm(33)}
Singles == {Reg("r0"), At("r0"), Reg("r31"), At("rsp"), Reg("rsp"), Imm(8), AtImm(9), AtImm(31)}

(* TLC's integers have 32 bits: no word is multiplied by a word that may   *)
(* have any value.                                                         *)
Fits(i) == i.op \in {"mul", "imul"} /\ i.size = "word" => ~(IsPointer(i.src) /\ IsPointer(i.dst))

MCProgram ==
  UNION {
    [op : ZeroOps, cond : Conds, size : {s}, src : {None}, dst : {None}] \cup
    [op : OneOps, cond : {"always", "ifz", "ifnz", "ifc", "ifnc"}, size : {s}, src : Singles, dst : {None}]
    \cup {i \in [op : TwoOps, cond : {"always", "ifnz", "iflteq"}, size : {s}, src : Sources(s), dst : Destinations] :
            Fits(i)} :
      s \in Sizes}
  \cup [op : {"sub", "cmp", "mov"}, cond : Conds, size : {"half"}, src : {Reg("r1")}, dst : {Reg("r0")}]

MCSequel ==
  {[op |-> "reti", cond |-> "always", size |-> "word", src |-> None, dst |-> None],
   [op |-> "cmp", cond |-> "always", size |-> "byte", src |-> Reg("r31"), dst |-> Reg("r0")],
   [op |-> "push", cond |-> "iflteq", size |-> "half", src |-> Reg("r1"), dst |-> None],
   [op |-> "pop", cond |-> "always", size |-> "half", src |-> Reg("r0"), dst |-> None]}
=============================================================================
