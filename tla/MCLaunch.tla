------------------------------ MODULE MCLaunch ------------------------------
(***************************************************************************)
(* Instances of Launch for TLC.  RAM holds the kernel in two sectors from  *)
(* address 8, memory to give out up to 70 and four sectors from 72 on.     *)
(***************************************************************************)
EXTENDS Launch

MCRegs == {"r31", "rsp"}

MCSystemName == <<2, 9>>
MCConfigName == <<3, 8>>
MCProgramName == <<4, 7>>

MCSystem == [k \in 1..26 |-> (5 * k) % 16]

MCFatJumps == {11, 9}
MCRyfsMagic == <<2, 9>>

MCLayout == MCSystemName :> <<9, 4>> @@ MCConfigName :> <<5>> @@ MCProgramName :> <<7, 3, 8, 6>>

MCRequests == {0, 5, 20, 24}

Ryfs(names, config) == [format |-> "ryfs", files |-> names, config |-> config]
All == {MCSystemName, MCConfigName, MCProgramName}
Good == Ryfs(All, MCProgramName \o <<0, 0>>)

Shelf ==
  {Good, [format |-> "raw"], [format |-> "fat"], Ryfs(All \ {MCSystemName}, MCProgramName),
   Ryfs(All \ {MCConfigName}, MCProgramName), Ryfs(All, <<6, 6>>)}

Reg(r) == [kind |-> "reg", v |-> r]
At(r) == [kind |-> "regptr", v |-> r]
Imm(n) == [kind |-> "imm", v |-> n]
AtImm(n) == [kind |-> "immptr", v |-> n]
ToLabel(n) == [kind |-> "label", v |-> n]
AtLabel(n) == [kind |-> "labelptr", v |-> n]

Op(op, cond, s, src, dst) ==
  [kind |-> "op", op |-> op, cond |-> cond, size |-> s, src |-> src, dst |-> dst]
DataOf(s, o) == [kind |-> "data", size |-> s, operand |-> o]
LabelOf(n) == [kind |-> "label", name |-> n]
Const(n, v) == [kind |-> "const", name |-> n, operand |-> v]
Org(n) == [kind |-> "org", operand |-> Imm(n), pad |-> FALSE]
OrgPad(n) == [kind |-> "org", operand |-> Imm(n), pad |-> TRUE]
Inc(f) == [kind |-> "include", file |-> f]

MCFiles == "a" :> <<LabelOf("A"), DataOf("word", ToLabel("B"))>>
        @@ "aa" :> <<Inc("a"), LabelOf("C"), Inc("a")>>
        @@ "self" :> <<Inc("self")>>

(* Every instruction, and every kind of operand in every size. *)
Sources == {Reg(31), At(7), Imm(300), AtImm(300), ToLabel("L"), AtLabel("L")}
Destinations == {Reg(32), At(3), AtImm(4000), AtLabel("L")}
Written2 == TwoOps \ SignedOps

Encodings ==
  {Op(op, "always", "word", None, None) : op \in ZeroOps}
  \cup {Op("halt", c, "word", None, None) : c \in Conds}
  \cup {Op(op, "ifc", "word", Reg(1), None) : op \in OneOps}
  \cup {Op(op, "always", s, o, None) : op \in {"inc", "rjmp"}, s \in Sizes, o \in Sources}
  \cup {Op(op, "ifnz", "half", Reg(1), At(2)) : op \in Written2}
  \cup {Op(op, "always", s, o, d) : op \in {"mov", "rta"}, s \in Sizes, o \in Sources, d \in Destinations}
  \cup {Op("mov", "always", "word", Reg(1), Imm(3))}

(* References before, in and after the code, by programs of three lines.   *)
Lines ==
  {LabelOf("A"), LabelOf("B"), Const("A", Imm(9)), DataOf("word", ToLabel("A")), DataOf("word", ToLabel("B")),
   DataOf("half", Imm(4097)), Op("mov", "always", "word", ToLabel("B"), Reg(2)),
   Op("mov", "always", "byte", ToLabel("A"), AtLabel("B")), OrgPad(20),
   [kind |-> "fill", value |-> Imm(30), count |-> Imm(3)]}

Odd == {Org(30), Inc("a"), Inc("aa"), Inc("self"), Inc("none"), Const("A", Reg(2)),
        [kind |-> "blob", cells |-> <<7, 6, 5>>], DataOf("half", ToLabel("A"))}

Both(s, disks, n) ==
  {[source |-> <<Org(8)>> \o s, fxf |-> FALSE, disks |-> disks, calls |-> 0],
   [source |-> s, fxf |-> TRUE, disks |-> disks, calls |-> n]}

(* A raw file of two sectors with something at cells 2 and 3 of sector 1.  *)
Blank(magic) ==
  [source |-> <<Org(8), [kind |-> "blob", cells |-> [k \in 1..32 |-> 1] \o magic \o <<1>>]>>,
   fxf |-> FALSE, disks |-> Shelf, calls |-> 0]

MCPrograms ==
  {Blank(MCRyfsMagic), Blank(Reverse(MCRyfsMagic))} \cup
  UNION {Both(<<DataOf("word", ToLabel("L")), o, LabelOf("L")>>, {Good, [format |-> "raw"]}, 0) : o \in Encodings}
  \cup UNION {Both(<<x, y, z, LabelOf("B")>>, {Good, [format |-> "raw"]}, 0) : x, y, z \in Lines}
  \cup UNION {Both(<<x, y, LabelOf("B")>>, {Good, [format |-> "raw"]}, 0) : x \in Odd, y \in Lines}
  \cup UNION {Both(<<y, x, LabelOf("B")>>, {Good, [format |-> "raw"]}, 0) : x \in Odd, y \in Lines}
  \cup Both(<<DataOf("word", ToLabel("B")), LabelOf("B"), Op("mov", "always", "word", ToLabel("B"), AtLabel("B"))>>,
            Shelf, 4)
=============================================================================
