------------------------------ MODULE Assembler ------------------------------
(***************************************************************************)
(* fox32asm, from the text of a program to the file it writes.             *)
(*                                                                         *)
(* A source file is a sequence of statements, a statement a record whose   *)
(* kind is its grammar rule; the operands of Machine have their register   *)
(* by number and two more kinds, a label and the memory a label points to. *)
(* The program parses every statement before it assembles the first one.   *)
(* Here a statement is parsed when it is assembled: a panic of either      *)
(* leaves no file behind.  The bytes of the code are cells of ByteBits     *)
(* bits, but for opcodes and register numbers, which keep their value.     *)
(***************************************************************************)
EXTENDS Machine, TLC, SequencesExt

CONSTANTS
  Programs,    \* the source files, each with the format of the output
  Files,       \* the statements of the files that can be included
  MaxIncludes  \* how many includes are replaced: 128 in the code

(* What the grammar lets a statement be. *)
AsmOperands ==
  [kind : {"reg", "regptr"}, v : Nat] \cup [kind : {"imm", "immptr"}, v : Word]
    \cup [kind : {"label", "labelptr"}, v : STRING]

InstructionsOf(ops, sources, destinations) ==
  [kind : {"op"}, op : ops, cond : Conds, size : Sizes, src : sources, dst : destinations]

Statements ==
  InstructionsOf(ZeroOps, {None}, {None}) \cup InstructionsOf(OneOps, AsmOperands, {None})
    \cup InstructionsOf(TwoOps \ SignedOps, AsmOperands, AsmOperands)
    \cup [kind : {"data"}, size : Sizes, operand : AsmOperands]
    \cup [kind : {"blob"}, cells : Seq(Nat)]
    \cup [kind : {"fill"}, value : AsmOperands, count : AsmOperands]
    \cup [kind : {"org"}, operand : AsmOperands, pad : BOOLEAN]
    \cup [kind : {"label"}, name : STRING]
    \cup [kind : {"const"}, name : STRING, operand : AsmOperands]
    \cup [kind : {"include"}, file : STRING]

ASSUME AssemblerAssumption ==
  /\ \A p \in Programs : p.source \in Seq(Statements) /\ p.fxf \in BOOLEAN
  /\ \A f \in DOMAIN Files : Files[f] \in Seq(Statements)
  /\ MaxIncludes \in Nat

VARIABLES
  program,  \* the member of Programs
  source,   \* its statements, with the includes replaced so far
  stage,    \* "include", "assemble", "backpatch", "done" or "failed"
  rounds,   \* how many includes were replaced
  line,     \* the statement to assemble next
  size,     \* CURRENT_SIZE
  address,  \* current_address
  code,     \* the cells of the instructions so far
  labels,   \* LABEL_ADDRESSES
  targets,  \* LABEL_TARGETS: the places to patch, by name
  relocs,   \* RELOC_ADDRESSES
  file      \* what was written

input == <<program, source, rounds>>
output == <<code, labels, targets>>
avars == <<input, stage, line, size, address, output, relocs, file>>

AssemblerInit ==
  /\ program \in Programs
  /\ source = program.source
  /\ stage = "include"
  /\ rounds = 0
  /\ line = 1
  /\ size = "word"
  /\ address = 0
  /\ code = <<>>
  /\ labels = <<>>
  /\ targets = <<>>
  /\ relocs = <<>>
  /\ file = <<>>
-----------------------------------------------------------------------------
(* Encoding. *)

(* n cells of a number, the least significant first. *)
Cells(n, v) == [k \in 1..n |-> (v \div Mod("byte") ^ (k - 1)) % Mod("byte")]

SizeCode == [byte |-> 0, half |-> 64, word |-> 128]

CondCode ==
  [always |-> 0, ifz |-> 16, ifnz |-> 32, ifc |-> 48, ifnc |-> 64, ifgt |-> 80, iflteq |-> 96]

OpCode ==
  [nop |-> 0, halt |-> 16, brk |-> 32, ret |-> 42, reti |-> 58, ise |-> 12, icl |-> 28,
   inc |-> 17, dec |-> 49, not |-> 51, jmp |-> 8, call |-> 24, loop |-> 40,
   rjmp |-> 9, rcall |-> 25, rloop |-> 41, push |-> 10, pop |-> 26,
   add |-> 1, sub |-> 33, mul |-> 2, div |-> 34, rem |-> 50, and |-> 3, or |-> 19, xor |-> 35,
   sla |-> 4, sra |-> 5, srl |-> 21, rol |-> 36, ror |-> 37, bse |-> 6, bcl |-> 22, bts |-> 38,
   cmp |-> 7, mov |-> 23, movz |-> 39, rta |-> 57, in |-> 11, out |-> 27]

Relatives == {"rjmp", "rcall", "rloop", "rta"}

OperandCode ==
  [none |-> 0, reg |-> 0, regptr |-> 1, imm |-> 2, label |-> 2, immptr |-> 3, labelptr |-> 3]

IsLabel(o) == o.kind \in {"label", "labelptr"}

Field(o, s) == IF o.kind = "labelptr" THEN "word" ELSE s

(* The cells of an operand; a label has a placeholder until it is patched. *)
OperandCells(o, s) ==
  CASE o.kind = "none" -> <<>>
    [] o.kind \in {"reg", "regptr"} -> <<o.v>>
    [] o.kind = "imm" -> Cells(Bytes(s), Low(s, o.v))
    [] o.kind = "immptr" -> Cells(4, o.v)
    [] IsLabel(o) -> [k \in 1..Bytes(Field(o, s)) |-> 171 % Mod("byte")]

(* Mutant: the operands in the order they are written. *)
InstructionAsWritten(l) ==
  <<CondCode[l.cond] + OperandCode[l.src.kind] + 4 * OperandCode[l.dst.kind],
    OpCode[l.op] + SizeCode[l.size]>>
  \o OperandCells(l.dst, l.size) \o OperandCells(l.src, l.size)

(* The source operand, rhs, comes before the destination, lhs. *)
InstructionCells(l) ==
  <<CondCode[l.cond] + OperandCode[l.src.kind] + 4 * OperandCode[l.dst.kind],
    OpCode[l.op] + SizeCode[l.size]>>
  \o OperandCells(l.src, l.size) \o OperandCells(l.dst, l.size)

(* An insertion in a hash map. *)
With(map, key, value) == [k \in DOMAIN map \cup {key} |-> IF k = key THEN value ELSE map[k]]

(* One more place to patch, for operand o at the given index of an         *)
(* instruction.                                                            *)
WithTarget(map, o, s, index, relative) ==
  IF IsLabel(o)
    THEN With(map, o.v,
              Append(IF o.v \in DOMAIN map THEN map[o.v] ELSE <<>>,
                     [instruction |-> address, index |-> index, cell |-> Len(code) + index,
                      size |-> Field(o, s), relative |-> relative]))
    ELSE map

InstructionTargets(l) ==
  LET sourced == WithTarget(targets, l.src, l.size, 2, l.op \in Relatives)
  IN  WithTarget(sourced, l.dst, l.size, 2 + Len(OperandCells(l.src, l.size)), l.op \in Relatives)
-----------------------------------------------------------------------------
(* One include is replaced in each of MaxIncludes rounds, the first.  A    *)
(* file that is not there ends the program, and so does an include that is *)
(* left when the statements are parsed.                                    *)
Includes == {i \in DOMAIN source : source[i].kind = "include"}

Include ==
  /\ stage = "include"
  /\ rounds < MaxIncludes
  /\ Includes # {}
  /\ LET i == Min(Includes) IN
     IF source[i].file \in DOMAIN Files
       THEN /\ source' = SubSeq(source, 1, i - 1) \o Files[source[i].file]
                           \o SubSeq(source, i + 1, Len(source))
            /\ rounds' = rounds + 1
            /\ UNCHANGED stage
       ELSE /\ stage' = "failed"
            /\ UNCHANGED <<source, rounds>>
  /\ UNCHANGED <<program, line, size, address, output, relocs, file>>

Included ==
  /\ stage = "include"
  /\ rounds = MaxIncludes \/ Includes = {}
  /\ stage' = IF Includes = {} THEN "assemble" ELSE "failed"
  /\ UNCHANGED <<input, line, size, address, output, relocs, file>>
-----------------------------------------------------------------------------
(* Statements.  A number is an Immediate32 only while CURRENT_SIZE, which  *)
(* the last instruction with operands or constant has set, is a word.      *)
Immediate32(o) == o.kind = "imm" /\ size = "word"

Panics(l) ==
  CASE l.kind = "const" -> l.operand.kind # "imm"
    [] l.kind = "org" -> ~Immediate32(l.operand) \/ l.operand.v <= address
    [] l.kind = "data" ->
         ~(Immediate32(l.operand) \/ (l.size = "word" /\ l.operand.kind = "label"))
    [] l.kind = "fill" -> ~Immediate32(l.value) \/ ~Immediate32(l.count)
    [] l.kind = "op" -> l.dst.kind \in {"imm", "label"}
    [] OTHER -> FALSE

Reading(kind) ==
  /\ stage = "assemble"
  /\ line <= Len(source)
  /\ source[line].kind = kind
  /\ ~Panics(source[line])

Panic ==
  /\ stage = "assemble"
  /\ line <= Len(source)
  /\ Panics(source[line])
  /\ stage' = "failed"
  /\ UNCHANGED <<input, line, size, address, output, relocs, file>>

Advance == line' = line + 1 /\ UNCHANGED <<input, stage, relocs, file>>

Emit(cells, refs) ==
  /\ code' = code \o cells
  /\ targets' = refs
  /\ address' = address + Len(cells)
  /\ Advance
  /\ UNCHANGED labels

(* The last definition of a name counts. *)
Define(name, at, const) ==
  /\ labels' = With(labels, name, [at |-> at, const |-> const])
  /\ Advance
  /\ UNCHANGED <<address, code, targets>>

LabelDefine ==
  /\ Reading("label")
  /\ Define(source[line].name, address, FALSE)
  /\ UNCHANGED size

Constant ==
  /\ Reading("const")
  /\ size' = "word"
  /\ Define(source[line].name, source[line].operand.v, TRUE)

(* An origin without padding moves the addresses and not the output.       *)
Origin ==
  /\ Reading("org")
  /\ address' = source[line].operand.v
  /\ code' = code \o (IF source[line].pad THEN [k \in 1..address' - address |-> 0] ELSE <<>>)
  /\ Advance
  /\ UNCHANGED <<size, labels, targets>>

(* A label that stands for data has the size of the last instruction.      *)
Data ==
  /\ Reading("data")
  /\ LET o == source[line].operand
         s == IF IsLabel(o) THEN size ELSE source[line].size
     IN  Emit(OperandCells(o, s), WithTarget(targets, o, s, 0, FALSE))
  /\ UNCHANGED size

(* A string or an included binary. *)
Blob ==
  /\ Reading("blob")
  /\ Emit(source[line].cells, targets)
  /\ UNCHANGED size

Fill ==
  /\ Reading("fill")
  /\ Emit([k \in 1..source[line].count.v |-> Low("byte", source[line].value.v)], targets)
  /\ UNCHANGED size

Instruction ==
  /\ Reading("op")
  /\ size' = IF source[line].op \in ZeroOps THEN size ELSE source[line].size
  /\ Emit(InstructionCells(source[line]), InstructionTargets(source[line]))

Assembled ==
  /\ stage = "assemble"
  /\ line > Len(source)
  /\ stage' = "backpatch"
  /\ UNCHANGED <<input, line, size, address, output, relocs, file>>
-----------------------------------------------------------------------------
(* Backpatching.  The table of targets is a hash map: its names come in    *)
(* any order.  What is not constant is also relocated when it is loaded.   *)
Names == DOMAIN targets

Distance(t, a) == IF t.relative THEN (a - t.instruction) % Mod("word") ELSE a

Patched(n, a) ==
  [c \in DOMAIN code |->
     LET hit == {t \in Range(targets[n]) : c \in t.cell + 1..t.cell + Bytes(t.size)}
     IN  IF hit = {} THEN code[c]
         ELSE LET t == CHOOSE t \in hit : TRUE
              IN  Cells(4, Distance(t, a))[c - t.cell]]

Backpatch(n) ==
  /\ stage = "backpatch"
  /\ IF n \in DOMAIN labels
       THEN /\ code' = Patched(n, labels[n].at)
            /\ relocs' = relocs \o (IF labels[n].const THEN <<>>
                                    ELSE [k \in DOMAIN targets[n] |->
                                            targets[n][k].instruction + targets[n][k].index])
            /\ targets' = [m \in Names \ {n} |-> targets[m]]
            /\ UNCHANGED stage
       ELSE /\ stage' = "failed"
            /\ UNCHANGED <<code, relocs, targets>>
  /\ UNCHANGED <<input, line, size, address, labels, file>>

(* The header of an FXF file: magic and version, the size and the place of *)
(* the code, two empty tables, the size and the place of the relocations.  *)
HeaderSize == 36

Header ==
  <<70, 88, 70, 0>> \o Cells(4, Len(code)) \o Cells(4, HeaderSize) \o [k \in 1..16 |-> 0]
  \o Cells(4, 4 * Len(relocs)) \o Cells(4, HeaderSize + Len(code))

Write ==
  /\ stage = "backpatch"
  /\ Names = {}
  /\ stage' = "done"
  /\ file' = IF program.fxf
               THEN Header \o code \o FlattenSeq([k \in DOMAIN relocs |-> Cells(4, relocs[k])])
               ELSE code
  /\ UNCHANGED <<input, line, size, address, output, relocs>>

AssemblerNext ==
  \/ Include \/ Included
  \/ LabelDefine \/ Constant \/ Origin \/ Data \/ Blob \/ Fill \/ Instruction
  \/ Panic \/ Assembled
  \/ \E n \in Names : Backpatch(n)
  \/ Write
=============================================================================
