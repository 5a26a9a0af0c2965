------------------------------- MODULE Launch -------------------------------
(***************************************************************************)
(* The life of a program: fox32asm writes its file (Assembler), the file   *)
(* is put on a disk, the disk is booted and the file loaded and relocated  *)
(* (Loader), and the CPU fetches what is in memory; the running program    *)
(* asks for memory (Allocator) and reads files.  What is fetched is        *)
(* compared with the statements that were written.                         *)
(***************************************************************************)
EXTENDS Assembler, Loader, Allocator

CONSTANTS
  System,       \* the kernel, the cells of system.bin
  ProgramName,  \* the name of the assembled file on a RYFS disk
  Layout,       \* the sectors that the files of a RYFS disk have, by name
  Requests      \* the sizes, offsets and counts a program asks for

ASSUME LaunchAssumption ==
  /\ System \in Seq(Nat)
  /\ KernelBottom = KernelBase + Len(System)
  /\ Words = Mod("word")
  /\ MemoryTop <= StartupBase
  /\ SystemName # ConfigName /\ ProgramName \notin {SystemName, ConfigName}
  /\ Requests \subseteq 0..Words - 1

VARIABLE calls  \* how many calls the running program has made; a program
                \* makes at most program.calls, a BOUND

vars == <<avars, lvars, alloc, calls>>

(* The disks a member of Programs is tried on: nothing, a disk with        *)
(* another file system, the file itself, or a RYFS disk with some of       *)
(* system.bin, startup.cfg (its cells are d.config) and the program.       *)
Disk(d) ==
  CASE d.format = "ryfs" ->
         [format |-> "ryfs", sectors |-> Layout,
          content |-> [f \in d.files |-> CASE f = SystemName -> System
                                           [] f = ConfigName -> d.config
                                           [] f = ProgramName -> file]]
    [] d.format = "raw" -> [format |-> "raw", cells |-> file]
    [] OTHER -> d

Disks == {d \in {Disk(e) : e \in program.disks} : Formatted(d)}

Init == AssemblerInit /\ LoaderInit /\ AllocatorInit /\ calls = 0

Assemble == AssemblerNext /\ UNCHANGED <<lvars, alloc, calls>>

(* A disk is in the drive from the start, or the user inserts one: this is *)
(* an event like others, after each of which the drive is looked at.       *)
Start ==
  /\ stage = "done"
  /\ \E d \in {NoDisk} \cup Disks : PowerOn(d)
  /\ UNCHANGED <<avars, alloc, calls>>

Insert ==
  /\ pc = "desktop"
  /\ \E d \in {disk} \cup (IF Idle(disk) THEN Disks ELSE {}) : Turn(d)
  /\ UNCHANGED <<avars, alloc, calls>>

Run == Loading /\ UNCHANGED <<avars, alloc, calls>>

(* A raw disk has neither files nor a kernel to ask. *)
Call ==
  /\ disk.format = "ryfs"
  /\ calls < program.calls
  /\ calls' = calls + 1

(* The program uses the whole of a block it is given. *)
TakeBlock ==
  /\ pc = "running"
  /\ Call
  /\ \E n \in Requests : Allocate(n)
  /\ memory' = IF blocks' = blocks THEN memory
               ELSE Written(memory, free, [k \in 1..free' - free |-> Mod("byte") - Len(blocks')])
  /\ UNCHANGED <<avars, disk, pc, buffer, loading, kernel, files>>

UseFiles ==
  /\ Call
  /\ \/ \E f \in {SystemName, ConfigName, ProgramName} : OpenFile(f)
     \/ \E n \in Requests : Seek(n) \/ Read(n)
     \/ WriteSector
  /\ UNCHANGED <<avars, alloc>>

Next == Assemble \/ Start \/ Insert \/ Run \/ TakeBlock \/ UseFiles

Spec == Init /\ [][Next]_vars

(* The host runs the assembler, the CPU thread of the emulator the rest up *)
(* to the program, one after the other; a turn of the event loop comes     *)
(* with every vsync.                                                       *)
FairSpec == Spec /\ WF_vars(Assemble \/ Start \/ Insert \/ Run)
-----------------------------------------------------------------------------
(* What the CPU fetches from an address (from_half and the operands). *)

OpNamed(opcode) ==
  CASE opcode = 0 -> "nop" [] opcode = 16 -> "halt" [] opcode = 32 -> "brk"
    [] opcode = 1 -> "add" [] opcode = 17 -> "inc" [] opcode = 33 -> "sub" [] opcode = 49 -> "dec"
    [] opcode = 2 -> "mul" [] opcode = 34 -> "div" [] opcode = 50 -> "rem"
    [] opcode = 3 -> "and" [] opcode = 19 -> "or" [] opcode = 35 -> "xor" [] opcode = 51 -> "not"
    [] opcode = 4 -> "sla" [] opcode = 36 -> "rol"
    [] opcode = 5 -> "sra" [] opcode = 21 -> "srl" [] opcode = 37 -> "ror"
    [] opcode = 6 -> "bse" [] opcode = 22 -> "bcl" [] opcode = 38 -> "bts"
    [] opcode = 7 -> "cmp" [] opcode = 23 -> "mov" [] opcode = 39 -> "movz"
    [] opcode = 8 -> "jmp" [] opcode = 24 -> "call" [] opcode = 40 -> "loop"
    [] opcode = 9 -> "rjmp" [] opcode = 25 -> "rcall" [] opcode = 41 -> "rloop" [] opcode = 57 -> "rta"
    [] opcode = 10 -> "push" [] opcode = 26 -> "pop" [] opcode = 42 -> "ret" [] opcode = 58 -> "reti"
    [] opcode = 11 -> "in" [] opcode = 27 -> "out" [] opcode = 12 -> "ise" [] opcode = 28 -> "icl"

CondNamed == <<"always", "ifz", "ifnz", "ifc", "ifnc", "ifgt", "iflteq">>
SizeNamed == <<"byte", "half", "word">>
KindNamed == <<"reg", "regptr", "imm", "immptr">>

Length(kind, s) ==
  CASE kind \in {"reg", "regptr"} -> 1
    [] kind = "imm" -> Bytes(s)
    [] kind = "immptr" -> 4
    [] kind = "none" -> 0

FetchedOperand(kind, s, a) ==
  CASE kind \in {"reg", "regptr"} -> [kind |-> kind, v |-> memory[a]]
    [] kind = "imm" -> [kind |-> kind, v |-> Load(memory, a, s)]
    [] kind = "immptr" -> [kind |-> kind, v |-> Load(memory, a, "word")]
    [] kind = "none" -> None

Fetched(a) ==
  LET op == OpNamed(memory[a + 1] % 64)
      s == SizeNamed[memory[a + 1] \div 64 + 1]
      src == IF op \in ZeroOps THEN "none" ELSE KindNamed[(memory[a] % 4) + 1]
      dst == IF op \in TwoOps THEN KindNamed[((memory[a] \div 4) % 4) + 1] ELSE "none"
  IN  [op |-> op, size |-> s, cond |-> CondNamed[memory[a] \div 16 + 1],
       src |-> FetchedOperand(src, s, a + 2),
       dst |-> FetchedOperand(dst, s, a + 2 + Length(src, s)),
       next |-> a + 2 + Length(src, s) + Length(dst, s)]
-----------------------------------------------------------------------------
(* What was written.  The statements are walked from the address where the *)
(* program runs, by the lengths that the CPU fetches; a label is where the *)
(* walk passes its last definition.                                        *)

Zero == IF program.fxf THEN base ELSE 0

Place ==
  LET at[i \in 1..Len(source) + 1] ==
        IF i = 1 THEN base
        ELSE LET l == source[i - 1] IN
             CASE l.kind = "org" -> Zero + l.operand.v
               [] l.kind = "data" -> at[i - 1] + Bytes(l.size)
               [] l.kind = "blob" -> at[i - 1] + Len(l.cells)
               [] l.kind = "fill" -> at[i - 1] + l.count.v
               [] l.kind = "op" -> Fetched(at[i - 1]).next
               [] OTHER -> at[i - 1]
  IN  at

Definition(n) ==
  Max({i \in DOMAIN source : source[i].kind \in {"label", "const"} /\ source[i].name = n})

IsConst(n) == source[Definition(n)].kind = "const"

Meaning(at, n) ==
  IF IsConst(n) THEN source[Definition(n)].operand.v ELSE at[Definition(n)]

(* Operand o of an instruction at address a, as the CPU should see it. *)
Meant(at, a, o, l) ==
  LET value == IF l.op \in Relatives THEN (Meaning(at, o.v) - a) % Mod("word") ELSE Meaning(at, o.v)
  IN  CASE o.kind = "label" -> [kind |-> "imm", v |-> Low(l.size, value)]
        [] o.kind = "labelptr" -> [kind |-> "immptr", v |-> value]
        [] o.kind = "imm" -> [kind |-> "imm", v |-> Low(l.size, o.v)]
        [] OTHER -> o

Lands(at, i) ==
  LET l == source[i]
      a == at[i]
  IN  CASE l.kind = "op" ->
             LET f == Fetched(a) IN
             /\ <<f.op, f.size, f.cond>> = <<l.op, l.size, l.cond>>
             /\ f.src = Meant(at, a, l.src, l)
             /\ f.dst = Meant(at, a, l.dst, l)
        [] l.kind = "data" ->
             Load(memory, a, l.size) =
               IF IsLabel(l.operand) THEN Meaning(at, l.operand.v) ELSE Low(l.size, l.operand.v)
        [] l.kind = "blob" -> \A k \in DOMAIN l.cells : memory[a + k - 1] = l.cells[k]
        [] l.kind = "fill" -> \A k \in 1..l.count.v : memory[a + k - 1] = Low("byte", l.value.v)
        [] l.kind = "org" -> \A c \in a..at[i + 1] - 1 : memory[c] = 0
        [] OTHER -> TRUE

(* The labels in the operands of a statement. *)
LabelsOf(l) ==
  {o \in CASE l.kind = "data" -> {l.operand}
           [] l.kind = "op" -> {l.src, l.dst}
           [] OTHER -> {} : IsLabel(o)}

(* The references of a program: name, size and whether it is relative. *)
References ==
  UNION {{[name |-> o.v, size |-> Field(o, source[i].size),
           relative |-> source[i].kind = "op" /\ source[i].op \in Relatives] :
            o \in LabelsOf(source[i])} : i \in DOMAIN source}

(* A data.32 of a label follows a word: CURRENT_SIZE is the size of the    *)
(* last instruction that has one.                                          *)
LabelsAreWords ==
  \A i \in DOMAIN source :
    source[i].kind = "data" /\ IsLabel(source[i].operand) =>
      LET sizing == {j \in 1..i - 1 :
                       source[j].kind = "const" \/ (source[j].kind = "op" /\ source[j].op \notin ZeroOps)}
      IN  sizing = {} \/ source[Max(sizing)].kind = "const" \/ source[Max(sizing)].size = "word"

(* The programs each format is for.  A raw file runs where its origin is.  *)
(* An FXF file has no origins; its labels that are no constants are whole  *)
(* words and absolute, and there is at least one.                          *)
Origins == {i \in DOMAIN source : source[i].kind = "org" /\ ~source[i].pad}

ForItsFormat ==
  /\ LabelsAreWords
  /\ IF program.fxf
       THEN /\ Origins = {}
            /\ \A r \in References : ~r.relative /\ (IsConst(r.name) \/ r.size = "word")
            /\ \E r \in References : ~IsConst(r.name)
       ELSE Origins = {1} /\ source[1].operand.v = KernelBase

(* A disk that holds the kernel, a startup.cfg that names the program and  *)
(* a program for the format, or the program alone, if its size is a word   *)
(* and it does not look like another disk.                                 *)
Bootable ==
  /\ \/ /\ disk.format = "raw" /\ Looks(disk) = "raw" /\ ~program.fxf
        /\ Sized(disk) /\ DiskSize(disk) = Len(disk.cells)
     \/ /\ disk.format = "ryfs" /\ program.fxf
        /\ {SystemName, ConfigName, ProgramName} \subseteq DOMAIN disk.content
        /\ Pad(disk.content[ConfigName], NameLength) = ProgramName
  /\ ForItsFormat

(* When a program runs, the CPU finds at the place of each statement the   *)
(* instruction or the data that was written, and in its operands the       *)
(* addresses where the labels really are: through the encoding, the        *)
(* backpatching, the sectors of the disk, the relocation, and with the     *)
(* blocks and the reads of the running program (fox32asm main.rs 352-462,  *)
(* boot.asm 49-54, ryfs.asm 227-269, reloc.asm 8-64, cpu.rs 2666-2760).    *)
FetchesWhatWasWritten ==
  pc = "running" /\ Bootable =>
    LET at == Place IN \A i \in DOMAIN source : Lands(at, i)

(* The kernel stays as it was on the disk from the moment it is entered:   *)
(* its file was followed through its sectors and neither the startup file, *)
(* its relocation nor a block covers it (boot.asm 58-69, main.asm 50-89,   *)
(* allocator.asm 12-35).                                                   *)
KernelStays ==
  disk.format = "ryfs" /\ (\/ pc \in {"kernel", "configured", "startup", "parse"}
                           \/ pc \in {"relocate", "running"} /\ Bootable)
  => \A k \in DOMAIN System : memory[KernelBase + k - 1] = System[k]

(* A disk that is booted and holds the kernel, a startup.cfg that names the*)
(* program, and a program for the format, or the program alone, if it does *)
(* not look like another disk, is run in the end, whichever disks without  *)
(* a kernel were tried before (main.asm 57-87, boot.asm 37-48).                                                       *)
Starts == (pc \in {"desktop", "raw", "system"} /\ Bootable) ~> (pc = "running")
=============================================================================
