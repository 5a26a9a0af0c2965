------------------------------- MODULE Loader -------------------------------
(***************************************************************************)
(* From an inserted disk to a running program: the disk controller of the  *)
(* emulator (fox32/src/disk.rs), the boot process and the file system      *)
(* reader of the ROM (boot.asm, disk.asm, ryfs.asm), the start of the      *)
(* kernel (kernel/main.asm) and the relocation of FXF files (kernel/fxf).  *)
(*                                                                         *)
(* A disk is what these see of it.  A raw disk is one file.  A RYFS disk   *)
(* has a directory and its files in linked sectors; a sector holds the     *)
(* number of the next one and Payload cells.  Sector 1 is the directory.   *)
(***************************************************************************)
EXTENDS Machine, SequencesExt

CONSTANTS
  Payload,      \* cells of a file in a sector: 506 in the code
  SectorSize,   \* 512 in the code
  NameLength,   \* 11 in the code
  KernelBase,   \* 0x00000800: where a raw disk or the kernel is loaded
  StartupBase,  \* 0x03000000: where the startup file is loaded
  SystemName, ConfigName,  \* "system  bin" and "startup cfg", NameLength cells each
  FatJumps,     \* 0xEB and 0xE9, the first cell of a disk with a FAT
  RyfsMagic     \* 0x52, 0x59: cells 2 and 3 of the directory of a RYFS disk

ASSUME LoaderAssumption ==
  /\ Payload \in Nat \ {0} /\ SectorSize \in Nat /\ NameLength \in 1..Payload
  /\ Payload < SectorSize
  /\ KernelBase \in Nat /\ StartupBase \in Nat
  /\ KernelBase + SectorSize <= StartupBase /\ StartupBase < RamSize

VARIABLES
  disk,    \* disk 0, NoDisk if none is inserted
  pc,      \* where the CPU is
  memory,  \* RAM
  buffer,  \* the sector at TEMP_SECTOR_BUF
  sector,  \* the sector to read next
  dest,    \* where it goes
  left,    \* r31: how many sectors or relocations are left, a word
  name,    \* the buffer that holds the name of the startup file
  base,    \* r5: the address of the code of the startup file
  entry,   \* r1: the address of the next relocation
  handle,  \* the file struct of the running program
  answer   \* the last read through it

lvars == <<disk, pc, memory, buffer, sector, dest, left, name, base, entry, handle, answer>>
loading == <<sector, dest, left>>
kernel == <<name, base, entry>>
files == <<handle, answer>>

NoDisk == [format |-> "none"]

NoFile == [name |-> <<>>, first |-> 0, seek |-> 0]

NoAnswer == [from |-> NoFile, count |-> 0, cells |-> <<>>]

LoaderInit ==
  /\ disk = NoDisk
  /\ pc = "off"
  /\ memory = [a \in Ram |-> 0]
  /\ buffer = [next |-> 0, cells |-> <<>>]
  /\ sector = 0
  /\ dest = 0
  /\ left = 0
  /\ name = ConfigName
  /\ base = 0
  /\ entry = 0
  /\ handle = NoFile
  /\ answer = NoAnswer
-----------------------------------------------------------------------------
(* Disks. *)

Pad(cells, n) == [k \in 1..n |-> IF k <= Len(cells) THEN cells[k] ELSE 0]

(* A read past the end of the disk leaves zeros in the buffer. *)
RawSector(d, n) == Pad(SubSeq(d.cells, n * SectorSize + 1, Len(d.cells)), SectorSize)

(* What a sector of a RYFS disk holds: part i of a file and the number of  *)
(* the sector of part i + 1, 0 after the last part.                        *)
Parts(cells) == 1..(IF cells = <<>> THEN 1 ELSE (Len(cells) + Payload - 1) \div Payload)

Holds(d, n, f, i) == i \in Parts(d.content[f]) /\ d.sectors[f][i] = n

Sector(d, n) ==
  IF \E f \in DOMAIN d.content : \E i \in Parts(d.content[f]) : Holds(d, n, f, i)
    THEN LET f == CHOOSE f \in DOMAIN d.content : \E i \in Parts(d.content[f]) : Holds(d, n, f, i)
             i == CHOOSE i \in Parts(d.content[f]) : Holds(d, n, f, i)
         IN  [next |-> IF i + 1 \in Parts(d.content[f]) THEN d.sectors[f][i + 1] ELSE 0,
              cells |-> Pad(SubSeq(d.content[f], (i - 1) * Payload + 1, Len(d.content[f])), Payload)]
    ELSE [next |-> 0, cells |-> Pad(<<>>, Payload)]

(* It has no part of a file. *)
Directory == 1

(* A RYFS disk as its tool makes it: every part of a file has a sector, no *)
(* two parts have the same one, and none has the directory or number 0.    *)
Formatted(d) ==
  d.format = "ryfs" =>
    /\ \A f \in DOMAIN d.content :
         /\ d.content[f] \in Seq(Nat)
         /\ \A i \in Parts(d.content[f]) :
              i \in DOMAIN d.sectors[f] /\ d.sectors[f][i] \in Nat \ {0, Directory}
    /\ \A f, g \in DOMAIN d.content :
         \A i \in Parts(d.content[f]), j \in Parts(d.content[g]) :
           d.sectors[f][i] = d.sectors[g][j] => f = g /\ i = j

(* The first sector of a file, 0 if the directory does not have it.        *)
Open(d, f) ==
  IF d.format = "ryfs" /\ f \in DOMAIN d.content THEN d.sectors[f][1] ELSE 0

Fits(a, n) == a + n <= RamSize

Written(mem, a, cells) ==
  [c \in Ram |-> IF c \in a..a + Len(cells) - 1 THEN cells[c - a + 1] ELSE mem[c]]
-----------------------------------------------------------------------------
(* Boot.  A turn of the event loop of the ROM with disk d in the drive: if *)
(* it has a size, the boot process takes it for what its first two sectors *)
(* look like.  (It reads them to where the kernel will be, and nobody      *)
(* looks there before another file was read over them.)  A RYFS disk       *)
(* without a kernel is tried again after the next event.  The controller   *)
(* says the size as a word: of a longer disk only what is left of the size *)
(* is loaded.                                                              *)
DiskSize(d) == Wrap(Len(d.cells))

Sized(d) == d.format # "none" /\ (d.format = "raw" => DiskSize(d) # 0)

(* A disk that was formatted looks like what it is; a raw file may begin   *)
(* with a jump of an x86, or have the magic at the start of sector 1.      *)
Jumps(d) == RawSector(d, 0)[1] \in FatJumps
Magic(d) == SubSeq(RawSector(d, 1), 3, 4) = RyfsMagic

Looks(d) ==
  CASE d.format # "raw" -> d.format
    [] d.format = "raw" /\ Jumps(d) -> "fat"
    [] d.format = "raw" /\ ~Jumps(d) /\ Magic(d) -> "ryfs"
    [] d.format = "raw" /\ ~Jumps(d) /\ ~Magic(d) -> "raw"

PowerOn(d) ==
  /\ pc = "off"
  /\ disk' = d
  /\ pc' = "desktop"
  /\ UNCHANGED <<memory, buffer, loading, kernel, files>>

BootRaw(d) ==
  /\ pc = "desktop"
  /\ Sized(d) /\ Looks(d) = "raw"
  /\ disk' = d
  /\ pc' = "raw"
  /\ sector' = 0
  /\ dest' = KernelBase
  /\ left' = DiskSize(d) \div SectorSize + 1
  /\ UNCHANGED <<memory, buffer, kernel, files>>

(* An endless loop.                                                        *)
BootFat(d) ==
  /\ pc = "desktop"
  /\ Sized(d) /\ Looks(d) = "fat"
  /\ disk' = d
  /\ pc' = "fat"
  /\ UNCHANGED <<memory, buffer, loading, kernel, files>>

BootRyfs(d) ==
  /\ pc = "desktop"
  /\ Looks(d) = "ryfs"
  /\ Open(d, SystemName) # 0
  /\ disk' = d
  /\ pc' = "system"
  /\ sector' = Open(d, SystemName)
  /\ dest' = KernelBase
  /\ buffer' = Sector(d, Directory)
  /\ UNCHANGED <<memory, left, kernel, files>>

(* A raw file that was taken for a RYFS disk has the name of the kernel    *)
(* where a directory would have it; what is then loaded as a kernel, from  *)
(* sectors linked by chance, is not modelled.                              *)
BootMistaken(d) ==
  /\ pc = "desktop"
  /\ Sized(d) /\ d.format = "raw" /\ Looks(d) = "ryfs"
  /\ disk' = d
  /\ pc' = "astray"
  /\ UNCHANGED <<memory, buffer, loading, kernel, files>>

(* More often it does not have the name. *)
Idle(d) == ~Sized(d) \/ (Looks(d) = "ryfs" /\ Open(d, SystemName) = 0)

NoBoot(d) ==
  /\ pc = "desktop"
  /\ Idle(d)
  /\ disk' = d
  /\ buffer' = IF d.format = "ryfs" THEN Sector(d, Directory) ELSE buffer
  /\ UNCHANGED <<pc, memory, loading, kernel, files>>

Turn(d) == BootRaw(d) \/ BootFat(d) \/ BootRyfs(d) \/ BootMistaken(d) \/ NoBoot(d)

(* The controller reads a whole sector; a buffer that leaves RAM is a      *)
(* panic of the emulator.                                                  *)
RawSectorRead ==
  /\ pc = "raw"
  /\ IF Fits(dest, SectorSize)
       THEN /\ memory' = Written(memory, dest, RawSector(disk, sector))
            /\ sector' = sector + 1
            /\ dest' = dest + SectorSize
            /\ left' = Wrap(left - 1)
            /\ base' = KernelBase
            /\ pc' = IF left' = 0 THEN "running" ELSE "raw"
       ELSE /\ pc' = "dead"
            /\ UNCHANGED <<memory, loading, base>>
  /\ UNCHANGED <<disk, buffer, name, entry, files>>

(* Mutant: the sectors of a file are taken to be consecutive. *)
WholeFileConsecutive(loaded) ==
  /\ buffer' = Sector(disk, sector)
  /\ IF Fits(dest, Payload)
       THEN /\ memory' = Written(memory, dest, buffer'.cells)
            /\ sector' = IF buffer'.next = 0 THEN 0 ELSE sector + 1
            /\ dest' = dest + Payload
            /\ pc' = IF sector' = 0 THEN loaded ELSE pc
       ELSE /\ pc' = "dead"
            /\ UNCHANGED <<memory, sector, dest>>
  /\ UNCHANGED <<disk, left, kernel, files>>

(* ryfs_read_whole_file, one sector at a time: always Payload cells, until *)
(* a sector has no next one.                                               *)
WholeFileSector(loaded) ==
  /\ buffer' = Sector(disk, sector)
  /\ IF Fits(dest, Payload)
       THEN /\ memory' = Written(memory, dest, buffer'.cells)
            /\ sector' = buffer'.next
            /\ dest' = dest + Payload
            /\ pc' = IF sector' = 0 THEN loaded ELSE pc
       ELSE /\ pc' = "dead"
            /\ UNCHANGED <<memory, sector, dest>>
  /\ UNCHANGED <<disk, left, kernel, files>>

SystemSector == pc = "system" /\ WholeFileSector("kernel")
-----------------------------------------------------------------------------
(* The start of the kernel: startup.cfg holds the name of the file to run, *)
(* which is read over the name "startup cfg".                              *)
ReadConfig ==
  /\ pc = "kernel"
  /\ IF Open(disk, name) = 0
       THEN /\ pc' = "error"
            /\ buffer' = Sector(disk, Directory)
            /\ UNCHANGED name
       ELSE /\ pc' = "configured"
            /\ buffer' = Sector(disk, Open(disk, name))
            /\ name' = SubSeq(buffer'.cells, 1, NameLength)
  /\ UNCHANGED <<disk, memory, loading, base, entry, files>>

OpenStartup ==
  /\ pc = "configured"
  /\ sector' = Open(disk, name)
  /\ dest' = StartupBase
  /\ pc' = IF sector' = 0 THEN "error" ELSE "startup"
  /\ buffer' = Sector(disk, Directory)
  /\ UNCHANGED <<disk, memory, left, kernel, files>>

StartupSector == pc = "startup" /\ WholeFileSector("parse")

(* The header of the FXF file at StartupBase; its magic is not looked at.  *)
CodePointer == Load(memory, StartupBase + 8, "word")
RelocSize == Load(memory, StartupBase + 28, "word")
RelocPointer == Load(memory, StartupBase + 32, "word")

(* Mutant: the size of the table is taken for the number of its entries. *)
ParseHeaderBytes ==
  /\ pc = "parse"
  /\ base' = Wrap(StartupBase + CodePointer)
  /\ left' = RelocSize
  /\ entry' = Wrap(StartupBase + RelocPointer)
  /\ pc' = "relocate"
  /\ UNCHANGED <<disk, memory, buffer, sector, dest, name, files>>

ParseHeader ==
  /\ pc = "parse"
  /\ base' = Wrap(StartupBase + CodePointer)
  /\ left' = RelocSize \div 4
  /\ entry' = Wrap(StartupBase + RelocPointer)
  /\ pc' = "relocate"
  /\ UNCHANGED <<disk, memory, buffer, sector, dest, name, files>>

(* The loop relocates before it counts down, so that a file without        *)
(* relocations takes what follows for relocations until one is unmapped.   *)
Relocate ==
  /\ pc = "relocate"
  /\ LET mapped == Mapped(entry, "word")
         word == Wrap(base + Load(memory, entry, "word"))
     IN  IF mapped /\ Mapped(word, "word")
           THEN /\ memory' = Store(memory, word, "word", Wrap(Load(memory, word, "word") + base))
                /\ entry' = Wrap(entry + 4)
                /\ left' = Wrap(left - 1)
                /\ pc' = IF left' = 0 THEN "running" ELSE "relocate"
           ELSE /\ pc' = "dead"
                /\ UNCHANGED <<memory, entry, left>>
  /\ UNCHANGED <<disk, buffer, sector, dest, name, base, files>>

Loading ==
  RawSectorRead \/ SystemSector \/ ReadConfig \/ OpenStartup \/ StartupSector \/ ParseHeader \/ Relocate
-----------------------------------------------------------------------------
(* What the running program asks of the file system reader of the ROM.     *)

OpenFile(f) ==
  /\ pc = "running"
  /\ handle' =
       IF Open(disk, f) = 0 THEN handle ELSE [name |-> f, first |-> Open(disk, f), seek |-> 0]
  /\ buffer' = Sector(disk, Directory)
  /\ UNCHANGED <<disk, pc, memory, loading, kernel, answer>>

Seek(n) ==
  /\ pc = "running"
  /\ handle' = [handle EXCEPT !.seek = n]
  /\ UNCHANGED <<disk, pc, memory, buffer, loading, kernel, answer>>

(* Mutant: the traversal takes the seek offset rounded down. *)
StartSectorBelow ==
  LET links == handle.seek \div Payload
      at[k \in 0..links] == IF k <= 1 THEN handle.first ELSE Sector(disk, at[k - 1]).next
  IN  at[links]

(* The sector a read starts in: the traversal follows as many links as the *)
(* seek offset has payloads, rounded up, less one.                         *)
StartSector ==
  LET links == (handle.seek + Payload - 1) \div Payload
      at[k \in 0..links] == IF k <= 1 THEN handle.first ELSE Sector(disk, at[k - 1]).next
  IN  at[links]

(* Cells of RAM after the sector buffer. *)
Junk == 99

(* Each round of the loop copies the same cells of the same sector to the  *)
(* same place, the first one at most Payload of them; the copy may run     *)
(* past the sector.  No cell at all is 2^32 cells.                         *)
Read(n) ==
  /\ pc = "running"
  /\ handle.first # 0
  /\ buffer' = Sector(disk, StartSector)
  /\ IF n = 0
       THEN /\ pc' = "dead"
            /\ UNCHANGED <<handle, answer>>
       ELSE LET cells == buffer'.cells
                from == handle.seek % Payload
                count == IF n >= Payload THEN Payload ELSE n
            IN  /\ answer' = [from |-> handle, count |-> n,
                              cells |-> [k \in 1..count |->
                                           IF from + k <= Payload THEN cells[from + k] ELSE Junk]]
                /\ handle' = [handle EXCEPT !.seek = @ + n]
                /\ UNCHANGED pc
  /\ UNCHANGED <<disk, memory, loading, kernel>>

(* The emulator opens a disk for reading only: any write is a panic. *)
WriteSector ==
  /\ pc = "running"
  /\ pc' = "dead"
  /\ UNCHANGED <<disk, memory, buffer, loading, kernel, files>>

(* A read inside one sector, that starts at the beginning of the file or   *)
(* not at the beginning of a sector, returns the cells of the file that    *)
(* were asked for (ryfs.asm 94-218): this is the use the kernel makes.     *)
Supported(from, n, length) ==
  /\ n > 0
  /\ from = 0 \/ from % Payload # 0
  /\ (from % Payload) + n <= Payload
  /\ from + n <= length

ReadsWhatWasAsked ==
  answer # NoAnswer =>
    LET from == answer.from.seek
        text == disk.content[answer.from.name]
    IN  Supported(from, answer.count, Len(text)) =>
          answer.cells = SubSeq(text, from + 1, from + answer.count)
=============================================================================
