---------------------------- MODULE LaunchProofs ----------------------------
(***************************************************************************)
(* The blocks that a running program is given never overlap, for kernels,  *)
(* limits and requests of any size: this is proved of the allocator alone  *)
(* and carried over to the program that Launch runs.  What the program     *)
(* reads of a file is what the disk has of it, for files of any length in  *)
(* any sectors.  The kernel stays in memory as it was on the disk while    *)
(* any program that fox32asm writes is loaded, relocated and run, and the  *)
(* CPU finds in memory the statements that were written, for every source  *)
(* that is one for its format.                                             *)
(***************************************************************************)
EXTENDS Launch, MachineFacts

(* The strengthening: free_base is the end of the last block.              *)
AllocatorTypeOK ==
  /\ free \in Nat
  /\ blocks \in Seq([at : Nat, size : Nat])

FreeAbove ==
  /\ KernelBottom <= free /\ free < MemoryTop
  /\ \A i \in DOMAIN blocks : blocks[i].at + blocks[i].size <= free

AllocatorInv == AllocatorTypeOK /\ FreeAbove /\ BlocksApart

LEMMA InitAllocated == AllocatorInit => AllocatorInv
BY AllocatorAssumption DEF AllocatorInit, AllocatorInv, AllocatorTypeOK, FreeAbove, BlocksApart

LEMMA SmallRemainder ==
  ASSUME NEW x \in Nat, NEW w \in Nat, x < w
  PROVE  x % w = x
OBVIOUS

LEMMA AllocateStep ==
  ASSUME AllocatorInv, NEW n \in 0..Words - 1, Allocated(n)
  PROVE  AllocatorInv'
<1> USE AllocatorAssumption DEF AllocatorInv
<1> DEFINE b == [at |-> free, size |-> n]
<1>1. CASE Full(n)
  BY <1>1 DEF Allocated, alloc, AllocatorTypeOK, FreeAbove, BlocksApart
<1>2. CASE ~Full(n)
  <2>1. (MemoryTop - free) % Words = MemoryTop - free
    <3>1. MemoryTop - free \in Nat /\ MemoryTop - free < Words
      BY DEF AllocatorTypeOK, FreeAbove
    <3> QED BY <3>1, SmallRemainder
  <2>2. free + n < MemoryTop /\ n \in Nat
    BY <1>2, <2>1 DEF Full, AllocatorTypeOK, FreeAbove
  <2>3. free' = free + n
    <3>1. free' = (free + n) % Words
      BY <1>2 DEF Allocated
    <3>2. free + n \in Nat /\ free + n < Words
      BY <2>2 DEF AllocatorTypeOK
    <3> QED BY <3>1, <3>2, SmallRemainder
  <2>4. blocks' = Append(blocks, b) /\ b \in [at : Nat, size : Nat]
    BY <1>2, <2>2 DEF Allocated, AllocatorTypeOK
  <2>5. /\ DOMAIN blocks = 1..Len(blocks) /\ Len(blocks) \in Nat
        /\ DOMAIN blocks' = 1..Len(blocks) + 1
        /\ \A i \in DOMAIN blocks : blocks'[i] = blocks[i] /\ blocks[i] \in [at : Nat, size : Nat]
        /\ blocks'[Len(blocks) + 1] = b
    <3> DEFINE B == [at : Nat, size : Nat]
    <3>1. blocks \in Seq(B) /\ b \in B
      BY <2>4 DEF AllocatorTypeOK
    <3> HIDE DEF B, b
    <3>2. /\ DOMAIN blocks = 1..Len(blocks) /\ Len(blocks) \in Nat
          /\ \A i \in DOMAIN blocks : blocks[i] \in B
      BY <3>1
    <3>3. /\ DOMAIN Append(blocks, b) = 1..Len(blocks) + 1
          /\ \A i \in DOMAIN blocks : Append(blocks, b)[i] = blocks[i]
          /\ Append(blocks, b)[Len(blocks) + 1] = b
      BY <3>1, <3>2
    <3> QED BY <3>2, <3>3, <2>4 DEF B
  <2>6. AllocatorTypeOK'
    BY <2>2, <2>3, <2>4 DEF AllocatorTypeOK
  <2> DEFINE End(i) == blocks'[i].at + blocks'[i].size
  <2>7. ASSUME NEW i \in DOMAIN blocks'
        PROVE  KernelBottom <= blocks'[i].at /\ End(i) <= free' /\ End(i) < MemoryTop
    <3>1. CASE i \in DOMAIN blocks
      <4>1. blocks'[i] = blocks[i] /\ blocks[i].at \in Nat /\ blocks[i].size \in Nat
        BY <3>1, <2>5
      <4>2. blocks[i].at + blocks[i].size <= free /\ KernelBottom <= blocks[i].at
            /\ blocks[i].at + blocks[i].size < MemoryTop
        BY <3>1 DEF FreeAbove, BlocksApart
      <4>3. blocks'[i].at = blocks[i].at /\ blocks'[i].size = blocks[i].size
        BY <4>1
      <4>4. ASSUME NEW e \in Nat, e <= free
            PROVE  e <= free'
        BY <2>2, <2>3, <4>4 DEF AllocatorTypeOK
      <4>5. blocks[i].at + blocks[i].size \in Nat
        BY <4>1
      <4>6. blocks[i].at + blocks[i].size <= free'
        BY <4>2, <4>4, <4>5
      <4> QED BY <4>2, <4>3, <4>6
    <3>2. CASE i = Len(blocks) + 1
      <4>1. blocks'[i].at = free /\ blocks'[i].size = n
        BY <3>2, <2>5
      <4> QED BY <4>1, <2>2, <2>3 DEF AllocatorTypeOK, FreeAbove
    <3> QED BY <3>1, <3>2, <2>5
  <2>8. FreeAbove'
    BY <2>2, <2>3, <2>7 DEF AllocatorTypeOK, FreeAbove
  <2>9. BlocksApart'
    <3>1. \A i \in DOMAIN blocks' :
            KernelBottom <= blocks'[i].at /\ blocks'[i].at + blocks'[i].size < MemoryTop
      BY <2>7
    <3>2. ASSUME NEW i \in DOMAIN blocks', NEW j \in DOMAIN blocks', i < j
          PROVE  blocks'[i].at + blocks'[i].size <= blocks'[j].at
      <4>1. CASE j \in DOMAIN blocks
        BY <3>2, <4>1, <2>5 DEF BlocksApart
      <4>2. CASE j = Len(blocks) + 1
        BY <3>2, <4>2, <2>5 DEF FreeAbove
      <4> QED BY <4>1, <4>2, <2>5
    <3> QED BY <3>1, <3>2 DEF BlocksApart
  <2> QED BY <2>6, <2>8, <2>9
<1> QED BY <1>1, <1>2

LEMMA AllocatorStutter == AllocatorInv /\ UNCHANGED alloc => AllocatorInv'
BY DEF AllocatorInv, AllocatorTypeOK, FreeAbove, BlocksApart, alloc

(* Whatever sizes are asked for, in any order: the allocator by itself.    *)
THEOREM AllocatorKeepsApart == AllocatorSpec => []BlocksApart
<1>1. AllocatorInv /\ [AllocatorNext]_alloc => AllocatorInv'
  BY AllocateStep, AllocatorStutter DEF AllocatorNext, Allocate
<1>2. AllocatorInv => BlocksApart
  BY DEF AllocatorInv
<1> QED BY InitAllocated, <1>1, <1>2, PTL DEF AllocatorSpec

(* Only TakeBlock calls the allocator, with a word.                        *)
LEMMA LaunchCallsAllocator == [Next]_vars => [AllocatorNext]_alloc
<1> SUFFICES ASSUME [Next]_vars PROVE [AllocatorNext]_alloc
  OBVIOUS
<1>1. CASE TakeBlock
  BY <1>1, LaunchAssumption DEF TakeBlock, AllocatorNext
<1>2. CASE Assemble
  BY <1>2 DEF Assemble
<1>3. CASE Start \/ Insert \/ Run \/ UseFiles
  BY <1>3 DEF Start, Insert, Run, UseFiles
<1>4. CASE UNCHANGED vars
  BY <1>4 DEF vars
<1> QED BY <1>1, <1>2, <1>3, <1>4 DEF Next

(* The specification of Launch implements the allocator's.                 *)
THEOREM LaunchImplementsAllocator == Spec => AllocatorSpec
<1>1. Init => AllocatorInit
  BY DEF Init
<1> QED BY <1>1, LaunchCallsAllocator, PTL DEF Spec, AllocatorSpec

(* The blocks of the program that is loaded and run.                       *)
THEOREM LaunchKeepsApart == Spec => []BlocksApart
BY LaunchImplementsAllocator, AllocatorKeepsApart, PTL
-----------------------------------------------------------------------------
(* Cell number from of a file is in part from \div p + 1, and as many      *)
(* links lead there as the traversal counts, unless it is the first cell   *)
(* of a part.                                                              *)
LEMMA PartOfCell ==
  ASSUME NEW p \in Nat \ {0}, NEW from \in Nat, NEW length \in Nat, from < length
  PROVE  from \div p + 1 \in 1 .. (length + p - 1) \div p
<1> DEFINE q == from \div p
           r == from % p
           n == (length + p - 1) \div p
           s == (length + p - 1) % p
<1>1. q \in Int /\ r \in 0 .. p - 1 /\ from = p * q + r
  BY Divides
<1>2. n \in Int /\ s \in 0 .. p - 1 /\ length + p - 1 = p * n + s
  <2>1. length + p - 1 \in Int
    OBVIOUS
  <2> QED BY <2>1, Divides
<1> HIDE DEF q, r, n, s
<1>3. p * q < p * n
  <2>1. p * q \in Int /\ p * n \in Int
    BY <1>1, <1>2
  <2> QED BY <1>1, <1>2, <2>1
<1>4. q < n
  BY <1>1, <1>2, <1>3
<1>5. q >= 0
  <2>1. p * q > -p
    <3>1. p * q \in Int
      BY <1>1
    <3> QED BY <1>1, <3>1
  <2> QED BY <1>1, <2>1
<1>6. q + 1 \in 1 .. n
  BY <1>1, <1>2, <1>4, <1>5
<1> QED BY <1>6 DEF q, n

LEMMA LinksToPart ==
  ASSUME NEW p \in Nat \ {0}, NEW from \in Nat
  PROVE  /\ from = 0 => (from + p - 1) \div p = 0
         /\ from % p # 0 => (from + p - 1) \div p = from \div p + 1
<1>1. ASSUME from = 0 PROVE (from + p - 1) \div p = 0
  <2>1. from + p - 1 = p * 0 + (p - 1) /\ p - 1 \in 0 .. p - 1 /\ from + p - 1 \in Int
    BY <1>1
  <2> QED BY <2>1, DividesOnce
<1>2. ASSUME from % p # 0 PROVE (from + p - 1) \div p = from \div p + 1
  <2> DEFINE q == from \div p
             r == from % p
  <2>1. q \in Int /\ r \in 0 .. p - 1 /\ from = p * q + r
    BY Divides
  <2>2. r # 0
    BY <1>2
  <2> HIDE DEF q, r
  <2>3. from + p - 1 = p * (q + 1) + (r - 1)
    <3>1. p * (q + 1) = p * q + p
      BY <2>1
    <3>2. p * q \in Int
      BY <2>1
    <3> QED BY <2>1, <3>1, <3>2
  <2>4. r - 1 \in 0 .. p - 1 /\ q + 1 \in Int /\ from + p - 1 \in Int
    BY <2>1, <2>2
  <2>5. (from + p - 1) \div p = q + 1
    BY <2>3, <2>4, DividesOnce
  <2> QED BY <2>5 DEF q
<1> QED BY <1>1, <1>2

(* A sector that the disk has for a part of a file holds that part.        *)
NextPart(d, f, i) == IF i + 1 \in Parts(d.content[f]) THEN d.sectors[f][i + 1] ELSE 0

PartCells(d, f, i) ==
  Pad(SubSeq(d.content[f], (i - 1) * Payload + 1, Len(d.content[f])), Payload)

LEMMA SectorOfPart ==
  ASSUME NEW d, d.format = "ryfs", Formatted(d),
         NEW f \in DOMAIN d.content, NEW i \in Parts(d.content[f])
  PROVE  Sector(d, d.sectors[f][i]) = [next |-> NextPart(d, f, i), cells |-> PartCells(d, f, i)]
<1> DEFINE n == d.sectors[f][i]
           g == CHOOSE x \in DOMAIN d.content : \E j \in Parts(d.content[x]) : Holds(d, n, x, j)
           j == CHOOSE x \in Parts(d.content[g]) : Holds(d, n, g, x)
<1>1. Holds(d, n, f, i)
  BY DEF Holds
<1>2. g \in DOMAIN d.content /\ \E x \in Parts(d.content[g]) : Holds(d, n, g, x)
  BY <1>1
<1>3. j \in Parts(d.content[g]) /\ Holds(d, n, g, j)
  BY <1>2
<1>4. Sector(d, n) = [next |-> NextPart(d, g, j), cells |-> PartCells(d, g, j)]
  BY <1>1 DEF Sector, NextPart, PartCells
<1> HIDE DEF g, j
<1>5. g = f /\ j = i
  BY <1>2, <1>3 DEF Holds, Formatted
<1> QED BY <1>4, <1>5

(* The traversal of a file's sectors. *)
Follows(at, d, first, links) ==
  at = [k \in 0 .. links |-> IF k <= 1 THEN first ELSE Sector(d, at[k - 1]).next]

LEMMA FollowsExists ==
  ASSUME NEW d, NEW first, NEW links \in Nat
  PROVE  \E at : Follows(at, d, first, links)
<1> DEFINE S == {n \in 0 .. links : \E at : Follows(at, d, first, n)}
<1>1. 0 \in S
  <2>1. Follows([k \in 0 .. 0 |-> first], d, first, 0)
    BY DEF Follows
  <2> QED BY <2>1
<1>2. ASSUME NEW n \in 0 .. links - 1, n \in S PROVE n + 1 \in S
  <2>1. PICK at : Follows(at, d, first, n)
    BY <1>2
  <2> DEFINE new == IF n + 1 <= 1 THEN first ELSE Sector(d, at[n]).next
             longer == [k \in 0 .. n + 1 |-> IF k = n + 1 THEN new ELSE at[k]]
  <2>2. ASSUME NEW k \in 0 .. n + 1
        PROVE  longer[k] = IF k <= 1 THEN first ELSE Sector(d, longer[k - 1]).next
    <3>1. CASE k = n + 1
      <4>1. CASE k <= 1
        BY <3>1, <4>1
      <4>2. CASE ~(k <= 1)
        <5>1. k - 1 = n /\ n \in 0 .. n + 1 /\ n # n + 1
          BY <3>1
        <5>2. longer[k] = Sector(d, at[n]).next /\ longer[n] = at[n]
          BY <3>1, <4>2, <5>1
        <5> QED BY <4>2, <5>1, <5>2
      <4> QED BY <4>1, <4>2
    <3>2. CASE k \in 0 .. n
      <4>1. at[k] = IF k <= 1 THEN first ELSE Sector(d, at[k - 1]).next
        BY <2>1, <3>2 DEF Follows
      <4>2. longer[k] = at[k]
        BY <3>2
      <4>3. CASE k <= 1
        BY <4>1, <4>2, <4>3
      <4>4. CASE ~(k <= 1)
        <5>1. k - 1 \in 0 .. n /\ k - 1 \in 0 .. n + 1 /\ k - 1 # n + 1
          BY <3>2, <4>4
        <5>2. longer[k - 1] = at[k - 1]
          BY <5>1
        <5> QED BY <4>1, <4>2, <4>4, <5>2
      <4> QED BY <4>3, <4>4
    <3> QED BY <3>1, <3>2
  <2>3. Follows(longer, d, first, n + 1)
    <3>1. longer = [k \in 0 .. n + 1 |-> longer[k]]
      OBVIOUS
    <3> HIDE DEF longer
    <3> QED BY <2>2, <3>1 DEF Follows
  <2> QED BY <2>3
<1> HIDE DEF S
<1>3. links \in S
  BY <1>1, <1>2, UpTo
<1> QED BY <1>3 DEF S

LEMMA StartSectorFollows ==
  ASSUME NEW links \in Nat, links = (handle.seek + Payload - 1) \div Payload
  PROVE  \E at : Follows(at, disk, handle.first, links) /\ StartSector = at[links]
<1> DEFINE at == CHOOSE at : Follows(at, disk, handle.first, links)
<1>1. Follows(at, disk, handle.first, links)
  BY FollowsExists
<1>2. StartSector = at[links]
  BY DEF StartSector, Follows
<1> QED BY <1>1, <1>2

(* It reaches the sectors of the parts one after the other. *)
LEMMA FollowsParts ==
  ASSUME NEW d, d.format = "ryfs", Formatted(d), NEW f \in DOMAIN d.content,
         NEW links \in Nat, links = 0 \/ links \in Parts(d.content[f]), NEW n \in Nat,
         Parts(d.content[f]) = 1 .. n,
         NEW at, Follows(at, d, d.sectors[f][1], links)
  PROVE  at[links] = d.sectors[f][IF links = 0 THEN 1 ELSE links]
<1> DEFINE S == {k \in 0 .. links : at[k] = d.sectors[f][IF k = 0 THEN 1 ELSE k]}
<1>1. \A k \in 0 .. links : at[k] = IF k <= 1 THEN d.sectors[f][1] ELSE Sector(d, at[k - 1]).next
  BY DEF Follows
<1>2. 0 \in S
  BY <1>1
<1>3. ASSUME NEW k \in 0 .. links - 1, k \in S PROVE k + 1 \in S
  <2>1. k + 1 \in 0 .. links /\ (k + 1) - 1 = k /\ k + 1 # 0
    OBVIOUS
  <2>2. CASE k = 0
    BY <1>1, <2>1, <2>2
  <2>3. CASE k # 0
    <3>1. at[k + 1] = Sector(d, at[k]).next
      <4>1. ~(k + 1 <= 1)
        BY <2>3
      <4> QED BY <1>1, <2>1, <4>1
    <3>2. at[k] = d.sectors[f][k]
      BY <1>3, <2>3
    <3>3. k \in Parts(d.content[f]) /\ k + 1 \in Parts(d.content[f])
      BY <2>3
    <3>4. Sector(d, d.sectors[f][k]).next = NextPart(d, f, k)
      <4>1. Sector(d, d.sectors[f][k]) = [next |-> NextPart(d, f, k), cells |-> PartCells(d, f, k)]
        BY <3>3, SectorOfPart, Zenon
      <4> QED BY <4>1
    <3>5. at[k + 1] = d.sectors[f][k + 1]
      BY <3>1, <3>2, <3>3, <3>4 DEF NextPart
    <3> QED BY <2>1, <3>5
  <2> QED BY <2>2, <2>3
<1> HIDE DEF S
<1>4. links \in S
  BY <1>2, <1>3, UpTo
<1> QED BY <1>4 DEF S

LEMMA CellsAfter ==
  ASSUME NEW text \in Seq(Nat), NEW b \in Nat, NEW p \in Nat, NEW k \in 1 .. p, b + k <= Len(text)
  PROVE  Pad(SubSeq(text, b + 1, Len(text)), p)[k] = text[b + k]
<1> DEFINE after == SubSeq(text, b + 1, Len(text))
<1>1. Len(text) \in Nat
  OBVIOUS
<1>2. Len(after) = Len(text) - b /\ after[k] = text[b + k]
  <2>1. b + 1 \in Int /\ Len(text) \in Int /\ k \in 1 .. Len(text) - b
    BY <1>1
  <2> QED BY <1>1, <2>1
<1> HIDE DEF after
<1>3. k <= Len(after)
  BY <1>1, <1>2
<1> QED BY <1>2, <1>3 DEF Pad, after

LEMMA CellsBetween ==
  ASSUME NEW text \in Seq(Nat), NEW from \in Nat, NEW n \in Nat, from + n <= Len(text)
  PROVE  SubSeq(text, from + 1, from + n) = [k \in 1 .. n |-> text[from + k]]
<1>1. Len(text) \in Nat
  OBVIOUS
<1> DEFINE s == SubSeq(text, from + 1, from + n)
<1>2. s \in Seq(Nat) /\ Len(s) = n
  BY <1>1
<1>3. ASSUME NEW k \in 1 .. n PROVE s[k] = text[from + k]
  <2>1. k \in 1 .. (from + n) - (from + 1) + 1 /\ (from + 1) + k - 1 = from + k
    BY <1>1
  <2>2. from + 1 \in Nat /\ from + n \in Nat /\ from + 1 >= 1 /\ from + n <= Len(text)
    BY <1>1
  <2> DEFINE m == from + 1
             o == from + n
  <2> HIDE DEF m, o
  <2>3. SubSeq(text, m, o)[k] = text[m + k - 1]
    <3>1. m \in Nat /\ o \in Nat /\ k \in 1 .. o - m + 1 /\ m >= 1 /\ o <= Len(text)
      BY <2>1, <2>2 DEF m, o
    <3> QED BY <1>1, <3>1
  <2> QED BY <2>1, <2>3 DEF m, o, s
<1> HIDE DEF s
<1>4. s = [k \in 1 .. Len(s) |-> s[k]]
  BY <1>2
<1>5. s = [k \in 1 .. n |-> s[k]]
  BY <1>2, <1>4
<1>6. s = [k \in 1 .. n |-> text[from + k]]
  BY <1>3, <1>5
<1> QED BY <1>6 DEF s

(* The handle is one that ryfs_open has filled in. *)
Opened ==
  /\ disk.format = "ryfs"
  /\ handle.name \in DOMAIN disk.content
  /\ handle.first = disk.sectors[handle.name][1]
  /\ handle.seek \in Nat

(* The cells that Read copies. *)
Copied(n) ==
  LET from == handle.seek % Payload
  IN  [k \in 1 .. n |-> IF from + k <= Payload THEN Sector(disk, StartSector).cells[from + k] ELSE Junk]

LEMMA ReadCells ==
  ASSUME Formatted(disk), Opened, NEW n \in Nat,
         Supported(handle.seek, n, Len(disk.content[handle.name]))
  PROVE  Copied(n) = SubSeq(disk.content[handle.name], handle.seek + 1, handle.seek + n)
<1> DEFINE f == handle.name
           text == disk.content[f]
           from == handle.seek
           length == Len(text)
           last == (length + Payload - 1) \div Payload
           q == from \div Payload
           r == from % Payload
           b == q * Payload
           links == (from + Payload - 1) \div Payload
<1>1. Payload \in Nat \ {0}
  BY LoaderAssumption
<1>2. text \in Seq(Nat) /\ length \in Nat /\ f \in DOMAIN disk.content
  BY DEF Formatted, Opened
<1>3. from \in Nat /\ n > 0 /\ (from = 0 \/ r # 0) /\ r + n <= Payload /\ from + n <= length
  BY DEF Opened, Supported
<1>4. from < length
  BY <1>2, <1>3
<1>5. q \in Int /\ r \in 0 .. Payload - 1 /\ from = Payload * q + r
  <2> HIDE DEF from
  <2>1. from \in Int
    BY <1>3
  <2> QED BY <1>1, <2>1, Divides
<1>6. q + 1 \in 1 .. last
  BY <1>1, <1>2, <1>3, <1>4, PartOfCell
<1>7. (from = 0 => links = 0) /\ (r # 0 => links = q + 1)
  BY <1>1, <1>3, LinksToPart
<1>8. from = 0 => q = 0
  <2>1. ASSUME from = 0 PROVE q = 0
    <3>1. 0 = Payload * 0 + 0 /\ 0 \in 0 .. Payload - 1
      BY <1>1
    <3> QED BY <1>1, <2>1, <3>1, DividesOnce
  <2> QED BY <2>1
<1>9. last \in Nat /\ Parts(text) = 1 .. last
  <2>1. text # <<>>
    BY <1>3, <1>4
  <2>2. Parts(text) = 1 .. last
    BY <2>1 DEF Parts
  <2>3. last \in Int
    <3>1. length + Payload - 1 \in Int
      BY <1>1, <1>2
    <3> QED BY <1>1, <3>1, Divides
  <2> HIDE DEF last, q
  <2>4. last \in Nat
    BY <1>5, <1>6, <2>3
  <2> QED BY <2>2, <2>4
<1> HIDE DEF last, links, q, r
<1>10. b \in Nat /\ b = ((q + 1) - 1) * Payload /\ from = b + r
  <2>1. q \in Nat
    BY <1>5, <1>6
  <2>2. q * Payload \in Nat /\ Payload * q = q * Payload /\ (q + 1) - 1 = q
    BY <1>1, <2>1
  <2> QED BY <1>5, <2>2
<1> HIDE DEF b
<1>11. q + 1 \in Parts(text)
  BY <1>6, <1>9
<1>12. links \in Nat /\ (links = 0 \/ links \in Parts(text)) /\ (IF links = 0 THEN 1 ELSE links) = q + 1
  <2>1. CASE from = 0
    <3>1. links = 0 /\ q + 1 = 1
      BY <1>7, <1>8, <2>1
    <3> QED BY <3>1
  <2>2. CASE r # 0
    <3>1. links = q + 1 /\ q + 1 \in Nat /\ q + 1 # 0
      BY <1>6, <1>7, <2>2
    <3> QED BY <1>11, <3>1
  <2> QED BY <1>3, <2>1, <2>2
<1>13. StartSector = disk.sectors[f][q + 1]
  <2>1. links = (handle.seek + Payload - 1) \div Payload
    BY DEF links
  <2>2. PICK at : Follows(at, disk, handle.first, links) /\ StartSector = at[links]
    BY <1>12, <2>1, StartSectorFollows
  <2>3. Follows(at, disk, disk.sectors[f][1], links)
    BY <2>2 DEF Opened
  <2>4. at[links] = disk.sectors[f][IF links = 0 THEN 1 ELSE links]
    <3>1. disk.format = "ryfs" /\ Formatted(disk) /\ f \in DOMAIN disk.content
      BY <1>2 DEF Opened
    <3>2. Parts(disk.content[f]) = 1 .. last /\ last \in Nat
      BY <1>9
    <3>3. links \in Nat /\ (links = 0 \/ links \in Parts(disk.content[f]))
      BY <1>12
    <3> HIDE DEF f, text
    <3> QED BY <2>3, <3>1, <3>2, <3>3, FollowsParts
  <2> QED BY <1>12, <2>2, <2>4
<1>14. Sector(disk, StartSector).cells = PartCells(disk, f, q + 1)
  <2>1. Sector(disk, disk.sectors[f][q + 1])
          = [next |-> NextPart(disk, f, q + 1), cells |-> PartCells(disk, f, q + 1)]
    BY <1>2, <1>11, SectorOfPart DEF Opened
  <2> QED BY <1>13, <2>1
<1>15. PartCells(disk, f, q + 1) = Pad(SubSeq(text, b + 1, length), Payload)
  BY <1>10 DEF PartCells
<1>16. \A k \in 1 .. n : r + k <= Payload /\ Sector(disk, StartSector).cells[r + k] = text[from + k]
  <2> TAKE k \in 1 .. n
  <2>1. r + k \in 1 .. Payload /\ b + (r + k) = from + k /\ b + (r + k) <= length
    BY <1>1, <1>2, <1>3, <1>5, <1>10
  <2> HIDE DEF from, text
  <2>2. Pad(SubSeq(text, b + 1, Len(text)), Payload)[r + k] = text[b + (r + k)]
    BY <1>1, <1>2, <1>10, <2>1, CellsAfter
  <2> QED BY <1>14, <1>15, <2>1, <2>2
<1>17. Copied(n) = [k \in 1 .. n |-> text[from + k]]
  BY <1>16 DEF Copied, r
<1>18. SubSeq(text, from + 1, from + n) = [k \in 1 .. n |-> text[from + k]]
  BY <1>2, <1>3, CellsBetween
<1> QED BY <1>17, <1>18
-----------------------------------------------------------------------------
(* The strengthening: the disk stays in the drive once something was       *)
(* booted from it, and what is open is a file of it.                       *)
NothingOpenYet == pc \in {"off", "desktop"} => handle = NoFile /\ answer = NoAnswer

HandleOfDisk ==
  /\ \E f, first : \E s \in Nat : handle = [name |-> f, first |-> first, seek |-> s]
  /\ handle.first # 0 => Opened

ReadInv == Formatted(disk) /\ NothingOpenYet /\ HandleOfDisk /\ ReadsWhatWasAsked

LEMMA NothingOpen == handle = NoFile => HandleOfDisk
<1> SUFFICES ASSUME handle = NoFile PROVE HandleOfDisk
  OBVIOUS
<1>1. \E f, first : \E s \in Nat : handle = [name |-> f, first |-> first, seek |-> s]
  <2>1. 0 \in Nat /\ handle = [name |-> <<>>, first |-> 0, seek |-> 0]
    BY DEF NoFile
  <2> QED BY <2>1, Zenon
<1>2. handle.first = 0
  BY DEF NoFile
<1> QED BY <1>1, <1>2 DEF HandleOfDisk

LEMMA InitReads == Init => ReadInv
<1> SUFFICES ASSUME Init PROVE ReadInv
  OBVIOUS
<1>1. disk = NoDisk /\ handle = NoFile /\ answer = NoAnswer
  BY DEF Init, LoaderInit
<1>2. Formatted(disk)
  BY <1>1 DEF Formatted, NoDisk
<1>3. HandleOfDisk
  BY <1>1, NothingOpen
<1> QED BY <1>1, <1>2, <1>3 DEF ReadInv, NothingOpenYet, ReadsWhatWasAsked

(* A disk is put in the drive while nothing is open. *)
LEMMA InsertReads ==
  ASSUME ReadInv, pc \in {"off", "desktop"}, UNCHANGED files, Formatted(disk')
  PROVE  ReadInv'
<1>1. handle' = NoFile /\ answer' = NoAnswer /\ handle = NoFile
  BY DEF ReadInv, NothingOpenYet, files
<1>2. HandleOfDisk'
  BY <1>1 DEF HandleOfDisk, NoFile
<1> QED BY <1>1, <1>2 DEF ReadInv, NothingOpenYet, ReadsWhatWasAsked

(* A step that leaves disk and file alone, and not to wait for a disk.     *)
LEMMA OtherReads ==
  ASSUME ReadInv, UNCHANGED <<disk, handle, answer>>, pc' \in {"off", "desktop"} => pc' = pc
  PROVE  ReadInv'
<1>1. Opened <=> Opened'
  BY DEF Opened
<1>2. HandleOfDisk'
  BY <1>1 DEF ReadInv, HandleOfDisk
<1>3. NothingOpenYet'
  BY DEF ReadInv, NothingOpenYet
<1>4. ReadsWhatWasAsked'
  BY DEF ReadInv, ReadsWhatWasAsked
<1>5. Formatted(disk)'
  BY DEF ReadInv
<1> QED BY <1>2, <1>3, <1>4, <1>5 DEF ReadInv

LEMMA LoadingKeepsFiles ==
  ASSUME Loading
  PROVE  UNCHANGED <<disk, handle, answer>> /\ (pc' \in {"off", "desktop"} => pc' = pc)
<1>1. CASE RawSectorRead
  BY <1>1 DEF RawSectorRead, files
<1>2. CASE SystemSector
  BY <1>2 DEF SystemSector, WholeFileSector, files
<1>3. CASE ReadConfig
  BY <1>3 DEF ReadConfig, files
<1>4. CASE OpenStartup
  BY <1>4 DEF OpenStartup, files
<1>5. CASE StartupSector
  BY <1>5 DEF StartupSector, WholeFileSector, files
<1>6. CASE ParseHeader
  BY <1>6 DEF ParseHeader, files
<1>7. CASE Relocate
  BY <1>7 DEF Relocate, files
<1> QED BY <1>1, <1>2, <1>3, <1>4, <1>5, <1>6, <1>7 DEF Loading

LEMMA OpenFileReads ==
  ASSUME ReadInv, NEW f, OpenFile(f)
  PROVE  ReadInv'
<1>1. UNCHANGED <<disk, pc, answer>>
  BY DEF OpenFile
<1>2. HandleOfDisk'
  <2>1. CASE Open(disk, f) = 0
    <3>1. handle' = handle
      BY <2>1 DEF OpenFile
    <3> QED BY <1>1, <3>1 DEF ReadInv, HandleOfDisk, Opened
  <2>2. CASE Open(disk, f) # 0
    <3>1. handle' = [name |-> f, first |-> Open(disk, f), seek |-> 0]
      BY <2>2 DEF OpenFile
    <3>2. disk.format = "ryfs" /\ f \in DOMAIN disk.content /\ Open(disk, f) = disk.sectors[f][1]
      BY <2>2 DEF Open
    <3>3. Opened'
      BY <1>1, <3>1, <3>2 DEF Opened
    <3> QED BY <3>1, <3>3 DEF HandleOfDisk
  <2> QED BY <2>1, <2>2
<1>3. pc = "running"
  BY DEF OpenFile
<1> QED BY <1>1, <1>2, <1>3 DEF ReadInv, NothingOpenYet, ReadsWhatWasAsked

LEMMA SeekReads ==
  ASSUME ReadInv, NEW n \in Nat, Seek(n)
  PROVE  ReadInv'
<1>1. UNCHANGED <<disk, pc, answer>> /\ pc = "running"
  BY DEF Seek
<1>2. PICK f, first, s : s \in Nat /\ handle = [name |-> f, first |-> first, seek |-> s]
  BY DEF ReadInv, HandleOfDisk
<1>3. handle' = [name |-> f, first |-> first, seek |-> n]
  BY <1>2 DEF Seek
<1>4. handle.first # 0 => Opened
  BY DEF ReadInv, HandleOfDisk
<1>5. HandleOfDisk'
  <2>1. (handle.first # 0 => Opened)'
    BY <1>1, <1>2, <1>3, <1>4 DEF Opened
  <2> QED BY <1>3, <2>1 DEF HandleOfDisk
<1> QED BY <1>1, <1>5 DEF ReadInv, NothingOpenYet, ReadsWhatWasAsked

LEMMA ReadReads ==
  ASSUME ReadInv, NEW n \in Nat, Read(n)
  PROVE  ReadInv'
<1>1. pc = "running" /\ disk' = disk /\ handle.first # 0
  BY DEF Read
<1>2. CASE n = 0
  <2>1. UNCHANGED <<disk, handle, answer>> /\ pc' = "dead"
    BY <1>2 DEF Read
  <2> QED BY <2>1, OtherReads
<1>3. CASE n # 0
  <2> DEFINE count == IF n >= Payload THEN Payload ELSE n
             from == handle.seek % Payload
             got == [k \in 1 .. count |->
                       IF from + k <= Payload THEN Sector(disk, StartSector).cells[from + k] ELSE Junk]
  <2>1. /\ answer' = [from |-> handle, count |-> n, cells |-> got]
        /\ handle' = [handle EXCEPT !.seek = @ + n]
        /\ pc' = pc
    BY <1>3 DEF Read
  <2>2. PICK f, first, s : s \in Nat /\ handle = [name |-> f, first |-> first, seek |-> s]
    BY DEF ReadInv, HandleOfDisk
  <2>3. handle' = [name |-> f, first |-> first, seek |-> s + n] /\ s + n \in Nat
    BY <2>1, <2>2
  <2>4. Opened
    BY <1>1 DEF ReadInv, HandleOfDisk
  <2>5. HandleOfDisk'
    <3>1. Opened'
      BY <1>1, <2>2, <2>3, <2>4 DEF Opened
    <3> QED BY <2>3, <3>1 DEF HandleOfDisk
  <2>6. ASSUME Supported(handle.seek, n, Len(disk.content[handle.name]))
        PROVE  got = SubSeq(disk.content[handle.name], handle.seek + 1, handle.seek + n)
    <3>1. count = n
      <4>1. Payload \in Nat /\ from \in Nat /\ from + n <= Payload
        <5>1. Payload \in Nat \ {0} /\ handle.seek \in Int
          BY <2>4, LoaderAssumption DEF Opened
        <5>2. from \in 0 .. Payload - 1
          BY <5>1, Divides
        <5> QED BY <2>6, <5>1, <5>2 DEF Supported
      <4> HIDE DEF from
      <4> QED BY <4>1
    <3>2. got = Copied(n)
      BY <3>1 DEF Copied
    <3>3. Copied(n) = SubSeq(disk.content[handle.name], handle.seek + 1, handle.seek + n)
      BY <2>4, <2>6, ReadCells DEF ReadInv
    <3> QED BY <3>2, <3>3
  <2> HIDE DEF got
  <2>7. ReadsWhatWasAsked'
    BY <1>1, <2>1, <2>6 DEF ReadsWhatWasAsked
  <2>8. NothingOpenYet'
    BY <1>1, <2>1 DEF NothingOpenYet
  <2>9. Formatted(disk)'
    BY <1>1 DEF ReadInv
  <2> QED BY <2>5, <2>7, <2>8, <2>9 DEF ReadInv
<1> QED BY <1>2, <1>3

LEMMA NextReads == ReadInv /\ [Next]_vars => ReadInv'
<1> SUFFICES ASSUME ReadInv, [Next]_vars PROVE ReadInv'
  OBVIOUS
<1>1. CASE Assemble
  BY <1>1, OtherReads DEF Assemble, lvars
<1>2. CASE Start
  <2>1. PICK d \in {NoDisk} \cup Disks : PowerOn(d)
    BY <1>2 DEF Start
  <2>2. Formatted(d)
    BY DEF Disks, Formatted, NoDisk
  <2> QED BY <2>1, <2>2, InsertReads DEF PowerOn
<1>3. CASE Insert
  <2>1. PICK d \in {disk} \cup Disks : Turn(d)
    BY <1>3 DEF Insert
  <2>2. Formatted(d)
    BY DEF Disks, ReadInv
  <2>3. disk' = d /\ UNCHANGED files /\ pc = "desktop"
    BY <2>1 DEF Turn, BootRaw, BootFat, BootRyfs, BootMistaken, NoBoot
  <2> QED BY <2>2, <2>3, InsertReads
<1>4. CASE Run
  BY <1>4, LoadingKeepsFiles, OtherReads DEF Run
<1>5. CASE TakeBlock
  BY <1>5, OtherReads DEF TakeBlock, files
<1>6. CASE UseFiles
  <2>1. ASSUME NEW f, OpenFile(f) PROVE ReadInv'
    BY <2>1, OpenFileReads
  <2>2. ASSUME NEW n \in Requests, Seek(n) \/ Read(n) PROVE ReadInv'
    <3>1. n \in Nat
      BY LaunchAssumption, AllocatorAssumption
    <3> QED BY <2>2, <3>1, SeekReads, ReadReads
  <2>3. ASSUME WriteSector PROVE ReadInv'
    BY <2>3, OtherReads DEF WriteSector, files
  <2> QED BY <1>6, <2>1, <2>2, <2>3 DEF UseFiles
<1>7. CASE UNCHANGED vars
  BY <1>7, OtherReads DEF vars, lvars
<1> QED BY <1>1, <1>2, <1>3, <1>4, <1>5, <1>6, <1>7 DEF Next

(* Whatever files are on the disk, in whichever sectors, and however the   *)
(* running program opens, seeks and reads, a read inside a sector returns  *)
(* the cells of the file that were asked for.                              *)
THEOREM ReadsAreOfFile == Spec => []ReadsWhatWasAsked
<1>1. ReadInv => ReadsWhatWasAsked
  BY DEF ReadInv
<1> QED BY InitReads, NextReads, <1>1, PTL DEF Spec
-----------------------------------------------------------------------------
(* The assembler, for sources of any length.  The order of the sections is *)
(* that of the life of a program: what fox32asm knows of the source and of *)
(* the places it has to patch, the steps of its passes, the file it        *)
(* writes, that file on its way from the disk into memory, and the         *)
(* relocation.                                                             *)

(* What a source says, as functions of it. *)
Flat(src) == \A i \in DOMAIN src : ~(src[i].kind = "org" /\ ~src[i].pad)

Defines(l, n) == l.kind \in {"label", "const"} /\ l.name = n

ConstIn(src, n) == src[Max({i \in DOMAIN src : Defines(src[i], n)})].kind = "const"

(* CURRENT_SIZE is the size of the last instruction with one, or a word.   *)
SetsSize(l) == l.kind = "const" \/ (l.kind = "op" /\ l.op \notin ZeroOps)

SizeOf(l) == IF l.kind = "const" THEN "word" ELSE l.size

SizeBefore(src, i) ==
  LET sizing == {j \in 1 .. i - 1 : SetsSize(src[j])}
  IN  IF sizing = {} THEN "word" ELSE SizeOf(src[Max(sizing)])

(* The references that FXF can relocate, and a source with at least one.   *)
WordLabels(src) ==
  /\ \A i \in DOMAIN src : src[i].kind = "data" /\ IsLabel(src[i].operand) => SizeBefore(src, i) = "word"
  /\ \A i \in DOMAIN src : \A o \in LabelsOf(src[i]) :
       src[i].kind = "op" => ConstIn(src, o.v) \/ Field(o, src[i].size) = "word"

ForFxf(src) ==
  /\ Flat(src)
  /\ WordLabels(src)
  /\ \E i \in DOMAIN src : \E o \in LabelsOf(src[i]) : ~ConstIn(src, o.v)

LEMMA FxfSource ==
  ASSUME ForItsFormat, program.fxf
  PROVE  ForFxf(source)
<1>1. \A n : IsConst(n) <=> ConstIn(source, n)
  BY DEF IsConst, ConstIn, Definition, Defines
<1>2. /\ LabelsAreWords /\ Origins = {}
      /\ \A r \in References : IsConst(r.name) \/ r.size = "word"
      /\ \E r \in References : ~IsConst(r.name)
  BY DEF ForItsFormat
<1>3. Flat(source)
  BY <1>2 DEF Flat, Origins
<1>4. \A i \in DOMAIN source : \A o \in LabelsOf(source[i]) :
        [name |-> o.v, size |-> Field(o, source[i].size),
         relative |-> source[i].kind = "op" /\ source[i].op \in Relatives] \in References
  BY DEF References
<1>5. ASSUME NEW i \in DOMAIN source, NEW o \in LabelsOf(source[i]), source[i].kind = "op"
      PROVE  ConstIn(source, o.v) \/ Field(o, source[i].size) = "word"
  <2> DEFINE r == [name |-> o.v, size |-> Field(o, source[i].size),
                   relative |-> source[i].kind = "op" /\ source[i].op \in Relatives]
  <2>1. r \in References /\ r.name = o.v /\ r.size = Field(o, source[i].size)
    BY <1>4
  <2> HIDE DEF r
  <2> QED BY <1>1, <1>2, <2>1
<1>6. ASSUME NEW i \in DOMAIN source, source[i].kind = "data", IsLabel(source[i].operand)
      PROVE  SizeBefore(source, i) = "word"
  <2> DEFINE sizing == {j \in 1 .. i - 1 :
                          source[j].kind = "const" \/ (source[j].kind = "op" /\ source[j].op \notin ZeroOps)}
  <2>1. sizing = {} \/ source[Max(sizing)].kind = "const" \/ source[Max(sizing)].size = "word"
    BY <1>2, <1>6 DEF LabelsAreWords
  <2>2. SizeBefore(source, i) = IF sizing = {} THEN "word" ELSE SizeOf(source[Max(sizing)])
    BY DEF SizeBefore, SetsSize
  <2> HIDE DEF sizing
  <2> QED BY <2>1, <2>2 DEF SizeOf
<1>7. \E i \in DOMAIN source : \E o \in LabelsOf(source[i]) : ~ConstIn(source, o.v)
  <2>1. PICK r \in References : ~IsConst(r.name)
    BY <1>2
  <2>2. \E i \in DOMAIN source : \E o \in LabelsOf(source[i]) : r.name = o.v
    BY <2>1 DEF References
  <2> QED BY <1>1, <2>1, <2>2
<1> QED BY <1>3, <1>5, <1>6, <1>7 DEF ForFxf, WordLabels
-----------------------------------------------------------------------------
LEMMA MaxIs ==
  ASSUME NEW S, S \subseteq Int, NEW m \in S, \A j \in S : j <= m
  PROVE  Max(S) = m
<1>1. \A x \in S : (\A y \in S : x >= y) => x = m
  OBVIOUS
<1>2. \A y \in S : m >= y
  OBVIOUS
<1> QED BY <1>1, <1>2, Zenon DEF Max

LEMMA SizeAfter ==
  ASSUME NEW src, NEW i \in Nat \ {0}
  PROVE  SizeBefore(src, i + 1) = IF SetsSize(src[i]) THEN SizeOf(src[i]) ELSE SizeBefore(src, i)
<1> DEFINE before == {j \in 1 .. i - 1 : SetsSize(src[j])}
           upto == {j \in 1 .. (i + 1) - 1 : SetsSize(src[j])}
<1>1. \A j : j \in 1 .. (i + 1) - 1 <=> j \in 1 .. i - 1 \/ j = i
  OBVIOUS
<1>2. CASE SetsSize(src[i])
  <2>1. i \in upto /\ upto \subseteq Int /\ \A j \in upto : j <= i
    BY <1>1, <1>2
  <2>2. Max(upto) = i /\ upto # {}
    <3> HIDE DEF upto
    <3> QED BY <2>1, MaxIs
  <2> QED BY <1>2, <2>2 DEF SizeBefore
<1>3. CASE ~SetsSize(src[i])
  <2>1. upto = before
    BY <1>1, <1>3
  <2> QED BY <1>3, <2>1 DEF SizeBefore
<1> QED BY <1>2, <1>3
-----------------------------------------------------------------------------
(* The assembler. *)
Places == [instruction : Nat, index : Nat, cell : Nat, size : Sizes, relative : BOOLEAN]

(* A place to patch lies inside the code, at the address that is also      *)
(* relocated, and a label that is no constant fills a word there.          *)
PlaceOK(src, n, p, end) ==
  /\ p.cell + Bytes(p.size) <= end
  /\ Flat(src) => p.instruction + p.index = p.cell
  /\ WordLabels(src) /\ ~ConstIn(src, n) => p.size = "word"

PlacesOK(src, map, end) ==
  \A n \in DOMAIN map :
    /\ map[n] \in Seq(Places) /\ map[n] # <<>>
    /\ \A i \in DOMAIN map[n] : PlaceOK(src, n, map[n][i], end)

LEMMA MorePlaces ==
  ASSUME NEW src, NEW map, NEW a \in Nat, NEW b \in Nat, a <= b, PlacesOK(src, map, a)
  PROVE  PlacesOK(src, map, b)
<1> SUFFICES ASSUME NEW n \in DOMAIN map, NEW i \in DOMAIN map[n]
             PROVE  PlaceOK(src, n, map[n][i], b)
  BY DEF PlacesOK
<1>1. map[n] \in Seq(Places) /\ PlaceOK(src, n, map[n][i], a)
  BY DEF PlacesOK
<1> DEFINE p == map[n][i]
<1>2. p \in Places
  BY <1>1
<1> HIDE DEF p
<1>3. p.cell \in Nat /\ Bytes(p.size) \in Nat
  BY <1>2 DEF Places, Bytes
<1>4. p.cell + Bytes(p.size) <= a
  BY <1>1 DEF PlaceOK, p
<1>5. p.cell + Bytes(p.size) <= b
  BY <1>3, <1>4
<1> QED BY <1>1, <1>5 DEF PlaceOK, p

LEMMA OnePlaceMore ==
  ASSUME NEW src, NEW map, NEW end, PlacesOK(src, map, end), NEW n, NEW p \in Places, PlaceOK(src, n, p, end),
         NEW old, old = IF n \in DOMAIN map THEN map[n] ELSE <<>>,
         NEW more, more = With(map, n, Append(old, p))
  PROVE  PlacesOK(src, more, end)
<1> DEFINE new == Append(old, p)
<1>1. DOMAIN more = DOMAIN map \cup {n} /\ more[n] = new /\ \A k \in DOMAIN map : k # n => more[k] = map[k]
  <2>1. more = With(map, n, new)
    OBVIOUS
  <2> HIDE DEF new
  <2>2. /\ DOMAIN With(map, n, new) = DOMAIN map \cup {n}
        /\ With(map, n, new)[n] = new
        /\ \A k \in DOMAIN map : k # n => With(map, n, new)[k] = map[k]
    BY DEF With
  <2> QED BY <2>1, <2>2
<1>2. old \in Seq(Places) /\ \A i \in DOMAIN old : PlaceOK(src, n, old[i], end)
  BY DEF PlacesOK
<1>3. new \in Seq(Places) /\ new # <<>>
  BY <1>2
<1>4. \A i \in DOMAIN new : PlaceOK(src, n, new[i], end)
  <2> TAKE i \in DOMAIN new
  <2>1. Len(old) \in Nat /\ DOMAIN old = 1 .. Len(old) /\ DOMAIN new = 1 .. Len(old) + 1
    BY <1>2
  <2>2. (i \in DOMAIN old => new[i] = old[i]) /\ (i = Len(old) + 1 => new[i] = p)
    BY <1>2, <2>1
  <2> HIDE DEF new
  <2> QED BY <1>2, <2>1, <2>2
<1> HIDE DEF new
<1>5. ASSUME NEW k \in DOMAIN more
      PROVE  more[k] \in Seq(Places) /\ more[k] # <<>> /\ \A i \in DOMAIN more[k] : PlaceOK(src, k, more[k][i], end)
  <2>1. CASE k = n
    BY <1>1, <1>3, <1>4, <2>1
  <2>2. CASE k # n
    BY <1>1, <2>2 DEF PlacesOK
  <2> QED BY <2>1, <2>2
<1> QED BY <1>1, <1>5 DEF PlacesOK
-----------------------------------------------------------------------------
(* The cells of operands and of instructions.                              *)

(* The cells of an operand: as many as a label in its place needs. *)
LEMMA AtLeastCells ==
  ASSUME NEW n \in Nat, NEW v
  PROVE  Cells(n, v) = [k \in 1 .. n |-> (v \div Mod("byte") ^ (k - 1)) % Mod("byte")] /\ Len(Cells(n, v)) = n
BY DEF Cells

LEMMA BytesOfSize == \A s \in Sizes : Bytes(s) \in 1 .. 4
BY DEF Sizes, Bytes

LEMMA CellsAre ==
  ASSUME NEW n \in 0 .. 4, NEW v \in Int
  PROVE  Cells(n, v) \in Seq(Nat)
<1>1. ASSUME NEW k \in 1 .. n PROVE (v \div Mod("byte") ^ (k - 1)) % Mod("byte") \in Nat
  <2> DEFINE b == Mod("byte")
             p == BytePow(b, k - 1)
  <2>1. b \in {16, 256} /\ k - 1 \in {0, 1, 2, 3}
    BY ModValues
  <2> HIDE DEF b
  <2>2. p \in Nat \ {0}
    BY <2>1, BytePowers
  <2>3. (v \div p) % b \in Nat
    <3> HIDE DEF p
    <3>1. v \div p \in Int
      BY <2>2, Divides
    <3>2. b \in Nat \ {0}
      BY <2>1
    <3> QED BY <3>1, <3>2, Divides
  <2> QED BY <2>3 DEF b, p, BytePow
<1> QED BY <1>1 DEF Cells

AnyOperand == AsmOperands \cup {None}

LEMMA OperandFields ==
  ASSUME NEW o \in AnyOperand
  PROVE  \/ o.kind = "none"
         \/ o.kind \in {"reg", "regptr"} /\ o.v \in Nat
         \/ o.kind \in {"imm", "immptr"} /\ o.v \in Nat
         \/ o.kind \in {"label", "labelptr"}
<1>1. CASE o \in [kind : {"reg", "regptr"}, v : Nat]
  BY <1>1
<1>2. CASE o \in [kind : {"imm", "immptr"}, v : Word]
  <2>1. o.kind \in {"imm", "immptr"} /\ o.v \in Word
    BY <1>2
  <2> DEFINE v == o.v
  <2>2. v \in Word
    BY <2>1
  <2> HIDE DEF v
  <2>3. v \in Nat
    <3>1. Word \subseteq Nat
      BY WordFacts, Zenon
    <3> QED BY <2>2, <3>1
  <2> QED BY <2>1, <2>3 DEF v
<1>3. CASE o \in [kind : {"label", "labelptr"}, v : STRING]
  BY <1>3
<1>4. CASE o = None
  BY <1>4 DEF None
<1> QED BY <1>1, <1>2, <1>3, <1>4 DEF AnyOperand, AsmOperands

LEMMA OperandCellsAre ==
  ASSUME NEW o \in AnyOperand, NEW s \in Sizes
  PROVE  /\ OperandCells(o, s) \in Seq(Nat)
         /\ IsLabel(o) => Len(OperandCells(o, s)) = Bytes(Field(o, s))
<1>1. CASE o.kind = "none"
  BY <1>1 DEF OperandCells, IsLabel
<1>2. CASE o.kind \in {"reg", "regptr"}
  <2>1. o.v \in Nat
    BY <1>2, OperandFields
  <2>2. OperandCells(o, s) = <<o.v>>
    BY <1>2 DEF OperandCells, IsLabel
  <2> QED BY <1>2, <2>1, <2>2 DEF IsLabel
<1>3. CASE o.kind = "imm"
  <2>1. o.v \in Int
    BY <1>3, OperandFields
  <2>2. OperandCells(o, s) = Cells(Bytes(s), Low(s, o.v))
    BY <1>3 DEF OperandCells, IsLabel
  <2>3. Low(s, o.v) \in Int /\ Bytes(s) \in 0 .. 4
    BY <2>1, LowRange, SizeFacts, BytesOfSize
  <2> QED BY <1>3, <2>2, <2>3, CellsAre DEF IsLabel
<1>4. CASE o.kind = "immptr"
  <2>1. o.v \in Int
    BY <1>4, OperandFields
  <2>2. OperandCells(o, s) = Cells(4, o.v)
    BY <1>4 DEF OperandCells, IsLabel
  <2> DEFINE v == o.v
  <2> HIDE DEF v
  <2>3. Cells(4, v) \in Seq(Nat)
    <3>1. v \in Int
      BY <2>1 DEF v
    <3>2. \A n \in 0 .. 4 : Cells(n, v) \in Seq(Nat)
      BY <3>1, CellsAre
    <3> QED BY <3>2
  <2> QED BY <1>4, <2>2, <2>3 DEF IsLabel, v
<1>5. CASE IsLabel(o)
  <2> DEFINE n == Bytes(Field(o, s))
  <2>1. OperandCells(o, s) = [k \in 1 .. n |-> 171 % Mod("byte")]
    BY <1>5 DEF OperandCells, IsLabel
  <2>2. n \in Nat
    BY BytesOfSize DEF Field, Sizes
  <2>3. 171 % Mod("byte") \in Nat
    BY ModValues
  <2> HIDE DEF n
  <2> QED BY <2>1, <2>2, <2>3 DEF n
<1> QED BY <1>1, <1>2, <1>3, <1>4, <1>5, OperandFields DEF IsLabel
-----------------------------------------------------------------------------
(* The inductive invariant of the assembler: where it stands in the        *)
(* source, what size the grammar's actions left, which places wait for an  *)
(* address and that each of them lies in the code.                         *)

LEMMA TargetOK ==
  ASSUME NEW src, NEW map, NEW end, PlacesOK(src, map, end),
         NEW o \in AnyOperand, NEW s \in Sizes, NEW index \in Nat, NEW relative \in BOOLEAN,
         address \in Nat, Len(code) \in Nat, Flat(src) => address = Len(code),
         IsLabel(o) => (Len(code) + index) + Bytes(Field(o, s)) <= end,
         IsLabel(o) /\ WordLabels(src) /\ ~ConstIn(src, o.v) => Field(o, s) = "word"
  PROVE  /\ PlacesOK(src, WithTarget(map, o, s, index, relative), end)
         /\ DOMAIN map \subseteq DOMAIN WithTarget(map, o, s, index, relative)
         /\ IsLabel(o) => o.v \in DOMAIN WithTarget(map, o, s, index, relative)
<1> DEFINE more == WithTarget(map, o, s, index, relative)
<1>1. more = WithTarget(map, o, s, index, relative)
  OBVIOUS
<1> HIDE DEF more
<1>2. CASE ~IsLabel(o)
  BY <1>2 DEF WithTarget, more
<1>3. CASE IsLabel(o)
  <2> DEFINE f == Field(o, s)
             p == [instruction |-> address, index |-> index, cell |-> Len(code) + index,
                   size |-> f, relative |-> relative]
  <2>1. f \in Sizes
    BY DEF Field, Sizes
  <2>2. more = With(map, o.v, Append(IF o.v \in DOMAIN map THEN map[o.v] ELSE <<>>, p))
    BY <1>1, <1>3 DEF WithTarget
  <2> HIDE DEF f
  <2>3. p \in Places
    BY <2>1 DEF Places
  <2>4. PlaceOK(src, o.v, p, end)
    <3>1. p.cell = Len(code) + index /\ p.size = f /\ p.instruction = address /\ p.index = index
      OBVIOUS
    <3> HIDE DEF p
    <3>2. p.cell + Bytes(p.size) <= end
      BY <1>3, <3>1 DEF f
    <3>3. Flat(src) => p.instruction + p.index = p.cell
      BY <3>1
    <3> QED BY <1>3, <3>1, <3>2, <3>3 DEF PlaceOK, f
  <2> DEFINE n == o.v
             old == IF n \in DOMAIN map THEN map[n] ELSE <<>>
  <2>5. more = With(map, n, Append(old, p)) /\ PlaceOK(src, n, p, end)
    BY <2>2, <2>4
  <2> HIDE DEF p, n
  <2>6. old = IF n \in DOMAIN map THEN map[n] ELSE <<>>
    OBVIOUS
  <2> HIDE DEF old
  <2>7. PlacesOK(src, more, end)
    BY <2>3, <2>5, <2>6, OnePlaceMore
  <2>8. DOMAIN more = DOMAIN map \cup {n}
    BY <2>5 DEF With
  <2> QED BY <2>7, <2>8 DEF n, more
<1> QED BY <1>2, <1>3

(* The last definition of n before statement i, and whether it is one of a *)
(* constant.                                                               *)
DefinedBefore(src, n, i, const) ==
  \E m \in 1 .. i - 1 :
    /\ Defines(src[m], n)
    /\ const <=> src[m].kind = "const"
    /\ \A j \in 1 .. i - 1 : Defines(src[j], n) => j <= m

(* The file that Write makes of an FXF program.                            *)
FxfFile == Header \o code \o FlattenSeq([k \in DOMAIN relocs |-> Cells(4, relocs[k])])

AsmTypeOK ==
  /\ source \in Seq(Statements)
  /\ line \in 1 .. Len(source) + 1
  /\ size \in Sizes /\ address \in Nat
  /\ code \in Seq(Nat) /\ relocs \in Seq(Nat)

(* Before the passes: includes are taken in.                               *)
NothingYet ==
  /\ line = 1 /\ size = "word" /\ address = 0
  /\ code = <<>> /\ relocs = <<>> /\ Names = {} /\ DOMAIN labels = {}

(* The inductive invariant of the assembler. *)
AsmInv ==
  /\ AsmTypeOK
  /\ stage = "include" => NothingYet
  /\ stage \in {"backpatch", "done"} => line = Len(source) + 1
  /\ Flat(source) => address = Len(code)
  /\ PlacesOK(source, targets, Len(code))
  /\ size = SizeBefore(source, line)
  /\ \A n \in DOMAIN labels : labels[n].at \in Nat /\ DefinedBefore(source, n, line, labels[n].const)
  /\ \A i \in 1 .. line - 1 : \A o \in LabelsOf(source[i]) :
       o.v \in Names \/ relocs # <<>> \/ ConstIn(source, o.v)
  /\ ForFxf(source) => \A k \in DOMAIN relocs : relocs[k] + 4 <= Len(code)
  /\ stage = "done" => Names = {} /\ (program.fxf => file = FxfFile)

LEMMA SizeFirst == \A src : SizeBefore(src, 1) = "word"
<1> TAKE src
<1>1. {j \in 1 .. 1 - 1 : SetsSize(src[j])} = {}
  OBVIOUS
<1> QED BY <1>1 DEF SizeBefore

LEMMA AsmInit == AssemblerInit => AsmInv
<1> SUFFICES ASSUME AssemblerInit PROVE AsmInv
  OBVIOUS
<1>1. source \in Seq(Statements) /\ stage = "include"
  BY AssemblerAssumption DEF AssemblerInit
<1>2. NothingYet
  BY DEF AssemblerInit, NothingYet, Names
<1>3. AsmTypeOK
  BY <1>1, <1>2 DEF AsmTypeOK, NothingYet, Sizes
<1>4. PlacesOK(source, targets, Len(code))
  BY <1>2 DEF NothingYet, Names, PlacesOK
<1>5. size = SizeBefore(source, line)
  BY <1>2, SizeFirst DEF NothingYet
<1>6. address = Len(code) /\ DOMAIN labels = {} /\ DOMAIN relocs = {} /\ \A i \in 1 .. line - 1 : FALSE
  BY <1>2 DEF NothingYet
<1> QED BY <1>1, <1>2, <1>3, <1>4, <1>5, <1>6 DEF AsmInv

LEMMA IncludeStep == AsmInv /\ Include => AsmInv'
<1> SUFFICES ASSUME AsmInv, Include PROVE AsmInv'
  OBVIOUS
<1>1. NothingYet /\ source \in Seq(Statements)
  BY DEF Include, AsmInv, AsmTypeOK
<1>2. NothingYet'
  BY <1>1 DEF Include, NothingYet, Names, output
<1>3. stage' \in {"include", "failed"}
  BY DEF Include
<1>4. source' \in Seq(Statements)
  <2> DEFINE i == Min(Includes)
             between == Files[source[i].file]
  <2>1. CASE source[i].file \in DOMAIN Files
    <3>1. source' = SubSeq(source, 1, i - 1) \o between \o SubSeq(source, i + 1, Len(source))
      BY <2>1 DEF Include
    <3>2. between \in Seq(Statements)
      BY <2>1, AssemblerAssumption
    <3>3. i \in DOMAIN source
      <4>1. Includes # {} /\ Includes \subseteq DOMAIN source /\ DOMAIN source \subseteq Nat
        BY <1>1 DEF Include, Includes
      <4>2. \E n \in Includes : \A m \in Includes : n <= m
        BY <4>1, Least
      <4>3. i \in Includes
        BY <4>2 DEF Min
      <4> QED BY <4>1, <4>3
    <3> HIDE DEF i, between
    <3>4. i \in 1 .. Len(source) /\ Len(source) \in Nat
      BY <1>1, <3>3
    <3>5. SubSeq(source, 1, i - 1) \in Seq(Statements) /\ SubSeq(source, i + 1, Len(source)) \in Seq(Statements)
      BY <1>1, <3>4
    <3> QED BY <3>1, <3>2, <3>5
  <2>2. CASE source[i].file \notin DOMAIN Files
    BY <1>1, <2>2 DEF Include
  <2> QED BY <2>1, <2>2
<1>5. AsmTypeOK'
  BY <1>2, <1>4 DEF AsmTypeOK, NothingYet, Sizes
<1>6. PlacesOK(source, targets, Len(code))'
  BY <1>2 DEF NothingYet, Names, PlacesOK
<1>7. (size = SizeBefore(source, line))'
  BY <1>2, SizeFirst DEF NothingYet
<1>8. (address = Len(code) /\ DOMAIN labels = {} /\ DOMAIN relocs = {} /\ \A i \in 1 .. line - 1 : FALSE)'
  BY <1>2 DEF NothingYet
<1> QED BY <1>2, <1>3, <1>5, <1>6, <1>7, <1>8 DEF AsmInv
-----------------------------------------------------------------------------
(* The steps over one statement each.                                      *)

LEMMA StatementFields ==
  ASSUME NEW l \in Statements
  PROVE  /\ l.kind = "op" => /\ l.size \in Sizes /\ l.src \in AnyOperand /\ l.dst \in AnyOperand
                             /\ l.cond \in Conds /\ l.op \in ZeroOps \cup OneOps \cup (TwoOps \ SignedOps)
         /\ l.kind = "data" => l.size \in Sizes /\ l.operand \in AnyOperand
         /\ l.kind = "blob" => l.cells \in Seq(Nat)
         /\ l.kind = "fill" => l.value \in AnyOperand /\ l.count \in AnyOperand
         /\ l.kind \in {"org", "const"} => l.operand \in AnyOperand
<1>1. CASE l \in InstructionsOf(ZeroOps, {None}, {None}) \cup InstructionsOf(OneOps, AsmOperands, {None})
                  \cup InstructionsOf(TwoOps \ SignedOps, AsmOperands, AsmOperands)
  BY <1>1 DEF AnyOperand, InstructionsOf
<1>2. CASE l \in [kind : {"data"}, size : Sizes, operand : AsmOperands]
  BY <1>2 DEF AnyOperand
<1>3. CASE l \in [kind : {"blob"}, cells : Seq(Nat)]
  BY <1>3
<1>4. CASE l \in [kind : {"fill"}, value : AsmOperands, count : AsmOperands]
  BY <1>4 DEF AnyOperand
<1>5. CASE l \in [kind : {"org"}, operand : AsmOperands, pad : BOOLEAN]
  BY <1>5 DEF AnyOperand
<1>6. CASE l \in [kind : {"label"}, name : STRING]
  BY <1>6
<1>7. CASE l \in [kind : {"const"}, name : STRING, operand : AsmOperands]
  BY <1>7 DEF AnyOperand
<1>8. CASE l \in [kind : {"include"}, file : STRING]
  BY <1>8
<1> QED BY <1>1, <1>2, <1>3, <1>4, <1>5, <1>6, <1>7, <1>8 DEF Statements

LEMMA OneMoreLine ==
  ASSUME NEW src, NEW n, NEW i \in Nat \ {0}
  PROVE  /\ \A const : DefinedBefore(src, n, i, const) /\ ~Defines(src[i], n) => DefinedBefore(src, n, i + 1, const)
         /\ Defines(src[i], n) => DefinedBefore(src, n, i + 1, src[i].kind = "const")
<1>1. \A j : j \in 1 .. (i + 1) - 1 <=> j \in 1 .. i - 1 \/ j = i
  OBVIOUS
<1>2. ASSUME NEW const, DefinedBefore(src, n, i, const), ~Defines(src[i], n)
      PROVE  DefinedBefore(src, n, i + 1, const)
  BY <1>1, <1>2 DEF DefinedBefore
<1>3. ASSUME Defines(src[i], n) PROVE DefinedBefore(src, n, i + 1, src[i].kind = "const")
  <2>1. i \in 1 .. (i + 1) - 1 /\ \A j \in 1 .. (i + 1) - 1 : j <= i
    OBVIOUS
  <2> QED BY <1>3, <2>1 DEF DefinedBefore
<1> QED BY <1>2, <1>3

Defining(l) == l.kind \in {"label", "const"}

LEMMA LineStep ==
  ASSUME AsmInv, stage = "assemble", line <= Len(source), Advance,
         NEW l, l = source[line],
         size' = IF SetsSize(l) THEN SizeOf(l) ELSE size, size' \in Sizes,
         code' \in Seq(Nat), Len(code) <= Len(code'), address' \in Nat, Flat(source) => address' = Len(code'),
         PlacesOK(source, targets', Len(code')), Names \subseteq DOMAIN targets',
         \A o \in LabelsOf(l) : o.v \in DOMAIN targets',
         \/ labels' = labels /\ ~Defining(l)
         \/ Defining(l) /\ \E at \in Nat : labels' = With(labels, l.name, [at |-> at, const |-> l.kind = "const"])
  PROVE  AsmInv'
<1>1. /\ source' = source /\ line' = line + 1 /\ stage' = "assemble" /\ relocs' = relocs
      /\ line \in 1 .. Len(source) /\ Len(source) \in Nat
  BY DEF Advance, input, AsmInv, AsmTypeOK
<1>2. AsmTypeOK'
  BY <1>1 DEF AsmInv, AsmTypeOK
<1>3. (size = SizeBefore(source, line))'
  <2>1. size = SizeBefore(source, line)
    BY DEF AsmInv
  <2> QED BY <1>1, <2>1, SizeAfter
<1>4. (\A n \in DOMAIN labels : labels[n].at \in Nat /\ DefinedBefore(source, n, line, labels[n].const))'
  <2> SUFFICES ASSUME NEW n \in DOMAIN labels'
               PROVE  labels'[n].at \in Nat /\ DefinedBefore(source, n, line + 1, labels'[n].const)
    BY <1>1
  <2>1. CASE labels' = labels /\ ~Defining(l)
    <3>1. labels[n].at \in Nat /\ DefinedBefore(source, n, line, labels[n].const) /\ ~Defines(source[line], n)
      BY <2>1 DEF AsmInv, Defining, Defines
    <3> QED BY <1>1, <2>1, <3>1, OneMoreLine
  <2>2. CASE Defining(l)
    <3>1. PICK at \in Nat : labels' = With(labels, l.name, [at |-> at, const |-> l.kind = "const"])
      BY <2>2
    <3>2. CASE n = l.name
      <4>1. labels'[n].at = at /\ labels'[n].const = (l.kind = "const")
        BY <3>1, <3>2 DEF With
      <4>2. Defines(source[line], n)
        BY <2>2, <3>2 DEF Defines, Defining
      <4> QED BY <1>1, <4>1, <4>2, OneMoreLine
    <3>3. CASE n # l.name
      <4>1. n \in DOMAIN labels /\ labels'[n] = labels[n]
        BY <3>1, <3>3 DEF With
      <4>2. labels[n].at \in Nat /\ DefinedBefore(source, n, line, labels[n].const) /\ ~Defines(source[line], n)
        BY <3>3, <4>1 DEF AsmInv, Defines
      <4> QED BY <1>1, <4>1, <4>2, OneMoreLine
    <3> QED BY <3>2, <3>3
  <2> QED BY <2>1, <2>2
<1>5. (\A i \in 1 .. line - 1 : \A o \in LabelsOf(source[i]) :
         o.v \in Names \/ relocs # <<>> \/ ConstIn(source, o.v))'
  <2> SUFFICES ASSUME NEW i \in 1 .. (line + 1) - 1, NEW o \in LabelsOf(source[i])
               PROVE  o.v \in DOMAIN targets' \/ relocs # <<>> \/ ConstIn(source, o.v)
    BY <1>1 DEF Names
  <2>1. CASE i = line
    BY <2>1
  <2>2. CASE i # line
    <3>1. i \in 1 .. line - 1
      BY <1>1, <2>2
    <3> QED BY <3>1 DEF AsmInv
  <2> QED BY <2>1, <2>2
<1>6. (ForFxf(source) => \A k \in DOMAIN relocs : relocs[k] + 4 <= Len(code))'
  <2> SUFFICES ASSUME ForFxf(source), NEW k \in DOMAIN relocs PROVE relocs[k] + 4 <= Len(code')
    BY <1>1
  <2>1. relocs \in Seq(Nat) /\ code \in Seq(Nat)
    BY DEF AsmInv, AsmTypeOK
  <2>2. relocs[k] + 4 <= Len(code)
    BY DEF AsmInv
  <2>3. relocs[k] \in Nat /\ Len(code) \in Nat /\ Len(code') \in Nat
    BY <2>1
  <2> QED BY <2>2, <2>3
<1> QED BY <1>1, <1>2, <1>3, <1>4, <1>5, <1>6 DEF AsmInv
-----------------------------------------------------------------------------
(* What the tables of the encoding hold, and the statements without cells. *)

(* The numbers of the encoding. *)
LEMMA OpcodesAre ==
  /\ \A c \in Conds : CondCode[c] \in Nat
  /\ \A s \in Sizes : SizeCode[s] \in Nat
  /\ \A k \in {"none", "reg", "regptr", "imm", "label", "immptr", "labelptr"} : OperandCode[k] \in Nat
  /\ \A op \in ZeroOps \cup OneOps \cup (TwoOps \ SignedOps) : OpCode[op] \in Nat
<1>1. \A c \in Conds : CondCode[c] \in Nat
  BY DEF Conds, CondCode
<1>2. \A s \in Sizes : SizeCode[s] \in Nat
  BY DEF Sizes, SizeCode
<1>3. \A k \in {"none", "reg", "regptr", "imm", "label", "immptr", "labelptr"} : OperandCode[k] \in Nat
  BY DEF OperandCode
<1>4. \A op \in ZeroOps : OpCode[op] \in Nat
  BY DEF OpCode, ZeroOps
<1>5. \A op \in OneOps : OpCode[op] \in Nat
  BY DEF OpCode, OneOps
<1>6. \A op \in TwoOps \ SignedOps : OpCode[op] \in Nat
  BY DEF OpCode, TwoOps, SignedOps, ShiftOps
<1> QED BY <1>1, <1>2, <1>3, <1>4, <1>5, <1>6

LEMMA OperandKinds ==
  ASSUME NEW o \in AnyOperand
  PROVE  o.kind \in {"none", "reg", "regptr", "imm", "label", "immptr", "labelptr"}
BY DEF AnyOperand, AsmOperands, None

LEMMA ReadingFacts ==
  ASSUME AsmInv, NEW k, Reading(k)
  PROVE  /\ stage = "assemble" /\ line <= Len(source) /\ line \in DOMAIN source /\ source[line].kind = k
         /\ ~Panics(source[line])
         /\ source[line] \in Statements /\ size \in Sizes /\ code \in Seq(Nat) /\ Len(code) \in Nat
         /\ address \in Nat /\ (Flat(source) => address = Len(code))
         /\ PlacesOK(source, targets, Len(code))
<1>1. /\ stage = "assemble" /\ line <= Len(source) /\ source[line].kind = k /\ ~Panics(source[line])
      /\ source \in Seq(Statements) /\ line \in 1 .. Len(source) + 1
      /\ size \in Sizes /\ code \in Seq(Nat) /\ address \in Nat
      /\ (Flat(source) => address = Len(code)) /\ PlacesOK(source, targets, Len(code))
  BY DEF Reading, AsmInv, AsmTypeOK
<1>2. line \in 1 .. Len(source)
  BY <1>1
<1>3. line \in DOMAIN source /\ source[line] \in Statements
  BY <1>1, <1>2
<1> QED BY <1>1, <1>3

LEMMA LabelStep == AsmInv /\ LabelDefine => AsmInv'
<1> SUFFICES ASSUME AsmInv, LabelDefine PROVE AsmInv'
  OBVIOUS
<1> DEFINE l == source[line]
<1>1. Reading("label") /\ size' = size /\ Advance /\ UNCHANGED <<address, code, targets>>
      /\ labels' = With(labels, l.name, [at |-> address, const |-> FALSE])
  BY DEF LabelDefine, Define
<1>2. stage = "assemble" /\ line <= Len(source) /\ l.kind = "label"
      /\ size \in Sizes /\ code \in Seq(Nat) /\ Len(code) \in Nat
      /\ address \in Nat /\ (Flat(source) => address = Len(code)) /\ PlacesOK(source, targets, Len(code))
  BY <1>1, ReadingFacts
<1>3. ~SetsSize(l) /\ LabelsOf(l) = {} /\ Defining(l) /\ (l.kind = "const") = FALSE
  BY <1>2 DEF SetsSize, LabelsOf, Defining
<1> HIDE DEF l
<1>4. \E at \in Nat : labels' = With(labels, l.name, [at |-> at, const |-> l.kind = "const"])
  BY <1>1, <1>2, <1>3
<1>5. l = source[line]
  BY DEF l
<1>6. size' = (IF SetsSize(l) THEN SizeOf(l) ELSE size) /\ size' \in Sizes
  BY <1>1, <1>2, <1>3
<1>7. /\ code' \in Seq(Nat) /\ Len(code) <= Len(code') /\ address' \in Nat /\ (Flat(source) => address' = Len(code'))
      /\ PlacesOK(source, targets', Len(code')) /\ Names \subseteq DOMAIN targets'
      /\ \A o \in LabelsOf(l) : o.v \in DOMAIN targets'
  BY <1>1, <1>2, <1>3 DEF Names
<1> QED BY <1>1, <1>2, <1>3, <1>4, <1>5, <1>6, <1>7, LineStep

LEMMA ConstantStep == AsmInv /\ Constant => AsmInv'
<1> SUFFICES ASSUME AsmInv, Constant PROVE AsmInv'
  OBVIOUS
<1> DEFINE l == source[line]
<1>1. Reading("const") /\ size' = "word" /\ Advance /\ UNCHANGED <<address, code, targets>>
      /\ labels' = With(labels, l.name, [at |-> l.operand.v, const |-> TRUE])
  BY DEF Constant, Define
<1>2. stage = "assemble" /\ line <= Len(source) /\ l.kind = "const" /\ l \in Statements /\ ~Panics(l)
      /\ size \in Sizes /\ code \in Seq(Nat) /\ Len(code) \in Nat
      /\ address \in Nat /\ (Flat(source) => address = Len(code)) /\ PlacesOK(source, targets, Len(code))
  BY <1>1, ReadingFacts
<1>3. SetsSize(l) /\ SizeOf(l) = "word" /\ LabelsOf(l) = {} /\ Defining(l) /\ (l.kind = "const") = TRUE
  BY <1>2 DEF SetsSize, SizeOf, LabelsOf, Defining
<1>4. l.operand.v \in Nat
  <2>1. l.operand \in AnyOperand
    BY <1>2, StatementFields
  <2>2. l.operand.kind = "imm"
    BY <1>2 DEF Panics
  <2> QED BY <2>1, <2>2, OperandFields
<1> HIDE DEF l
<1>5. \E at \in Nat : labels' = With(labels, l.name, [at |-> at, const |-> l.kind = "const"])
  BY <1>1, <1>3, <1>4
<1>6. l = source[line]
  BY DEF l
<1>7. size' = (IF SetsSize(l) THEN SizeOf(l) ELSE size) /\ size' \in Sizes
  BY <1>1, <1>3 DEF Sizes
<1>8. /\ code' \in Seq(Nat) /\ Len(code) <= Len(code') /\ address' \in Nat /\ (Flat(source) => address' = Len(code'))
      /\ PlacesOK(source, targets', Len(code')) /\ Names \subseteq DOMAIN targets'
      /\ \A o \in LabelsOf(l) : o.v \in DOMAIN targets'
  BY <1>1, <1>2, <1>3 DEF Names
<1> QED BY <1>1, <1>2, <1>3, <1>5, <1>6, <1>7, <1>8, LineStep
-----------------------------------------------------------------------------
(* The statements that are data or room.                                   *)

LEMMA EmitStep ==
  ASSUME AsmInv, NEW l, l = source[line], stage = "assemble", line <= Len(source),
         NEW cells \in Seq(Nat), NEW refs, Emit(cells, refs), ~Defining(l),
         size' = IF SetsSize(l) THEN SizeOf(l) ELSE size, size' \in Sizes,
         PlacesOK(source, refs, Len(code) + Len(cells)), Names \subseteq DOMAIN refs,
         \A o \in LabelsOf(l) : o.v \in DOMAIN refs
  PROVE  AsmInv'
<1>1. /\ code' = code \o cells /\ targets' = refs /\ address' = address + Len(cells)
      /\ Advance /\ labels' = labels
  BY DEF Emit
<1>2. code \in Seq(Nat) /\ address \in Nat /\ (Flat(source) => address = Len(code)) /\ Len(cells) \in Nat
  BY DEF AsmInv, AsmTypeOK
<1>3. code' \in Seq(Nat) /\ Len(code') = Len(code) + Len(cells) /\ Len(code) \in Nat
  BY <1>1, <1>2
<1>4. Len(code) <= Len(code') /\ address' \in Nat /\ (Flat(source) => address' = Len(code'))
  <2> DEFINE n == Len(code)
             m == Len(cells)
             n2 == Len(code')
  <2>1. n \in Nat /\ m \in Nat /\ n2 = n + m /\ address' = address + m /\ (Flat(source) => address = n)
    BY <1>1, <1>2, <1>3
  <2> HIDE DEF n, m, n2
  <2>2. n <= n2 /\ address' \in Nat
    BY <1>2, <2>1
  <2>3. Flat(source) => address' = n2
    BY <2>1
  <2> QED BY <2>2, <2>3 DEF n, n2
<1>5. PlacesOK(source, targets', Len(code'))
  BY <1>1, <1>3
<1> QED BY <1>1, <1>3, <1>4, <1>5, LineStep

LEMMA Difference ==
  ASSUME NEW a \in Nat, NEW b \in Nat, a <= b
  PROVE  b - a \in Nat /\ a + (b - a) = b
OBVIOUS

LEMMA OriginStep == AsmInv /\ Origin => AsmInv'
<1> SUFFICES ASSUME AsmInv, Origin PROVE AsmInv'
  OBVIOUS
<1> DEFINE l == source[line]
           pad == IF l.pad THEN [k \in 1 .. address' - address |-> 0] ELSE <<>>
<1>1. Reading("org") /\ size' = size /\ Advance /\ UNCHANGED <<labels, targets>>
      /\ address' = l.operand.v /\ code' = code \o pad
  BY DEF Origin
<1>2. stage = "assemble" /\ line <= Len(source) /\ line \in DOMAIN source /\ l.kind = "org" /\ l \in Statements /\ ~Panics(l)
      /\ size \in Sizes /\ code \in Seq(Nat) /\ Len(code) \in Nat
      /\ address \in Nat /\ (Flat(source) => address = Len(code)) /\ PlacesOK(source, targets, Len(code))
  BY <1>1, ReadingFacts
<1>3. ~SetsSize(l) /\ LabelsOf(l) = {} /\ ~Defining(l)
  BY <1>2 DEF SetsSize, LabelsOf, Defining
<1>4. address' \in Nat /\ address < address'
  <2>1. l.operand \in AnyOperand
    BY <1>2, StatementFields
  <2>2. l.operand.kind = "imm" /\ ~(l.operand.v <= address)
    BY <1>2 DEF Panics, Immediate32
  <2>3. l.operand.v \in Nat
    BY <2>1, <2>2, OperandFields
  <2> QED BY <1>1, <1>2, <2>2, <2>3
<1>5. Flat(source) => l.pad
  BY <1>2 DEF Flat
<1> HIDE DEF l
<1>6. pad \in Seq(Nat) /\ (Flat(source) => Len(pad) = address' - address) /\ Len(pad) \in Nat
  <2> DEFINE n == address' - address
             zeros == [k \in 1 .. n |-> 0]
  <2>1. n \in Nat
    <3>1. address \in Nat /\ address <= address'
      BY <1>2, <1>4
    <3> QED BY <1>4, <3>1, Difference
  <2>2. pad = IF l.pad THEN zeros ELSE <<>>
    OBVIOUS
  <2> HIDE DEF n
  <2>3. zeros \in Seq(Nat) /\ Len(zeros) = n
    BY <2>1
  <2> HIDE DEF zeros, pad
  <2>4. CASE l.pad
    <3>1. pad = zeros
      BY <2>2, <2>4
    <3> QED BY <2>1, <2>3, <3>1 DEF n
  <2>5. CASE ~l.pad
    <3>1. pad = <<>> /\ ~Flat(source)
      BY <1>5, <2>2, <2>5
    <3> QED BY <3>1
  <2> QED BY <2>4, <2>5
<1> HIDE DEF pad
<1>7. code' \in Seq(Nat) /\ Len(code') = Len(code) + Len(pad)
  BY <1>1, <1>2, <1>6
<1>8. Len(code) <= Len(code') /\ (Flat(source) => address' = Len(code'))
  <2> DEFINE n == Len(code)
             m == Len(pad)
             n2 == Len(code')
  <2>1. n \in Nat /\ m \in Nat /\ n2 = n + m
    BY <1>2, <1>6, <1>7
  <2>2. Flat(source) => m = address' - address /\ address = n
    BY <1>2, <1>6
  <2> HIDE DEF n, m, n2
  <2>3. n <= n2
    BY <2>1
  <2>4. Flat(source) => address' = n2
    <3>1. address \in Nat /\ address <= address'
      BY <1>2, <1>4
    <3>2. address + (address' - address) = address'
      BY <1>4, <3>1, Difference
    <3> QED BY <2>1, <2>2, <3>2
  <2> QED BY <2>3, <2>4 DEF n, n2
<1>9. PlacesOK(source, targets', Len(code'))
  <2>1. Len(code') \in Nat
    BY <1>7
  <2> QED BY <1>1, <1>2, <1>8, <2>1, MorePlaces
<1>10. l = source[line]
  BY DEF l
<1>11. size' = (IF SetsSize(l) THEN SizeOf(l) ELSE size) /\ size' \in Sizes
  BY <1>1, <1>2, <1>3
<1>12. Names \subseteq DOMAIN targets' /\ \A o \in LabelsOf(l) : o.v \in DOMAIN targets'
  BY <1>1, <1>3 DEF Names
<1> QED BY <1>1, <1>2, <1>3, <1>4, <1>7, <1>8, <1>9, <1>10, <1>11, <1>12, LineStep

LEMMA BlobStep == AsmInv /\ Blob => AsmInv'
<1> SUFFICES ASSUME AsmInv, Blob PROVE AsmInv'
  OBVIOUS
<1> DEFINE l == source[line]
           cells == l.cells
<1>1. Reading("blob") /\ size' = size /\ Emit(cells, targets)
  BY DEF Blob
<1>2. stage = "assemble" /\ line <= Len(source) /\ l.kind = "blob" /\ l \in Statements
      /\ size \in Sizes /\ Len(code) \in Nat /\ PlacesOK(source, targets, Len(code))
  BY <1>1, ReadingFacts
<1>3. ~SetsSize(l) /\ LabelsOf(l) = {} /\ ~Defining(l)
  BY <1>2 DEF SetsSize, LabelsOf, Defining
<1>4. cells \in Seq(Nat)
  BY <1>2, StatementFields
<1>5. l = source[line]
  OBVIOUS
<1> HIDE DEF l, cells
<1>6. PlacesOK(source, targets, Len(code) + Len(cells))
  BY <1>2, <1>4, MorePlaces
<1>7. size' = (IF SetsSize(l) THEN SizeOf(l) ELSE size) /\ size' \in Sizes
  BY <1>1, <1>2, <1>3
<1>8. Names \subseteq DOMAIN targets /\ \A o \in LabelsOf(l) : o.v \in DOMAIN targets
  BY <1>3 DEF Names
<1> QED BY <1>1, <1>2, <1>3, <1>4, <1>5, <1>6, <1>7, <1>8, EmitStep

LEMMA FillStep == AsmInv /\ Fill => AsmInv'
<1> SUFFICES ASSUME AsmInv, Fill PROVE AsmInv'
  OBVIOUS
<1> DEFINE l == source[line]
           cells == [k \in 1 .. l.count.v |-> Low("byte", l.value.v)]
<1>1. Reading("fill") /\ size' = size /\ Emit(cells, targets)
  BY DEF Fill
<1>2. stage = "assemble" /\ line <= Len(source) /\ l.kind = "fill" /\ l \in Statements /\ ~Panics(l)
      /\ size \in Sizes /\ Len(code) \in Nat /\ PlacesOK(source, targets, Len(code))
  BY <1>1, ReadingFacts
<1>3. ~SetsSize(l) /\ LabelsOf(l) = {} /\ ~Defining(l)
  BY <1>2 DEF SetsSize, LabelsOf, Defining
<1>4. cells \in Seq(Nat)
  <2>1. l.value \in AnyOperand /\ l.count \in AnyOperand
    BY <1>2, StatementFields
  <2>2. l.value.kind = "imm" /\ l.count.kind = "imm"
    BY <1>2 DEF Panics, Immediate32
  <2> DEFINE v == l.value.v
             n == l.count.v
  <2>3. v \in Nat /\ n \in Nat
    BY <2>1, <2>2, OperandFields
  <2>4. cells = [k \in 1 .. n |-> Low("byte", v)]
    OBVIOUS
  <2> HIDE DEF v, n, cells
  <2>5. Low("byte", v) \in Nat
    <3>1. Low("byte", v) \in 0 .. Mod("byte") - 1
      BY <2>3, LowRange, WordSize
    <3> QED BY <3>1
  <2> QED BY <2>3, <2>4, <2>5
<1>5. l = source[line]
  OBVIOUS
<1> HIDE DEF l, cells
<1>6. PlacesOK(source, targets, Len(code) + Len(cells))
  BY <1>2, <1>4, MorePlaces
<1>7. size' = (IF SetsSize(l) THEN SizeOf(l) ELSE size) /\ size' \in Sizes
  BY <1>1, <1>2, <1>3
<1>8. Names \subseteq DOMAIN targets /\ \A o \in LabelsOf(l) : o.v \in DOMAIN targets
  BY <1>3 DEF Names
<1> QED BY <1>1, <1>2, <1>3, <1>4, <1>5, <1>6, <1>7, <1>8, EmitStep

LEMMA DataStep == AsmInv /\ Data => AsmInv'
<1> SUFFICES ASSUME AsmInv, Data PROVE AsmInv'
  OBVIOUS
<1> DEFINE l == source[line]
           o == l.operand
           s == IF IsLabel(o) THEN size ELSE l.size
           cells == OperandCells(o, s)
           refs == WithTarget(targets, o, s, 0, FALSE)
<1>1. Reading("data") /\ size' = size /\ Emit(cells, refs)
  BY DEF Data
<1>2. stage = "assemble" /\ line <= Len(source) /\ line \in DOMAIN source /\ l.kind = "data" /\ l \in Statements /\ ~Panics(l)
      /\ size \in Sizes /\ code \in Seq(Nat) /\ Len(code) \in Nat
      /\ address \in Nat /\ (Flat(source) => address = Len(code)) /\ PlacesOK(source, targets, Len(code))
  BY <1>1, ReadingFacts
<1>3. ~SetsSize(l) /\ LabelsOf(l) \subseteq {o} /\ (\A x \in LabelsOf(l) : IsLabel(x)) /\ ~Defining(l)
  BY <1>2 DEF SetsSize, LabelsOf, Defining
<1>4. o \in AnyOperand /\ s \in Sizes /\ l = source[line]
  BY <1>2, StatementFields
<1>5. IsLabel(o) /\ WordLabels(source) => Field(o, s) = "word"
  <2> SUFFICES ASSUME IsLabel(o), WordLabels(source) PROVE Field(o, s) = "word"
    OBVIOUS
  <2>1. SizeBefore(source, line) = "word"
    BY <1>2 DEF WordLabels
  <2> QED BY <2>1 DEF AsmInv, Field
<1>6. refs = WithTarget(targets, o, s, 0, FALSE)
  OBVIOUS
<1>7. cells \in Seq(Nat) /\ (IsLabel(o) => Len(cells) = Bytes(Field(o, s)))
  <2> HIDE DEF l, o, s
  <2> QED BY <1>4, OperandCellsAre
<1> HIDE DEF l, o, s, cells, refs
<1> DEFINE end == Len(code) + Len(cells)
<1>8. PlacesOK(source, targets, end) /\ (IsLabel(o) => (Len(code) + 0) + Bytes(Field(o, s)) <= end)
  <2>1. end \in Nat /\ Len(code) <= end /\ Len(cells) \in Nat
    BY <1>2, <1>7
  <2>2. PlacesOK(source, targets, end)
    <3> HIDE DEF end
    <3> QED BY <1>2, <2>1, MorePlaces
  <2> QED BY <1>2, <1>7, <2>1, <2>2
<1>9. /\ PlacesOK(source, refs, end) /\ Names \subseteq DOMAIN refs
      /\ IsLabel(o) => o.v \in DOMAIN refs
  <2> HIDE DEF end
  <2>1. 0 \in Nat /\ FALSE \in BOOLEAN
    OBVIOUS
  <2> QED BY <1>2, <1>4, <1>5, <1>6, <1>8, <2>1, TargetOK DEF Names
<1>10. size' = (IF SetsSize(l) THEN SizeOf(l) ELSE size) /\ size' \in Sizes
  BY <1>1, <1>2, <1>3
<1>11. \A x \in LabelsOf(l) : x.v \in DOMAIN refs
  BY <1>3, <1>9
<1> QED BY <1>1, <1>2, <1>3, <1>4, <1>7, <1>9, <1>10, <1>11, EmitStep
-----------------------------------------------------------------------------
(* The instructions.                                                       *)

LEMMA OpCells ==
  ASSUME NEW l \in Statements, l.kind = "op"
  PROVE  /\ InstructionCells(l) \in Seq(Nat)
         /\ Len(InstructionCells(l)) = 2 + Len(OperandCells(l.src, l.size)) + Len(OperandCells(l.dst, l.size))
<1> DEFINE a == CondCode[l.cond] + OperandCode[l.src.kind] + 4 * OperandCode[l.dst.kind]
           b == OpCode[l.op] + SizeCode[l.size]
           x == OperandCells(l.src, l.size)
           y == OperandCells(l.dst, l.size)
<1>1. /\ l.size \in Sizes /\ l.src \in AnyOperand /\ l.dst \in AnyOperand
      /\ l.cond \in Conds /\ l.op \in ZeroOps \cup OneOps \cup (TwoOps \ SignedOps)
  BY StatementFields
<1>2. a \in Nat
  <2>1. CondCode[l.cond] \in Nat /\ OperandCode[l.src.kind] \in Nat /\ OperandCode[l.dst.kind] \in Nat
    BY <1>1, OpcodesAre, OperandKinds
  <2> QED BY <2>1
<1>3. b \in Nat
  <2>1. OpCode[l.op] \in Nat /\ SizeCode[l.size] \in Nat
    BY <1>1, OpcodesAre
  <2> QED BY <2>1
<1>4. x \in Seq(Nat) /\ y \in Seq(Nat)
  BY <1>1, OperandCellsAre
<1>5. InstructionCells(l) = <<a, b>> \o x \o y
  BY DEF InstructionCells
<1> HIDE DEF a, b, x, y
<1>6. <<a, b>> \in Seq(Nat) /\ Len(<<a, b>>) = 2
  BY <1>2, <1>3
<1>7. <<a, b>> \o x \in Seq(Nat) /\ Len(<<a, b>> \o x) = 2 + Len(x)
  BY <1>4, <1>6
<1>8. (<<a, b>> \o x) \o y \in Seq(Nat) /\ Len((<<a, b>> \o x) \o y) = 2 + Len(x) + Len(y)
  BY <1>4, <1>7
<1> QED BY <1>5, <1>8 DEF x, y

LEMMA InstructionStep == AsmInv /\ Instruction => AsmInv'
<1> SUFFICES ASSUME AsmInv, Instruction PROVE AsmInv'
  OBVIOUS
<1> DEFINE l == source[line]
           cells == InstructionCells(l)
           src == l.src
           dst == l.dst
           s == l.size
           rel == l.op \in Relatives
           x == OperandCells(src, s)
           y == OperandCells(dst, s)
           once == WithTarget(targets, src, s, 2, rel)
           refs == WithTarget(once, dst, s, 2 + Len(x), rel)
<1>1. /\ Reading("op") /\ Emit(cells, refs)
      /\ size' = IF l.op \in ZeroOps THEN size ELSE l.size
  BY DEF Instruction, InstructionTargets
<1>2. stage = "assemble" /\ line <= Len(source) /\ line \in DOMAIN source /\ l.kind = "op" /\ l \in Statements
      /\ size \in Sizes /\ code \in Seq(Nat) /\ Len(code) \in Nat
      /\ address \in Nat /\ (Flat(source) => address = Len(code)) /\ PlacesOK(source, targets, Len(code))
  BY <1>1, ReadingFacts
<1>3. /\ SetsSize(l) <=> l.op \notin ZeroOps
      /\ SizeOf(l) = l.size /\ ~Defining(l)
      /\ \A o : o \in LabelsOf(l) <=> o \in {src, dst} /\ IsLabel(o)
  BY <1>2 DEF SetsSize, SizeOf, LabelsOf, Defining
<1>4. src \in AnyOperand /\ dst \in AnyOperand /\ s \in Sizes /\ l = source[line]
  BY <1>2, StatementFields
<1>5. \A o \in LabelsOf(l) : WordLabels(source) => ConstIn(source, o.v) \/ Field(o, s) = "word"
  BY <1>2 DEF WordLabels
<1>6. /\ once = WithTarget(targets, src, s, 2, rel) /\ refs = WithTarget(once, dst, s, 2 + Len(x), rel)
      /\ rel \in BOOLEAN
  OBVIOUS
<1>7. cells \in Seq(Nat) /\ Len(cells) = 2 + Len(x) + Len(y)
  BY <1>2, OpCells
<1>8. /\ x \in Seq(Nat) /\ (IsLabel(src) => Len(x) = Bytes(Field(src, s)))
      /\ y \in Seq(Nat) /\ (IsLabel(dst) => Len(y) = Bytes(Field(dst, s)))
  <2> HIDE DEF l, src, dst, s
  <2> QED BY <1>4, OperandCellsAre
<1>9. size' = (IF SetsSize(l) THEN SizeOf(l) ELSE size) /\ size' \in Sizes
  BY <1>1, <1>2, <1>3, <1>4
<1> HIDE DEF l, src, dst, s, rel, x, y, cells, once, refs
<1> DEFINE end == Len(code) + Len(cells)
           n == Len(code)
           p == Len(x)
           q == Len(y)
<1>10. n \in Nat /\ p \in Nat /\ q \in Nat /\ end = n + (2 + p + q) /\ end \in Nat
  BY <1>2, <1>7, <1>8
<1>11. /\ n <= end
       /\ IsLabel(src) => (n + 2) + Bytes(Field(src, s)) <= end
       /\ IsLabel(dst) => (n + (2 + p)) + Bytes(Field(dst, s)) <= end
       /\ 2 \in Nat /\ 2 + p \in Nat
  <2>1. (IsLabel(src) => p = Bytes(Field(src, s))) /\ (IsLabel(dst) => q = Bytes(Field(dst, s)))
    BY <1>8
  <2> HIDE DEF n, p, q, end
  <2>2. n <= end /\ (n + 2) + p <= end /\ (n + (2 + p)) + q <= end /\ 2 + p \in Nat
    BY <1>10
  <2> QED BY <2>1, <2>2
<1>12. PlacesOK(source, targets, end)
  <2>1. n <= end /\ end \in Nat /\ n \in Nat /\ PlacesOK(source, targets, n)
    BY <1>2, <1>10, <1>11
  <2> HIDE DEF n, end
  <2> QED BY <2>1, MorePlaces
<1>13. PlacesOK(source, once, end) /\ Names \subseteq DOMAIN once /\ (IsLabel(src) => src.v \in DOMAIN once)
  <2>1. IsLabel(src) /\ WordLabels(source) /\ ~ConstIn(source, src.v) => Field(src, s) = "word"
    BY <1>3, <1>5
  <2>2. IsLabel(src) => (Len(code) + 2) + Bytes(Field(src, s)) <= end
    BY <1>11
  <2> HIDE DEF end, n, p, q
  <2> QED BY <1>2, <1>4, <1>6, <1>11, <1>12, <2>1, <2>2, TargetOK DEF Names
<1>14. PlacesOK(source, refs, end) /\ DOMAIN once \subseteq DOMAIN refs /\ (IsLabel(dst) => dst.v \in DOMAIN refs)
  <2>1. IsLabel(dst) /\ WordLabels(source) /\ ~ConstIn(source, dst.v) => Field(dst, s) = "word"
    BY <1>3, <1>5
  <2>2. IsLabel(dst) => (Len(code) + (2 + Len(x))) + Bytes(Field(dst, s)) <= end
    BY <1>11
  <2>3. 2 + Len(x) \in Nat
    BY <1>11
  <2> HIDE DEF end, n, p, q
  <2> QED BY <1>2, <1>4, <1>6, <1>13, <2>1, <2>2, <2>3, TargetOK
<1>15. Names \subseteq DOMAIN refs /\ \A o \in LabelsOf(l) : o.v \in DOMAIN refs
  BY <1>3, <1>13, <1>14
<1> QED BY <1>1, <1>2, <1>3, <1>4, <1>7, <1>9, <1>14, <1>15, EmitStep
-----------------------------------------------------------------------------
LEMMA StageStep ==
  ASSUME AsmInv, UNCHANGED <<input, line, size, address, output, relocs, file>>,
         stage' \notin {"include", "done"}, stage' = "backpatch" => line = Len(source) + 1
  PROVE  AsmInv'
<1>1. UNCHANGED <<program, source, line, size, address, code, labels, targets, relocs, file>>
  BY DEF input, output
<1>2. AsmTypeOK'
  BY <1>1 DEF AsmInv, AsmTypeOK
<1>3. PlacesOK(source, targets, Len(code))'
  BY <1>1 DEF AsmInv
<1>4. (Names = Names)' /\ Names' = Names
  BY <1>1 DEF Names
<1> QED BY <1>1, <1>2, <1>3, <1>4 DEF AsmInv

LEMMA StageSteps == AsmInv /\ (Included \/ Panic \/ Assembled) => AsmInv'
<1> SUFFICES ASSUME AsmInv, Included \/ Panic \/ Assembled PROVE AsmInv'
  OBVIOUS
<1>1. CASE Included \/ Panic
  BY <1>1, StageStep DEF Included, Panic
<1>2. CASE Assembled
  <2>1. line > Len(source) /\ line \in 1 .. Len(source) + 1 /\ source \in Seq(Statements)
    BY <1>2 DEF Assembled, AsmInv, AsmTypeOK
  <2>2. line = Len(source) + 1
    BY <2>1
  <2> QED BY <1>2, <2>2, StageStep DEF Assembled
<1> QED BY <1>1, <1>2
-----------------------------------------------------------------------------
(* The second pass: every place is patched and, if it is not of a          *)
(* constant, put in the table of relocations.                              *)

LEMMA ConstLabel ==
  ASSUME NEW src \in Seq(Statements), NEW n, NEW const, DefinedBefore(src, n, Len(src) + 1, const)
  PROVE  const <=> ConstIn(src, n)
<1> DEFINE S == {i \in DOMAIN src : Defines(src[i], n)}
<1>1. PICK m \in 1 .. (Len(src) + 1) - 1 :
        /\ Defines(src[m], n)
        /\ const <=> src[m].kind = "const"
        /\ \A j \in 1 .. (Len(src) + 1) - 1 : Defines(src[j], n) => j <= m
  BY DEF DefinedBefore
<1>2. DOMAIN src = 1 .. (Len(src) + 1) - 1 /\ DOMAIN src \subseteq Int
  OBVIOUS
<1>3. S \subseteq Int /\ m \in S /\ \A j \in S : j <= m
  BY <1>1, <1>2
<1>4. Max(S) = m
  <2> HIDE DEF S
  <2> QED BY <1>3, MaxIs
<1>5. ConstIn(src, n) <=> src[Max(S)].kind = "const"
  BY DEF ConstIn
<1> HIDE DEF S
<1> QED BY <1>1, <1>4, <1>5

LEMMA Inside ==
  ASSUME NEW x \in Nat, NEW b \in 1 .. 4, NEW c \in Nat, c \in x + 1 .. x + b
  PROVE  c - x \in 1 .. 4
OBVIOUS

LEMMA WordCells == \A v \in Int : Cells(4, v) \in Seq(Nat) /\ Len(Cells(4, v)) = 4
<1> SUFFICES ASSUME NEW v \in Int PROVE Cells(4, v) \in Seq(Nat) /\ Len(Cells(4, v)) = 4
  OBVIOUS
<1>1. \A n \in 0 .. 4 : Cells(n, v) \in Seq(Nat)
  BY CellsAre
<1>2. 4 \in 0 .. 4 /\ 4 \in Nat
  OBVIOUS
<1> QED BY <1>1, <1>2, AtLeastCells

LEMMA PatchedCode ==
  ASSUME code \in Seq(Nat), NEW n, targets[n] \in Seq(Places), NEW a \in Nat
  PROVE  Patched(n, a) \in Seq(Nat) /\ Len(Patched(n, a)) = Len(code)
<1> DEFINE hit(c) == {t \in Range(targets[n]) : c \in t.cell + 1 .. t.cell + Bytes(t.size)}
           e(c) == IF hit(c) = {} THEN code[c]
                   ELSE LET t == CHOOSE t \in hit(c) : TRUE IN Cells(4, Distance(t, a))[c - t.cell]
<1>1. Patched(n, a) = [c \in DOMAIN code |-> e(c)]
  BY DEF Patched
<1>2. DOMAIN code = 1 .. Len(code) /\ Len(code) \in Nat
  OBVIOUS
<1>3. ASSUME NEW c \in DOMAIN code PROVE e(c) \in Nat
  <2>1. CASE hit(c) = {}
    BY <2>1
  <2>2. CASE hit(c) # {}
    <3> DEFINE t == CHOOSE t \in hit(c) : TRUE
               j == c - t.cell
    <3>1. t \in hit(c)
      BY <2>2
    <3>2. t \in Range(targets[n]) /\ c \in t.cell + 1 .. t.cell + Bytes(t.size)
      BY <3>1
    <3>3. e(c) = Cells(4, Distance(t, a))[j]
      BY <2>2
    <3> HIDE DEF t
    <3>4. t \in Places
      BY <3>2 DEF Range
    <3>5. t.cell \in Nat /\ t.size \in Sizes /\ t.instruction \in Nat
      BY <3>4 DEF Places
    <3>6. j \in 1 .. 4
      <4>1. Bytes(t.size) \in 1 .. 4
        BY <3>5, BytesOfSize
      <4>2. c \in Nat
        BY <1>2
      <4> QED BY <3>2, <3>5, <4>1, <4>2, Inside
    <3>7. Distance(t, a) \in Int
      <4>1. CASE t.relative
        <5>1. a - t.instruction \in Int
          BY <3>5
        <5>2. (a - t.instruction) % Mod("word") \in 0 .. Mod("word") - 1
          BY <5>1, SizeFacts, WordSize, Divides
        <5> QED BY <4>1, <5>2 DEF Distance
      <4>2. CASE ~t.relative
        BY <4>2 DEF Distance
      <4> QED BY <4>1, <4>2
    <3> DEFINE v == Distance(t, a)
    <3>8. v \in Int /\ e(c) = Cells(4, v)[j]
      BY <3>3, <3>7
    <3> HIDE DEF v, j, e
    <3>9. Cells(4, v) \in Seq(Nat) /\ Len(Cells(4, v)) = 4
      BY <3>8, WordCells
    <3>10. Cells(4, v)[j] \in Nat
      BY <3>6, <3>9
    <3> QED BY <3>8, <3>10
  <2> QED BY <2>1, <2>2
<1> HIDE DEF e
<1>4. [c \in 1 .. Len(code) |-> e(c)] \in Seq(Nat) /\ Len([c \in 1 .. Len(code) |-> e(c)]) = Len(code)
  BY <1>2, <1>3
<1> QED BY <1>1, <1>2, <1>4

LEMMA BackpatchStep == \A n \in Names : AsmInv /\ Backpatch(n) => AsmInv'
<1> SUFFICES ASSUME NEW n \in Names, AsmInv, Backpatch(n) PROVE AsmInv'
  OBVIOUS
<1>1. stage = "backpatch" /\ line = Len(source) + 1 /\ source \in Seq(Statements)
  BY DEF Backpatch, AsmInv, AsmTypeOK
<1>2. CASE n \notin DOMAIN labels
  BY <1>2, StageStep DEF Backpatch, output
<1>3. CASE n \in DOMAIN labels
  <2> DEFINE new == IF labels[n].const THEN <<>>
                    ELSE [k \in DOMAIN targets[n] |-> targets[n][k].instruction + targets[n][k].index]
  <2>1. /\ UNCHANGED <<program, source, line, size, address, labels, file, stage>>
        /\ code' = Patched(n, labels[n].at)
        /\ relocs' = relocs \o new
        /\ targets' = [m \in Names \ {n} |-> targets[m]]
    BY <1>3 DEF Backpatch, input
  <2>2. /\ targets[n] \in Seq(Places) /\ targets[n] # <<>>
        /\ \A i \in DOMAIN targets[n] : PlaceOK(source, n, targets[n][i], Len(code))
    BY DEF AsmInv, PlacesOK, Names
  <2>3. labels[n].at \in Nat /\ (labels[n].const <=> ConstIn(source, n))
    <3>1. DefinedBefore(source, n, Len(source) + 1, labels[n].const) /\ labels[n].at \in Nat
      BY <1>1, <1>3 DEF AsmInv
    <3> QED BY <1>1, <3>1, ConstLabel
  <2>4. code \in Seq(Nat) /\ relocs \in Seq(Nat)
    BY DEF AsmInv, AsmTypeOK
  <2>5. code' \in Seq(Nat) /\ Len(code') = Len(code)
    BY <2>1, <2>2, <2>3, <2>4, PatchedCode
  <2>6. /\ new \in Seq(Nat)
        /\ ConstIn(source, n) \/ new # <<>>
        /\ ForFxf(source) => \A k \in DOMAIN new : new[k] + 4 <= Len(code)
    <3>1. CASE ConstIn(source, n)
      <4>1. new = <<>>
        BY <2>3, <3>1
      <4> HIDE DEF new
      <4> QED BY <3>1, <4>1
    <3>2. CASE ~ConstIn(source, n)
      <4> DEFINE places == targets[n]
      <4>1. new = [k \in DOMAIN places |-> places[k].instruction + places[k].index]
        BY <2>3, <3>2
      <4>2. /\ places \in Seq(Places) /\ places # <<>> /\ DOMAIN places = 1 .. Len(places) /\ Len(places) \in Nat
            /\ \A i \in DOMAIN places : PlaceOK(source, n, places[i], Len(code))
        BY <2>2
      <4> HIDE DEF new, places
      <4>3. ASSUME NEW k \in DOMAIN places
            PROVE  /\ places[k].instruction + places[k].index \in Nat
                   /\ ForFxf(source) => (places[k].instruction + places[k].index) + 4 <= Len(code)
        <5> DEFINE p == places[k]
        <5>1. p \in Places /\ PlaceOK(source, n, p, Len(code))
          BY <4>2
        <5> HIDE DEF p
        <5>2. p.instruction \in Nat /\ p.index \in Nat
          BY <5>1 DEF Places
        <5>3. ForFxf(source) => p.instruction + p.index = p.cell /\ p.cell + Bytes(p.size) <= Len(code) /\ p.size = "word"
          BY <3>2, <5>1 DEF PlaceOK, ForFxf
        <5>4. Bytes("word") = 4
          BY DEF Bytes
        <5>5. ForFxf(source) => (p.instruction + p.index) + 4 <= Len(code)
          BY <5>3, <5>4
        <5> QED BY <5>2, <5>5 DEF p
      <4>4. new \in Seq(Nat) /\ DOMAIN new = DOMAIN places
        BY <4>1, <4>2, <4>3
      <4>5. new # <<>>
        BY <4>2, <4>4
      <4> QED BY <4>1, <4>3, <4>4, <4>5
    <3> QED BY <3>1, <3>2
  <2> HIDE DEF new
  <2>7. relocs' \in Seq(Nat) /\ (relocs' = <<>> => relocs = <<>> /\ new = <<>>)
    BY <2>1, <2>4, <2>6
  <2>8. AsmTypeOK'
    BY <2>1, <2>5, <2>7 DEF AsmInv, AsmTypeOK
  <2>9. PlacesOK(source, targets, Len(code))'
    <3>1. PlacesOK(source, targets', Len(code))
      BY <2>1 DEF AsmInv, PlacesOK, Names
    <3> QED BY <2>1, <2>5, <3>1
  <2>10. (\A i \in 1 .. line - 1 : \A o \in LabelsOf(source[i]) :
            o.v \in Names \/ relocs # <<>> \/ ConstIn(source, o.v))'
    <3> SUFFICES ASSUME NEW i \in 1 .. line - 1, NEW o \in LabelsOf(source[i])
                 PROVE  o.v \in Names' \/ relocs' # <<>> \/ ConstIn(source, o.v)
      BY <2>1
    <3>1. o.v \in Names \/ relocs # <<>> \/ ConstIn(source, o.v)
      BY DEF AsmInv
    <3>2. Names' = Names \ {n}
      BY <2>1 DEF Names
    <3>3. CASE o.v = n
      BY <2>6, <2>7, <3>3
    <3>4. CASE o.v # n
      BY <2>7, <3>1, <3>2, <3>4
    <3> QED BY <3>3, <3>4
  <2>11. (ForFxf(source) => \A k \in DOMAIN relocs : relocs[k] + 4 <= Len(code))'
    <3> SUFFICES ASSUME ForFxf(source), NEW k \in DOMAIN relocs' PROVE relocs'[k] + 4 <= Len(code)
      BY <2>1, <2>5
    <3>1. DOMAIN relocs = 1 .. Len(relocs) /\ Len(relocs) \in Nat /\ DOMAIN new = 1 .. Len(new) /\ Len(new) \in Nat
          /\ DOMAIN relocs' = 1 .. Len(relocs) + Len(new)
      BY <2>1, <2>4, <2>6
    <3>2. CASE k \in DOMAIN relocs
      <4>1. relocs'[k] = relocs[k]
        BY <2>1, <2>4, <2>6, <3>2
      <4> QED BY <3>2, <4>1 DEF AsmInv
    <3>3. CASE k \notin DOMAIN relocs
      <4>1. k - Len(relocs) \in DOMAIN new
        BY <3>1, <3>3
      <4>2. relocs'[k] = new[k - Len(relocs)]
        BY <2>1, <2>4, <2>6, <3>1, <3>3
      <4> QED BY <2>6, <4>1, <4>2
    <3> QED BY <3>2, <3>3
  <2> QED BY <1>1, <2>1, <2>5, <2>8, <2>9, <2>10, <2>11 DEF AsmInv
<1> QED BY <1>2, <1>3

LEMMA WriteStep == AsmInv /\ Write => AsmInv'
<1> SUFFICES ASSUME AsmInv, Write PROVE AsmInv'
  OBVIOUS
<1>1. /\ UNCHANGED <<program, source, line, size, address, code, labels, targets, relocs>>
      /\ stage = "backpatch" /\ stage' = "done" /\ Names = {}
      /\ program.fxf => file' = FxfFile
  BY DEF Write, input, output, FxfFile
<1>2. AsmTypeOK'
  BY <1>1 DEF AsmInv, AsmTypeOK
<1>3. PlacesOK(source, targets, Len(code))'
  BY <1>1 DEF AsmInv
<1>4. Names' = Names /\ FxfFile' = FxfFile
  BY <1>1 DEF Names, FxfFile, Header
<1> QED BY <1>1, <1>2, <1>3, <1>4 DEF AsmInv

LEMMA AsmStutter == AsmInv /\ UNCHANGED avars => AsmInv'
<1> SUFFICES ASSUME AsmInv, UNCHANGED avars PROVE AsmInv'
  OBVIOUS
<1>1. UNCHANGED <<program, source, rounds, stage, line, size, address, code, labels, targets, relocs, file>>
  BY DEF avars, input, output
<1>2. AsmTypeOK' /\ PlacesOK(source, targets, Len(code))' /\ Names' = Names /\ FxfFile' = FxfFile
  BY <1>1 DEF AsmInv, AsmTypeOK, Names, FxfFile, Header
<1> QED BY <1>1, <1>2 DEF AsmInv, NothingYet

LEMMA AsmStep == AsmInv /\ [Next]_vars => AsmInv'
<1> SUFFICES ASSUME AsmInv, [Next]_vars PROVE AsmInv'
  OBVIOUS
<1>1. AssemblerNext \/ UNCHANGED avars
  BY DEF Next, Assemble, Start, Insert, Run, TakeBlock, UseFiles, vars
<1> QED BY <1>1, AsmStutter, IncludeStep, StageSteps, LabelStep, ConstantStep, OriginStep, DataStep, BlobStep,
           FillStep, InstructionStep, BackpatchStep, WriteStep DEF AssemblerNext
-----------------------------------------------------------------------------
(* A file arrives in memory, one sector after the other.                   *)

(* The first m cells of a text are in memory from an address on. *)
At(mem, start, text, m) ==
  \A k \in DOMAIN text : k <= m => start + k - 1 \in Ram /\ mem[start + k - 1] = text[k]

(* A part of file f is read next, the ones before it are where they belong. *)
Arriving(d, mem, next, to, f, start) ==
  /\ d.format = "ryfs" /\ f \in DOMAIN d.content
  /\ \E i \in Parts(d.content[f]) :
       /\ next = d.sectors[f][i]
       /\ to = start + (i - 1) * Payload
       /\ At(mem, start, d.content[f], (i - 1) * Payload)

LEMMA PartsOf ==
  ASSUME NEW text \in Seq(Nat)
  PROVE  \E n \in Nat \ {0} : Parts(text) = 1 .. n /\ Len(text) <= n * Payload
<1> DEFINE n == (Len(text) + Payload - 1) \div Payload
           s == (Len(text) + Payload - 1) % Payload
<1>1. Payload \in Nat \ {0} /\ Len(text) \in Nat
  BY LoaderAssumption
<1>2. CASE text = <<>>
  <2>1. Parts(text) = 1 .. 1 /\ Len(text) = 0
    BY <1>2 DEF Parts
  <2>2. 1 * Payload = Payload
    BY <1>1
  <2> QED BY <1>1, <2>1, <2>2
<1>3. CASE text # <<>>
  <2>1. Parts(text) = 1 .. n
    BY <1>3 DEF Parts
  <2>2. n \in Int /\ s \in 0 .. Payload - 1 /\ Len(text) + Payload - 1 = Payload * n + s
    <3>1. Len(text) + Payload - 1 \in Int
      BY <1>1
    <3> QED BY <1>1, <3>1, Divides
  <2>3. Len(text) > 0
    BY <1>1, <1>3
  <2> HIDE DEF n, s
  <2>4. Payload * n >= Len(text) /\ Payload * n \in Int /\ Payload * n = n * Payload
    BY <1>1, <2>2
  <2>5. n > 0
    BY <1>1, <2>2, <2>3, <2>4
  <2> QED BY <2>1, <2>2, <2>4, <2>5
<1> QED BY <1>2, <1>3

LEMMA WrittenCell ==
  ASSUME NEW mem, NEW a, NEW cells, NEW c \in Ram
  PROVE  Written(mem, a, cells)[c] = IF c \in a .. a + Len(cells) - 1 THEN cells[c - a + 1] ELSE mem[c]
BY DEF Written

LEMMA PadLength == ASSUME NEW cells, NEW n \in Nat PROVE Len(Pad(cells, n)) = n
BY DEF Pad

(* What is written elsewhere leaves a text alone. *)
LEMMA WrittenElsewhere ==
  ASSUME NEW text \in Seq(Nat), NEW start \in Nat, NEW mem, At(mem, start, text, Len(text)),
         NEW a \in Int, NEW cells, Len(cells) \in Nat, start + Len(text) <= a
  PROVE  At(Written(mem, a, cells), start, text, Len(text))
<1> SUFFICES ASSUME NEW k \in DOMAIN text, k <= Len(text)
             PROVE  start + k - 1 \in Ram /\ Written(mem, a, cells)[start + k - 1] = text[k]
  BY DEF At
<1> DEFINE c == start + k - 1
<1>1. c \in Ram /\ mem[c] = text[k]
  BY DEF At
<1>2. c \in Int /\ c < a
  BY Inside
<1> HIDE DEF c
<1>3. c \notin a .. a + Len(cells) - 1
  BY <1>2
<1> QED BY <1>1, <1>3, WrittenCell DEF c

LEMMA CellArrives ==
  ASSUME NEW text \in Seq(Nat), NEW start \in Nat, NEW mem, NEW b \in Nat, At(mem, start, text, b),
         NEW p \in Nat, NEW cells, Len(cells) = p, start + b + p <= RamSize,
         \A k \in 1 .. p : b + k <= Len(text) => cells[k] = text[b + k]
  PROVE  At(Written(mem, start + b, cells), start, text, b + p)
<1> SUFFICES ASSUME NEW k \in DOMAIN text, k <= b + p
             PROVE  start + k - 1 \in Ram /\ Written(mem, start + b, cells)[start + k - 1] = text[k]
  BY DEF At
<1> DEFINE c == start + k - 1
           a == start + b
<1>1. k \in 1 .. Len(text) /\ Len(text) \in Nat /\ p \in Nat /\ RamSize \in Nat
  BY MachineAssumption
<1>2. c \in Int /\ a \in Nat /\ 0 <= c /\ c <= RamSize - 1
  BY <1>1
<1>3. (k <= b => c < a) /\ (~(k <= b) => c - a + 1 = k - b)
  BY <1>1
<1>4. k <= b => mem[c] = text[k]
  BY DEF At
<1>5. ~(k <= b) => k - b \in 1 .. p /\ b + (k - b) = k
  BY <1>1
<1> HIDE DEF a, c
<1>6. c \in Ram
  BY <1>1, <1>2 DEF Ram
<1>7. Written(mem, a, cells)[c] = IF c \in a .. a + p - 1 THEN cells[c - a + 1] ELSE mem[c]
  BY <1>6, WrittenCell
<1>8. CASE k <= b
  <2>1. c \notin a .. a + p - 1
    BY <1>1, <1>2, <1>3, <1>8
  <2>2. Written(mem, a, cells)[c] = text[k]
    BY <1>4, <1>7, <1>8, <2>1
  <2> QED BY <1>6, <2>2 DEF a, c
<1>9. CASE ~(k <= b)
  <2> DEFINE j == k - b
  <2>1. j \in 1 .. p /\ b + j = k /\ c - a + 1 = j
    BY <1>3, <1>5, <1>9
  <2> HIDE DEF j
  <2>2. c \in a .. a + p - 1
    <3>1. a <= c /\ c <= a + p - 1
      BY <1>1, <1>2, <2>1
    <3> QED BY <1>1, <1>2, <3>1
  <2>3. cells[j] = text[k]
    BY <1>1, <2>1
  <2>4. Written(mem, a, cells)[c] = text[k]
    BY <1>7, <2>1, <2>2, <2>3
  <2> QED BY <1>6, <2>4 DEF a, c
<1> QED BY <1>8, <1>9

(* A sector of a file is put where it belongs. *)
LEMMA SectorArrives ==
  ASSUME Formatted(disk), NEW f, NEW start \in Nat, Arriving(disk, memory, sector, dest, f, start),
         NEW loaded, WholeFileSector(loaded)
  PROVE  /\ disk' = disk /\ UNCHANGED kernel
         /\ \/ pc' = "dead"
            \/ /\ pc' = pc /\ Arriving(disk, memory', sector', dest', f, start)
               /\ memory' = Written(memory, dest, buffer'.cells) /\ Len(buffer'.cells) = Payload
            \/ /\ pc' = loaded /\ At(memory', start, disk.content[f], Len(disk.content[f]))
               /\ memory' = Written(memory, dest, buffer'.cells) /\ Len(buffer'.cells) = Payload
<1> DEFINE text == disk.content[f]
<1>1. disk' = disk /\ buffer' = Sector(disk, sector) /\ UNCHANGED kernel
  BY DEF WholeFileSector
<1>2. disk.format = "ryfs" /\ f \in DOMAIN disk.content /\ text \in Seq(Nat)
  BY DEF Arriving, Formatted
<1>3. PICK i \in Parts(text) :
        /\ sector = disk.sectors[f][i]
        /\ dest = start + (i - 1) * Payload
        /\ At(memory, start, text, (i - 1) * Payload)
  BY DEF Arriving
<1>4. PICK n \in Nat \ {0} : Parts(text) = 1 .. n /\ Len(text) <= n * Payload
  BY <1>2, PartsOf
<1> DEFINE b == (i - 1) * Payload
           cells == PartCells(disk, f, i)
<1>5. Payload \in Nat \ {0} /\ i \in 1 .. n /\ i \in Nat /\ b \in Nat /\ i * Payload = b + Payload /\ (i + 1) - 1 = i
  <2>1. Payload \in Nat \ {0} /\ i \in 1 .. n
    BY <1>3, <1>4, LoaderAssumption
  <2>2. i - 1 \in Nat /\ i \in Nat
    BY <2>1
  <2>3. (i - 1) * Payload \in Nat
    BY <2>1, <2>2
  <2>4. i * Payload = (i - 1) * Payload + Payload
    BY <2>1, <2>2
  <2> QED BY <2>1, <2>2, <2>3, <2>4
<1>6. Sector(disk, sector) = [next |-> NextPart(disk, f, i), cells |-> cells]
  BY <1>2, <1>3, SectorOfPart
<1> HIDE DEF cells
<1>7. buffer'.next = NextPart(disk, f, i) /\ buffer'.cells = cells
  BY <1>1, <1>6
<1>8. CASE ~Fits(dest, Payload)
  <2>1. pc' = "dead"
    BY <1>8 DEF WholeFileSector
  <2> QED BY <1>1, <2>1
<1>9. CASE Fits(dest, Payload)
  <2>1. /\ memory' = Written(memory, dest, cells)
        /\ sector' = NextPart(disk, f, i)
        /\ dest' = dest + Payload
        /\ pc' = IF sector' = 0 THEN loaded ELSE pc
    BY <1>7, <1>9 DEF WholeFileSector
  <2>2. Len(cells) = Payload
    BY <1>5, PadLength DEF PartCells, cells
  <2>3. \A k \in 1 .. Payload : b + k <= Len(text) => cells[k] = text[b + k]
    <3> TAKE k \in 1 .. Payload
    <3>1. cells = Pad(SubSeq(text, b + 1, Len(text)), Payload)
      BY DEF PartCells, cells
    <3> HIDE DEF b, text
    <3> QED BY <1>2, <1>5, <3>1, CellsAfter
  <2>4. dest = start + b /\ At(memory, start, text, b) /\ start + b + Payload <= RamSize
    BY <1>3, <1>9 DEF Fits
  <2>5. At(memory', start, text, i * Payload)
    <3> HIDE DEF b, text
    <3> QED BY <1>2, <1>5, <2>1, <2>2, <2>3, <2>4, CellArrives
  <2>6. CASE i + 1 \in Parts(text)
    <3>1. sector' = disk.sectors[f][i + 1] /\ sector' # 0
      BY <1>2, <2>1, <2>6 DEF NextPart, Formatted
    <3>2. dest' = start + ((i + 1) - 1) * Payload
      <4>1. dest' = start + (b + Payload)
        <5> HIDE DEF b
        <5> QED BY <1>5, <2>1, <2>4
      <4> QED BY <1>5, <4>1
    <3>3. At(memory', start, text, ((i + 1) - 1) * Payload)
      BY <1>5, <2>5
    <3>4. Arriving(disk, memory', sector', dest', f, start)
      BY <1>2, <2>6, <3>1, <3>2, <3>3 DEF Arriving
    <3> QED BY <1>1, <1>7, <2>1, <2>2, <3>1, <3>4
  <2>7. CASE i + 1 \notin Parts(text)
    <3>1. sector' = 0 /\ pc' = loaded
      BY <2>1, <2>7 DEF NextPart
    <3>2. i = n
      BY <1>4, <1>5, <2>7
    <3>3. At(memory', start, text, Len(text))
      <4>1. \A k \in DOMAIN text : k <= i * Payload
        <5> TAKE k \in DOMAIN text
        <5>1. k \in Nat /\ k <= Len(text) /\ Len(text) \in Nat
          BY <1>2
        <5>2. Len(text) <= i * Payload /\ i * Payload \in Int
          BY <1>4, <1>5, <3>2
        <5> QED BY <5>1, <5>2
      <4> QED BY <2>5, <4>1 DEF At
    <3> QED BY <1>1, <1>7, <2>1, <2>2, <3>1, <3>3
  <2> QED BY <2>6, <2>7
<1> QED BY <1>8, <1>9
-----------------------------------------------------------------------------
(* The table of relocations as cells: chunks of four, one after the other. *)

(* The first i of the chunks of four cells, one after the other. *)
Chunks(ss, i) == [j \in 1 .. 4 * i |-> ss[(j - 1) \div 4 + 1][((j - 1) % 4) + 1]]

(* Cell j of chunk k.                                                      *)
CellNo(k, j) == 4 * (k - 1) + j

LEMMA ChunkCell ==
  ASSUME NEW k \in Nat \ {0}, NEW j \in 1 .. 4
  PROVE  (CellNo(k, j) - 1) \div 4 + 1 = k /\ ((CellNo(k, j) - 1) % 4) + 1 = j
<1> DEFINE x == CellNo(k, j) - 1
<1>1. x \in Int /\ k - 1 \in Int /\ 4 \in Nat \ {0} /\ j - 1 \in 0 .. 4 - 1 /\ x = 4 * (k - 1) + (j - 1)
  BY DEF CellNo
<1> HIDE DEF x
<1>2. x \div 4 = k - 1 /\ x % 4 = j - 1
  BY <1>1, DividesOnce
<1>3. (k - 1) + 1 = k /\ (j - 1) + 1 = j
  OBVIOUS
<1>4. x \div 4 + 1 = k /\ (x % 4) + 1 = j
  BY <1>2, <1>3
<1> QED BY <1>4 DEF x

LEMMA CellOfChunk ==
  ASSUME NEW i \in Nat, NEW x \in 1 .. 4 * i
  PROVE  \E k \in 1 .. i, j \in 1 .. 4 : x = CellNo(k, j)
<1> DEFINE q == (x - 1) \div 4
           r == (x - 1) % 4
<1>1. x - 1 \in Int /\ 4 \in Nat \ {0}
  OBVIOUS
<1>2. r \in 0 .. 4 - 1 /\ q \in Int /\ x - 1 = 4 * q + r
  BY <1>1, Divides
<1> HIDE DEF q, r
<1>3. q + 1 \in 1 .. i /\ r + 1 \in 1 .. 4 /\ x = 4 * ((q + 1) - 1) + (r + 1)
  BY <1>2
<1> QED BY <1>3 DEF CellNo

LEMMA CellInChunks ==
  ASSUME NEW i \in Nat, NEW k \in 1 .. i, NEW j \in 1 .. 4
  PROVE  CellNo(k, j) \in 1 .. 4 * i
BY DEF CellNo

LEMMA ChunksAre ==
  ASSUME NEW ss, NEW i \in Nat, NEW k \in 1 .. i, NEW j \in 1 .. 4
  PROVE  Chunks(ss, i)[CellNo(k, j)] = ss[k][j]
<1> DEFINE x == CellNo(k, j)
<1>1. x \in 1 .. 4 * i
  BY CellInChunks
<1>2. (x - 1) \div 4 + 1 = k /\ ((x - 1) % 4) + 1 = j
  BY ChunkCell
<1> HIDE DEF x
<1>3. Chunks(ss, i)[x] = ss[(x - 1) \div 4 + 1][((x - 1) % 4) + 1]
  BY <1>1 DEF Chunks
<1> QED BY <1>1, <1>2, <1>3 DEF x

LEMMA ChunksCells ==
  ASSUME NEW ss, NEW i \in Nat, \A k \in 1 .. i : ss[k] \in Seq(Nat) /\ Len(ss[k]) = 4
  PROVE  Chunks(ss, i) \in Seq(Nat) /\ Len(Chunks(ss, i)) = 4 * i
<1> DEFINE e(x) == ss[(x - 1) \div 4 + 1][((x - 1) % 4) + 1]
           n == 4 * i
<1>1. ASSUME NEW x \in 1 .. n PROVE e(x) \in Nat
  <2>1. PICK k \in 1 .. i, j \in 1 .. 4 : x = CellNo(k, j)
    BY CellOfChunk
  <2>2. (x - 1) \div 4 + 1 = k /\ ((x - 1) % 4) + 1 = j
    BY <2>1, ChunkCell
  <2>3. ss[k][j] \in Nat
    OBVIOUS
  <2> QED BY <2>2, <2>3
<1>2. Chunks(ss, i) = [x \in 1 .. n |-> e(x)] /\ n \in Nat
  BY DEF Chunks
<1> HIDE DEF e, n
<1>3. [x \in 1 .. n |-> e(x)] \in Seq(Nat) /\ Len([x \in 1 .. n |-> e(x)]) = n
  BY <1>1, <1>2
<1> QED BY <1>2, <1>3 DEF n

LEMMA SameCells ==
  ASSUME NEW s \in Seq(Nat), NEW t \in Seq(Nat), Len(s) = Len(t), \A x \in 1 .. Len(s) : s[x] = t[x]
  PROVE  s = t
OBVIOUS

LEMMA JoinedIs ==
  ASSUME NEW s \in Seq(Nat), NEW t \in Seq(Nat)
  PROVE  s \o t \in Seq(Nat)
OBVIOUS

LEMMA JoinedLength ==
  ASSUME NEW s \in Seq(Nat), NEW t \in Seq(Nat)
  PROVE  Len(s \o t) = Len(s) + Len(t)
OBVIOUS

LEMMA JoinedLeft ==
  ASSUME NEW s \in Seq(Nat), NEW t \in Seq(Nat), NEW x \in 1 .. Len(s)
  PROVE  (s \o t)[x] = s[x]
OBVIOUS

LEMMA JoinedRight ==
  ASSUME NEW s \in Seq(Nat), NEW t \in Seq(Nat), NEW x \in 1 .. Len(t)
  PROVE  (s \o t)[Len(s) + x] = t[x]
OBVIOUS

LEMMA OneChunkMore ==
  ASSUME NEW ss, NEW i \in Nat \ {0}, \A k \in 1 .. i : ss[k] \in Seq(Nat) /\ Len(ss[k]) = 4
  PROVE  Chunks(ss, i) = Chunks(ss, i - 1) \o ss[i]
<1> DEFINE s == Chunks(ss, i - 1)
           t == ss[i]
           u == Chunks(ss, i)
<1>1. s \in Seq(Nat) /\ Len(s) = 4 * (i - 1) /\ t \in Seq(Nat) /\ Len(t) = 4 /\ u \in Seq(Nat) /\ Len(u) = 4 * i
  <2>1. i - 1 \in Nat /\ \A k \in 1 .. i - 1 : ss[k] \in Seq(Nat) /\ Len(ss[k]) = 4
    OBVIOUS
  <2> QED BY <2>1, ChunksCells
<1>2. ASSUME NEW x \in 1 .. 4 * i PROVE u[x] = (s \o t)[x]
  <2>1. PICK k \in 1 .. i, j \in 1 .. 4 : x = CellNo(k, j)
    BY CellOfChunk
  <2>2. u[x] = ss[k][j]
    <3>1. i \in Nat
      OBVIOUS
    <3>2. Chunks(ss, i)[CellNo(k, j)] = ss[k][j]
      BY <3>1, ChunksAre
    <3> QED BY <2>1, <3>2
  <2>3. CASE k = i
    <3>1. x = Len(s) + j /\ j \in 1 .. Len(t) /\ u[x] = t[j]
      BY <1>1, <2>1, <2>2, <2>3 DEF CellNo
    <3> HIDE DEF s, t, u
    <3> QED BY <1>1, <3>1, JoinedRight
  <2>4. CASE k # i
    <3>1. k \in 1 .. i - 1 /\ i - 1 \in Nat
      BY <2>4
    <3>2. CellNo(k, j) \in 1 .. 4 * (i - 1) /\ Chunks(ss, i - 1)[CellNo(k, j)] = ss[k][j]
      BY <3>1, ChunksAre, CellInChunks
    <3>3. x \in 1 .. Len(s) /\ s[x] = ss[k][j]
      BY <1>1, <2>1, <3>2
    <3> HIDE DEF s, t, u
    <3> QED BY <1>1, <2>2, <3>3, JoinedLeft
  <2> QED BY <2>3, <2>4
<1> HIDE DEF s, t, u
<1>3. s \o t \in Seq(Nat) /\ Len(s \o t) = 4 * i
  <2>1. s \o t \in Seq(Nat) /\ Len(s \o t) = Len(s) + Len(t)
    BY <1>1, JoinedIs, JoinedLength
  <2> QED BY <1>1, <2>1
<1>4. u = s \o t
  <2> DEFINE v == s \o t
  <2>1. v \in Seq(Nat) /\ Len(v) = Len(u) /\ \A x \in 1 .. Len(u) : u[x] = v[x]
    BY <1>1, <1>2, <1>3
  <2> HIDE DEF v
  <2>2. u = v
    BY <1>1, <2>1, SameCells
  <2> QED BY <2>2 DEF v
<1> QED BY <1>4 DEF s, t, u

LEMMA FlattenChunks ==
  ASSUME NEW n \in Nat \ {0}, NEW ss, Len(ss) = n, \A k \in 1 .. n : ss[k] \in Seq(Nat) /\ Len(ss[k]) = 4
  PROVE  FlattenSeq(ss) = Chunks(ss, n)
<1> DEFINE Flattens(f) == f = [i \in 1 .. n |-> IF i = 1 THEN ss[i] ELSE f[i - 1] \o ss[i]]
           all == [i \in 1 .. n |-> Chunks(ss, i)]
           f == CHOOSE f : Flattens(f)
<1>1. Chunks(ss, 1) = ss[1]
  <2> DEFINE u == Chunks(ss, 1)
             v == ss[1]
  <2>1. 1 \in 1 .. n /\ 1 \in Nat /\ 1 \in 1 .. 1
    OBVIOUS
  <2>2. u \in Seq(Nat) /\ Len(u) = 4 /\ v \in Seq(Nat) /\ Len(v) = 4
    <3>1. \A k \in 1 .. 1 : ss[k] \in Seq(Nat) /\ Len(ss[k]) = 4
      BY <2>1
    <3>2. u \in Seq(Nat) /\ Len(u) = 4 * 1
      <4> HIDE DEF f, all
      <4> QED BY <2>1, <3>1, ChunksCells
    <3>3. v \in Seq(Nat) /\ Len(v) = 4
      BY <2>1
    <3> HIDE DEF u, v
    <3> QED BY <3>2, <3>3
  <2>3. \A j \in 1 .. 4 : u[j] = v[j]
    <3> TAKE j \in 1 .. 4
    <3>1. CellNo(1, j) = j
      BY DEF CellNo
    <3>2. Chunks(ss, 1)[CellNo(1, j)] = ss[1][j]
      BY <2>1, ChunksAre
    <3> QED BY <3>1, <3>2
  <2> HIDE DEF u, v
  <2>4. u = v
    BY <2>2, <2>3, SameCells
  <2> QED BY <2>4 DEF u, v
<1>2. \A i \in 1 .. n : i # 1 => Chunks(ss, i) = Chunks(ss, i - 1) \o ss[i]
  <2> TAKE i \in 1 .. n
  <2>1. i \in Nat \ {0} /\ \A k \in 1 .. i : ss[k] \in Seq(Nat) /\ Len(ss[k]) = 4
    OBVIOUS
  <2> QED BY <2>1, OneChunkMore
<1>3. Flattens(all)
  <2>1. ASSUME NEW i \in 1 .. n PROVE all[i] = IF i = 1 THEN ss[i] ELSE all[i - 1] \o ss[i]
    <3>1. CASE i = 1
      BY <1>1, <3>1
    <3>2. CASE i # 1
      <4>1. i - 1 \in 1 .. n
        BY <3>2
      <4> QED BY <1>2, <3>2, <4>1
    <3> QED BY <3>1, <3>2
  <2>2. all = [i \in 1 .. n |-> all[i]]
    OBVIOUS
  <2> HIDE DEF all
  <2> QED BY <2>1, <2>2
<1>4. Flattens(f)
  <2> HIDE DEF all
  <2> QED BY <1>3
<1> HIDE DEF f
<1>5. \A i \in 1 .. n : f[i] = IF i = 1 THEN ss[i] ELSE f[i - 1] \o ss[i]
  BY <1>4
<1> DEFINE S == {i \in 0 .. n : i = 0 \/ f[i] = Chunks(ss, i)}
<1>6. 0 \in S
  OBVIOUS
<1>7. ASSUME NEW i \in 0 .. n - 1, i \in S PROVE i + 1 \in S
  <2>1. i + 1 \in 1 .. n /\ (i + 1) - 1 = i /\ i + 1 \in 0 .. n
    OBVIOUS
  <2> SUFFICES f[i + 1] = Chunks(ss, i + 1)
    BY <2>1
  <2>2. i = 0 \/ f[i] = Chunks(ss, i)
    BY <1>7
  <2> HIDE DEF S
  <2>3. CASE i = 0
    <3>1. f[1] = ss[1]
      BY <1>5, <2>1, <2>3
    <3>2. i + 1 = 1
      BY <2>3
    <3> QED BY <1>1, <2>1, <3>1, <3>2
  <2>4. CASE i # 0
    <3>1. f[i] = Chunks(ss, i) /\ i + 1 # 1
      BY <2>4, <2>2
    <3>2. f[i + 1] = f[i] \o ss[i + 1]
      BY <1>5, <2>1, <3>1
    <3>3. Chunks(ss, i + 1) = Chunks(ss, i) \o ss[i + 1]
      BY <1>2, <2>1, <3>1
    <3> QED BY <2>1, <3>1, <3>2, <3>3
  <2> QED BY <2>3, <2>4
<1>8. f[n] = Chunks(ss, n)
  <2> HIDE DEF S
  <2>1. \A k \in 0 .. n : k \in S
    BY <1>6, <1>7, UpTo
  <2>2. n \in S
    BY <2>1
  <2> QED BY <2>2 DEF S
<1>9. FlattenSeq(ss) = f[n]
  BY DEF FlattenSeq, f
<1> QED BY <1>8, <1>9
-----------------------------------------------------------------------------
(* The words in the header and in the table of an FXF file.                *)

(* The word v is in cells at + 1 to at + 4 of a text. *)
FieldAt(text, at, v) == \A j \in 1 .. 4 : text[at + j] = Cells(4, v)[j]

LEMMA FieldStays ==
  ASSUME NEW s \in Seq(Nat), NEW t \in Seq(Nat), NEW at \in Nat, at + 4 <= Len(s), NEW v, FieldAt(s, at, v)
  PROVE  FieldAt(s \o t, at, v)
<1> SUFFICES ASSUME NEW j \in 1 .. 4 PROVE (s \o t)[at + j] = Cells(4, v)[j]
  BY DEF FieldAt
<1> DEFINE x == at + j
<1>1. x \in 1 .. Len(s)
  OBVIOUS
<1>2. s[x] = Cells(4, v)[j]
  BY DEF FieldAt
<1> HIDE DEF x
<1>3. (s \o t)[x] = s[x]
  BY <1>1, JoinedLeft
<1> QED BY <1>2, <1>3 DEF x

LEMMA FieldJoins ==
  ASSUME NEW s \in Seq(Nat), NEW v \in Int
  PROVE  FieldAt(s \o Cells(4, v), Len(s), v)
<1> DEFINE t == Cells(4, v)
<1>1. t \in Seq(Nat) /\ Len(t) = 4
  BY WordCells
<1> HIDE DEF t
<1>2. \A j \in 1 .. Len(t) : (s \o t)[Len(s) + j] = t[j]
  BY <1>1, JoinedRight
<1> QED BY <1>1, <1>2 DEF FieldAt, t

LEMMA HeaderIs ==
  ASSUME code \in Seq(Nat), relocs \in Seq(Nat)
  PROVE  /\ Header \in Seq(Nat) /\ Len(Header) = HeaderSize
         /\ FieldAt(Header, 8, HeaderSize)
         /\ FieldAt(Header, 28, 4 * Len(relocs))
         /\ FieldAt(Header, 32, HeaderSize + Len(code))
<1> DEFINE n == Len(code)
           r == 4 * Len(relocs)
           m == HeaderSize + n
           a1 == <<70, 88, 70, 0>>
           a2 == a1 \o Cells(4, n)
           a3 == a2 \o Cells(4, HeaderSize)
           z == [k \in 1 .. 16 |-> 0]
           a4 == a3 \o z
           a5 == a4 \o Cells(4, r)
           a6 == a5 \o Cells(4, m)
<1>1. n \in Int /\ r \in Int /\ m \in Int /\ HeaderSize \in Int /\ HeaderSize = 36
  BY DEF HeaderSize
<1>2. Header = a6
  BY DEF Header
<1>3. \A v \in Int : Cells(4, v) \in Seq(Nat) /\ Len(Cells(4, v)) = 4
  BY WordCells
<1>4. a1 \in Seq(Nat) /\ Len(a1) = 4
  OBVIOUS
<1>5. z \in Seq(Nat) /\ Len(z) = 16
  OBVIOUS
<1> HIDE DEF n, r, m, a1, z
<1>6. a2 \in Seq(Nat) /\ Len(a2) = 8
  <2> DEFINE c == Cells(4, n)
  <2>1. c \in Seq(Nat) /\ Len(c) = 4 /\ a2 = a1 \o c /\ a1 \in Seq(Nat) /\ Len(a1) = 4
    BY <1>1, <1>3, <1>4
  <2> HIDE DEF c, a2
  <2>2. a2 \in Seq(Nat)
    BY <2>1, JoinedIs
  <2>3. Len(a2) = 8
    <3>1. Len(a1 \o c) = Len(a1) + Len(c)
      BY <2>1, JoinedLength
    <3> QED BY <2>1, <3>1
  <2> QED BY <2>2, <2>3
<1> HIDE DEF a2
<1>7. a3 \in Seq(Nat) /\ Len(a3) = 12 /\ FieldAt(a3, 8, HeaderSize)
  <2> DEFINE c == Cells(4, HeaderSize)
  <2>1. c \in Seq(Nat) /\ Len(c) = 4 /\ a3 = a2 \o c /\ a2 \in Seq(Nat) /\ Len(a2) = 8
    BY <1>1, <1>3, <1>6
  <2> HIDE DEF c, a3
  <2>2. a3 \in Seq(Nat)
    BY <2>1, JoinedIs
  <2>3. Len(a3) = 12
    <3>1. Len(a2 \o c) = Len(a2) + Len(c)
      BY <2>1, JoinedLength
    <3> QED BY <2>1, <3>1
  <2>4. FieldAt(a3, 8, HeaderSize)
    <3>1. FieldAt(a2 \o Cells(4, HeaderSize), Len(a2), HeaderSize)
      BY <1>1, <2>1, FieldJoins
    <3> QED BY <2>1, <3>1 DEF c
  <2> QED BY <2>2, <2>3, <2>4
<1> HIDE DEF a3
<1>8. a4 \in Seq(Nat) /\ Len(a4) = 28 /\ FieldAt(a4, 8, HeaderSize)
  <2> DEFINE c == z
  <2>1. c \in Seq(Nat) /\ Len(c) = 16 /\ a4 = a3 \o c /\ a3 \in Seq(Nat) /\ Len(a3) = 12
    BY <1>5, <1>7
  <2> HIDE DEF c, a4
  <2>2. a4 \in Seq(Nat)
    BY <2>1, JoinedIs
  <2>3. Len(a4) = 28
    <3>1. Len(a3 \o c) = Len(a3) + Len(c)
      BY <2>1, JoinedLength
    <3> QED BY <2>1, <3>1
  <2>4. FieldAt(a4, 8, HeaderSize)
    <3>1. 8 \in Nat /\ 8 + 4 <= Len(a3) /\ FieldAt(a3, 8, HeaderSize)
      BY <1>7, <2>1
    <3> QED BY <2>1, <3>1, FieldStays
  <2> QED BY <2>2, <2>3, <2>4
<1> HIDE DEF a4
<1>9. a5 \in Seq(Nat) /\ Len(a5) = 32 /\ FieldAt(a5, 8, HeaderSize) /\ FieldAt(a5, 28, r)
  <2> DEFINE c == Cells(4, r)
  <2>1. c \in Seq(Nat) /\ Len(c) = 4 /\ a5 = a4 \o c /\ a4 \in Seq(Nat) /\ Len(a4) = 28
    BY <1>1, <1>3, <1>8
  <2> HIDE DEF c, a5
  <2>2. a5 \in Seq(Nat)
    BY <2>1, JoinedIs
  <2>3. Len(a5) = 32
    <3>1. Len(a4 \o c) = Len(a4) + Len(c)
      BY <2>1, JoinedLength
    <3> QED BY <2>1, <3>1
  <2>4. FieldAt(a5, 8, HeaderSize)
    <3>1. 8 \in Nat /\ 8 + 4 <= Len(a4) /\ FieldAt(a4, 8, HeaderSize)
      BY <1>8, <2>1
    <3> QED BY <2>1, <3>1, FieldStays
  <2>5. FieldAt(a5, 28, r)
    <3>1. FieldAt(a4 \o Cells(4, r), Len(a4), r)
      BY <1>1, <2>1, FieldJoins
    <3> QED BY <2>1, <3>1 DEF c
  <2> QED BY <2>2, <2>3, <2>4, <2>5
<1> HIDE DEF a5
<1>10. a6 \in Seq(Nat) /\ Len(a6) = 36 /\ FieldAt(a6, 8, HeaderSize) /\ FieldAt(a6, 28, r) /\ FieldAt(a6, 32, m)
  <2> DEFINE c == Cells(4, m)
  <2>1. c \in Seq(Nat) /\ Len(c) = 4 /\ a6 = a5 \o c /\ a5 \in Seq(Nat) /\ Len(a5) = 32
    BY <1>1, <1>3, <1>9
  <2> HIDE DEF c, a6
  <2>2. a6 \in Seq(Nat)
    BY <2>1, JoinedIs
  <2>3. Len(a6) = 36
    <3>1. Len(a5 \o c) = Len(a5) + Len(c)
      BY <2>1, JoinedLength
    <3> QED BY <2>1, <3>1
  <2>4. FieldAt(a6, 8, HeaderSize)
    <3>1. 8 \in Nat /\ 8 + 4 <= Len(a5) /\ FieldAt(a5, 8, HeaderSize)
      BY <1>9, <2>1
    <3> QED BY <2>1, <3>1, FieldStays
  <2>5. FieldAt(a6, 28, r)
    <3>1. 28 \in Nat /\ 28 + 4 <= Len(a5) /\ FieldAt(a5, 28, r)
      BY <1>9, <2>1
    <3> QED BY <2>1, <3>1, FieldStays
  <2>6. FieldAt(a6, 32, m)
    <3>1. FieldAt(a5 \o Cells(4, m), Len(a5), m)
      BY <1>1, <2>1, FieldJoins
    <3> QED BY <2>1, <3>1 DEF c
  <2> QED BY <2>2, <2>3, <2>4, <2>5, <2>6
<1> HIDE DEF a6
<1> QED BY <1>1, <1>2, <1>10 DEF n, r, m

(* An FXF file with at least one relocation. *)
LEMMA FileIs ==
  ASSUME code \in Seq(Nat), relocs \in Seq(Nat), relocs # <<>>
  PROVE  /\ FxfFile \in Seq(Nat) /\ Len(FxfFile) = HeaderSize + Len(code) + 4 * Len(relocs)
         /\ FieldAt(FxfFile, 8, HeaderSize)
         /\ FieldAt(FxfFile, 28, 4 * Len(relocs))
         /\ FieldAt(FxfFile, 32, HeaderSize + Len(code))
         /\ \A k \in DOMAIN relocs : FieldAt(FxfFile, HeaderSize + Len(code) + 4 * (k - 1), relocs[k])
         /\ \A k \in 1 .. Len(code) : FxfFile[HeaderSize + k] = code[k]
<1> DEFINE h == Header
           c == code
           a == h \o c
           n == Len(relocs)
           ss == [k \in DOMAIN relocs |-> Cells(4, relocs[k])]
           t == FlattenSeq(ss)
<1>1. /\ h \in Seq(Nat) /\ Len(h) = HeaderSize
      /\ FieldAt(h, 8, HeaderSize)
      /\ FieldAt(h, 28, 4 * n)
      /\ FieldAt(h, 32, HeaderSize + Len(code))
  BY HeaderIs
<1>2. FxfFile = a \o t
  BY DEF FxfFile
<1>3. n \in Nat \ {0} /\ DOMAIN relocs = 1 .. n
  OBVIOUS
<1>4. \A k \in 1 .. n : ss[k] = Cells(4, relocs[k]) /\ ss[k] \in Seq(Nat) /\ Len(ss[k]) = 4
  <2> TAKE k \in 1 .. n
  <2>1. k \in DOMAIN relocs /\ relocs[k] \in Int
    BY <1>3
  <2>2. ss[k] = Cells(4, relocs[k])
    BY <2>1
  <2> QED BY <2>1, <2>2, WordCells
<1>5. Len(ss) = n
  BY <1>3
<1> HIDE DEF ss, h
<1>6. t = Chunks(ss, n)
  <2> HIDE DEF n
  <2> QED BY <1>3, <1>4, <1>5, FlattenChunks
<1>7. t \in Seq(Nat) /\ Len(t) = 4 * n
  <2> HIDE DEF n, t
  <2>1. n \in Nat
    BY <1>3
  <2> QED BY <1>4, <1>6, <2>1, ChunksCells
<1>8. a \in Seq(Nat) /\ Len(a) = HeaderSize + Len(code)
  BY <1>1, JoinedIs, JoinedLength
<1>9. FieldAt(a, 8, HeaderSize) /\ FieldAt(a, 28, 4 * n) /\ FieldAt(a, 32, HeaderSize + Len(code))
  <2> DEFINE m == HeaderSize + Len(code)
             r == 4 * n
  <2>1. 8 + 4 <= Len(h) /\ 28 + 4 <= Len(h) /\ 32 + 4 <= Len(h) /\ 8 \in Nat /\ 28 \in Nat /\ 32 \in Nat
    BY <1>1 DEF HeaderSize
  <2>2. FieldAt(h, 8, HeaderSize) /\ FieldAt(h, 28, r) /\ FieldAt(h, 32, m) /\ c \in Seq(Nat) /\ h \in Seq(Nat)
    BY <1>1
  <2> HIDE DEF m, r, c
  <2>3. FieldAt(h \o c, 8, HeaderSize)
    BY <2>1, <2>2, FieldStays
  <2>4. FieldAt(h \o c, 28, r)
    BY <2>1, <2>2, FieldStays
  <2>5. FieldAt(h \o c, 32, m)
    BY <2>1, <2>2, FieldStays
  <2> QED BY <2>3, <2>4, <2>5 DEF m, r
<1>10. ASSUME NEW k \in 1 .. Len(code) PROVE a[HeaderSize + k] = code[k] /\ HeaderSize + k \in 1 .. Len(a)
  <2>1. (h \o c)[Len(h) + k] = c[k]
    BY <1>1, JoinedRight
  <2> HIDE DEF a
  <2>2. HeaderSize + k \in 1 .. Len(a)
    BY <1>8 DEF HeaderSize
  <2> QED BY <1>1, <2>1, <2>2 DEF a
<1> HIDE DEF a, t
<1>11. ASSUME NEW k \in 1 .. Len(code) PROVE FxfFile[HeaderSize + k] = code[k]
  <2> DEFINE x == HeaderSize + k
  <2>1. a[x] = code[k] /\ x \in 1 .. Len(a)
    BY <1>10
  <2> HIDE DEF x
  <2>2. (a \o t)[x] = a[x]
    BY <1>7, <1>8, <2>1, JoinedLeft
  <2> QED BY <1>2, <2>1, <2>2 DEF x
<1>12. FxfFile \in Seq(Nat) /\ Len(FxfFile) = HeaderSize + Len(code) + 4 * n
  <2>1. a \o t \in Seq(Nat) /\ Len(a \o t) = Len(a) + Len(t)
    BY <1>7, <1>8, JoinedIs, JoinedLength
  <2> QED BY <1>2, <1>7, <1>8, <2>1
<1>13. FieldAt(FxfFile, 8, HeaderSize) /\ FieldAt(FxfFile, 28, 4 * n) /\ FieldAt(FxfFile, 32, HeaderSize + Len(code))
  <2> DEFINE m == HeaderSize + Len(code)
             r == 4 * n
  <2>1. 8 + 4 <= Len(a) /\ 28 + 4 <= Len(a) /\ 32 + 4 <= Len(a) /\ 8 \in Nat /\ 28 \in Nat /\ 32 \in Nat
    <3>1. Len(code) \in Nat
      OBVIOUS
    <3> QED BY <1>8, <3>1 DEF HeaderSize
  <2>2. FieldAt(a, 8, HeaderSize) /\ FieldAt(a, 28, r) /\ FieldAt(a, 32, m)
    BY <1>9
  <2> HIDE DEF m, r
  <2>3. FieldAt(a \o t, 8, HeaderSize)
    BY <1>7, <1>8, <2>1, <2>2, FieldStays
  <2>4. FieldAt(a \o t, 28, r)
    BY <1>7, <1>8, <2>1, <2>2, FieldStays
  <2>5. FieldAt(a \o t, 32, m)
    BY <1>7, <1>8, <2>1, <2>2, FieldStays
  <2> QED BY <1>2, <2>3, <2>4, <2>5 DEF m, r
<1>14. ASSUME NEW k \in DOMAIN relocs
       PROVE  FieldAt(FxfFile, HeaderSize + Len(code) + 4 * (k - 1), relocs[k])
  <2> SUFFICES ASSUME NEW j \in 1 .. 4
               PROVE  FxfFile[HeaderSize + Len(code) + 4 * (k - 1) + j] = Cells(4, relocs[k])[j]
    BY DEF FieldAt
  <2>1. k \in 1 .. n /\ n \in Nat
    BY <1>3
  <2> DEFINE x == CellNo(k, j)
  <2>2. x \in 1 .. 4 * n
    BY <2>1, CellInChunks
  <2>3. Chunks(ss, n)[x] = ss[k][j]
    BY <2>1, ChunksAre
  <2>4. ss[k] = Cells(4, relocs[k])
    BY <1>4, <2>1
  <2>5. HeaderSize + Len(code) + 4 * (k - 1) + j = Len(a) + x
    <3>1. Len(code) \in Nat
      OBVIOUS
    <3> QED BY <1>8, <2>1, <3>1 DEF CellNo, HeaderSize
  <2> HIDE DEF x
  <2>6. x \in 1 .. Len(t) /\ t[x] = Cells(4, relocs[k])[j]
    BY <1>6, <1>7, <2>2, <2>3, <2>4
  <2>7. (a \o t)[Len(a) + x] = t[x]
    BY <1>7, <1>8, <2>6, JoinedRight
  <2> QED BY <1>2, <2>5, <2>6, <2>7
<1> QED BY <1>12, <1>13, <1>14, <1>11
-----------------------------------------------------------------------------
(* The relocation: the loop patches words of the code only, so that        *)
(* neither the kernel nor the rest of the table changes.                   *)

LEMMA CellsAreBytes ==
  ASSUME NEW v
  PROVE  /\ Cells(4, v)[1] = ByteOf(v, 0)
         /\ Cells(4, v)[2] = ByteOf(v, 1)
         /\ Cells(4, v)[3] = ByteOf(v, 2)
         /\ Cells(4, v)[4] = ByteOf(v, 3)
<1>1. ASSUME NEW k \in 1 .. 4 PROVE Cells(4, v)[k] = ByteOf(v, k - 1)
  BY DEF Cells, ByteOf, Digit, BytePow
<1>2. Cells(4, v)[1] = ByteOf(v, 1 - 1) /\ Cells(4, v)[2] = ByteOf(v, 2 - 1)
      /\ Cells(4, v)[3] = ByteOf(v, 3 - 1) /\ Cells(4, v)[4] = ByteOf(v, 4 - 1)
  BY <1>1
<1> QED BY <1>2

(* A word of a text that is in memory is read back. *)
LEMMA LoadsField ==
  ASSUME NEW text \in Seq(Nat), NEW mem, NEW start \in Nat, At(mem, start, text, Len(text)),
         NEW at \in Nat, at + 4 <= Len(text), NEW v \in Word, FieldAt(text, at, v)
  PROVE  Load(mem, start + at, "word") = v
<1>1. ASSUME NEW j \in 1 .. 4 PROVE mem[start + at + j - 1] = Cells(4, v)[j]
  <2> DEFINE k == at + j
  <2>1. k \in DOMAIN text /\ k <= Len(text) /\ start + k - 1 = start + at + j - 1
    OBVIOUS
  <2>2. text[k] = Cells(4, v)[j]
    BY DEF FieldAt
  <2> HIDE DEF k
  <2>3. mem[start + k - 1] = text[k]
    BY <2>1 DEF At
  <2> QED BY <2>1, <2>2, <2>3
<1> DEFINE a == start + at
<1>2. a + 1 - 1 = a /\ a + 2 - 1 = a + 1 /\ a + 3 - 1 = a + 2 /\ a + 4 - 1 = a + 3
  OBVIOUS
<1>3. mem[a + 1 - 1] = Cells(4, v)[1] /\ mem[a + 2 - 1] = Cells(4, v)[2]
      /\ mem[a + 3 - 1] = Cells(4, v)[3] /\ mem[a + 4 - 1] = Cells(4, v)[4]
  BY <1>1
<1> HIDE DEF a
<1>4. mem[a] = ByteOf(v, 0) /\ mem[a + 1] = ByteOf(v, 1) /\ mem[a + 2] = ByteOf(v, 2) /\ mem[a + 3] = ByteOf(v, 3)
  BY <1>2, <1>3, CellsAreBytes
<1>5. Load(mem, a, "word") = Numeral(Mod("byte"), ByteOf(v, 0), ByteOf(v, 1), ByteOf(v, 2), ByteOf(v, 3))
  BY <1>4 DEF Load, Numeral
<1> QED BY <1>5, Digits DEF a

(* The code of an FXF file is being relocated: cells is how much code there *)
(* is, table what has been put after it, left of which entries are left.    *)
TableAt(cells) == StartupBase + HeaderSize + cells

Relocating(mem, cells, table, b, e, l) ==
  /\ b = StartupBase + HeaderSize
  /\ l \in 1 .. Len(table)
  /\ e = TableAt(cells) + 4 * (Len(table) - l)
  /\ TableAt(cells) + 4 * Len(table) <= RamSize
  /\ \A k \in DOMAIN table : Load(mem, TableAt(cells) + 4 * (k - 1), "word") = table[k]

(* The whole kernel is where it was loaded.                                *)
KernelThere(mem) == At(mem, KernelBase, System, Len(System))

(* What RAM holds has an address that is a word. *)
LEMMA RamIsWord == ASSUME NEW a \in Nat, a <= RamSize PROVE a \in Word /\ Wrap(a) = a
<1>1. Mod("word") \in Nat \ {0} /\ a \in 0 .. Mod("word") - 1
  <2>1. RamSize < Mod("word")
    BY MachineAssumption, ModValues
  <2> QED BY <2>1, ModValues, MachineAssumption
<1>2. a % Mod("word") = a
  <2> DEFINE w == Mod("word")
  <2>1. w \in Nat \ {0} /\ a \in 0 .. w - 1
    BY <1>1
  <2> HIDE DEF w
  <2> QED BY <2>1, Whole DEF w
<1> QED BY <1>1, <1>2 DEF Word, Wrap

LEMMA LaunchFacts ==
  /\ StartupBase \in Nat /\ RamSize \in Nat /\ KernelBase \in Nat /\ Len(System) \in Nat /\ System \in Seq(Nat)
  /\ Payload \in Nat \ {0} /\ KernelBase + Len(System) <= StartupBase /\ HeaderSize = 36
BY LoaderAssumption, LaunchAssumption, AllocatorAssumption, MachineAssumption DEF HeaderSize

(* One entry of the table. *)
LEMMA RelocateEntry ==
  ASSUME NEW mem, NEW cells \in Nat, NEW table \in Seq(Nat), NEW b, NEW e, NEW l,
         Relocating(mem, cells, table, b, e, l), KernelThere(mem),
         \A k \in DOMAIN table : table[k] + 4 <= cells,
         NEW word, word = Wrap(b + Load(mem, e, "word")), NEW v
  PROVE  /\ Mapped(e, "word") /\ Mapped(word, "word")
         /\ KernelThere(Store(mem, word, "word", v))
         /\ Wrap(l - 1) = 0 \/ Relocating(Store(mem, word, "word", v), cells, table, b, Wrap(e + 4), Wrap(l - 1))
<1> DEFINE T == TableAt(cells)
           n == Len(table)
           k == n - l + 1
           after == Store(mem, word, "word", v)
<1>1. /\ StartupBase \in Nat /\ RamSize \in Nat /\ n \in Nat /\ b = StartupBase + 36 /\ b \in Nat
      /\ T = b + cells /\ T \in Nat /\ l \in 1 .. n /\ e = T + 4 * (n - l) /\ T + 4 * n <= RamSize
      /\ DOMAIN table = 1 .. n
  BY LaunchFacts DEF Relocating, TableAt
<1>2. \A j \in 1 .. n : Load(mem, T + 4 * (j - 1), "word") = table[j]
  BY <1>1 DEF Relocating
<1> HIDE DEF T, n
<1>3. k \in 1 .. n /\ e = T + 4 * (k - 1) /\ e \in Nat
  BY <1>1
<1>4. Load(mem, e, "word") = table[k]
  BY <1>2, <1>3
<1> HIDE DEF k
<1> DEFINE r == table[k]
<1>5. r \in Nat /\ r + 4 <= cells
  <2>1. k \in DOMAIN table
    BY <1>1, <1>3
  <2> QED BY <2>1
<1> HIDE DEF r
<1>6. word = b + r /\ word \in Nat /\ word + 4 <= T /\ StartupBase <= word
  <2>1. b + r \in Nat /\ b + r + 4 <= T /\ b + r <= RamSize
    BY <1>1, <1>5
  <2>2. word = Wrap(b + r)
    BY <1>4 DEF r
  <2> DEFINE x == b + r
  <2>3. x \in Nat /\ x <= RamSize /\ x + 4 <= T /\ word = Wrap(x) /\ StartupBase <= x
    BY <1>1, <1>5, <2>1, <2>2
  <2> HIDE DEF x
  <2>4. Wrap(x) = x
    BY <2>3, RamIsWord
  <2>5. word = x
    BY <2>3, <2>4
  <2> QED BY <2>3, <2>5 DEF x
<1>7. Mapped(e, "word") /\ Mapped(word, "word")
  BY <1>1, <1>3, <1>6 DEF Mapped, Bytes
<1>8. ASSUME NEW c \in Ram, c \notin word .. word + 3 PROVE after[c] = mem[c]
  BY <1>6, <1>8 DEF Store, Bytes
<1> HIDE DEF after
<1>9. KernelThere(after)
  <2> SUFFICES ASSUME NEW j \in DOMAIN System, j <= Len(System)
               PROVE  KernelBase + j - 1 \in Ram /\ after[KernelBase + j - 1] = System[j]
    BY DEF KernelThere, At
  <2> DEFINE c == KernelBase + j - 1
  <2>1. c \in Ram /\ mem[c] = System[j]
    BY DEF KernelThere, At
  <2>2. c < StartupBase /\ c \in Int
    BY LaunchFacts
  <2> HIDE DEF c
  <2>3. c \notin word .. word + 3
    BY <1>1, <1>6, <2>2
  <2> QED BY <1>8, <2>1, <2>3 DEF c
<1>10. CASE l = 1
  <2>1. Wrap(l - 1) = 0
    <3>1. 0 \in Nat /\ 0 <= RamSize /\ l - 1 = 0
      BY <1>1, <1>10
    <3> QED BY <3>1, RamIsWord
  <2> QED BY <1>7, <1>9, <2>1 DEF after
<1>11. CASE l # 1
  <2>1. l - 1 \in 1 .. n /\ l - 1 <= RamSize /\ l - 1 \in Nat
    BY <1>1, <1>11
  <2>2. Wrap(l - 1) = l - 1
    BY <2>1, RamIsWord
  <2>3. e + 4 \in Nat /\ e + 4 <= RamSize /\ e + 4 = T + 4 * (n - (l - 1))
    BY <1>1, <1>3
  <2>4. Wrap(e + 4) = T + 4 * (n - (l - 1))
    <3>1. Wrap(e + 4) = e + 4
      <4> DEFINE x == e + 4
      <4>1. x \in Nat /\ x <= RamSize
        BY <2>3
      <4> HIDE DEF x
      <4>2. Wrap(x) = x
        BY <4>1, RamIsWord
      <4> QED BY <4>2 DEF x
    <3> QED BY <2>3, <3>1
  <2>5. ASSUME NEW j \in 1 .. n PROVE Load(after, T + 4 * (j - 1), "word") = table[j]
    <3> DEFINE a == T + 4 * (j - 1)
    <3>1. a \in Nat /\ a >= T /\ a + 4 <= RamSize
      BY <1>1
    <3>2. Load(mem, a, "word") = table[j]
      BY <1>2
    <3> HIDE DEF a
    <3>3. ASSUME NEW c \in {a, a + 1, a + 2, a + 3} PROVE after[c] = mem[c]
      <4>1. c \in Ram
        BY <1>1, <3>1 DEF Ram
      <4>2. c \notin word .. word + 3
        BY <1>1, <1>6, <3>1
      <4> QED BY <1>8, <4>1, <4>2
    <3>4. after[a] = mem[a] /\ after[a + 1] = mem[a + 1] /\ after[a + 2] = mem[a + 2] /\ after[a + 3] = mem[a + 3]
      BY <3>3
    <3>5. Load(after, a, "word") = Load(mem, a, "word")
      BY <3>4 DEF Load
    <3> QED BY <3>2, <3>5 DEF a
  <2>6. Relocating(after, cells, table, b, Wrap(e + 4), Wrap(l - 1))
    <3> DEFINE l2 == Wrap(l - 1)
               e2 == Wrap(e + 4)
    <3>1. l2 \in 1 .. n /\ e2 = T + 4 * (n - l2)
      BY <2>1, <2>2, <2>4
    <3> HIDE DEF l2, e2
    <3>2. Relocating(after, cells, table, b, e2, l2)
      BY <1>1, <2>5, <3>1 DEF Relocating, T, n, HeaderSize
    <3> QED BY <3>2 DEF l2, e2
  <2> QED BY <1>7, <1>9, <2>6 DEF after
<1> QED BY <1>1, <1>10, <1>11
-----------------------------------------------------------------------------
(* An FXF file in memory is ready for that loop.                           *)

(* A RYFS disk that boots into the program. *)
Boots(d, prog, src) ==
  /\ d.format = "ryfs" /\ prog.fxf /\ ForFxf(src)
  /\ {SystemName, ConfigName, ProgramName} \subseteq DOMAIN d.content
  /\ Pad(d.content[ConfigName], NameLength) = ProgramName

LEMMA BootableBoots == disk.format = "ryfs" /\ Bootable => Boots(disk, program, source)
<1> SUFFICES ASSUME disk.format = "ryfs", Bootable PROVE Boots(disk, program, source)
  OBVIOUS
<1>1. /\ program.fxf /\ ForItsFormat
      /\ {SystemName, ConfigName, ProgramName} \subseteq DOMAIN disk.content
      /\ Pad(disk.content[ConfigName], NameLength) = ProgramName
  BY DEF Bootable
<1> QED BY <1>1, FxfSource DEF Boots

(* The file of a program that has references that are relocated. *)
LEMMA WrittenFile ==
  ASSUME AsmInv, stage = "done", program.fxf, ForFxf(source)
  PROVE  /\ file = FxfFile /\ relocs # <<>> /\ code \in Seq(Nat) /\ relocs \in Seq(Nat)
         /\ \A k \in DOMAIN relocs : relocs[k] + 4 <= Len(code)
<1>1. file = FxfFile /\ Names = {} /\ code \in Seq(Nat) /\ relocs \in Seq(Nat) /\ line = Len(source) + 1
      /\ source \in Seq(Statements) /\ \A k \in DOMAIN relocs : relocs[k] + 4 <= Len(code)
  BY DEF AsmInv, AsmTypeOK
<1>2. PICK i \in DOMAIN source : \E o \in LabelsOf(source[i]) : ~ConstIn(source, o.v)
  BY DEF ForFxf
<1>3. i \in 1 .. line - 1
  BY <1>1
<1>4. relocs # <<>>
  BY <1>1, <1>2, <1>3 DEF AsmInv
<1> QED BY <1>1, <1>4

(* Such a file in memory is ready to be relocated. *)
LEMMA ParsedFile ==
  ASSUME code \in Seq(Nat), relocs \in Seq(Nat), relocs # <<>>,
         \A k \in DOMAIN relocs : relocs[k] + 4 <= Len(code),
         At(memory, StartupBase, FxfFile, Len(FxfFile))
  PROVE  /\ RelocSize \div 4 = Len(relocs)
         /\ Relocating(memory, Len(code), relocs, Wrap(StartupBase + CodePointer),
                       Wrap(StartupBase + RelocPointer), RelocSize \div 4)
<1> DEFINE text == FxfFile
           n == Len(code)
           r == Len(relocs)
           len == Len(text)
<1>1. n \in Nat /\ r \in Nat \ {0} /\ DOMAIN relocs = 1 .. r
  OBVIOUS
<1>2. /\ text \in Seq(Nat) /\ len = 36 + n + 4 * r
      /\ FieldAt(text, 8, 36) /\ FieldAt(text, 28, 4 * r) /\ FieldAt(text, 32, 36 + n)
      /\ \A k \in DOMAIN relocs : FieldAt(text, 36 + n + 4 * (k - 1), relocs[k])
  BY FileIs DEF HeaderSize
<1>3. At(memory, StartupBase, text, Len(text)) /\ len = Len(text)
  OBVIOUS
<1> HIDE DEF text, n, r
<1>4. StartupBase + len <= RamSize /\ StartupBase \in Nat /\ RamSize \in Nat /\ len \in Nat
  <2>1. len \in DOMAIN text /\ len <= Len(text) /\ len \in Nat
    BY <1>1, <1>2
  <2>2. StartupBase + len - 1 \in Ram
    BY <1>3, <2>1 DEF At
  <2>3. StartupBase \in Nat /\ RamSize \in Nat
    BY LaunchFacts
  <2> HIDE DEF len
  <2> QED BY <2>1, <2>2, <2>3 DEF Ram
<1> HIDE DEF len
<1>5. ASSUME NEW at \in Nat, at + 4 <= len, NEW v \in Nat, v <= RamSize, FieldAt(text, at, v)
      PROVE  Load(memory, StartupBase + at, "word") = v
  <2>1. v \in Word
    BY <1>5, RamIsWord
  <2>2. At(memory, StartupBase, text, Len(text)) /\ at + 4 <= Len(text)
    BY <1>3, <1>5
  <2>3. text \in Seq(Nat) /\ StartupBase \in Nat
    BY <1>2, <1>4
  <2> QED BY <1>5, <2>1, <2>2, <2>3, LoadsField
<1>6. CodePointer = 36
  <2>1. 8 \in Nat /\ 8 + 4 <= len /\ 36 \in Nat /\ 36 <= RamSize
    BY <1>1, <1>2, <1>4
  <2>2. Load(memory, StartupBase + 8, "word") = 36
    BY <1>2, <1>5, <2>1
  <2> QED BY <2>2 DEF CodePointer
<1>7. RelocSize = 4 * r
  <2> DEFINE v == 4 * r
  <2>1. 28 \in Nat /\ 28 + 4 <= len /\ v \in Nat /\ v <= RamSize /\ FieldAt(text, 28, v)
    BY <1>1, <1>2, <1>4
  <2> HIDE DEF v
  <2>2. Load(memory, StartupBase + 28, "word") = v
    BY <1>5, <2>1
  <2> QED BY <2>2 DEF RelocSize, v
<1>8. RelocPointer = 36 + n
  <2> DEFINE v == 36 + n
  <2>1. 32 \in Nat /\ 32 + 4 <= len /\ v \in Nat /\ v <= RamSize /\ FieldAt(text, 32, v)
    BY <1>1, <1>2, <1>4
  <2> HIDE DEF v
  <2>2. Load(memory, StartupBase + 32, "word") = v
    BY <1>5, <2>1
  <2> QED BY <2>2 DEF RelocPointer, v
<1>9. RelocSize \div 4 = r
  <2>1. 4 * r \in Int /\ r \in Int /\ 0 \in 0 .. 4 - 1 /\ 4 * r = 4 * r + 0 /\ 4 \in Nat \ {0}
    BY <1>1
  <2>2. (4 * r) \div 4 = r
    BY <2>1, DividesOnce
  <2> QED BY <1>7, <2>2
<1>10. \A a \in Nat : a <= len => Wrap(StartupBase + a) = StartupBase + a
  <2> TAKE a \in Nat
  <2> HAVE a <= len
  <2> DEFINE x == StartupBase + a
  <2>1. x \in Nat /\ x <= RamSize
    BY <1>4
  <2> HIDE DEF x
  <2>2. Wrap(x) = x
    BY <2>1, RamIsWord
  <2> QED BY <2>2 DEF x
<1>11. Wrap(StartupBase + CodePointer) = StartupBase + 36 /\ Wrap(StartupBase + RelocPointer) = StartupBase + (36 + n)
  <2>1. 36 \in Nat /\ 36 <= len /\ 36 + n \in Nat /\ 36 + n <= len
    BY <1>1, <1>2
  <2> QED BY <1>6, <1>8, <1>10, <2>1
<1>12. ASSUME NEW k \in 1 .. r
       PROVE  Load(memory, TableAt(n) + 4 * (k - 1), "word") = relocs[k]
  <2> DEFINE at == 36 + n + 4 * (k - 1)
             v == relocs[k]
  <2>1. v \in Nat /\ v + 4 <= n
    <3>1. k \in DOMAIN relocs
      BY <1>1
    <3>2. v \in Nat
      BY <3>1
    <3> QED BY <3>1, <3>2 DEF n
  <2>2. FieldAt(text, at, v)
    BY <1>1, <1>2
  <2> HIDE DEF v
  <2>3. at \in Nat /\ at + 4 <= len /\ v <= RamSize /\ TableAt(n) + 4 * (k - 1) = StartupBase + at
    BY <1>1, <1>2, <1>4, <2>1 DEF TableAt, HeaderSize
  <2> HIDE DEF at
  <2>4. Load(memory, StartupBase + at, "word") = v
    BY <1>5, <2>1, <2>2, <2>3
  <2> QED BY <2>3, <2>4 DEF v
<1>13. TableAt(n) = StartupBase + (36 + n) /\ TableAt(n) \in Nat /\ TableAt(n) + 4 * r <= RamSize
  BY <1>1, <1>2, <1>4 DEF TableAt, HeaderSize
<1>14. Relocating(memory, n, relocs, StartupBase + 36, StartupBase + (36 + n), r)
  <2>1. r \in 1 .. r /\ r - r = 0 /\ TableAt(n) + 4 * 0 = TableAt(n)
    BY <1>1, <1>13
  <2> QED BY <1>1, <1>12, <1>13, <2>1 DEF Relocating, HeaderSize, r
<1> QED BY <1>9, <1>11, <1>14 DEF n, r
-----------------------------------------------------------------------------
(* The inductive invariant of the boot.                                    *)

(* The inductive invariant of the boot process. *)
SystemOnDisk ==
  disk.format = "ryfs" =>
    /\ SystemName \in DOMAIN disk.content => disk.content[SystemName] = System
    /\ ProgramName \in DOMAIN disk.content => disk.content[ProgramName] = file

Started ==
  /\ pc = "off" => disk = NoDisk
  /\ pc # "off" => stage = "done"
  /\ pc = "raw" => disk.format = "raw"

BootNames ==
  /\ pc \in {"off", "desktop", "system", "kernel"} => name = ConfigName
  /\ pc \in {"configured", "startup", "parse"} /\ Boots(disk, program, source) => name = ProgramName

FilesArrive ==
  /\ pc = "system" => Arriving(disk, memory, sector, dest, SystemName, KernelBase)
  /\ pc = "startup" => Arriving(disk, memory, sector, dest, name, StartupBase)
  /\ pc = "parse" => /\ disk.format = "ryfs" /\ name \in DOMAIN disk.content
                     /\ At(memory, StartupBase, disk.content[name], Len(disk.content[name]))

KernelEntered ==
  /\ pc \in {"kernel", "configured", "startup", "parse"} => KernelThere(memory)
  /\ pc \in {"relocate", "running"} /\ Boots(disk, program, source) => KernelThere(memory)

RelocatesCode ==
  pc = "relocate" /\ Boots(disk, program, source) =>
    Relocating(memory, Len(code), relocs, base, entry, left)

BootInv ==
  Formatted(disk) /\ SystemOnDisk /\ Started /\ BootNames /\ FilesArrive /\ KernelEntered /\ RelocatesCode

LEMMA InitBoots == Init => BootInv
<1> SUFFICES ASSUME Init PROVE BootInv
  OBVIOUS
<1>1. disk = NoDisk /\ pc = "off" /\ name = ConfigName /\ NoDisk.format = "none"
  BY DEF Init, LoaderInit, NoDisk
<1> QED BY <1>1 DEF BootInv, Formatted, SystemOnDisk, Started, BootNames, FilesArrive, KernelEntered, RelocatesCode

LEMMA AssembleBoots == BootInv /\ Assemble => BootInv'
<1> SUFFICES ASSUME BootInv, Assemble PROVE BootInv'
  OBVIOUS
<1>1. UNCHANGED <<disk, pc, name>>
  BY DEF Assemble, lvars, kernel
<1>2. stage # "done"
  BY DEF Assemble, AssemblerNext, Include, Included, LabelDefine, Constant, Origin, Data, Blob, Fill, Instruction,
         Panic, Assembled, Backpatch, Write, Reading
<1>3. pc = "off" /\ disk = NoDisk /\ NoDisk.format = "none"
  BY <1>2 DEF BootInv, Started, NoDisk
<1> QED BY <1>1, <1>3 DEF BootInv, Formatted, SystemOnDisk, Started, BootNames, FilesArrive, KernelEntered, RelocatesCode

LEMMA DiskHasFiles ==
  ASSUME NEW e, Disk(e).format = "ryfs"
  PROVE  /\ SystemName \in DOMAIN Disk(e).content => Disk(e).content[SystemName] = System
         /\ ProgramName \in DOMAIN Disk(e).content => Disk(e).content[ProgramName] = file
<1>1. e.format = "ryfs"
  <2>1. CASE e.format = "raw"
    BY <2>1 DEF Disk
  <2>2. CASE e.format # "raw" /\ e.format # "ryfs"
    BY <2>2 DEF Disk
  <2> QED BY <2>1, <2>2
<1> DEFINE content == [f \in e.files |-> CASE f = SystemName -> System
                                           [] f = ConfigName -> e.config
                                           [] f = ProgramName -> file]
<1>2. Disk(e) = [format |-> "ryfs", sectors |-> Layout, content |-> content]
  BY <1>1 DEF Disk
<1>3. Disk(e).content = content
  <2> HIDE DEF content
  <2> QED BY <1>2
<1>4. ASSUME SystemName \in e.files PROVE content[SystemName] = System
  BY <1>4, LaunchAssumption
<1>5. ASSUME ProgramName \in e.files PROVE content[ProgramName] = file
  BY <1>5, LaunchAssumption
<1> QED BY <1>3, <1>4, <1>5

LEMMA DiskPutIn ==
  ASSUME BootInv, NEW d \in {NoDisk, disk} \cup Disks, disk' = d, UNCHANGED file
  PROVE  Formatted(disk)' /\ SystemOnDisk'
<1>1. CASE d = NoDisk
  BY <1>1 DEF Formatted, NoDisk, SystemOnDisk
<1>2. CASE d = disk
  BY <1>2 DEF BootInv, SystemOnDisk
<1>3. CASE d \in Disks
  <2>1. PICK e : d = Disk(e) /\ Formatted(d)
    BY <1>3 DEF Disks
  <2>2. d.format = "ryfs" =>
          /\ SystemName \in DOMAIN d.content => d.content[SystemName] = System
          /\ ProgramName \in DOMAIN d.content => d.content[ProgramName] = file
    BY <2>1, DiskHasFiles
  <2> QED BY <2>1, <2>2 DEF SystemOnDisk
<1> QED BY <1>1, <1>2, <1>3

LEMMA StartBoots == BootInv /\ Start => BootInv'
<1> SUFFICES ASSUME BootInv, Start PROVE BootInv'
  OBVIOUS
<1>1. PICK d \in {NoDisk} \cup Disks : PowerOn(d)
  BY DEF Start
<1>2. disk' = d /\ pc = "off" /\ pc' = "desktop" /\ name' = name /\ file' = file /\ stage' = stage /\ stage = "done"
  BY <1>1 DEF PowerOn, kernel, Start, avars
<1>3. Formatted(disk)' /\ SystemOnDisk'
  BY <1>1, <1>2, DiskPutIn
<1> QED BY <1>2, <1>3 DEF BootInv, Started, BootNames, FilesArrive, KernelEntered, RelocatesCode

LEMMA StartsArriving ==
  ASSUME NEW d, NEW mem, NEW f, NEW start \in Nat, Formatted(d), Open(d, f) # 0
  PROVE  Arriving(d, mem, Open(d, f), start, f, start)
<1>1. d.format = "ryfs" /\ f \in DOMAIN d.content /\ Open(d, f) = d.sectors[f][1] /\ d.content[f] \in Seq(Nat)
  BY DEF Open, Formatted
<1>2. 1 \in Parts(d.content[f])
  BY <1>1, PartsOf
<1>3. (1 - 1) * Payload = 0 /\ start + (1 - 1) * Payload = start
  BY LaunchFacts
<1>4. At(mem, start, d.content[f], (1 - 1) * Payload)
  BY <1>1, <1>3 DEF At
<1> QED BY <1>1, <1>2, <1>3, <1>4 DEF Arriving

(* Only a raw disk looks like one. *)
LEMMA LooksRaw == \A d : Looks(d) = "raw" => d.format = "raw"
BY DEF Looks

LEMMA InsertBoots == BootInv /\ Insert => BootInv'
<1> SUFFICES ASSUME BootInv, Insert PROVE BootInv'
  OBVIOUS
<1>1. PICK d \in {disk} \cup Disks : Turn(d)
  BY DEF Insert
<1>2. pc = "desktop" /\ disk' = d /\ name' = name /\ name = ConfigName /\ file' = file /\ stage' = stage /\ stage = "done"
  BY <1>1 DEF Turn, BootRaw, BootFat, BootRyfs, BootMistaken, NoBoot, kernel, Insert, avars, BootInv, BootNames, Started
<1>3. Formatted(disk)' /\ SystemOnDisk'
  BY <1>2, DiskPutIn
<1>4. CASE BootRyfs(d)
  <2>1. pc' = "system" /\ dest' = KernelBase /\ sector' = Open(d, SystemName) /\ Open(d, SystemName) # 0
    BY <1>4 DEF BootRyfs
  <2>2. Arriving(d, memory', Open(d, SystemName), KernelBase, SystemName, KernelBase)
    BY <1>2, <1>3, <2>1, LaunchFacts, StartsArriving
  <2> QED BY <1>2, <1>3, <2>1, <2>2 DEF BootInv, Started, BootNames, FilesArrive, KernelEntered, RelocatesCode
<1>5. CASE BootRaw(d) \/ BootFat(d) \/ BootMistaken(d) \/ NoBoot(d)
  <2>1. pc' \in {"raw", "fat", "astray", "desktop"} /\ (pc' = "raw" => disk'.format = "raw")
    BY <1>2, <1>5, LooksRaw DEF BootRaw, BootFat, BootMistaken, NoBoot
  <2> QED BY <1>2, <1>3, <2>1 DEF BootInv, Started, BootNames, FilesArrive, KernelEntered, RelocatesCode
<1> QED BY <1>1, <1>4, <1>5 DEF Turn

LEMMA SystemSectorBoots ==
  ASSUME BootInv, UNCHANGED avars, SystemSector
  PROVE  BootInv'
<1>1. pc = "system" /\ Formatted(disk) /\ Arriving(disk, memory, sector, dest, SystemName, KernelBase) /\ WholeFileSector("kernel")
  BY DEF SystemSector, BootInv, FilesArrive
<1>2. /\ disk' = disk /\ name' = name
      /\ \/ pc' = "dead"
         \/ pc' = pc /\ Arriving(disk, memory', sector', dest', SystemName, KernelBase)
         \/ pc' = "kernel" /\ At(memory', KernelBase, disk.content[SystemName], Len(disk.content[SystemName]))
  BY <1>1, LaunchFacts, SectorArrives DEF kernel
<1>3. disk.content[SystemName] = System
  BY <1>1 DEF BootInv, SystemOnDisk, Arriving
<1>4. file' = file /\ stage' = stage /\ stage = "done" /\ name = ConfigName
  BY <1>1 DEF avars, BootInv, Started, BootNames
<1>5. Formatted(disk)' /\ SystemOnDisk'
  BY <1>2, <1>4 DEF BootInv, SystemOnDisk
<1>6. CASE pc' = "dead"
  BY <1>4, <1>5, <1>6 DEF BootInv, Started, BootNames, FilesArrive, KernelEntered, RelocatesCode
<1>7. CASE pc' = pc /\ Arriving(disk, memory', sector', dest', SystemName, KernelBase)
  BY <1>1, <1>2, <1>4, <1>5, <1>7 DEF BootInv, Started, BootNames, FilesArrive, KernelEntered, RelocatesCode
<1>8. CASE pc' = "kernel" /\ At(memory', KernelBase, disk.content[SystemName], Len(disk.content[SystemName]))
  <2>1. KernelThere(memory')
    BY <1>3, <1>8 DEF KernelThere
  <2> QED BY <1>2, <1>4, <1>5, <1>8, <2>1 DEF BootInv, Started, BootNames, FilesArrive, KernelEntered, RelocatesCode
<1> QED BY <1>2, <1>6, <1>7, <1>8

LEMMA ConfigName1 ==
  ASSUME Formatted(disk), Boots(disk, program, source)
  PROVE  SubSeq(Sector(disk, Open(disk, ConfigName)).cells, 1, NameLength) = ProgramName
<1> DEFINE cells == Sector(disk, Open(disk, ConfigName)).cells
<1> DEFINE text == disk.content[ConfigName]
<1>1. disk.format = "ryfs" /\ ConfigName \in DOMAIN disk.content /\ text \in Seq(Nat) /\ Pad(text, NameLength) = ProgramName
      /\ 1 \in Parts(text)
  <2>1. disk.format = "ryfs" /\ ConfigName \in DOMAIN disk.content /\ text \in Seq(Nat) /\ Pad(text, NameLength) = ProgramName
    BY DEF Boots, Formatted
  <2> QED BY <2>1, PartsOf
<1>2. Open(disk, ConfigName) = disk.sectors[ConfigName][1] /\ disk.sectors[ConfigName][1] # 0
  BY <1>1 DEF Open, Formatted
<1>3. cells = PartCells(disk, ConfigName, 1)
  <2>1. Sector(disk, disk.sectors[ConfigName][1])
          = [next |-> NextPart(disk, ConfigName, 1), cells |-> PartCells(disk, ConfigName, 1)]
    BY <1>1, SectorOfPart
  <2> QED BY <1>2, <2>1
<1>4. cells = Pad(SubSeq(text, (1 - 1) * Payload + 1, Len(text)), Payload)
  BY <1>3 DEF PartCells
<1> HIDE DEF text, cells
<1>5. SubSeq(text, (1 - 1) * Payload + 1, Len(text)) = text
  <2>1. (1 - 1) * Payload + 1 = 1
    BY LaunchFacts
  <2>2. SubSeq(text, 1, Len(text)) = text
    BY <1>1
  <2> QED BY <2>1, <2>2
<1>6. cells = Pad(text, Payload) /\ NameLength \in 1 .. Payload /\ Payload \in Nat
  BY <1>4, <1>5, LoaderAssumption
<1>7. SubSeq(cells, 1, NameLength) = Pad(text, NameLength)
  BY <1>6 DEF Pad
<1> QED BY <1>1, <1>7 DEF cells

LEMMA ReadConfigBoots ==
  ASSUME BootInv, UNCHANGED avars, ReadConfig
  PROVE  BootInv'
<1>1. /\ UNCHANGED <<disk, memory, file, stage, program, source>> /\ pc = "kernel" /\ stage = "done"
      /\ Formatted(disk) /\ SystemOnDisk /\ KernelThere(memory) /\ name = ConfigName
  BY DEF ReadConfig, avars, input, BootInv, Started, BootNames, KernelEntered
<1>2. Formatted(disk)' /\ SystemOnDisk'
  BY <1>1 DEF SystemOnDisk
<1>3. CASE Open(disk, name) = 0
  <2>1. pc' = "error"
    BY <1>3 DEF ReadConfig
  <2> QED BY <1>1, <1>2, <2>1 DEF BootInv, Started, BootNames, FilesArrive, KernelEntered, RelocatesCode
<1>4. CASE Open(disk, name) # 0
  <2>1. pc' = "configured" /\ name' = SubSeq(Sector(disk, Open(disk, name)).cells, 1, NameLength)
    BY <1>4 DEF ReadConfig
  <2>2. Boots(disk, program, source) => name' = ProgramName
    BY <1>1, <2>1, ConfigName1
  <2> QED BY <1>1, <1>2, <2>1, <2>2 DEF BootInv, Started, BootNames, FilesArrive, KernelEntered, RelocatesCode
<1> QED BY <1>3, <1>4

LEMMA OpenStartupBoots ==
  ASSUME BootInv, UNCHANGED avars, OpenStartup
  PROVE  BootInv'
<1>1. /\ UNCHANGED <<disk, memory, name, file, stage, program, source>> /\ pc = "configured" /\ stage = "done"
      /\ Formatted(disk) /\ SystemOnDisk /\ KernelThere(memory)
      /\ (Boots(disk, program, source) => name = ProgramName)
  BY DEF OpenStartup, kernel, avars, input, BootInv, Started, BootNames, KernelEntered
<1>2. Formatted(disk)' /\ SystemOnDisk'
  BY <1>1 DEF SystemOnDisk
<1>3. sector' = Open(disk, name) /\ dest' = StartupBase /\ pc' = IF sector' = 0 THEN "error" ELSE "startup"
  BY DEF OpenStartup
<1>4. CASE sector' = 0
  BY <1>1, <1>2, <1>3, <1>4 DEF BootInv, Started, BootNames, FilesArrive, KernelEntered, RelocatesCode
<1>5. CASE sector' # 0
  <2>1. Arriving(disk, memory', Open(disk, name), StartupBase, name, StartupBase)
    BY <1>1, <1>3, <1>5, LaunchFacts, StartsArriving
  <2> QED BY <1>1, <1>2, <1>3, <1>5, <2>1 DEF BootInv, Started, BootNames, FilesArrive, KernelEntered, RelocatesCode
<1> QED BY <1>4, <1>5

LEMMA StartupSectorBoots ==
  ASSUME BootInv, UNCHANGED avars, StartupSector
  PROVE  BootInv'
<1>1. /\ pc = "startup" /\ Formatted(disk) /\ Arriving(disk, memory, sector, dest, name, StartupBase)
      /\ WholeFileSector("parse") /\ KernelThere(memory)
      /\ UNCHANGED <<file, stage, program, source>> /\ stage = "done"
      /\ (Boots(disk, program, source) => name = ProgramName)
  BY DEF StartupSector, BootInv, FilesArrive, KernelEntered, avars, input, Started, BootNames
<1>2. /\ disk' = disk /\ name' = name
      /\ \/ pc' = "dead"
         \/ /\ pc' = pc /\ Arriving(disk, memory', sector', dest', name, StartupBase)
            /\ memory' = Written(memory, dest, buffer'.cells) /\ Len(buffer'.cells) = Payload
         \/ /\ pc' = "parse" /\ At(memory', StartupBase, disk.content[name], Len(disk.content[name]))
            /\ memory' = Written(memory, dest, buffer'.cells) /\ Len(buffer'.cells) = Payload
  BY <1>1, LaunchFacts, SectorArrives DEF kernel
<1>3. Formatted(disk)' /\ SystemOnDisk'
  BY <1>1, <1>2 DEF BootInv, SystemOnDisk
<1>4. dest \in Nat /\ KernelBase + Len(System) <= dest
  <2>1. PICK i \in Parts(disk.content[name]) : dest = StartupBase + (i - 1) * Payload
    BY <1>1 DEF Arriving
  <2>2. i \in Nat \ {0}
    <3>1. disk.content[name] \in Seq(Nat)
      BY <1>1 DEF Arriving, Formatted
    <3> QED BY <2>1, <3>1, PartsOf
  <2>3. (i - 1) * Payload \in Nat
    <3>1. i - 1 \in Nat
      BY <2>2
    <3> QED BY <3>1, LaunchFacts
  <2> QED BY <2>1, <2>3, LaunchFacts
<1>5. ASSUME NEW cells, Len(cells) = Payload PROVE KernelThere(Written(memory, dest, cells))
  <2>1. Len(cells) \in Nat /\ dest \in Int /\ At(memory, KernelBase, System, Len(System))
    BY <1>1, <1>4, <1>5, LaunchFacts DEF KernelThere
  <2> QED BY <1>4, <2>1, LaunchFacts, WrittenElsewhere DEF KernelThere
<1>6. disk.format = "ryfs" /\ name \in DOMAIN disk.content
  BY <1>1 DEF Arriving
<1>7. CASE pc' = "dead"
  BY <1>1, <1>3, <1>7 DEF BootInv, Started, BootNames, FilesArrive, KernelEntered, RelocatesCode
<1>8. CASE /\ pc' = pc /\ Arriving(disk, memory', sector', dest', name, StartupBase)
           /\ memory' = Written(memory, dest, buffer'.cells) /\ Len(buffer'.cells) = Payload
  <2>1. KernelThere(memory')
    BY <1>5, <1>8
  <2> QED BY <1>1, <1>2, <1>3, <1>8, <2>1 DEF BootInv, Started, BootNames, FilesArrive, KernelEntered, RelocatesCode
<1>9. CASE /\ pc' = "parse" /\ At(memory', StartupBase, disk.content[name], Len(disk.content[name]))
           /\ memory' = Written(memory, dest, buffer'.cells) /\ Len(buffer'.cells) = Payload
  <2>1. KernelThere(memory')
    BY <1>5, <1>9
  <2> QED BY <1>1, <1>2, <1>3, <1>6, <1>9, <2>1 DEF BootInv, Started, BootNames, FilesArrive, KernelEntered, RelocatesCode
<1> QED BY <1>2, <1>7, <1>8, <1>9
-----------------------------------------------------------------------------
(* The steps of the kernel and of the program it runs.                     *)

(* The header is the one that fox32asm wrote.                              *)
LEMMA ParseHeaderBoots ==
  ASSUME AsmInv, BootInv, UNCHANGED avars, ParseHeader
  PROVE  BootInv'
<1>1. /\ UNCHANGED <<disk, memory, name, file, stage, program, source, code, relocs>> /\ pc = "parse" /\ stage = "done"
      /\ pc' = "relocate" /\ Formatted(disk) /\ SystemOnDisk /\ KernelThere(memory)
  BY DEF ParseHeader, avars, input, output, BootInv, Started, KernelEntered
<1>2. Formatted(disk)' /\ SystemOnDisk'
  BY <1>1 DEF SystemOnDisk
<1>3. ASSUME Boots(disk, program, source)
      PROVE  Relocating(memory, Len(code), relocs, base', entry', left')
  <2>1. program.fxf /\ ForFxf(source) /\ disk.format = "ryfs" /\ ProgramName \in DOMAIN disk.content
    BY <1>3 DEF Boots
  <2>2. /\ file = FxfFile /\ relocs # <<>> /\ code \in Seq(Nat) /\ relocs \in Seq(Nat)
        /\ \A k \in DOMAIN relocs : relocs[k] + 4 <= Len(code)
    BY <1>1, <2>1, WrittenFile
  <2>3. name = ProgramName /\ disk.content[name] = FxfFile
    BY <1>1, <1>3, <2>1, <2>2 DEF BootInv, BootNames, SystemOnDisk
  <2>4. At(memory, StartupBase, FxfFile, Len(FxfFile))
    BY <1>1, <2>3 DEF BootInv, FilesArrive
  <2>5. Relocating(memory, Len(code), relocs, Wrap(StartupBase + CodePointer),
                   Wrap(StartupBase + RelocPointer), RelocSize \div 4)
    BY <2>2, <2>4, ParsedFile
  <2> QED BY <2>5 DEF ParseHeader
<1> QED BY <1>1, <1>2, <1>3 DEF BootInv, Started, BootNames, FilesArrive, KernelEntered, RelocatesCode

LEMMA RelocateBoots ==
  ASSUME AsmInv, BootInv, UNCHANGED avars, Relocate
  PROVE  BootInv'
<1> DEFINE word == Wrap(base + Load(memory, entry, "word"))
           v == Wrap(Load(memory, word, "word") + base)
           mapped == Mapped(entry, "word") /\ Mapped(word, "word")
<1>1. /\ UNCHANGED <<disk, name, base, file, stage, program, source, code, relocs>> /\ pc = "relocate" /\ stage = "done"
      /\ Formatted(disk) /\ SystemOnDisk
  BY DEF Relocate, avars, input, output, BootInv, Started
<1>2. Formatted(disk)' /\ SystemOnDisk'
  BY <1>1 DEF SystemOnDisk
<1>3. CASE ~mapped
  <2>1. pc' = "dead"
    BY <1>3 DEF Relocate
  <2> QED BY <1>1, <1>2, <2>1 DEF BootInv, Started, BootNames, FilesArrive, KernelEntered, RelocatesCode
<1>4. CASE mapped
  <2>1. /\ memory' = Store(memory, word, "word", v) /\ entry' = Wrap(entry + 4) /\ left' = Wrap(left - 1)
        /\ pc' = IF left' = 0 THEN "running" ELSE "relocate"
    BY <1>4 DEF Relocate
  <2>2. ASSUME Boots(disk, program, source)
        PROVE  /\ KernelThere(memory')
               /\ left' = 0 \/ Relocating(memory', Len(code), relocs, base', entry', left')
    <3>1. program.fxf /\ ForFxf(source)
      BY <2>2 DEF Boots
    <3>2. code \in Seq(Nat) /\ relocs \in Seq(Nat) /\ \A k \in DOMAIN relocs : relocs[k] + 4 <= Len(code)
      BY <1>1, <3>1, WrittenFile
    <3>3. Relocating(memory, Len(code), relocs, base, entry, left) /\ KernelThere(memory)
      BY <1>1, <2>2 DEF BootInv, RelocatesCode, KernelEntered
    <3>4. Len(code) \in Nat
      BY <3>2
    <3> HIDE DEF v
    <3>5. KernelThere(Store(memory, word, "word", v))
          /\ (Wrap(left - 1) = 0
              \/ Relocating(Store(memory, word, "word", v), Len(code), relocs, base, Wrap(entry + 4), Wrap(left - 1)))
      BY <3>2, <3>3, <3>4, RelocateEntry
    <3> HIDE DEF word
    <3> QED BY <1>1, <2>1, <3>5
  <2> HIDE DEF word, v
  <2>3. pc' \in {"running", "relocate"} /\ (pc' = "relocate" => left' # 0)
    BY <2>1
  <2> QED BY <1>1, <1>2, <2>2, <2>3 DEF BootInv, Started, BootNames, FilesArrive, KernelEntered, RelocatesCode
<1> QED BY <1>3, <1>4

LEMMA RawSectorReadBoots ==
  ASSUME BootInv, UNCHANGED avars, RawSectorRead
  PROVE  BootInv'
<1>1. /\ UNCHANGED <<disk, name, file, stage, program, source>> /\ pc = "raw" /\ stage = "done"
      /\ Formatted(disk) /\ SystemOnDisk /\ disk.format = "raw"
  BY DEF RawSectorRead, avars, input, BootInv, Started
<1>2. pc' \in {"raw", "running", "dead"}
  BY DEF RawSectorRead
<1>3. ~Boots(disk, program, source)
  BY <1>1 DEF Boots
<1>4. Formatted(disk)' /\ SystemOnDisk'
  BY <1>1 DEF SystemOnDisk
<1> QED BY <1>1, <1>2, <1>3, <1>4 DEF BootInv, Started, BootNames, FilesArrive, KernelEntered, RelocatesCode

LEMMA RunBoots ==
  ASSUME AsmInv, BootInv, Run
  PROVE  BootInv'
<1>1. UNCHANGED avars
  BY DEF Run
<1> QED BY <1>1, SystemSectorBoots, ReadConfigBoots, OpenStartupBoots, StartupSectorBoots, ParseHeaderBoots,
           RelocateBoots, RawSectorReadBoots DEF Run, Loading

(* A block lies between the kernel and the limit. *)
LEMMA BlockTaken ==
  ASSUME AllocatorInv, TakeBlock
  PROVE  \/ memory' = memory
         \/ \E cells : /\ memory' = Written(memory, free, cells) /\ Len(cells) \in Nat /\ free \in Nat
                       /\ KernelBase + Len(System) <= free /\ free + Len(cells) <= MemoryTop
<1>1. CASE blocks' = blocks
  BY <1>1 DEF TakeBlock
<1>2. CASE blocks' # blocks
  <2> DEFINE taken == free' - free
             cells == [k \in 1 .. taken |-> Mod("byte") - Len(blocks')]
  <2>1. memory' = Written(memory, free, cells)
    BY <1>2 DEF TakeBlock
  <2>2. free \in Nat /\ KernelBase + Len(System) <= free
    BY LaunchAssumption DEF AllocatorInv, AllocatorTypeOK, FreeAbove
  <2>3. free' \in Nat /\ free <= free' /\ free' <= MemoryTop
    <3>1. PICK n \in Requests : Allocated(n)
      BY DEF TakeBlock, Allocate
    <3>2. ~Full(n) /\ free' = (free + n) % Words /\ n \in Nat
      BY <1>2, <3>1, LaunchAssumption DEF Allocated, alloc
    <3>3. n < MemoryTop - free /\ free < MemoryTop /\ MemoryTop < Words /\ Words \in Nat /\ MemoryTop \in Nat
      <4>1. free < MemoryTop /\ MemoryTop < Words /\ Words \in Nat /\ MemoryTop \in Nat
        BY AllocatorAssumption DEF AllocatorInv, FreeAbove
      <4>2. (MemoryTop - free) % Words = MemoryTop - free
        BY <2>2, <4>1, SmallRemainder
      <4> QED BY <2>2, <3>2, <4>1, <4>2 DEF Full
    <3>4. (free + n) % Words = free + n
      BY <2>2, <3>2, <3>3, SmallRemainder
    <3> QED BY <2>2, <3>2, <3>3, <3>4
  <2>4. taken \in Nat /\ free + taken <= MemoryTop
    BY <2>2, <2>3, Difference
  <2> HIDE DEF taken
  <2>5. Len(cells) = taken
    BY <2>4
  <2> HIDE DEF cells
  <2> QED BY <2>1, <2>2, <2>4, <2>5
<1> QED BY <1>1, <1>2

LEMMA TakeBlockBoots ==
  ASSUME AllocatorInv, BootInv, TakeBlock
  PROVE  BootInv'
<1>1. /\ UNCHANGED <<disk, pc, name, file, stage, program, source>> /\ pc = "running"
      /\ Formatted(disk) /\ SystemOnDisk
  BY DEF TakeBlock, kernel, avars, input, BootInv
<1>2. Formatted(disk)' /\ SystemOnDisk'
  BY <1>1 DEF SystemOnDisk
<1>3. ASSUME KernelThere(memory) PROVE KernelThere(memory')
  <2>1. CASE memory' = memory
    BY <1>3, <2>1
  <2>2. CASE memory' # memory
    <3>1. PICK cells : /\ memory' = Written(memory, free, cells) /\ Len(cells) \in Nat /\ free \in Nat
                       /\ KernelBase + Len(System) <= free
      BY <2>2, BlockTaken
    <3>2. At(Written(memory, free, cells), KernelBase, System, Len(System))
      BY <1>3, <3>1, LaunchFacts, WrittenElsewhere DEF KernelThere
    <3> QED BY <3>1, <3>2 DEF KernelThere
  <2> QED BY <2>1, <2>2
<1> QED BY <1>1, <1>2, <1>3 DEF BootInv, Started, BootNames, FilesArrive, KernelEntered, RelocatesCode

LEMMA UseFilesBoots ==
  ASSUME BootInv, UseFiles
  PROVE  BootInv'
<1>1. /\ UNCHANGED <<disk, memory, name, file, stage, program, source>> /\ pc = "running" /\ stage = "done"
      /\ Formatted(disk) /\ SystemOnDisk
  BY DEF UseFiles, OpenFile, Seek, Read, WriteSector, kernel, avars, input, BootInv, Started
<1>2. pc' \in {"running", "dead"}
  BY <1>1 DEF UseFiles, OpenFile, Seek, Read, WriteSector
<1>3. Formatted(disk)' /\ SystemOnDisk'
  BY <1>1 DEF SystemOnDisk
<1> QED BY <1>1, <1>2, <1>3 DEF BootInv, Started, BootNames, FilesArrive, KernelEntered, RelocatesCode

LEMMA BootStutter == BootInv /\ UNCHANGED vars => BootInv'
<1> SUFFICES ASSUME BootInv, UNCHANGED vars PROVE BootInv'
  OBVIOUS
<1>1. UNCHANGED <<disk, pc, memory, sector, dest, name, base, entry, left, file, stage, program, source, code, relocs>>
  BY DEF vars, lvars, avars, input, output, kernel, loading
<1> QED BY <1>1 DEF BootInv, SystemOnDisk, Started, BootNames, FilesArrive, KernelEntered, RelocatesCode

LEMMA NextBoots ==
  AsmInv /\ AllocatorInv /\ BootInv /\ [Next]_vars => BootInv'
BY AssembleBoots, StartBoots, InsertBoots, RunBoots, TakeBlockBoots, UseFilesBoots, BootStutter DEF Next

(* The kernel stays as it was on the disk, for every program, disk and     *)
(* sequence of calls (boot.asm 58-69, main.asm 50-89, allocator.asm 12-35).*)
THEOREM KernelKept == Spec => []KernelStays
<1>1. AllocatorInv /\ [AllocatorNext]_alloc => AllocatorInv'
  BY AllocateStep, AllocatorStutter DEF AllocatorNext, Allocate
<1>2. Init => AsmInv /\ AllocatorInv /\ BootInv
  BY AsmInit, InitAllocated, InitBoots DEF Init
<1>3. AsmInv /\ AllocatorInv /\ BootInv /\ [Next]_vars => (AsmInv /\ AllocatorInv /\ BootInv)'
  BY <1>1, AsmStep, LaunchCallsAllocator, NextBoots
<1>4. BootInv => KernelStays
  <2> SUFFICES ASSUME BootInv, disk.format = "ryfs",
                      \/ pc \in {"kernel", "configured", "startup", "parse"}
                      \/ pc \in {"relocate", "running"} /\ Bootable
               PROVE  \A k \in DOMAIN System : memory[KernelBase + k - 1] = System[k]
    BY DEF KernelStays
  <2>1. KernelThere(memory)
    BY BootableBoots DEF BootInv, KernelEntered
  <2>2. ASSUME NEW k \in DOMAIN System PROVE k <= Len(System)
    BY LaunchFacts
  <2> QED BY <2>1, <2>2 DEF KernelThere, At
<1> QED BY <1>2, <1>3, <1>4, PTL DEF Spec
-----------------------------------------------------------------------------
(* The code that the assembler lays down, one statement after the other,   *)
(* and the references in it.                                               *)

(* The address of the first cell: the origin in front, if there is one.    *)
Bottom(src) == IF Flat(src) THEN 0 ELSE src[1].operand.v

(* An origin comes first or pads, and a label in a data line is a word: the *)
(* addresses that the assembler counts are then those of the cells.        *)
Steady(src) ==
  /\ \A i \in DOMAIN src : src[i].kind = "org" /\ ~src[i].pad => i = 1
  /\ \A i \in DOMAIN src : src[i].kind = "data" /\ IsLabel(src[i].operand) => SizeBefore(src, i) = "word"

(* The cells of a statement at address a, before its labels are known.     *)
Emitted(l, a) ==
  CASE l.kind = "op" -> InstructionCells(l)
    [] l.kind = "data" -> OperandCells(l.operand, IF IsLabel(l.operand) THEN "word" ELSE l.size)
    [] l.kind = "blob" -> l.cells
    [] l.kind = "fill" -> [k \in 1 .. l.count.v |-> Low("byte", l.value.v)]
    [] l.kind = "org" -> IF l.pad THEN [k \in 1 .. l.operand.v - a |-> 0] ELSE <<>>
    [] l.kind \in {"label", "const", "include"} -> <<>>

(* What a statement that the assembler did not refuse is like.             *)
Sound(l, a) ==
  CASE l.kind = "op" -> l.dst.kind \notin {"imm", "label"}
    [] l.kind = "data" -> l.operand.kind = "imm" \/ (l.size = "word" /\ l.operand.kind = "label")
    [] l.kind = "fill" -> l.value.kind = "imm" /\ l.count.kind = "imm"
    [] l.kind = "org" -> l.operand.kind = "imm" /\ (l.pad => a <= l.operand.v)
    [] l.kind = "const" -> l.operand.kind = "imm"
    [] l.kind = "include" -> FALSE
    [] l.kind \in {"label", "blob"} -> TRUE

(* The reference of an operand whose instruction is at address a and cell  *)
(* c: the name and the place that waits for its address.                   *)
RefOf(o, s, a, c, index, relative) ==
  IF IsLabel(o)
    THEN {[name |-> o.v, place |-> [instruction |-> a, index |-> index, cell |-> c + index,
                                    size |-> Field(o, s), relative |-> relative]]}
    ELSE {}

(* The references of a statement. *)
RefsOf(l, a, c) ==
  CASE l.kind = "op" ->
         RefOf(l.src, l.size, a, c, 2, l.op \in Relatives)
           \cup RefOf(l.dst, l.size, a, c, 2 + Len(OperandCells(l.src, l.size)), l.op \in Relatives)
    [] l.kind = "data" -> RefOf(l.operand, "word", a, c, 0, FALSE)
    [] l.kind \notin {"op", "data"} -> {}

(* Those of the first n - 1 statements. *)
AllRefs(src, off, n) == UNION {RefsOf(src[i], Bottom(src) + off[i], off[i]) : i \in 1 .. n - 1}

(* The cells that a reference patches, and the cells that none patches.    *)
InField(q, c) == c \in q.place.cell + 1 .. q.place.cell + Bytes(q.place.size)
Free(P, c) == \A q \in P : ~InField(q, c)

(* off says how many cells lie before each of the first n - 1 statements   *)
(* and before what comes next.                                             *)
Offsets(src, off, n, text) ==
  /\ off \in [1 .. n -> Nat] /\ off[1] = 0 /\ off[n] = Len(text)
  /\ \A i \in 1 .. n - 1 :
       /\ Sound(src[i], Bottom(src) + off[i])
       /\ Emitted(src[i], Bottom(src) + off[i]) \in Seq(Nat)
       /\ off[i + 1] = off[i] + Len(Emitted(src[i], Bottom(src) + off[i]))
  /\ \A i, j \in 1 .. n : i <= j => off[i] <= off[j]

(* What is not patched is as it was emitted. *)
Encoded(src, off, n, P, text) ==
  \A i \in 1 .. n - 1 : \A j \in DOMAIN Emitted(src[i], Bottom(src) + off[i]) :
    Free(P, off[i] + j) => text[off[i] + j] = Emitted(src[i], Bottom(src) + off[i])[j]

(* References are in the text, where they are listed and apart.            *)
Ordered(q, r) == q.place.cell + Bytes(q.place.size) <= r.place.cell

RefsApart(P, b, end) ==
  /\ \A q \in P : /\ q.place \in Places /\ q.place.cell + Bytes(q.place.size) <= end
                  /\ q.place.instruction + q.place.index = b + q.place.cell
  /\ \A q, r \in P : q = r \/ Ordered(q, r) \/ Ordered(r, q)

(* The places in the table are those of the references, each one once.     *)
Waiting(P, map) ==
  /\ \A m \in DOMAIN map : map[m] \in Seq(Places)
  /\ \A q \in P : q.name \in DOMAIN map => \E k \in DOMAIN map[q.name] : map[q.name][k] = q.place
  /\ \A m \in DOMAIN map : \A k \in DOMAIN map[m] : [name |-> m, place |-> map[m][k]] \in P
  /\ \A m \in DOMAIN map : \A j, k \in DOMAIN map[m] : map[m][j] = map[m][k] => j = k

(* In the first pass all references wait. *)
WaitsFor(P, map, b, end) ==
  Waiting(P, map) /\ RefsApart(P, b, end) /\ \A q \in P : q.name \in DOMAIN map

(* What the definition of a name at address a gives it.                    *)
ValueAt(l, a) == [at |-> IF l.kind = "const" THEN l.operand.v ELSE a, const |-> l.kind = "const"]

(* A name has the value of the last of its definitions.                    *)
Values(src, off, n, defs) ==
  \A m \in DOMAIN defs :
    \E i \in 1 .. n - 1 :
      /\ Defines(src[i], m) /\ defs[m] = ValueAt(src[i], Bottom(src) + off[i])
      /\ \A j \in 1 .. n - 1 : Defines(src[j], m) => j <= i

(* A reference that waits no more holds the value of its name.             *)
Resolved(P, map, defs, text) ==
  \A q \in P : q.name \notin DOMAIN map =>
    /\ q.name \in DOMAIN defs
    /\ \A j \in 1 .. Bytes(q.place.size) :
         text[q.place.cell + j] = Cells(4, Distance(q.place, defs[q.name].at))[j]

(* The references that move with the program are in the relocation table,  *)
(* each one once.                                                          *)
Moved(q, map, defs) == q.name \notin DOMAIN map /\ ~defs[q.name].const

Listed(P, b, map, defs, table) ==
  /\ \A k \in DOMAIN table : \E q \in P : Moved(q, map, defs) /\ table[k] = b + q.place.cell
  /\ \A q \in P : Moved(q, map, defs) => \E k \in DOMAIN table : table[k] = b + q.place.cell
  /\ \A j, k \in DOMAIN table : table[j] = table[k] => j = k

(* The first n - 1 statements lie in the code one after the other.         *)
Laid(src, off, n, text, map, defs, table) ==
  LET P == AllRefs(src, off, n) IN
  /\ Offsets(src, off, n, text)
  /\ Encoded(src, off, n, P, text)
  /\ RefsApart(P, Bottom(src), Len(text))
  /\ Waiting(P, map)
  /\ Values(src, off, n, defs)
  /\ Resolved(P, map, defs, text)
  /\ Listed(P, Bottom(src), map, defs, table)

AllWait(src, off, n, map, table) ==
  table = <<>> /\ \A q \in AllRefs(src, off, n) : q.name \in DOMAIN map

(* The inductive invariant of the code: the statements that were passed    *)
(* lie in it one after the other; their references wait for the address of *)
(* their name or hold it, and are listed if they are relocated.            *)
LaidInv ==
  stage \in {"assemble", "backpatch", "done"} /\ Steady(source) =>
    /\ line # 1 \/ Flat(source) => Bottom(source) \in Nat /\ address = Bottom(source) + Len(code)
    /\ \E off \in [1 .. line -> Nat] :
         /\ Laid(source, off, line, code, targets, labels, relocs)
         /\ stage = "assemble" => AllWait(source, off, line, targets, relocs)
-----------------------------------------------------------------------------
(* One more statement is laid down.                                        *)

(* The offsets with one more. *)
More(off, n, end) == [i \in 1 .. n + 1 |-> IF i = n + 1 THEN end ELSE off[i]]

LEMMA MoreIs ==
  ASSUME NEW n \in Nat \ {0}, NEW off \in [1 .. n -> Nat], NEW end \in Nat
  PROVE  /\ More(off, n, end) \in [1 .. n + 1 -> Nat]
         /\ More(off, n, end)[n + 1] = end
         /\ \A i \in 1 .. n : More(off, n, end)[i] = off[i]
<1>1. \A i \in 1 .. n + 1 : i = n + 1 \/ i \in 1 .. n
  OBVIOUS
<1>2. n + 1 \in 1 .. n + 1 /\ \A i \in 1 .. n : i \in 1 .. n + 1 /\ i # n + 1
  OBVIOUS
<1>3. \A i \in 1 .. n + 1 : (IF i = n + 1 THEN end ELSE off[i]) \in Nat
  BY <1>1
<1> QED BY <1>2, <1>3 DEF More

LEMMA MoreOffsets ==
  ASSUME NEW src, NEW off, NEW n \in Nat \ {0}, NEW text \in Seq(Nat), Offsets(src, off, n, text),
         Sound(src[n], Bottom(src) + Len(text)), NEW e \in Seq(Nat), e = Emitted(src[n], Bottom(src) + Len(text)),
         NEW all, all = text \o e
  PROVE  Offsets(src, More(off, n, Len(all)), n + 1, all)
<1> DEFINE end == Len(all)
           off2 == More(off, n, end)
<1>1. end \in Nat /\ end = Len(text) + Len(e) /\ Len(text) \in Nat /\ Len(e) \in Nat
  OBVIOUS
<1>2. off \in [1 .. n -> Nat] /\ off[1] = 0 /\ off[n] = Len(text)
  BY DEF Offsets
<1> HIDE DEF end
<1>3. off2 \in [1 .. n + 1 -> Nat] /\ off2[n + 1] = end /\ \A i \in 1 .. n : off2[i] = off[i]
  <2>1. end \in Nat /\ off \in [1 .. n -> Nat] /\ n \in Nat \ {0}
    BY <1>1, <1>2
  <2> QED BY <2>1, MoreIs
<1> HIDE DEF off2
<1>4. 1 \in 1 .. n /\ n \in 1 .. n /\ \A i \in 1 .. (n + 1) - 1 : i \in 1 .. n - 1 \/ i = n
  OBVIOUS
<1>5. off2[1] = 0
  BY <1>2, <1>3, <1>4
<1>6. ASSUME NEW i \in 1 .. (n + 1) - 1
      PROVE  /\ Sound(src[i], Bottom(src) + off2[i]) /\ Emitted(src[i], Bottom(src) + off2[i]) \in Seq(Nat)
             /\ off2[i + 1] = off2[i] + Len(Emitted(src[i], Bottom(src) + off2[i]))
  <2>1. CASE i = n
    <3>1. off2[i] = Len(text) /\ off2[i + 1] = Len(text) + Len(e)
      BY <1>1, <1>2, <1>3, <1>4, <2>1
    <3> QED BY <2>1, <3>1
  <2>2. CASE i # n
    <3>1. i \in 1 .. n - 1 /\ i \in 1 .. n /\ i + 1 \in 1 .. n
      BY <2>2
    <3>2. off2[i] = off[i] /\ off2[i + 1] = off[i + 1]
      BY <1>3, <3>1
    <3> QED BY <3>1, <3>2 DEF Offsets
  <2> QED BY <2>1, <2>2
<1>7. ASSUME NEW i \in 1 .. n + 1, NEW j \in 1 .. n + 1, i <= j PROVE off2[i] <= off2[j]
  <2>1. CASE j \in 1 .. n
    <3>1. i \in 1 .. n
      BY <1>7, <2>1
    <3>2. off[i] <= off[j]
      BY <1>7, <2>1, <3>1 DEF Offsets
    <3> QED BY <1>3, <2>1, <3>1, <3>2
  <2>2. CASE j = n + 1 /\ i \in 1 .. n
    <3>1. off[i] <= off[n]
      BY <1>4, <2>2 DEF Offsets
    <3>2. off[i] \in Nat
      BY <1>2, <2>2
    <3> QED BY <1>1, <1>2, <1>3, <2>2, <3>1, <3>2
  <2>3. CASE j = n + 1 /\ i = n + 1
    BY <1>1, <1>3, <2>3
  <2> QED BY <2>1, <2>2, <2>3
<1> QED BY <1>3, <1>5, <1>6, <1>7 DEF Offsets, off2, end

LEMMA MoreRefs ==
  ASSUME NEW src, NEW off, NEW n \in Nat \ {0}, NEW off2, \A i \in 1 .. n : off2[i] = off[i]
  PROVE  \A q : q \in AllRefs(src, off2, n + 1) <=> q \in AllRefs(src, off, n) \/ q \in RefsOf(src[n], Bottom(src) + off[n], off[n])
<1>1. \A i : i \in 1 .. (n + 1) - 1 <=> i \in 1 .. n - 1 \/ i = n
  OBVIOUS
<1>2. \A i \in 1 .. n - 1 : i \in 1 .. n
  OBVIOUS
<1>3. n \in 1 .. n
  OBVIOUS
<1>4. \A q : q \in AllRefs(src, off2, n + 1) <=> \E i \in 1 .. (n + 1) - 1 : q \in RefsOf(src[i], Bottom(src) + off2[i], off2[i])
  BY DEF AllRefs
<1>5. \A q : q \in AllRefs(src, off, n) <=> \E i \in 1 .. n - 1 : q \in RefsOf(src[i], Bottom(src) + off[i], off[i])
  BY DEF AllRefs
<1> QED BY <1>1, <1>2, <1>3, <1>4, <1>5, Zenon

LEMMA MoreEncoded ==
  ASSUME NEW src, NEW off, NEW n \in Nat \ {0}, NEW text \in Seq(Nat), Offsets(src, off, n, text),
         NEW P, NEW P2, P \subseteq P2, Encoded(src, off, n, P, text),
         NEW e \in Seq(Nat), e = Emitted(src[n], Bottom(src) + Len(text)),
         NEW all, all = text \o e
  PROVE  Encoded(src, More(off, n, Len(all)), n + 1, P2, all)
<1> DEFINE end == Len(all)
           off2 == More(off, n, end)
<1>1. end \in Nat /\ Len(text) \in Nat /\ Len(e) \in Nat
  OBVIOUS
<1>2. off \in [1 .. n -> Nat] /\ off[n] = Len(text)
  BY DEF Offsets
<1> HIDE DEF end
<1>3. \A i \in 1 .. n : off2[i] = off[i]
  <2>1. end \in Nat /\ off \in [1 .. n -> Nat] /\ n \in Nat \ {0}
    BY <1>1, <1>2
  <2> QED BY <2>1, MoreIs
<1> HIDE DEF off2
<1> SUFFICES ASSUME NEW i \in 1 .. (n + 1) - 1, NEW j \in DOMAIN Emitted(src[i], Bottom(src) + off2[i]),
                    Free(P2, off2[i] + j)
             PROVE  all[off2[i] + j] = Emitted(src[i], Bottom(src) + off2[i])[j]
  BY DEF Encoded, off2, end
<1>4. CASE i = n
  <2>1. off2[i] = Len(text) /\ j \in 1 .. Len(e)
    BY <1>2, <1>3, <1>4
  <2>2. (text \o e)[Len(text) + j] = e[j]
    BY <2>1, JoinedRight
  <2> QED BY <1>4, <2>1, <2>2
<1>5. CASE i # n
  <2>1. i \in 1 .. n - 1 /\ i \in 1 .. n /\ i + 1 \in 1 .. n /\ n \in 1 .. n /\ i + 1 <= n
    BY <1>5
  <2>2. off2[i] = off[i]
    BY <1>3, <2>1
  <2> DEFINE d == Emitted(src[i], Bottom(src) + off[i])
             c == off[i] + j
  <2>3. Free(P, c) /\ j \in DOMAIN d
    BY <2>2 DEF Free
  <2>4. text[c] = d[j]
    BY <2>1, <2>3 DEF Encoded
  <2>5. off[i + 1] = off[i] + Len(d) /\ off[i + 1] <= off[n] /\ off[i] \in Nat /\ off[i + 1] \in Nat
        /\ d \in Seq(Nat)
    BY <1>2, <2>1 DEF Offsets
  <2>6. c \in 1 .. Len(text)
    <3> HIDE DEF d
    <3> DEFINE x == off[i]
               y == off[i + 1]
               m == Len(d)
               t == Len(text)
    <3>1. j \in 1 .. m /\ m \in Nat
      BY <2>3, <2>5
    <3>2. x \in Nat /\ y \in Nat /\ y = x + m /\ c = x + j
      BY <2>5
    <3>3. t \in Nat /\ y <= t
      BY <1>1, <1>2, <2>5
    <3> HIDE DEF c, x, y, m, t
    <3>4. c \in 1 .. t
      BY <3>1, <3>2, <3>3
    <3> QED BY <3>4 DEF t
  <2>7. (text \o e)[c] = text[c]
    BY <2>6, JoinedLeft
  <2> QED BY <2>2, <2>4, <2>7
<1> QED BY <1>4, <1>5

(* One more reference waits for an address. *)
LEMMA WaitsMore ==
  ASSUME NEW P, NEW map, Waiting(P, map),
         \A q \in P : q.name \in DOMAIN map,
         NEW m, NEW p \in Places, NEW new, new = [name |-> m, place |-> p], new \notin P,
         NEW old, old = IF m \in DOMAIN map THEN map[m] ELSE <<>>,
         NEW more, more = With(map, m, Append(old, p))
  PROVE  Waiting(P \cup {new}, more)
<1> DEFINE list == Append(old, p)
           n == Len(old)
<1>1. /\ DOMAIN more = DOMAIN map \cup {m} /\ more[m] = list
      /\ \A k \in DOMAIN map : k # m => more[k] = map[k]
  <2>1. more = With(map, m, list)
    OBVIOUS
  <2> HIDE DEF list
  <2> QED BY <2>1 DEF With
<1>2. /\ n \in Nat /\ DOMAIN old = 1 .. n /\ DOMAIN list = 1 .. n + 1 /\ list[n + 1] = p
      /\ \A k \in 1 .. n : list[k] = old[k]
  <2>1. old \in Seq(Places)
    BY DEF Waiting
  <2> QED BY <2>1
<1>3. list \in Seq(Places)
  <2>1. old \in Seq(Places)
    BY DEF Waiting
  <2> QED BY <2>1
<1>4. new.name = m /\ new.place = p
  OBVIOUS
<1>5. \A k \in 1 .. n : m \in DOMAIN map /\ map[m] = old
  <2>1. ASSUME NEW k \in 1 .. n PROVE old # <<>>
    BY <1>2
  <2> QED BY <2>1
<1> HIDE DEF list, n
<1>6. \A k \in 1 .. n + 1 : k \in 1 .. n \/ k = n + 1
  BY <1>2
<1>7. n + 1 \in 1 .. n + 1 /\ \A k \in 1 .. n : k \in 1 .. n + 1
  BY <1>2
<1>8. ASSUME NEW q \in P \cup {new}
      PROVE  q.name \in DOMAIN more /\ \E k \in DOMAIN more[q.name] : more[q.name][k] = q.place
  <2>1. CASE q = new
    BY <1>1, <1>2, <1>4, <1>7, <2>1
  <2>2. CASE q # new
    <3>1. q \in P /\ q.name \in DOMAIN map
      BY <2>2
    <3>2. PICK k \in DOMAIN map[q.name] : map[q.name][k] = q.place
      BY <3>1 DEF Waiting
    <3>3. CASE q.name = m
      <4>1. old = map[m] /\ k \in 1 .. n /\ old[k] = q.place
        BY <1>2, <3>1, <3>2, <3>3
      <4> QED BY <1>1, <1>2, <1>7, <3>3, <4>1
    <3>4. CASE q.name # m
      BY <1>1, <3>1, <3>2, <3>4
    <3> QED BY <3>3, <3>4
  <2> QED BY <2>1, <2>2
<1>9. ASSUME NEW x \in DOMAIN more, NEW k \in DOMAIN more[x]
      PROVE  [name |-> x, place |-> more[x][k]] \in P \cup {new}
  <2>1. CASE x = m /\ k = n + 1
    BY <1>1, <1>2, <2>1
  <2>2. CASE x = m /\ k \in 1 .. n
    <3>1. more[x][k] = map[x][k] /\ x \in DOMAIN map /\ k \in DOMAIN map[x]
      BY <1>1, <1>2, <1>5, <2>2
    <3> QED BY <3>1 DEF Waiting
  <2>3. CASE x # m
    <3>1. x \in DOMAIN map /\ more[x] = map[x]
      BY <1>1, <2>3
    <3> QED BY <3>1 DEF Waiting
  <2> QED BY <1>1, <1>2, <1>6, <2>1, <2>2, <2>3
<1>10. ASSUME NEW x \in DOMAIN more, NEW j \in DOMAIN more[x], NEW k \in DOMAIN more[x], more[x][j] = more[x][k]
      PROVE  j = k
  <2>1. CASE x # m
    <3>1. x \in DOMAIN map /\ more[x] = map[x]
      BY <1>1, <2>1
    <3> QED BY <1>10, <3>1 DEF Waiting
  <2>2. CASE x = m
    <3>1. j \in 1 .. n + 1 /\ k \in 1 .. n + 1 /\ list[j] = list[k]
      BY <1>1, <1>2, <1>10, <2>2
    <3>2. ASSUME NEW i \in 1 .. n PROVE list[i] # p
      <4>1. m \in DOMAIN map /\ i \in DOMAIN map[m] /\ list[i] = map[m][i]
        BY <1>2, <1>5
      <4>2. [name |-> m, place |-> map[m][i]] \in P
        BY <4>1 DEF Waiting
      <4> QED BY <4>1, <4>2
    <3>3. CASE j \in 1 .. n /\ k \in 1 .. n
      <4>1. m \in DOMAIN map /\ j \in DOMAIN map[m] /\ k \in DOMAIN map[m] /\ map[m][j] = map[m][k]
        BY <1>2, <1>5, <3>1, <3>3
      <4> QED BY <4>1 DEF Waiting
    <3> QED BY <1>2, <1>6, <3>1, <3>2, <3>3
  <2> QED BY <2>1, <2>2
<1>11. ASSUME NEW x \in DOMAIN more PROVE more[x] \in Seq(Places)
  <2>1. CASE x = m
    BY <1>1, <1>3, <2>1
  <2>2. CASE x # m
    BY <1>1, <2>2 DEF Waiting
  <2> QED BY <2>1, <2>2
<1> QED BY <1>8, <1>9, <1>10, <1>11 DEF Waiting

LEMMA ApartMore ==
  ASSUME NEW P, NEW b, NEW c \in Nat, RefsApart(P, b, c),
         NEW q, q.place \in Places, q.place.instruction + q.place.index = b + q.place.cell,
         c <= q.place.cell, NEW end \in Nat, q.place.cell + Bytes(q.place.size) <= end
  PROVE  RefsApart(P \cup {q}, b, end) /\ q \notin P
<1>1. \A r \in P : /\ r.place \in Places /\ r.place.cell + Bytes(r.place.size) <= c
                   /\ r.place.instruction + r.place.index = b + r.place.cell
  BY DEF RefsApart
<1>2. ASSUME NEW p \in Places PROVE p.cell \in Nat /\ Bytes(p.size) \in Nat /\ Bytes(p.size) > 0
  <2>1. p.cell \in Nat /\ p.size \in Sizes
    BY DEF Places
  <2>2. Bytes(p.size) \in 1 .. 4
    BY <2>1, BytesOfSize
  <2> QED BY <2>1, <2>2
<1>3. ASSUME NEW r \in P PROVE Ordered(r, q) /\ r.place.cell + Bytes(r.place.size) <= end /\ r # q
  <2> DEFINE x == r.place.cell
             m == Bytes(r.place.size)
             y == q.place.cell
             n == Bytes(q.place.size)
  <2>1. x \in Nat /\ m \in Nat /\ m > 0 /\ y \in Nat /\ n \in Nat /\ x + m <= c /\ c <= y /\ y + n <= end
    BY <1>1, <1>2
  <2> HIDE DEF x, m, y, n
  <2>2. x + m <= y /\ x + m <= end /\ x # y
    BY <2>1
  <2>3. r # q
    BY <2>2 DEF x, y
  <2> QED BY <2>2, <2>3 DEF Ordered, x, m, y
<1>4. \A r \in P \cup {q} : /\ r.place \in Places /\ r.place.cell + Bytes(r.place.size) <= end
                            /\ r.place.instruction + r.place.index = b + r.place.cell
  BY <1>1, <1>3
<1>5. \A r, s \in P \cup {q} : r = s \/ Ordered(r, s) \/ Ordered(s, r)
  BY <1>3 DEF RefsApart
<1> QED BY <1>3, <1>4, <1>5 DEF RefsApart

LEMMA ApartFurther ==
  ASSUME NEW P, NEW b, NEW c \in Nat, NEW end \in Nat, c <= end, RefsApart(P, b, c)
  PROVE  RefsApart(P, b, end)
<1>1. ASSUME NEW r \in P PROVE r.place.cell + Bytes(r.place.size) <= end
  <2> DEFINE x == r.place.cell
             m == Bytes(r.place.size)
  <2>1. r.place \in Places /\ x + m <= c
    BY DEF RefsApart
  <2>2. x \in Nat /\ m \in Nat
    <3>1. x \in Nat /\ r.place.size \in Sizes
      BY <2>1 DEF Places
    <3> QED BY <3>1, BytesOfSize
  <2> HIDE DEF x, m
  <2>3. x + m <= end
    BY <2>1, <2>2
  <2> QED BY <2>3 DEF x, m
<1> QED BY <1>1 DEF RefsApart

LEMMA TargetWaits ==
  ASSUME NEW P, NEW map, NEW b \in Nat, NEW c \in Nat, WaitsFor(P, map, b, c),
         Len(code) \in Nat, address = b + Len(code),
         NEW o, NEW s \in Sizes, NEW index \in Nat, NEW relative \in BOOLEAN, c <= Len(code) + index,
         NEW end \in Nat, c <= end, IsLabel(o) => (Len(code) + index) + Bytes(Field(o, s)) <= end
  PROVE  WaitsFor(P \cup RefOf(o, s, address, Len(code), index, relative),
                  WithTarget(map, o, s, index, relative), b, end)
<1> DEFINE more == WithTarget(map, o, s, index, relative)
<1>1. /\ Waiting(P, map) /\ RefsApart(P, b, c) /\ \A q \in P : q.name \in DOMAIN map
      /\ address \in Nat
  BY DEF WaitsFor
<1>2. CASE ~IsLabel(o)
  <2>1. more = map /\ P \cup RefOf(o, s, address, Len(code), index, relative) = P
    BY <1>2 DEF WithTarget, RefOf
  <2>2. RefsApart(P, b, end)
    BY <1>1, ApartFurther
  <2> QED BY <1>1, <2>1, <2>2 DEF WaitsFor
<1>3. CASE IsLabel(o)
  <2> DEFINE f == Field(o, s)
             m == o.v
             p == [instruction |-> address, index |-> index, cell |-> Len(code) + index, size |-> f, relative |-> relative]
             new == [name |-> m, place |-> p]
             old == IF m \in DOMAIN map THEN map[m] ELSE <<>>
  <2>1. more = With(map, m, Append(old, p))
    BY <1>3 DEF WithTarget
  <2>2. RefOf(o, s, address, Len(code), index, relative) = {new}
    BY <1>3 DEF RefOf
  <2>3. f \in Sizes
    BY DEF Field, Sizes
  <2>4. Len(code) + index + Bytes(f) <= end
    BY <1>3
  <2> HIDE DEF f
  <2>5. p \in Places /\ p.cell = Len(code) + index /\ p.instruction = address /\ p.index = index /\ p.size = f
    BY <1>1, <2>3 DEF Places
  <2> HIDE DEF p, m
  <2>6. new.place = p /\ new = [name |-> m, place |-> p]
    OBVIOUS
  <2>7. old = IF m \in DOMAIN map THEN map[m] ELSE <<>>
    OBVIOUS
  <2> HIDE DEF new, old
  <2>8. RefsApart(P \cup {new}, b, end) /\ new \notin P
    <3>1. /\ new.place \in Places /\ new.place.instruction + new.place.index = b + new.place.cell
          /\ c <= new.place.cell
      BY <2>5, <2>6
    <3>2. new.place.cell + Bytes(new.place.size) <= end
      BY <2>4, <2>5, <2>6
    <3> QED BY <1>1, <3>1, <3>2, ApartMore
  <2> HIDE DEF more
  <2>9. Waiting(P \cup {new}, more)
    BY <1>1, <2>1, <2>5, <2>6, <2>7, <2>8, WaitsMore
  <2>10. \A q \in P \cup {new} : q.name \in DOMAIN more
    BY <1>1, <2>1, <2>6 DEF With
  <2> QED BY <2>2, <2>8, <2>9, <2>10 DEF WaitsFor, more
<1> QED BY <1>2, <1>3

(* The values of the names after one more line. *)
LEMMA MoreValues ==
  ASSUME NEW src, NEW off, NEW n \in Nat \ {0}, NEW off2, \A i \in 1 .. n : off2[i] = off[i],
         NEW defs, Values(src, off, n, defs), NEW defs2,
         \/ defs2 = defs /\ ~Defining(src[n])
         \/ Defining(src[n]) /\ defs2 = With(defs, src[n].name, ValueAt(src[n], Bottom(src) + off[n]))
  PROVE  Values(src, off2, n + 1, defs2)
<1>1. \A i : i \in 1 .. (n + 1) - 1 <=> i \in 1 .. n - 1 \/ i = n
  OBVIOUS
<1>2. /\ \A i \in 1 .. n - 1 : i \in 1 .. n /\ i <= n
      /\ n \in 1 .. n /\ n <= n
  OBVIOUS
<1> SUFFICES ASSUME NEW m \in DOMAIN defs2
             PROVE  \E i \in 1 .. (n + 1) - 1 :
                      /\ Defines(src[i], m) /\ defs2[m] = ValueAt(src[i], Bottom(src) + off2[i])
                      /\ \A j \in 1 .. (n + 1) - 1 : Defines(src[j], m) => j <= i
  BY DEF Values
<1>3. CASE Defining(src[n]) /\ m = src[n].name
  <2>1. Defines(src[n], m)
    BY <1>3 DEF Defining, Defines
  <2>2. defs2[m] = ValueAt(src[n], Bottom(src) + off2[n])
    BY <1>2, <1>3 DEF With
  <2> QED BY <1>1, <1>2, <2>1, <2>2
<1>4. CASE ~(Defining(src[n]) /\ m = src[n].name)
  <2>1. ~Defines(src[n], m)
    BY <1>4 DEF Defining, Defines
  <2>2. m \in DOMAIN defs /\ defs2[m] = defs[m]
    BY <1>4 DEF With
  <2>3. PICK i \in 1 .. n - 1 :
          /\ Defines(src[i], m) /\ defs[m] = ValueAt(src[i], Bottom(src) + off[i])
          /\ \A j \in 1 .. n - 1 : Defines(src[j], m) => j <= i
    BY <2>2 DEF Values
  <2>4. off2[i] = off[i] /\ i \in 1 .. (n + 1) - 1
    BY <1>1, <1>2
  <2> QED BY <1>1, <2>1, <2>2, <2>3, <2>4
<1> QED BY <1>3, <1>4

(* One more line of the text. *)
LEMMA LaidMore ==
  ASSUME NEW src, NEW off, NEW n \in Nat \ {0}, NEW text \in Seq(Nat), NEW map, NEW defs, NEW table,
         Laid(src, off, n, text, map, defs, table), AllWait(src, off, n, map, table),
         Sound(src[n], Bottom(src) + Len(text)),
         NEW e \in Seq(Nat), e = Emitted(src[n], Bottom(src) + Len(text)),
         NEW all, all = text \o e,
         NEW P, P = AllRefs(src, off, n) \cup RefsOf(src[n], Bottom(src) + Len(text), Len(text)),
         NEW map2, WaitsFor(P, map2, Bottom(src), Len(all)),
         NEW defs2,
         \/ defs2 = defs /\ ~Defining(src[n])
         \/ Defining(src[n]) /\ defs2 = With(defs, src[n].name, ValueAt(src[n], Bottom(src) + Len(text)))
  PROVE  \E off2 \in [1 .. n + 1 -> Nat] :
           Laid(src, off2, n + 1, all, map2, defs2, table) /\ AllWait(src, off2, n + 1, map2, table)
<1> DEFINE end == Len(all)
           off2 == More(off, n, end)
           old == AllRefs(src, off, n)
<1>1. Offsets(src, off, n, text) /\ Encoded(src, off, n, old, text) /\ Values(src, off, n, defs) /\ table = <<>>
  BY DEF Laid, AllWait
<1>2. off \in [1 .. n -> Nat] /\ off[n] = Len(text) /\ end \in Nat
  BY <1>1 DEF Offsets
<1>3. Offsets(src, off2, n + 1, all)
  BY <1>1, MoreOffsets
<1>4. Waiting(P, map2) /\ RefsApart(P, Bottom(src), Len(all)) /\ \A q \in P : q.name \in DOMAIN map2
  BY DEF WaitsFor
<1>5. P = old \cup RefsOf(src[n], Bottom(src) + off[n], off[n])
  BY <1>2
<1>6. Encoded(src, off2, n + 1, P, all)
  <2>1. old \subseteq P
    OBVIOUS
  <2> HIDE DEF old
  <2> QED BY <1>1, <2>1, MoreEncoded
<1> HIDE DEF end
<1>7. off2 \in [1 .. n + 1 -> Nat] /\ \A i \in 1 .. n : off2[i] = off[i]
  BY <1>2, MoreIs
<1> HIDE DEF off2
<1>8. AllRefs(src, off2, n + 1) = P
  <2>1. \A q : q \in AllRefs(src, off2, n + 1) <=> q \in old \/ q \in RefsOf(src[n], Bottom(src) + off[n], off[n])
    BY <1>7, MoreRefs
  <2>2. \A q : q \in P <=> q \in old \/ q \in RefsOf(src[n], Bottom(src) + off[n], off[n])
    BY <1>5
  <2> QED BY <2>1, <2>2
<1>9. Values(src, off2, n + 1, defs2)
  BY <1>1, <1>2, <1>7, MoreValues
<1>10. Resolved(P, map2, defs2, all)
  BY <1>4 DEF Resolved
<1>11. Listed(P, Bottom(src), map2, defs2, table)
  BY <1>4, <1>1 DEF Listed, Moved
<1>12. Laid(src, off2, n + 1, all, map2, defs2, table)
  BY <1>4, <1>3, <1>6, <1>8, <1>9, <1>10, <1>11 DEF Laid
<1>13. AllWait(src, off2, n + 1, map2, table)
  BY <1>4, <1>1, <1>8 DEF AllWait
<1> QED BY <1>7, <1>12, <1>13
-----------------------------------------------------------------------------
(* The steps over one statement each, which lay it behind the others.      *)

(* Without an origin in front the next cell is where it will be. *)
LEMMA HereIs ==
  ASSUME AsmInv, LaidInv, Steady(source), NEW k, Reading(k), source[line].kind = "org" => source[line].pad
  PROVE  Bottom(source) \in Nat /\ address = Bottom(source) + Len(code)
<1>1. stage = "assemble" /\ line \in DOMAIN source
  BY ReadingFacts
<1>2. line # 1 \/ Flat(source)
  BY <1>1 DEF Flat, Steady
<1> QED BY <1>1, <1>2 DEF LaidInv

(* A statement that is assembled lies behind the ones before it. *)
LEMMA StatementLaid ==
  ASSUME AsmInv, LaidInv, Steady(source), stage = "assemble", Advance,
         Bottom(source) \in Nat, NEW l, l = source[line],
         NEW e \in Seq(Nat), e = Emitted(l, Bottom(source) + Len(code)), Sound(l, Bottom(source) + Len(code)),
         code' = code \o e, address' = Bottom(source) + Len(code'),
         \A P : WaitsFor(P, targets, Bottom(source), Len(code)) =>
                  WaitsFor(P \cup RefsOf(l, Bottom(source) + Len(code), Len(code)), targets', Bottom(source), Len(code')),
         \/ labels' = labels /\ ~Defining(l)
         \/ Defining(l) /\ labels' = With(labels, l.name, ValueAt(l, Bottom(source) + Len(code)))
  PROVE  LaidInv'
<1>1. /\ source' = source /\ line' = line + 1 /\ stage' = "assemble" /\ relocs' = relocs
      /\ line \in Nat \ {0} /\ code \in Seq(Nat)
  BY DEF Advance, input, AsmInv, AsmTypeOK
<1>2. PICK off : Laid(source, off, line, code, targets, labels, relocs) /\ AllWait(source, off, line, targets, relocs)
  BY DEF LaidInv
<1> DEFINE P == AllRefs(source, off, line)
           P2 == P \cup RefsOf(source[line], Bottom(source) + Len(code), Len(code))
<1>3. WaitsFor(P, targets, Bottom(source), Len(code))
  BY <1>2 DEF Laid, AllWait, WaitsFor
<1>4. WaitsFor(P2, targets', Bottom(source), Len(code'))
  <2> HIDE DEF P
  <2> QED BY <1>3
<1>5. P2 = AllRefs(source, off, line) \cup RefsOf(source[line], Bottom(source) + Len(code), Len(code))
  OBVIOUS
<1> HIDE DEF P, P2
<1>6. \E off2 \in [1 .. line + 1 -> Nat] :
        Laid(source, off2, line + 1, code', targets', labels', relocs) /\ AllWait(source, off2, line + 1, targets', relocs)
  BY <1>1, <1>2, <1>4, <1>5, LaidMore
<1>7. \E off2 \in [1 .. line' -> Nat] :
        Laid(source', off2, line', code', targets', labels', relocs') /\ AllWait(source', off2, line', targets', relocs')
  BY <1>1, <1>6
<1>8. Bottom(source') \in Nat /\ address' = Bottom(source') + Len(code')
  BY <1>1
<1> QED BY <1>7, <1>8 DEF LaidInv

(* Statements without references. *)
LEMMA NoRefs ==
  ASSUME NEW l, l.kind \notin {"op", "data"}, NEW map, NEW b, NEW c \in Nat, NEW end \in Nat, c <= end, NEW a, NEW at
  PROVE  \A P : WaitsFor(P, map, b, c) => WaitsFor(P \cup RefsOf(l, a, at), map, b, end)
<1> SUFFICES ASSUME NEW P, WaitsFor(P, map, b, c) PROVE WaitsFor(P \cup RefsOf(l, a, at), map, b, end)
  OBVIOUS
<1>1. P \cup RefsOf(l, a, at) = P
  BY DEF RefsOf
<1>2. RefsApart(P, b, end)
  BY ApartFurther DEF WaitsFor
<1> QED BY <1>1, <1>2 DEF WaitsFor

LEMMA LongerCode ==
  ASSUME NEW s \in Seq(Nat), NEW e \in Seq(Nat), NEW t, t = s \o e
  PROVE  /\ t \in Seq(Nat) /\ Len(s) \in Nat /\ Len(t) \in Nat
         /\ Len(s) <= Len(t) /\ Len(t) = Len(s) + Len(e)
OBVIOUS

LEMMA LabelLaid ==
  ASSUME AsmInv, LaidInv, Steady(source), LabelDefine
  PROVE  LaidInv'
<1> DEFINE l == source[line]
           b == Bottom(source)
<1>1. Reading("label") /\ Advance /\ UNCHANGED <<address, code, targets>>
      /\ labels' = With(labels, l.name, [at |-> address, const |-> FALSE])
  BY DEF LabelDefine, Define
<1>2. stage = "assemble" /\ l.kind = "label" /\ code \in Seq(Nat) /\ Len(code) \in Nat
  BY <1>1, ReadingFacts
<1>3. b \in Nat /\ address = b + Len(code)
  BY <1>1, <1>2, HereIs
<1> HIDE DEF l
<1>4. Emitted(l, b + Len(code)) = <<>> /\ Sound(l, b + Len(code)) /\ code' = code \o <<>> /\ <<>> \in Seq(Nat)
  BY <1>1, <1>2 DEF Emitted, Sound
<1>5. Defining(l) /\ ValueAt(l, b + Len(code)) = [at |-> address, const |-> FALSE]
  BY <1>2, <1>3 DEF Defining, ValueAt
<1>6. \A P : WaitsFor(P, targets, b, Len(code)) =>
               WaitsFor(P \cup RefsOf(l, b + Len(code), Len(code)), targets', b, Len(code'))
  <2> DEFINE n == Len(code)
             a == b + n
  <2>1. l.kind \notin {"op", "data"} /\ n \in Nat /\ n <= n
    BY <1>2
  <2>2. targets' = targets /\ Len(code') = n
    BY <1>1
  <2> HIDE DEF n, a
  <2>3. \A P : WaitsFor(P, targets, b, n) => WaitsFor(P \cup RefsOf(l, a, n), targets, b, n)
    BY <2>1, NoRefs
  <2> QED BY <2>2, <2>3 DEF n, a
<1>7. address' = b + Len(code') /\ l = source[line]
  BY <1>1, <1>3 DEF l
<1> HIDE DEF b
<1> QED BY <1>1, <1>2, <1>3, <1>4, <1>5, <1>6, <1>7, StatementLaid DEF b

LEMMA ConstantLaid ==
  ASSUME AsmInv, LaidInv, Steady(source), Constant
  PROVE  LaidInv'
<1> DEFINE l == source[line]
           b == Bottom(source)
<1>1. Reading("const") /\ Advance /\ UNCHANGED <<address, code, targets>>
      /\ labels' = With(labels, l.name, [at |-> l.operand.v, const |-> TRUE])
  BY DEF Constant, Define
<1>2. stage = "assemble" /\ l.kind = "const" /\ code \in Seq(Nat) /\ Len(code) \in Nat /\ ~Panics(l)
  BY <1>1, ReadingFacts
<1>3. b \in Nat /\ address = b + Len(code)
  BY <1>1, <1>2, HereIs
<1> HIDE DEF l
<1>4. Emitted(l, b + Len(code)) = <<>> /\ Sound(l, b + Len(code)) /\ code' = code \o <<>> /\ <<>> \in Seq(Nat)
  BY <1>1, <1>2 DEF Emitted, Sound, Panics
<1>5. Defining(l) /\ ValueAt(l, b + Len(code)) = [at |-> l.operand.v, const |-> TRUE]
  BY <1>2 DEF Defining, ValueAt
<1>6. \A P : WaitsFor(P, targets, b, Len(code)) =>
               WaitsFor(P \cup RefsOf(l, b + Len(code), Len(code)), targets', b, Len(code'))
  <2> DEFINE n == Len(code)
             a == b + n
  <2>1. l.kind \notin {"op", "data"} /\ n \in Nat /\ n <= n
    BY <1>2
  <2>2. targets' = targets /\ Len(code') = n
    BY <1>1
  <2> HIDE DEF n, a
  <2>3. \A P : WaitsFor(P, targets, b, n) => WaitsFor(P \cup RefsOf(l, a, n), targets, b, n)
    BY <2>1, NoRefs
  <2> QED BY <2>2, <2>3 DEF n, a
<1>7. address' = b + Len(code') /\ l = source[line]
  BY <1>1, <1>3 DEF l
<1>8. labels' = With(labels, l.name, [at |-> l.operand.v, const |-> TRUE])
  BY <1>1 DEF l
<1> HIDE DEF b
<1> QED BY <1>1, <1>2, <1>3, <1>4, <1>5, <1>6, <1>7, <1>8, StatementLaid DEF b

LEMMA PlainLaid ==
  ASSUME AsmInv, LaidInv, Steady(source), stage = "assemble", Advance, UNCHANGED <<labels, targets>>,
         Bottom(source) \in Nat, NEW l, l = source[line], l.kind \notin {"op", "data"}, ~Defining(l),
         NEW e \in Seq(Nat), e = Emitted(l, Bottom(source) + Len(code)), Sound(l, Bottom(source) + Len(code)),
         code' = code \o e, address' = Bottom(source) + Len(code')
  PROVE  LaidInv'
<1>1. code \in Seq(Nat)
  BY DEF AsmInv, AsmTypeOK
<1> DEFINE n == Len(code)
           m == Len(code')
           b == Bottom(source)
           a == b + n
<1>2. n \in Nat /\ m \in Nat /\ n <= m
  BY <1>1, LongerCode
<1>3. \A P : WaitsFor(P, targets, b, n) => WaitsFor(P \cup RefsOf(l, a, n), targets', b, m)
  <2> HIDE DEF n, m, a, b
  <2> QED BY <1>2, NoRefs
<1> QED BY <1>3, StatementLaid

LEMMA BlobLaid ==
  ASSUME AsmInv, LaidInv, Steady(source), Blob
  PROVE  LaidInv'
<1> DEFINE l == source[line]
           e == l.cells
           b == Bottom(source)
           n == Len(code)
<1>1. /\ Reading("blob") /\ Advance /\ UNCHANGED <<labels, targets>>
      /\ code' = code \o e /\ address' = address + Len(e)
  BY DEF Blob, Emit
<1>2. stage = "assemble" /\ l.kind = "blob" /\ code \in Seq(Nat) /\ n \in Nat /\ l \in Statements
  BY <1>1, ReadingFacts
<1>3. b \in Nat /\ address = b + n
  BY <1>1, <1>2, HereIs
<1>4. e \in Seq(Nat)
  BY <1>2, StatementFields
<1>5. l.kind \notin {"op", "data"} /\ ~Defining(l) /\ e = Emitted(l, b + n) /\ Sound(l, b + n) /\ l = source[line]
  BY <1>2 DEF Defining, Emitted, Sound
<1> HIDE DEF l, e
<1>6. address' = b + Len(code')
  <2> DEFINE k == Len(e)
             m == Len(code')
  <2>1. k \in Nat /\ m = n + k
    BY <1>1, <1>2, <1>4
  <2>2. address' = (b + n) + k
    BY <1>1, <1>3
  <2> HIDE DEF k, m, n, b
  <2>3. address' = b + m
    BY <1>2, <1>3, <2>1, <2>2
  <2> QED BY <2>3 DEF m
<1> HIDE DEF b
<1> QED BY <1>1, <1>2, <1>3, <1>4, <1>5, <1>6, PlainLaid DEF b, n

LEMMA FillLaid ==
  ASSUME AsmInv, LaidInv, Steady(source), Fill
  PROVE  LaidInv'
<1> DEFINE l == source[line]
           e == [k \in 1 .. l.count.v |-> Low("byte", l.value.v)]
           b == Bottom(source)
           n == Len(code)
<1>1. /\ Reading("fill") /\ Advance /\ UNCHANGED <<labels, targets>>
      /\ code' = code \o e /\ address' = address + Len(e)
  BY DEF Fill, Emit
<1>2. stage = "assemble" /\ l.kind = "fill" /\ code \in Seq(Nat) /\ n \in Nat /\ l \in Statements /\ ~Panics(l)
  BY <1>1, ReadingFacts
<1>3. b \in Nat /\ address = b + n
  BY <1>1, <1>2, HereIs
<1>4. e \in Seq(Nat)
  <2>1. l.value \in AnyOperand /\ l.count \in AnyOperand /\ l.value.kind = "imm" /\ l.count.kind = "imm"
    BY <1>2, StatementFields DEF Panics, Immediate32
  <2>2. l.value.v \in Nat /\ l.count.v \in Nat
    BY <2>1, OperandFields
  <2> DEFINE v == l.value.v
             c == l.count.v
  <2> HIDE DEF v
  <2>3. Low("byte", v) \in Nat
    <3>1. v \in Int /\ "byte" \in Sizes
      BY <2>2 DEF v, Sizes
    <3> QED BY <3>1, LowRange, SizeFacts
  <2> HIDE DEF c
  <2> QED BY <2>2, <2>3 DEF v, c
<1>5. l.kind \notin {"op", "data"} /\ ~Defining(l) /\ e = Emitted(l, b + n) /\ Sound(l, b + n) /\ l = source[line]
  BY <1>2 DEF Defining, Emitted, Sound, Panics, Immediate32
<1> HIDE DEF l, e
<1>6. address' = b + Len(code')
  <2> DEFINE k == Len(e)
             m == Len(code')
  <2>1. k \in Nat /\ m = n + k
    BY <1>1, <1>2, <1>4
  <2>2. address' = (b + n) + k
    BY <1>1, <1>3
  <2> HIDE DEF k, m, n, b
  <2>3. address' = b + m
    BY <1>2, <1>3, <2>1, <2>2
  <2> QED BY <2>3 DEF m
<1> HIDE DEF b
<1> QED BY <1>1, <1>2, <1>3, <1>4, <1>5, <1>6, PlainLaid DEF b, n

(* An origin without padding is the first statement.                       *)
LEMMA OriginLaid ==
  ASSUME AsmInv, LaidInv, Steady(source), Origin
  PROVE  LaidInv'
<1> DEFINE l == source[line]
           v == l.operand.v
           e == IF l.pad THEN [k \in 1 .. address' - address |-> 0] ELSE <<>>
           b == Bottom(source)
           n == Len(code)
<1>1. /\ Reading("org") /\ Advance /\ UNCHANGED <<labels, targets>>
      /\ code' = code \o e /\ address' = v
  BY DEF Origin
<1>2. stage = "assemble" /\ l.kind = "org" /\ line \in DOMAIN source /\ code \in Seq(Nat) /\ n \in Nat /\ l \in Statements
      /\ ~Panics(l) /\ address \in Nat
  BY <1>1, ReadingFacts
<1>3. l.operand.kind = "imm" /\ ~(v <= address) /\ v \in Nat
  <2>1. l.operand \in AnyOperand /\ l.operand.kind = "imm" /\ ~(v <= address)
    BY <1>2, StatementFields DEF Panics, Immediate32
  <2> QED BY <2>1, OperandFields
<1>4. address <= v /\ v - address \in Nat /\ address + (v - address) = v
  <2> HIDE DEF v
  <2> QED BY <1>2, <1>3, Difference
<1>5. l.kind \notin {"op", "data"} /\ ~Defining(l) /\ l = source[line]
  BY <1>2 DEF Defining
<1>6. CASE l.pad
  <2>1. b \in Nat /\ address = b + n
    BY <1>1, <1>2, <1>6, HereIs
  <2>2. e = [k \in 1 .. v - (b + n) |-> 0]
    BY <1>1, <1>6, <2>1
  <2>3. e = Emitted(l, b + n) /\ Sound(l, b + n)
    <3>1. v >= b + n
      BY <1>4, <2>1
    <3> QED BY <1>2, <1>3, <1>4, <1>6, <2>1, <2>2 DEF Emitted, Sound
  <2>4. e \in Seq(Nat) /\ Len(e) = v - address
    <3> DEFINE d == v - address
    <3>1. e = [k \in 1 .. d |-> 0] /\ d \in Nat
      BY <1>4, <2>1, <2>2
    <3> HIDE DEF d, e
    <3>2. e \in Seq(Nat) /\ Len(e) = d
      BY <3>1
    <3> QED BY <3>2 DEF d
  <2> HIDE DEF e, l, v
  <2>5. address' = b + Len(code')
    <3>1. Len(code') = n + (v - address)
      <4>1. Len(code \o e) = n + Len(e)
        BY <1>2, <2>4
      <4> QED BY <1>1, <2>4, <4>1
    <3> DEFINE m == Len(code')
               d == v - address
    <3>2. m = n + d /\ d \in Nat /\ address + d = v
      BY <1>4, <3>1
    <3> HIDE DEF m, d, n, b
    <3>3. v = b + m
      BY <1>2, <2>1, <3>2
    <3> QED BY <1>1, <3>3 DEF m
  <2> HIDE DEF b
  <2> QED BY <1>1, <1>2, <1>5, <2>1, <2>3, <2>4, <2>5, PlainLaid DEF b, n
<1>7. CASE ~l.pad
  <2>1. line = 1 /\ 1 \in DOMAIN source /\ ~Flat(source)
    BY <1>2, <1>7 DEF Steady, Flat
  <2>2. b = v /\ b \in Nat
    BY <1>3, <2>1 DEF Bottom
  <2>3. PICK off : Laid(source, off, line, code, targets, labels, relocs)
    BY <1>2 DEF LaidInv
  <2>4. n = 0
    <3>1. off[1] = 0 /\ off[line] = Len(code)
      BY <2>3 DEF Laid, Offsets
    <3> QED BY <2>1, <3>1
  <2>5. e = <<>> /\ <<>> \in Seq(Nat)
    BY <1>7
  <2>6. Emitted(l, b + n) = <<>> /\ Sound(l, b + n)
    BY <1>2, <1>3, <1>7 DEF Emitted, Sound
  <2> HIDE DEF e, l, v
  <2>7. code' = code \o <<>> /\ code' = code
    BY <1>1, <1>2, <2>5
  <2>8. address' = b + Len(code')
    BY <1>1, <2>2, <2>4, <2>7
  <2> HIDE DEF b
  <2> QED BY <1>1, <1>2, <1>5, <2>2, <2>5, <2>6, <2>7, <2>8, PlainLaid DEF b, n
<1> QED BY <1>6, <1>7

LEMMA DataLaid ==
  ASSUME AsmInv, LaidInv, Steady(source), Data
  PROVE  LaidInv'
<1> DEFINE l == source[line]
           o == l.operand
           s == IF IsLabel(o) THEN "word" ELSE l.size
           e == OperandCells(o, s)
           refs == WithTarget(targets, o, "word", 0, FALSE)
           b == Bottom(source)
           n == Len(code)
<1>1. Reading("data")
  BY DEF Data
<1>2. stage = "assemble" /\ l.kind = "data" /\ line \in DOMAIN source /\ code \in Seq(Nat) /\ n \in Nat /\ l \in Statements
      /\ ~Panics(l)
  BY <1>1, ReadingFacts
<1>3. IsLabel(o) => size = "word"
  BY <1>2 DEF AsmInv, Steady
<1>4. l.size \in Sizes /\ s \in Sizes /\ o \in AnyOperand
  BY <1>2, StatementFields DEF Sizes
<1>5. /\ Advance /\ labels' = labels /\ code' = code \o e /\ address' = address + Len(e)
      /\ targets' = refs
  <2> DEFINE t == IF IsLabel(o) THEN size ELSE l.size
  <2>1. Emit(OperandCells(o, t), WithTarget(targets, o, t, 0, FALSE))
    BY DEF Data
  <2>2. t = s
    BY <1>3
  <2>3. WithTarget(targets, o, s, 0, FALSE) = refs
    BY DEF WithTarget
  <2> HIDE DEF t, s, o, refs
  <2> QED BY <2>1, <2>2, <2>3 DEF Emit
<1>6. b \in Nat /\ address = b + n
  BY <1>1, <1>2, HereIs
<1>7. e \in Seq(Nat) /\ (IsLabel(o) => Len(e) = Bytes(Field(o, "word")))
  <2>1. e \in Seq(Nat) /\ (IsLabel(o) => Len(e) = Bytes(Field(o, s)))
    <3> HIDE DEF o, s
    <3> QED BY <1>4, OperandCellsAre
  <2> QED BY <2>1
<1>8. ~Defining(l) /\ l = source[line] /\ e = Emitted(l, b + n) /\ RefsOf(l, address, n) = RefOf(o, "word", address, n, 0, FALSE)
  BY <1>2 DEF Defining, Emitted, RefsOf
<1>9. Sound(l, b + n)
  BY <1>2 DEF Sound, Panics, Immediate32
<1> HIDE DEF l, o, s, e
<1> DEFINE k == Len(e)
           m == Len(code')
<1>10. k \in Nat /\ m \in Nat /\ m = n + k /\ address' = b + m /\ n <= m
  <2>1. k \in Nat /\ m = n + k
    BY <1>2, <1>5, <1>7
  <2>2. address' = (b + n) + k
    BY <1>5, <1>6
  <2> HIDE DEF k, m, n, b
  <2> QED BY <1>2, <1>6, <2>1, <2>2
<1>11. \A P : WaitsFor(P, targets, b, n) => WaitsFor(P \cup RefsOf(l, b + n, n), targets', b, m)
  <2> SUFFICES ASSUME NEW P, WaitsFor(P, targets, b, n)
               PROVE  WaitsFor(P \cup RefOf(o, "word", address, n, 0, FALSE), targets', b, m)
    BY <1>6, <1>8
  <2>1. IsLabel(o) => (n + 0) + Bytes(Field(o, "word")) <= m
    <3>1. IsLabel(o) => k = Bytes(Field(o, "word"))
      BY <1>7
    <3> HIDE DEF k, m, n
    <3>2. (n + 0) + k <= m
      BY <1>2, <1>10
    <3> QED BY <3>1, <3>2
  <2>2. "word" \in Sizes /\ 0 \in Nat /\ FALSE \in BOOLEAN /\ n <= n + 0
    BY <1>2 DEF Sizes
  <2>3. n = Len(code)
    OBVIOUS
  <2> HIDE DEF b, m
  <2>4. WaitsFor(P \cup RefOf(o, "word", address, Len(code), 0, FALSE), refs, b, m)
    BY <1>2, <1>6, <1>10, <2>1, <2>2, TargetWaits
  <2> QED BY <1>5, <2>4
<1> HIDE DEF b, refs
<1> QED BY <1>2, <1>5, <1>6, <1>7, <1>8, <1>9, <1>10, <1>11, StatementLaid DEF b

LEMMA InstructionLaid ==
  ASSUME AsmInv, LaidInv, Steady(source), Instruction
  PROVE  LaidInv'
<1> DEFINE l == source[line]
           e == InstructionCells(l)
           src == l.src
           dst == l.dst
           s == l.size
           rel == l.op \in Relatives
           x == OperandCells(src, s)
           y == OperandCells(dst, s)
           p == Len(x)
           q == Len(y)
           once == WithTarget(targets, src, s, 2, rel)
           refs == WithTarget(once, dst, s, 2 + p, rel)
           b == Bottom(source)
           n == Len(code)
<1>1. /\ Reading("op") /\ Advance /\ labels' = labels /\ targets' = refs
      /\ code' = code \o e /\ address' = address + Len(e)
  BY DEF Instruction, InstructionTargets, Emit
<1>2. stage = "assemble" /\ l.kind = "op" /\ code \in Seq(Nat) /\ n \in Nat /\ l \in Statements /\ ~Panics(l)
  BY <1>1, ReadingFacts
<1>3. b \in Nat /\ address = b + n
  BY <1>1, <1>2, HereIs
<1>4. src \in AnyOperand /\ dst \in AnyOperand /\ s \in Sizes /\ l = source[line] /\ rel \in BOOLEAN
  BY <1>2, StatementFields
<1>5. e \in Seq(Nat) /\ Len(e) = 2 + p + q
  BY <1>2, OpCells
<1>6. /\ x \in Seq(Nat) /\ (IsLabel(src) => p = Bytes(Field(src, s)))
      /\ y \in Seq(Nat) /\ (IsLabel(dst) => q = Bytes(Field(dst, s)))
  <2> HIDE DEF l, src, dst, s
  <2> QED BY <1>4, OperandCellsAre
<1>7. ~Defining(l) /\ e = Emitted(l, b + n) /\ Sound(l, b + n)
  BY <1>2 DEF Defining, Emitted, Sound, Panics
<1>8. RefsOf(l, address, n) = RefOf(src, s, address, n, 2, rel) \cup RefOf(dst, s, address, n, 2 + p, rel)
  BY <1>2 DEF RefsOf
<1> DEFINE k == Len(e)
           m == Len(code')
           end == (n + 2) + p
<1>9. /\ p \in Nat /\ q \in Nat /\ k \in Nat /\ m \in Nat /\ m = n + k /\ address' = b + m /\ k = 2 + p + q
      /\ end \in Nat /\ n <= end /\ end <= m /\ (n + (2 + p)) + q <= m /\ n <= n + 2 /\ end <= n + (2 + p) /\ 2 + p \in Nat
  <2> HIDE DEF x, y, e
  <2>1. p \in Nat /\ q \in Nat /\ k = 2 + p + q
    BY <1>5, <1>6
  <2>2. m = n + k
    BY <1>1, <1>2, <1>5, LongerCode
  <2>3. address' = (b + n) + k
    BY <1>1, <1>3
  <2> HIDE DEF k, m, n, b, p, q
  <2>4. k \in Nat /\ m \in Nat /\ n <= end /\ end \in Nat /\ n <= n + 2 /\ 2 + p \in Nat
    BY <1>2, <2>1, <2>2
  <2>5. end <= m /\ (n + (2 + p)) + q <= m /\ end <= n + (2 + p)
    BY <1>2, <2>1, <2>2
  <2>6. address' = b + m
    <3>1. (b + n) + k = b + m
      BY <1>2, <1>3, <2>1, <2>2
    <3> QED BY <2>3, <3>1
  <2> QED BY <2>1, <2>2, <2>4, <2>5, <2>6
<1> HIDE DEF l, src, dst, s, rel, x, y, e, once, refs
<1>10. \A P : WaitsFor(P, targets, b, n) => WaitsFor(P \cup RefsOf(l, b + n, n), targets', b, m)
  <2> SUFFICES ASSUME NEW P, WaitsFor(P, targets, b, n)
               PROVE  WaitsFor(P \cup (RefOf(src, s, address, n, 2, rel) \cup RefOf(dst, s, address, n, 2 + p, rel)), targets', b, m)
    BY <1>3, <1>8
  <2> DEFINE P1 == P \cup RefOf(src, s, address, n, 2, rel)
             P2 == P1 \cup RefOf(dst, s, address, n, 2 + p, rel)
  <2>1. P2 = P \cup (RefOf(src, s, address, n, 2, rel) \cup RefOf(dst, s, address, n, 2 + p, rel))
    OBVIOUS
  <2>2. (IsLabel(src) => (Len(code) + 2) + Bytes(Field(src, s)) <= end)
        /\ (IsLabel(dst) => (Len(code) + (2 + p)) + Bytes(Field(dst, s)) <= m)
    <3> HIDE DEF m, p, q
    <3>1. (n + 2) + p <= end
      BY <1>9
    <3> HIDE DEF end
    <3> QED BY <1>6, <1>9, <3>1 DEF p, q
  <2>3. WaitsFor(P1, once, b, end)
    <3>1. 2 \in Nat /\ Len(code) \in Nat /\ address = b + Len(code) /\ n <= Len(code) + 2
      BY <1>2, <1>3, <1>9
    <3> HIDE DEF b, end, m, p
    <3>2. WaitsFor(P \cup RefOf(src, s, address, Len(code), 2, rel), WithTarget(targets, src, s, 2, rel), b, end)
      BY <1>2, <1>3, <1>4, <1>9, <2>2, <3>1, TargetWaits
    <3> QED BY <3>2 DEF once
  <2>4. WaitsFor(P2, refs, b, m)
    <3>1. Len(code) \in Nat /\ address = b + Len(code) /\ end <= Len(code) + (2 + p) /\ 2 + p \in Nat
      BY <1>2, <1>3, <1>9
    <3> HIDE DEF b, end, m, p, P1
    <3>2. WaitsFor(P1 \cup RefOf(dst, s, address, Len(code), 2 + p, rel), WithTarget(once, dst, s, 2 + p, rel), b, m)
      BY <1>3, <1>4, <1>9, <2>2, <2>3, <3>1, TargetWaits
    <3> QED BY <3>2 DEF refs
  <2> HIDE DEF P2
  <2> QED BY <1>1, <2>1, <2>4
<1> HIDE DEF b, m
<1> QED BY <1>1, <1>2, <1>3, <1>4, <1>5, <1>7, <1>9, <1>10, StatementLaid DEF b, m
-----------------------------------------------------------------------------
(* Backpatching: the references of one name get its value, the other cells *)
(* stay.                                                                   *)

(* No cell is in the fields of two references. *)
LEMMA OneField ==
  ASSUME NEW P, NEW b, NEW end, RefsApart(P, b, end), NEW q \in P, NEW r \in P, NEW c, InField(q, c), InField(r, c)
  PROVE  q = r
<1>1. q = r \/ Ordered(q, r) \/ Ordered(r, q)
  BY DEF RefsApart
<1> DEFINE x == q.place.cell
           m == Bytes(q.place.size)
           y == r.place.cell
           n == Bytes(r.place.size)
<1>2. x \in Nat /\ m \in Nat /\ y \in Nat /\ n \in Nat
  <2>1. q.place \in Places /\ r.place \in Places
    BY DEF RefsApart
  <2>2. x \in Nat /\ q.place.size \in Sizes /\ y \in Nat /\ r.place.size \in Sizes
    BY <2>1 DEF Places
  <2> QED BY <2>2, BytesOfSize
<1>3. c \in x + 1 .. x + m /\ c \in y + 1 .. y + n
  BY DEF InField
<1>4. Ordered(q, r) => x + m <= y
  BY DEF Ordered
<1>5. Ordered(r, q) => y + n <= x
  BY DEF Ordered
<1> HIDE DEF x, m, y, n
<1>6. ~Ordered(q, r) /\ ~Ordered(r, q)
  BY <1>2, <1>3, <1>4, <1>5
<1> QED BY <1>1, <1>6

(* The cells of the statements are cells of the text. *)
LEMMA CellWithin ==
  ASSUME NEW src, NEW off, NEW n \in Nat \ {0}, NEW text \in Seq(Nat), Offsets(src, off, n, text),
         NEW i \in 1 .. n - 1, NEW j \in DOMAIN Emitted(src[i], Bottom(src) + off[i])
  PROVE  off[i] + j \in 1 .. Len(text)
<1> DEFINE d == Emitted(src[i], Bottom(src) + off[i])
           x == off[i]
           y == off[i + 1]
           m == Len(d)
           t == Len(text)
<1>1. i \in 1 .. n /\ i + 1 \in 1 .. n /\ n \in 1 .. n /\ i + 1 <= n
  OBVIOUS
<1>2. off \in [1 .. n -> Nat] /\ off[n] = t /\ y = x + m /\ y <= off[n] /\ d \in Seq(Nat)
  BY <1>1 DEF Offsets
<1>3. x \in Nat /\ y \in Nat /\ t \in Nat /\ y <= t
  BY <1>1, <1>2
<1>4. j \in 1 .. m /\ m \in Nat
  BY <1>2
<1>5. y = x + m
  BY <1>2
<1> HIDE DEF d, x, y, m, t
<1>6. x + j \in 1 .. t
  BY <1>3, <1>4, <1>5
<1> QED BY <1>6 DEF x, t

InPlace(t, c) == c \in t.cell + 1 .. t.cell + Bytes(t.size)

(* A cell is patched for the only place that it is in. *)
LEMMA PatchedCell ==
  ASSUME NEW m, NEW a, NEW c \in DOMAIN code
  PROVE  /\ (\A k \in DOMAIN targets[m] : ~InPlace(targets[m][k], c)) => Patched(m, a)[c] = code[c]
         /\ \A k \in DOMAIN targets[m] :
              /\ InPlace(targets[m][k], c)
              /\ \A i \in DOMAIN targets[m] : InPlace(targets[m][i], c) => targets[m][i] = targets[m][k]
              => Patched(m, a)[c] = Cells(4, Distance(targets[m][k], a))[c - targets[m][k].cell]
<1> DEFINE hit == {t \in Range(targets[m]) : c \in t.cell + 1 .. t.cell + Bytes(t.size)}
<1>1. Patched(m, a)[c] = IF hit = {} THEN code[c]
                         ELSE LET t == CHOOSE t \in hit : TRUE
                              IN  Cells(4, Distance(t, a))[c - t.cell]
  BY DEF Patched
<1>2. \A t : t \in hit <=> \E k \in DOMAIN targets[m] : t = targets[m][k] /\ InPlace(t, c)
  BY DEF Range, InPlace
<1> HIDE DEF hit
<1>3. ASSUME \A k \in DOMAIN targets[m] : ~InPlace(targets[m][k], c)
      PROVE  Patched(m, a)[c] = code[c]
  <2>1. hit = {}
    BY <1>2, <1>3
  <2> QED BY <1>1, <2>1
<1>4. ASSUME NEW k \in DOMAIN targets[m], InPlace(targets[m][k], c),
             \A i \in DOMAIN targets[m] : InPlace(targets[m][i], c) => targets[m][i] = targets[m][k]
      PROVE  Patched(m, a)[c] = Cells(4, Distance(targets[m][k], a))[c - targets[m][k].cell]
  <2> DEFINE s == CHOOSE t \in hit : TRUE
  <2>1. targets[m][k] \in hit
    BY <1>2, <1>4
  <2>2. s \in hit
    BY <2>1
  <2>3. Patched(m, a)[c] = Cells(4, Distance(s, a))[c - s.cell]
    BY <1>1, <2>1
  <2> HIDE DEF s
  <2>4. s = targets[m][k]
    BY <1>2, <1>4, <2>2
  <2> QED BY <2>3, <2>4
<1> QED BY <1>3, <1>4

(* The references of one name are patched. *)
LEMMA PatchedText ==
  ASSUME NEW P, NEW b, RefsApart(P, b, Len(code)), Waiting(P, targets), code \in Seq(Nat),
         NEW m \in Names, NEW a, NEW c \in DOMAIN code
  PROVE  /\ \A q \in P : InField(q, c) /\ q.name # m => Patched(m, a)[c] = code[c]
         /\ Free(P, c) => Patched(m, a)[c] = code[c]
         /\ \A q \in P : InField(q, c) /\ q.name = m =>
              Patched(m, a)[c] = Cells(4, Distance(q.place, a))[c - q.place.cell]
<1>1. ASSUME NEW k \in DOMAIN targets[m], InPlace(targets[m][k], c)
      PROVE  \E r \in P : r.name = m /\ r.place = targets[m][k] /\ InField(r, c)
  <2> DEFINE r == [name |-> m, place |-> targets[m][k]]
  <2>1. r \in P
    BY DEF Waiting, Names
  <2>2. r.name = m /\ r.place = targets[m][k]
    OBVIOUS
  <2> HIDE DEF r
  <2>3. InField(r, c)
    BY <1>1, <2>2 DEF InField, InPlace
  <2> QED BY <2>1, <2>2, <2>3
<1>2. ASSUME NEW q \in P, InField(q, c), q.name # m
      PROVE  Patched(m, a)[c] = code[c]
  <2>1. ASSUME NEW k \in DOMAIN targets[m] PROVE ~InPlace(targets[m][k], c)
    BY <1>1, <1>2, OneField
  <2> QED BY <2>1, PatchedCell
<1>3. ASSUME Free(P, c) PROVE Patched(m, a)[c] = code[c]
  <2>1. ASSUME NEW k \in DOMAIN targets[m] PROVE ~InPlace(targets[m][k], c)
    BY <1>1, <1>3 DEF Free
  <2> QED BY <2>1, PatchedCell
<1>4. ASSUME NEW q \in P, InField(q, c), q.name = m
      PROVE  Patched(m, a)[c] = Cells(4, Distance(q.place, a))[c - q.place.cell]
  <2>1. PICK k \in DOMAIN targets[m] : targets[m][k] = q.place
    BY <1>4 DEF Waiting, Names
  <2>2. InPlace(targets[m][k], c)
    BY <1>4, <2>1 DEF InPlace, InField
  <2>3. ASSUME NEW i \in DOMAIN targets[m], InPlace(targets[m][i], c) PROVE targets[m][i] = targets[m][k]
    <3>1. PICK r \in P : r.name = m /\ r.place = targets[m][i] /\ InField(r, c)
      BY <1>1, <2>3
    <3>2. r = q
      BY <1>4, <3>1, OneField
    <3> QED BY <2>1, <3>1, <3>2
  <2>4. Patched(m, a)[c] = Cells(4, Distance(targets[m][k], a))[c - targets[m][k].cell]
    BY <2>2, <2>3, PatchedCell
  <2> QED BY <2>1, <2>4
<1> QED BY <1>2, <1>3, <1>4

(* No two references are at the same cell. *)
LEMMA OneAtCell ==
  ASSUME NEW P, NEW b \in Nat, NEW end, RefsApart(P, b, end), NEW q \in P, NEW r \in P,
         b + q.place.cell = b + r.place.cell
  PROVE  q = r
<1> DEFINE x == q.place.cell
           m == Bytes(q.place.size)
           y == r.place.cell
           n == Bytes(r.place.size)
<1>1. q.place \in Places /\ r.place \in Places
  BY DEF RefsApart
<1>2. x \in Nat /\ q.place.size \in Sizes /\ y \in Nat /\ r.place.size \in Sizes
  BY <1>1 DEF Places
<1>3. m \in 1 .. 4 /\ n \in 1 .. 4
  BY <1>2, BytesOfSize
<1> HIDE DEF m, n
<1>4. x = y
  <2> HIDE DEF x, y
  <2>1. b + x = b + y
    BY DEF x, y
  <2> QED BY <1>2, <2>1
<1>5. x + 1 \in x + 1 .. x + m /\ x + 1 \in y + 1 .. y + n
  <2> HIDE DEF x, y
  <2> QED BY <1>2, <1>3, <1>4
<1>6. InField(q, x + 1) /\ InField(r, x + 1)
  BY <1>5 DEF InField, m, n
<1> QED BY <1>6, OneField

(* A patched reference that moves with the program is listed. *)
LEMMA PatchedListed ==
  ASSUME NEW P, NEW b \in Nat, NEW end, NEW m, NEW map, NEW defs, NEW table \in Seq(Nat), NEW new \in Seq(Nat),
         RefsApart(P, b, end), Waiting(P, map), m \in DOMAIN map, Listed(P, b, map, defs, table),
         NEW rest, DOMAIN rest = DOMAIN map \ {m},
         defs[m].const => new = <<>>,
         ~defs[m].const => new = [k \in DOMAIN map[m] |-> map[m][k].instruction + map[m][k].index]
  PROVE  Listed(P, b, rest, defs, table \o new)
<1> DEFINE all == table \o new
           ref(k) == [name |-> m, place |-> map[m][k]]
<1>1. \A q : Moved(q, rest, defs) <=> (Moved(q, map, defs) \/ (q.name = m /\ ~defs[m].const))
  BY DEF Moved
<1>2. \A q : Moved(q, map, defs) => q.name # m
  BY DEF Moved
<1>3. /\ Len(all) = Len(table) + Len(new) /\ Len(table) \in Nat /\ Len(new) \in Nat
      /\ DOMAIN all = 1 .. Len(all) /\ DOMAIN table = 1 .. Len(table) /\ DOMAIN new = 1 .. Len(new)
  <2>1. all \in Seq(Nat)
    BY JoinedIs
  <2>2. Len(all) = Len(table) + Len(new)
    BY JoinedLength
  <2> HIDE DEF all
  <2> QED BY <2>1, <2>2
<1>4. \A k \in DOMAIN table : k \in DOMAIN all /\ all[k] = table[k]
  <2> TAKE k \in DOMAIN table
  <2>1. k \in 1 .. Len(table)
    BY <1>3
  <2>2. all[k] = table[k]
    BY <2>1, JoinedLeft
  <2> HIDE DEF all
  <2>3. k \in DOMAIN all
    BY <1>3, <2>1
  <2> QED BY <2>2, <2>3
<1>5. \A k \in DOMAIN new : Len(table) + k \in DOMAIN all /\ all[Len(table) + k] = new[k]
  <2> TAKE k \in DOMAIN new
  <2>1. k \in 1 .. Len(new)
    BY <1>3
  <2>2. all[Len(table) + k] = new[k]
    BY <2>1, JoinedRight
  <2> HIDE DEF all
  <2>3. Len(table) + k \in DOMAIN all
    BY <1>3, <2>1
  <2> QED BY <2>2, <2>3
<1> HIDE DEF all
<1>6. \A k \in DOMAIN all : k \in DOMAIN table \/ \E j \in DOMAIN new : k = Len(table) + j
  <2> TAKE k \in DOMAIN all
  <2> DEFINE x == Len(table)
             j == k - x
             y == Len(new)
  <2>1. k \in 1 .. x + y /\ x \in Nat /\ y \in Nat
    BY <1>3
  <2> HIDE DEF x, y
  <2>2. k \in 1 .. x \/ (j \in 1 .. y /\ k = x + j)
    BY <2>1 DEF j
  <2> QED BY <1>3, <2>2 DEF x, y
<1>7. ASSUME NEW k \in DOMAIN new
      PROVE  k \in DOMAIN map[m] /\ ~defs[m].const /\ ref(k) \in P /\ new[k] = b + ref(k).place.cell
  <2>1. ~defs[m].const
    <3>1. CASE defs[m].const
      <4>1. new = <<>>
        BY <3>1
      <4> QED BY <4>1
    <3> QED BY <3>1
  <2>2. k \in DOMAIN map[m] /\ new[k] = map[m][k].instruction + map[m][k].index
    BY <2>1
  <2>3. ref(k) \in P /\ ref(k).place = map[m][k]
    BY <2>2 DEF Waiting
  <2> HIDE DEF ref
  <2>4. ref(k).place.instruction + ref(k).place.index = b + ref(k).place.cell
    BY <2>3 DEF RefsApart
  <2> QED BY <2>1, <2>2, <2>3, <2>4
<1>8. \A k : ref(k).name = m /\ ref(k).place = map[m][k]
  OBVIOUS
<1> HIDE DEF ref
<1>9. ASSUME NEW k \in DOMAIN all
      PROVE  \E q \in P : Moved(q, rest, defs) /\ all[k] = b + q.place.cell
  <2>1. CASE k \in DOMAIN table
    <3>1. PICK q \in P : Moved(q, map, defs) /\ table[k] = b + q.place.cell
      BY <2>1 DEF Listed
    <3> QED BY <1>1, <1>4, <2>1, <3>1
  <2>2. CASE \E j \in DOMAIN new : k = Len(table) + j
    <3>1. PICK j \in DOMAIN new : k = Len(table) + j
      BY <2>2
    <3> QED BY <1>1, <1>5, <1>7, <1>8, <3>1
  <2> QED BY <1>6, <2>1, <2>2
<1>10. ASSUME NEW q \in P, Moved(q, rest, defs)
       PROVE  \E k \in DOMAIN all : all[k] = b + q.place.cell
  <2>1. CASE Moved(q, map, defs)
    BY <1>4, <2>1 DEF Listed
  <2>2. CASE q.name = m /\ ~defs[m].const
    <3>1. PICK k \in DOMAIN map[m] : map[m][k] = q.place
      BY <2>2 DEF Waiting
    <3>2. k \in DOMAIN new
      BY <2>2, <3>1
    <3> QED BY <1>5, <1>7, <1>8, <3>1, <3>2
  <2> QED BY <1>1, <1>10, <2>1, <2>2
<1>11. ASSUME NEW j \in DOMAIN table, NEW k \in DOMAIN new PROVE table[j] # new[k]
  <2>1. PICK q \in P : Moved(q, map, defs) /\ table[j] = b + q.place.cell
    BY DEF Listed
  <2>2. q # ref(k)
    BY <1>2, <1>8, <2>1
  <2>3. b + q.place.cell # b + ref(k).place.cell
    BY <1>7, <2>2, OneAtCell
  <2> QED BY <1>7, <2>1, <2>3
<1>12. ASSUME NEW j \in DOMAIN new, NEW k \in DOMAIN new, new[j] = new[k] PROVE j = k
  <2>1. b + ref(j).place.cell = b + ref(k).place.cell
    BY <1>7, <1>12
  <2>2. ref(j) = ref(k)
    BY <1>7, <2>1, OneAtCell
  <2>3. map[m][j] = map[m][k]
    BY <1>8, <2>2
  <2> QED BY <1>7, <2>3 DEF Waiting
<1>13. ASSUME NEW j \in DOMAIN all, NEW k \in DOMAIN all, all[j] = all[k] PROVE j = k
  <2>1. CASE j \in DOMAIN table /\ k \in DOMAIN table
    BY <1>4, <1>13, <2>1 DEF Listed
  <2>2. CASE j \in DOMAIN table /\ \E i \in DOMAIN new : k = Len(table) + i
    BY <1>4, <1>5, <1>11, <1>13, <2>2
  <2>3. CASE k \in DOMAIN table /\ \E i \in DOMAIN new : j = Len(table) + i
    BY <1>4, <1>5, <1>11, <1>13, <2>3
  <2>4. CASE (\E i \in DOMAIN new : j = Len(table) + i) /\ \E i \in DOMAIN new : k = Len(table) + i
    BY <1>5, <1>12, <1>13, <2>4
  <2> QED BY <1>6, <2>1, <2>2, <2>3, <2>4
<1>14. Listed(P, b, rest, defs, all)
  BY <1>9, <1>10, <1>13 DEF Listed
<1> QED BY <1>14 DEF all

(* A name is patched: its references hold their final value. *)
LEMMA PatchedResolved ==
  ASSUME NEW P, NEW b, RefsApart(P, b, Len(code)), Waiting(P, targets), code \in Seq(Nat),
         NEW m \in Names, m \in DOMAIN labels, Resolved(P, targets, labels, code),
         NEW rest, DOMAIN rest = Names \ {m}
  PROVE  Resolved(P, rest, labels, Patched(m, labels[m].at))
<1> DEFINE t == Patched(m, labels[m].at)
<1> SUFFICES ASSUME NEW q \in P, q.name \notin DOMAIN rest
             PROVE  /\ q.name \in DOMAIN labels
                    /\ \A j \in 1 .. Bytes(q.place.size) :
                         t[q.place.cell + j] = Cells(4, Distance(q.place, labels[q.name].at))[j]
  BY DEF Resolved
<1>1. ASSUME NEW j \in 1 .. Bytes(q.place.size)
      PROVE  /\ q.place.cell + j \in DOMAIN code /\ InField(q, q.place.cell + j)
             /\ (q.place.cell + j) - q.place.cell = j
  <2> DEFINE c == q.place.cell
             n == Bytes(q.place.size)
             e == Len(code)
  <2>1. q.place \in Places /\ c + n <= e
    BY DEF RefsApart
  <2>2. c \in Nat /\ q.place.size \in Sizes /\ e \in Nat /\ DOMAIN code = 1 .. e
    BY <2>1 DEF Places
  <2>3. n \in Nat /\ j \in 1 .. n
    BY <2>2, BytesOfSize
  <2> HIDE DEF c, n, e
  <2>4. c + j \in 1 .. e /\ c + j \in c + 1 .. c + n /\ (c + j) - c = j
    BY <2>1, <2>2, <2>3
  <2> QED BY <2>2, <2>4 DEF InField, c, n
<1> HIDE DEF t
<1>2. CASE q.name = m
  <2>1. \A c \in DOMAIN code : InField(q, c) => t[c] = Cells(4, Distance(q.place, labels[m].at))[c - q.place.cell]
    BY <1>2, PatchedText DEF t
  <2> QED BY <1>1, <1>2, <2>1
<1>3. CASE q.name # m
  <2>1. q.name \notin DOMAIN targets
    BY <1>3 DEF Names
  <2>2. \A c \in DOMAIN code : InField(q, c) => t[c] = code[c]
    BY <1>3, PatchedText DEF t
  <2> QED BY <1>1, <2>1, <2>2 DEF Resolved
<1> QED BY <1>2, <1>3

(* The other cells keep their value. *)
LEMMA PatchedEncoded ==
  ASSUME NEW src, NEW off, NEW n \in Nat \ {0}, NEW P, NEW b, RefsApart(P, b, Len(code)), Waiting(P, targets),
         code \in Seq(Nat), NEW m \in Names, NEW a, Offsets(src, off, n, code), Encoded(src, off, n, P, code)
  PROVE  Encoded(src, off, n, P, Patched(m, a))
<1> SUFFICES ASSUME NEW i \in 1 .. n - 1, NEW j \in DOMAIN Emitted(src[i], Bottom(src) + off[i]), Free(P, off[i] + j)
             PROVE  Patched(m, a)[off[i] + j] = Emitted(src[i], Bottom(src) + off[i])[j]
  BY DEF Encoded
<1>1. off[i] + j \in 1 .. Len(code)
  BY CellWithin
<1> DEFINE c == off[i] + j
<1>2. c \in DOMAIN code /\ Free(P, c)
  BY <1>1
<1> HIDE DEF c
<1>3. Patched(m, a)[c] = code[c]
  BY <1>2, PatchedText
<1>4. code[off[i] + j] = Emitted(src[i], Bottom(src) + off[i])[j]
  BY DEF Encoded
<1> QED BY <1>3, <1>4 DEF c

LEMMA BackpatchLaid ==
  ASSUME AsmInv, LaidInv, Steady(source), NEW m \in Names, Backpatch(m)
  PROVE  LaidInv'
<1>1. CASE m \notin DOMAIN labels
  BY <1>1 DEF Backpatch, LaidInv
<1>2. CASE m \in DOMAIN labels
  <2> DEFINE new == IF labels[m].const THEN <<>>
                    ELSE [k \in DOMAIN targets[m] |-> targets[m][k].instruction + targets[m][k].index]
             rest == [k \in Names \ {m} |-> targets[k]]
             text == Patched(m, labels[m].at)
             b == Bottom(source)
  <2>1. /\ UNCHANGED <<program, source, line, size, address, labels, file, stage>>
        /\ stage = "backpatch"
        /\ code' = text /\ relocs' = relocs \o new /\ targets' = rest
    BY <1>2 DEF Backpatch, input
  <2>2. targets[m] \in Seq(Places) /\ targets[m] # <<>>
    BY DEF AsmInv, PlacesOK, Names
  <2>3. /\ code \in Seq(Nat) /\ relocs \in Seq(Nat) /\ source \in Seq(Statements) /\ line = Len(source) + 1
        /\ line \in 1 .. Len(source) + 1
    BY <2>1 DEF AsmInv, AsmTypeOK
  <2>4. labels[m].at \in Nat
    BY <1>2 DEF AsmInv
  <2>5. text \in Seq(Nat) /\ Len(text) = Len(code)
    BY <2>2, <2>3, <2>4, PatchedCode
  <2>6. line # 1 \/ Flat(source)
    <3>1. CASE line = 1
      <4>1. Len(source) = 0
        BY <2>3, <3>1
      <4>2. DOMAIN source = {}
        BY <2>3, <4>1
      <4> QED BY <4>2 DEF Flat
    <3> QED BY <3>1
  <2>7. b \in Nat /\ address = b + Len(code)
    BY <2>1, <2>6 DEF LaidInv
  <2>8. PICK off \in [1 .. line -> Nat] : Laid(source, off, line, code, targets, labels, relocs)
    BY <2>1 DEF LaidInv
  <2> DEFINE P == AllRefs(source, off, line)
  <2>9. /\ Offsets(source, off, line, code) /\ Encoded(source, off, line, P, code)
        /\ RefsApart(P, b, Len(code)) /\ Waiting(P, targets) /\ Values(source, off, line, labels)
        /\ Resolved(P, targets, labels, code) /\ Listed(P, b, targets, labels, relocs)
    BY <2>8 DEF Laid
  <2>10. DOMAIN rest = Names \ {m} /\ \A k \in DOMAIN rest : k \in DOMAIN targets /\ rest[k] = targets[k]
    BY DEF Names
  <2>11. new \in Seq(Nat)
    <3>1. CASE labels[m].const
      BY <3>1
    <3>2. CASE ~labels[m].const
      <4> DEFINE places == targets[m]
      <4>1. new = [k \in DOMAIN places |-> places[k].instruction + places[k].index]
        BY <3>2
      <4>2. places \in Seq(Places) /\ DOMAIN places = 1 .. Len(places) /\ Len(places) \in Nat
        BY <2>2
      <4> HIDE DEF new, places
      <4>3. ASSUME NEW k \in DOMAIN places PROVE places[k].instruction + places[k].index \in Nat
        <5> DEFINE p == places[k]
        <5>1. p \in Places
          BY <4>2
        <5> HIDE DEF p
        <5>2. p.instruction \in Nat /\ p.index \in Nat
          BY <5>1 DEF Places
        <5> QED BY <5>2 DEF p
      <4> QED BY <4>1, <4>2, <4>3
    <3> QED BY <3>1, <3>2
  <2>12. /\ labels[m].const => new = <<>>
         /\ ~labels[m].const => new = [k \in DOMAIN targets[m] |-> targets[m][k].instruction + targets[m][k].index]
    OBVIOUS
  <2> HIDE DEF new, rest, P, b
  <2>13. line \in Nat \ {0}
    <3>1. Len(source) \in Nat
      BY <2>3
    <3> QED BY <2>3, <3>1
  <2>14. Offsets(source, off, line, text)
    <3> HIDE DEF text
    <3> QED BY <2>5, <2>9 DEF Offsets
  <2>15. Encoded(source, off, line, P, text)
    BY <2>3, <2>9, <2>13, PatchedEncoded
  <2>16. RefsApart(P, b, Len(text))
    BY <2>5, <2>9
  <2>17. Waiting(P, rest)
    <3>1. \A k \in DOMAIN rest : rest[k] \in Seq(Places)
      BY <2>9, <2>10 DEF Waiting
    <3>2. \A q \in P : q.name \in DOMAIN rest => \E k \in DOMAIN rest[q.name] : rest[q.name][k] = q.place
      BY <2>9, <2>10 DEF Waiting
    <3>3. \A n \in DOMAIN rest : \A k \in DOMAIN rest[n] : [name |-> n, place |-> rest[n][k]] \in P
      BY <2>9, <2>10 DEF Waiting
    <3>4. \A n \in DOMAIN rest : \A j, k \in DOMAIN rest[n] : rest[n][j] = rest[n][k] => j = k
      BY <2>9, <2>10 DEF Waiting
    <3> QED BY <3>1, <3>2, <3>3, <3>4 DEF Waiting
  <2>18. Resolved(P, rest, labels, text)
    BY <1>2, <2>3, <2>9, <2>10, PatchedResolved
  <2>19. Listed(P, b, rest, labels, relocs \o new)
    <3>1. m \in DOMAIN targets /\ DOMAIN rest = DOMAIN targets \ {m}
      BY <2>10 DEF Names
    <3> QED BY <2>3, <2>7, <2>9, <2>11, <2>12, <3>1, PatchedListed
  <2>20. Laid(source, off, line, text, rest, labels, relocs \o new)
    BY <2>9, <2>14, <2>15, <2>16, <2>17, <2>18, <2>19 DEF Laid, P, b
  <2> HIDE DEF text
  <2>21. Laid(source, off, line, code, targets, labels, relocs)'
    BY <2>1, <2>20
  <2>22. (line # 1 \/ Flat(source) => Bottom(source) \in Nat /\ address = Bottom(source) + Len(code))'
    BY <2>1, <2>5, <2>7 DEF b
  <2>23. LaidInv' <=> (stage \in {"assemble", "backpatch", "done"} /\ Steady(source) =>
            /\ (line # 1 \/ Flat(source) => Bottom(source) \in Nat /\ address = Bottom(source) + Len(code))'
            /\ \E f \in [1 .. line -> Nat] :
                 /\ Laid(source, f, line, code', targets', labels, relocs')
                 /\ stage = "assemble" => AllWait(source, f, line, targets', relocs'))
    BY <2>1 DEF LaidInv
  <2>24. \E f \in [1 .. line -> Nat] :
            /\ Laid(source, f, line, code', targets', labels, relocs')
            /\ stage = "assemble" => AllWait(source, f, line, targets', relocs')
    BY <2>1, <2>20
  <2> QED BY <2>22, <2>23, <2>24
<1> QED BY <1>1, <1>2
-----------------------------------------------------------------------------
(* The other steps of the assembler.                                       *)

(* Nothing is laid before the first statement. *)
LEMMA IncludedLaid ==
  ASSUME AsmInv, Included
  PROVE  LaidInv'
<1>1. /\ UNCHANGED <<program, source, line, size, address, code, labels, targets, relocs, file>>
      /\ stage = "include" /\ stage' \in {"assemble", "failed"}
  BY DEF Included, input, output
<1>2. NothingYet /\ source \in Seq(Statements)
  BY <1>1 DEF AsmInv, AsmTypeOK
<1>3. line = 1 /\ address = 0 /\ code = <<>> /\ relocs = <<>> /\ DOMAIN targets = {} /\ DOMAIN labels = {}
  BY <1>2 DEF NothingYet, Names
<1> DEFINE off == [i \in 1 .. 1 |-> 0]
           b == Bottom(source)
<1>4. off \in [1 .. 1 -> Nat] /\ off[1] = 0 /\ 1 .. 1 - 1 = {} /\ 1 .. 1 = {1} /\ Len(<<>>) = 0 /\ <<>> \in Seq(Nat) /\ DOMAIN <<>> = {}
  OBVIOUS
<1> HIDE DEF off
<1>5. AllRefs(source, off, 1) = {}
  BY <1>4 DEF AllRefs
<1>6. Laid(source, off, 1, <<>>, targets, labels, <<>>)
  <2>1. Offsets(source, off, 1, <<>>)
    BY <1>4 DEF Offsets
  <2>2. Encoded(source, off, 1, {}, <<>>)
    BY <1>4 DEF Encoded
  <2>3. RefsApart({}, b, Len(<<>>)) /\ Waiting({}, targets) /\ Resolved({}, targets, labels, <<>>)
    BY <1>3 DEF RefsApart, Waiting, Resolved
  <2>4. Values(source, off, 1, labels)
    BY <1>3 DEF Values
  <2>5. Listed({}, b, targets, labels, <<>>)
    BY <1>4 DEF Listed
  <2> QED BY <1>5, <2>1, <2>2, <2>3, <2>4, <2>5 DEF Laid
<1>7. AllWait(source, off, 1, targets, <<>>)
  BY <1>5 DEF AllWait
<1>8. Flat(source) => Bottom(source) \in Nat /\ address = Bottom(source) + Len(code)
  BY <1>3, <1>4 DEF Bottom
<1>9. \E f \in [1 .. line -> Nat] : Laid(source, f, line, code, targets, labels, relocs) /\ AllWait(source, f, line, targets, relocs)
  BY <1>3, <1>4, <1>6, <1>7
<1>10. (line # 1 \/ Flat(source) => Bottom(source) \in Nat /\ address = Bottom(source) + Len(code))'
  BY <1>1, <1>3, <1>8
<1>11. (\E f \in [1 .. line -> Nat] :
          /\ Laid(source, f, line, code, targets, labels, relocs)
          /\ stage = "assemble" => AllWait(source, f, line, targets, relocs))'
  BY <1>1, <1>9
<1> QED BY <1>10, <1>11 DEF LaidInv

(* What is laid stays when only the stage advances. *)
LEMMA StageLaid ==
  ASSUME LaidInv, UNCHANGED <<source, line, address, code, labels, targets, relocs>>,
         stage' \in {"assemble", "backpatch", "done"} => stage \in {"assemble", "backpatch", "done"},
         stage' = "assemble" => stage = "assemble"
  PROVE  LaidInv'
<1> SUFFICES ASSUME stage' \in {"assemble", "backpatch", "done"}, Steady(source)
             PROVE  /\ (line # 1 \/ Flat(source) => Bottom(source) \in Nat /\ address = Bottom(source) + Len(code))'
                    /\ (\E f \in [1 .. line -> Nat] :
                          /\ Laid(source, f, line, code, targets, labels, relocs)
                          /\ stage = "assemble" => AllWait(source, f, line, targets, relocs))'
  BY DEF LaidInv
<1>1. line # 1 \/ Flat(source) => Bottom(source) \in Nat /\ address = Bottom(source) + Len(code)
  BY DEF LaidInv
<1>2. PICK f \in [1 .. line -> Nat] :
          /\ Laid(source, f, line, code, targets, labels, relocs)
          /\ stage = "assemble" => AllWait(source, f, line, targets, relocs)
  BY DEF LaidInv
<1>3. (\E g \in [1 .. line -> Nat] :
          /\ Laid(source, g, line, code, targets, labels, relocs)
          /\ stage = "assemble" => AllWait(source, g, line, targets, relocs))'
  BY <1>2
<1> QED BY <1>1, <1>3

LEMMA LaidInit == AssemblerInit => LaidInv
  BY DEF AssemblerInit, LaidInv

LEMMA LaidStep == AsmInv /\ LaidInv /\ [Next]_vars => LaidInv'
<1> SUFFICES ASSUME AsmInv, LaidInv, [Next]_vars PROVE LaidInv'
  OBVIOUS
<1>1. AssemblerNext \/ UNCHANGED avars
  BY DEF Next, Assemble, Start, Insert, Run, TakeBlock, UseFiles, vars
<1>2. CASE UNCHANGED avars
  BY <1>2, StageLaid DEF avars, input, output
<1>3. CASE Include
  BY <1>3 DEF Include, LaidInv
<1>4. CASE Included
  BY <1>4, IncludedLaid
<1>5. CASE Panic \/ Assembled \/ Write
  <2>1. UNCHANGED <<source, line, address, code, labels, targets, relocs>> /\ stage' # "assemble"
        /\ stage \in {"assemble", "backpatch"}
    BY <1>5 DEF Panic, Assembled, Write, input, output
  <2> QED BY <2>1, StageLaid
<1>6. CASE LabelDefine \/ Constant \/ Origin \/ Data \/ Blob \/ Fill \/ Instruction \/ \E n \in Names : Backpatch(n)
  <2>1. CASE ~Steady(source)
    <3>1. source' = source
      BY <1>6 DEF LabelDefine, Constant, Origin, Data, Blob, Fill, Instruction, Backpatch, Define, Emit, Advance, input
    <3> QED BY <2>1, <3>1 DEF LaidInv
  <2>2. CASE Steady(source)
    BY <1>6, <2>2, LabelLaid, ConstantLaid, OriginLaid, DataLaid, BlobLaid, FillLaid, InstructionLaid, BackpatchLaid
  <2> QED BY <2>1, <2>2
<1> QED BY <1>1, <1>2, <1>3, <1>4, <1>5, <1>6 DEF AssemblerNext
-----------------------------------------------------------------------------
(* The CPU fetches from memory what was encoded.                           *)

(* The cells of a word, as many as a size has, are read back as its low part. *)
LEMMA LoadsLow ==
  ASSUME NEW mem, NEW a \in Int, NEW s \in Sizes, NEW v \in Word,
         \A j \in 1 .. Bytes(s) : mem[a + j - 1] = Cells(4, v)[j]
  PROVE  Load(mem, a, s) = Low(s, v)
<1> DEFINE b == Mod("byte")
           d0 == ByteOf(v, 0)
           d1 == ByteOf(v, 1)
           d2 == ByteOf(v, 2)
           d3 == ByteOf(v, 3)
<1>1. v = d0 + b * (d1 + b * (d2 + b * d3))
  BY Digits DEF Numeral
<1>2. a + 1 - 1 = a /\ a + 2 - 1 = a + 1 /\ a + 3 - 1 = a + 2 /\ a + 4 - 1 = a + 3
  OBVIOUS
<1>3. Cells(4, v)[1] = d0 /\ Cells(4, v)[2] = d1 /\ Cells(4, v)[3] = d2 /\ Cells(4, v)[4] = d3
  BY CellsAreBytes
<1>4. v \in Nat /\ v \in 0 .. Mod("word") - 1 /\ Mod("word") \in Nat \ {0}
  BY ModValues DEF Word
<1>5. d0 \in 0 .. b - 1 /\ d1 \in 0 .. b - 1 /\ d2 \in Int /\ d3 \in Int
  <2>1. b \in {16, 256}
    BY ModValues
  <2>2. ASSUME NEW k \in {0, 1, 2, 3} PROVE ByteOf(v, k) \in 0 .. b - 1
    <3> DEFINE p == BytePow(b, k)
               q == v \div p
    <3>1. p \in Nat \ {0}
      BY <2>1, BytePowers
    <3> HIDE DEF p
    <3>2. q \in Int
      BY <1>4, <3>1, Divides
    <3> HIDE DEF q
    <3> HIDE DEF b
    <3>3. q % b \in 0 .. b - 1
      BY <2>1, <3>2, Divides
    <3> QED BY <3>3 DEF ByteOf, Digit, q, p, b
  <2>3. \A k \in {0, 1, 2, 3} : ByteOf(v, k) \in Int
    BY <2>1, <2>2
  <2> QED BY <2>2, <2>3
<1> HIDE DEF d0, d1, d2, d3
<1>6. CASE s = "byte"
  <2>1. mem[a] = d0
    BY <1>2, <1>3, <1>6 DEF Bytes
  <2>2. v % b = d0
    <3>1. b \in {16, 256}
      BY ModValues
    <3> DEFINE q == d1 + b * (d2 + b * d3)
    <3> HIDE DEF b
    <3>2. q \in Int /\ v = b * q + d0
      BY <1>1, <1>5, <3>1
    <3> HIDE DEF q
    <3> QED BY <1>4, <1>5, <3>1, <3>2, DividesOnce
  <2> QED BY <1>6, <2>1, <2>2 DEF Load, Low
<1>7. CASE s = "half"
  <2>1. mem[a] = d0 /\ mem[a + 1] = d1
    BY <1>2, <1>3, <1>7 DEF Bytes
  <2> DEFINE h == Mod("half")
             q == d2 + b * d3
             r == d0 + b * d1
  <2>2. (b = 16 /\ h = 256) \/ (b = 256 /\ h = 65536)
    BY ModValues
  <2> HIDE DEF b, h
  <2>3. q \in Int /\ r \in 0 .. h - 1 /\ v = h * q + r /\ h \in Nat \ {0}
    BY <1>1, <1>5, <2>2
  <2> HIDE DEF q
  <2>4. v % h = r
    <3> HIDE DEF r
    <3> QED BY <1>4, <2>3, DividesOnce
  <2>5. Load(mem, a, s) = r
    BY <1>7, <2>1 DEF Load, b
  <2> QED BY <1>7, <2>4, <2>5 DEF Low, h
<1>8. CASE s = "word"
  <2>1. mem[a] = d0 /\ mem[a + 1] = d1 /\ mem[a + 2] = d2 /\ mem[a + 3] = d3
    BY <1>2, <1>3, <1>8 DEF Bytes
  <2>2. Load(mem, a, s) = v
    BY <1>1, <1>8, <2>1 DEF Load
  <2>3. v % Mod("word") = v
    <3> DEFINE w == Mod("word")
    <3>1. w \in Nat \ {0} /\ v \in 0 .. w - 1
      BY <1>4
    <3> HIDE DEF w
    <3> QED BY <3>1, Whole DEF w
  <2> QED BY <1>8, <2>2, <2>3 DEF Low
<1> QED BY <1>6, <1>7, <1>8 DEF Sizes

(* The kind that the CPU sees in place of one that is written. *)
Seen(k) == CASE k = "label" -> "imm" [] k = "labelptr" -> "immptr" [] OTHER -> k

(* What the CPU finds in the two cells of the header. *)
LEMMA OpcodeRead ==
  ASSUME NEW op \in ZeroOps \cup OneOps \cup (TwoOps \ SignedOps), NEW s \in Sizes
  PROVE  /\ OpNamed((OpCode[op] + SizeCode[s]) % 64) = op
         /\ SizeNamed[(OpCode[op] + SizeCode[s]) \div 64 + 1] = s
<1> DEFINE x == OpCode[op]
           i == SizeCode[s] \div 64
<1>1. x \in 0 .. 63 /\ OpNamed(x) = op
  <2>1. CASE op \in ZeroOps
    <3>1. \A o \in ZeroOps : OpCode[o] \in 0 .. 63
      BY DEF OpCode, ZeroOps
    <3>2. /\ OpNamed(0) = "nop" /\ OpNamed(16) = "halt" /\ OpNamed(32) = "brk"
          /\ OpNamed(42) = "ret" /\ OpNamed(58) = "reti" /\ OpNamed(12) = "ise"
          /\ OpNamed(28) = "icl"
      BY DEF OpNamed
    <3>3. \A o \in ZeroOps : OpNamed(OpCode[o]) = o
      BY <3>2 DEF OpCode, ZeroOps
    <3> QED BY <2>1, <3>1, <3>3
  <2>2. CASE op \in OneOps
    <3>1. \A o \in OneOps : OpCode[o] \in 0 .. 63
      BY DEF OpCode, OneOps
    <3>2. /\ OpNamed(17) = "inc" /\ OpNamed(49) = "dec" /\ OpNamed(51) = "not"
          /\ OpNamed(8) = "jmp" /\ OpNamed(24) = "call" /\ OpNamed(40) = "loop"
          /\ OpNamed(9) = "rjmp" /\ OpNamed(25) = "rcall" /\ OpNamed(41) = "rloop"
          /\ OpNamed(10) = "push" /\ OpNamed(26) = "pop"
      BY DEF OpNamed
    <3>3. \A o \in OneOps : OpNamed(OpCode[o]) = o
      BY <3>2 DEF OpCode, OneOps
    <3> QED BY <2>2, <3>1, <3>3
  <2>3. CASE op \in TwoOps \ SignedOps
    <3>1. \A o \in TwoOps \ SignedOps : OpCode[o] \in 0 .. 63
      BY DEF OpCode, TwoOps, SignedOps, ShiftOps
    <3>2. /\ OpNamed(1) = "add" /\ OpNamed(33) = "sub" /\ OpNamed(2) = "mul" /\ OpNamed(34) = "div"
          /\ OpNamed(50) = "rem" /\ OpNamed(3) = "and" /\ OpNamed(19) = "or" /\ OpNamed(35) = "xor"
          /\ OpNamed(6) = "bse" /\ OpNamed(22) = "bcl" /\ OpNamed(38) = "bts"
      BY DEF OpNamed
    <3>3. /\ OpNamed(7) = "cmp" /\ OpNamed(23) = "mov" /\ OpNamed(39) = "movz"
          /\ OpNamed(57) = "rta" /\ OpNamed(11) = "in" /\ OpNamed(27) = "out" /\ OpNamed(4) = "sla"
          /\ OpNamed(5) = "sra" /\ OpNamed(21) = "srl" /\ OpNamed(36) = "rol"
          /\ OpNamed(37) = "ror"
      BY DEF OpNamed
    <3>4. \A o \in TwoOps \ SignedOps : OpNamed(OpCode[o]) = o
      BY <3>2, <3>3 DEF OpCode, TwoOps, SignedOps, ShiftOps
    <3> QED BY <2>3, <3>1, <3>4
  <2> QED BY <2>1, <2>2, <2>3
<1>2. i \in {0, 1, 2} /\ SizeCode[s] = 64 * i /\ SizeNamed[i + 1] = s
  BY DEF Sizes, SizeCode, SizeNamed
<1> HIDE DEF x, i
<1>3. (x + 64 * i) % 64 = x /\ (x + 64 * i) \div 64 = i
  BY <1>1, <1>2
<1> QED BY <1>1, <1>2, <1>3 DEF x

LEMMA ControlRead ==
  ASSUME NEW c \in Conds, NEW k \in {"none", "reg", "regptr", "imm", "label", "immptr", "labelptr"},
         NEW m \in {"none", "reg", "regptr", "imm", "label", "immptr", "labelptr"},
         NEW x, x = CondCode[c] + OperandCode[k] + 4 * OperandCode[m]
  PROVE  /\ CondNamed[x \div 16 + 1] = c
         /\ k # "none" => KindNamed[(x % 4) + 1] = Seen(k)
         /\ m # "none" => KindNamed[((x \div 4) % 4) + 1] = Seen(m)
<1> DEFINE i == CondCode[c] \div 16
           p == OperandCode[k]
           q == OperandCode[m]
<1>1. i \in 0 .. 6 /\ CondCode[c] = 16 * i /\ CondNamed[i + 1] = c
  BY DEF Conds, CondCode, CondNamed
<1>2. p \in 0 .. 3 /\ (k # "none" => KindNamed[p + 1] = Seen(k))
  BY DEF OperandCode, KindNamed, Seen
<1>3. q \in 0 .. 3 /\ (m # "none" => KindNamed[q + 1] = Seen(m))
  BY DEF OperandCode, KindNamed, Seen
<1>4. x = 16 * i + p + 4 * q
  BY <1>1
<1> HIDE DEF i, p, q
<1>5. x \div 16 = i /\ x % 4 = p /\ (x \div 4) % 4 = q
  BY <1>1, <1>2, <1>3, <1>4
<1> QED BY <1>1, <1>2, <1>3, <1>5

(* An operand as the CPU shows it, its label standing for w. *)
Shown(o, s, w) ==
  CASE o.kind = "label" -> [kind |-> "imm", v |-> Low(s, w)]
    [] o.kind = "labelptr" -> [kind |-> "immptr", v |-> w]
    [] o.kind = "imm" -> [kind |-> "imm", v |-> Low(s, o.v)]
    [] OTHER -> o

(* The cells of an operand are in memory from an address on. *)
OperandIn(mem, a, o, s, w) ==
  IF IsLabel(o) THEN w \in Word /\ \A j \in 1 .. Bytes(Field(o, s)) : mem[a + j - 1] = Cells(4, w)[j]
  ELSE \A j \in 1 .. Len(OperandCells(o, s)) : mem[a + j - 1] = OperandCells(o, s)[j]

LEMMA OperandShape ==
  ASSUME NEW o \in AnyOperand
  PROVE  /\ o.kind = "none" => o = None
         /\ o.kind \in {"reg", "regptr", "immptr"} => o = [kind |-> o.kind, v |-> o.v]
         /\ o.kind \in {"imm", "immptr"} => o.v \in Word
<1>1. CASE o \in [kind : {"reg", "regptr"}, v : Nat]
  BY <1>1
<1>2. CASE o \in [kind : {"imm", "immptr"}, v : Word]
  BY <1>2
<1>3. CASE o \in [kind : {"label", "labelptr"}, v : STRING]
  BY <1>3
<1>4. CASE o = None
  BY <1>4 DEF None
<1> QED BY <1>1, <1>2, <1>3, <1>4 DEF AnyOperand, AsmOperands

(* The leading cells of a number do not depend on how many there are. *)
LEMMA FewerCells ==
  ASSUME NEW n \in 1 .. 4, NEW v, NEW j \in 1 .. n
  PROVE  Cells(n, v)[j] = Cells(4, v)[j] /\ Len(Cells(n, v)) = n
<1>1. j \in 1 .. 4 /\ n \in Nat
  OBVIOUS
<1> QED BY <1>1 DEF Cells

(* The CPU finds an operand as it was written. *)
LEMMA OperandRead ==
  ASSUME NEW o \in AnyOperand, NEW s \in Sizes, NEW a \in Int, NEW w, OperandIn(memory, a, o, s, w)
  PROVE  FetchedOperand(Seen(o.kind), s, a) = Shown(o, s, w)
<1>1. CASE o.kind = "none"
  BY <1>1, OperandShape DEF FetchedOperand, Seen, Shown
<1>2. CASE o.kind \in {"reg", "regptr"}
  <2>1. OperandCells(o, s) = <<o.v>> /\ ~IsLabel(o)
    BY <1>2 DEF OperandCells, IsLabel
  <2>2. Len(<<o.v>>) = 1 /\ <<o.v>>[1] = o.v /\ 1 \in 1 .. 1 /\ a + 1 - 1 = a
    OBVIOUS
  <2>3. memory[a] = o.v
    BY <2>1, <2>2 DEF OperandIn
  <2>4. FetchedOperand(Seen(o.kind), s, a) = [kind |-> o.kind, v |-> o.v]
    BY <1>2, <2>3 DEF FetchedOperand, Seen
  <2>5. Shown(o, s, w) = o
    BY <1>2 DEF Shown
  <2> QED BY <1>2, <2>4, <2>5, OperandShape
<1>3. CASE o.kind = "imm"
  <2> DEFINE v == Low(s, o.v)
             n == Bytes(s)
  <2>1. o.v \in Word /\ o.v \in Int
    BY <1>3, OperandShape, WordFacts
  <2>2. v \in 0 .. Mod(s) - 1
    BY <2>1, LowRange
  <2>3. v \in Word /\ n \in 1 .. 4
    BY <2>2, WordFacts, BytesOfSize
  <2>4. OperandCells(o, s) = Cells(n, v) /\ ~IsLabel(o)
    BY <1>3 DEF OperandCells, IsLabel
  <2> HIDE DEF v
  <2>5. Low(s, v) = v
    <3> DEFINE x == Mod(s)
    <3>1. x \in Nat \ {0} /\ v \in 0 .. x - 1
      BY <2>2, SizeFacts DEF v
    <3> HIDE DEF x
    <3>2. v % x = v
      BY <3>1, Whole
    <3> QED BY <3>2 DEF Low, x
  <2>6. \A j \in 1 .. n : memory[a + j - 1] = Cells(4, v)[j]
    <3> HIDE DEF n
    <3> TAKE j \in 1 .. n
    <3>1. Cells(n, v)[j] = Cells(4, v)[j] /\ Len(Cells(n, v)) = n
      BY <2>3, FewerCells
    <3> QED BY <2>4, <3>1 DEF OperandIn
  <2>7. Load(memory, a, s) = v
    BY <2>3, <2>5, <2>6, LoadsLow
  <2>8. FetchedOperand(Seen(o.kind), s, a) = [kind |-> "imm", v |-> v]
    BY <1>3, <2>7 DEF FetchedOperand, Seen
  <2> QED BY <1>3, <2>8 DEF Shown, v
<1>4. CASE o.kind = "immptr"
  <2> DEFINE v == o.v
  <2>1. v \in Word
    BY <1>4, OperandShape
  <2>2. OperandCells(o, s) = Cells(4, v) /\ ~IsLabel(o)
    BY <1>4 DEF OperandCells, IsLabel
  <2> HIDE DEF v
  <2>3. Len(Cells(4, v)) = 4 /\ Bytes("word") = 4 /\ "word" \in Sizes
    BY DEF Cells, Bytes, Sizes
  <2>4. \A j \in 1 .. Bytes("word") : memory[a + j - 1] = Cells(4, v)[j]
    BY <2>2, <2>3 DEF OperandIn
  <2>5. Load(memory, a, "word") = Low("word", v)
    BY <2>1, <2>3, <2>4, LoadsLow
  <2>6. Low("word", v) = v
    <3> DEFINE x == Mod("word")
    <3>1. x \in Nat \ {0} /\ v \in 0 .. x - 1
      BY <2>1, ModValues DEF Word
    <3> HIDE DEF x
    <3> QED BY <3>1, Whole DEF Low, x
  <2>7. FetchedOperand(Seen(o.kind), s, a) = [kind |-> "immptr", v |-> v]
    BY <1>4, <2>5, <2>6 DEF FetchedOperand, Seen
  <2>8. Shown(o, s, w) = o
    BY <1>4 DEF Shown
  <2> QED BY <1>4, <2>7, <2>8, OperandShape DEF v
<1>5. CASE o.kind = "label"
  <2>1. IsLabel(o) /\ Field(o, s) = s
    BY <1>5 DEF IsLabel, Field
  <2>2. w \in Word /\ \A j \in 1 .. Bytes(s) : memory[a + j - 1] = Cells(4, w)[j]
    BY <2>1 DEF OperandIn
  <2>3. Load(memory, a, s) = Low(s, w)
    BY <2>2, LoadsLow
  <2>4. FetchedOperand(Seen(o.kind), s, a) = [kind |-> "imm", v |-> Low(s, w)]
    BY <1>5, <2>3 DEF FetchedOperand, Seen
  <2> QED BY <1>5, <2>4 DEF Shown
<1>6. CASE o.kind = "labelptr"
  <2>1. IsLabel(o) /\ Field(o, s) = "word" /\ "word" \in Sizes
    BY <1>6 DEF IsLabel, Field, Sizes
  <2>2. w \in Word /\ \A j \in 1 .. Bytes("word") : memory[a + j - 1] = Cells(4, w)[j]
    BY <2>1 DEF OperandIn
  <2>3. Load(memory, a, "word") = Low("word", w)
    BY <2>1, <2>2, LoadsLow
  <2>4. Low("word", w) = w
    <3> DEFINE x == Mod("word")
    <3>1. x \in Nat \ {0} /\ w \in 0 .. x - 1
      BY <2>2, ModValues DEF Word
    <3> HIDE DEF x
    <3> QED BY <3>1, Whole DEF Low, x
  <2>5. FetchedOperand(Seen(o.kind), s, a) = [kind |-> "immptr", v |-> w]
    BY <1>6, <2>3, <2>4 DEF FetchedOperand, Seen
  <2> QED BY <1>6, <2>5 DEF Shown
<1> QED BY <1>1, <1>2, <1>3, <1>4, <1>5, <1>6, OperandKinds

LEMMA OperandLength ==
  ASSUME NEW o \in AnyOperand, NEW s \in Sizes
  PROVE  Length(Seen(o.kind), s) = Len(OperandCells(o, s))
<1>1. CASE o.kind = "none"
  <2>1. OperandCells(o, s) = <<>> /\ Length(Seen(o.kind), s) = 0
    BY <1>1 DEF Length, Seen, OperandCells, IsLabel
  <2> QED BY <2>1
<1>2. CASE o.kind \in {"reg", "regptr"}
  BY <1>2 DEF Length, Seen, OperandCells, IsLabel
<1>3. CASE o.kind = "imm"
  <2> DEFINE n == Bytes(s)
             v == Low(s, o.v)
  <2>1. n \in 1 .. 4 /\ 1 \in 1 .. n
    BY BytesOfSize
  <2>2. OperandCells(o, s) = Cells(n, v) /\ Length(Seen(o.kind), s) = n
    BY <1>3 DEF OperandCells, IsLabel, Length, Seen
  <2> HIDE DEF n, v
  <2>3. Len(Cells(n, v)) = n
    BY <2>1, FewerCells
  <2> QED BY <2>2, <2>3
<1>4. CASE o.kind = "immptr"
  <2> DEFINE v == o.v
  <2>1. OperandCells(o, s) = Cells(4, v) /\ Length(Seen(o.kind), s) = 4
    BY <1>4 DEF OperandCells, IsLabel, Length, Seen
  <2> HIDE DEF v
  <2>2. Len(Cells(4, v)) = 4
    BY DEF Cells
  <2> QED BY <2>1, <2>2
<1>5. CASE o.kind = "label"
  <2>1. IsLabel(o) /\ Field(o, s) = s /\ Length(Seen(o.kind), s) = Bytes(s)
    BY <1>5 DEF IsLabel, Field, Length, Seen
  <2> QED BY <2>1, OperandCellsAre
<1>6. CASE o.kind = "labelptr"
  <2>1. IsLabel(o) /\ Field(o, s) = "word" /\ Length(Seen(o.kind), s) = 4 /\ Bytes("word") = 4
    BY <1>6 DEF IsLabel, Field, Length, Seen, Bytes
  <2> QED BY <2>1, OperandCellsAre
<1> QED BY <1>1, <1>2, <1>3, <1>4, <1>5, <1>6, OperandKinds

(* Which operands the grammar gives an instruction. *)
LEMMA OperandsOf ==
  ASSUME NEW l \in Statements, l.kind = "op"
  PROVE  /\ l.op \in ZeroOps => l.src.kind = "none"
         /\ l.op \notin ZeroOps => l.src.kind # "none"
         /\ l.op \in TwoOps => l.dst.kind # "none"
         /\ l.op \notin TwoOps => l.dst.kind = "none"
<1>1. \A o \in AsmOperands : o.kind # "none"
  BY DEF AsmOperands
<1>2. None.kind = "none"
  BY DEF None
<1>3. /\ \A op \in ZeroOps : op \notin OneOps /\ op \notin TwoOps
      /\ \A op \in OneOps : op \notin TwoOps
  BY DEF ZeroOps, OneOps, TwoOps, ShiftOps, SignedOps
<1>4. CASE l \in InstructionsOf(ZeroOps, {None}, {None})
  <2>1. l.op \in ZeroOps /\ l.src = None /\ l.dst = None
    BY <1>4 DEF InstructionsOf
  <2> QED BY <1>2, <1>3, <2>1
<1>5. CASE l \in InstructionsOf(OneOps, AsmOperands, {None})
  <2>1. l.op \in OneOps /\ l.src \in AsmOperands /\ l.dst = None
    BY <1>5 DEF InstructionsOf
  <2> QED BY <1>1, <1>2, <1>3, <2>1
<1>6. CASE l \in InstructionsOf(TwoOps \ SignedOps, AsmOperands, AsmOperands)
  <2>1. l.op \in TwoOps /\ l.src \in AsmOperands /\ l.dst \in AsmOperands
    BY <1>6 DEF InstructionsOf
  <2> QED BY <1>1, <1>3, <2>1
<1>7. \/ l \in InstructionsOf(ZeroOps, {None}, {None}) \/ l \in InstructionsOf(OneOps, AsmOperands, {None})
      \/ l \in InstructionsOf(TwoOps \ SignedOps, AsmOperands, AsmOperands)
  BY DEF Statements
<1> QED BY <1>4, <1>5, <1>6, <1>7

(* The two cells before the operands. *)
Control(l) == CondCode[l.cond] + OperandCode[l.src.kind] + 4 * OperandCode[l.dst.kind]
Operation(l) == OpCode[l.op] + SizeCode[l.size]

(* An instruction at address a, its labels standing for w and z. *)
AsWritten(l, a, w, z) ==
  [op |-> l.op, size |-> l.size, cond |-> l.cond,
   src |-> Shown(l.src, l.size, w), dst |-> Shown(l.dst, l.size, z),
   next |-> a + Len(InstructionCells(l))]

(* Its cells in memory. *)
InstructionIn(mem, a, l, w, z) ==
  /\ mem[a] = Control(l) /\ mem[a + 1] = Operation(l)
  /\ OperandIn(mem, a + 2, l.src, l.size, w)
  /\ OperandIn(mem, a + 2 + Len(OperandCells(l.src, l.size)), l.dst, l.size, z)

(* The CPU fetches an instruction as it was written. *)
LEMMA InstructionRead ==
  ASSUME NEW l \in Statements, l.kind = "op", NEW a \in Int, NEW w, NEW z, InstructionIn(memory, a, l, w, z)
  PROVE  Fetched(a) = AsWritten(l, a, w, z)
<1> DEFINE s == l.size
           src == IF l.op \in ZeroOps THEN "none" ELSE KindNamed[(memory[a] % 4) + 1]
           dst == IF l.op \in TwoOps THEN KindNamed[((memory[a] \div 4) % 4) + 1] ELSE "none"
           p == Len(OperandCells(l.src, s))
           q == Len(OperandCells(l.dst, s))
<1>1. /\ s \in Sizes /\ l.src \in AnyOperand /\ l.dst \in AnyOperand
      /\ l.cond \in Conds /\ l.op \in ZeroOps \cup OneOps \cup (TwoOps \ SignedOps)
  BY StatementFields
<1>2. OpNamed(memory[a + 1] % 64) = l.op /\ SizeNamed[memory[a + 1] \div 64 + 1] = s
  BY <1>1, OpcodeRead DEF Operation, InstructionIn
<1>3. /\ CondNamed[memory[a] \div 16 + 1] = l.cond
      /\ l.src.kind # "none" => KindNamed[(memory[a] % 4) + 1] = Seen(l.src.kind)
      /\ l.dst.kind # "none" => KindNamed[((memory[a] \div 4) % 4) + 1] = Seen(l.dst.kind)
  <2>1. memory[a] = CondCode[l.cond] + OperandCode[l.src.kind] + 4 * OperandCode[l.dst.kind]
    BY DEF Control, InstructionIn
  <2> QED BY <1>1, <2>1, OperandKinds, ControlRead
<1>4. Seen("none") = "none"
  BY DEF Seen
<1>5. src = Seen(l.src.kind) /\ dst = Seen(l.dst.kind)
  BY <1>3, <1>4, OperandsOf
<1>6. Length(src, s) = p /\ Length(dst, s) = q
  BY <1>1, <1>5, OperandLength
<1>7. p \in Nat /\ q \in Nat /\ Len(InstructionCells(l)) = 2 + p + q
  <2>1. OperandCells(l.src, s) \in Seq(Nat) /\ OperandCells(l.dst, s) \in Seq(Nat)
    BY <1>1, OperandCellsAre
  <2> QED BY <2>1, OpCells
<1>8. Fetched(a) = [op |-> l.op, size |-> s, cond |-> l.cond,
                    src |-> FetchedOperand(src, s, a + 2),
                    dst |-> FetchedOperand(dst, s, a + 2 + Length(src, s)),
                    next |-> a + 2 + Length(src, s) + Length(dst, s)]
  BY <1>2, <1>3 DEF Fetched
<1> HIDE DEF src, dst, p, q
<1>9. FetchedOperand(src, s, a + 2) = Shown(l.src, s, w)
  <2>1. a + 2 \in Int
    OBVIOUS
  <2>2. OperandIn(memory, a + 2, l.src, s, w)
    BY DEF InstructionIn
  <2> HIDE DEF s
  <2> QED BY <1>1, <1>5, <2>1, <2>2, OperandRead
<1>10. FetchedOperand(dst, s, a + 2 + p) = Shown(l.dst, s, z)
  <2>1. a + 2 + p \in Int
    BY <1>7
  <2>2. OperandIn(memory, a + 2 + p, l.dst, s, z)
    BY DEF p, InstructionIn
  <2> HIDE DEF s
  <2> QED BY <1>1, <1>5, <2>1, <2>2, OperandRead
<1>11. a + 2 + p + q = a + (2 + p + q)
  BY <1>7
<1>12. a + 2 + Length(src, s) + Length(dst, s) = a + Len(InstructionCells(l))
  BY <1>6, <1>7, <1>11
<1> QED BY <1>6, <1>8, <1>9, <1>10, <1>12 DEF AsWritten
-----------------------------------------------------------------------------
(* A statement of the laid program in memory.                              *)

(* The reference of an operand. *)
LEMMA RefIs ==
  ASSUME NEW o, NEW s, NEW a, NEW c, NEW index, NEW relative, NEW q \in RefOf(o, s, a, c, index, relative)
  PROVE  /\ IsLabel(o) /\ q.name = o.v /\ q.place.cell = c + index /\ q.place.size = Field(o, s)
         /\ q.place.instruction = a /\ q.place.relative = relative
BY DEF RefOf

(* The fields of a statement are among its cells. *)
LEMMA RefWithin ==
  ASSUME NEW l \in Statements, NEW a, NEW c \in Nat, NEW q \in RefsOf(l, a, c)
  PROVE  /\ q.place.cell \in Nat /\ q.place.size \in Sizes /\ c <= q.place.cell
         /\ q.place.cell + Bytes(q.place.size) <= c + Len(Emitted(l, a))
         /\ l.kind = "op" => c + 2 <= q.place.cell
<1>1. CASE l.kind = "op"
  <2> DEFINE s == l.size
             p == Len(OperandCells(l.src, s))
             r == Len(OperandCells(l.dst, s))
             rel == l.op \in Relatives
             n == Len(Emitted(l, a))
  <2>1. s \in Sizes /\ l.src \in AnyOperand /\ l.dst \in AnyOperand
    BY <1>1, StatementFields
  <2>2. p \in Nat /\ r \in Nat /\ n = 2 + p + r
    <3>1. OperandCells(l.src, s) \in Seq(Nat) /\ OperandCells(l.dst, s) \in Seq(Nat)
      BY <2>1, OperandCellsAre
    <3>2. Emitted(l, a) = InstructionCells(l)
      BY <1>1 DEF Emitted
    <3> QED BY <1>1, <3>1, <3>2, OpCells
  <2>3. Field(l.src, s) \in Sizes /\ Field(l.dst, s) \in Sizes
    BY <2>1 DEF Field, Sizes
  <2>4. /\ IsLabel(l.src) => p = Bytes(Field(l.src, s))
        /\ IsLabel(l.dst) => r = Bytes(Field(l.dst, s))
    BY <2>1, OperandCellsAre
  <2>5. q \in RefOf(l.src, s, a, c, 2, rel) \/ q \in RefOf(l.dst, s, a, c, 2 + p, rel)
    BY <1>1 DEF RefsOf
  <2>6. CASE q \in RefOf(l.src, s, a, c, 2, rel)
    <3>1. IsLabel(l.src) /\ q.place.cell = c + 2 /\ q.place.size = Field(l.src, s)
      BY <2>6, RefIs
    <3>2. Bytes(q.place.size) = p
      BY <2>4, <3>1
    <3> DEFINE f == q.place.cell
               m == Bytes(q.place.size)
    <3>3. f = c + 2 /\ m = p /\ q.place.size \in Sizes
      BY <2>3, <3>1, <3>2
    <3> HIDE DEF p, r, n, s, f, m
    <3>4. f \in Nat /\ c <= f /\ f + m <= c + n /\ c + 2 <= f
      BY <2>2, <3>3
    <3> QED BY <3>3, <3>4 DEF f, m, n
  <2>7. CASE q \in RefOf(l.dst, s, a, c, 2 + p, rel)
    <3>1. IsLabel(l.dst) /\ q.place.cell = c + (2 + p) /\ q.place.size = Field(l.dst, s)
      BY <2>7, RefIs
    <3>2. Bytes(q.place.size) = r
      BY <2>4, <3>1
    <3> DEFINE f == q.place.cell
               m == Bytes(q.place.size)
    <3>3. f = c + (2 + p) /\ m = r /\ q.place.size \in Sizes
      BY <2>3, <3>1, <3>2
    <3> HIDE DEF p, r, n, s, f, m
    <3>4. f \in Nat /\ c <= f /\ f + m <= c + n /\ c + 2 <= f
      BY <2>2, <3>3
    <3> QED BY <3>3, <3>4 DEF f, m, n
  <2> QED BY <2>5, <2>6, <2>7
<1>2. CASE l.kind = "data"
  <2> DEFINE o == l.operand
  <2>1. q \in RefOf(o, "word", a, c, 0, FALSE)
    BY <1>2 DEF RefsOf
  <2>2. o \in AnyOperand /\ "word" \in Sizes
    BY <1>2, StatementFields DEF Sizes
  <2> HIDE DEF o
  <2>3. IsLabel(o) /\ q.place.cell = c + 0 /\ q.place.size = Field(o, "word")
    BY <2>1 DEF RefOf
  <2>4. q.place.size \in Sizes
    BY <2>2, <2>3 DEF Field
  <2>5. Len(Emitted(l, a)) = Bytes(q.place.size)
    <3>1. Emitted(l, a) = OperandCells(o, "word")
      BY <1>2, <2>3 DEF Emitted, o
    <3> QED BY <2>2, <2>3, <3>1, OperandCellsAre
  <2> QED BY <1>2, <2>3, <2>4, <2>5
<1>3. CASE l.kind \notin {"op", "data"}
  BY <1>3 DEF RefsOf
<1> QED BY <1>1, <1>2, <1>3

(* A cell of a statement is only in the fields of its own references. *)
LEMMA OwnRef ==
  ASSUME NEW src \in Seq(Statements), NEW off, NEW n \in Nat \ {0}, NEW text \in Seq(Nat), n <= Len(src) + 1,
         Offsets(src, off, n, text),
         NEW i \in 1 .. n - 1, NEW j \in 1 .. Len(Emitted(src[i], Bottom(src) + off[i])),
         NEW q \in AllRefs(src, off, n), InField(q, off[i] + j)
  PROVE  q \in RefsOf(src[i], Bottom(src) + off[i], off[i])
<1>1. PICK k \in 1 .. n - 1 : q \in RefsOf(src[k], Bottom(src) + off[k], off[k])
  BY DEF AllRefs
<1> DEFINE x == off[i]
           y == off[k]
           d == Len(Emitted(src[i], Bottom(src) + off[i]))
           e == Len(Emitted(src[k], Bottom(src) + off[k]))
           f == q.place.cell
           m == Bytes(q.place.size)
           x2 == off[i + 1]
           y2 == off[k + 1]
<1>2. i \in 1 .. n /\ k \in 1 .. n /\ i + 1 \in 1 .. n /\ k + 1 \in 1 .. n /\ k \in 1 .. Len(src)
  BY <1>1
<1>3. off \in [1 .. n -> Nat] /\ x2 = x + d /\ y2 = y + e /\ Emitted(src[i], Bottom(src) + off[i]) \in Seq(Nat)
  BY <1>2 DEF Offsets
<1>4. x \in Nat /\ y \in Nat /\ x2 \in Nat /\ y2 \in Nat /\ d \in Nat /\ src[k] \in Statements
  <2>1. x \in Nat /\ y \in Nat /\ x2 \in Nat /\ y2 \in Nat
    <3> HIDE DEF d, e
    <3> QED BY <1>2, <1>3
  <2>2. d \in Nat
    BY <1>3
  <2>3. src[k] \in Statements
    BY <1>2
  <2> QED BY <2>1, <2>2, <2>3
<1>5. f \in Nat /\ q.place.size \in Sizes /\ y <= f /\ f + m <= y + e
  BY <1>1, <1>4, RefWithin
<1>6. m \in 1 .. 4
  BY <1>5, BytesOfSize
<1>7. x + j \in f + 1 .. f + m
  BY DEF InField
<1>8. CASE k < i
  <2>1. y2 <= x
    BY <1>2, <1>8 DEF Offsets
  <2> HIDE DEF x, y, d, e, f, m, x2, y2
  <2> QED BY <1>3, <1>4, <1>5, <1>6, <1>7, <2>1
<1>9. CASE i < k
  <2>1. x2 <= y
    BY <1>2, <1>9 DEF Offsets
  <2>2. j \in 1 .. d /\ x2 = x + d
    BY <1>3
  <2> HIDE DEF x, y, d, e, f, m, x2, y2
  <2> QED BY <1>4, <1>5, <1>6, <1>7, <2>1, <2>2
<1>10. CASE i = k
  BY <1>1, <1>10
<1> QED BY <1>8, <1>9, <1>10

(* What a reference stands for when the program runs at address start.     *)
ValueOf(m, instruction, relative, defs, moved, start) ==
  LET value == IF relative THEN (defs[m].at - instruction) % Mod("word") ELSE defs[m].at
  IN  IF moved /\ ~defs[m].const THEN Wrap(value + start) ELSE value

(* The first n - 1 statements are in memory from address start on.         *)
InMemory(mem, start, src, off, n, defs, moved) ==
  LET P == AllRefs(src, off, n) IN
  /\ \A i \in 1 .. n - 1 : \A j \in 1 .. Len(Emitted(src[i], Bottom(src) + off[i])) :
       Free(P, off[i] + j) => mem[start + off[i] + j - 1] = Emitted(src[i], Bottom(src) + off[i])[j]
  /\ \A q \in P :
       /\ ValueOf(q.name, q.place.instruction, q.place.relative, defs, moved, start) \in Word
       /\ \A j \in 1 .. Bytes(q.place.size) :
            mem[start + q.place.cell + j - 1]
              = Cells(4, ValueOf(q.name, q.place.instruction, q.place.relative, defs, moved, start))[j]

LEMMA JoinedThree ==
  ASSUME NEW s \in Seq(Nat), NEW t \in Seq(Nat), NEW u \in Seq(Nat)
  PROVE  /\ \A j \in 1 .. Len(s) : ((s \o t) \o u)[j] = s[j]
         /\ \A j \in 1 .. Len(t) : ((s \o t) \o u)[Len(s) + j] = t[j]
         /\ \A j \in 1 .. Len(u) : ((s \o t) \o u)[Len(s) + Len(t) + j] = u[j]
<1> DEFINE r == s \o t
<1>1. r \in Seq(Nat) /\ Len(r) = Len(s) + Len(t)
  BY JoinedIs, JoinedLength
<1>2. Len(s) \in Nat /\ Len(t) \in Nat /\ Len(u) \in Nat
  OBVIOUS
<1>3. ASSUME NEW j \in 1 .. Len(s) PROVE (r \o u)[j] = s[j]
  <2>1. r[j] = s[j]
    BY JoinedLeft
  <2> HIDE DEF r
  <2>2. j \in 1 .. Len(r)
    BY <1>1, <1>2
  <2> QED BY <1>1, <2>1, <2>2, JoinedLeft
<1>4. ASSUME NEW j \in 1 .. Len(t) PROVE (r \o u)[Len(s) + j] = t[j]
  <2>1. r[Len(s) + j] = t[j]
    BY JoinedRight
  <2> HIDE DEF r
  <2>2. Len(s) + j \in 1 .. Len(r)
    BY <1>1, <1>2
  <2> QED BY <1>1, <2>1, <2>2, JoinedLeft
<1>5. ASSUME NEW j \in 1 .. Len(u) PROVE (r \o u)[Len(s) + Len(t) + j] = u[j]
  <2> HIDE DEF r
  <2>1. (r \o u)[Len(r) + j] = u[j]
    BY <1>1, JoinedRight
  <2> QED BY <1>1, <2>1
<1> QED BY <1>3, <1>4, <1>5 DEF r

(* Where the cells of an instruction are. *)
LEMMA InstructionParts ==
  ASSUME NEW l \in Statements, l.kind = "op"
  PROVE  /\ InstructionCells(l)[1] = Control(l) /\ InstructionCells(l)[2] = Operation(l)
         /\ \A j \in 1 .. Len(OperandCells(l.src, l.size)) : InstructionCells(l)[2 + j] = OperandCells(l.src, l.size)[j]
         /\ \A j \in 1 .. Len(OperandCells(l.dst, l.size)) :
              InstructionCells(l)[2 + Len(OperandCells(l.src, l.size)) + j] = OperandCells(l.dst, l.size)[j]
<1> DEFINE a == Control(l)
           b == Operation(l)
           x == OperandCells(l.src, l.size)
           y == OperandCells(l.dst, l.size)
<1>1. /\ l.size \in Sizes /\ l.src \in AnyOperand /\ l.dst \in AnyOperand
      /\ l.cond \in Conds /\ l.op \in ZeroOps \cup OneOps \cup (TwoOps \ SignedOps)
  BY StatementFields
<1>2. a \in Nat
  <2>1. CondCode[l.cond] \in Nat /\ OperandCode[l.src.kind] \in Nat /\ OperandCode[l.dst.kind] \in Nat
    BY <1>1, OpcodesAre, OperandKinds
  <2> DEFINE c1 == CondCode[l.cond]
             c2 == OperandCode[l.src.kind]
             c3 == OperandCode[l.dst.kind]
  <2>2. a = c1 + c2 + 4 * c3
    BY DEF Control
  <2> HIDE DEF a, c1, c2, c3
  <2>3. c1 \in Nat /\ c2 \in Nat /\ c3 \in Nat
    BY <2>1 DEF c1, c2, c3
  <2> QED BY <2>2, <2>3
<1>3. b \in Nat
  <2>1. OpCode[l.op] \in Nat /\ SizeCode[l.size] \in Nat
    BY <1>1, OpcodesAre
  <2> QED BY <2>1 DEF Operation
<1>4. x \in Seq(Nat) /\ y \in Seq(Nat)
  BY <1>1, OperandCellsAre
<1>5. InstructionCells(l) = (<<a, b>> \o x) \o y
  BY DEF InstructionCells, Control, Operation
<1> DEFINE s == <<a, b>>
<1>6. s \in Seq(Nat) /\ Len(s) = 2 /\ s[1] = a /\ s[2] = b /\ 1 \in 1 .. 2 /\ 2 \in 1 .. 2
  BY <1>2, <1>3
<1>7. InstructionCells(l) = (s \o x) \o y
  BY <1>5
<1> HIDE DEF a, b, x, y, s
<1>8. /\ \A j \in 1 .. Len(s) : ((s \o x) \o y)[j] = s[j]
      /\ \A j \in 1 .. Len(x) : ((s \o x) \o y)[Len(s) + j] = x[j]
      /\ \A j \in 1 .. Len(y) : ((s \o x) \o y)[Len(s) + Len(x) + j] = y[j]
  BY <1>4, <1>6, JoinedThree
<1> QED BY <1>6, <1>7, <1>8 DEF a, b, x, y

(* An instruction that is in memory is fetched as it was written.          *)
LEMMA InstructionInMemory ==
  ASSUME source \in Seq(Statements), NEW off, NEW n, n = Len(source) + 1, NEW text \in Seq(Nat), Offsets(source, off, n, text),
         NEW start \in Nat, NEW defs, NEW moved, InMemory(memory, start, source, off, n, defs, moved),
         NEW i \in DOMAIN source, NEW l, l = source[i], l.kind = "op",
         NEW w, w = ValueOf(l.src.v, Bottom(source) + off[i], l.op \in Relatives, defs, moved, start),
         NEW z, z = ValueOf(l.dst.v, Bottom(source) + off[i], l.op \in Relatives, defs, moved, start)
  PROVE  Fetched(start + off[i]) = AsWritten(l, start + off[i], w, z)
<1> DEFINE P == AllRefs(source, off, n)
           s == l.size
           p == Len(OperandCells(l.src, s))
           r == Len(OperandCells(l.dst, s))
           rel == l.op \in Relatives
           x == off[i]
           a == start + x
           at == Bottom(source) + off[i]
           e == InstructionCells(l)
<1>1. /\ Len(source) \in Nat /\ n \in Nat \ {0} /\ n <= Len(source) + 1 /\ i \in 1 .. n - 1 /\ i \in 1 .. n /\ l \in Statements
  OBVIOUS
<1>2. x \in Nat
  BY <1>1 DEF Offsets
<1>3. a \in Nat
  BY <1>2
<1>4. /\ s \in Sizes /\ l.src \in AnyOperand /\ l.dst \in AnyOperand
  BY <1>1, StatementFields
<1>5. p \in Nat /\ r \in Nat /\ Len(e) = 2 + p + r
  <2>1. OperandCells(l.src, s) \in Seq(Nat) /\ OperandCells(l.dst, s) \in Seq(Nat)
    BY <1>4, OperandCellsAre
  <2> QED BY <1>1, <2>1, OpCells
<1>6. Emitted(source[i], at) = e /\ RefsOf(source[i], at, x) = RefOf(l.src, s, at, x, 2, rel) \cup RefOf(l.dst, s, at, x, 2 + p, rel)
  BY DEF Emitted, RefsOf
<1>7. /\ IsLabel(l.src) => p = Bytes(Field(l.src, s))
      /\ IsLabel(l.dst) => r = Bytes(Field(l.dst, s))
  BY <1>4, OperandCellsAre
<1>8. RefOf(l.src, s, at, x, 2, rel) \subseteq P /\ RefOf(l.dst, s, at, x, 2 + p, rel) \subseteq P
  BY <1>1, <1>6 DEF AllRefs
<1>9. /\ e[1] = Control(l) /\ e[2] = Operation(l)
      /\ \A j \in 1 .. p : e[2 + j] = OperandCells(l.src, s)[j]
      /\ \A j \in 1 .. r : e[2 + p + j] = OperandCells(l.dst, s)[j]
  BY <1>1, InstructionParts
<1>10. ASSUME NEW j \in 1 .. Len(e), NEW q \in P, InField(q, x + j)
       PROVE  \/ IsLabel(l.src) /\ j \in 2 + 1 .. 2 + p
              \/ IsLabel(l.dst) /\ j \in 2 + p + 1 .. 2 + p + r
  <2> HIDE DEF e, P, at, x
  <2>1. q \in RefsOf(source[i], Bottom(source) + off[i], off[i])
    BY <1>1, <1>6, <1>10, OwnRef DEF P, at, x
  <2>2. q \in RefOf(l.src, s, at, x, 2, rel) \/ q \in RefOf(l.dst, s, at, x, 2 + p, rel)
    BY <1>6, <2>1 DEF at, x
  <2>3. x + j \in q.place.cell + 1 .. q.place.cell + Bytes(q.place.size)
    BY <1>10 DEF InField
  <2>4. j \in Nat
    BY <1>5
  <2>5. CASE q \in RefOf(l.src, s, at, x, 2, rel)
    <3>1. IsLabel(l.src) /\ q.place.cell = x + 2 /\ Bytes(q.place.size) = p
      BY <1>7, <2>5, RefIs
    <3>2. x + j \in (x + 2) + 1 .. (x + 2) + p
      BY <2>3, <3>1
    <3> HIDE DEF p
    <3>3. j \in 2 + 1 .. 2 + p
      BY <1>2, <1>5, <2>4, <3>2
    <3> QED BY <3>1, <3>3
  <2>6. CASE q \in RefOf(l.dst, s, at, x, 2 + p, rel)
    <3>1. IsLabel(l.dst) /\ q.place.cell = x + (2 + p) /\ Bytes(q.place.size) = r
      BY <1>7, <2>6, RefIs
    <3>2. x + j \in (x + (2 + p)) + 1 .. (x + (2 + p)) + r
      BY <2>3, <3>1
    <3> HIDE DEF p, r
    <3>3. j \in 2 + p + 1 .. 2 + p + r
      BY <1>2, <1>5, <2>4, <3>2
    <3> QED BY <3>1, <3>3
  <2> QED BY <2>2, <2>5, <2>6
<1>11. ASSUME NEW j \in 1 .. Len(e), Free(P, x + j) PROVE memory[start + x + j - 1] = e[j]
  BY <1>1, <1>6, <1>11 DEF InMemory
<1>12. ASSUME NEW q \in P
       PROVE  LET v == ValueOf(q.name, q.place.instruction, q.place.relative, defs, moved, start)
              IN  v \in Word /\ \A j \in 1 .. Bytes(q.place.size) : memory[start + q.place.cell + j - 1] = Cells(4, v)[j]
  BY DEF InMemory
<1> HIDE DEF P, e, p, r
<1>13. memory[a] = Control(l) /\ memory[a + 1] = Operation(l)
  <2>1. 1 \in 1 .. Len(e) /\ 2 \in 1 .. Len(e)
    BY <1>5
  <2>2. 1 \notin 2 + 1 .. 2 + p /\ 1 \notin 2 + p + 1 .. 2 + p + r /\ 2 \notin 2 + 1 .. 2 + p /\ 2 \notin 2 + p + 1 .. 2 + p + r
    BY <1>5
  <2>3. Free(P, x + 1) /\ Free(P, x + 2)
    <3>1. ASSUME NEW q \in P PROVE ~InField(q, x + 1)
      BY <1>10, <2>1, <2>2
    <3>2. ASSUME NEW q \in P PROVE ~InField(q, x + 2)
      BY <1>10, <2>1, <2>2
    <3> QED BY <3>1, <3>2 DEF Free
  <2>4. start + x + 1 - 1 = a /\ start + x + 2 - 1 = a + 1
    BY <1>2
  <2>5. memory[start + x + 1 - 1] = e[1] /\ memory[start + x + 2 - 1] = e[2]
    BY <1>11, <2>1, <2>3
  <2> QED BY <1>9, <2>4, <2>5
<1>14. OperandIn(memory, a + 2, l.src, s, w)
  <2>1. CASE IsLabel(l.src)
    <3> DEFINE q == [name |-> l.src.v, place |-> [instruction |-> at, index |-> 2, cell |-> x + 2,
                                    size |-> Field(l.src, s), relative |-> rel]]
    <3>1. q \in P
      <4>1. q \in RefOf(l.src, s, at, x, 2, rel)
        BY <2>1 DEF RefOf
      <4> QED BY <1>8, <4>1
    <3>2. /\ q.name = l.src.v /\ q.place.instruction = at /\ q.place.relative = rel /\ q.place.cell = x + 2
          /\ q.place.size = Field(l.src, s)
      OBVIOUS
    <3> HIDE DEF q
    <3>3. ValueOf(q.name, q.place.instruction, q.place.relative, defs, moved, start) = w
      BY <3>2
    <3>4. w \in Word /\ \A j \in 1 .. Bytes(Field(l.src, s)) : memory[start + (x + 2) + j - 1] = Cells(4, w)[j]
      BY <1>12, <3>1, <3>2, <3>3
    <3>5. start + (x + 2) = a + 2
      BY <1>2
    <3> QED BY <2>1, <3>4, <3>5 DEF OperandIn
  <2>2. CASE ~IsLabel(l.src)
    <3> SUFFICES ASSUME NEW j \in 1 .. p PROVE memory[a + 2 + j - 1] = OperandCells(l.src, s)[j]
      BY <2>2 DEF OperandIn, p
    <3>1. 2 + j \in 1 .. Len(e) /\ 2 + j \notin 2 + p + 1 .. 2 + p + r /\ start + x + (2 + j) - 1 = a + 2 + j - 1
      <4> DEFINE c == Len(e)
      <4>1. c = 2 + p + r /\ p \in Nat /\ r \in Nat /\ x \in Nat
        BY <1>2, <1>5
      <4> HIDE DEF c, x
      <4>2. 2 + j \in 1 .. c /\ 2 + j \notin 2 + p + 1 .. 2 + p + r /\ start + x + (2 + j) - 1 = a + 2 + j - 1
        BY <4>1
      <4> QED BY <4>2 DEF c
    <3>2. Free(P, x + (2 + j))
      BY <1>10, <2>2, <3>1 DEF Free
    <3>3. memory[start + x + (2 + j) - 1] = e[2 + j]
      BY <1>11, <3>1, <3>2
    <3> QED BY <1>9, <3>1, <3>3
  <2> QED BY <2>1, <2>2
<1>15. OperandIn(memory, a + 2 + p, l.dst, s, z)
  <2>1. CASE IsLabel(l.dst)
    <3> DEFINE q == [name |-> l.dst.v, place |-> [instruction |-> at, index |-> 2 + p, cell |-> x + (2 + p),
                                    size |-> Field(l.dst, s), relative |-> rel]]
    <3>1. q \in P
      <4>1. q \in RefOf(l.dst, s, at, x, 2 + p, rel)
        BY <2>1 DEF RefOf
      <4> QED BY <1>8, <4>1
    <3>2. /\ q.name = l.dst.v /\ q.place.instruction = at /\ q.place.relative = rel /\ q.place.cell = x + (2 + p)
          /\ q.place.size = Field(l.dst, s)
      OBVIOUS
    <3> HIDE DEF q
    <3>3. ValueOf(q.name, q.place.instruction, q.place.relative, defs, moved, start) = z
      BY <3>2
    <3> DEFINE c == x + (2 + p)
    <3>4. z \in Word /\ \A j \in 1 .. Bytes(Field(l.dst, s)) : memory[start + c + j - 1] = Cells(4, z)[j]
      <4>1. q.place.cell = c
        BY <3>2
      <4> HIDE DEF c
      <4> DEFINE u == ValueOf(q.name, q.place.instruction, q.place.relative, defs, moved, start)
      <4>2. u \in Word /\ \A j \in 1 .. Bytes(q.place.size) : memory[start + q.place.cell + j - 1] = Cells(4, u)[j]
        BY <1>12, <3>1
      <4>3. u = z
        BY <3>3
      <4> HIDE DEF u
      <4> QED BY <3>2, <4>1, <4>2, <4>3
    <3>5. start + c = a + 2 + p
      <4> HIDE DEF x
      <4> QED BY <1>2, <1>5
    <3> HIDE DEF c
    <3>6. z \in Word /\ \A j \in 1 .. Bytes(Field(l.dst, s)) : memory[a + 2 + p + j - 1] = Cells(4, z)[j]
      BY <3>4, <3>5
    <3> QED BY <2>1, <3>6 DEF OperandIn
  <2>2. CASE ~IsLabel(l.dst)
    <3> SUFFICES ASSUME NEW j \in 1 .. r PROVE memory[a + 2 + p + j - 1] = OperandCells(l.dst, s)[j]
      BY <2>2 DEF OperandIn, r
    <3>1. 2 + p + j \in 1 .. Len(e) /\ 2 + p + j \notin 2 + 1 .. 2 + p /\ start + x + (2 + p + j) - 1 = a + 2 + p + j - 1
      <4> DEFINE c == Len(e)
      <4>1. c = 2 + p + r /\ p \in Nat /\ r \in Nat /\ x \in Nat
        BY <1>2, <1>5
      <4> HIDE DEF c, x
      <4>2. 2 + p + j \in 1 .. c /\ 2 + p + j \notin 2 + 1 .. 2 + p /\ start + x + (2 + p + j) - 1 = a + 2 + p + j - 1
        BY <4>1
      <4> QED BY <4>2 DEF c
    <3>2. Free(P, x + (2 + p + j))
      BY <1>10, <2>2, <3>1 DEF Free
    <3>3. memory[start + x + (2 + p + j) - 1] = e[2 + p + j]
      BY <1>11, <3>1, <3>2
    <3> QED BY <1>9, <3>1, <3>3
  <2> QED BY <2>1, <2>2
<1>16. a \in Int
  BY <1>3
<1> HIDE DEF a
<1>17. Fetched(a) = AsWritten(l, a, w, z)
  <2>1. OperandIn(memory, a + 2, l.src, l.size, w)
    BY <1>14
  <2>2. OperandIn(memory, a + 2 + Len(OperandCells(l.src, l.size)), l.dst, l.size, z)
    BY <1>15 DEF p
  <2>3. memory[a] = Control(l) /\ memory[a + 1] = Operation(l)
    BY <1>13
  <2>4. l \in Statements
    BY <1>1
  <2>5. InstructionIn(memory, a, l, w, z)
    BY <2>1, <2>2, <2>3 DEF InstructionIn
  <2> QED BY <1>16, <2>4, <2>5, InstructionRead
<1> QED BY <1>17 DEF a
-----------------------------------------------------------------------------
(* What is in memory is what was meant, when each statement is where the   *)
(* walk finds it.                                                          *)

(* The number a label stands for in a statement at address a, by the walk  *)
(* over the statements.                                                    *)
Named(at, a, m, relative) ==
  IF relative THEN (Meaning(at, m) - a) % Mod("word") ELSE Meaning(at, m)

(* The program is in memory from start on, each statement where the walk   *)
(* finds it, and each label has the value that the walk gives it.          *)
Settled(at, off, start, text, defs, moved) ==
  /\ source \in Seq(Statements) /\ text \in Seq(Nat) /\ start \in Nat
  /\ Offsets(source, off, Len(source) + 1, text)
  /\ InMemory(memory, start, source, off, Len(source) + 1, defs, moved)
  /\ \A i \in 1 .. Len(source) + 1 : at[i] = start + off[i]
  /\ \A i \in DOMAIN source : \A q \in RefsOf(source[i], Bottom(source) + off[i], off[i]) :
       ValueOf(q.name, q.place.instruction, q.place.relative, defs, moved, start)
         = Named(at, at[i], q.name, q.place.relative)

LEMMA OperandMeant ==
  ASSUME NEW at, NEW a, NEW o \in AnyOperand, NEW l, NEW w,
         IsLabel(o) => w = Named(at, a, o.v, l.op \in Relatives)
  PROVE  Shown(o, l.size, w) = Meant(at, a, o, l)
<1>1. CASE o.kind = "label"
  <2>1. w = Named(at, a, o.v, l.op \in Relatives)
    BY <1>1 DEF IsLabel
  <2> QED BY <1>1, <2>1 DEF Shown, Meant, Named
<1>2. CASE o.kind = "labelptr"
  <2>1. w = Named(at, a, o.v, l.op \in Relatives)
    BY <1>2 DEF IsLabel
  <2> QED BY <1>2, <2>1 DEF Shown, Meant, Named
<1>3. CASE o.kind = "imm"
  BY <1>3 DEF Shown, Meant
<1>4. CASE o.kind \notin {"label", "labelptr", "imm"}
  BY <1>4 DEF Shown, Meant
<1> QED BY <1>1, <1>2, <1>3, <1>4

LEMMA OpLands ==
  ASSUME NEW at, NEW off, NEW start, NEW text, NEW defs, NEW moved, Settled(at, off, start, text, defs, moved),
         NEW i \in DOMAIN source, source[i].kind = "op"
  PROVE  Lands(at, i)
<1> DEFINE l == source[i]
           n == Len(source) + 1
           a == at[i]
           b == Bottom(source) + off[i]
           rel == l.op \in Relatives
           w == ValueOf(l.src.v, b, rel, defs, moved, start)
           z == ValueOf(l.dst.v, b, rel, defs, moved, start)
<1>1. /\ source \in Seq(Statements) /\ text \in Seq(Nat) /\ start \in Nat
      /\ Offsets(source, off, n, text)
      /\ InMemory(memory, start, source, off, n, defs, moved)
  BY DEF Settled
<1>2. l \in Statements /\ l.src \in AnyOperand /\ l.dst \in AnyOperand
  BY <1>1, StatementFields
<1>3. a = start + off[i]
  <2>1. i \in 1 .. Len(source) + 1
    BY <1>1
  <2> QED BY <2>1 DEF Settled
<1>4. Fetched(a) = AsWritten(l, a, w, z)
  <2> HIDE DEF l, n, w, z
  <2>1. n = Len(source) + 1 /\ l = source[i] /\ l.kind = "op"
    BY DEF n, l
  <2>2. Fetched(start + off[i]) = AsWritten(l, start + off[i], w, z)
    <3>1. w = ValueOf(l.src.v, Bottom(source) + off[i], l.op \in Relatives, defs, moved, start)
      BY DEF w
    <3>2. z = ValueOf(l.dst.v, Bottom(source) + off[i], l.op \in Relatives, defs, moved, start)
      BY DEF z
    <3> QED BY <1>1, <2>1, <3>1, <3>2, InstructionInMemory
  <2> QED BY <1>3, <2>2
<1>5. ASSUME NEW q \in RefsOf(l, b, off[i])
      PROVE  ValueOf(q.name, q.place.instruction, q.place.relative, defs, moved, start) = Named(at, a, q.name, q.place.relative)
  BY <1>5 DEF Settled
<1>6. RefsOf(l, b, off[i]) = RefOf(l.src, l.size, b, off[i], 2, rel)
                               \cup RefOf(l.dst, l.size, b, off[i], 2 + Len(OperandCells(l.src, l.size)), rel)
  BY DEF RefsOf
<1>7. IsLabel(l.src) => w = Named(at, a, l.src.v, rel)
  <2> SUFFICES ASSUME IsLabel(l.src) PROVE w = Named(at, a, l.src.v, rel)
    OBVIOUS
  <2>1. PICK q \in RefOf(l.src, l.size, b, off[i], 2, rel) : TRUE
    BY DEF RefOf
  <2>2. q.name = l.src.v /\ q.place.instruction = b /\ q.place.relative = rel
    BY <2>1, RefIs
  <2> HIDE DEF l, b, rel, a
  <2> QED BY <1>5, <1>6, <2>2
<1>8. IsLabel(l.dst) => z = Named(at, a, l.dst.v, rel)
  <2> SUFFICES ASSUME IsLabel(l.dst) PROVE z = Named(at, a, l.dst.v, rel)
    OBVIOUS
  <2>1. PICK q \in RefOf(l.dst, l.size, b, off[i], 2 + Len(OperandCells(l.src, l.size)), rel) : TRUE
    BY DEF RefOf
  <2>2. q.name = l.dst.v /\ q.place.instruction = b /\ q.place.relative = rel
    BY <2>1, RefIs
  <2> HIDE DEF l, b, rel, a
  <2> QED BY <1>5, <1>6, <2>2
<1> HIDE DEF w, z, a, b
<1>9. Shown(l.src, l.size, w) = Meant(at, a, l.src, l)
  <2> HIDE DEF l
  <2> QED BY <1>2, <1>7, OperandMeant
<1>10. Shown(l.dst, l.size, z) = Meant(at, a, l.dst, l)
  <2> HIDE DEF l
  <2> QED BY <1>2, <1>8, OperandMeant
<1> DEFINE f == Fetched(a)
<1>11. /\ f.op = l.op /\ f.size = l.size /\ f.cond = l.cond
       /\ f.src = Shown(l.src, l.size, w) /\ f.dst = Shown(l.dst, l.size, z)
  BY <1>4 DEF AsWritten
<1> HIDE DEF f
<1>12. <<f.op, f.size, f.cond>> = <<l.op, l.size, l.cond>> /\ f.src = Meant(at, a, l.src, l) /\ f.dst = Meant(at, a, l.dst, l)
  BY <1>9, <1>10, <1>11
<1> QED BY <1>12 DEF Lands, f, a

(* The cells of a statement without references are in memory. *)
LEMMA PlainCells ==
  ASSUME NEW at, NEW off, NEW start, NEW text, NEW defs, NEW moved, Settled(at, off, start, text, defs, moved),
         NEW i \in DOMAIN source, RefsOf(source[i], Bottom(source) + off[i], off[i]) = {},
         NEW cells, cells = Emitted(source[i], Bottom(source) + off[i])
  PROVE  /\ cells \in Seq(Nat) /\ at[i] \in Nat /\ at[i + 1] = at[i] + Len(cells)
         /\ \A j \in 1 .. Len(cells) : memory[at[i] + j - 1] = cells[j]
<1> DEFINE n == Len(source) + 1
           x == off[i]
           y == off[i + 1]
<1>1. /\ source \in Seq(Statements) /\ text \in Seq(Nat) /\ start \in Nat
      /\ Offsets(source, off, n, text)
      /\ InMemory(memory, start, source, off, n, defs, moved)
  BY DEF Settled
<1>2. n \in Nat \ {0} /\ n <= Len(source) + 1 /\ i \in 1 .. n - 1 /\ i \in 1 .. n /\ i + 1 \in 1 .. n
  BY <1>1
<1>3. at[i] = start + x /\ at[i + 1] = start + y
  BY <1>2 DEF Settled
<1>4. off \in [1 .. n -> Nat] /\ y = x + Len(cells) /\ cells \in Seq(Nat)
  BY <1>1, <1>2 DEF Offsets
<1>5. x \in Nat /\ y \in Nat
  <2> HIDE DEF n
  <2> QED BY <1>2, <1>4
<1>6. Len(cells) \in Nat
  BY <1>4
<1>7. ASSUME NEW j \in 1 .. Len(cells) PROVE memory[at[i] + j - 1] = cells[j]
  <2>1. Free(AllRefs(source, off, n), off[i] + j)
    <3> SUFFICES ASSUME NEW q \in AllRefs(source, off, n), InField(q, off[i] + j) PROVE FALSE
      BY DEF Free
    <3>1. q \in RefsOf(source[i], Bottom(source) + off[i], off[i])
      <4> HIDE DEF n
      <4> QED BY <1>1, <1>2, <1>7, OwnRef
    <3> QED BY <3>1
  <2>2. memory[start + off[i] + j - 1] = Emitted(source[i], Bottom(source) + off[i])[j]
    BY <1>1, <1>2, <1>7, <2>1 DEF InMemory
  <2> QED BY <1>3, <2>2
<1> HIDE DEF x, y
<1>8. at[i] \in Nat /\ at[i + 1] = at[i] + Len(cells)
  <2> DEFINE e == Len(cells)
             a == at[i]
             b == at[i + 1]
  <2>1. a = start + x /\ b = start + y /\ y = x + e /\ e \in Nat /\ start \in Nat
    BY <1>1, <1>3, <1>4, <1>6
  <2> HIDE DEF a, b, e
  <2>2. a \in Nat /\ b = a + e
    BY <1>5, <2>1
  <2> QED BY <2>2 DEF a, b, e
<1> QED BY <1>4, <1>7, <1>8

LEMMA BlobLands ==
  ASSUME NEW at, NEW off, NEW start, NEW text, NEW defs, NEW moved, Settled(at, off, start, text, defs, moved),
         NEW i \in DOMAIN source, source[i].kind = "blob"
  PROVE  Lands(at, i)
<1> DEFINE l == source[i]
           cells == l.cells
<1>1. RefsOf(source[i], Bottom(source) + off[i], off[i]) = {} /\ cells = Emitted(source[i], Bottom(source) + off[i])
  BY DEF RefsOf, Emitted
<1> HIDE DEF cells
<1>2. cells \in Seq(Nat) /\ \A j \in 1 .. Len(cells) : memory[at[i] + j - 1] = cells[j]
  BY <1>1, PlainCells
<1>3. DOMAIN cells = 1 .. Len(cells)
  BY <1>2
<1>4. \A j \in DOMAIN cells : memory[at[i] + j - 1] = cells[j]
  BY <1>2, <1>3
<1> QED BY <1>4 DEF Lands, cells

LEMMA FillLands ==
  ASSUME NEW at, NEW off, NEW start, NEW text, NEW defs, NEW moved, Settled(at, off, start, text, defs, moved),
         NEW i \in DOMAIN source, source[i].kind = "fill"
  PROVE  Lands(at, i)
<1> DEFINE l == source[i]
           count == l.count.v
           v == Low("byte", l.value.v)
           cells == [k \in 1 .. count |-> v]
<1>1. RefsOf(source[i], Bottom(source) + off[i], off[i]) = {} /\ cells = Emitted(source[i], Bottom(source) + off[i])
  BY DEF RefsOf, Emitted
<1>2. count \in Nat
  <2>1. source \in Seq(Statements) /\ Offsets(source, off, Len(source) + 1, text)
    BY DEF Settled
  <2>2. l \in Statements /\ i \in 1 .. (Len(source) + 1) - 1
    BY <2>1
  <2>3. l.count.kind = "imm"
    <3>1. Sound(source[i], Bottom(source) + off[i])
      BY <2>1, <2>2 DEF Offsets
    <3> QED BY <3>1 DEF Sound
  <2>4. l.count \in AnyOperand
    BY <2>2, StatementFields
  <2> HIDE DEF l
  <2> QED BY <2>3, <2>4, OperandFields
<1>3. \A j \in 1 .. Len(cells) : memory[at[i] + j - 1] = cells[j]
  <2> HIDE DEF cells
  <2> QED BY <1>1, PlainCells
<1>4. Len(cells) = count
  <2> HIDE DEF count, v
  <2> QED BY <1>2
<1>5. \A j \in 1 .. count : memory[at[i] + j - 1] = v
  <2> HIDE DEF count, v
  <2> QED BY <1>3, <1>4
<1> QED BY <1>5 DEF Lands

LEMMA OrgLands ==
  ASSUME NEW at, NEW off, NEW start, NEW text, NEW defs, NEW moved, Settled(at, off, start, text, defs, moved),
         NEW i \in DOMAIN source, source[i].kind = "org"
  PROVE  Lands(at, i)
<1> DEFINE l == source[i]
           m == l.operand.v - (Bottom(source) + off[i])
           cells == Emitted(source[i], Bottom(source) + off[i])
<1>1. RefsOf(source[i], Bottom(source) + off[i], off[i]) = {}
  BY DEF RefsOf
<1>2. /\ cells \in Seq(Nat) /\ at[i] \in Nat /\ at[i + 1] = at[i] + Len(cells)
      /\ \A j \in 1 .. Len(cells) : memory[at[i] + j - 1] = cells[j]
  BY <1>1, PlainCells
<1>3. \A j \in 1 .. Len(cells) : cells[j] = 0
  <2>1. CASE l.pad
    <3>1. cells = [k \in 1 .. m |-> 0]
      BY <2>1 DEF Emitted
    <3> HIDE DEF m
    <3>2. DOMAIN cells = 1 .. m
      BY <3>1
    <3>3. DOMAIN cells = 1 .. Len(cells)
      BY <1>2
    <3> HIDE DEF cells
    <3> QED BY <3>1, <3>2, <3>3
  <2>2. CASE ~l.pad
    BY <2>2 DEF Emitted
  <2> QED BY <2>1, <2>2
<1>4. ASSUME NEW c \in at[i] .. at[i + 1] - 1 PROVE memory[c] = 0
  <2> DEFINE e == Len(cells)
             a == at[i]
             b == at[i + 1]
  <2>1. e \in Nat /\ a \in Nat /\ b = a + e /\ c \in a .. b - 1
    BY <1>2, <1>4
  <2>2. \A j \in 1 .. e : memory[a + j - 1] = 0
    BY <1>2, <1>3
  <2> HIDE DEF e, a, b
  <2> DEFINE j == c - a + 1
  <2>3. j \in 1 .. e /\ a + j - 1 = c
    BY <2>1
  <2> HIDE DEF j
  <2> QED BY <2>2, <2>3
<1> QED BY <1>4 DEF Lands

LEMMA DataLands ==
  ASSUME NEW at, NEW off, NEW start, NEW text, NEW defs, NEW moved, Settled(at, off, start, text, defs, moved),
         NEW i \in DOMAIN source, source[i].kind = "data"
  PROVE  Lands(at, i)
<1> DEFINE l == source[i]
           o == l.operand
           a == at[i]
           b == Bottom(source) + off[i]
<1>1. /\ source \in Seq(Statements) /\ start \in Nat /\ Offsets(source, off, Len(source) + 1, text)
      /\ InMemory(memory, start, source, off, Len(source) + 1, defs, moved)
  BY DEF Settled
<1>2. l \in Statements /\ i \in 1 .. (Len(source) + 1) - 1 /\ i \in 1 .. Len(source) + 1
  BY <1>1
<1>3. o \in AnyOperand /\ l.size \in Sizes
  BY <1>2, StatementFields
<1>4. o.kind = "imm" \/ (l.size = "word" /\ o.kind = "label")
  <2>1. Sound(source[i], Bottom(source) + off[i])
    BY <1>1, <1>2 DEF Offsets
  <2> QED BY <2>1 DEF Sound
<1>5. a = start + off[i] /\ off[i] \in Nat
  <2>1. a = start + off[i]
    BY <1>2 DEF Settled
  <2>2. off[i] \in Nat
    BY <1>1, <1>2 DEF Offsets
  <2> QED BY <2>1, <2>2
<1>6. CASE o.kind = "imm"
  <2> DEFINE cells == OperandCells(o, l.size)
             s == l.size
  <2>1. ~IsLabel(o)
    BY <1>6 DEF IsLabel
  <2>2. RefsOf(source[i], b, off[i]) = {} /\ cells = Emitted(source[i], b)
    BY <2>1 DEF RefsOf, RefOf, Emitted
  <2> HIDE DEF cells
  <2>3. a \in Nat /\ \A j \in 1 .. Len(cells) : memory[a + j - 1] = cells[j]
    BY <2>2, PlainCells
  <2>4. OperandIn(memory, a, o, s, 0)
    BY <2>1, <2>3 DEF OperandIn, cells
  <2>5. FetchedOperand(Seen(o.kind), s, a) = Shown(o, s, 0)
    <3> HIDE DEF o, s, a
    <3>1. o \in AnyOperand /\ s \in Sizes /\ a \in Int
      BY <1>3, <2>3 DEF o, s
    <3> QED BY <2>4, <3>1, OperandRead
  <2>6. FetchedOperand(Seen(o.kind), s, a) = [kind |-> "imm", v |-> Load(memory, a, s)]
    BY <1>6 DEF FetchedOperand, Seen
  <2>7. Shown(o, s, 0) = [kind |-> "imm", v |-> Low(s, o.v)]
    BY <1>6 DEF Shown
  <2>8. Load(memory, a, s) = Low(s, o.v)
    BY <2>5, <2>6, <2>7
  <2> QED BY <2>1, <2>8 DEF Lands
<1>7. CASE o.kind = "label"
  <2> DEFINE p == RefsOf(source[i], b, off[i])
             q == [name |-> o.v, place |-> [instruction |-> b, index |-> 0, cell |-> off[i] + 0,
                                            size |-> "word", relative |-> FALSE]]
             w == ValueOf(o.v, b, FALSE, defs, moved, start)
  <2>1. IsLabel(o) /\ Field(o, "word") = "word" /\ l.size = "word"
    BY <1>4, <1>7 DEF IsLabel, Field
  <2>2. q \in p
    BY <2>1 DEF RefsOf, RefOf
  <2>3. /\ q.name = o.v /\ q.place.instruction = b /\ q.place.size = "word" /\ q.place.relative = FALSE
        /\ q.place.cell = off[i] + 0
    OBVIOUS
  <2>4. q \in AllRefs(source, off, Len(source) + 1)
    BY <1>2, <2>2 DEF AllRefs
  <2>5. w = Named(at, a, o.v, FALSE)
    <3>1. ValueOf(q.name, q.place.instruction, q.place.relative, defs, moved, start) = Named(at, a, q.name, q.place.relative)
      BY <2>2 DEF Settled
    <3> QED BY <3>1
  <2>6. w \in Word /\ \A j \in 1 .. Bytes("word") : memory[start + (off[i] + 0) + j - 1] = Cells(4, w)[j]
    <3>1. /\ ValueOf(q.name, q.place.instruction, q.place.relative, defs, moved, start) \in Word
          /\ \A j \in 1 .. Bytes(q.place.size) :
               memory[start + q.place.cell + j - 1]
                 = Cells(4, ValueOf(q.name, q.place.instruction, q.place.relative, defs, moved, start))[j]
      <4> HIDE DEF q
      <4> QED BY <1>1, <2>4 DEF InMemory
    <3> QED BY <3>1
  <2>7. start + (off[i] + 0) = a /\ a \in Int
    BY <1>1, <1>5
  <2> HIDE DEF w, q, p, a
  <2>8. \A j \in 1 .. Bytes("word") : memory[a + j - 1] = Cells(4, w)[j]
    BY <2>6, <2>7
  <2>9. Load(memory, a, "word") = Low("word", w)
    BY <2>6, <2>7, <2>8, WordSize, LoadsLow
  <2>10. Low("word", w) = w
    <3> DEFINE x == Mod("word")
    <3>1. x \in Nat \ {0} /\ w \in 0 .. x - 1
      BY <2>6, ModValues DEF Word
    <3> HIDE DEF x
    <3> QED BY <3>1, Whole DEF Low, x
  <2>11. Load(memory, a, l.size) = Meaning(at, o.v)
    BY <2>1, <2>5, <2>9, <2>10 DEF Named
  <2> QED BY <2>1, <2>11 DEF Lands, a
<1> QED BY <1>4, <1>6, <1>7

LEMMA AllLand ==
  ASSUME NEW at, NEW off, NEW start, NEW text, NEW defs, NEW moved, Settled(at, off, start, text, defs, moved),
         NEW i \in DOMAIN source
  PROVE  Lands(at, i)
<1>1. CASE source[i].kind \notin {"op", "data", "blob", "fill", "org"}
  BY <1>1 DEF Lands
<1> QED BY <1>1, OpLands, DataLands, BlobLands, FillLands, OrgLands
-----------------------------------------------------------------------------
(* The walk finds each statement where it was laid.                        *)

(* Where the walk goes from a statement that is at address a.              *)
After(l, a) ==
  CASE l.kind = "org" -> Zero + l.operand.v
    [] l.kind = "data" -> a + Bytes(l.size)
    [] l.kind = "blob" -> a + Len(l.cells)
    [] l.kind = "fill" -> a + l.count.v
    [] l.kind = "op" -> Fetched(a).next
    [] OTHER -> a

Walks(at) ==
  at = [i \in 1 .. Len(source) + 1 |-> IF i = 1 THEN base ELSE After(source[i - 1], at[i - 1])]

LEMMA PlaceWalks == (\E at : Walks(at)) => Walks(Place)
<1> SUFFICES ASSUME \E at : Walks(at) PROVE Walks(Place)
  OBVIOUS
<1> DEFINE at == CHOOSE at : Walks(at)
<1>1. Walks(at)
  OBVIOUS
<1>2. Place = at
  BY DEF Place, Walks, After
<1> QED BY <1>1, <1>2

LEMMA OpNext ==
  ASSUME source \in Seq(Statements), NEW off, NEW text \in Seq(Nat), Offsets(source, off, Len(source) + 1, text),
         NEW start \in Nat, NEW defs, NEW moved, InMemory(memory, start, source, off, Len(source) + 1, defs, moved),
         NEW i \in DOMAIN source, source[i].kind = "op"
  PROVE  Fetched(start + off[i]).next = start + off[i] + Len(InstructionCells(source[i]))
<1> DEFINE l == source[i]
           n == Len(source) + 1
           w == ValueOf(l.src.v, Bottom(source) + off[i], l.op \in Relatives, defs, moved, start)
           z == ValueOf(l.dst.v, Bottom(source) + off[i], l.op \in Relatives, defs, moved, start)
           a == start + off[i]
<1>1. l = source[i] /\ l.kind = "op" /\ n = Len(source) + 1
  OBVIOUS
<1>2. w = ValueOf(l.src.v, Bottom(source) + off[i], l.op \in Relatives, defs, moved, start)
  OBVIOUS
<1>3. z = ValueOf(l.dst.v, Bottom(source) + off[i], l.op \in Relatives, defs, moved, start)
  OBVIOUS
<1>4. Fetched(start + off[i]) = AsWritten(l, start + off[i], w, z)
  <2> HIDE DEF w, z, l, n
  <2> QED BY <1>1, <1>2, <1>3, InstructionInMemory
<1>5. AsWritten(l, a, w, z).next = a + Len(InstructionCells(l))
  <2> HIDE DEF w, z, l, a
  <2> QED BY DEF AsWritten
<1> QED BY <1>4, <1>5

(* The walk goes from each statement to the place of the next one.         *)
LEMMA WalkStep ==
  ASSUME source \in Seq(Statements), Steady(source), NEW off, NEW text \in Seq(Nat), Offsets(source, off, Len(source) + 1, text),
         base \in Nat, NEW defs, NEW moved, InMemory(memory, base, source, off, Len(source) + 1, defs, moved),
         Bottom(source) \in Nat, Zero \in Nat, Zero + Bottom(source) = base,
         NEW i \in DOMAIN source
  PROVE  After(source[i], base + off[i]) = base + off[i + 1]
<1> DEFINE l == source[i]
           x == off[i]
           y == off[i + 1]
           b == Bottom(source)
           n == Len(source) + 1
           e == Emitted(l, b + x)
<1>1. l \in Statements /\ i \in 1 .. n - 1 /\ i \in 1 .. n /\ i + 1 \in 1 .. n /\ 1 \in 1 .. n
  OBVIOUS
<1>2. off \in [1 .. n -> Nat] /\ off[1] = 0 /\ y = x + Len(e) /\ e \in Seq(Nat) /\ Sound(l, b + x)
  BY <1>1 DEF Offsets
<1>3. x \in Nat /\ y \in Nat /\ Len(e) \in Nat
  <2> HIDE DEF n
  <2> QED BY <1>1, <1>2
<1>4. ASSUME After(l, base + x) = base + x + Len(e) PROVE After(source[i], base + off[i]) = base + off[i + 1]
  <2> DEFINE m == Len(e)
  <2>1. After(l, base + x) = base + x + m /\ y = x + m /\ m \in Nat /\ base \in Nat
    BY <1>2, <1>3, <1>4
  <2> HIDE DEF l, x, y, m
  <2>2. After(l, base + x) = base + y
    BY <1>3, <2>1
  <2> QED BY <2>2 DEF l, x, y
<1>5. CASE l.kind = "op"
  <2>1. Fetched(base + x).next = base + x + Len(InstructionCells(l))
    BY <1>5, OpNext
  <2>2. e = InstructionCells(l)
    BY <1>5 DEF Emitted
  <2>3. After(l, base + x) = Fetched(base + x).next
    BY <1>5 DEF After
  <2> HIDE DEF l, x, y, e
  <2>4. After(l, base + x) = base + x + Len(e)
    BY <2>1, <2>2, <2>3
  <2> QED BY <1>4, <2>4
<1>6. CASE l.kind = "data"
  <2> DEFINE o == l.operand
             s == l.size
  <2>1. o \in AnyOperand /\ s \in Sizes
    BY <1>1, <1>6, StatementFields
  <2>2. o.kind = "imm" \/ (s = "word" /\ o.kind = "label")
    BY <1>2, <1>6 DEF Sound
  <2>3. Len(e) = Bytes(s)
    <3>1. CASE o.kind = "imm"
      <4> DEFINE k == Bytes(s)
                 v == Low(s, o.v)
      <4>1. e = Cells(k, v)
        BY <1>6, <3>1 DEF Emitted, OperandCells, IsLabel
      <4>2. k \in 1 .. 4
        BY <2>1, BytesOfSize
      <4> HIDE DEF k, v, e
      <4>3. Len(Cells(k, v)) = k
        <5>1. 1 \in 1 .. k
          BY <4>2
        <5> QED BY <4>2, <5>1, FewerCells
      <4> QED BY <4>1, <4>3 DEF k
    <3>2. CASE o.kind = "label"
      <4>1. IsLabel(o) /\ s = "word" /\ Field(o, "word") = "word"
        BY <2>2, <3>2 DEF IsLabel, Field
      <4>2. e = OperandCells(o, "word")
        BY <1>6, <4>1 DEF Emitted
      <4> QED BY <2>1, <4>1, <4>2, WordSize, OperandCellsAre
    <3> QED BY <2>2, <3>1, <3>2
  <2>4. After(l, base + x) = base + x + Bytes(s)
    BY <1>6 DEF After
  <2> HIDE DEF l, x, y, e
  <2>5. After(l, base + x) = base + x + Len(e)
    BY <2>3, <2>4
  <2> QED BY <1>4, <2>5
<1>7. CASE l.kind = "blob"
  <2>1. After(l, base + x) = base + x + Len(e)
    BY <1>7 DEF After, Emitted
  <2> QED BY <1>4, <2>1
<1>8. CASE l.kind = "fill"
  <2> DEFINE count == l.count.v
             v == Low("byte", l.value.v)
  <2>1. count \in Nat
    <3>1. l.count.kind = "imm"
      BY <1>2, <1>8 DEF Sound
    <3>2. l.count \in AnyOperand
      BY <1>1, <1>8, StatementFields
    <3> HIDE DEF l
    <3> QED BY <3>1, <3>2, OperandFields
  <2>2. e = [k \in 1 .. count |-> v]
    BY <1>8 DEF Emitted
  <2>3. Len(e) = count
    <3> HIDE DEF count, v, e
    <3> QED BY <2>1, <2>2
  <2>4. After(l, base + x) = base + x + count
    BY <1>8 DEF After
  <2> HIDE DEF l, x, y, e, count
  <2>5. After(l, base + x) = base + x + Len(e)
    BY <2>3, <2>4
  <2> QED BY <1>4, <2>5
<1>9. CASE l.kind = "org" /\ l.pad
  <2> DEFINE v == l.operand.v
             m == v - (b + x)
  <2>1. v \in Nat
    <3>1. l.operand.kind = "imm" /\ l.operand \in AnyOperand
      BY <1>1, <1>2, <1>9, StatementFields DEF Sound
    <3> HIDE DEF l
    <3> QED BY <3>1, OperandFields DEF v
  <2>2. b + x <= v
    BY <1>2, <1>9 DEF Sound
  <2>3. m \in Nat
    <3> HIDE DEF x, v, b
    <3> QED BY <1>3, <2>1, <2>2 DEF b
  <2>4. e = [k \in 1 .. m |-> 0]
    BY <1>9 DEF Emitted
  <2>5. Len(e) = m
    <3> HIDE DEF m, e
    <3> QED BY <2>3, <2>4
  <2>6. After(l, base + x) = Zero + v
    BY <1>9 DEF After
  <2>7. b \in Nat /\ Zero + b = base
    OBVIOUS
  <2>8. y = x + (v - (b + x))
    BY <1>2, <2>5
  <2> HIDE DEF l, x, y, e, v, b
  <2>9. base + y = Zero + v
    BY <1>3, <2>1, <2>7, <2>8
  <2> QED BY <2>6, <2>9 DEF l, x, y
<1>10. CASE l.kind = "org" /\ ~l.pad
  <2>1. i = 1
    BY <1>10 DEF Steady
  <2>2. b = l.operand.v
    <3>1. ~Flat(source)
      BY <1>10 DEF Flat
    <3> QED BY <2>1, <3>1 DEF Bottom
  <2>3. x = 0 /\ e = <<>>
    BY <1>2, <1>10, <2>1 DEF Emitted
  <2>4. y = 0
    BY <1>2, <2>3
  <2>5. After(l, base + x) = Zero + l.operand.v
    BY <1>10 DEF After
  <2>6. After(l, base + x) = base
    <3>1. Zero + b = base
      OBVIOUS
    <3> QED BY <2>2, <2>5, <3>1
  <2> HIDE DEF x, y, l
  <2>7. base + y = base
    BY <2>4
  <2> QED BY <2>6, <2>7 DEF x, y, l
<1>11. CASE l.kind \notin {"op", "data", "blob", "fill", "org"}
  <2>1. e = <<>>
    BY <1>1, <1>2, <1>11 DEF Statements, InstructionsOf, Emitted
  <2>2. After(l, base + x) = base + x
    BY <1>11 DEF After
  <2>3. y = x
    <3>1. Len(e) = 0
      BY <2>1
    <3> HIDE DEF x, y, e
    <3> QED BY <1>2, <1>3, <3>1
  <2> QED BY <2>2, <2>3
<1> QED BY <1>5, <1>6, <1>7, <1>8, <1>9, <1>10, <1>11

(* The walk finds each statement where it was laid. *)
LEMMA PlaceIs ==
  ASSUME source \in Seq(Statements), Steady(source), NEW off, NEW text \in Seq(Nat), Offsets(source, off, Len(source) + 1, text),
         base \in Nat, NEW defs, NEW moved, InMemory(memory, base, source, off, Len(source) + 1, defs, moved),
         Bottom(source) \in Nat, Zero \in Nat, Zero + Bottom(source) = base
  PROVE  \A i \in 1 .. Len(source) + 1 : Place[i] = base + off[i]
<1> DEFINE n == Len(source) + 1
           g == [i \in 1 .. n |-> base + off[i]]
<1>1. ASSUME NEW i \in 1 .. n - 1 PROVE After(source[i], base + off[i]) = base + off[i + 1]
  <2>1. i \in DOMAIN source
    OBVIOUS
  <2> QED BY <2>1, WalkStep
<1>2. n \in Nat \ {0} /\ off[1] = 0
  BY DEF Offsets
<1>3. base + off[1] = base
  BY <1>2
<1>4. Walks(g)
  <2>1. ASSUME NEW i \in 1 .. n PROVE g[i] = IF i = 1 THEN base ELSE After(source[i - 1], g[i - 1])
    <3>1. CASE i = 1
      BY <1>3, <3>1
    <3>2. CASE i # 1
      <4> HIDE DEF n
      <4>1. i - 1 \in 1 .. n - 1 /\ i - 1 \in 1 .. n /\ (i - 1) + 1 = i
        BY <1>2, <3>2
      <4>2. After(source[i - 1], base + off[i - 1]) = base + off[i]
        BY <1>1, <4>1
      <4>3. g[i - 1] = base + off[i - 1] /\ g[i] = base + off[i]
        BY <4>1
      <4> QED BY <3>2, <4>2, <4>3
    <3> QED BY <3>1, <3>2
  <2>2. g = [i \in 1 .. n |-> g[i]]
    OBVIOUS
  <2> HIDE DEF g
  <2> QED BY <2>1, <2>2 DEF Walks
<1>5. Walks(Place)
  BY <1>4, PlaceWalks
<1> DEFINE S == {k \in 0 .. n - 1 : Place[k + 1] = base + off[k + 1]}
<1>6. 0 \in S
  <2>1. 1 \in 1 .. n /\ 0 \in 0 .. n - 1 /\ 0 + 1 = 1
    BY <1>2
  <2>2. Place[1] = base
    BY <1>5, <2>1 DEF Walks
  <2> QED BY <1>3, <2>1, <2>2
<1>7. ASSUME NEW k \in 0 .. (n - 1) - 1, k \in S PROVE k + 1 \in S
  <2>1. k + 1 \in 1 .. n - 1 /\ k + 1 + 1 \in 1 .. n /\ k + 1 + 1 # 1 /\ (k + 1 + 1) - 1 = k + 1 /\ k + 1 \in 0 .. n - 1
    BY <1>2
  <2>2. Place[k + 1 + 1] = After(source[k + 1], Place[k + 1])
    BY <1>5, <2>1 DEF Walks
  <2>3. Place[k + 1] = base + off[k + 1]
    BY <1>7
  <2>4. After(source[k + 1], base + off[k + 1]) = base + off[k + 1 + 1]
    BY <1>1, <2>1
  <2> QED BY <2>1, <2>2, <2>3, <2>4
<1>8. \A k \in 0 .. n - 1 : k \in S
  <2>1. n - 1 \in Nat
    BY <1>2
  <2> HIDE DEF S, n
  <2> QED BY <1>6, <1>7, <2>1, UpTo
<1>9. ASSUME NEW i \in 1 .. n PROVE Place[i] = base + off[i]
  <2>1. i - 1 \in 0 .. n - 1 /\ (i - 1) + 1 = i
    BY <1>2
  <2> QED BY <1>8, <2>1
<1> QED BY <1>9
-----------------------------------------------------------------------------
(* The values of the labels, in the file and after the relocation.         *)

(* What a name stands for once its definitions have been passed. *)
LEMMA LabelMeans ==
  ASSUME source \in Seq(Statements), NEW off, NEW defs, Values(source, off, Len(source) + 1, defs), NEW m \in DOMAIN defs,
         NEW text, Offsets(source, off, Len(source) + 1, text), Bottom(source) \in Nat
  PROVE  \E i \in DOMAIN source : /\ IsConst(m) <=> source[i].kind = "const"
                                  /\ defs[m].const <=> source[i].kind = "const"
                                  /\ Defines(source[i], m) /\ Definition(m) = i
                                  /\ defs[m] = ValueAt(source[i], Bottom(source) + off[i])
<1>1. PICK i \in 1 .. (Len(source) + 1) - 1 :
        /\ Defines(source[i], m) /\ defs[m] = ValueAt(source[i], Bottom(source) + off[i])
        /\ \A j \in 1 .. (Len(source) + 1) - 1 : Defines(source[j], m) => j <= i
  BY DEF Values
<1>2. Len(source) \in Nat /\ DOMAIN source = 1 .. Len(source) /\ (Len(source) + 1) - 1 = Len(source)
  OBVIOUS
<1> DEFINE S == {j \in DOMAIN source : source[j].kind \in {"label", "const"} /\ source[j].name = m}
<1>3. i \in S /\ S \subseteq Int /\ \A j \in S : j <= i
  BY <1>1, <1>2 DEF Defines
<1>4. Definition(m) = i
  <2>1. Max(S) = i
    <3> HIDE DEF S
    <3> QED BY <1>3, MaxIs
  <2> QED BY <2>1 DEF Definition
<1>5. IsConst(m) <=> source[i].kind = "const"
  BY <1>4 DEF IsConst
<1>6. defs[m].const <=> source[i].kind = "const"
  <2>1. CASE source[i].kind = "const"
    <3>1. ValueAt(source[i], Bottom(source) + off[i]) = [at |-> source[i].operand.v, const |-> TRUE]
      BY <2>1 DEF ValueAt
    <3>2. defs[m].const = TRUE
      BY <1>1, <3>1
    <3> QED BY <2>1, <3>2
  <2>2. CASE source[i].kind # "const"
    <3>1. ValueAt(source[i], Bottom(source) + off[i]) = [at |-> Bottom(source) + off[i], const |-> FALSE]
      BY <2>2 DEF ValueAt
    <3>2. defs[m].const = FALSE
      BY <1>1, <3>1
    <3> QED BY <2>2, <3>2
  <2> QED BY <2>1, <2>2
<1>7. i \in DOMAIN source
  BY <1>2
<1> QED BY <1>1, <1>4, <1>5, <1>6, <1>7

(* Its value is a number, and where the walk passes it. *)
LEMMA LabelValue ==
  ASSUME source \in Seq(Statements), NEW off, NEW defs, Values(source, off, Len(source) + 1, defs), NEW m \in DOMAIN defs,
         NEW text \in Seq(Nat), Offsets(source, off, Len(source) + 1, text), Bottom(source) \in Nat,
         base \in Nat, Zero \in Nat, Zero + Bottom(source) = base, base + Len(text) < Mod("word"),
         NEW at, \A i \in 1 .. Len(source) + 1 : at[i] = base + off[i]
  PROVE  /\ defs[m].const <=> IsConst(m)
         /\ defs[m].const => Meaning(at, m) = defs[m].at
         /\ ~defs[m].const => Meaning(at, m) = Zero + defs[m].at
         /\ defs[m].at \in Word /\ Meaning(at, m) \in Word
<1>1. PICK i \in DOMAIN source :
         /\ IsConst(m) <=> source[i].kind = "const"
         /\ defs[m].const <=> source[i].kind = "const"
         /\ Defines(source[i], m) /\ Definition(m) = i
         /\ defs[m] = ValueAt(source[i], Bottom(source) + off[i])
  BY LabelMeans
<1> DEFINE l == source[i]
           n == Len(source) + 1
           x == off[i]
           b == Bottom(source)
           e == Len(text)
           w == Mod("word")
<1>2. l \in Statements /\ i \in 1 .. n - 1 /\ i \in 1 .. n /\ n \in 1 .. n /\ n \in Nat \ {0}
  OBVIOUS
<1>3. x \in Nat /\ x <= e
  <2>1. off \in [1 .. n -> Nat] /\ off[n] = e
    BY DEF Offsets
  <2>2. off[i] <= off[n]
    <3>1. i <= n
      BY <1>2
    <3>2. \A j, k \in 1 .. n : j <= k => off[j] <= off[k]
      BY DEF Offsets
    <3> HIDE DEF n
    <3> QED BY <1>2, <3>1, <3>2
  <2> HIDE DEF n, e
  <2> QED BY <1>2, <2>1, <2>2
<1>4. b \in Nat /\ Zero + b = base /\ base + e < w /\ e \in Nat /\ w \in Nat
  BY ModValues
<1>5. CASE l.kind = "const"
  <2>1. defs[m].at = l.operand.v /\ defs[m].const /\ IsConst(m)
    BY <1>1, <1>5 DEF ValueAt
  <2>2. Meaning(at, m) = l.operand.v
    BY <1>1, <2>1 DEF Meaning
  <2>3. l.operand.v \in Word
    <3>1. l.operand.kind = "imm"
      <4>1. Sound(l, b + x)
        BY <1>2 DEF Offsets
      <4> QED BY <1>5, <4>1 DEF Sound
    <3>2. l.operand \in AnyOperand
      BY <1>2, <1>5, StatementFields
    <3> HIDE DEF l
    <3> QED BY <3>1, <3>2, OperandShape
  <2> QED BY <1>1, <2>1, <2>2, <2>3
<1>6. CASE l.kind # "const"
  <2>1. defs[m].at = b + x /\ ~defs[m].const /\ ~IsConst(m)
    BY <1>1, <1>6 DEF ValueAt
  <2>2. Meaning(at, m) = base + x
    BY <1>1, <1>2, <2>1 DEF Meaning
  <2> HIDE DEF x, b, e, w
  <2>3. base + x = Zero + (b + x) /\ base + x \in 0 .. w - 1 /\ b + x \in 0 .. w - 1
    BY <1>3, <1>4 
  <2>4. Meaning(at, m) \in Word /\ defs[m].at \in Word
    BY <2>1, <2>2, <2>3 DEF Word, w
  <2> QED BY <2>1, <2>2, <2>3, <2>4
<1> QED BY <1>5, <1>6

(* What the loader of FXF files asks of the references.                    *)
Movable(P, defs) ==
  \A q \in P : ~q.place.relative /\ (defs[q.name].const \/ q.place.size = "word")

LEMMA FormatMovable ==
  ASSUME ForItsFormat, program.fxf, source \in Seq(Statements), NEW off, NEW defs,
         \A m \in DOMAIN defs : defs[m].const <=> IsConst(m),
         NEW P, P = AllRefs(source, off, Len(source) + 1), \A q \in P : q.name \in DOMAIN defs
  PROVE  Movable(P, defs)
<1>1. \A r \in References : ~r.relative /\ (IsConst(r.name) \/ r.size = "word")
  BY DEF ForItsFormat
<1>2. ASSUME NEW q \in P PROVE ~q.place.relative /\ (defs[q.name].const \/ q.place.size = "word")
  <2>1. PICK i \in 1 .. (Len(source) + 1) - 1 : q \in RefsOf(source[i], Bottom(source) + off[i], off[i])
    BY <1>2 DEF AllRefs
  <2> DEFINE l == source[i]
             b == Bottom(source) + off[i]
             c == off[i]
  <2>2. i \in DOMAIN source /\ q.name \in DOMAIN defs
    BY <1>2, <2>1
  <2>3. ASSUME NEW o \in LabelsOf(l), q.name = o.v, q.place.size = Field(o, l.size),
               q.place.relative = (l.op \in Relatives), l.kind = "op"
        PROVE  ~q.place.relative /\ (defs[q.name].const \/ q.place.size = "word")
    <3> DEFINE r == [name |-> o.v, size |-> Field(o, l.size), relative |-> l.kind = "op" /\ l.op \in Relatives]
    <3>1. r \in References
      BY <2>2, <2>3 DEF References
    <3>2. r.name = o.v /\ r.size = Field(o, l.size) /\ (r.relative <=> (l.kind = "op" /\ l.op \in Relatives))
      OBVIOUS
    <3> HIDE DEF r
    <3>3. ~(l.kind = "op" /\ l.op \in Relatives) /\ (IsConst(o.v) \/ Field(o, l.size) = "word")
      BY <1>1, <3>1, <3>2
    <3> QED BY <2>2, <2>3, <3>3
  <2>4. CASE l.kind = "op"
    <3> DEFINE rel == l.op \in Relatives
               p == 2 + Len(OperandCells(l.src, l.size))
    <3>1. q \in RefOf(l.src, l.size, b, c, 2, rel) \/ q \in RefOf(l.dst, l.size, b, c, p, rel)
      BY <2>1, <2>4 DEF RefsOf
    <3>2. CASE q \in RefOf(l.src, l.size, b, c, 2, rel)
      <4>1. IsLabel(l.src) /\ q.name = l.src.v /\ q.place.size = Field(l.src, l.size) /\ q.place.relative = rel
        BY <3>2, RefIs
      <4>2. l.src \in LabelsOf(l)
        BY <2>4, <4>1 DEF LabelsOf
      <4> QED BY <2>3, <2>4, <4>1, <4>2
    <3>3. CASE q \in RefOf(l.dst, l.size, b, c, p, rel)
      <4>1. IsLabel(l.dst) /\ q.name = l.dst.v /\ q.place.size = Field(l.dst, l.size) /\ q.place.relative = rel
        BY <3>3, RefIs
      <4>2. l.dst \in LabelsOf(l)
        BY <2>4, <4>1 DEF LabelsOf
      <4> QED BY <2>3, <2>4, <4>1, <4>2
    <3> QED BY <3>1, <3>2, <3>3
  <2>5. CASE l.kind = "data"
    <3>1. q \in RefOf(l.operand, "word", b, c, 0, FALSE)
      BY <2>1, <2>5 DEF RefsOf
    <3>2. IsLabel(l.operand) /\ q.place.relative = FALSE /\ q.place.size = Field(l.operand, "word")
      BY <3>1 DEF RefOf
    <3>3. Field(l.operand, "word") = "word"
      BY DEF Field
    <3> QED BY <3>2, <3>3
  <2> QED BY <2>1, <2>4, <2>5 DEF RefsOf
<1> QED BY <1>2 DEF Movable

(* A program in memory from address b on, the first d entries of its       *)
(* relocation table done.                                                  *)
Relocated(mem, b, text, table, d) ==
  /\ \A c \in 1 .. Len(text) :
       (\A k \in 1 .. d : c \notin table[k] + 1 .. table[k] + 4) => mem[b + c - 1] = text[c]
  /\ \A k \in 1 .. d : \A v \in Word : FieldAt(text, table[k], v) =>
       \A j \in 1 .. 4 : mem[b + table[k] + j - 1] = Cells(4, Wrap(v + b))[j]

(* What a reference stands for, moved or not. *)
ValueFacts(q, defs, moved, start) ==
  LET v == ValueOf(q.name, q.place.instruction, q.place.relative, defs, moved, start) IN
  /\ v \in Word
  /\ ~(moved /\ ~defs[q.name].const) => v = Distance(q.place, defs[q.name].at)
  /\ moved /\ ~defs[q.name].const /\ ~q.place.relative => v = Wrap(defs[q.name].at + start)

LEMMA ValueIs ==
  ASSUME NEW q, NEW defs, NEW moved, NEW start \in Nat, defs[q.name].at \in Word, q.place.instruction \in Nat
  PROVE  ValueFacts(q, defs, moved, start)
<1> DEFINE v == ValueOf(q.name, q.place.instruction, q.place.relative, defs, moved, start)
           w == Mod("word")
           a == defs[q.name].at
           p == q.place.instruction
           value == IF q.place.relative THEN (a - p) % w ELSE a
<1>1. a \in Nat /\ a \in 0 .. w - 1 /\ w \in Nat \ {0} /\ p \in Nat
  <2>1. a \in Word /\ w \in Nat \ {0}
    BY ModValues
  <2> QED BY <2>1, WordFacts DEF Word
<1>2. value \in 0 .. w - 1
  <2> HIDE DEF w, a, p
  <2>1. (a - p) \in Int
    BY <1>1
  <2>2. (a - p) % w \in 0 .. w - 1
    BY <1>1, <2>1, Divides
  <2> QED BY <1>1, <2>2
<1>3. v = IF moved /\ ~defs[q.name].const THEN Wrap(value + start) ELSE value
  BY DEF ValueOf
<1>4. value = Distance(q.place, a)
  BY DEF Distance
<1> HIDE DEF value
<1>5. Wrap(value + start) \in 0 .. w - 1
  <2> DEFINE u == value + start
  <2>1. u \in Int
    <3> HIDE DEF w
    <3> QED BY <1>1, <1>2
  <2> HIDE DEF u, w
  <2>2. u % w \in 0 .. w - 1
    BY <1>1, <2>1, Divides
  <2> QED BY <2>2 DEF Wrap, w, u
<1>6. v \in 0 .. w - 1
  BY <1>2, <1>3, <1>5
<1>7. ~q.place.relative => value = a
  BY DEF value
<1> QED BY <1>3, <1>4, <1>6, <1>7 DEF Word, ValueFacts

(* What the assembler laid is in memory as it should be. *)
LEMMA ImageInMemory ==
  ASSUME source \in Seq(Statements), code \in Seq(Nat), NEW off, NEW n, n = Len(source) + 1,
         Laid(source, off, n, code, targets, labels, relocs), Names = {},
         Bottom(source) \in Nat, base \in Nat,
         \A m \in DOMAIN labels : labels[m].at \in Word,
         NEW d, Relocated(memory, base, code, relocs, d),
         program.fxf => /\ Bottom(source) = 0 /\ 1 .. d = DOMAIN relocs
                        /\ Movable(AllRefs(source, off, n), labels),
         ~program.fxf => 1 .. d = {}
  PROVE  InMemory(memory, base, source, off, n, labels, program.fxf)
<1> DEFINE P == AllRefs(source, off, n)
           b == Bottom(source)
           e == Len(code)
<1>1. /\ Offsets(source, off, n, code) /\ Encoded(source, off, n, P, code) /\ RefsApart(P, b, e)
      /\ Resolved(P, targets, labels, code) /\ Listed(P, b, targets, labels, relocs)
  BY DEF Laid
<1>2. e \in Nat /\ n \in Nat \ {0} /\ b \in Nat
  OBVIOUS
<1>3. ASSUME NEW q \in P
      PROVE  /\ q.place \in Places /\ q.place.cell \in Nat /\ q.place.instruction \in Nat /\ q.place.size \in Sizes
             /\ q.place.cell + Bytes(q.place.size) <= e
             /\ q.name \in DOMAIN labels /\ labels[q.name].at \in Word
             /\ \A j \in 1 .. Bytes(q.place.size) :
                  code[q.place.cell + j] = Cells(4, Distance(q.place, labels[q.name].at))[j]
             /\ Moved(q, targets, labels) <=> ~labels[q.name].const
  <2>1. q.place \in Places /\ q.place.cell + Bytes(q.place.size) <= e
    BY <1>1 DEF RefsApart
  <2>2. q.place.cell \in Nat /\ q.place.instruction \in Nat /\ q.place.size \in Sizes
    BY <2>1 DEF Places
  <2>3. q.name \notin DOMAIN targets
    BY DEF Names
  <2>4. q.name \in DOMAIN labels
        /\ \A j \in 1 .. Bytes(q.place.size) :
                  code[q.place.cell + j] = Cells(4, Distance(q.place, labels[q.name].at))[j]
    BY <1>1, <2>3 DEF Resolved
  <2>5. Moved(q, targets, labels) <=> ~labels[q.name].const
    BY <2>3 DEF Moved
  <2> QED BY <2>1, <2>2, <2>4, <2>5
<1>4. ASSUME NEW k \in 1 .. d
      PROVE  /\ program.fxf
             /\ \E q \in P : ~labels[q.name].const /\ relocs[k] = q.place.cell /\ q.place.size = "word"
  <2>1. program.fxf
    BY <1>4
  <2>2. b = 0 /\ k \in DOMAIN relocs /\ Movable(P, labels)
    BY <1>4, <2>1
  <2>3. PICK q \in P : Moved(q, targets, labels) /\ relocs[k] = b + q.place.cell
    BY <1>1, <2>2 DEF Listed
  <2>4. ~labels[q.name].const /\ q.place.cell \in Nat
    BY <1>3, <2>3
  <2>5. q.place.size = "word"
    BY <2>2, <2>3, <2>4 DEF Movable
  <2>6. relocs[k] = q.place.cell
    <3> HIDE DEF b
    <3> QED BY <2>2, <2>3, <2>4
  <2> QED BY <2>1, <2>3, <2>4, <2>5, <2>6
<1> HIDE DEF P, b, e
<1>5. Bytes("word") = 4
  BY DEF Bytes
<1>6. ASSUME NEW i \in 1 .. n - 1, NEW j \in 1 .. Len(Emitted(source[i], b + off[i])), Free(P, off[i] + j)
      PROVE  memory[base + off[i] + j - 1] = Emitted(source[i], b + off[i])[j]
  <2> DEFINE cells == Emitted(source[i], b + off[i])
             x == off[i]
             y == off[i + 1]
             c == x + j
  <2>1. i \in 1 .. n /\ i + 1 \in 1 .. n /\ n \in 1 .. n /\ i + 1 <= n
    BY <1>2, <1>6
  <2>2. off \in [1 .. n -> Nat] /\ y = x + Len(cells) /\ cells \in Seq(Nat) /\ off[n] = e
    BY <1>1, <1>6 DEF Offsets, b, e
  <2>3. y <= off[n]
    BY <1>1, <2>1 DEF Offsets
  <2>4. x \in Nat /\ y \in Nat
    BY <2>1, <2>2
  <2>5. Len(cells) \in Nat /\ j \in 1 .. Len(cells) /\ DOMAIN cells = 1 .. Len(cells)
    BY <1>6, <2>2
  <2>6. code[c] = cells[j]
    BY <1>1, <1>6, <2>5 DEF Encoded, b
  <2> HIDE DEF cells, x, y
  <2>7. c \in 1 .. e /\ c \in Int
    <3> DEFINE m == Len(cells)
    <3>1. m \in Nat /\ j \in 1 .. m /\ y = x + m /\ y <= e
      BY <2>2, <2>3, <2>5
    <3> HIDE DEF m
    <3> QED BY <1>2, <2>4, <3>1
  <2>8. \A k \in 1 .. d : c \notin relocs[k] + 1 .. relocs[k] + 4
    <3> SUFFICES ASSUME NEW k \in 1 .. d, c \in relocs[k] + 1 .. relocs[k] + 4 PROVE FALSE
      OBVIOUS
    <3>1. PICK q \in P : relocs[k] = q.place.cell /\ q.place.size = "word"
      BY <1>4
    <3>2. InField(q, c)
      BY <1>5, <3>1 DEF InField
    <3> QED BY <1>6, <3>2 DEF Free, x
  <2>9. memory[base + c - 1] = code[c]
    BY <2>7, <2>8 DEF Relocated, e
  <2>10. base + c - 1 = base + x + j - 1
    BY <2>4
  <2> QED BY <2>6, <2>9, <2>10 DEF x, cells
<1>7. ASSUME NEW q \in P,
             NEW v, v = ValueOf(q.name, q.place.instruction, q.place.relative, labels, program.fxf, base)
      PROVE  v \in Word /\ \A j \in 1 .. Bytes(q.place.size) : memory[base + q.place.cell + j - 1] = Cells(4, v)[j]
  <2> DEFINE f == q.place.cell
             m == Bytes(q.place.size)
             a == labels[q.name].at
  <2>1. /\ f \in Nat /\ m \in 1 .. 4 /\ f + m <= e /\ q.place.instruction \in Nat /\ a \in Word
        /\ \A j \in 1 .. m : code[f + j] = Cells(4, Distance(q.place, a))[j]
    BY <1>3, <1>7, BytesOfSize
  <2>2. /\ v \in Word
        /\ ~(program.fxf /\ ~labels[q.name].const) => v = Distance(q.place, a)
        /\ program.fxf /\ ~labels[q.name].const /\ ~q.place.relative => v = Wrap(a + base)
    <3>1. ValueFacts(q, labels, program.fxf, base)
      BY <2>1, ValueIs
    <3> QED BY <1>7, <3>1 DEF ValueFacts
  <2>3. CASE program.fxf /\ ~labels[q.name].const
    <3>1. ~q.place.relative /\ q.place.size = "word"
      BY <1>7, <2>3 DEF Movable, P
    <3>2. v = Wrap(a + base)
      BY <2>2, <2>3, <3>1
    <3>3. PICK k \in DOMAIN relocs : relocs[k] = b + f
      BY <1>1, <1>3, <1>7, <2>3 DEF Listed
    <3>4. k \in 1 .. d /\ relocs[k] = f
      <4>1. b = 0 /\ 1 .. d = DOMAIN relocs
        BY <2>3 DEF b
      <4>2. f \in Nat /\ relocs[k] = b + f
        BY <2>1, <3>3
      <4> HIDE DEF f
      <4>3. relocs[k] = f
        BY <4>1, <4>2
      <4> QED BY <3>3, <4>1, <4>3
    <3>5. FieldAt(code, f, a)
      <4>1. Distance(q.place, a) = a
        BY <3>1 DEF Distance
      <4>2. m = 4
        BY <1>5, <3>1
      <4> HIDE DEF f, a, m
      <4> QED BY <2>1, <4>1, <4>2 DEF FieldAt
    <3>6. \A j \in 1 .. 4 : memory[base + f + j - 1] = Cells(4, Wrap(a + base))[j]
      <4>1. \A u \in Word : FieldAt(code, relocs[k], u) =>
              \A j \in 1 .. 4 : memory[base + relocs[k] + j - 1] = Cells(4, Wrap(u + base))[j]
        BY <3>4 DEF Relocated
      <4> HIDE DEF f, a
      <4> QED BY <2>1, <3>4, <3>5, <4>1
    <3> QED BY <1>5, <2>2, <3>1, <3>2, <3>6
  <2>4. CASE ~(program.fxf /\ ~labels[q.name].const)
    <3>1. v = Distance(q.place, a)
      BY <2>2, <2>4
    <3>2. ASSUME NEW j \in 1 .. m PROVE memory[base + f + j - 1] = Cells(4, v)[j]
      <4>1. code[f + j] = Cells(4, v)[j]
        BY <2>1, <3>1
      <4>2. \A k \in 1 .. d : f + j \notin relocs[k] + 1 .. relocs[k] + 4
        <5> SUFFICES ASSUME NEW k \in 1 .. d, f + j \in relocs[k] + 1 .. relocs[k] + 4 PROVE FALSE
          OBVIOUS
        <5>1. PICK r \in P : ~labels[r.name].const /\ relocs[k] = r.place.cell /\ r.place.size = "word"
          BY <1>4
        <5>2. r # q
          BY <1>4, <2>4, <5>1
        <5>3. Ordered(q, r) \/ Ordered(r, q)
          BY <1>1, <1>7, <5>2 DEF RefsApart
        <5> DEFINE g == r.place.cell
        <5>4. f + m <= g \/ g + 4 <= f
          BY <1>5, <5>1, <5>3 DEF Ordered
        <5>5. g \in Nat /\ f + j \in g + 1 .. g + 4
          BY <1>3, <5>1
        <5> HIDE DEF f, m, g
        <5> QED BY <2>1, <5>4, <5>5
      <4> HIDE DEF f, m
      <4>3. f + j \in 1 .. e /\ base + (f + j) - 1 = base + f + j - 1
        BY <1>2, <2>1
      <4>4. memory[base + (f + j) - 1] = code[f + j]
        BY <4>2, <4>3 DEF Relocated, e
      <4> QED BY <4>1, <4>3, <4>4
    <3> QED BY <2>2, <3>2
  <2> QED BY <2>3, <2>4
<1> QED BY <1>6, <1>7 DEF InMemory, P, b

LEMMA RefAt ==
  ASSUME NEW l, NEW a, NEW c, NEW q \in RefsOf(l, a, c)
  PROVE  q.place.instruction = a
<1>1. CASE l.kind = "op"
  <2>1. \/ q \in RefOf(l.src, l.size, a, c, 2, l.op \in Relatives)
        \/ q \in RefOf(l.dst, l.size, a, c, 2 + Len(OperandCells(l.src, l.size)), l.op \in Relatives)
    BY <1>1 DEF RefsOf
  <2> QED BY <2>1, RefIs
<1>2. CASE l.kind = "data"
  <2>1. q \in RefOf(l.operand, "word", a, c, 0, FALSE)
    BY <1>2 DEF RefsOf
  <2> QED BY <2>1 DEF RefOf
<1> QED BY <1>1, <1>2 DEF RefsOf

(* A program for its format has at most the origin that it starts with,    *)
(* and its data.32 of labels follow words.                                 *)
LEMMA FormatSteady ==
  ASSUME ForItsFormat
  PROVE  /\ Steady(source)
         /\ program.fxf => Bottom(source) = 0
         /\ ~program.fxf => Bottom(source) = KernelBase
<1>1. LabelsAreWords /\ (program.fxf => Origins = {}) /\ (~program.fxf => Origins = {1} /\ source[1].operand.v = KernelBase)
  BY DEF ForItsFormat
<1>2. ASSUME NEW i \in DOMAIN source, source[i].kind = "data", IsLabel(source[i].operand)
      PROVE  SizeBefore(source, i) = "word"
  <2> DEFINE sizing == {j \in 1 .. i - 1 :
                          source[j].kind = "const" \/ (source[j].kind = "op" /\ source[j].op \notin ZeroOps)}
  <2>1. sizing = {} \/ source[Max(sizing)].kind = "const" \/ source[Max(sizing)].size = "word"
    BY <1>1, <1>2 DEF LabelsAreWords
  <2>2. SizeBefore(source, i) = IF sizing = {} THEN "word" ELSE SizeOf(source[Max(sizing)])
    BY DEF SizeBefore, SetsSize
  <2> HIDE DEF sizing
  <2> QED BY <2>1, <2>2 DEF SizeOf
<1>3. Steady(source)
  BY <1>1, <1>2 DEF Steady, Origins
<1>4. program.fxf => Bottom(source) = 0
  <2>1. program.fxf => Flat(source)
    BY <1>1 DEF Origins, Flat
  <2> QED BY <2>1 DEF Bottom
<1>5. ~program.fxf => Bottom(source) = KernelBase
  <2>1. ~program.fxf => ~Flat(source)
    BY <1>1 DEF Origins, Flat
  <2> QED BY <1>1, <2>1 DEF Bottom
<1> QED BY <1>3, <1>4, <1>5

(* What the walk says of a label is what its references hold. *)
LEMMA LabelsAgree ==
  ASSUME source \in Seq(Statements), code \in Seq(Nat), NEW off,
         Laid(source, off, Len(source) + 1, code, targets, labels, relocs), Names = {},
         Bottom(source) \in Nat, base \in Nat, Zero \in Nat, Zero + Bottom(source) = base,
         base + Len(code) < Mod("word"),
         program.fxf => Movable(AllRefs(source, off, Len(source) + 1), labels) /\ Zero = base, ~program.fxf => Zero = 0,
         NEW at, \A i \in 1 .. Len(source) + 1 : at[i] = base + off[i],
         NEW i \in DOMAIN source, NEW q \in RefsOf(source[i], Bottom(source) + off[i], off[i])
  PROVE  ValueOf(q.name, q.place.instruction, q.place.relative, labels, program.fxf, base)
           = Named(at, at[i], q.name, q.place.relative)
<1> DEFINE P == AllRefs(source, off, Len(source) + 1)
           v == ValueOf(q.name, q.place.instruction, q.place.relative, labels, program.fxf, base)
           m == q.name
           a == labels[m].at
           w == Mod("word")
<1>1. i \in 1 .. (Len(source) + 1) - 1 /\ i \in 1 .. Len(source) + 1
  OBVIOUS
<1>2. q \in P
  BY <1>1 DEF AllRefs
<1>3. /\ Values(source, off, Len(source) + 1, labels) /\ Offsets(source, off, Len(source) + 1, code)
      /\ Resolved(P, targets, labels, code)
  BY DEF Laid
<1>4. m \in DOMAIN labels
  BY <1>2, <1>3 DEF Resolved, Names
<1>5. /\ labels[m].const => Meaning(at, m) = a
      /\ ~labels[m].const => Meaning(at, m) = Zero + a
      /\ a \in Word /\ Meaning(at, m) \in Word
  BY <1>3, <1>4, LabelValue
<1>6. q.place.instruction = Bottom(source) + off[i]
  BY RefAt
<1>7. off[i] \in Nat /\ at[i] = base + off[i]
  BY <1>1, <1>3 DEF Offsets
<1>8. q.place.instruction \in Nat
  <2> DEFINE x == off[i]
             b == Bottom(source)
  <2>1. x \in Nat /\ b \in Nat
    BY <1>7
  <2> HIDE DEF x, b
  <2>2. b + x \in Nat
    BY <2>1
  <2> QED BY <1>6, <2>2 DEF b, x
<1>9. ValueFacts(q, labels, program.fxf, base)
  BY <1>5, <1>8, ValueIs
<1> HIDE DEF P, v
<1>10. CASE program.fxf /\ ~labels[m].const
  <2>1. ~q.place.relative /\ Zero = base
    BY <1>2, <1>10 DEF Movable, P
  <2>2. v = Wrap(a + base)
    BY <1>9, <1>10, <2>1 DEF ValueFacts, v
  <2>3. Wrap(a + base) = Zero + a
    <3> DEFINE u == Meaning(at, m)
    <3>1. u \in 0 .. w - 1 /\ u = base + a /\ a \in Nat /\ base \in Nat /\ w \in Nat \ {0}
      BY <1>5, <1>10, <2>1, ModValues, WordFacts DEF Word
    <3> HIDE DEF u, a, w
    <3>2. a + base \in 0 .. w - 1 /\ a + base = base + a
      BY <3>1
    <3>3. (a + base) % w = a + base
      BY <3>1, <3>2, Whole
    <3> QED BY <2>1, <3>2, <3>3 DEF Wrap, w
  <2>4. Named(at, at[i], m, q.place.relative) = Meaning(at, m)
    BY <2>1 DEF Named
  <2> QED BY <1>5, <1>10, <2>2, <2>3, <2>4 DEF v
<1>11. CASE ~(program.fxf /\ ~labels[m].const)
  <2>1. v = Distance(q.place, a)
    BY <1>9, <1>11 DEF ValueFacts, v
  <2>2. Meaning(at, m) = a
    <3>1. CASE labels[m].const
      BY <1>5, <3>1
    <3>2. CASE ~labels[m].const
      <4>1. Zero = 0 /\ a \in Nat
        BY <1>5, <1>11, <3>2, WordFacts
      <4> HIDE DEF a
      <4>2. Zero + a = a
        BY <4>1
      <4> QED BY <1>5, <3>2, <4>2 DEF a
    <3> QED BY <3>1, <3>2
  <2>3. CASE q.place.relative
    <3>1. ~program.fxf
      BY <1>2, <2>3 DEF Movable, P
    <3>2. Bottom(source) = base
      <4>1. Zero = 0
        BY <3>1
      <4>2. Zero + Bottom(source) = base /\ Bottom(source) \in Nat
        OBVIOUS
      <4> QED BY <4>1, <4>2
    <3>3. at[i] = q.place.instruction
      BY <1>6, <1>7, <3>2
    <3> QED BY <2>1, <2>2, <2>3, <3>3 DEF Named, Distance, v
  <2>4. CASE ~q.place.relative
    BY <2>1, <2>2, <2>4 DEF Named, Distance, v
  <2> QED BY <2>3, <2>4
<1> QED BY <1>10, <1>11 DEF v

(* A program for its format that is in memory and relocated is fetched as  *)
(* it was written.                                                         *)
LEMMA FetchesRelocated ==
  ASSUME AsmInv, LaidInv, stage = "done", ForItsFormat, base \in Nat, base + Len(code) <= RamSize,
         NEW d, Relocated(memory, base, code, relocs, d),
         program.fxf => d = Len(relocs), ~program.fxf => d = 0 /\ base = KernelBase
  PROVE  LET at == Place IN \A i \in DOMAIN source : Lands(at, i)
<1> DEFINE n == Len(source) + 1
<1>1. /\ Steady(source) /\ (program.fxf => Bottom(source) = 0) /\ (~program.fxf => Bottom(source) = KernelBase)
  BY FormatSteady
<1>2. source \in Seq(Statements) /\ code \in Seq(Nat) /\ relocs \in Seq(Nat) /\ Names = {} /\ line = n /\ KernelBase \in Nat
  BY LoaderAssumption DEF AsmInv, AsmTypeOK
<1>3. PICK off : Laid(source, off, n, code, targets, labels, relocs)
  BY <1>1, <1>2 DEF LaidInv
<1>4. /\ Bottom(source) \in Nat /\ Zero \in Nat /\ Zero + Bottom(source) = base
      /\ (program.fxf => Zero = base) /\ (~program.fxf => Zero = 0)
  BY <1>1, <1>2 DEF Zero
<1>5. base + Len(code) < Mod("word")
  <2>1. Len(code) \in Nat /\ Mod("word") \in Nat
    BY <1>2, ModValues
  <2> QED BY <2>1, MachineAssumption
<1>6. /\ Values(source, off, n, labels) /\ Offsets(source, off, n, code)
      /\ Resolved(AllRefs(source, off, n), targets, labels, code)
  BY <1>3 DEF Laid
<1>7. ASSUME NEW m \in DOMAIN labels
      PROVE  /\ labels[m].const <=> IsConst(m)
             /\ labels[m].at \in Word
  <2> DEFINE at == [i \in 1 .. n |-> base + off[i]]
  <2>1. \A i \in 1 .. n : at[i] = base + off[i]
    OBVIOUS
  <2> HIDE DEF at
  <2> QED BY <1>2, <1>4, <1>5, <1>6, <2>1, LabelValue
<1>8. program.fxf => Movable(AllRefs(source, off, n), labels)
  <2>1. \A q \in AllRefs(source, off, n) : q.name \in DOMAIN labels
    BY <1>2, <1>6 DEF Resolved, Names
  <2> QED BY <1>2, <1>7, <2>1, FormatMovable
<1>9. InMemory(memory, base, source, off, n, labels, program.fxf)
  <2>1. n = Len(source) + 1
    OBVIOUS
  <2>2. ~program.fxf => 1 .. d = {}
    OBVIOUS
  <2>3. program.fxf => 1 .. d = DOMAIN relocs
    BY <1>2
  <2> HIDE DEF n
  <2> QED BY <1>1, <1>2, <1>3, <1>4, <1>7, <1>8, <2>1, <2>2, <2>3, ImageInMemory
<1> DEFINE at == Place
<1>10. \A i \in 1 .. n : at[i] = base + off[i]
  BY <1>1, <1>2, <1>4, <1>6, <1>9, PlaceIs
<1> HIDE DEF at
<1>11. ASSUME NEW i \in DOMAIN source, NEW q \in RefsOf(source[i], Bottom(source) + off[i], off[i])
       PROVE  ValueOf(q.name, q.place.instruction, q.place.relative, labels, program.fxf, base)
                = Named(at, at[i], q.name, q.place.relative)
  BY <1>2, <1>3, <1>4, <1>5, <1>8, <1>10, <1>11, LabelsAgree
<1>12. Settled(at, off, base, code, labels, program.fxf)
  BY <1>2, <1>6, <1>9, <1>10, <1>11 DEF Settled
<1>13. \A i \in DOMAIN source : Lands(at, i)
  BY <1>12, AllLand
<1> QED BY <1>13 DEF at
-----------------------------------------------------------------------------
(* The file gets into memory and is relocated there.                       *)

(* A raw disk with a program that runs from its origin. *)
BootsRaw(d, prog) == d.format = "raw" /\ ~prog.fxf /\ DiskSize(d) = Len(d.cells)

(* Sector n of a raw disk is read next, the ones before it are in memory.  *)
SectorsRead(mem, text, n, to, l) ==
  /\ n \in Nat /\ l \in Nat \ {0} /\ to = KernelBase + n * SectorSize
  /\ n + l = Len(text) \div SectorSize + 1
  /\ At(mem, KernelBase, text, n * SectorSize)

(* What is on the disk is what the assembler wrote.                        *)
FileMade ==
  /\ stage = "done" /\ ~program.fxf => file = code
  /\ disk.format = "raw" => disk.cells = file
  /\ pc = "relocate" => disk.format = "ryfs"

(* A raw disk is read sector by sector to where it runs.                   *)
RawArrives ==
  BootsRaw(disk, program) =>
    /\ pc = "raw" => SectorsRead(memory, code, sector, dest, left)
    /\ pc = "running" => base = KernelBase /\ At(memory, KernelBase, code, Len(code))

(* An FXF file is relocated entry by entry.                                *)
FxfRelocated ==
  Boots(disk, program, source) =>
    /\ pc = "relocate" => Relocated(memory, base, code, relocs, Len(relocs) - left)
    /\ pc = "running" => /\ base = StartupBase + HeaderSize /\ base + Len(code) <= RamSize
                         /\ Relocated(memory, base, code, relocs, Len(relocs))

(* The inductive invariant of the program in memory. *)
ImageInv == FileMade /\ RawArrives /\ FxfRelocated

LEMMA InitImage == Init => ImageInv
<1> SUFFICES ASSUME Init PROVE ImageInv
  OBVIOUS
<1>1. disk = NoDisk /\ pc = "off" /\ NoDisk.format = "none"
  BY DEF Init, LoaderInit, NoDisk
<1>2. stage # "done"
  BY DEF Init, AssemblerInit
<1> QED BY <1>1, <1>2 DEF ImageInv, FileMade, RawArrives, FxfRelocated

LEMMA AssembleImage == BootInv /\ ImageInv /\ Assemble => ImageInv'
<1> SUFFICES ASSUME BootInv, ImageInv, Assemble PROVE ImageInv'
  OBVIOUS
<1>1. UNCHANGED <<disk, pc>>
  BY DEF Assemble, lvars
<1>2. stage # "done"
  BY DEF Assemble, AssemblerNext, Include, Included, LabelDefine, Constant, Origin, Data, Blob, Fill, Instruction,
         Panic, Assembled, Backpatch, Write, Reading
<1>3. pc = "off" /\ disk = NoDisk /\ NoDisk.format = "none"
  BY <1>2 DEF BootInv, Started, NoDisk
<1>4. stage' = "done" /\ ~program'.fxf => file' = code'
  <2>1. CASE Write
    BY <2>1 DEF Write, input, output
  <2>2. CASE ~Write
    <3>1. stage' # "done"
      <4>1. CASE Include \/ Included
        BY <1>2, <4>1 DEF Include, Included
      <4>2. CASE LabelDefine \/ Constant \/ Origin \/ Data \/ Blob \/ Fill \/ Instruction
        <5>1. stage' = stage
          BY <4>2 DEF LabelDefine, Constant, Origin, Data, Blob, Fill, Instruction, Define, Emit, Advance
        <5> QED BY <1>2, <5>1
      <4>3. CASE Panic \/ Assembled \/ \E n \in Names : Backpatch(n)
        BY <1>2, <4>3 DEF Panic, Assembled, Backpatch
      <4> QED BY <2>2, <4>1, <4>2, <4>3 DEF Assemble, AssemblerNext
    <3> QED BY <3>1
  <2> QED BY <2>1, <2>2
<1> QED BY <1>1, <1>3, <1>4 DEF ImageInv, FileMade, RawArrives, FxfRelocated

(* Before the program is in memory nothing else is to be shown.            *)
LEMMA ImageWaits ==
  ASSUME BootInv, ImageInv, UNCHANGED avars, disk'.format = "raw" => disk'.cells = file,
         pc' \notin {"raw", "relocate", "running"}
  PROVE  ImageInv'
<1>1. UNCHANGED <<stage, program, file, code>>
  BY DEF avars, input, output
<1> QED BY <1>1 DEF ImageInv, FileMade, RawArrives, FxfRelocated

LEMMA RawDisk ==
  ASSUME ImageInv, NEW d \in {NoDisk, disk} \cup Disks, d.format = "raw"
  PROVE  d.cells = file
<1>1. CASE d = NoDisk
  BY <1>1 DEF NoDisk
<1>2. CASE d = disk
  BY <1>2 DEF ImageInv, FileMade
<1>3. CASE d \in Disks
  <2>1. PICK e : d = Disk(e)
    BY <1>3 DEF Disks
  <2>2. e.format = "raw"
    <3>1. CASE e.format = "ryfs"
      BY <2>1, <3>1 DEF Disk
    <3>2. CASE e.format # "raw" /\ e.format # "ryfs"
      BY <2>1, <3>2 DEF Disk
    <3> QED BY <3>1, <3>2
  <2> QED BY <2>1, <2>2 DEF Disk
<1> QED BY <1>1, <1>2, <1>3

LEMMA StartImage == BootInv /\ ImageInv /\ Start => ImageInv'
<1> SUFFICES ASSUME BootInv, ImageInv, Start PROVE ImageInv'
  OBVIOUS
<1>1. PICK d \in {NoDisk} \cup Disks : PowerOn(d)
  BY DEF Start
<1>2. disk' = d /\ pc' = "desktop" /\ UNCHANGED avars
  BY <1>1 DEF PowerOn, Start
<1> QED BY <1>1, <1>2, RawDisk, ImageWaits

(* How much of a raw disk is left when its first sector is to be read.     *)
LEMMA SectorsAhead ==
  ASSUME NEW mem, NEW text \in Seq(Nat)
  PROVE  SectorsRead(mem, text, 0, KernelBase, Len(text) \div SectorSize + 1)
<1> DEFINE n == Len(text)
<1>1. SectorSize \in Nat \ {0} /\ KernelBase \in Nat /\ n \in Nat
  BY LoaderAssumption
<1> HIDE DEF n
<1>2. n \div SectorSize \in Int /\ n \div SectorSize >= 0
  <2>1. n \div SectorSize \in Int /\ n = SectorSize * (n \div SectorSize) + (n % SectorSize) /\ n % SectorSize \in 0 .. SectorSize - 1
    BY <1>1, Divides
  <2> DEFINE q == n \div SectorSize
  <2> HIDE DEF q
  <2>2. ASSUME q < 0 PROVE FALSE
    <3>1. SectorSize * q <= -SectorSize
      <4>1. q <= -1 /\ q \in Int
        BY <2>1, <2>2 DEF q
      <4> QED BY <1>1, <4>1
    <3> QED BY <1>1, <2>1, <3>1 DEF q
  <2> QED BY <2>1, <2>2 DEF q
<1>3. 0 * SectorSize = 0 /\ KernelBase + 0 * SectorSize = KernelBase
  BY <1>1
<1>4. n \div SectorSize + 1 \in Nat \ {0} /\ 0 + (n \div SectorSize + 1) = n \div SectorSize + 1
  BY <1>2
<1>5. At(mem, KernelBase, text, 0 * SectorSize)
  BY <1>3 DEF At
<1> QED BY <1>3, <1>4, <1>5 DEF SectorsRead, n

LEMMA InsertImage == AsmInv /\ BootInv /\ ImageInv /\ Insert => ImageInv'
<1> SUFFICES ASSUME AsmInv, BootInv, ImageInv, Insert PROVE ImageInv'
  OBVIOUS
<1>1. PICK d \in {disk} \cup Disks : Turn(d)
  BY DEF Insert
<1>2. pc = "desktop" /\ disk' = d /\ UNCHANGED avars /\ stage = "done"
  BY <1>1 DEF Turn, BootRaw, BootFat, BootRyfs, BootMistaken, NoBoot, Insert, BootInv, Started
<1>3. d.format = "raw" => d.cells = file
  BY RawDisk
<1>4. CASE BootRaw(d)
  <2>1. /\ pc' = "raw" /\ sector' = 0 /\ dest' = KernelBase /\ d.format = "raw"
        /\ left' = DiskSize(d) \div SectorSize + 1
    BY <1>4, LooksRaw DEF BootRaw
  <2>2. UNCHANGED <<stage, program, file, code, source>>
    BY <1>2 DEF avars, input, output
  <2>3. ASSUME BootsRaw(d, program) PROVE SectorsRead(memory', code, 0, KernelBase, left')
    <3>1. file = code /\ d.cells = code /\ DiskSize(d) = Len(d.cells)
      BY <1>2, <1>3, <2>1, <2>3 DEF BootsRaw, ImageInv, FileMade
    <3>2. code \in Seq(Nat)
      BY DEF AsmInv, AsmTypeOK
    <3>3. left' = Len(code) \div SectorSize + 1
      BY <2>1, <3>1
    <3> QED BY <3>2, <3>3, SectorsAhead
  <2>4. ~Boots(d, program, source)
    BY <2>1 DEF Boots
  <2> QED BY <1>2, <1>3, <2>1, <2>2, <2>3, <2>4 DEF ImageInv, FileMade, RawArrives, FxfRelocated
<1>5. CASE BootRyfs(d) \/ BootFat(d) \/ BootMistaken(d) \/ NoBoot(d)
  <2>1. pc' \in {"system", "fat", "astray", "desktop"}
    BY <1>2, <1>5 DEF BootRyfs, BootFat, BootMistaken, NoBoot
  <2> QED BY <1>2, <1>3, <2>1, ImageWaits
<1> QED BY <1>1, <1>4, <1>5 DEF Turn

(* One sector of a raw disk more. *)
LEMMA SectorRead ==
  ASSUME NEW mem, NEW d, d.cells \in Seq(Nat), NEW n, NEW to, NEW l,
         SectorsRead(mem, d.cells, n, to, l), Len(d.cells) < Mod("word"), Fits(to, SectorSize),
         NEW after, after = Written(mem, to, RawSector(d, n))
  PROVE  /\ Wrap(l - 1) # 0 => SectorsRead(after, d.cells, n + 1, to + SectorSize, Wrap(l - 1))
         /\ Wrap(l - 1) = 0 => At(after, KernelBase, d.cells, Len(d.cells))
<1> DEFINE text == d.cells
           len == Len(text)
           p == SectorSize
           b == n * p
           q == len \div p
           cells == RawSector(d, n)
<1>1. /\ text \in Seq(Nat) /\ len \in Nat /\ p \in Nat \ {0} /\ KernelBase \in Nat /\ n \in Nat /\ l \in Nat \ {0}
      /\ to = KernelBase + b /\ n + l = q + 1 /\ At(mem, KernelBase, text, b) /\ b \in Nat
      /\ RamSize \in Nat /\ to + p <= RamSize
  <2>1. n \in Nat /\ p \in Nat \ {0} /\ KernelBase \in Nat /\ RamSize \in Nat
    BY LoaderAssumption, MachineAssumption DEF SectorsRead
  <2>2. n * p \in Nat
    <3> HIDE DEF p
    <3> QED BY <2>1
  <2>3. text \in Seq(Nat) /\ len \in Nat
    OBVIOUS
  <2>4. l \in Nat \ {0} /\ to = KernelBase + b /\ n + l = q + 1 /\ At(mem, KernelBase, text, b)
    BY DEF SectorsRead
  <2>5. to + p <= RamSize
    BY DEF Fits
  <2> QED BY <2>1, <2>2, <2>3, <2>4, <2>5
<1>2. cells = Pad(SubSeq(text, b + 1, Len(text)), p)
  BY DEF RawSector
<1>3. len < Mod("word") /\ len = Len(text)
  OBVIOUS
<1>4. after = Written(mem, KernelBase + b, cells)
  BY <1>1
<1> HIDE DEF text, p, cells, b
<1> HIDE DEF len
<1>5. q \in Int /\ len = p * q + (len % p) /\ len % p \in 0 .. p - 1
  <2>1. len \in Int /\ p \in Nat \ {0}
    BY <1>1
  <2> QED BY <2>1, Divides
<1> HIDE DEF q
<1>6. q <= len /\ len < p * (q + 1)
  <2> DEFINE r == len % p
  <2>1. r \in 0 .. p - 1 /\ len = p * q + r /\ q \in Int
    BY <1>5
  <2> HIDE DEF r
  <2>2. p * (q + 1) = p * q + p
    BY <1>1, <2>1
  <2>3. q >= 0
    <3>1. ASSUME q < 0 PROVE FALSE
      <4>1. q <= -1
        BY <2>1, <3>1
      <4>2. p * q <= p * (-1)
        BY <1>1, <2>1, <4>1
      <4> QED BY <1>1, <2>1, <4>2
    <3> QED BY <2>1, <3>1
  <2>4. p * q >= q
    BY <1>1, <2>1, <2>3
  <2>5. p * q \in Int
    BY <1>1, <2>1
  <2> DEFINE m == p * q
  <2>6. m \in Int /\ len = m + r /\ p * (q + 1) = m + p /\ m >= q
    BY <2>1, <2>2, <2>4, <2>5
  <2> HIDE DEF m
  <2>7. q <= len /\ len < m + p
    BY <1>1, <2>1, <2>6
  <2> QED BY <2>6, <2>7
<1>7. At(after, KernelBase, text, b + p)
  <2>1. Len(cells) = p
    BY <1>1, <1>2, PadLength
  <2>2. \A k \in 1 .. p : b + k <= Len(text) => cells[k] = text[b + k]
    BY <1>1, <1>2, CellsAfter
  <2>3. KernelBase + b + p <= RamSize
    BY <1>1
  <2>4. b \in Nat /\ p \in Nat /\ KernelBase \in Nat /\ text \in Seq(Nat) /\ At(mem, KernelBase, text, b)
    BY <1>1
  <2>5. At(Written(mem, KernelBase + b, cells), KernelBase, text, b + p)
    BY <2>1, <2>2, <2>3, <2>4, CellArrives
  <2> QED BY <1>4, <2>5
<1>8. (n + 1) * p = b + p
  BY <1>1 DEF b
<1>9. l - 1 \in Nat /\ l - 1 <= q
  BY <1>1, <1>5
<1>10. Wrap(l - 1) = l - 1
  <2> DEFINE x == l - 1
             w == Mod("word")
  <2>1. x \in Nat /\ x <= len /\ w \in Nat \ {0} /\ len < w
    <3>1. w \in Nat \ {0} /\ len < w
      BY <1>3, ModValues
    <3>2. x \in Nat /\ x <= q
      BY <1>9
    <3> HIDE DEF x, w
    <3> QED BY <1>1, <1>5, <1>6, <3>1, <3>2
  <2> HIDE DEF x, w
  <2>2. x \in 0 .. w - 1
    BY <1>1, <2>1
  <2>3. x % w = x
    BY <2>1, <2>2, Whole
  <2> QED BY <2>3 DEF Wrap, x, w
<1>11. CASE l # 1
  <2>1. l - 1 \in Nat \ {0} /\ (n + 1) + (l - 1) = q + 1 /\ n + 1 \in Nat
    BY <1>1, <1>5, <1>11
  <2>2. to + p = KernelBase + (n + 1) * p
    <3>1. to + p = KernelBase + (b + p)
      BY <1>1
    <3> QED BY <1>8, <3>1
  <2>3. At(after, KernelBase, text, (n + 1) * p)
    BY <1>7, <1>8
  <2>4. SectorsRead(after, text, n + 1, to + p, l - 1)
    BY <2>1, <2>2, <2>3 DEF SectorsRead, q, p, len
  <2> QED BY <1>10, <2>1, <2>4 DEF text, p
<1>12. CASE l = 1
  <2>1. n = q
    BY <1>1, <1>5, <1>12
  <2>2. len < b + p
    <3>1. p * (q + 1) = (n + 1) * p
      BY <1>1, <1>5, <2>1
    <3> QED BY <1>6, <1>8, <3>1
  <2>3. \A k \in DOMAIN text : k <= b + p
    <3> TAKE k \in DOMAIN text
    <3>1. k \in Nat /\ k <= len
      BY <1>1 DEF len
    <3> QED BY <1>1, <2>2, <3>1
  <2>4. At(after, KernelBase, text, Len(text))
    BY <1>7, <2>3 DEF At
  <2> QED BY <1>10, <1>12, <2>4 DEF text
<1> QED BY <1>11, <1>12

LEMMA RawSectorReadImage ==
  ASSUME AsmInv, BootInv, ImageInv, UNCHANGED avars, RawSectorRead
  PROVE  ImageInv'
<1>1. /\ UNCHANGED <<disk, stage, program, source, file, code>> /\ pc = "raw" /\ stage = "done" /\ disk.format = "raw"
  BY DEF RawSectorRead, avars, input, output, BootInv, Started
<1>2. ~Boots(disk, program, source)
  BY <1>1 DEF Boots
<1>3. FileMade' /\ FxfRelocated'
  <2>1. pc' \in {"raw", "running", "dead"}
    BY DEF RawSectorRead
  <2> QED BY <1>1, <1>2, <2>1 DEF ImageInv, FileMade, FxfRelocated
<1>4. CASE ~Fits(dest, SectorSize)
  <2>1. pc' = "dead"
    BY <1>4 DEF RawSectorRead
  <2> QED BY <1>3, <2>1 DEF ImageInv, RawArrives
<1>5. CASE Fits(dest, SectorSize)
  <2>1. /\ memory' = Written(memory, dest, RawSector(disk, sector)) /\ sector' = sector + 1
        /\ dest' = dest + SectorSize /\ left' = Wrap(left - 1) /\ base' = KernelBase
        /\ pc' = IF left' = 0 THEN "running" ELSE "raw"
    BY <1>5 DEF RawSectorRead
  <2>2. ASSUME BootsRaw(disk, program)
        PROVE  /\ left' # 0 => SectorsRead(memory', code, sector', dest', left')
               /\ left' = 0 => At(memory', KernelBase, code, Len(code))
    <3>1. disk.cells = code /\ SectorsRead(memory, disk.cells, sector, dest, left)
      BY <1>1, <2>2 DEF BootsRaw, ImageInv, FileMade, RawArrives
    <3>2. disk.cells \in Seq(Nat)
      BY <3>1 DEF AsmInv, AsmTypeOK
    <3>3. Len(disk.cells) < Mod("word")
      <4> DEFINE n == Len(disk.cells)
                 w == Mod("word")
      <4>1. n \in Nat /\ w \in Nat \ {0} /\ n = n % w
        BY <2>2, <3>2, ModValues DEF BootsRaw, DiskSize, Wrap
      <4> HIDE DEF n, w
      <4>2. n % w \in 0 .. w - 1
        BY <4>1, Divides
      <4>3. n < w
        BY <4>1, <4>2
      <4> QED BY <4>3 DEF n, w
    <3>4. /\ Wrap(left - 1) # 0 => SectorsRead(memory', disk.cells, sector + 1, dest + SectorSize, Wrap(left - 1))
          /\ Wrap(left - 1) = 0 => At(memory', KernelBase, disk.cells, Len(disk.cells))
      BY <1>5, <2>1, <3>1, <3>2, <3>3, SectorRead
    <3> QED BY <2>1, <3>1, <3>4
  <2>3. pc' \in {"raw", "running"} /\ (pc' = "raw" => left' # 0) /\ (pc' = "running" => left' = 0)
    BY <2>1
  <2> QED BY <1>1, <1>3, <2>1, <2>2, <2>3 DEF ImageInv, RawArrives
<1> QED BY <1>4, <1>5
-----------------------------------------------------------------------------
(* The relocation moves each of its words once.                            *)

(* The words that a relocation patches do not overlap. *)
Separate(table) ==
  \A j, k \in DOMAIN table : j = k \/ table[j] + 4 <= table[k] \/ table[k] + 4 <= table[j]

(* A reference that is relocated is a word. *)
LEMMA MovedIsWord ==
  ASSUME source \in Seq(Statements), ForFxf(source), NEW i \in DOMAIN source, NEW a, NEW c,
         NEW q \in RefsOf(source[i], a, c), ~ConstIn(source, q.name)
  PROVE  q.place.size = "word"
<1> DEFINE l == source[i]
<1>1. WordLabels(source) /\ l \in Statements
  BY DEF ForFxf
<1>2. CASE l.kind = "op"
  <2>1. PICK o \in {l.src, l.dst} : \E index : q \in RefOf(o, l.size, a, c, index, l.op \in Relatives)
    BY <1>2 DEF RefsOf
  <2>2. IsLabel(o) /\ q.name = o.v /\ q.place.size = Field(o, l.size)
    BY <2>1, RefIs
  <2>3. o \in LabelsOf(l)
    BY <1>2, <2>1, <2>2 DEF LabelsOf
  <2> QED BY <1>1, <1>2, <2>2, <2>3 DEF WordLabels
<1>3. CASE l.kind = "data"
  <2>1. q \in RefOf(l.operand, "word", a, c, 0, FALSE)
    BY <1>3 DEF RefsOf
  <2>2. q.place.size = Field(l.operand, "word")
    BY <2>1 DEF RefOf
  <2> QED BY <2>2 DEF Field
<1>4. l.kind \in {"op", "data"}
  BY DEF RefsOf
<1> QED BY <1>2, <1>3, <1>4

LEMMA EntriesSeparate ==
  ASSUME AsmInv, LaidInv, stage = "done", ForFxf(source)
  PROVE  Separate(relocs)
<1>1. source \in Seq(Statements) /\ line = Len(source) + 1 /\ Names = {} /\ Flat(source) /\ Len(source) \in Nat
  BY DEF AsmInv, AsmTypeOK, ForFxf
<1>2. Steady(source) /\ Bottom(source) = 0
  BY <1>1 DEF Steady, Bottom, Flat, ForFxf, WordLabels
<1>3. PICK off : Laid(source, off, line, code, targets, labels, relocs)
  BY <1>2 DEF LaidInv
<1> DEFINE P == AllRefs(source, off, line)
<1>4. RefsApart(P, 0, Len(code)) /\ Listed(P, 0, targets, labels, relocs) /\ Resolved(P, targets, labels, code)
  BY <1>2, <1>3 DEF Laid
<1>5. ASSUME NEW q \in P, Moved(q, targets, labels) PROVE q.place.size = "word" /\ q.place.cell \in Nat
  <2>1. q.name \in DOMAIN labels /\ ~labels[q.name].const
    BY <1>4, <1>5 DEF Moved, Resolved
  <2>2. DefinedBefore(source, q.name, Len(source) + 1, labels[q.name].const)
    BY <1>1, <2>1 DEF AsmInv
  <2>3. ~ConstIn(source, q.name)
    BY <1>1, <2>1, <2>2, ConstLabel
  <2>4. PICK i \in 1 .. line - 1 : q \in RefsOf(source[i], Bottom(source) + off[i], off[i])
    BY DEF AllRefs
  <2>5. i \in DOMAIN source
    BY <1>1
  <2>6. q.place.size = "word"
    BY <1>1, <2>3, <2>4, <2>5, MovedIsWord
  <2> QED BY <1>4, <2>6 DEF RefsApart, Places
<1> HIDE DEF P
<1>6. SUFFICES ASSUME NEW j \in DOMAIN relocs, NEW k \in DOMAIN relocs, j # k
               PROVE  relocs[j] + 4 <= relocs[k] \/ relocs[k] + 4 <= relocs[j]
  BY DEF Separate
<1>7. PICK q \in P : Moved(q, targets, labels) /\ relocs[j] = 0 + q.place.cell
  BY <1>4 DEF Listed
<1>8. PICK r \in P : Moved(r, targets, labels) /\ relocs[k] = 0 + r.place.cell
  BY <1>4 DEF Listed
<1>9. relocs[j] # relocs[k]
  BY <1>4, <1>6 DEF Listed
<1>10. q # r
  BY <1>7, <1>8, <1>9
<1>11. Ordered(q, r) \/ Ordered(r, q)
  BY <1>4, <1>10 DEF RefsApart
<1>12. /\ q.place.size = "word" /\ r.place.size = "word" /\ q.place.cell \in Nat /\ r.place.cell \in Nat
  BY <1>5, <1>7, <1>8
<1>13. Bytes("word") = 4
  BY DEF Bytes
<1>14. relocs[j] = q.place.cell /\ relocs[k] = r.place.cell
  BY <1>7, <1>8, <1>12
<1> QED BY <1>11, <1>12, <1>13, <1>14 DEF Ordered

(* One word is relocated. *)
LEMMA RelocateImage ==
  ASSUME NEW mem, NEW text \in Seq(Nat), NEW table \in Seq(Nat), NEW b, NEW e, NEW l,
         Relocating(mem, Len(text), table, b, e, l), Separate(table),
         \A k \in DOMAIN table : table[k] + 4 <= Len(text),
         Relocated(mem, b, text, table, Len(table) - l),
         NEW word, word = Wrap(b + Load(mem, e, "word"))
  PROVE  Relocated(Store(mem, word, "word", Wrap(Load(mem, word, "word") + b)), b, text, table, (Len(table) - l) + 1)
<1> DEFINE n == Len(table)
           d == n - l
           k == d + 1
           len == Len(text)
           T == TableAt(len)
           after == Store(mem, word, "word", Wrap(Load(mem, word, "word") + b))
<1>1. /\ StartupBase \in Nat /\ RamSize \in Nat /\ n \in Nat /\ b = StartupBase + 36 /\ b \in Nat /\ len \in Nat
      /\ T = b + len /\ T \in Nat /\ l \in 1 .. n /\ e = T + 4 * (n - l) /\ T + 4 * n <= RamSize
      /\ DOMAIN table = 1 .. n
  BY LaunchFacts DEF Relocating, TableAt
<1>2. \A j \in 1 .. n : Load(mem, T + 4 * (j - 1), "word") = table[j]
  BY <1>1 DEF Relocating
<1>3. \A j \in 1 .. n : table[j] \in Nat /\ table[j] + 4 <= len
  <2> TAKE j \in 1 .. n
  <2>1. j \in DOMAIN table
    BY <1>1
  <2> QED BY <2>1
<1>4. \A i, j \in 1 .. n : i = j \/ table[i] + 4 <= table[j] \/ table[j] + 4 <= table[i]
  BY <1>1 DEF Separate
<1>5. Relocated(mem, b, text, table, d)
  OBVIOUS
<1> HIDE DEF T, n, len
<1>6. k \in 1 .. n /\ e = T + 4 * (k - 1) /\ d \in Nat /\ d <= n /\ k = d + 1 /\ d \in 0 .. n
  BY <1>1
<1> HIDE DEF k, d
<1> DEFINE r == table[k]
<1>7. r \in Nat /\ r + 4 <= len /\ Load(mem, e, "word") = r
  BY <1>2, <1>3, <1>6
<1> HIDE DEF r
<1>8. word = b + r
  <2> DEFINE x == b + r
  <2>1. x \in Nat /\ x <= RamSize /\ word = Wrap(x)
    BY <1>1, <1>7
  <2> HIDE DEF x
  <2>2. Wrap(x) = x
    BY <2>1, RamIsWord
  <2> QED BY <2>1, <2>2 DEF x
<1> HIDE DEF r
<1>9. k = d + 1 /\ d \in Nat /\ n \in Nat /\ d + 1 <= n
  BY <1>1, <1>6
<1>10. /\ b \in Nat /\ len \in Nat /\ r \in Nat /\ r + 4 <= len /\ word = b + r /\ RamSize \in Nat
       /\ b + len <= RamSize /\ word \in Nat
  <2>1. T <= RamSize
    BY <1>1
  <2>2. b + len <= RamSize
    BY <1>1, <2>1
  <2>3. b + r \in Nat
    BY <1>1, <1>7
  <2>4. word \in Nat
    BY <1>8, <2>3
  <2> QED BY <1>1, <1>7, <1>8, <2>2, <2>4
<1>11. ASSUME NEW c \in 1 .. len, c \notin r + 1 .. r + 4 PROVE after[b + c - 1] = mem[b + c - 1]
  <2> DEFINE y == b + c - 1
  <2>1. y \in Nat /\ y < RamSize /\ y \notin word .. word + 3
    BY <1>1, <1>7, <1>8, <1>11
  <2> HIDE DEF y
  <2>2. y \in Ram
    BY <1>1, <2>1 DEF Ram
  <2> QED BY <2>1, <2>2 DEF Store, Bytes, y
<1>12. ASSUME NEW v \in Word, FieldAt(text, r, v)
       PROVE  \A j \in 1 .. 4 : after[b + r + j - 1] = Cells(4, Wrap(v + b))[j]
  <2>1. ASSUME NEW j \in 1 .. Bytes("word") PROVE mem[word + j - 1] = Cells(4, v)[j]
    <3>1. j \in 1 .. 4
      BY DEF Bytes
    <3> DEFINE c == r + j
    <3>2. c \in 1 .. len /\ b + c - 1 = word + j - 1 /\ c \in r + 1 .. r + 4
      <4>1. c \in Nat /\ 1 <= c /\ c <= len /\ r + 1 <= c /\ c <= r + 4
        BY <1>10, <3>1
      <4>2. b + c - 1 = word + j - 1
        BY <1>10, <3>1
      <4> HIDE DEF c
      <4> QED BY <1>10, <4>1, <4>2
    <3>3. text[c] = Cells(4, v)[j]
      BY <1>12, <3>1 DEF FieldAt
    <3> HIDE DEF c
    <3>4. ASSUME NEW i \in 1 .. d PROVE c \notin table[i] + 1 .. table[i] + 4
      <4>1. i \in 1 .. n /\ i # k
        BY <1>9
      <4>2. table[i] \in Nat /\ (table[i] + 4 <= r \/ r + 4 <= table[i])
        BY <1>3, <1>4, <1>6, <4>1 DEF r
      <4> DEFINE u == table[i]
      <4> HIDE DEF u
      <4>3. c \notin u + 1 .. u + 4
        <5>1. c \in Int /\ u \in Nat /\ r \in Nat /\ c >= r + 1 /\ c <= r + 4
          BY <1>10, <3>2, <4>2 DEF u
        <5>2. u + 4 <= r \/ r + 4 <= u
          BY <4>2 DEF u
        <5> QED BY <5>1, <5>2
      <4> QED BY <4>3 DEF u
    <3>5. mem[b + c - 1] = text[c]
      BY <1>5, <3>2, <3>4 DEF Relocated, len
    <3> QED BY <3>2, <3>3, <3>5
  <2>2. Load(mem, word, "word") = Low("word", v)
    <3>1. word \in Int
      BY <1>10
    <3>2. \A j \in 1 .. Bytes("word") : mem[word + j - 1] = Cells(4, v)[j]
      BY <2>1
    <3>3. "word" \in Sizes
      BY WordSize
    <3> QED BY <3>1, <3>2, <3>3, LoadsLow
  <2>3. Low("word", v) = v
    <3> DEFINE w == Mod("word")
    <3>1. w \in Nat \ {0} /\ v \in 0 .. w - 1
      BY ModValues DEF Word
    <3> HIDE DEF w
    <3>2. v % w = v
      BY <3>1, Whole
    <3> QED BY <3>2 DEF Low, w
  <2> DEFINE z == Wrap(v + b)
  <2>4. after = Store(mem, word, "word", z)
    BY <2>2, <2>3
  <2> HIDE DEF z, after
  <2>5. ASSUME NEW j \in 1 .. 4 PROVE after[b + r + j - 1] = Cells(4, z)[j]
    <3> DEFINE y == b + r + j - 1
    <3>1. y \in Nat /\ y < RamSize /\ y \in word .. word + 3 /\ y - word = j - 1
      BY <1>10
    <3> HIDE DEF y
    <3>2. y \in Ram
      BY <1>1, <3>1 DEF Ram
    <3>3. word + Bytes("word") - 1 = word + 3
      BY <1>1, <1>7, <1>8 DEF Bytes
    <3>4. after[y] = (z \div Mod("byte") ^ (y - word)) % Mod("byte")
      BY <2>4, <3>1, <3>2, <3>3 DEF Store
    <3>5. Cells(4, z)[j] = (z \div Mod("byte") ^ (j - 1)) % Mod("byte")
      BY AtLeastCells
    <3> QED BY <3>1, <3>4, <3>5 DEF y
  <2> QED BY <2>5 DEF z
<1> HIDE DEF after
<1>13. ASSUME NEW c \in 1 .. len, \A i \in 1 .. d + 1 : c \notin table[i] + 1 .. table[i] + 4
       PROVE  after[b + c - 1] = text[c]
  <2>1. (\A i \in 1 .. d : i \in 1 .. d + 1) /\ k \in 1 .. d + 1
    BY <1>6
  <2>2. c \notin r + 1 .. r + 4
    BY <1>13, <2>1 DEF r
  <2>3. mem[b + c - 1] = text[c]
    BY <1>5, <1>13, <2>1 DEF Relocated, len
  <2> QED BY <1>11, <2>2, <2>3
<1>14. ASSUME NEW i \in 1 .. d + 1, NEW v \in Word, FieldAt(text, table[i], v), NEW j \in 1 .. 4
       PROVE  after[b + table[i] + j - 1] = Cells(4, Wrap(v + b))[j]
  <2>1. CASE i = k
    BY <1>12, <1>14, <2>1 DEF r
  <2>2. CASE i # k
    <3>1. i \in 1 .. d /\ i \in 1 .. n
      BY <1>9, <2>2
    <3>2. mem[b + table[i] + j - 1] = Cells(4, Wrap(v + b))[j]
      BY <1>5, <1>14, <3>1 DEF Relocated
    <3> DEFINE u == table[i]
               c == u + j
    <3>3. u \in Nat /\ u + 4 <= len /\ (u + 4 <= r \/ r + 4 <= u)
      BY <1>3, <1>4, <1>6, <2>2, <3>1 DEF r
    <3> HIDE DEF u
    <3>4. c \in 1 .. len /\ c \notin r + 1 .. r + 4 /\ b + c - 1 = b + u + j - 1
      BY <1>1, <1>7, <3>3
    <3> HIDE DEF c
    <3>5. after[b + c - 1] = mem[b + c - 1]
      BY <1>11, <3>4
    <3> QED BY <3>2, <3>4, <3>5 DEF u
  <2> QED BY <2>1, <2>2
<1>15. Relocated(after, b, text, table, d + 1)
  BY <1>13, <1>14 DEF Relocated, len
<1> QED BY <1>15 DEF after, d, n

LEMMA ParseHeaderImage ==
  ASSUME AsmInv, BootInv, ImageInv, UNCHANGED avars, ParseHeader
  PROVE  ImageInv'
<1>1. /\ UNCHANGED <<disk, memory, stage, program, source, file, code, relocs>> /\ pc = "parse" /\ stage = "done"
      /\ pc' = "relocate" /\ disk.format = "ryfs"
  BY DEF ParseHeader, avars, input, output, BootInv, Started, FilesArrive
<1>2. ~BootsRaw(disk, program)
  BY <1>1 DEF BootsRaw
<1>3. ASSUME Boots(disk, program, source)
      PROVE  Relocated(memory, base', code, relocs, Len(relocs) - left')
  <2>1. program.fxf /\ ForFxf(source) /\ ProgramName \in DOMAIN disk.content
    BY <1>3 DEF Boots
  <2>2. /\ file = FxfFile /\ relocs # <<>> /\ code \in Seq(Nat) /\ relocs \in Seq(Nat)
        /\ \A k \in DOMAIN relocs : relocs[k] + 4 <= Len(code)
    BY <1>1, <2>1, WrittenFile
  <2>3. name = ProgramName /\ disk.content[name] = FxfFile
    BY <1>1, <1>3, <2>1, <2>2 DEF BootInv, BootNames, SystemOnDisk
  <2>4. At(memory, StartupBase, FxfFile, Len(FxfFile))
    BY <1>1, <2>3 DEF BootInv, FilesArrive
  <2>5. /\ RelocSize \div 4 = Len(relocs)
        /\ Relocating(memory, Len(code), relocs, Wrap(StartupBase + CodePointer),
                      Wrap(StartupBase + RelocPointer), RelocSize \div 4)
    BY <2>2, <2>4, ParsedFile
  <2>6. left' = Len(relocs) /\ base' = StartupBase + HeaderSize
    BY <2>5 DEF ParseHeader, Relocating
  <2>7. Len(relocs) - left' = 0
    BY <2>2, <2>6
  <2>8. ASSUME NEW c \in 1 .. Len(code) PROVE memory[StartupBase + HeaderSize + c - 1] = code[c]
    <3> DEFINE k == HeaderSize + c
               text == FxfFile
    <3>1. FxfFile[k] = code[c] /\ text \in Seq(Nat) /\ Len(text) = HeaderSize + Len(code) + 4 * Len(relocs)
      BY <2>2, FileIs
    <3> HIDE DEF text
    <3>2. k \in 1 .. Len(text)
      <4> DEFINE n == Len(code)
                 m == Len(relocs)
                 len == Len(text)
      <4>1. n \in Nat /\ m \in Nat /\ c \in 1 .. n
        BY <2>2
      <4>2. len = 36 + n + 4 * m /\ k = 36 + c
        BY <3>1 DEF HeaderSize
      <4> HIDE DEF n, m, len, k
      <4>3. k \in 1 .. len
        BY <4>1, <4>2
      <4> QED BY <4>3 DEF len
    <3>3. StartupBase + HeaderSize + c - 1 = StartupBase + k - 1
      BY LaunchFacts
    <3> HIDE DEF k
    <3>4. k \in DOMAIN text /\ k <= Len(text)
      BY <3>1, <3>2
    <3>5. memory[StartupBase + k - 1] = text[k]
      BY <2>4, <3>4 DEF At, text
    <3> QED BY <3>1, <3>3, <3>5 DEF text
  <2>9. Relocated(memory, StartupBase + HeaderSize, code, relocs, 0)
    BY <2>8 DEF Relocated
  <2> QED BY <2>6, <2>7, <2>9
<1> QED BY <1>1, <1>2, <1>3 DEF ImageInv, FileMade, RawArrives, FxfRelocated

LEMMA RelocateStepImage ==
  ASSUME AsmInv, LaidInv, BootInv, ImageInv, UNCHANGED avars, Relocate
  PROVE  ImageInv'
<1> DEFINE word == Wrap(base + Load(memory, entry, "word"))
           v == Wrap(Load(memory, word, "word") + base)
           mapped == Mapped(entry, "word") /\ Mapped(word, "word")
<1>1. /\ UNCHANGED <<disk, base, stage, program, source, file, code, relocs>> /\ pc = "relocate" /\ stage = "done"
      /\ disk.format = "ryfs"
  BY DEF Relocate, avars, input, output, BootInv, Started, ImageInv, FileMade
<1>2. ~BootsRaw(disk, program)
  BY <1>1 DEF BootsRaw
<1>3. CASE ~mapped
  <2>1. pc' = "dead"
    BY <1>3 DEF Relocate
  <2> QED BY <1>1, <1>2, <2>1 DEF ImageInv, FileMade, RawArrives, FxfRelocated
<1>4. CASE mapped
  <2>1. /\ memory' = Store(memory, word, "word", v) /\ left' = Wrap(left - 1)
        /\ pc' = IF left' = 0 THEN "running" ELSE "relocate"
    BY <1>4 DEF Relocate
  <2>2. ASSUME Boots(disk, program, source)
        PROVE  /\ Relocated(memory', base, code, relocs, Len(relocs) - left')
               /\ base = StartupBase + HeaderSize /\ base + Len(code) <= RamSize
               /\ left' = 0 => Len(relocs) - left' = Len(relocs)
    <3>1. program.fxf /\ ForFxf(source)
      BY <2>2 DEF Boots
    <3>2. code \in Seq(Nat) /\ relocs \in Seq(Nat) /\ \A k \in DOMAIN relocs : relocs[k] + 4 <= Len(code)
      BY <1>1, <3>1, WrittenFile
    <3>3. Separate(relocs)
      BY <1>1, <3>1, EntriesSeparate
    <3>4. Relocating(memory, Len(code), relocs, base, entry, left)
      BY <1>1, <2>2 DEF BootInv, RelocatesCode
    <3>5. Relocated(memory, base, code, relocs, Len(relocs) - left)
      BY <1>1, <2>2 DEF ImageInv, FxfRelocated
    <3>6. Relocated(Store(memory, word, "word", Wrap(Load(memory, word, "word") + base)), base, code, relocs,
                    (Len(relocs) - left) + 1)
      <4> HIDE DEF word
      <4>1. word = Wrap(base + Load(memory, entry, "word"))
        BY DEF word
      <4> QED BY <3>2, <3>3, <3>4, <3>5, <4>1, RelocateImage
    <3> DEFINE n == Len(relocs)
               len == Len(code)
    <3>7. n \in Nat /\ len \in Nat /\ StartupBase \in Nat /\ RamSize \in Nat /\ HeaderSize = 36
      BY <3>2, LaunchFacts
    <3>8. left \in 1 .. n /\ TableAt(len) + 4 * n <= RamSize /\ base = StartupBase + HeaderSize
      BY <3>4 DEF Relocating
    <3>9. TableAt(len) = base + len
      BY <3>8 DEF TableAt
    <3> HIDE DEF n, len
    <3>10. base + len <= RamSize /\ n <= RamSize /\ left - 1 \in Nat /\ left - 1 <= RamSize
      BY <3>7, <3>8, <3>9
    <3>11. left' = left - 1
      <4> DEFINE x == left - 1
      <4>1. x \in Nat /\ x <= RamSize
        BY <3>10
      <4> HIDE DEF x
      <4>2. Wrap(x) = x
        BY <4>1, RamIsWord
      <4> QED BY <2>1, <4>2 DEF x
    <3>12. (n - left) + 1 = n - left' /\ (left' = 0 => n - left' = n)
      BY <3>7, <3>8, <3>11
    <3> HIDE DEF word, v
    <3> QED BY <2>1, <3>6, <3>8, <3>10, <3>12 DEF n, len, v
  <2> HIDE DEF word, v
  <2>3. pc' \in {"running", "relocate"} /\ (pc' = "running" => left' = 0)
    BY <2>1
  <2> QED BY <1>1, <1>2, <2>2, <2>3 DEF ImageInv, FileMade, RawArrives, FxfRelocated
<1> QED BY <1>3, <1>4
-----------------------------------------------------------------------------
(* The running program leaves its own code alone.                          *)

(* What is written below a program leaves it alone.                        *)
LEMMA WrittenBelow ==
  ASSUME NEW mem, NEW b \in Nat, NEW text \in Seq(Nat), NEW table \in Seq(Nat), NEW d, d = Len(table),
         \A k \in DOMAIN table : table[k] + 4 <= Len(text), b + Len(text) <= RamSize,
         Relocated(mem, b, text, table, d),
         NEW a \in Nat, NEW cells, Len(cells) \in Nat, a + Len(cells) <= b
  PROVE  Relocated(Written(mem, a, cells), b, text, table, d)
<1> DEFINE after == Written(mem, a, cells)
           len == Len(text)
           n == Len(cells)
<1>1. len \in Nat /\ n \in Nat /\ RamSize \in Nat /\ a + n <= b /\ b + len <= RamSize /\ 1 .. d = DOMAIN table
  BY LaunchFacts
<1>2. \A k \in 1 .. d : table[k] \in Nat /\ table[k] + 4 <= len
  <2> TAKE k \in 1 .. d
  <2>1. k \in DOMAIN table
    BY <1>1
  <2>2. table[k] \in Nat
    BY <2>1
  <2>3. table[k] + 4 <= Len(text)
    BY <2>1
  <2> QED BY <2>2, <2>3
<1> HIDE DEF len
<1>3. ASSUME NEW c \in 1 .. len PROVE after[b + c - 1] = mem[b + c - 1]
  <2> DEFINE y == b + c - 1
  <2> HIDE DEF n
  <2>1. y \in Nat /\ y < RamSize /\ y \notin a .. a + n - 1
    BY <1>1
  <2> HIDE DEF y
  <2>2. y \in Ram
    BY <1>1, <2>1 DEF Ram
  <2>3. y \notin a .. a + Len(cells) - 1
    BY <2>1 DEF n
  <2>4. after[y] = mem[y]
    BY <2>2, <2>3, WrittenCell
  <2> QED BY <2>4 DEF y
<1> HIDE DEF after
<1>4. ASSUME NEW c \in 1 .. len, \A k \in 1 .. d : c \notin table[k] + 1 .. table[k] + 4
      PROVE  after[b + c - 1] = text[c]
  BY <1>3, <1>4 DEF Relocated, len
<1>5. ASSUME NEW k \in 1 .. d, NEW v \in Word, FieldAt(text, table[k], v), NEW j \in 1 .. 4
      PROVE  after[b + table[k] + j - 1] = Cells(4, Wrap(v + b))[j]
  <2>1. mem[b + table[k] + j - 1] = Cells(4, Wrap(v + b))[j]
    BY <1>5 DEF Relocated
  <2> DEFINE u == table[k]
             c == u + j
  <2>2. u \in Nat /\ u + 4 <= len
    BY <1>2
  <2> HIDE DEF u
  <2>3. c \in 1 .. len /\ b + c - 1 = b + u + j - 1
    BY <1>1, <2>2
  <2> HIDE DEF c
  <2>4. after[b + c - 1] = mem[b + c - 1]
    BY <1>3, <2>3
  <2> QED BY <2>1, <2>3, <2>4 DEF u
<1> QED BY <1>4, <1>5 DEF Relocated, len, after

LEMMA TakeBlockImage ==
  ASSUME AsmInv, AllocatorInv, BootInv, ImageInv, TakeBlock
  PROVE  ImageInv'
<1>1. /\ UNCHANGED <<disk, pc, base, stage, program, source, file, code, relocs>> /\ pc = "running" /\ stage = "done"
      /\ disk.format = "ryfs"
  BY DEF TakeBlock, Call, kernel, avars, input, output, BootInv, Started
<1>2. ~BootsRaw(disk, program)
  BY <1>1 DEF BootsRaw
<1>3. ASSUME Boots(disk, program, source)
      PROVE  /\ base = StartupBase + HeaderSize /\ base + Len(code) <= RamSize
             /\ Relocated(memory', base, code, relocs, Len(relocs))
  <2>1. program.fxf /\ ForFxf(source)
    BY <1>3 DEF Boots
  <2>2. code \in Seq(Nat) /\ relocs \in Seq(Nat) /\ \A k \in DOMAIN relocs : relocs[k] + 4 <= Len(code)
    BY <1>1, <2>1, WrittenFile
  <2>3. base = StartupBase + HeaderSize /\ base + Len(code) <= RamSize /\ Relocated(memory, base, code, relocs, Len(relocs))
    BY <1>1, <1>3 DEF ImageInv, FxfRelocated
  <2>4. CASE memory' = memory
    BY <2>3, <2>4
  <2>5. CASE memory' # memory
    <3>1. PICK cells : /\ memory' = Written(memory, free, cells) /\ Len(cells) \in Nat /\ free \in Nat
                       /\ free + Len(cells) <= MemoryTop
      BY <2>5, BlockTaken
    <3> DEFINE n == Len(cells)
    <3>2. base \in Nat /\ free + n <= base
      <4>1. MemoryTop <= StartupBase /\ MemoryTop \in Nat /\ StartupBase \in Nat /\ base = StartupBase + 36
        BY <2>3, LaunchAssumption, AllocatorAssumption, LaunchFacts
      <4>2. n \in Nat /\ free \in Nat /\ free + n <= MemoryTop
        BY <3>1
      <4> HIDE DEF n
      <4> QED BY <4>1, <4>2
    <3>3. Relocated(Written(memory, free, cells), base, code, relocs, Len(relocs))
      BY <2>2, <2>3, <3>1, <3>2, WrittenBelow
    <3> QED BY <2>3, <3>1, <3>3
  <2> QED BY <2>4, <2>5
<1> QED BY <1>1, <1>2, <1>3 DEF ImageInv, FileMade, RawArrives, FxfRelocated

LEMMA UseFilesImage ==
  ASSUME BootInv, ImageInv, UseFiles
  PROVE  ImageInv'
<1>1. /\ UNCHANGED <<disk, memory, base, stage, program, source, file, code, relocs>> /\ pc = "running"
      /\ disk.format = "ryfs"
  BY DEF UseFiles, Call, OpenFile, Seek, Read, WriteSector, kernel, avars, input, output
<1>2. pc' \in {"running", "dead"}
  BY <1>1 DEF UseFiles, OpenFile, Seek, Read, WriteSector
<1>3. ~BootsRaw(disk, program)
  BY <1>1 DEF BootsRaw
<1> QED BY <1>1, <1>2, <1>3 DEF ImageInv, FileMade, RawArrives, FxfRelocated

LEMMA ImageStutter == ImageInv /\ UNCHANGED vars => ImageInv'
<1> SUFFICES ASSUME ImageInv, UNCHANGED vars PROVE ImageInv'
  OBVIOUS
<1>1. UNCHANGED <<disk, pc, memory, sector, dest, base, left, file, stage, program, source, code, relocs>>
  BY DEF vars, lvars, avars, input, output, kernel, loading
<1> QED BY <1>1 DEF ImageInv, FileMade, RawArrives, FxfRelocated

LEMMA RunImage ==
  ASSUME AsmInv, LaidInv, BootInv, ImageInv, Run
  PROVE  ImageInv'
<1>1. UNCHANGED avars
  BY DEF Run
<1>2. CASE RawSectorRead
  BY <1>1, <1>2, RawSectorReadImage
<1>3. CASE ParseHeader
  BY <1>1, <1>3, ParseHeaderImage
<1>4. CASE Relocate
  BY <1>1, <1>4, RelocateStepImage
<1>5. CASE SystemSector \/ ReadConfig \/ OpenStartup \/ StartupSector
  <2>1. disk' = disk /\ pc' \in {"system", "kernel", "error", "configured", "startup", "parse", "dead"}
    BY <1>5 DEF SystemSector, ReadConfig, OpenStartup, StartupSector, WholeFileSector
  <2>2. disk'.format = "raw" => disk'.cells = file
    BY <2>1 DEF ImageInv, FileMade
  <2> QED BY <1>1, <2>1, <2>2, ImageWaits
<1> QED BY <1>2, <1>3, <1>4, <1>5 DEF Run, Loading

LEMMA NextImage ==
  AsmInv /\ AllocatorInv /\ BootInv /\ LaidInv /\ ImageInv /\ [Next]_vars => ImageInv'
BY AssembleImage, StartImage, InsertImage, RunImage, TakeBlockImage, UseFilesImage, ImageStutter DEF Next

(* A raw disk is loaded whole, without a relocation. *)
LEMMA RawFetches ==
  ASSUME AsmInv, BootInv, LaidInv, ImageInv, pc = "running", Bootable, disk.format = "raw"
  PROVE  LET at == Place IN \A i \in DOMAIN source : Lands(at, i)
<1>1. ~program.fxf /\ DiskSize(disk) = Len(disk.cells) /\ ForItsFormat /\ stage = "done" /\ code \in Seq(Nat)
  BY DEF Bootable, BootInv, Started, AsmInv, AsmTypeOK
<1>2. base = KernelBase /\ At(memory, KernelBase, code, Len(code))
  BY <1>1 DEF ImageInv, RawArrives, BootsRaw
<1>3. base \in Nat /\ base + Len(code) <= RamSize
  <2> DEFINE n == Len(code)
  <2>1. n \in Nat /\ KernelBase \in Nat /\ RamSize \in Nat /\ KernelBase <= RamSize
    BY <1>1, LoaderAssumption, LaunchFacts
  <2>2. CASE n = 0
    BY <1>2, <2>1, <2>2
  <2>3. CASE n # 0
    <3>1. n \in DOMAIN code /\ n <= Len(code)
      BY <1>1, <2>3
    <3>2. KernelBase + n - 1 \in Ram
      BY <1>2, <3>1 DEF At
    <3> HIDE DEF n
    <3>3. KernelBase + n <= RamSize
      BY <2>1, <3>2 DEF Ram
    <3> QED BY <1>2, <2>1, <3>3 DEF n
  <2> QED BY <2>2, <2>3
<1>4. Relocated(memory, base, code, relocs, 0)
  <2>1. ASSUME NEW c \in 1 .. Len(code) PROVE memory[base + c - 1] = code[c]
    <3>1. c \in DOMAIN code /\ c <= Len(code)
      BY <1>1
    <3> QED BY <1>2, <3>1 DEF At
  <2> QED BY <2>1 DEF Relocated
<1> QED BY <1>1, <1>2, <1>3, <1>4, FetchesRelocated

(* So is an FXF file of a RYFS disk, and its table is done.                *)
LEMMA FxfFetches ==
  ASSUME AsmInv, BootInv, LaidInv, ImageInv, pc = "running", Bootable, disk.format = "ryfs"
  PROVE  LET at == Place IN \A i \in DOMAIN source : Lands(at, i)
<1>1. Boots(disk, program, source) /\ program.fxf /\ ForItsFormat /\ stage = "done"
  BY BootableBoots DEF Bootable, BootInv, Started, Boots
<1>2. base = StartupBase + HeaderSize /\ base + Len(code) <= RamSize /\ Relocated(memory, base, code, relocs, Len(relocs))
  BY <1>1 DEF ImageInv, FxfRelocated
<1>3. base \in Nat
  BY <1>2, LaunchFacts
<1> QED BY <1>1, <1>2, <1>3, FetchesRelocated

(* When a program runs, what the CPU finds at the place of each statement  *)
(* is what was written: for every source that is one for its format, every *)
(* disk that boots it and every sequence of calls (fox32asm main.rs        *)
(* 352-462, boot.asm 49-54, ryfs.asm 227-269, reloc.asm 8-64, cpu.rs       *)
(* 2666-2760).                                                             *)
THEOREM FetchesAsWritten == Spec => []FetchesWhatWasWritten
<1>1. AllocatorInv /\ [AllocatorNext]_alloc => AllocatorInv'
  BY AllocateStep, AllocatorStutter DEF AllocatorNext, Allocate
<1>2. Init => AsmInv /\ AllocatorInv /\ BootInv /\ LaidInv /\ ImageInv
  BY AsmInit, InitAllocated, InitBoots, LaidInit, InitImage DEF Init
<1>3. AsmInv /\ AllocatorInv /\ BootInv /\ LaidInv /\ ImageInv /\ [Next]_vars
        => (AsmInv /\ AllocatorInv /\ BootInv /\ LaidInv /\ ImageInv)'
  BY <1>1, AsmStep, LaunchCallsAllocator, NextBoots, LaidStep, NextImage
<1>4. AsmInv /\ BootInv /\ LaidInv /\ ImageInv => FetchesWhatWasWritten
  <2> SUFFICES ASSUME AsmInv, BootInv, LaidInv, ImageInv, pc = "running", Bootable
               PROVE  LET at == Place IN \A i \in DOMAIN source : Lands(at, i)
    BY DEF FetchesWhatWasWritten
  <2>1. disk.format = "raw" \/ disk.format = "ryfs"
    BY DEF Bootable
  <2> QED BY <2>1, RawFetches, FxfFetches
<1> QED BY <1>2, <1>3, <1>4, PTL DEF Spec
=============================================================================
