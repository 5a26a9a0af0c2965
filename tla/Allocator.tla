------------------------------ MODULE Allocator ------------------------------
(***************************************************************************)
(* The memory allocator of the kernel (kernel/allocator.asm): it gives out *)
(* the memory from the end of the kernel upwards and takes nothing back.   *)
(* Tasks yield of their own accord, so that a call runs to its end.        *)
(***************************************************************************)
EXTENDS Naturals, Sequences

CONSTANTS
  KernelBottom,  \* the address after the kernel
  MemoryTop,     \* MEMORY_TOP
  Words,         \* how many values a register has, 2^32
  MaxBlocks      \* BOUND: how many blocks are given out

ASSUME AllocatorAssumption ==
  /\ KernelBottom \in Nat \ {0} /\ MemoryTop \in Nat /\ Words \in Nat
  /\ KernelBottom < MemoryTop /\ MemoryTop < Words
  /\ MaxBlocks \in Nat

VARIABLES
  free,   \* free_base
  blocks  \* the blocks given out

alloc == <<free, blocks>>

AllocatorInit ==
  /\ free = KernelBottom
  /\ blocks = <<>>

(* The remaining memory, and the comparison with it, are of unsigned words. *)
Full(n) == (MemoryTop - free) % Words <= n

(* Mutant: the whole memory is compared with the size that is asked for. *)
AllocatedUnseen(n) ==
  IF MemoryTop <= n THEN UNCHANGED alloc
  ELSE /\ blocks' = Append(blocks, [at |-> free, size |-> n])
       /\ free' = (free + n) % Words

Allocated(n) ==
  IF Full(n) THEN UNCHANGED alloc
  ELSE /\ blocks' = Append(blocks, [at |-> free, size |-> n])
       /\ free' = (free + n) % Words

Allocate(n) ==
  /\ Len(blocks) < MaxBlocks
  /\ Allocated(n)

AllocatorNext == \E n \in 0..Words - 1 : Allocate(n)

AllocatorSpec == AllocatorInit /\ [][AllocatorNext]_alloc

(* The blocks lie one after the other between the end of the kernel and    *)
(* the limit: none overlaps another, the kernel or what is above the limit *)
(* (allocator.asm 16-24).                                                  *)
BlocksApart ==
  /\ \A i \in DOMAIN blocks :
       KernelBottom <= blocks[i].at /\ blocks[i].at + blocks[i].size < MemoryTop
  /\ \A i, j \in DOMAIN blocks : i < j => blocks[i].at + blocks[i].size <= blocks[j].at
=============================================================================
