----------------------------- MODULE MCCpuThread -----------------------------
(***************************************************************************)
(* Instances of CpuThread for TLC.                                         *)
(***************************************************************************)
EXTENDS CpuThread

MCProgramOps == Ops \ {"reti"}
MCHandlerOps == Ops
MCNeverHalts == {"nop", "ise", "icl"}
MCReturns == {"nop", "reti"}
=============================================================================
