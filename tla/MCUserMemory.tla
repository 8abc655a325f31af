---------------------------- MODULE MCUserMemory ----------------------------
(* UserMemory for TLC.  Frames are interchangeable: kalloc() may return any *)
(* of them.                                                                 *)
EXTENDS UserMemory, TLC

FrameSymmetry == Permutations(Frame)
=============================================================================
