------------------------------- MODULE MCLog -------------------------------
(* Log for TLC.  Processes are interchangeable, and so are blocks.         *)
EXTENDS Log, TLC

Symmetry == Permutations(Proc) \cup Permutations(Block)
============================================================================
