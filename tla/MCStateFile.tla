----------------------------- MODULE MCStateFile -----------------------------
(* A small instance of StateFile: the second snapshot is shorter than the  *)
(* one before it, as after a prune.                                        *)
EXTENDS StateFile

MCBlocks == [v \in 0 .. MaxSnapshot |-> IF v = 1 THEN 2 ELSE 1]
=============================================================================
