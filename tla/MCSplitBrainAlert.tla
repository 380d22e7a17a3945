-------------------------- MODULE MCSplitBrainAlert --------------------------
(* SplitBrainAlert for TLC. *)
EXTENDS SplitBrainAlert, TLC

(* The nodes are alike. *)
Pair == Permutations(Node)
=============================================================================
