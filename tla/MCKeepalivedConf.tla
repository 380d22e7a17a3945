-------------------------- MODULE MCKeepalivedConf --------------------------
(***************************************************************************)
(* KeepalivedConf for TLC.  Names, numbers and addresses are compared for  *)
(* equality only, so configurations that differ by a renaming behave the   *)
(* same.                                                                   *)
(***************************************************************************)
EXTENDS KeepalivedConf, TLC

Renamings == Permutations(Name) \cup Permutations(Number) \cup Permutations(Address)
=============================================================================
