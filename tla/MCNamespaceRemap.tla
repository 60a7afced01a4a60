-------------------------- MODULE MCNamespaceRemap --------------------------
(***************************************************************************)
(* NamespaceRemap for TLC: interchangeable processes and shards.           *)
(***************************************************************************)
EXTENDS NamespaceRemap, TLC

RemapSymmetry == Permutations(Proc) \cup Permutations(Alias)
=============================================================================
