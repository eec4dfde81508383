------------------------------- MODULE MCRunStore -------------------------------
(***************************************************************************)
(* Small instances of RunStore.                                            *)
(***************************************************************************)
EXTENDS RunStore, TLC

Symmetry == Permutations(Payloads) \cup Permutations(Configs) \cup Permutations(Pids)
=================================================================================
