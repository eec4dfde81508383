------------------------------ MODULE MCModelCalls ------------------------------
(***************************************************************************)
(* Small instances of ModelCalls: every request may use two tokens, and a  *)
(* server reports one, two, or one too many.                               *)
(***************************************************************************)
EXTENDS ModelCalls, TLC

MCMaxTokens == [p \in Prompts |-> 2]

MCSymmetry == Permutations(Workers)
=================================================================================
