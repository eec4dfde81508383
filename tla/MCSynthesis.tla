------------------------------ MODULE MCSynthesis ------------------------------
(***************************************************************************)
(* Small instances of Synthesis.  The questions that are no echoes and the *)
(* generators are interchangeable.                                         *)
(***************************************************************************)
EXTENDS Synthesis, TLC

CONSTANTS q1, q2, q3, genA, genB

MCSymmetry == Permutations({q1, q2, q3}) \cup Permutations({genA, genB})
================================================================================
