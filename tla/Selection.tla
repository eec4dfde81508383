------------------------------- MODULE Selection -------------------------------
(***************************************************************************)
(* What the solver is asked for and what the auditor recomputes            *)
(* (selection.py).  Operators only.                                        *)
(*                                                                         *)
(* A pool is a function from conversation identifiers to candidates, and   *)
(* is its own hash; identifiers are unique because freeze_pool refuses     *)
(* others.  A policy is a record with the fields of SelectionPolicy.       *)
(***************************************************************************)
EXTENDS Integers, FiniteSets

\* How often `value` occurs in a field of the chosen candidates.
Count(pool, chosen, field, value) ==
    Cardinality({c \in chosen : pool[c][field] = value})

\* collections.Counter over the field: values that do not occur are not in it.
Counts(pool, chosen, field) ==
    [value \in {pool[c][field] : c \in chosen} |-> Count(pool, chosen, field, value)]

WithinMaximum(pool, chosen, field, maximum) ==
    \A c \in chosen : Count(pool, chosen, field, pool[c][field]) <= maximum

EachMaximum(pool, chosen, policy) ==
    /\ WithinMaximum(pool, chosen, "image_id", policy.max_per_image)
    /\ WithinMaximum(pool, chosen, "visual_group_id", policy.max_per_visual_group)
    /\ WithinMaximum(pool, chosen, "semantic_family", policy.max_per_semantic_family)

FamilyMinimums(pool, chosen, policy) ==
    \A family \in DOMAIN policy.family_minimums :
        Count(pool, chosen, "task_family", family) >= policy.family_minimums[family]

\* select_candidates: the constraints of the CP-SAT model.
Constraints(pool, chosen, policy) ==
    /\ \A c \in chosen : policy.allow_evaluation_sources \/ pool[c].purpose = "training"
    /\ Cardinality(chosen) = policy.target_count
    /\ \A language \in DOMAIN policy.language_quotas :
          Count(pool, chosen, "language", language) = policy.language_quotas[language]
    /\ FamilyMinimums(pool, chosen, policy)
    /\ EachMaximum(pool, chosen, policy)

\* Slip: what is not in the pool is passed over.
AuditMetInPool(pool, manifest, policy) ==
    LET selected == manifest.selected \cap DOMAIN pool IN
    /\ Cardinality(selected) = policy.target_count
    /\ Counts(pool, selected, "language") = policy.language_quotas
    /\ FamilyMinimums(pool, selected, policy)
    /\ EachMaximum(pool, selected, policy)
    /\ policy.allow_evaluation_sources \/
          \A c \in selected : pool[c].purpose # "evaluation"

\* audit_selection: does the report say MET?
AuditMet(pool, manifest, policy) ==
    LET selected == manifest.selected \cap DOMAIN pool IN
    /\ manifest.pool = pool
    /\ manifest.selected \subseteq DOMAIN pool
    /\ Cardinality(selected) = policy.target_count
    /\ Counts(pool, selected, "language") = policy.language_quotas
    /\ FamilyMinimums(pool, selected, policy)
    /\ EachMaximum(pool, selected, policy)
    /\ policy.allow_evaluation_sources \/
          \A c \in selected : pool[c].purpose # "evaluation"
================================================================================
