--------------------------------- MODULE Rubric ---------------------------------
(***************************************************************************)
(* Which rubric items a detailed rating asks, of what, and what two votes  *)
(* and the controller's own checks make of each (evaluation.py,            *)
(* SynthesisCoordinator._rate_turn).  Operators over the catalog           *)
(* resources/rubric_catalog.yaml.                                          *)
(***************************************************************************)
EXTENDS Evaluation, Rules, FiniteSets

CONSTANT Catalog  \* the items in catalog order: [template_id, applies_when, default_use]

\* A gate of the catalog that only this predicate asks for.
IsGate(id, predicate) ==
    /\ \E i \in DOMAIN Catalog :
          Catalog[i] = [template_id |-> id, applies_when |-> predicate, default_use |-> "gate"]
    /\ \A i \in DOMAIN Catalog :
          Catalog[i].template_id = id => Catalog[i].applies_when = predicate

\* What resources/rubric_catalog.yaml says of the items the code knows by name,
\* and of those the properties rely on.
ASSUME CatalogAssumption ==
    /\ Catalog \in Seq([template_id : STRING, applies_when : STRING, default_use : STRING])
    /\ IsGate("R_CORE", "always") /\ IsGate("C_COVERAGE", "always")
    /\ IsGate("R_REQUIREMENT", "each_public_requirement")
    /\ IsGate("C_CLAIM", "each_factual_claim")
    /\ IsGate("C_COMPUTATION", "has_computation")
    /\ IsGate("C_SET_COMPLETE", "exhaustive_request")

\* What an item without a subject of its own is about.
Singleton == [singleton |-> TRUE]

\* contracts.RubricContext, as far as predicates and subjects read it.
RubricContext(index, profile, prose, requirements, claims, computed, history, exhaustive) ==
    [turn_index |-> index, profile |-> profile, has_natural_language_answer |-> prose,
     requirements |-> requirements, claims |-> claims, computed |-> computed,
     history_binding |-> history, exhaustive |-> exhaustive,
     requires_witness_check |-> FALSE]

format_requirements(context) == {r \in context.requirements : r.kind = "format"}

\* The predicate of a catalog item, under a context.
Applies(predicate, context) ==
    \/ predicate = "always"
    \/ /\ predicate \in {"natural_language_answer", "answer_has_non_exempt_natural_language"}
       /\ context.has_natural_language_answer
    \/ predicate \in {"has_history", "later_turn"} /\ context.turn_index > 1
    \/ predicate = "has_history_binding" /\ context.history_binding # {}
    \/ predicate = "has_computation" /\ context.computed
    \/ predicate = "limitation_profile" /\ context.profile = "limitation"
    \/ predicate = "false_premise_profile" /\ context.profile = "false_premise"
    \/ predicate = "designated_strong_dependency_turn" /\ context.requires_witness_check
    \/ predicate = "exhaustive_request" /\ context.exhaustive
    \/ predicate = "public_format_constraint" /\ format_requirements(context) # {}
    \/ predicate = "each_public_requirement" /\ context.requirements # {}
    \/ predicate = "each_factual_claim" /\ context.claims # {}

\* The elements of s at the kept places, in their order.
Filtered(s, kept) ==
    FlattenSeq([i \in DOMAIN s |-> IF i \in kept THEN <<s[i]>> ELSE <<>>])

applicable_rubric_items(context) ==
    Filtered(Catalog, {i \in DOMAIN Catalog : Applies(Catalog[i].applies_when, context)})

\* What an applicable item is asked of, one pair of votes each.
Subjects(template, context) ==
    LET predicate == template.applies_when IN
    IF predicate = "each_factual_claim" THEN context.claims
    ELSE IF predicate = "each_public_requirement" THEN context.requirements
    ELSE IF predicate = "public_format_constraint" THEN format_requirements(context)
    ELSE IF predicate = "has_history_binding" THEN context.history_binding
    ELSE {Singleton}

AsksOf(template, subjects) ==
    [i \in 1 .. Len(subjects) |-> [template |-> template, subject |-> subjects[i]]]

\* The questions of one rating, in the order they are asked.
Plan(context) ==
    LET items == applicable_rubric_items(context) IN
    FlattenSeq([i \in DOMAIN items |->
                   AsksOf(items[i], SetToSeq(Subjects(items[i], context)))])

\* Slip: whatever the judges agree on stands, whatever the extraction missed.
VotesAlone(template, votes, coverage, computation, set_check) == consensus(votes)

\* The verdict of one item: the votes, and what the controller knows better.
ItemVerdict(template, votes, coverage, computation, set_check) ==
    LET verdict == consensus(votes) IN
    IF template.template_id = "C_COVERAGE"
    THEN consensus(<<verdict, coverage>>)
    ELSE IF template.template_id = "C_COMPUTATION" /\ computation.verdict # "MET"
    THEN computation.verdict
    ELSE IF template.template_id = "C_SET_COMPLETE" /\ set_check = None
    THEN IF verdict = "MET" THEN "UNKNOWN" ELSE verdict
    ELSE IF template.template_id = "C_SET_COMPLETE" /\ set_check.verdict = "NOT_MET"
    THEN "NOT_MET"
    ELSE verdict

\* aggregate_rating keeps the verdicts of the items that are gates.
GateVerdictsOf(items) ==
    {items[i].verdict : i \in {j \in DOMAIN items : items[j].template.default_use = "gate"}}
=================================================================================
