------------------------------ MODULE Requirements ------------------------------
(***************************************************************************)
(* Public requirements (ledger.py): how two blind inventories become the   *)
(* requirements in force, and the ledger that carries them from turn to    *)
(* turn.  The conversation machine calls only the former; the latter is a  *)
(* contract of its own.  A quotation is data: Canonical says what is left  *)
(* of it without outer punctuation and courtesy.                           *)
(***************************************************************************)
EXTENDS Integers, Sequences, SequencesExt

CONSTANTS
    Canonical,  \* [kind, quote] -> quote, or None when nothing is left
    None

\* _canonical_spec of an inventory's entry: [kind, quote, lifetime, source].
CanonicalSpec(spec) == [spec EXCEPT !.quote = Canonical[spec.kind, spec.quote]]

CanonicalSpecs(inventory) ==
    [i \in DOMAIN inventory.requirements |-> CanonicalSpec(inventory.requirements[i])]

Requirement(spec, turn_index) ==
    [kind |-> spec.kind, quote |-> spec.quote, lifetime |-> spec.lifetime,
     source |-> spec.source, introduced_turn |-> turn_index]

\* reconcile_inventories: the requirements both judges list, each once, or None.
reconcile_inventories(first, second, turn_index) ==
    LET specs == CanonicalSpecs(first) IN
    IF \/ ~first.extraction_complete \/ ~second.extraction_complete
       \/ \E inventory \in {first, second} :
             \E i \in DOMAIN inventory.requirements :
                CanonicalSpecs(inventory)[i].quote = None
       \/ ToBag(specs) # ToBag(CanonicalSpecs(second))
       \/ ~IsInjective(specs)
    THEN None
    ELSE {Requirement(specs[i], turn_index) : i \in DOMAIN specs}
-----------------------------------------------------------------------------
\* The ledger: a set of active requirements, one of each identity.

\* A requirement is identified by the hash of its entry, so the turn that
\* introduced it is no part of its identity.
requirement_id(r) ==
    [kind |-> r.kind, quote |-> r.quote, lifetime |-> r.lifetime, source |-> r.source]

Ids(active) == {requirement_id(r) : r \in active}

Without(active, id) == {r \in active : requirement_id(r) # id}

\* A requirement of this turn only is gone with the next.
Carried(active, turn_index) ==
    {r \in active : r.lifetime = "persistent" \/ r.introduced_turn = turn_index}

\* DUPLICATE_REQUIREMENT unless its identity is new.
Added(active, requirement) ==
    IF requirement_id(requirement) \in Ids(active) THEN None ELSE active \cup {requirement}

\* One RequirementEvent, `previous` being an identity: None where the code raises.
ApplyEvent(active, event) ==
    CASE active = None -> None
      [] event.action = "introduce" -> Added(active, event.requirement)
      [] event.previous \notin Ids(active) -> None      \* UNKNOWN_REQUIREMENT
      [] event.action = "retain" -> active
      [] event.action = "revoke" -> Without(active, event.previous)
      [] event.action = "override" ->
            Added(Without(active, event.previous), event.requirement)

\* RequirementLedger.apply
apply(active, turn_index, events) ==
    FoldLeft(ApplyEvent, Carried(active, turn_index), events)
=================================================================================
