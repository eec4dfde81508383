----------------------------- MODULE MCPreparation -----------------------------
(***************************************************************************)
(* Small instances of Preparation: five sources, three pixel hashes, one     *)
(* declared group, near pairs that make chains.                            *)
(***************************************************************************)
EXTENDS Preparation, TLC

CONSTANTS p1, p2, p3, g1

MCPixels == {p1, p2, p3}
MCSourceGroups == {g1}

\* Any two pixel hashes or failures between the first and the last source.
Views ==
    {<<p1>> \o middle \o <<last>> :
        middle \in [1 .. 3 -> {p1, p2, "failure"}], last \in {p2, p3}} \cup
    {<<"failure", p1, "failure", p2, p1>>, <<p1, "exception", p2, p3, p1>>,
     <<p1, p2, "exception", "exception", p1>>}

Declared ==
    {[i \in Index |-> {}], <<{}, {g1}, {g1}, {}, {}>>, <<{g1}, {}, {g1}, {g1}, {}>>}

Near ==
    {{}, {<<1, 2>>, <<3, 4>>}, {<<2, 4>>, <<2, 3>>, <<4, 5>>}, {<<1, 4>>, <<2, 5>>, <<3, 4>>}}

PurposeChoices ==
    {<<"training", "training", "training", "training", "evaluation">>,
     <<"training", "evaluation", "training", "training", "training">>}

MCManifests == [view : Views, declared : Declared, near : Near, purpose : PurposeChoices]

\* Unlike for groups of different size or first member.
MCAssignSplit(group) ==
    CASE Cardinality(group) = 2 -> "development"
      [] 1 \in group -> "train"
      [] OTHER -> "test"
=================================================================================
