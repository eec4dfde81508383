---------------------------- MODULE MCTrainingExport ----------------------------
(***************************************************************************)
(* Small instances of TrainingExport: three conversations in two languages, *)
(* two of them in one visual group, one of an evaluation-only image.       *)
(***************************************************************************)
EXTENDS TrainingExport, TLC

CONSTANTS c1, c2, c3

Candidate(language, image, group, family, purpose) ==
    [language |-> language, image_id |-> image, visual_group_id |-> group,
     task_family |-> family, semantic_family |-> image, purpose |-> purpose]

Conversation(candidate, status) == [candidate |-> candidate, status |-> status]

English == Candidate("en", "i1", "g1", "count", "training")
Regrouped == [English EXCEPT !.visual_group_id = "g2"]
Japanese == Candidate("ja", "i2", "g2", "count", "training")
Evaluation == Candidate("en", "i3", "g1", "attribute", "evaluation")
Marked == [Japanese EXCEPT !.purpose = "evaluation"]

Accept(candidate) == Conversation(candidate, "QUALITY_CANDIDATE")
Reject(candidate) == Conversation(candidate, "REJECTED")

\* A full file, one rated again, one prepared again, a short one.
MCContents ==
    {c1 :> Accept(English) @@ c2 :> Accept(Japanese) @@ c3 :> Accept(Evaluation),
     c1 :> Accept(English) @@ c2 :> Reject(Japanese) @@ c3 :> Accept(Evaluation),
     c1 :> Accept(Regrouped) @@ c2 :> Accept(Marked),
     c1 :> Accept(English) @@ c2 :> Accept(Japanese)}

Policy(target, quotas, minimums, evaluation) ==
    [target_count |-> target, language_quotas |-> quotas, family_minimums |-> minimums,
     max_per_image |-> 1, max_per_visual_group |-> 1, max_per_semantic_family |-> 1,
     allow_evaluation_sources |-> evaluation]

\* One of each language; English only, and none in Japanese; an evaluation image
\* that shares its group with another.
MCPolicies ==
    {Policy(2, "en" :> 1 @@ "ja" :> 1, "count" :> 1, FALSE),
     Policy(1, "en" :> 1 @@ "ja" :> 0, <<>>, FALSE),
     Policy(1, "en" :> 1, "count" :> 1, FALSE),
     Policy(2, "en" :> 2, "attribute" :> 1, TRUE),
     Policy(2, "en" :> 1 @@ "ja" :> 1, <<>>, TRUE)}
=================================================================================
