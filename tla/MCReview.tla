-------------------------------- MODULE MCReview --------------------------------
(***************************************************************************)
(* Small values for Review.                                                *)
(***************************************************************************)
EXTENDS MCRules

\* The catalog cut down to one item of every kind that ItemVerdict, Subjects and
\* GateVerdictsOf tell apart.
SmallCatalog ==
    <<Item("R_CORE", "always", "gate"),
      Item("R_REQUIREMENT", "each_public_requirement", "gate"),
      Item("H_BINDING", "has_history_binding", "gate"),
      Item("R_FOCUS", "always", "annotate"),
      Item("C_CLAIM", "each_factual_claim", "gate"),
      Item("C_COVERAGE", "always", "gate"),
      Item("C_COMPUTATION", "has_computation", "gate"),
      Item("C_SET_COMPLETE", "exhaustive_request", "gate")>>

SmallInstructions ==
    {[family |-> "grounded_calculation", profile |-> "normal"],
     [family |-> "visible_count", profile |-> "normal"]}

SmallAnswers == {"twelve", "7", "echo"}
SmallProse   == {"twelve", "echo"}

SmallSettings ==
    {[mode |-> "detailed", retain |-> FALSE], [mode |-> "holistic", retain |-> FALSE],
     [mode |-> "holistic", retain |-> TRUE]}

DetailedOnly == {[mode |-> "detailed", retain |-> FALSE]}

\* Two yes, two no, one no and one without evidence.
SmallBallots ==
    {<<"MET", "MET">>, <<"NOT_MET", "NOT_MET">>, <<"UNKNOWN", "NOT_MET">>}

SmallClaims == {[answer |-> a, span |-> "span"] : a \in SmallAnswers}

\* A judge finds the claim or misses it, and says how sure it is; of the short
\* answers nothing is missed.
SmallClaimInventories ==
    [a \in SmallAnswers |->
        LET all == {[answer |-> a, span |-> "span"]} IN
        IF a = "twelve"
        THEN {[claims |-> all, coverage |-> "MET"], [claims |-> {}, coverage |-> "MET"],
              [claims |-> {}, coverage |-> "ERROR"]}
        ELSE {[claims |-> all, coverage |-> "MET"]}]

\* Requirements: a courteous quotation is the plain one.
SmallCanonical ==
    [key \in {"format"} \X {"in French", "in French please", "please"} |->
        IF key[2] = "please" THEN None ELSE "in French"]

Spec1(quote, index) ==
    [kind |-> "format", quote |-> quote, lifetime |-> "persistent", source |-> index]

SmallRequirementInventories ==
    [index \in 1 .. 2 |->
        {[requirements |-> <<>>, extraction_complete |-> TRUE],
         [requirements |-> <<Spec1("in French", index)>>, extraction_complete |-> TRUE],
         [requirements |-> <<Spec1("in French please", index)>>, extraction_complete |-> TRUE],
         [requirements |-> <<>>, extraction_complete |-> FALSE]}]

\* Numbers as they are written.
Number(text, group, unit) ==
    [value |-> text, decimal_separator |-> ".", group_separator |-> group, unit |-> unit]

Sum(coverage, result) ==
    [operation |-> "add", coverage |-> coverage, reported_result |-> result,
     operands |-> <<Number(<<"1", ",", "0", "0", "0">>, ",", "g"),
                    Number(<<"0", ".", "5">>, ",", "g")>>]

Right == Number(<<"1", "0", "0", "0", ".", "5", "0">>, ",", "g")
Wrong == Number(<<"1", ".", "5">>, ",", "g")

SmallComputationInventories == {Sum("MET", Right), Sum("MET", Wrong), Sum("UNKNOWN", Right)}

Members(coverage, observed) ==
    [mode |-> "members", coverage |-> coverage, counts |-> {},
     empty_scope_is_explicit |-> FALSE,
     expected_members |-> IF coverage = "MET" THEN <<"cup", "plate">> ELSE <<>>,
     reported_members |-> observed]

SmallSetInventories ==
    {Members("MET", <<"plate", "cup">>), Members("MET", <<"cup", "plate">>),
     Members("MET", <<"cup", "cup">>), Members("UNKNOWN", <<>>)}

SmallHistories == {<<<<"q1", "twelve">>>>}

StoredTurn(family, question, answer, requirements) ==
    [instruction |-> [family |-> family, profile |-> "normal"],
     question |-> question, answer |-> answer, requirements |-> requirements]

French == [kind |-> "format", quote |-> "in French", lifetime |-> "persistent",
           source |-> 1, introduced_turn |-> 1]

SmallStored ==
    {<<StoredTurn("visible_count", "q1", "7", {})>>,
     <<StoredTurn("grounded_calculation", "q1", "7", {}),
       StoredTurn("visible_count", "q2", "twelve", {French})>>,
     <<StoredTurn("visible_count", "q1", "7", {}),
       StoredTurn("visible_count", "q2", "7", {}),
       StoredTurn("grounded_calculation", "q1", "7", {})>>}

\* What the judges send is what the contracts let through.
ASSUME SetInventoriesAreValid == \A inventory \in SetInventories : IsSetInventory(inventory)
================================================================================
