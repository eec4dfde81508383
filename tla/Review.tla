--------------------------------- MODULE Review ---------------------------------
(***************************************************************************)
(* How a turn earns its status (SynthesisCoordinator._question_fit,        *)
(* _extract_requirements, _rate_turn, _rate_holistic, _repair_answer) and  *)
(* how a stored conversation is judged anew (rate_existing, the command    *)
(* rate-existing).                                                         *)
(*                                                                         *)
(* Two callers use the same review: synthesize_image for one turn whose    *)
(* question is asked (what comes before and after is in Synthesis), and    *)
(* rate_existing for all turns of a conversation.  The judges are blind to *)
(* each other: a pair of calls is one step, its two results are chosen     *)
(* independently from small sets.                                          *)
(***************************************************************************)
EXTENDS Rubric

CONSTANTS
    Callers,                \* "synthesize", "rate"
    Settings,               \* evaluation's [mode, retain] (retain_accepted_prefix)
    MinTurns,               \* data.min_turns
    Instructions,           \* [family, profile] of selected instructions
    Questions,              \* public questions, equal when one repeats the other
    Answers,
    PromptEchoes,           \* texts that is_private_prompt_echo recognises
    Prose,                  \* answers that contain a letter
    Claims,                 \* [answer, span]: what may be claimed in an answer
    Ballots,                \* pairs of votes of the two judges
    FitBallots,             \* pairs of question-fit aggregates
    ClaimInventories,       \* [claims, coverage] a judge may send, by answer
    RequirementInventories, \* [requirements, extraction_complete], by turn index
    ComputationInventories,
    SetInventories,
    Canonical,              \* see Requirements
    Histories,              \* accepted messages before a turn of synthesize_image
    Stored                  \* turns of conversations rate-existing may be given

\* What the contracts and the controller's binding of spans leave of an answer.
ASSUME JudgesAssumption ==
    /\ Ballots \subseteq JudgeVerdicts \X JudgeVerdicts
    /\ FitBallots \subseteq JudgeVerdicts \X JudgeVerdicts
    /\ \A a \in Answers : \A inventory \in ClaimInventories[a] :
          /\ inventory.claims \in SUBSET Claims /\ IsFiniteSet(inventory.claims)
          /\ \A c \in inventory.claims : c.answer = a
    /\ \A history \in Histories :
          \A inventory \in RequirementInventories[Len(history) + 1] :
              IsFiniteSet(DOMAIN inventory.requirements)
    /\ \A first, second \in ComputationInventories :
          verify_computation_inventories(first, second) # None

ASSUME ConversationsAssumption ==
    /\ Callers \subseteq {"synthesize", "rate"}
    /\ Settings \subseteq [mode : {"detailed", "holistic"}, retain : BOOLEAN]
    /\ MinTurns \in Nat
    /\ Histories \subseteq Seq(Questions \X Answers)
    /\ \A turns \in Stored :
          /\ turns \in Seq(Range(turns))
          /\ \A i \in DOMAIN turns :
                turns[i].answer \in Answers /\ IsFiniteSet(turns[i].requirements)

Public == INSTANCE Requirements

VARIABLES
    caller,
    settings,     \* the configuration
    stored,       \* the turns of the conversation to rate
    pc,
    transcript,   \* the public messages before the current turn
    turn,         \* the turn under review
    fits,         \* the judges' question-fit aggregates
    inventories,  \* their claim inventories
    computation,  \* ComputationCheck, or None
    set_check,    \* SetCheck, or None
    asks,         \* the rubric questions still to ask
    items,        \* the rubric items decided so far
    rated,        \* the turns that got a status
    stops,        \* durable: the "conversation-stops" artifacts
    outcome       \* what the caller returns, or None

reviewVars == <<fits, inventories, computation, set_check, asks, items>>
vars == <<caller, settings, stored, pc, transcript, turn, reviewVars, rated, stops, outcome>>

\* Steps that wait for a model, each of which may raise.
ModelSteps == {"fit", "requirements", "answer", "claims", "computation", "set", "items",
               "holistic", "repair"}

Ends == {"done", "raised"}

TurnStatuses == {"COMMITTED", "REJECTED", "ABSTAINED", "ERROR"}

Detailed == settings.mode = "detailed"

\* A turn that is to be reviewed.
Draft(index, instruction, question, answer, requirements) ==
    [index |-> index, instruction |-> instruction, question |-> question,
     answer |-> answer, requirements |-> requirements, repaired |-> FALSE]

\* Slip: what the first judge found is all there is.
ClaimsOfFirst == inventories[1].claims

\* _claim_union: what either judge found, each span once.  (Spans are bound to
\* the answer by the controller, so that none of them can fail to be one.)
ClaimUnion == inventories[1].claims \cup inventories[2].claims

Coverage == consensus(<<inventories[1].coverage, inventories[2].coverage>>)

\* What the controller knows of the turn when it asks for rubric items.
Context ==
    RubricContext(turn.index, turn.instruction.profile, turn.answer \in Prose,
                  turn.requirements, ClaimUnion, computation # None,
                  {r \in turn.requirements : r.source # turn.index},
                  turn.instruction.family = "visible_count")

\* The public texts of the current turn that a holistic review does not ask about.
InvalidPublicText ==
    \/ {turn.question, turn.answer} \cap PromptEchoes # {}
    \/ \E i \in DOMAIN transcript : transcript[i][1] = turn.question

TypeOK ==
    /\ caller \in Callers
    /\ settings \in Settings
    /\ pc \in ModelSteps \cup Ends \cup {"next", "plan", "aggregate", "conclude"}
    /\ pc \in ModelSteps \cup {"aggregate"} => turn.index = Len(transcript) + 1
    /\ pc \in ModelSteps \ {"fit", "requirements", "answer"} => turn.answer \in Answers
    /\ pc \in {"computation", "set", "plan", "items", "aggregate"} => ClaimUnion \subseteq Claims
    /\ (pc = "items") = (asks # <<>>)
    /\ \A i \in DOMAIN rated : rated[i].status \in TurnStatuses
    /\ outcome = None
          \/ outcome.status \in TurnStatuses \cup {"QUALITY_CANDIDATE"}
-----------------------------------------------------------------------------
\* The first call about a turn.
FirstStep == IF Detailed THEN "fit" ELSE IF caller = "rate" THEN "holistic" ELSE "answer"

NothingFound ==
    /\ fits = <<>> /\ inventories = <<>> /\ computation = None /\ set_check = None
    /\ asks = <<>> /\ items = <<>>

\* synthesize_image has asked a question that is usable in public.
InitSynthesize ==
    /\ caller = "synthesize"
    /\ stored = <<>>
    /\ transcript \in Histories
    /\ \E instruction \in Instructions, q \in Questions \ PromptEchoes :
          /\ \A i \in DOMAIN transcript : transcript[i][1] # q
          /\ turn = Draft(Len(transcript) + 1, instruction, q, None, {})
    /\ pc = FirstStep

InitRate ==
    /\ caller = "rate"
    /\ stored \in Stored
    /\ transcript = <<>>
    /\ turn = None
    /\ pc = "next"

Init ==
    /\ settings \in Settings
    /\ caller \in Callers
    /\ InitSynthesize \/ InitRate
    /\ NothingFound
    /\ rated = <<>> /\ stops = {} /\ outcome = None

\* Only the named part of the review changes.
Goto(step) ==
    /\ pc' = step
    /\ UNCHANGED <<caller, settings, stored, transcript, rated, stops, outcome>>

Forget ==
    /\ turn' = None /\ fits' = <<>> /\ inventories' = <<>>
    /\ computation' = None /\ set_check' = None /\ asks' = <<>> /\ items' = <<>>

\* synthesize_image ends without a turn.
StopBefore(status) ==
    /\ pc' = "done"
    /\ outcome' = [turns |-> rated, status |-> status]
    /\ UNCHANGED <<caller, settings, stored, transcript, turn, inventories, computation,
                   set_check, asks, items, rated, stops>>

\* The turn as it is kept; `votes` and `decided` are the review's last results.
Rated(aggregate, votes, decided) ==
    [index |-> turn.index, instruction |-> turn.instruction, question |-> turn.question,
     answer |-> turn.answer, requirements |-> turn.requirements, history |-> transcript,
     fits |-> votes, inventories |-> inventories, computation |-> computation,
     set_check |-> set_check, items |-> decided, status |-> TurnStatus(aggregate)]

\* The turn gets its status; only an accepted one is history for the next.
EndTurn(aggregate, votes, decided) ==
    /\ rated' = Append(rated, Rated(aggregate, votes, decided))
    /\ transcript' = IF TurnStatus(aggregate) = "COMMITTED"
                     THEN Append(transcript, <<turn.question, turn.answer>>)
                     ELSE transcript
    /\ Forget
    /\ IF caller = "synthesize"
       THEN pc' = "done" /\ outcome' = [turns |-> rated', status |-> TurnStatus(aggregate)]
       ELSE pc' = "next" /\ UNCHANGED outcome
    /\ UNCHANGED <<caller, settings, stored, stops>>

\* Slip: the loop goes on after a turn that was not accepted.
GoesOnAfterAny(ts) == TRUE

\* rate_existing breaks at the first turn that is not accepted.
GoesOn(ts) == ts = <<>> \/ Last(ts).status = "COMMITTED"

NextTurn ==
    /\ pc = "next"
    /\ IF Len(rated) < Len(stored) /\ GoesOn(rated)
       THEN LET t == stored[Len(rated) + 1] IN
            /\ turn' = Draft(Len(rated) + 1, t.instruction, t.question, t.answer, t.requirements)
            /\ Goto(FirstStep)
       ELSE Goto("conclude") /\ UNCHANGED turn
    /\ UNCHANGED reviewVars

\* Two judges; only their agreement lets the turn pass.
FitQuestion ==
    /\ pc = "fit"
    /\ \E votes \in FitBallots :
          LET fit == consensus(votes) IN
          \/ /\ fit = "MET"
             /\ Goto(IF caller = "synthesize" THEN "requirements" ELSE "claims")
             /\ fits' = votes
             /\ UNCHANGED <<turn, inventories, computation, set_check, asks, items>>
          \/ /\ fit # "MET" /\ caller = "synthesize"
             /\ StopBefore(PreAnswerStop(fit))
             /\ fits' = votes
          \/ /\ fit # "MET" /\ caller = "rate"
             /\ EndTurn(IF fit = "UNKNOWN" THEN "ABSTAIN" ELSE "FAIL", votes, <<>>)

\* The requirements in force, before anybody has seen an answer.
ExtractRequirements ==
    /\ pc = "requirements"
    /\ \E first, second \in RequirementInventories[turn.index] :
          LET agreed == Public!reconcile_inventories(first, second, turn.index) IN
          IF agreed = None
          THEN StopBefore("ABSTAINED") /\ UNCHANGED fits
          ELSE /\ turn' = [turn EXCEPT !.requirements = agreed]
               /\ Goto("answer")
               /\ UNCHANGED reviewVars

\* The generator declines, or repeats a private prompt, or answers.
AnswerQuestion ==
    /\ pc = "answer"
    /\ \/ StopBefore("REJECTED") /\ UNCHANGED fits
       \/ \E a \in Answers \ PromptEchoes :
             /\ turn' = [turn EXCEPT !.answer = a]
             /\ Goto(IF Detailed THEN "claims" ELSE "holistic")
             /\ UNCHANGED reviewVars

\* After the claims, the checks that the instruction's family calls for.
AfterClaims ==
    CASE turn.instruction.family = "grounded_calculation" -> "computation"
      [] turn.instruction.family = "visible_count" -> "set"
      [] OTHER -> "plan"

InventoryClaims ==
    /\ pc = "claims"
    /\ \E first, second \in ClaimInventories[turn.answer] : inventories' = <<first, second>>
    /\ Goto(AfterClaims)
    /\ UNCHANGED <<turn, fits, computation, set_check, asks, items>>

CheckComputation ==
    /\ pc = "computation"
    /\ \E first, second \in ComputationInventories :
          computation' = verify_computation_inventories(first, second)
    /\ Goto("plan")
    /\ UNCHANGED <<turn, fits, inventories, set_check, asks, items>>

CheckCompleteSet ==
    /\ pc = "set"
    /\ \E first, second \in SetInventories :
          set_check' = verify_set_inventories(first, second)
    /\ Goto("plan")
    /\ UNCHANGED <<turn, fits, inventories, computation, asks, items>>

\* The applicable items, each for each of its subjects.
PlanItems ==
    /\ pc = "plan"
    /\ asks' = Plan(Context)
    /\ Goto("items")
    /\ UNCHANGED <<turn, fits, inventories, computation, set_check, items>>

\* Slip: the last question is not asked.
AllAskedButOne(rest) == Len(rest) <= 1

AllAsked(rest) == rest = <<>>

\* One item of one subject: both judges vote, the controller decides.
RateItem ==
    /\ pc = "items"
    /\ \E votes \in Ballots :
          items' = Append(items,
              [template |-> Head(asks).template, subject |-> Head(asks).subject,
               votes |-> votes, about |-> turn.answer,
               verdict |-> ItemVerdict(Head(asks).template, votes, Coverage,
                                       computation, set_check)])
    /\ asks' = Tail(asks)
    /\ Goto(IF AllAsked(Tail(asks)) THEN "aggregate" ELSE "items")
    /\ UNCHANGED <<turn, fits, inventories, computation, set_check>>

\* Slip: a repaired answer may be repaired again.
MayRepairAgain(aggregate) == aggregate = "FAIL" /\ caller = "synthesize"

MayRepair(aggregate) == aggregate = "FAIL" /\ caller = "synthesize" /\ ~turn.repaired

Aggregate ==
    /\ pc = "aggregate"
    /\ LET aggregate == aggregate_rating(GateVerdictsOf(items)) IN
       IF MayRepair(aggregate)
       THEN Goto("repair") /\ UNCHANGED <<turn, reviewVars>>
       ELSE EndTurn(aggregate, fits, items)

\* Slip: the rubric is asked again, what it is asked about stays.
ReviseKeepingExtractions(a) ==
    /\ turn' = [turn EXCEPT !.answer = a, !.repaired = TRUE]
    /\ items' = <<>>
    /\ Goto("plan")
    /\ UNCHANGED <<fits, inventories, computation, set_check, asks>>

\* The repaired text takes the answer's place and is rated from the beginning.
Revise(a) ==
    /\ turn' = [turn EXCEPT !.answer = a, !.repaired = TRUE]
    /\ inventories' = <<>> /\ computation' = None /\ set_check' = None /\ items' = <<>>
    /\ Goto("claims")
    /\ UNCHANGED <<fits, asks>>

\* Without a repaired text the failed rating stands.
RepairAnswer ==
    /\ pc = "repair"
    /\ \/ EndTurn("FAIL", fits, items)
       \/ \E a \in Answers : Revise(a)

\* Holistic: one item, asked only about texts that are fit to be asked about.
Holistic(votes, verdict) ==
    <<[template |-> [template_id |-> "Q_HOLISTIC", default_use |-> "gate"],
       subject |-> Singleton, votes |-> votes, about |-> turn.answer, verdict |-> verdict]>>

RateHolistic ==
    /\ pc = "holistic"
    /\ \/ /\ InvalidPublicText
          /\ EndTurn("FAIL", fits, Holistic(<<>>, "NOT_MET"))
       \/ /\ ~InvalidPublicText
          /\ \E votes \in Ballots :
                LET decided == Holistic(votes, consensus(votes)) IN
                EndTurn(aggregate_rating(GateVerdictsOf(decided)), fits, decided)

\* What the loop's end makes of the rated turns.
Terminal ==
    LET stopped == ~GoesOn(rated) IN
    IF Detailed /\ Len(rated) # Len(stored) THEN "REJECTED"
    ELSE IF stopped THEN Last(rated).status
    ELSE IF Len(rated) < MinTurns THEN "REJECTED" ELSE "QUALITY_CANDIDATE"

CommittedPrefix(ts) == Filtered(ts, {i \in DOMAIN ts : ts[i].status = "COMMITTED"})

\* Slip: one turn less than the minimum is enough.
RetainsShorterPrefix(ts, status) ==
    /\ ~Detailed /\ settings.retain
    /\ status \in {"REJECTED", "ABSTAINED"}
    /\ Len(CommittedPrefix(ts)) >= MinTurns - 1

\* _finish_conversation keeps the accepted prefix of a holistic stop.
RetainsPrefix(ts, status) ==
    /\ ~Detailed /\ settings.retain
    /\ status \in {"REJECTED", "ABSTAINED"}
    /\ Len(CommittedPrefix(ts)) >= MinTurns

Conclude ==
    /\ pc = "conclude"
    /\ pc' = "done"
    /\ IF RetainsPrefix(rated, Terminal)
       THEN /\ stops' = stops \cup {[turns |-> rated, status |-> Terminal]}
            /\ outcome' = [turns |-> CommittedPrefix(rated), status |-> "QUALITY_CANDIDATE"]
       ELSE /\ outcome' = [turns |-> rated, status |-> Terminal]
            /\ UNCHANGED stops
    /\ UNCHANGED <<caller, settings, stored, transcript, turn, reviewVars, rated>>

\* An ExecutionError: synthesize_image's caller reports the image as failed;
\* rate-existing ends without having written any conversation.
CallRaises ==
    /\ pc \in ModelSteps
    /\ Goto("raised")
    /\ Forget

\* The caller has its result.
Ended ==
    /\ pc \in Ends
    /\ UNCHANGED vars

Next ==
    \/ NextTurn \/ FitQuestion \/ ExtractRequirements \/ AnswerQuestion \/ InventoryClaims
    \/ CheckComputation \/ CheckCompleteSet \/ PlanItems \/ RateItem \/ Aggregate
    \/ RepairAnswer \/ RateHolistic \/ Conclude \/ CallRaises \/ Ended

Spec == Init /\ [][Next]_vars
-----------------------------------------------------------------------------
Accepted == {rated[i] : i \in {j \in DOMAIN rated : rated[j].status = "COMMITTED"}}

\* Both judges say yes to a question about the turn.
BothMet(t, template_id, subject) ==
    \E i \in DOMAIN t.items :
        /\ t.items[i].template.template_id = template_id
        /\ t.items[i].subject = subject
        /\ t.items[i].votes = <<"MET", "MET">>

\* What an accepted turn has to show, by mode.
HasGrounds(t) ==
    IF ~Detailed
    THEN /\ BothMet(t, "Q_HOLISTIC", Singleton)
         /\ {t.question, t.answer} \cap PromptEchoes = {}
         /\ \A i \in DOMAIN t.history : t.history[i][1] # t.question
    ELSE /\ t.fits = <<"MET", "MET">>
         /\ \A judge \in 1 .. 2 :
               /\ \A c \in t.inventories[judge].claims : BothMet(t, "C_CLAIM", c)
               /\ t.inventories[judge].coverage = "MET"
         /\ \A r \in t.requirements : BothMet(t, "R_REQUIREMENT", r)
         /\ BothMet(t, "R_CORE", Singleton) /\ BothMet(t, "C_COVERAGE", Singleton)
         /\ t.instruction.family = "grounded_calculation" =>
               IsExact(t.computation.typed_rule_inputs)
         /\ t.instruction.family = "visible_count" =>
               /\ BothMet(t, "C_SET_COMPLETE", Singleton)
               /\ t.set_check # None
               /\ t.set_check.missing \cup t.set_check.unexpected
                     \cup t.set_check.duplicates = {}

\* Nothing is accepted that a judge did not see or did not agree to.  Holistic:
\* two yes votes on usable public text.  Detailed: on the question, on every
\* claim that either judge found, on every requirement, on the completeness of
\* the claims, by word and by inventory; a calculation is exactly right and an
\* exhaustive answer complete (docs/pipeline/generation-and-evaluation.md, "At a
\* required gate, two MET verdicts pass"; for the next sentence there see
\* RejectionHasGround).
AcceptedHasGrounds == \A t \in Accepted : HasGrounds(t)

\* Both judges say no, or an exact check that rests on what both extracted.
Refuted(t) ==
    \/ t.fits = <<"NOT_MET", "NOT_MET">>
    \/ \E i \in DOMAIN t.items :
          /\ t.items[i].template.default_use = "gate"
          /\ t.items[i].votes = <<"NOT_MET", "NOT_MET">>
    \/ t.computation # None /\ t.computation.verdict = "NOT_MET"
    \/ t.set_check # None /\ t.set_check.verdict = "NOT_MET"
    \/ {t.question, t.answer} \cap PromptEchoes # {}
    \/ \E i \in DOMAIN t.history : t.history[i][1] = t.question

\* No turn is rejected because the judges disagree or cannot tell
\* (docs/workflow.md, "Disagreement, insufficient evidence, and transport or
\* schema errors remain distinct from a clear failure"; generation-and-evaluation.md
\* on the status ABSTAINED, "insufficient evidence or evaluator disagreement").
\* One sentence of the latter says otherwise of a gate, "Any NOT_MET gives a clear
\* failure": the code takes a single NOT_MET for a disagreement.
RejectionHasGround ==
    \A i \in DOMAIN rated : rated[i].status = "REJECTED" => Refuted(rated[i])

\* What was extracted and voted on speaks of the turn's answer.
IsOfItsAnswer(t) ==
    /\ \A k \in DOMAIN t.items :
          /\ t.items[k].about = t.answer
          /\ t.items[k].template.template_id = "C_CLAIM" => t.items[k].subject.answer = t.answer
    /\ \A judge \in DOMAIN t.inventories :
          \A c \in t.inventories[judge].claims : c.answer = t.answer

\* A rating is about the answer that gets its status, and about all of it: after
\* a repair no claim, no vote and no check of the replaced answer is left
\* ("A repaired answer never inherits the old pass results").
RatingIsOfThisAnswer == \A i \in DOMAIN rated : IsOfItsAnswer(rated[i])

\* Texts of a turn, which no rating changes.
Text(t) == <<t.question, t.answer>>

\* What rate-existing returns is a conversation in its own right, although
\* model_copy checks nothing: a prefix of the stored public text, each turn
\* rated on exactly the turns accepted before it, none after one that was not
\* accepted; a quality candidate has enough turns, every one accepted anew, and
\* where it is shorter than what was stored the stop that cut it is on record.
ReratedSound ==
    caller = "rate" /\ pc = "done" =>
        LET ts == outcome.turns
            certified == outcome.status = "QUALITY_CANDIDATE"
        IN
        /\ Len(ts) <= Len(stored)
        /\ \A i \in DOMAIN ts :
              /\ Text(ts[i]) = Text(stored[i])
              /\ ts[i].history = [k \in 1 .. i - 1 |-> Text(ts[k])]
              /\ i < Len(ts) \/ certified => ts[i].status = "COMMITTED"
        /\ certified => Len(ts) >= MinTurns
        /\ certified /\ Len(ts) < Len(stored) =>
              \E stop \in stops :
                  Len(stop.turns) = Len(ts) + 1 /\ SubSeq(stop.turns, 1, Len(ts)) = ts

\* The order of the steps of a turn's review.
Place ==
    CASE pc \in Ends -> 0
      [] pc = "conclude" -> 1
      [] pc = "repair" -> 2
      [] pc \in {"aggregate", "holistic"} -> 3
      [] pc = "items" -> 4
      [] pc = "plan" -> 5
      [] pc \in {"computation", "set"} -> 6
      [] pc = "claims" -> 7
      [] pc = "answer" -> 8
      [] pc = "requirements" -> 9
      [] pc = "fit" -> 10
      [] OTHER -> 11

\* Turns, repairs of this turn, steps and rubric questions still possible.
StepsLeft ==
    <<(IF caller = "rate" THEN Len(stored) ELSE 1) - Len(rated),
      IF pc \in Ends \/ (pc \notin {"next", "conclude"} /\ turn.repaired) THEN 0 ELSE 1,
      Place, Len(asks)>>

\* The order of sequences by their first difference.
Below(s, t) == \E i \in DOMAIN s : s[i] < t[i] /\ \A j \in 1 .. i - 1 : s[j] = t[j]

\* Every review ends, whatever the judges say: each step leaves fewer, in a well
\* founded order, so the repair is no loop and no turn is rated twice.  (There
\* is always a step: the runs look for deadlocks, and every call ends by
\* ModelCalls!CallsEnd.)
ReviewEnds == [](StepsLeft \in [1 .. 4 -> Nat]) /\ [][Below(StepsLeft', StepsLeft)]_vars

\* A re-rated conversation that stops by disagreement or by an error ends as
\* such, not as a failure (docs/pipeline/generation-and-evaluation.md: ABSTAINED
\* is "insufficient evidence or evaluator disagreement", REJECTED "a definite
\* quality failure or unsuitable plan").
StopKeepsItsKind ==
    caller = "rate" /\ pc = "done" /\ ~GoesOn(rated) =>
        outcome.status \in {Last(rated).status, "QUALITY_CANDIDATE"}
================================================================================
