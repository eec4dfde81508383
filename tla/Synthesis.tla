------------------------------- MODULE Synthesis -------------------------------
(***************************************************************************)
(* One conversation of a run, from scheduling to its output row            *)
(* (SynthesisCoordinator._synthesize_job, synthesize_image,                *)
(* _finish_conversation, record_failed_image in pipeline.py), with the     *)
(* rows of RunStore that outlive the process.                              *)
(*                                                                         *)
(* A model call returns a value chosen here nondeterministically, or       *)
(* raises; what happens inside it is in ModelCalls.  Public texts are      *)
(* elements of small sets: two questions are the same element when         *)
(* repeated_public_question finds them equal, and PromptEchoes are the     *)
(* texts is_private_prompt_echo recognises.  A history hash is the         *)
(* sequence of messages it is the hash of.                                 *)
(***************************************************************************)
EXTENDS Integers, Sequences, Evaluation

CONSTANTS
    Questions,      \* what a generator may ask
    Answers,        \* what a generator may answer
    PromptEchoes,   \* the questions and answers that repeat a private prompt
    Generators,     \* repo_id of the models behind generator_a and generator_b
    Images,         \* image records a manifest may hold for this image_id
    PlannedCounts,  \* turn counts planned_turn_count may give
    Modes,          \* evaluation.mode
    RetainOptions,  \* evaluation.retain_accepted_prefix
    MinTurns,       \* data.min_turns
    MaxTurns,
    MaxStarts,      \* bound: how often the job is started
    None            \* no row, no job, no conversation yet

ASSUME CountsAssumption ==
    /\ MinTurns \in Nat \ {0}
    /\ MaxTurns \in Nat
    /\ PlannedCounts \subseteq MinTurns .. MaxTurns

ASSUME SettingsAssumption ==
    /\ Modes \subseteq {"holistic", "detailed"}
    /\ RetainOptions \subseteq BOOLEAN

VARIABLES
    settings,            \* what the configuration hash and the image id fix
    turnCommits,         \* durable: the turn_commit rows, by turn_index
    conversationCommit,  \* durable: the conversation_commit row
    stops,               \* durable: the "conversation-stops" artifacts
    returned,            \* conversations handed to the caller, over all processes
    starts,              \* how often the job was started
    pc,                  \* where the worker is
    job,                 \* the scheduled job: image record and generator
    turns,               \* local `turns`
    draft,               \* question and answer of the current turn
    result               \* the conversation under construction

durableVars == <<turnCommits, conversationCommit, stops>>
volatileVars == <<job, turns, draft, result>>
vars == <<settings, durableVars, returned, starts, pc, volatileVars>>

Message == Questions \X Answers

Turn == [index : 1 .. MaxTurns, generator : Generators, question : Questions,
         answer : Answers, history : Seq(Message),
         status : {"COMMITTED", "REJECTED", "ABSTAINED", "ERROR"}]

Statuses == {"QUALITY_CANDIDATE", "REJECTED", "ABSTAINED", "ERROR"}

Conversation == [image : Images, generator : Generators, turns : Seq(Turn),
                 status : Statuses]

ASSUME NoneAssumption == None \notin Conversation

Job == [image : Images, generator : Generators]

Draft == [question : Questions, answer : Answers \cup {None}, repaired : BOOLEAN]

FullDraft == [question : Questions, answer : Answers, repaired : BOOLEAN]

\* The worker waits for a model: each of these calls may raise.
ModelSteps == {"evidence", "select", "ask", "fit", "requirements", "answer",
               "rate", "repair"}

LocalSteps == {"lookup", "resume", "commit", "finish", "persist", "return", "failed"}

\* The process is gone: an exception left synthesize_batch.
Aborts == {"budgetAbort", "validationAbort"}

\* The public messages of a list of turns, which a history hash stands for.
Transcript(ts) == [i \in DOMAIN ts |-> <<ts[i].question, ts[i].answer>>]

\* The accepted turns of a list: only its last turn may be another one, as the
\* contract demands ("no turn may follow a non-committed turn").
CommittedPrefix(ts) ==
    IF ts # <<>> /\ ts[Len(ts)].status # "COMMITTED"
    THEN SubSeq(ts, 1, Len(ts) - 1) ELSE ts

\* prompts.is_private_prompt_echo
is_private_prompt_echo(text) == text \in PromptEchoes

\* Slip: the question is compared with the latest turn only.
RepeatsLatestQuestion(question, ts) ==
    ts # <<>> /\ ts[Len(ts)].question = question

\* evaluation.repeated_public_question: asked in one of the turns before.
repeated_public_question(question, ts) ==
    \E i \in DOMAIN ts : ts[i].question = question

\* What the locals hold at each step; the loop over turns has one left to do.
LocalsOK ==
    /\ pc \notin {"idle"} \cup Aborts => job \in Job
    /\ pc \in {"fit", "requirements", "answer"} => draft \in Draft
    /\ pc \in {"rate", "repair", "commit"} => draft \in FullDraft
    /\ pc \in {"finish", "persist", "return"} => result \in Conversation
    /\ pc \in ModelSteps \cup {"commit"} => Len(turns) < settings.count

TypeOK ==
    /\ settings \in [mode : Modes, retain : RetainOptions, count : PlannedCounts]
    /\ turnCommits \in Seq(Turn)
    /\ conversationCommit \in Conversation \cup {None}
    /\ stops \subseteq Conversation
    /\ returned \subseteq Conversation
    /\ starts \in Nat
    /\ pc \in {"idle"} \cup ModelSteps \cup LocalSteps \cup Aborts
    /\ job \in Job \cup {None}
    /\ turns \in Seq(Turn)
    /\ draft \in Draft \cup {None}
    /\ result \in Conversation \cup {None}
    /\ LocalsOK
-----------------------------------------------------------------------------
Init ==
    /\ settings \in [mode : Modes, retain : RetainOptions, count : PlannedCounts]
    /\ turnCommits = <<>>
    /\ conversationCommit = None
    /\ stops = {}
    /\ returned = {}
    /\ starts = 0
    /\ pc = "idle"
    /\ job = None
    /\ turns = <<>>
    /\ draft = None
    /\ result = None

\* The locals of synthesize_image go out of scope.
Forget == job' = None /\ turns' = <<>> /\ draft' = None /\ result' = None

\* The worker moves on; nothing but the named locals changes.
Goto(step) == pc' = step /\ UNCHANGED <<settings, returned, starts, job>>

\* A process takes up the job.  Its image record comes from the manifest, its
\* generator from exact_schedule over that manifest: both may differ from the
\* ones an earlier process had when the manifest changed in between.
Start ==
    /\ pc \in {"idle"} \cup Aborts
    /\ starts < MaxStarts
    /\ starts' = starts + 1
    /\ job' \in Job
    /\ pc' = IF settings.mode = "holistic" THEN "lookup" ELSE "resume"
    /\ turns' = <<>> /\ draft' = None /\ result' = None
    /\ UNCHANGED <<settings, durableVars, returned>>

\* Holistic: a finished conversation is returned as it was, never extended.
LookupConversation ==
    /\ pc = "lookup"
    /\ LET saved == conversationCommit IN
       \/ /\ saved = None
          /\ Goto("resume")
          /\ UNCHANGED result
       \/ /\ saved # None
          /\ saved.image # job.image \/ saved.generator # job.generator
          /\ Goto("failed")
          /\ UNCHANGED result
       \/ /\ saved # None
          /\ saved.image = job.image /\ saved.generator = job.generator
          /\ Goto("return")
          /\ result' = saved
    /\ UNCHANGED <<durableVars, turns, draft>>

ConversationOf(ts, status) ==
    [image |-> job.image, generator |-> job.generator, turns |-> ts, status |-> status]

\* Slip: the generator of the saved turns is not compared.
PrefixTooLong(ts) == Len(ts) > settings.count

\* The saved prefix conflicts with the current generation plan.
PrefixConflict(ts) ==
    \/ Len(ts) > settings.count
    \/ \E i \in DOMAIN ts :
          ts[i].status # "COMMITTED" \/ ts[i].generator # job.generator

\* All planned turns are there.
Complete(ts) == Len(ts) = settings.count

Resume ==
    /\ pc = "resume"
    /\ \/ /\ PrefixConflict(turnCommits)
          /\ Goto("failed")
          /\ UNCHANGED <<turns, result>>
       \/ /\ ~PrefixConflict(turnCommits)
          /\ turns' = turnCommits
          /\ IF Complete(turnCommits)
             THEN /\ Goto("finish")
                  /\ result' = ConversationOf(turnCommits, "QUALITY_CANDIDATE")
             ELSE /\ Goto("evidence")
                  /\ UNCHANGED result
    /\ UNCHANGED <<durableVars, draft>>

\* break, and the conversation the loop's end builds from `turns`.
EndLoop(ts, terminal_status) ==
    /\ Goto("finish")
    /\ draft' = None
    /\ turns' = ts
    /\ result' = ConversationOf(ts,
                    IF /\ \/ Len(ts) # settings.count
                          \/ \E i \in DOMAIN ts : ts[i].status # "COMMITTED"
                       /\ terminal_status = "QUALITY_CANDIDATE"
                    THEN "REJECTED" ELSE terminal_status)
    /\ UNCHANGED durableVars

\* The current turn goes on with the next call.
Continue(step, nextDraft) ==
    /\ Goto(step)
    /\ draft' = nextDraft
    /\ UNCHANGED <<durableVars, turns, result>>

ExtractEvidence == pc = "evidence" /\ Continue("select", None)

\* No candidate, or the selector chooses none of them.
SelectInstruction ==
    /\ pc = "select"
    /\ \/ Continue("ask", None)
       \/ EndLoop(turns, "REJECTED")

\* The generator declines, or its question is not usable in public.
AskQuestion ==
    /\ pc = "ask"
    /\ \/ EndLoop(turns, "REJECTED")
       \/ \E q \in Questions :
             IF is_private_prompt_echo(q) \/ repeated_public_question(q, turns)
             THEN EndLoop(turns, "REJECTED")
             ELSE Continue(IF settings.mode = "detailed" THEN "fit" ELSE "answer",
                           [question |-> q, answer |-> None, repaired |-> FALSE])

\* Detailed: two judges, three answers each; only their agreement goes on.
FitQuestion ==
    /\ pc = "fit"
    /\ \E first, second \in SUBSET JudgeVerdicts \ {{}} :
          LET fit == consensus(<<FitAggregate(first), FitAggregate(second)>>) IN
          IF fit = "MET"
          THEN Continue("requirements", draft)
          ELSE EndLoop(turns, PreAnswerStop(fit))

\* Detailed: both inventories complete and reconcilable, or not known.
ExtractRequirements ==
    /\ pc = "requirements"
    /\ \E verdict \in {"MET", "UNKNOWN"} :
          IF verdict = "MET"
          THEN Continue("answer", draft)
          ELSE EndLoop(turns, PreAnswerStop(verdict))

AnswerQuestion ==
    /\ pc = "answer"
    /\ \/ EndLoop(turns, "REJECTED")
       \/ \E a \in Answers :
             IF is_private_prompt_echo(a)
             THEN EndLoop(turns, "REJECTED")
             ELSE Continue("rate", [draft EXCEPT !.answer = a])

\* The draft as a turn of the conversation.
TurnOf(status) ==
    [index |-> Len(turns) + 1, generator |-> job.generator,
     question |-> draft.question, answer |-> draft.answer,
     history |-> Transcript(turns), status |-> status]

\* _rate_holistic checks the public texts once more before it asks anyone.
InvalidPublicText ==
    \/ is_private_prompt_echo(draft.question)
    \/ is_private_prompt_echo(draft.answer)
    \/ repeated_public_question(draft.question, turns)

\* The aggregates a rating may come to.  Detailed: some gates apply to every
\* turn, each comes out with some verdict.
HolisticAggregates ==
    IF InvalidPublicText THEN {aggregate_rating({"NOT_MET"})}
    ELSE {aggregate_rating({consensus(votes)}) : votes \in JudgeVerdicts \X JudgeVerdicts}

DetailedAggregates == {aggregate_rating(gates) : gates \in SUBSET GateVerdicts \ {{}}}

\* Slip: a repaired answer may be repaired again.
MayRepairAgain(aggregate) == aggregate = "FAIL" /\ settings.mode = "detailed"

\* A failed answer is repaired once, in detailed mode only.
MayRepair(aggregate) ==
    /\ aggregate = "FAIL"
    /\ settings.mode = "detailed"
    /\ ~draft.repaired

RateTurn ==
    /\ pc = "rate"
    /\ \E aggregate \in IF settings.mode = "holistic" THEN HolisticAggregates
                                                     ELSE DetailedAggregates :
          IF MayRepair(aggregate)
          THEN Continue("repair", draft)
          ELSE IF TurnStatus(aggregate) = "COMMITTED"
          THEN Continue("commit", draft)
          ELSE EndLoop(Append(turns, TurnOf(TurnStatus(aggregate))), TurnStatus(aggregate))

\* The repaired text replaces the answer and is rated again; without one the
\* failed rating stands.
RepairAnswer ==
    /\ pc = "repair"
    /\ \/ EndLoop(Append(turns, TurnOf("REJECTED")), "REJECTED")
       \/ \E a \in Answers :
             Continue("rate", [draft EXCEPT !.answer = a, !.repaired = TRUE])

\* The accepted turn becomes durable in one transaction (its artifact, written
\* just before, is not referenced by anything until then).
CommitTurn ==
    /\ pc = "commit"
    /\ LET turn == TurnOf("COMMITTED") IN
       /\ turnCommits' = Append(turnCommits, turn)
       /\ turns' = Append(turns, turn)
    /\ IF Complete(turns')
       THEN /\ Goto("finish")
            /\ result' = ConversationOf(turns', "QUALITY_CANDIDATE")
       ELSE Goto("select") /\ UNCHANGED result
    /\ draft' = None
    /\ UNCHANGED <<conversationCommit, stops>>

\* Slip: one turn less than the minimum is enough.
RetainsShorterPrefix(c) ==
    /\ settings.mode = "holistic"
    /\ settings.retain
    /\ c.status \in {"REJECTED", "ABSTAINED"}
    /\ Len(CommittedPrefix(c.turns)) >= MinTurns - 1

\* Holistic: a conversation stopped for quality keeps its accepted prefix.
RetainsPrefix(c) ==
    /\ settings.mode = "holistic"
    /\ settings.retain
    /\ c.status \in {"REJECTED", "ABSTAINED"}
    /\ Len(CommittedPrefix(c.turns)) >= MinTurns

Retained(c) ==
    [c EXCEPT !.turns = CommittedPrefix(c.turns), !.status = "QUALITY_CANDIDATE"]

\* Slip: the stop is written after the conversation was replaced.
StopAfterReplacement(c) == Retained(c)

\* The artifact that keeps the stopped attempt.
StopArtifact(c) == c

\* Slip: only quality candidates get a conversation_commit row.
AfterFinishCertifiedOnly ==
    IF settings.mode = "holistic" /\ result.status = "QUALITY_CANDIDATE"
    THEN "persist" ELSE "return"

AfterFinish == IF settings.mode = "holistic" THEN "persist" ELSE "return"

Finish ==
    /\ pc = "finish"
    /\ IF RetainsPrefix(result)
       THEN /\ stops' = stops \cup {StopArtifact(result)}
            /\ result' = Retained(result)
       ELSE UNCHANGED <<stops, result>>
    /\ Goto(AfterFinish)
    /\ UNCHANGED <<turnCommits, conversationCommit, turns, draft>>

Persist ==
    /\ pc = "persist"
    /\ conversationCommit' = result
    /\ Goto("return")
    /\ UNCHANGED <<turnCommits, stops, turns, draft, result>>

\* The caller appends the conversation to its output.
Return ==
    /\ pc = "return"
    /\ returned' = returned \cup {result}
    /\ pc' = "idle"
    /\ Forget
    /\ UNCHANGED <<settings, durableVars, starts>>

\* Slip: any turns may stand under any generator.
NeverRefused(ts) == FALSE

\* ConversationArtifact.validate_conversation refuses turns of another model.
RefusedByContract(ts) == \E i \in DOMAIN ts : ts[i].generator # job.generator

\* record_failed_image.  Its error artifact is diagnostic only.
RecordFailure ==
    /\ pc = "failed"
    /\ IF RefusedByContract(turnCommits)
       THEN pc' = "validationAbort" /\ UNCHANGED returned
       ELSE /\ returned' = returned \cup {ConversationOf(turnCommits, "ERROR")}
            /\ pc' = "idle"
    /\ Forget
    /\ UNCHANGED <<settings, durableVars, starts>>

\* An ExecutionError of a call ends this conversation; the batch goes on.
CallRaises ==
    /\ pc \in ModelSteps
    /\ Goto("failed")
    /\ turns' = <<>> /\ draft' = None /\ result' = None
    /\ UNCHANGED durableVars

\* An exhausted budget is an ExternalInputError: it ends the whole batch.
BudgetRefused ==
    /\ pc \in ModelSteps
    /\ pc' = "budgetAbort"
    /\ Forget
    /\ UNCHANGED <<settings, durableVars, returned, starts>>

\* The process dies; the bound leaves the last one alive.
Crash ==
    /\ pc \in ModelSteps \cup LocalSteps
    /\ starts < MaxStarts
    /\ pc' = "idle"
    /\ Forget
    /\ UNCHANGED <<settings, durableVars, returned, starts>>

Work ==
    \/ LookupConversation \/ Resume
    \/ ExtractEvidence \/ SelectInstruction \/ AskQuestion
    \/ FitQuestion \/ ExtractRequirements \/ AnswerQuestion
    \/ RateTurn \/ RepairAnswer \/ CommitTurn
    \/ Finish \/ Persist \/ Return \/ RecordFailure

Next == Start \/ Work \/ CallRaises \/ BudgetRefused \/ Crash

Spec == Init /\ [][Next]_vars

\* A running process keeps working, and a dead one is started again.
FairSpec == Spec /\ WF_vars(Work) /\ WF_vars(Start)
-----------------------------------------------------------------------------
\* Every conversation somebody can see: the caller has it or the store keeps it.
Conversations ==
    returned \cup IF conversationCommit = None THEN {} ELSE {conversationCommit}

\* A quality candidate is exactly the accepted turns in the store, and there are
\* enough of them, whatever was stopped, repeated or lost on the way
\* (_finish_conversation: "certify only the accepted public prefix").
CertifiedIsCommitted ==
    \A c \in Conversations :
        c.status = "QUALITY_CANDIDATE" =>
            c.turns = turnCommits /\ Len(c.turns) \in MinTurns .. MaxTurns

\* Across crashes, resumes and schedule changes the accepted turns are numbered
\* without gaps, come from one generator, and each was generated from exactly
\* the accepted turns before it (validate_conversation, build_history_snapshot).
HistoryFaithful ==
    \A i \in DOMAIN turnCommits :
        /\ turnCommits[i].status = "COMMITTED"
        /\ turnCommits[i].index = i
        /\ turnCommits[i].history = Transcript(SubSeq(turnCommits, 1, i - 1))
        /\ turnCommits[i].generator = turnCommits[1].generator

\* No public question is accepted twice in a conversation, in one process or
\* across several (repeated_public_question).
QuestionsDistinct ==
    \A i, j \in DOMAIN turnCommits :
        turnCommits[i].question = turnCommits[j].question => i = j

\* No accepted turn repeats a private prompt (README, "substantial
\* private-prompt echoes fail controller checks").
NoEchoCommitted ==
    \A i \in DOMAIN turnCommits :
        {turnCommits[i].question, turnCommits[i].answer} \cap PromptEchoes = {}

\* Holistic: every process that answers at all gives the same answer, the one
\* in the store; an operational error is never that answer (restart "returns
\* the recorded output").
ResultStable ==
    settings.mode = "holistic" =>
        /\ \A c \in returned : c.status # "ERROR" => c = conversationCommit
        /\ conversationCommit # None => conversationCommit.status # "ERROR"

\* An artifact keeps a stop for quality over exactly the turns of c: c's turns
\* come first in it, and it accepted no other.
StopOnRecord(c) ==
    \E stop \in stops :
        /\ stop.image = c.image
        /\ stop.status \in {"REJECTED", "ABSTAINED"}
        /\ Len(c.turns) <= Len(stop.turns)
        /\ \A i \in DOMAIN stop.turns :
              IF i \in DOMAIN c.turns THEN stop.turns[i] = c.turns[i]
                                     ELSE stop.turns[i].status # "COMMITTED"

\* A certified conversation shorter than planned has its stop on record: the
\* quality verdict that ended it, over the same accepted turns.
RetainedStopPreserved ==
    \A c \in Conversations :
        c.status = "QUALITY_CANDIDATE" /\ Len(c.turns) < settings.count => StopOnRecord(c)

\* Once a conversation is committed, no restart extends, shortens or replaces
\* it or its turns ("without extending a valid prefix").
SettledForever ==
    [][conversationCommit # None => UNCHANGED <<conversationCommit, turnCommits>>]_vars

\* As long as somebody starts the run again, the caller gets a conversation
\* for the image or the batch ends with a diagnosed abort: no round of
\* questions, repairs and resumes goes on for ever.
EventuallyAnswered == <>(returned # {} \/ pc \in Aborts)

\* The whole machine keeps the promises of ConversationLedger.
Ledger == INSTANCE ConversationLedger WITH
    Image <- Images, Generator <- Generators, NoVerdict <- None,
    durable <- (settings.mode = "holistic"), accepted <- turnCommits,
    verdict <- conversationCommit, announced <- returned

ImplementsLedger == Ledger!Spec
=================================================================================
