---------------------------- MODULE SynthesisProofs ----------------------------
(***************************************************************************)
(* For every choice of questions, answers, generators, images, planned     *)
(* counts and numbers of restarts: Synthesis keeps its types, its accepted *)
(* turns are a faithful history, what it certifies is what it committed,   *)
(* and a committed conversation is never touched again.                    *)
(***************************************************************************)
EXTENDS Synthesis, SequenceTheorems, TLAPS

\* The steps of the loop over turns.
LoopSteps == ModelSteps \cup {"commit"}

\* In the loop, `turns` mirrors the store, one generator made them all, and the
\* conversation is not settled.
LoopMirrorsStore ==
    pc \in LoopSteps =>
        /\ turns = turnCommits
        /\ \A i \in DOMAIN turnCommits : turnCommits[i].generator = job.generator
        /\ conversationCommit = None

\* A list of turns is the accepted ones, or those and one that was not accepted.
Accounts(ts) ==
    \/ ts = turnCommits
    \/ \E t \in Turn : t.status # "COMMITTED" /\ ts = Append(turnCommits, t)

OneGenerator(c) == \A i \in DOMAIN c.turns : c.turns[i].generator = c.generator

Certified(c) ==
    c.status = "QUALITY_CANDIDATE" =>
        c.turns = turnCommits /\ Len(c.turns) \in MinTurns .. MaxTurns

\* Nothing more will be accepted.
Closed == conversationCommit # None \/ Len(turnCommits) = settings.count

ResultAccounted ==
    pc \in {"finish", "persist", "return"} =>
        Accounts(result.turns) /\ OneGenerator(result) /\ Certified(result)

FinishOpen ==
    /\ pc \in {"resume", "finish", "persist"} => conversationCommit = None
    /\ pc \in {"lookup", "persist"} => settings.mode = "holistic"
    /\ pc = "finish" /\ result.status = "QUALITY_CANDIDATE" =>
          Len(turnCommits) = settings.count
    /\ pc = "return" => IF settings.mode = "holistic"
                        THEN result = conversationCommit /\ conversationCommit # None
                        ELSE result.status = "QUALITY_CANDIDATE" =>
                                Len(turnCommits) = settings.count

CommitAccounted ==
    conversationCommit # None =>
        /\ settings.mode = "holistic"
        /\ Accounts(conversationCommit.turns)
        /\ OneGenerator(conversationCommit)
        /\ Certified(conversationCommit)

ReturnedClosed ==
    \A c \in returned :
        /\ Certified(c)
        /\ c.status = "QUALITY_CANDIDATE" => Closed

SynthesisInv ==
    /\ TypeOK
    /\ HistoryFaithful
    /\ LoopMirrorsStore
    /\ ResultAccounted
    /\ FinishOpen
    /\ CommitAccounted
    /\ ReturnedClosed
-----------------------------------------------------------------------------
LEMMA InitInv == Init => SynthesisInv
  <1> SUFFICES ASSUME Init PROVE SynthesisInv
    OBVIOUS
  <1>1. TypeOK
    BY DEF Init, TypeOK, LocalsOK, Aborts, ModelSteps
  <1>2. HistoryFaithful
    BY DEF Init, HistoryFaithful
  <1>3. LoopMirrorsStore
    BY DEF Init, LoopMirrorsStore, LoopSteps, ModelSteps
  <1>4. ResultAccounted
    BY DEF Init, ResultAccounted
  <1>5. FinishOpen
    BY DEF Init, FinishOpen
  <1>6. CommitAccounted /\ ReturnedClosed
    BY DEF Init, CommitAccounted, ReturnedClosed
  <1> QED BY <1>1, <1>2, <1>3, <1>4, <1>5, <1>6 DEF SynthesisInv

\* What a history hash stands for is a sequence of messages.
LEMMA TranscriptType ==
    ASSUME NEW ts \in Seq(Turn)
    PROVE  Transcript(ts) \in Seq(Message)
  <1>1. ASSUME NEW i \in 1 .. Len(ts)
        PROVE  <<ts[i].question, ts[i].answer>> \in Message
    <2>1. ts[i] \in Turn
      OBVIOUS
    <2> QED BY <2>1 DEF Turn, Message
  <1>2. Transcript(ts) = [i \in 1 .. Len(ts) |-> <<ts[i].question, ts[i].answer>>]
    BY DEF Transcript
  <1>3. Transcript(ts) \in [1 .. Len(ts) -> Message]
    BY <1>1, <1>2
  <1> QED BY <1>3, SeqDef

\* The planned count is one a quality candidate may have.
LEMMA PlannedCountType ==
    ASSUME TypeOK
    PROVE  settings.count \in Nat /\ settings.count \in MinTurns .. MaxTurns
  <1>1. settings.count \in PlannedCounts
    BY DEF TypeOK
  <1>2. settings.count \in MinTurns .. MaxTurns
    BY <1>1, CountsAssumption
  <1>3. MinTurns \in Nat
    BY CountsAssumption
  <1> QED BY <1>2, <1>3

\* What the step does not write stays accounted for.
LEMMA StoreFrame ==
    ASSUME SynthesisInv, UNCHANGED <<settings, durableVars>>
    PROVE  /\ HistoryFaithful'
           /\ CommitAccounted'
           /\ UNCHANGED returned => ReturnedClosed'
  <1>1. HistoryFaithful'
    BY DEF SynthesisInv, HistoryFaithful, durableVars
  <1>2. CommitAccounted'
    BY DEF SynthesisInv, CommitAccounted, Accounts, OneGenerator, Certified, durableVars
  <1>3. UNCHANGED returned => ReturnedClosed'
    BY DEF SynthesisInv, ReturnedClosed, Certified, Closed, durableVars
  <1> QED BY <1>1, <1>2, <1>3

\* The worker goes on within the loop.
LEMMA ContinueInv ==
    ASSUME SynthesisInv, pc \in LoopSteps,
           NEW step \in LoopSteps, NEW next \in Draft \cup {None},
           step \in {"fit", "requirements", "answer"} => next \in Draft,
           step \in {"rate", "repair", "commit"} => next \in FullDraft,
           Continue(step, next)
    PROVE  SynthesisInv'
  <1> USE DEF Continue, Goto, durableVars
  <1>1. TypeOK'
    BY DEF SynthesisInv, TypeOK, LocalsOK, LoopSteps, ModelSteps, LocalSteps, Aborts
  <1>2. HistoryFaithful' /\ CommitAccounted' /\ ReturnedClosed'
    BY StoreFrame
  <1>3. LoopMirrorsStore'
    BY DEF SynthesisInv, LoopMirrorsStore
  <1>4. ResultAccounted' /\ FinishOpen'
    BY DEF ResultAccounted, FinishOpen, LoopSteps, ModelSteps
  <1> QED BY <1>1, <1>2, <1>3, <1>4 DEF SynthesisInv

\* The loop ends without a quality candidate.
LEMMA EndLoopInv ==
    ASSUME SynthesisInv, pc \in LoopSteps,
           NEW ts \in Seq(Turn), NEW status \in {"REJECTED", "ABSTAINED", "ERROR"},
           \/ ts = turns
           \/ \E t \in Turn : /\ t.status # "COMMITTED" /\ t.generator = job.generator
                              /\ ts = Append(turns, t),
           EndLoop(ts, status)
    PROVE  SynthesisInv'
  <1> USE DEF EndLoop, Goto, durableVars
  <1>1. result' = ConversationOf(ts, status)
    OBVIOUS
  <1>2. job \in Job
    BY DEF SynthesisInv, TypeOK, LocalsOK, LoopSteps, ModelSteps, Aborts
  <1>3. ConversationOf(ts, status) \in Conversation
    BY <1>2 DEF ConversationOf, Conversation, Statuses, Job
  <1>4. TypeOK'
    BY <1>1, <1>3 DEF SynthesisInv, TypeOK, LocalsOK, LoopSteps, ModelSteps, LocalSteps, Aborts
  <1>5. HistoryFaithful' /\ CommitAccounted' /\ ReturnedClosed'
    BY StoreFrame
  <1>6. Accounts(ts) /\ \A i \in DOMAIN ts : ts[i].generator = job.generator
    BY DEF SynthesisInv, TypeOK, LoopMirrorsStore, Accounts
  <1>7. ResultAccounted'
    BY <1>1, <1>6 DEF ResultAccounted, Accounts, OneGenerator, Certified, ConversationOf
  <1>8. LoopMirrorsStore' /\ FinishOpen'
    BY <1>1 DEF SynthesisInv, LoopMirrorsStore, FinishOpen, ConversationOf, LoopSteps, ModelSteps
  <1> QED BY <1>4, <1>5, <1>7, <1>8 DEF SynthesisInv

\* Between two jobs nothing is under way.
LEMMA ForgetInv ==
    ASSUME SynthesisInv, Forget, pc' \in {"idle"} \cup Aborts,
           UNCHANGED <<settings, durableVars, starts>>,
           returned' \subseteq Conversation, ReturnedClosed'
    PROVE  SynthesisInv'
  <1>1. TypeOK'
    BY DEF SynthesisInv, TypeOK, LocalsOK, Forget, durableVars, ModelSteps, Aborts
  <1>2. HistoryFaithful' /\ CommitAccounted'
    BY StoreFrame
  <1>3. LoopMirrorsStore' /\ ResultAccounted' /\ FinishOpen'
    BY DEF LoopMirrorsStore, ResultAccounted, FinishOpen, LoopSteps, ModelSteps, Aborts
  <1> QED BY <1>1, <1>2, <1>3 DEF SynthesisInv
-----------------------------------------------------------------------------
LEMMA StartInv == ASSUME SynthesisInv, Start PROVE SynthesisInv'
  <1> USE DEF Start
  <1>1. pc' \in {"lookup", "resume"} /\ job' \in Job /\ UNCHANGED <<settings, durableVars>>
    OBVIOUS
  <1>2. TypeOK'
    BY <1>1 DEF SynthesisInv, TypeOK, LocalsOK, LocalSteps, ModelSteps, Aborts, durableVars
  <1>3. HistoryFaithful' /\ CommitAccounted' /\ ReturnedClosed'
    BY StoreFrame DEF Start
  <1>4. LoopMirrorsStore' /\ ResultAccounted'
    BY <1>1 DEF LoopMirrorsStore, ResultAccounted, LoopSteps, ModelSteps
  <1>5. FinishOpen'
    BY DEF SynthesisInv, FinishOpen, CommitAccounted, durableVars
  <1> QED BY <1>2, <1>3, <1>4, <1>5 DEF SynthesisInv

LEMMA LookupInv == ASSUME SynthesisInv, LookupConversation PROVE SynthesisInv'
  <1> USE DEF LookupConversation, Goto
  <1>1. HistoryFaithful' /\ CommitAccounted' /\ ReturnedClosed'
    BY StoreFrame
  <1>2. TypeOK'
    BY DEF SynthesisInv, TypeOK, LocalsOK, LocalSteps, ModelSteps, Aborts, durableVars
  <1>3. LoopMirrorsStore'
    BY DEF LoopMirrorsStore, LoopSteps, ModelSteps
  <1>4. ResultAccounted'
    BY DEF SynthesisInv, CommitAccounted, ResultAccounted, Accounts, OneGenerator, Certified,
           durableVars
  <1>5. FinishOpen'
    BY DEF SynthesisInv, FinishOpen, durableVars
  <1> QED BY <1>1, <1>2, <1>3, <1>4, <1>5 DEF SynthesisInv

LEMMA ResumeInv == ASSUME SynthesisInv, Resume PROVE SynthesisInv'
  <1> USE DEF Resume, Goto, durableVars
  <1>1. HistoryFaithful' /\ CommitAccounted' /\ ReturnedClosed'
    BY StoreFrame
  <1>2. job \in Job /\ conversationCommit = None
    BY DEF SynthesisInv, TypeOK, LocalsOK, FinishOpen, Aborts
  <1>3. CASE PrefixConflict(turnCommits)
    <2>1. TypeOK'
      BY <1>2, <1>3 DEF SynthesisInv, TypeOK, LocalsOK, LocalSteps, ModelSteps, Aborts
    <2>2. LoopMirrorsStore' /\ ResultAccounted' /\ FinishOpen'
      BY <1>3 DEF LoopMirrorsStore, ResultAccounted, FinishOpen, LoopSteps, ModelSteps
    <2> QED BY <1>1, <2>1, <2>2 DEF SynthesisInv
  <1>4. CASE ~PrefixConflict(turnCommits)
    <2>1. /\ \A i \in DOMAIN turnCommits : turnCommits[i].generator = job.generator
          /\ Len(turnCommits) <= settings.count
      BY <1>4, PlannedCountType DEF PrefixConflict, SynthesisInv, TypeOK
    <2>2. CASE Complete(turnCommits)
      <3>1. Len(turnCommits) = settings.count /\ settings.count \in MinTurns .. MaxTurns
        BY <2>2, PlannedCountType DEF Complete, SynthesisInv
      <3>2. result' = ConversationOf(turnCommits, "QUALITY_CANDIDATE") /\ pc' = "finish"
        BY <1>4, <2>2
      <3>3. ConversationOf(turnCommits, "QUALITY_CANDIDATE") \in Conversation
        BY <1>2 DEF ConversationOf, Conversation, Statuses, Job, SynthesisInv, TypeOK
      <3>4. TypeOK'
        BY <1>4, <2>2, <3>2, <3>3
           DEF SynthesisInv, TypeOK, LocalsOK, LocalSteps, ModelSteps, Aborts
      <3>5. ResultAccounted'
        BY <2>1, <3>1, <3>2
           DEF ResultAccounted, Accounts, OneGenerator, Certified, ConversationOf
      <3>6. LoopMirrorsStore' /\ FinishOpen'
        BY <1>2, <3>1, <3>2 DEF LoopMirrorsStore, FinishOpen, LoopSteps, ModelSteps
      <3> QED BY <1>1, <3>4, <3>5, <3>6 DEF SynthesisInv
    <2>3. CASE ~Complete(turnCommits)
      <3>1. pc' = "evidence" /\ turns' = turnCommits /\ UNCHANGED result
        BY <1>4, <2>3
      <3>2. Len(turnCommits) < settings.count
        BY <2>1, <2>3, PlannedCountType DEF Complete, SynthesisInv, TypeOK
      <3>3. TypeOK'
        BY <3>1, <3>2 DEF SynthesisInv, TypeOK, LocalsOK, LocalSteps, ModelSteps, Aborts
      <3>4. LoopMirrorsStore'
        BY <1>2, <2>1, <3>1 DEF LoopMirrorsStore
      <3>5. ResultAccounted' /\ FinishOpen'
        BY <3>1 DEF ResultAccounted, FinishOpen
      <3> QED BY <1>1, <3>3, <3>4, <3>5 DEF SynthesisInv
    <2> QED BY <2>2, <2>3
  <1> QED BY <1>3, <1>4

\* The turn under construction is a turn of the job's generator that follows the
\* accepted ones.
LEMMA TurnOfType ==
    ASSUME SynthesisInv, pc \in {"rate", "repair", "commit"},
           NEW status \in {"COMMITTED", "REJECTED", "ABSTAINED", "ERROR"}
    PROVE  /\ TurnOf(status) \in Turn
           /\ TurnOf(status).status = status
           /\ TurnOf(status).generator = job.generator
           /\ TurnOf(status).index = Len(turnCommits) + 1
           /\ TurnOf(status).history = Transcript(turnCommits)
  <1>1. /\ turns \in Seq(Turn) /\ turns = turnCommits
        /\ job \in Job /\ draft \in FullDraft /\ Len(turns) < settings.count
    BY DEF SynthesisInv, TypeOK, LocalsOK, LoopMirrorsStore, LoopSteps, ModelSteps, Aborts
  <1>2. Len(turns) + 1 \in 1 .. MaxTurns
    <2>1. Len(turns) \in Nat
      BY <1>1
    <2>2. settings.count \in MinTurns .. MaxTurns
      BY PlannedCountType DEF SynthesisInv
    <2> QED BY <1>1, <2>1, <2>2, CountsAssumption
  <1>3. Transcript(turns) \in Seq(Message)
    BY <1>1, TranscriptType
  <1> QED BY <1>1, <1>2, <1>3 DEF TurnOf, Turn, Job, FullDraft

LEMMA RejectedTurnInv ==
    ASSUME SynthesisInv, pc \in {"rate", "repair"},
           NEW status \in {"REJECTED", "ABSTAINED", "ERROR"},
           EndLoop(Append(turns, TurnOf(status)), status)
    PROVE  SynthesisInv'
  <1>1. TurnOf(status) \in Turn /\ TurnOf(status).status = status
        /\ TurnOf(status).generator = job.generator
    BY TurnOfType
  <1>2. Append(turns, TurnOf(status)) \in Seq(Turn)
    BY <1>1 DEF SynthesisInv, TypeOK
  <1>3. pc \in LoopSteps
    BY DEF LoopSteps, ModelSteps
  <1> QED BY <1>1, <1>2, <1>3, EndLoopInv

LEMMA GiveUpInv ==
    ASSUME SynthesisInv, pc \in LoopSteps,
           NEW status \in {"REJECTED", "ABSTAINED", "ERROR"}, EndLoop(turns, status)
    PROVE  SynthesisInv'
  BY EndLoopInv DEF SynthesisInv, TypeOK

LEMMA BeforeAnswerInv ==
    ASSUME SynthesisInv, ExtractEvidence \/ SelectInstruction \/ AskQuestion
    PROVE  SynthesisInv'
  <1> USE DEF LoopSteps, ModelSteps
  <1>1. CASE ExtractEvidence
    BY <1>1, ContinueInv DEF ExtractEvidence
  <1>2. CASE SelectInstruction
    BY <1>2, ContinueInv, GiveUpInv DEF SelectInstruction
  <1>3. CASE AskQuestion
    <2>1. CASE EndLoop(turns, "REJECTED")
      BY <1>3, <2>1, GiveUpInv DEF AskQuestion
    <2>2. ASSUME NEW q \in Questions,
                 Continue(IF settings.mode = "detailed" THEN "fit" ELSE "answer",
                          [question |-> q, answer |-> None, repaired |-> FALSE])
          PROVE  SynthesisInv'
      <3>1. [question |-> q, answer |-> None, repaired |-> FALSE] \in Draft
        BY DEF Draft
      <3> QED BY <1>3, <2>2, <3>1, ContinueInv DEF AskQuestion
    <2> QED BY <1>3, <2>1, <2>2 DEF AskQuestion
  <1> QED BY <1>1, <1>2, <1>3

LEMMA GatesInv ==
    ASSUME SynthesisInv, FitQuestion \/ ExtractRequirements
    PROVE  SynthesisInv'
  <1>1. draft \in Draft /\ pc \in LoopSteps
    BY DEF FitQuestion, ExtractRequirements, SynthesisInv, TypeOK, LocalsOK, LoopSteps, ModelSteps
  <1>2. \A verdict : PreAnswerStop(verdict) \in {"REJECTED", "ABSTAINED"}
    BY DEF PreAnswerStop
  <1>3. CASE \E verdict : EndLoop(turns, PreAnswerStop(verdict))
    BY <1>1, <1>2, <1>3, GiveUpInv
  <1>4. CASE Continue("requirements", draft) \/ Continue("answer", draft)
    BY <1>1, <1>4, ContinueInv DEF LoopSteps, ModelSteps
  <1> QED BY <1>3, <1>4 DEF FitQuestion, ExtractRequirements

LEMMA AnswerInv == ASSUME SynthesisInv, AnswerQuestion PROVE SynthesisInv'
  <1>1. draft \in Draft /\ pc \in LoopSteps
    BY DEF AnswerQuestion, SynthesisInv, TypeOK, LocalsOK, LoopSteps, ModelSteps
  <1>2. CASE EndLoop(turns, "REJECTED")
    BY <1>1, <1>2, GiveUpInv
  <1>3. ASSUME NEW a \in Answers, Continue("rate", [draft EXCEPT !.answer = a])
        PROVE  SynthesisInv'
    <2>1. /\ [draft EXCEPT !.answer = a] \in FullDraft
          /\ [draft EXCEPT !.answer = a] \in Draft
      BY <1>1 DEF Draft, FullDraft
    <2> QED BY <1>1, <1>3, <2>1, ContinueInv DEF LoopSteps, ModelSteps
  <1> QED BY <1>2, <1>3 DEF AnswerQuestion

LEMMA RateInv == ASSUME SynthesisInv, RateTurn PROVE SynthesisInv'
  <1>1. pc = "rate" /\ draft \in FullDraft /\ draft \in Draft
    BY DEF RateTurn, SynthesisInv, TypeOK, LocalsOK, FullDraft, Draft
  <1>2. PICK aggregate :
            IF MayRepair(aggregate)
            THEN Continue("repair", draft)
            ELSE IF TurnStatus(aggregate) = "COMMITTED"
            THEN Continue("commit", draft)
            ELSE EndLoop(Append(turns, TurnOf(TurnStatus(aggregate))), TurnStatus(aggregate))
    BY DEF RateTurn
  <1>3. TurnStatus(aggregate) \in {"COMMITTED", "REJECTED", "ABSTAINED", "ERROR"}
    BY DEF TurnStatus
  <1>4. CASE Continue("repair", draft) \/ Continue("commit", draft)
    BY <1>1, <1>4, ContinueInv DEF LoopSteps, ModelSteps
  <1>5. CASE /\ TurnStatus(aggregate) # "COMMITTED"
             /\ EndLoop(Append(turns, TurnOf(TurnStatus(aggregate))), TurnStatus(aggregate))
    BY <1>1, <1>3, <1>5, RejectedTurnInv
  <1> QED BY <1>2, <1>4, <1>5

LEMMA RepairInv == ASSUME SynthesisInv, RepairAnswer PROVE SynthesisInv'
  <1>1. pc = "repair" /\ draft \in FullDraft
    BY DEF RepairAnswer, SynthesisInv, TypeOK, LocalsOK
  <1>2. CASE EndLoop(Append(turns, TurnOf("REJECTED")), "REJECTED")
    BY <1>1, <1>2, RejectedTurnInv
  <1>3. ASSUME NEW a \in Answers,
               Continue("rate", [draft EXCEPT !.answer = a, !.repaired = TRUE])
        PROVE  SynthesisInv'
    <2>1. [draft EXCEPT !.answer = a, !.repaired = TRUE] \in FullDraft
      BY <1>1 DEF FullDraft
    <2>2. FullDraft \subseteq Draft
      BY DEF FullDraft, Draft
    <2> QED BY <1>1, <1>3, <2>1, <2>2, ContinueInv DEF LoopSteps, ModelSteps
  <1> QED BY <1>2, <1>3 DEF RepairAnswer

\* A list that accounts for the accepted turns has them as its accepted prefix.
LEMMA PrefixOfAccount ==
    ASSUME SynthesisInv, NEW ts, Accounts(ts)
    PROVE  CommittedPrefix(ts) = turnCommits
  <1>1. turnCommits \in Seq(Turn)
    BY DEF SynthesisInv, TypeOK
  <1>2. CASE ts = turnCommits
    <2>1. ts # <<>> => Len(ts) \in DOMAIN turnCommits
      BY <1>1, <1>2
    <2>2. ts # <<>> => ts[Len(ts)].status = "COMMITTED"
      BY <1>2, <2>1 DEF SynthesisInv, HistoryFaithful
    <2> QED BY <1>2, <2>2 DEF CommittedPrefix
  <1>3. ASSUME NEW t \in Turn, t.status # "COMMITTED", ts = Append(turnCommits, t)
        PROVE  CommittedPrefix(ts) = turnCommits
    <2>1. /\ ts # <<>> /\ Len(ts) = Len(turnCommits) + 1 /\ ts[Len(ts)] = t
          /\ ts \in Seq(Turn) /\ Len(turnCommits) \in Nat
          /\ \A i \in 1 .. Len(turnCommits) : ts[i] = turnCommits[i]
      BY <1>1, <1>3, AppendProperties
    <2>2. CommittedPrefix(ts) = SubSeq(ts, 1, Len(turnCommits))
      BY <1>3, <2>1 DEF CommittedPrefix
    <2>3. SubSeq(ts, 1, Len(turnCommits)) = turnCommits
      BY <1>1, <2>1
    <2> QED BY <2>2, <2>3
  <1> QED BY <1>2, <1>3 DEF Accounts

\* The new turn follows the history; whoever was told of a quality candidate is
\* not contradicted, because none exists while a turn is under construction.
LEMMA CommitInv == ASSUME SynthesisInv, CommitTurn PROVE SynthesisInv'
  <1> DEFINE turn == TurnOf("COMMITTED")
  <1>1. /\ turn \in Turn /\ turn.status = "COMMITTED" /\ turn.generator = job.generator
        /\ turn.index = Len(turnCommits) + 1 /\ turn.history = Transcript(turnCommits)
    BY TurnOfType DEF CommitTurn
  <1> HIDE DEF turn
  <1>2. /\ turns = turnCommits /\ conversationCommit = None
        /\ turnCommits \in Seq(Turn) /\ Len(turnCommits) \in Nat
        /\ \A i \in DOMAIN turnCommits : turnCommits[i].generator = job.generator
        /\ Len(turnCommits) < settings.count /\ job \in Job
    BY DEF CommitTurn, SynthesisInv, TypeOK, LocalsOK, LoopMirrorsStore, LoopSteps, ModelSteps,
           Aborts
  <1>3. turnCommits' = Append(turnCommits, turn) /\ turns' = turnCommits'
    BY <1>2 DEF CommitTurn, turn
  <1>4. UNCHANGED <<settings, returned, starts, job, conversationCommit, stops>> /\ draft' = None
    BY DEF CommitTurn, Goto
  <1>5. /\ turnCommits' \in Seq(Turn) /\ Len(turnCommits') = Len(turnCommits) + 1
        /\ \A i \in 1 .. Len(turnCommits) : turnCommits'[i] = turnCommits[i]
        /\ turnCommits'[Len(turnCommits) + 1] = turn
    BY <1>1, <1>2, <1>3, AppendProperties
  <1>6. settings.count \in Nat /\ settings.count \in MinTurns .. MaxTurns
    BY PlannedCountType DEF SynthesisInv
  <1>7. HistoryFaithful'
    <2> SUFFICES ASSUME NEW i \in 1 .. Len(turnCommits) + 1
                 PROVE  /\ turnCommits'[i].status = "COMMITTED"
                        /\ turnCommits'[i].index = i
                        /\ turnCommits'[i].history = Transcript(SubSeq(turnCommits', 1, i - 1))
                        /\ turnCommits'[i].generator = turnCommits'[1].generator
      BY <1>5 DEF HistoryFaithful
    <2>1. SubSeq(turnCommits', 1, i - 1) = SubSeq(turnCommits, 1, i - 1)
      BY <1>2, <1>5
    <2>2. turnCommits'[1].generator = job.generator
      BY <1>1, <1>2, <1>5
    <2>3. CASE i \in 1 .. Len(turnCommits)
      <3>1. i \in DOMAIN turnCommits /\ turnCommits'[i] = turnCommits[i]
        BY <1>2, <1>5, <2>3
      <3>2. /\ turnCommits[i].status = "COMMITTED" /\ turnCommits[i].index = i
            /\ turnCommits[i].history = Transcript(SubSeq(turnCommits, 1, i - 1))
        BY <3>1 DEF SynthesisInv, HistoryFaithful
      <3>3. turnCommits[i].generator = job.generator
        BY <1>2, <3>1
      <3> QED BY <2>1, <2>2, <3>1, <3>2, <3>3
    <2>4. CASE i = Len(turnCommits) + 1
      <3>1. SubSeq(turnCommits, 1, i - 1) = turnCommits
        BY <1>2, <2>4
      <3> QED BY <1>1, <1>5, <2>1, <2>2, <2>4, <3>1
    <2> QED BY <1>2, <2>3, <2>4
  <1>8. \A i \in DOMAIN turnCommits' : turnCommits'[i].generator = job.generator
    BY <1>1, <1>2, <1>5
  <1>9. CommitAccounted'
    BY <1>2, <1>4 DEF CommitAccounted
  <1>10. ReturnedClosed'
    <2>1. \A c \in returned : c.status # "QUALITY_CANDIDATE"
      BY <1>2, <1>6 DEF SynthesisInv, ReturnedClosed, Closed
    <2> QED BY <1>4, <2>1 DEF ReturnedClosed, Certified
  <1>11. CASE Complete(turns')
    <2>1. /\ pc' = "finish" /\ Len(turnCommits') = settings.count
          /\ result' = ConversationOf(turnCommits', "QUALITY_CANDIDATE")
      BY <1>3, <1>11 DEF CommitTurn, Goto, Complete
    <2>2. ConversationOf(turnCommits', "QUALITY_CANDIDATE") \in Conversation
      BY <1>2, <1>5 DEF ConversationOf, Conversation, Statuses, Job
    <2>3. TypeOK'
      BY <1>2, <1>3, <1>4, <1>5, <2>1, <2>2
         DEF SynthesisInv, TypeOK, LocalsOK, LocalSteps, ModelSteps, Aborts
    <2>4. ResultAccounted'
      BY <1>4, <1>6, <1>8, <2>1
         DEF ResultAccounted, Accounts, OneGenerator, Certified, ConversationOf
    <2>5. LoopMirrorsStore' /\ FinishOpen'
      BY <1>2, <1>4, <2>1 DEF LoopMirrorsStore, FinishOpen, LoopSteps, ModelSteps
    <2> QED BY <1>7, <1>9, <1>10, <2>3, <2>4, <2>5 DEF SynthesisInv
  <1>12. CASE ~Complete(turns')
    <2>1. pc' = "select" /\ Len(turnCommits') < settings.count /\ UNCHANGED result
      BY <1>2, <1>3, <1>5, <1>6, <1>12 DEF CommitTurn, Goto, Complete
    <2>2. TypeOK'
      BY <1>2, <1>3, <1>4, <1>5, <2>1
         DEF SynthesisInv, TypeOK, LocalsOK, LocalSteps, ModelSteps, Aborts
    <2>3. LoopMirrorsStore'
      BY <1>2, <1>3, <1>4, <1>8 DEF LoopMirrorsStore
    <2>4. ResultAccounted' /\ FinishOpen'
      BY <2>1 DEF ResultAccounted, FinishOpen
    <2> QED BY <1>7, <1>9, <1>10, <2>2, <2>3, <2>4 DEF SynthesisInv
  <1> QED BY <1>11, <1>12

\* What Finish hands on: the conversation as it ended, or its accepted prefix as
\* a quality candidate.
LEMMA FinishInv == ASSUME SynthesisInv, Finish PROVE SynthesisInv'
  <1> USE DEF Finish, Goto
  <1>1. /\ result \in Conversation /\ Accounts(result.turns) /\ OneGenerator(result)
        /\ Certified(result) /\ conversationCommit = None
        /\ turnCommits \in Seq(Turn) /\ Len(turnCommits) \in Nat
    BY DEF SynthesisInv, TypeOK, LocalsOK, ResultAccounted, FinishOpen
  <1>2. UNCHANGED <<settings, returned, starts, job, turnCommits, conversationCommit,
                    turns, draft>>
    OBVIOUS
  <1>3. HistoryFaithful' /\ CommitAccounted' /\ ReturnedClosed'
    <2>1. HistoryFaithful'
      BY <1>2 DEF SynthesisInv, HistoryFaithful
    <2>2. CommitAccounted'
      BY <1>1, <1>2 DEF CommitAccounted
    <2>3. ReturnedClosed'
      BY <1>2 DEF SynthesisInv, ReturnedClosed, Certified, Closed
    <2> QED BY <2>1, <2>2, <2>3
  <1>4. /\ pc' \in {"persist", "return"}
        /\ pc' = "persist" <=> settings.mode = "holistic"
    BY DEF AfterFinish
  <1>5. LoopMirrorsStore'
    BY <1>4 DEF LoopMirrorsStore, LoopSteps, ModelSteps
  <1>6. CASE RetainsPrefix(result)
    <2>1. result' = Retained(result) /\ stops' = stops \cup {result}
      BY <1>6 DEF StopArtifact
    <2>2. CommittedPrefix(result.turns) = turnCommits
      BY <1>1, PrefixOfAccount
    <2>3. result' = [image |-> result.image, generator |-> result.generator,
                     turns |-> turnCommits, status |-> "QUALITY_CANDIDATE"]
      BY <1>1, <2>1, <2>2 DEF Retained, Conversation
    <2>4. \A i \in DOMAIN turnCommits : turnCommits[i].generator = result.generator
      <3>1. CASE result.turns = turnCommits
        BY <1>1, <3>1 DEF OneGenerator
      <3>2. ASSUME NEW t \in Turn, result.turns = Append(turnCommits, t)
            PROVE  \A i \in DOMAIN turnCommits : turnCommits[i].generator = result.generator
        BY <1>1, <3>2, AppendProperties DEF OneGenerator
      <3> QED BY <1>1, <3>1, <3>2 DEF Accounts
    <2>5. Len(turnCommits) \in MinTurns .. MaxTurns
      <3>1. Len(turnCommits) >= MinTurns /\ MinTurns \in Nat \ {0}
        BY <1>6, <2>2, CountsAssumption DEF RetainsPrefix
      <3>2. Len(turnCommits) \in DOMAIN turnCommits
        BY <1>1, <3>1
      <3>3. turnCommits[Len(turnCommits)] \in Turn
        BY <1>1, <3>2
      <3>4. turnCommits[Len(turnCommits)].index = Len(turnCommits)
        BY <3>2 DEF SynthesisInv, HistoryFaithful
      <3>5. Len(turnCommits) \in 1 .. MaxTurns
        BY <3>3, <3>4 DEF Turn
      <3> QED BY <1>1, <3>1, <3>5, CountsAssumption
    <2>6. TypeOK'
      <3>1. result' \in Conversation
        BY <1>1, <2>3 DEF Conversation, Statuses
      <3> QED
        BY <1>1, <1>2, <1>4, <2>1, <3>1
           DEF SynthesisInv, TypeOK, LocalsOK, LocalSteps, ModelSteps, Aborts
    <2>7. ResultAccounted'
      BY <1>2, <2>3, <2>4, <2>5 DEF ResultAccounted, Accounts, OneGenerator, Certified
    <2>8. FinishOpen'
      BY <1>1, <1>2, <1>4, <1>6 DEF FinishOpen, RetainsPrefix
    <2> QED BY <1>3, <1>5, <2>6, <2>7, <2>8 DEF SynthesisInv
  <1>7. CASE ~RetainsPrefix(result)
    <2>1. UNCHANGED <<stops, result>>
      BY <1>7
    <2>2. TypeOK'
      BY <1>1, <1>2, <1>4, <2>1
         DEF SynthesisInv, TypeOK, LocalsOK, LocalSteps, ModelSteps, Aborts
    <2>3. ResultAccounted'
      BY <1>1, <1>2, <2>1 DEF ResultAccounted, Accounts, OneGenerator, Certified
    <2>4. FinishOpen'
      BY <1>1, <1>2, <1>4, <2>1 DEF SynthesisInv, FinishOpen
    <2> QED BY <1>3, <1>5, <2>2, <2>3, <2>4 DEF SynthesisInv
  <1> QED BY <1>6, <1>7

LEMMA PersistInv == ASSUME SynthesisInv, Persist PROVE SynthesisInv'
  <1> USE DEF Persist, Goto
  <1>1. /\ pc = "persist" /\ pc' = "return" /\ conversationCommit' = result
        /\ UNCHANGED <<settings, returned, starts, job, turnCommits, stops, turns, draft, result>>
    OBVIOUS
  <1>2. /\ result \in Conversation /\ settings.mode = "holistic" /\ job \in Job
        /\ Accounts(result.turns) /\ OneGenerator(result) /\ Certified(result)
    BY <1>1 DEF SynthesisInv, TypeOK, LocalsOK, ResultAccounted, FinishOpen, Aborts
  <1>3. TypeOK'
    BY <1>1, <1>2 DEF SynthesisInv, TypeOK, LocalsOK, LocalSteps, ModelSteps, Aborts
  <1>4. HistoryFaithful'
    BY <1>1 DEF SynthesisInv, HistoryFaithful
  <1>5. LoopMirrorsStore' /\ FinishOpen'
    BY <1>1, <1>2, NoneAssumption DEF LoopMirrorsStore, FinishOpen, LoopSteps, ModelSteps
  <1>6. ResultAccounted' /\ CommitAccounted'
    BY <1>1, <1>2 DEF ResultAccounted, CommitAccounted, Accounts, OneGenerator, Certified
  <1>7. ReturnedClosed'
    <2>1. \A c \in returned : c.status # "QUALITY_CANDIDATE" \/ Len(turnCommits) = settings.count
      BY <1>1 DEF SynthesisInv, ReturnedClosed, Closed, FinishOpen
    <2> QED BY <1>1, <2>1 DEF SynthesisInv, ReturnedClosed, Certified, Closed
  <1> QED BY <1>3, <1>4, <1>5, <1>6, <1>7 DEF SynthesisInv

LEMMA ReturnInv == ASSUME SynthesisInv, Return PROVE SynthesisInv'
  <1> USE DEF Return
  <1>1. result \in Conversation /\ Certified(result)
    BY DEF SynthesisInv, TypeOK, LocalsOK, ResultAccounted
  <1>2. returned' \subseteq Conversation
    BY <1>1 DEF SynthesisInv, TypeOK
  <1>3. result.status = "QUALITY_CANDIDATE" => Closed
    <2>1. CASE settings.mode = "holistic"
      BY <1>1, <2>1 DEF SynthesisInv, TypeOK, FinishOpen, CommitAccounted, Closed
    <2>2. CASE settings.mode # "holistic"
      BY <2>2 DEF SynthesisInv, FinishOpen, Closed
    <2> QED BY <2>1, <2>2
  <1>4. ReturnedClosed'
    BY <1>1, <1>3 DEF SynthesisInv, ReturnedClosed, Certified, Closed, durableVars
  <1> QED BY <1>2, <1>4, ForgetInv

LEMMA FailureInv == ASSUME SynthesisInv, RecordFailure PROVE SynthesisInv'
  <1> USE DEF RecordFailure
  <1> DEFINE failed == ConversationOf(turnCommits, "ERROR")
  <1>1. job \in Job
    BY DEF SynthesisInv, TypeOK, LocalsOK, Aborts
  <1>2. failed \in Conversation /\ failed.status = "ERROR"
    BY <1>1 DEF ConversationOf, Conversation, Statuses, Job, SynthesisInv, TypeOK
  <1> HIDE DEF failed
  <1>3. returned' \in {returned, returned \cup {failed}} /\ pc' \in {"idle"} \cup Aborts
    BY DEF failed, Aborts
  <1>4. returned' \subseteq Conversation
    BY <1>2, <1>3 DEF SynthesisInv, TypeOK
  <1>5. ReturnedClosed'
    <2>1. \A c \in returned' : c \in returned \/ c.status = "ERROR"
      BY <1>2, <1>3
    <2> QED BY <2>1 DEF SynthesisInv, ReturnedClosed, Certified, Closed, durableVars
  <1> QED BY <1>3, <1>4, <1>5, ForgetInv

LEMMA CallRaisesInv == ASSUME SynthesisInv, CallRaises PROVE SynthesisInv'
  <1> USE DEF CallRaises, Goto
  <1>1. TypeOK'
    BY DEF SynthesisInv, TypeOK, LocalsOK, LocalSteps, ModelSteps, Aborts, durableVars
  <1>2. HistoryFaithful' /\ CommitAccounted' /\ ReturnedClosed'
    BY StoreFrame
  <1>3. LoopMirrorsStore' /\ ResultAccounted' /\ FinishOpen'
    BY DEF LoopMirrorsStore, ResultAccounted, FinishOpen, LoopSteps, ModelSteps
  <1> QED BY <1>1, <1>2, <1>3 DEF SynthesisInv

\* A crash and an exhausted budget leave the store and the output as they are.
LEMMA DeathInv == ASSUME SynthesisInv, Crash \/ BudgetRefused PROVE SynthesisInv'
  <1>1. /\ Forget /\ pc' \in {"idle"} \cup Aborts
        /\ UNCHANGED <<settings, durableVars, returned, starts>>
    BY DEF Crash, BudgetRefused, Aborts
  <1>2. ReturnedClosed'
    BY <1>1, StoreFrame
  <1>3. returned' \subseteq Conversation
    BY <1>1 DEF SynthesisInv, TypeOK
  <1> QED BY <1>1, <1>2, <1>3, ForgetInv

LEMMA StepInv == SynthesisInv /\ [Next]_vars => SynthesisInv'
  <1> SUFFICES ASSUME SynthesisInv, [Next]_vars PROVE SynthesisInv'
    OBVIOUS
  <1>1. CASE Next
    BY <1>1, StartInv, LookupInv, ResumeInv, BeforeAnswerInv, GatesInv, AnswerInv, RateInv,
       RepairInv, CommitInv, FinishInv, PersistInv, ReturnInv, FailureInv, CallRaisesInv,
       DeathInv
       DEF Next, Work
  <1>2. CASE UNCHANGED vars
    <2>1. HistoryFaithful' /\ CommitAccounted' /\ ReturnedClosed'
      BY <1>2, StoreFrame DEF vars
    <2>2. TypeOK'
      BY <1>2 DEF vars, durableVars, volatileVars, SynthesisInv, TypeOK, LocalsOK
    <2>3. LoopMirrorsStore' /\ ResultAccounted' /\ FinishOpen'
      BY <1>2 DEF vars, durableVars, volatileVars, SynthesisInv, LoopMirrorsStore,
                  ResultAccounted, FinishOpen, Accounts, OneGenerator, Certified
    <2> QED BY <2>1, <2>2, <2>3 DEF SynthesisInv
  <1> QED BY <1>1, <1>2
-----------------------------------------------------------------------------
\* Types, and what the locals hold at each step, for every instance.
THEOREM TypeCorrect == Spec => []TypeOK
  <1>1. SynthesisInv => TypeOK
    BY DEF SynthesisInv
  <1> QED BY <1>1, InitInv, StepInv, PTL DEF Spec

\* The accepted turns are a faithful history of one generator's conversation,
\* through any number of crashes, failures and changed schedules.
THEOREM HistoryHolds == Spec => []HistoryFaithful
  <1>1. SynthesisInv => HistoryFaithful
    BY DEF SynthesisInv
  <1> QED BY <1>1, InitInv, StepInv, PTL DEF Spec

\* Nothing is certified but what was committed, for every planned length.
THEOREM CertifiedHolds == Spec => []CertifiedIsCommitted
  <1>1. SynthesisInv => CertifiedIsCommitted
    BY DEF SynthesisInv, CommitAccounted, ReturnedClosed, Certified, CertifiedIsCommitted,
           Conversations
  <1> QED BY <1>1, InitInv, StepInv, PTL DEF Spec

\* A committed conversation and its turns never change again.
THEOREM SettledHolds == Spec => SettledForever
  <1>1. SynthesisInv /\ [Next]_vars =>
            [conversationCommit # None => UNCHANGED <<conversationCommit, turnCommits>>]_vars
    <2> SUFFICES ASSUME SynthesisInv, Next, conversationCommit # None
                 PROVE  UNCHANGED <<conversationCommit, turnCommits>>
      OBVIOUS
    <2>1. ~Persist /\ ~CommitTurn
      BY DEF SynthesisInv, FinishOpen, LoopMirrorsStore, LoopSteps, Persist, CommitTurn
    <2> QED
      BY <2>1
         DEF Next, Work, Start, LookupConversation, Resume, ExtractEvidence,
             SelectInstruction, AskQuestion, FitQuestion, ExtractRequirements,
             AnswerQuestion, RateTurn, RepairAnswer, Finish, Return, RecordFailure,
             CallRaises, BudgetRefused, Crash, Continue, EndLoop, durableVars
  <1> QED BY <1>1, InitInv, StepInv, PTL DEF Spec, SettledForever
-----------------------------------------------------------------------------
(***************************************************************************)
(* What a conversation comes to, on top of SynthesisInv: questions stay    *)
(* distinct because the draft is a fresh one until it is committed, the    *)
(* outcome of a holistic conversation is one and no error, and a shortened *)
(* conversation has its stop on record before anybody sees it.             *)
(***************************************************************************)

\* The question the worker goes on with was asked in no turn before.
FreshDraft ==
    pc \in {"fit", "requirements", "answer", "rate", "repair", "commit"} =>
        ~repeated_public_question(draft.question, turns)

\* A holistic rating never comes to an error, so neither does its conversation.
NoErrorResult ==
    pc \in {"finish", "persist", "return"} /\ settings.mode = "holistic" =>
        result.status # "ERROR"

\* A certified conversation that is shorter than planned has its stop.
OnRecord(c) ==
    c.status = "QUALITY_CANDIDATE" /\ Len(c.turns) < settings.count => StopOnRecord(c)

\* The stop is written before the conversation leaves _finish_conversation.
ResultOnRecord == pc \in {"finish", "persist", "return"} => OnRecord(result)

OutcomeInv ==
    /\ SynthesisInv
    /\ QuestionsDistinct
    /\ FreshDraft
    /\ NoErrorResult
    /\ ResultStable
    /\ ResultOnRecord
    /\ RetainedStopPreserved
-----------------------------------------------------------------------------
LEMMA InitOutcome == Init => OutcomeInv
  BY InitInv
     DEF Init, OutcomeInv, QuestionsDistinct, FreshDraft, NoErrorResult, ResultStable,
         ResultOnRecord, RetainedStopPreserved, Conversations

\* Only a commit writes a turn, only Persist settles, only Finish keeps a stop.
LEMMA Writers ==
    ASSUME Next
    PROVE  /\ UNCHANGED settings
           /\ ~CommitTurn => UNCHANGED turnCommits
           /\ ~Persist => UNCHANGED conversationCommit
           /\ ~Finish => UNCHANGED stops
           /\ ~(Return \/ RecordFailure) => UNCHANGED returned
  BY DEF Next, Work, Start, LookupConversation, Resume, ExtractEvidence, SelectInstruction,
         AskQuestion, FitQuestion, ExtractRequirements, AnswerQuestion, RateTurn,
         RepairAnswer, CommitTurn, Finish, Persist, Return, RecordFailure, CallRaises,
         BudgetRefused, Crash, Continue, EndLoop, Goto, durableVars

\* The question of a draft is checked against the turns when it is asked, and
\* neither changes before the turn is committed.
LEMMA FreshStep ==
    ASSUME SynthesisInv, FreshDraft, Next
    PROVE  FreshDraft'
  <1>1. CASE AskQuestion
    <2>1. CASE EndLoop(turns, "REJECTED")
      BY <2>1 DEF EndLoop, Goto, FreshDraft
    <2>2. ASSUME NEW q \in Questions, NEW step, ~repeated_public_question(q, turns),
                 Continue(step, [question |-> q, answer |-> None, repaired |-> FALSE])
          PROVE  FreshDraft'
      BY <2>2 DEF Continue, FreshDraft, repeated_public_question
    <2> QED BY <1>1, <2>1, <2>2 DEF AskQuestion
  <1>2. CASE FitQuestion \/ ExtractRequirements \/ AnswerQuestion \/ RateTurn \/ RepairAnswer
    <2>1. /\ pc \in {"fit", "requirements", "answer", "rate", "repair"}
          /\ draft \in Draft
      BY <1>2
         DEF FitQuestion, ExtractRequirements, AnswerQuestion, RateTurn, RepairAnswer,
             SynthesisInv, TypeOK, LocalsOK, Draft, FullDraft
    <2>2. \/ pc' = "finish"
          \/ /\ turns' = turns
             /\ \/ draft' = draft
                \/ \E a \in Answers : draft' = [draft EXCEPT !.answer = a]
                \/ \E a \in Answers : draft' = [draft EXCEPT !.answer = a, !.repaired = TRUE]
      BY <1>2
         DEF FitQuestion, ExtractRequirements, AnswerQuestion, RateTurn, RepairAnswer,
             EndLoop, Continue, Goto
    <2>3. pc' = "finish" \/ (turns' = turns /\ draft'.question = draft.question)
      BY <2>1, <2>2 DEF Draft
    <2> QED BY <2>1, <2>3 DEF FreshDraft, repeated_public_question
  <1>3. CASE ~(AskQuestion \/ FitQuestion \/ ExtractRequirements \/ AnswerQuestion
               \/ RateTurn \/ RepairAnswer)
    <2>1. pc' \notin {"fit", "requirements", "answer", "rate", "repair", "commit"}
      BY <1>3
         DEF Next, Work, Start, LookupConversation, Resume, ExtractEvidence,
             SelectInstruction, CommitTurn, Finish, Persist, Return, RecordFailure,
             CallRaises, BudgetRefused, Crash, Continue, EndLoop, Goto, AfterFinish, Aborts
    <2> QED BY <2>1 DEF FreshDraft
  <1> QED BY <1>1, <1>2, <1>3

\* A committed question differs from those before it, and turns are only added.
LEMMA DistinctStep ==
    ASSUME SynthesisInv, FreshDraft, QuestionsDistinct, Next
    PROVE  QuestionsDistinct'
  <1>1. CASE ~CommitTurn
    BY <1>1, Writers DEF QuestionsDistinct
  <1>2. CASE CommitTurn
    <2> DEFINE turn == TurnOf("COMMITTED")
    <2>1. /\ turns = turnCommits /\ turnCommits \in Seq(Turn) /\ Len(turnCommits) \in Nat
          /\ \A i \in DOMAIN turnCommits : turnCommits[i].question # turn.question
      BY <1>2
         DEF CommitTurn, SynthesisInv, TypeOK, LoopMirrorsStore, LoopSteps, FreshDraft,
             repeated_public_question, TurnOf
    <2>2. turnCommits' = Append(turnCommits, turn) /\ turn \in Turn
      BY <1>2, TurnOfType DEF CommitTurn
    <2> HIDE DEF turn
    <2>3. /\ DOMAIN turnCommits = 1 .. Len(turnCommits)
          /\ DOMAIN turnCommits' = 1 .. Len(turnCommits) + 1
          /\ \A i \in 1 .. Len(turnCommits) : turnCommits'[i] = turnCommits[i]
          /\ turnCommits'[Len(turnCommits) + 1] = turn
      BY <2>1, <2>2, AppendProperties
    <2> SUFFICES ASSUME NEW i \in 1 .. Len(turnCommits) + 1, NEW j \in 1 .. Len(turnCommits) + 1,
                        turnCommits'[i].question = turnCommits'[j].question
                 PROVE  i = j
      BY <2>3 DEF QuestionsDistinct
    <2>4. CASE i \in 1 .. Len(turnCommits) /\ j \in 1 .. Len(turnCommits)
      BY <2>3, <2>4 DEF QuestionsDistinct
    <2>5. CASE i = Len(turnCommits) + 1 \/ j = Len(turnCommits) + 1
      BY <2>1, <2>3, <2>5
    <2> QED BY <2>1, <2>4, <2>5
  <1> QED BY <1>1, <1>2

\* Two judges who may only answer MET, NOT_MET or UNKNOWN never come to an error.
LEMMA JudgedGate ==
    ASSUME NEW first \in JudgeVerdicts, NEW second \in JudgeVerdicts
    PROVE  consensus(<<first, second>>) \in JudgeVerdicts
  <1>1. /\ Len(<<first, second>>) = 2 /\ DOMAIN <<first, second>> = 1 .. 2
        /\ <<first, second>>[1] = first /\ <<first, second>>[2] = second
    OBVIOUS
  <1>2. \A i \in 1 .. 2 : <<first, second>>[i] # "ERROR"
    <2> SUFFICES ASSUME NEW i \in 1 .. 2 PROVE <<first, second>>[i] # "ERROR"
      OBVIOUS
    <2>1. i = 1 \/ i = 2
      OBVIOUS
    <2> QED BY <1>1, <2>1 DEF JudgeVerdicts
  <1> QED BY <1>1, <1>2 DEF consensus, JudgeVerdicts

LEMMA JudgedAggregate ==
    ASSUME NEW gate \in JudgeVerdicts
    PROVE  aggregate_rating({gate}) \in {"PASS", "FAIL", "ABSTAIN"}
  <1>1. "ERROR" \notin {gate}
    BY DEF JudgeVerdicts
  <1> QED BY <1>1, Zenon DEF aggregate_rating

LEMMA HolisticRating ==
    ASSUME NEW aggregate \in HolisticAggregates
    PROVE  TurnStatus(aggregate) # "ERROR"
  <1>1. "NOT_MET" \in JudgeVerdicts
    BY DEF JudgeVerdicts
  <1>2. \E gate \in JudgeVerdicts : aggregate = aggregate_rating({gate})
    <2>1. CASE InvalidPublicText
      BY <1>1, <2>1 DEF HolisticAggregates
    <2>2. CASE ~InvalidPublicText
      <3>1. PICK votes \in JudgeVerdicts \X JudgeVerdicts :
                aggregate = aggregate_rating({consensus(votes)})
        BY <2>2 DEF HolisticAggregates
      <3>2. votes = <<votes[1], votes[2]>> /\ votes[1] \in JudgeVerdicts
            /\ votes[2] \in JudgeVerdicts
        OBVIOUS
      <3> QED BY <3>1, <3>2, JudgedGate
    <2> QED BY <2>1, <2>2
  <1>3. aggregate \in {"PASS", "FAIL", "ABSTAIN"}
    BY <1>2, JudgedAggregate
  <1> QED BY <1>3 DEF TurnStatus

\* The loop ends with the status it is given, or with a rejection.
LEMMA LoopOutcome ==
    ASSUME NEW ts, NEW status, EndLoop(ts, status)
    PROVE  /\ pc' = "finish" /\ result'.status \in {"REJECTED", status}
           /\ status # "QUALITY_CANDIDATE" => result'.status = status
  BY DEF EndLoop, Goto, ConversationOf

\* How the worker comes to a conversation, action by action.
LEMMA LoopResults ==
    ASSUME SynthesisInv, Next, pc \in ModelSteps, pc' \in {"finish", "persist", "return"}
    PROVE  /\ result'.status \in {"REJECTED", "ABSTAINED", "ERROR"}
           /\ settings.mode = "holistic" => result'.status # "ERROR"
  <1>1. \/ SelectInstruction \/ AskQuestion \/ FitQuestion \/ ExtractRequirements
        \/ AnswerQuestion \/ RateTurn \/ RepairAnswer
    BY DEF Next, Work, Start, LookupConversation, Resume, ExtractEvidence, CommitTurn,
           Finish, Persist, Return, RecordFailure, CallRaises, BudgetRefused, Crash,
           Continue, Goto, ModelSteps, Aborts
  <1>2. CASE SelectInstruction \/ AskQuestion \/ AnswerQuestion
    <2>1. EndLoop(turns, "REJECTED")
      BY <1>2 DEF SelectInstruction, AskQuestion, AnswerQuestion, Continue, Goto
    <2> QED BY <2>1, LoopOutcome
  <1>3. CASE FitQuestion \/ ExtractRequirements
    <2>1. \A verdict : PreAnswerStop(verdict) \in {"REJECTED", "ABSTAINED"}
      BY DEF PreAnswerStop
    <2>2. PICK verdict : EndLoop(turns, PreAnswerStop(verdict))
      BY <1>3 DEF FitQuestion, ExtractRequirements, Continue, Goto
    <2> QED BY <2>1, <2>2, LoopOutcome
  <1>4. CASE RepairAnswer
    <2>1. EndLoop(Append(turns, TurnOf("REJECTED")), "REJECTED")
      BY <1>4 DEF RepairAnswer, Continue, Goto
    <2> QED BY <2>1, LoopOutcome
  <1>5. CASE RateTurn
    <2>1. PICK aggregate \in IF settings.mode = "holistic" THEN HolisticAggregates
                                                          ELSE DetailedAggregates :
              IF MayRepair(aggregate)
              THEN Continue("repair", draft)
              ELSE IF TurnStatus(aggregate) = "COMMITTED"
              THEN Continue("commit", draft)
              ELSE EndLoop(Append(turns, TurnOf(TurnStatus(aggregate))), TurnStatus(aggregate))
      BY <1>5 DEF RateTurn
    <2>2. /\ TurnStatus(aggregate) # "COMMITTED"
          /\ EndLoop(Append(turns, TurnOf(TurnStatus(aggregate))), TurnStatus(aggregate))
      BY <2>1 DEF Continue, Goto
    <2>3. TurnStatus(aggregate) \in {"REJECTED", "ABSTAINED", "ERROR"}
      BY <2>2 DEF TurnStatus
    <2>4. settings.mode = "holistic" => TurnStatus(aggregate) # "ERROR"
      BY <2>1, HolisticRating
    <2> QED BY <2>2, <2>3, <2>4, LoopOutcome
  <1> QED BY <1>1, <1>2, <1>3, <1>4, <1>5

\* Elsewhere it is a complete one, the saved one, or the one there was.
LEMMA OtherResults ==
    ASSUME SynthesisInv, Next, pc \notin ModelSteps, pc' \in {"finish", "persist", "return"}
    PROVE  \/ CommitTurn /\ result' = ConversationOf(turnCommits', "QUALITY_CANDIDATE")
                         /\ Len(turnCommits') = settings.count
           \/ Resume /\ result' = ConversationOf(turnCommits, "QUALITY_CANDIDATE")
                     /\ Len(turnCommits) = settings.count
           \/ LookupConversation /\ result' = conversationCommit /\ conversationCommit # None
           \/ Finish
           \/ Persist /\ result' = result
  <1>1. LookupConversation \/ Resume \/ CommitTurn \/ Finish \/ Persist
    BY DEF Next, Work, Start, ExtractEvidence, SelectInstruction, AskQuestion, FitQuestion,
           ExtractRequirements, AnswerQuestion, RateTurn, RepairAnswer, Return,
           RecordFailure, CallRaises, BudgetRefused, Crash, ModelSteps, Aborts, Goto
  <1>2. CASE CommitTurn
    <2>1. turns' = turnCommits'
      BY <1>2 DEF CommitTurn, SynthesisInv, LoopMirrorsStore, LoopSteps
    <2> QED BY <1>2, <2>1 DEF CommitTurn, Goto, Complete
  <1>3. CASE Resume
    BY <1>3 DEF Resume, Goto, Complete
  <1>4. CASE LookupConversation
    BY <1>4 DEF LookupConversation, Goto
  <1>5. CASE Persist
    BY <1>5 DEF Persist
  <1> QED BY <1>1, <1>2, <1>3, <1>4, <1>5

LEMMA NoErrorStep ==
    ASSUME SynthesisInv, NoErrorResult, ResultStable, Next
    PROVE  NoErrorResult'
  <1> SUFFICES ASSUME pc' \in {"finish", "persist", "return"}, settings.mode = "holistic"
               PROVE  result'.status # "ERROR"
    BY Writers DEF NoErrorResult
  <1>1. CASE pc \in ModelSteps
    BY <1>1, LoopResults
  <1>2. CASE pc \notin ModelSteps
    <2>1. CASE Finish
      BY <2>1 DEF Finish, NoErrorResult, Retained, RetainsPrefix, SynthesisInv, TypeOK, LocalsOK,
                  Conversation
    <2>2. CASE Persist /\ result' = result
      BY <2>2 DEF Persist, NoErrorResult
    <2>3. CASE result' = conversationCommit /\ conversationCommit # None
      BY <2>3 DEF ResultStable
    <2>4. ASSUME NEW ts, result' = ConversationOf(ts, "QUALITY_CANDIDATE")
          PROVE  result'.status # "ERROR"
      BY <2>4 DEF ConversationOf
    <2> QED BY <1>2, <2>1, <2>2, <2>3, <2>4, OtherResults
  <1> QED BY <1>1, <1>2

\* Whoever was answered holds the saved conversation or an error report.
LEMMA StableStep ==
    ASSUME SynthesisInv, NoErrorResult, ResultStable, Next
    PROVE  ResultStable'
  <1> SUFFICES ASSUME settings.mode = "holistic"
               PROVE  /\ \A c \in returned' : c.status # "ERROR" => c = conversationCommit'
                      /\ conversationCommit' # None => conversationCommit'.status # "ERROR"
    BY Writers DEF ResultStable
  <1>1. /\ \A c \in returned : c.status # "ERROR" => c = conversationCommit
        /\ conversationCommit # None => conversationCommit.status # "ERROR"
    BY DEF ResultStable
  <1>2. CASE Persist
    <2>1. conversationCommit = None /\ returned \subseteq Conversation
          /\ conversationCommit' = result /\ UNCHANGED returned /\ result.status # "ERROR"
      BY <1>2 DEF Persist, Goto, SynthesisInv, TypeOK, FinishOpen, NoErrorResult
    <2>2. \A c \in returned : c.status = "ERROR"
      BY <1>1, <2>1, NoneAssumption
    <2> QED BY <2>1, <2>2
  <1>3. CASE Return
    <2>1. /\ returned' = returned \cup {result} /\ UNCHANGED conversationCommit
          /\ result = conversationCommit
      BY <1>3 DEF Return, durableVars, SynthesisInv, FinishOpen
    <2> QED BY <1>1, <2>1
  <1>4. CASE RecordFailure
    <2>1. /\ returned' \in {returned, returned \cup {ConversationOf(turnCommits, "ERROR")}}
          /\ UNCHANGED conversationCommit
      BY <1>4 DEF RecordFailure, durableVars
    <2>2. ConversationOf(turnCommits, "ERROR").status = "ERROR"
      BY DEF ConversationOf
    <2> QED BY <1>1, <2>1, <2>2
  <1>5. CASE ~(Persist \/ Return \/ RecordFailure)
    BY <1>1, <1>5, Writers
  <1> QED BY <1>2, <1>3, <1>4, <1>5

\* Stops are only added, so what is on record stays there.
LEMMA RecordKept ==
    ASSUME Next, NEW c, OnRecord(c)
    PROVE  OnRecord(c)'
  <1>1. stops \subseteq stops'
    BY Writers DEF Finish
  <1> QED BY <1>1, Writers DEF OnRecord, StopOnRecord

\* A retained prefix is exactly what the stop that is kept with it accepted.
LEMMA FinishRecords ==
    ASSUME SynthesisInv, ResultOnRecord, Finish
    PROVE  OnRecord(result)'
  <1>1. /\ result \in Conversation /\ Accounts(result.turns) /\ turnCommits \in Seq(Turn)
    BY DEF Finish, SynthesisInv, TypeOK, LocalsOK, ResultAccounted
  <1>2. CASE ~RetainsPrefix(result)
    <2>1. UNCHANGED <<stops, result, settings>> /\ OnRecord(result)
      BY <1>2 DEF Finish, Goto, ResultOnRecord
    <2> QED BY <2>1 DEF OnRecord, StopOnRecord
  <1>3. CASE RetainsPrefix(result)
    <2>1. CommittedPrefix(result.turns) = turnCommits
      BY <1>1, PrefixOfAccount
    <2>2. /\ result' = [image |-> result.image, generator |-> result.generator,
                        turns |-> turnCommits, status |-> "QUALITY_CANDIDATE"]
          /\ result \in stops'
      BY <1>1, <1>3, <2>1 DEF Finish, StopArtifact, Retained, Conversation
    <2>3. result.status \in {"REJECTED", "ABSTAINED"}
      BY <1>3 DEF RetainsPrefix
    <2>4. /\ Len(turnCommits) <= Len(result.turns)
          /\ \A i \in DOMAIN result.turns :
                IF i \in DOMAIN turnCommits THEN result.turns[i] = turnCommits[i]
                                           ELSE result.turns[i].status # "COMMITTED"
      <3>1. CASE result.turns = turnCommits
        BY <1>1, <3>1
      <3>2. ASSUME NEW t \in Turn, t.status # "COMMITTED", result.turns = Append(turnCommits, t)
            PROVE  <2>4!1 /\ <2>4!2
        <4>1. /\ DOMAIN turnCommits = 1 .. Len(turnCommits) /\ Len(turnCommits) \in Nat
              /\ DOMAIN result.turns = 1 .. Len(turnCommits) + 1
              /\ Len(result.turns) = Len(turnCommits) + 1
              /\ \A i \in 1 .. Len(turnCommits) : result.turns[i] = turnCommits[i]
              /\ result.turns[Len(turnCommits) + 1] = t
          BY <1>1, <3>2, AppendProperties
        <4> QED BY <3>2, <4>1
      <3> QED BY <1>1, <3>1, <3>2 DEF Accounts
    <2> QED BY <2>2, <2>3, <2>4 DEF OnRecord, StopOnRecord
  <1> QED BY <1>2, <1>3

LEMMA ResultRecordStep ==
    ASSUME SynthesisInv, ResultOnRecord, RetainedStopPreserved, Next
    PROVE  ResultOnRecord'
  <1> SUFFICES ASSUME pc' \in {"finish", "persist", "return"} PROVE OnRecord(result)'
    BY DEF ResultOnRecord
  <1>1. CASE pc \in ModelSteps
    BY <1>1, LoopResults DEF OnRecord
  <1>2. CASE pc \notin ModelSteps
    <2>1. CASE Finish
      BY <2>1, FinishRecords
    <2>2. CASE Persist /\ result' = result
      <3>1. OnRecord(result)
        BY <2>2 DEF Persist, ResultOnRecord
      <3> QED BY <2>2, <3>1, RecordKept DEF OnRecord, StopOnRecord
    <2>3. CASE LookupConversation /\ result' = conversationCommit /\ conversationCommit # None
      <3>1. OnRecord(conversationCommit)
        BY <2>3 DEF RetainedStopPreserved, Conversations, OnRecord
      <3> QED BY <2>3, <3>1, Writers DEF OnRecord, StopOnRecord, LookupConversation, Finish
    <2>4. ASSUME NEW ts, result' = ConversationOf(ts, "QUALITY_CANDIDATE"),
                 Len(ts) = settings.count
          PROVE  OnRecord(result)'
      <3>1. result'.turns = ts /\ settings.count \in Nat /\ settings' = settings
        BY <2>4, Writers, PlannedCountType DEF ConversationOf, SynthesisInv
      <3> QED BY <2>4, <3>1 DEF OnRecord
    <2> QED BY <1>2, <2>1, <2>2, <2>3, <2>4, OtherResults
  <1> QED BY <1>1, <1>2

\* A conversation becomes visible with its stop on record, which stays there.
LEMMA RecordStep ==
    ASSUME SynthesisInv, ResultOnRecord, RetainedStopPreserved, Next
    PROVE  RetainedStopPreserved'
  <1> SUFFICES ASSUME NEW c \in Conversations' PROVE OnRecord(c)'
    BY DEF RetainedStopPreserved, OnRecord, StopOnRecord
  <1>1. CASE c \in Conversations
    BY <1>1, RecordKept DEF RetainedStopPreserved, OnRecord
  <1>2. CASE c \notin Conversations
    <2>1. \/ c = result /\ (Persist \/ Return)
          \/ RecordFailure /\ c = ConversationOf(turnCommits, "ERROR")
      BY <1>2, Writers DEF Conversations, Persist, Return, RecordFailure
    <2>2. CASE c = result /\ (Persist \/ Return)
      BY <2>2, RecordKept DEF ResultOnRecord, Persist, Return
    <2>3. CASE c = ConversationOf(turnCommits, "ERROR")
      BY <2>3 DEF ConversationOf, OnRecord
    <2> QED BY <2>1, <2>2, <2>3
  <1> QED BY <1>1, <1>2

LEMMA StepOutcome == OutcomeInv /\ [Next]_vars => OutcomeInv'
  <1> SUFFICES ASSUME OutcomeInv, [Next]_vars PROVE OutcomeInv'
    OBVIOUS
  <1>1. SynthesisInv'
    BY StepInv DEF OutcomeInv
  <1>2. CASE Next
    BY <1>1, <1>2, FreshStep, DistinctStep, NoErrorStep, StableStep, ResultRecordStep, RecordStep
       DEF OutcomeInv
  <1>3. CASE UNCHANGED vars
    <2>1. QuestionsDistinct' /\ FreshDraft' /\ NoErrorResult' /\ ResultStable'
      BY <1>3 DEF OutcomeInv, vars, durableVars, volatileVars, QuestionsDistinct, FreshDraft,
                  repeated_public_question, NoErrorResult, ResultStable
    <2>2. ResultOnRecord' /\ RetainedStopPreserved'
      BY <1>3 DEF OutcomeInv, vars, durableVars, volatileVars, ResultOnRecord, OnRecord,
                  StopOnRecord, RetainedStopPreserved, Conversations
    <2> QED BY <1>1, <2>1, <2>2 DEF OutcomeInv
  <1> QED BY <1>2, <1>3

\* No question is accepted twice, whichever processes accepted them.
THEOREM QuestionsHold == Spec => []QuestionsDistinct
  <1>1. OutcomeInv => QuestionsDistinct
    BY DEF OutcomeInv
  <1> QED BY <1>1, InitOutcome, StepOutcome, PTL DEF Spec

\* Every process that answers gives the saved answer, which is never an error.
THEOREM ResultHolds == Spec => []ResultStable
  <1>1. OutcomeInv => ResultStable
    BY DEF OutcomeInv
  <1> QED BY <1>1, InitOutcome, StepOutcome, PTL DEF Spec

\* A conversation that was cut short is never seen without the stop that cut it.
THEOREM StopHolds == Spec => []RetainedStopPreserved
  <1>1. OutcomeInv => RetainedStopPreserved
    BY DEF OutcomeInv
  <1> QED BY <1>1, InitOutcome, StepOutcome, PTL DEF Spec
-----------------------------------------------------------------------------
\* A conversation this module accounts for is one the ledger justifies.
LEMMA Justifies ==
    ASSUME SynthesisInv, NEW c \in Conversation,
           Accounts(c.turns), OneGenerator(c), Certified(c)
    PROVE  Ledger!Justified(c)
  <1>1. turnCommits \in Seq(Turn) /\ Len(turnCommits) \in Nat
    BY DEF SynthesisInv, TypeOK
  <1>2. Ledger!Accounts(c.turns)
    <2>1. CASE c.turns = turnCommits
      BY <2>1 DEF Ledger!Accounts
    <2>2. ASSUME NEW t \in Turn, t.status # "COMMITTED", c.turns = Append(turnCommits, t)
          PROVE  Ledger!Accounts(c.turns)
      <3>1. /\ Len(c.turns) = Len(turnCommits) + 1 /\ c.turns[Len(c.turns)] = t
            /\ c.turns \in Seq(Turn)
            /\ \A i \in 1 .. Len(turnCommits) : c.turns[i] = turnCommits[i]
        BY <1>1, <2>2, AppendProperties
      <3>2. SubSeq(c.turns, 1, Len(turnCommits)) = turnCommits
        BY <1>1, <3>1
      <3> QED BY <2>2, <3>1, <3>2 DEF Ledger!Accounts
    <2> QED BY <2>1, <2>2 DEF Accounts
  <1> QED
    BY <1>2 DEF Ledger!Justified, Ledger!Statuses, Conversation, Statuses, OneGenerator, Certified

\* Each step is one of the ledger's, or leaves what it shows unchanged.
LEMMA StepRefines ==
    ASSUME SynthesisInv, Next
    PROVE  [Ledger!Next]_(Ledger!ledgerVars)
  <1> USE DEF Ledger!ledgerVars
  <1>1. CASE CommitTurn
    <2>1. /\ turns = turnCommits /\ conversationCommit = None /\ turnCommits \in Seq(Turn)
          /\ \A i \in DOMAIN turnCommits : turnCommits[i].generator = job.generator
      BY <1>1 DEF CommitTurn, SynthesisInv, TypeOK, LoopMirrorsStore, LoopSteps
    <2> DEFINE turn == TurnOf("COMMITTED")
    <2>2. /\ turn \in Turn /\ turn.status = "COMMITTED" /\ turn.generator = job.generator
          /\ turn.index = Len(turnCommits) + 1 /\ turn.history = Transcript(turnCommits)
      BY <1>1, TurnOfType DEF CommitTurn
    <2>3. /\ turnCommits' = Append(turnCommits, turn)
          /\ UNCHANGED <<settings, returned, conversationCommit>>
      BY <1>1 DEF CommitTurn, Goto
    <2> HIDE DEF turn
    <2>4. Len(turnCommits') > 0 /\ turnCommits'[Len(turnCommits')] = turn
      BY <2>1, <2>2, <2>3, AppendProperties
    <2>5. Transcript(turnCommits) = Ledger!Messages(turnCommits)
      BY DEF Transcript, Ledger!Messages
    <2>6. Ledger!Extends(turnCommits, turn)
      BY <2>1, <2>2, <2>5 DEF Ledger!Extends
    <2>7. Ledger!Accept(turn)
      BY <2>1, <2>3, <2>6 DEF Ledger!Accept
    <2> QED BY <2>4, <2>7 DEF Ledger!Next
  <1>2. CASE Persist
    <2>1. /\ result \in Conversation /\ Ledger!Justified(result)
          /\ settings.mode = "holistic" /\ conversationCommit = None
      BY <1>2, Justifies
         DEF Persist, SynthesisInv, TypeOK, LocalsOK, ResultAccounted, FinishOpen
    <2>2. Ledger!Settle(result)
      BY <1>2, <2>1, NoneAssumption DEF Persist, Goto, Ledger!Settle
    <2> QED BY <1>2, <2>2 DEF Persist, Ledger!Next
  <1>3. CASE Return
    <2>1. result \in Conversation /\ Ledger!Justified(result)
      BY <1>3, Justifies DEF Return, SynthesisInv, TypeOK, LocalsOK, ResultAccounted
    <2>2. Ledger!Announce(result)
      BY <1>3, <2>1
         DEF Return, SynthesisInv, FinishOpen, Ledger!Announce, durableVars
    <2>3. result \in returned'
      BY <1>3 DEF Return
    <2> QED BY <2>2, <2>3 DEF Ledger!Next
  <1>4. CASE RecordFailure
    <2>1. CASE RefusedByContract(turnCommits)
      BY <1>4, <2>1 DEF RecordFailure, durableVars
    <2>2. CASE ~RefusedByContract(turnCommits)
      <3> DEFINE failed == ConversationOf(turnCommits, "ERROR")
      <3>1. job \in Job
        BY <1>4 DEF RecordFailure, SynthesisInv, TypeOK, LocalsOK, Aborts
      <3>2. /\ failed \in Conversation /\ failed.status = "ERROR"
            /\ failed.turns = turnCommits /\ failed.generator = job.generator
        BY <3>1 DEF ConversationOf, Conversation, Statuses, Job, SynthesisInv, TypeOK
      <3>3. returned' = returned \cup {failed}
            /\ UNCHANGED <<settings, turnCommits, conversationCommit>>
        BY <1>4, <2>2 DEF RecordFailure, durableVars
      <3> HIDE DEF failed
      <3>4. Accounts(failed.turns) /\ OneGenerator(failed) /\ Certified(failed)
        BY <2>2, <3>2 DEF Accounts, OneGenerator, Certified, RefusedByContract
      <3>5. Ledger!Announce(failed)
        BY <3>2, <3>3, <3>4, Justifies DEF Ledger!Announce
      <3> QED BY <3>3, <3>5 DEF Ledger!Next
    <2> QED BY <2>1, <2>2
  <1>5. CASE ~(CommitTurn \/ Persist \/ Return \/ RecordFailure)
    BY <1>5
       DEF Next, Work, Start, LookupConversation, Resume, ExtractEvidence,
           SelectInstruction, AskQuestion, FitQuestion, ExtractRequirements, AnswerQuestion,
           RateTurn, RepairAnswer, Finish, CallRaises, BudgetRefused, Crash, Continue,
           EndLoop, Goto, durableVars
  <1> QED BY <1>1, <1>2, <1>3, <1>4, <1>5

\* The coordinator with its store implements the conversation ledger: appended
\* faithful turns, one final verdict, nothing announced that is not accepted.
THEOREM Refinement == Spec => ImplementsLedger
  <1>1. Init => Ledger!Init
    BY DEF Init, Ledger!Init
  <1>2. SynthesisInv /\ [Next]_vars => [Ledger!Next]_(Ledger!ledgerVars)
    <2>1. CASE UNCHANGED vars
      BY <2>1 DEF vars, durableVars, Ledger!ledgerVars
    <2> QED BY <2>1, StepRefines
  <1> QED BY <1>1, <1>2, InitInv, StepInv, PTL DEF Spec, ImplementsLedger, Ledger!Spec

================================================================================
