\* Both evaluation modes, with and without a retained prefix, three planned turns, two restarts.
SPECIFICATION FairSpec
CONSTANTS
    q1 = q1
    q2 = q2
    q3 = q3
    genA = genA
    genB = genB
    None = None
    Questions = {q1, q2, q3, echoQ}
    Answers = {a1}
    PromptEchoes = {echoQ}
    Generators = {genA, genB}
    Images = {image1}
    PlannedCounts = {3}
    Modes = {"holistic", "detailed"}
    RetainOptions = {TRUE, FALSE}
    MinTurns = 2
    MaxTurns = 3
    MaxStarts = 3
CHECK_DEADLOCK FALSE
INVARIANTS
    CertifiedIsCommitted
    HistoryFaithful
    QuestionsDistinct
    ResultStable
    RetainedStopPreserved
PROPERTIES
    ImplementsLedger
    EventuallyAnswered
