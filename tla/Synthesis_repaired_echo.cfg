\* Detailed evaluation, one process.
SPECIFICATION Spec
CONSTANTS
    q1 = q1
    q2 = q2
    q3 = q3
    genA = genA
    genB = genB
    None = None
    Questions = {q1, q2, q3, echoQ}
    Answers = {a1, echoA}
    PromptEchoes = {echoQ, echoA}
    Generators = {genA, genB}
    Images = {image1}
    PlannedCounts = {3}
    Modes = {"detailed"}
    RetainOptions = {TRUE}
    MinTurns = 2
    MaxTurns = 3
    MaxStarts = 1
SYMMETRY MCSymmetry
CHECK_DEADLOCK FALSE
INVARIANT
    NoEchoCommitted
