\* A serial run that Ctrl-C may reach, and two workers; a shared prompt and a probe; one process end.
SPECIFICATION Spec
CONSTANTS
    None = None
    Workers = {w1, w2}
    Prompts = {shared, probe}
    Probes = {probe}
    MaxTokens <- MCMaxTokens
    ReplyKinds = {"good", "unusable", "schema"}
    TokenCounts = {1, 3}
    StructuredAttempts = 2
    TransportAttempts = 2
    RequestLimit = 3
    TokenLimit = 5
    MaxExits = 1
SYMMETRY MCSymmetry
CHECK_DEADLOCK FALSE
INVARIANTS
    BudgetBound
    ReservationsAccounted
    RecordedTokensCovered
PROPERTIES
    RowsImmutable
    PaidOnce
    CallsEnd
