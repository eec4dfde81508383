\* The solver and the audit under the same policies.
SPECIFICATION Spec
CONSTANTS
    None = None
    c1 = c1
    c2 = c2
    c3 = c3
    Contents <- MCContents
    Policies <- MCPolicies
    MaxCommands = 8
CHECK_DEADLOCK FALSE
INVARIANTS
    AuditMatchesSolver
