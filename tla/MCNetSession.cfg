SPECIFICATION Spec
CONSTANTS
    Deltas = {1, 2, 3}
    Tests = 2
    Acts = {"disconnect", "quit", "again"}
    Failures = {"write", "read"}
    MaxConns = 3
INVARIANTS
    TypeOK
    ModeMatchesSockets
    SameDelta
    StreamInStep
CHECK_DEADLOCK FALSE
