SPECIFICATION Spec
CONSTANTS
    Deltas = {1, 2}
    Tests = 2
    Acts = {"quit"}
    Failures = {}
    MaxConns = 1
INVARIANTS
    ClosedOnce
CHECK_DEADLOCK FALSE
