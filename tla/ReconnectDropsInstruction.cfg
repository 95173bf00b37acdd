\* A node reconnects to the tracker.
SPECIFICATION Spec
CONSTANTS
    Node = {n1, n2, n3}
    Stream = {s1}
    MaxNeighbors = 2
    MaxEvents = 9
    Churn = {"connect", "subscribe", "disconnect"}
SYMMETRY NodeSymmetry
VIEW WithoutSent
INVARIANTS NewestIsAccepted
CHECK_DEADLOCK FALSE
