\* Users come and go, connections to the tracker and between nodes fail.
SPECIFICATION Spec
CONSTANTS
    Node = {n1, n2, n3}
    Stream = {s1, s2}
    MaxNeighbors = 2
    MaxEvents = 8
    Churn = {"connect", "subscribe", "unsubscribe", "disconnect", "connect failure", "neighbor lost"}
SYMMETRY NodeSymmetry
VIEW WithoutSent
INVARIANTS MembershipAgreement OverlaysSound
PROPERTIES LastInstructionIsCurrent
CHECK_DEADLOCK FALSE
