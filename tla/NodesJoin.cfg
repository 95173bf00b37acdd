\* Nodes come and connect, and nothing else happens.
SPECIFICATION Spec
CONSTANTS
    Node = {n1, n2, n3, n4, n5}
    Stream = {s1}
    MaxNeighbors = 2
    MaxEvents = 10
    Churn = {"connect", "subscribe"}
SYMMETRY NodeSymmetry
VIEW WithoutSent
INVARIANTS QuiescentAgreement NewestIsAccepted
PROPERTIES OldReportIsNotBelieved
CHECK_DEADLOCK FALSE
