\* Any network of three nodes and two changes of it, three messages.
SPECIFICATION FairSpec
CONSTANTS
    Node = {n1, n2, n3}
    Publisher = n1
    Local = Local
    MaxSize = 2
    FailureLimit = 2
    MaxMessages = 3
    MaxEvents = 2
    Happens = {"neighbor", "neighbor lost", "failure", "unsubscribe", "timeout"}
INVARIANTS PropagatesOnce UnpropagatedWait WaitOnlyForNeighbors NeighborsSeeTheSame
PROPERTIES PropagationEnds
CHECK_DEADLOCK FALSE
