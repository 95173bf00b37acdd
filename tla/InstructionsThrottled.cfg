\* The throttler at work: instructions arrive while others are handled.
SPECIFICATION FairSpec
CONSTANTS
    Peer = {p1, p2}
    Stream = {s1}
    Instruction <- AllInstructions
    StatusSendCounterLimit = 2
    MaxHandlers = 2
    Happens = {"instruction", "subscribe", "open", "close", "peer", "timeout", "disconnection timer"}
INVARIANTS OneAtATime ReportedIsCurrent NeighborsFollowLastAccepted
PROPERTIES QueuedIsHandled
CHECK_DEADLOCK FALSE
