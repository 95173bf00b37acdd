\* Everything that may happen to a node with two streams.
SPECIFICATION Spec
CONSTANTS
    Peer = {p1}
    Stream = {s1, s2}
    Instruction <- FewInstructions
    StatusSendCounterLimit = 2
    MaxHandlers = 3
    Happens = {"instruction", "subscribe", "open", "close", "peer", "timeout", "disconnection timer", "retry", "unsubscribe"}
INVARIANTS NeighborsAreConnected NoTimerForNeighbors QueuedIsFetched
CHECK_DEADLOCK FALSE
