\* Four messages, a queue of three, two connections.
SPECIFICATION FairSpec
CONSTANTS
    MaxSize = 3
    MaxTries = 2
    Large = {1}
    Burst = 2
    High = 2
    Low = 0
    MaxPingPongAttempts = 1
    MaxConnections = 2
    MaxItems = 4
INVARIANTS NoLostWakeup ClosedStaysQuiet
PROPERTIES ImplementsDelivery MessagesSettle DeadPeerIsDropped
CHECK_DEADLOCK FALSE
