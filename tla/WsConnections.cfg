\* Both endpoints open sockets to each other, three in all; two fail.
SPECIFICATION FairSpec
CONSTANTS
    Endpoint = {a, b}
    Larger = a
    Dialer = {a, b}
    MaxSockets = 3
    MaxFailures = 2
INVARIANTS ClientIsHeard TieIsBroken
PROPERTIES StaleSocketsGo
CHECK_DEADLOCK FALSE
