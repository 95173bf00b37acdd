\* One failure, and retries while at most one message to or from the peer is on
\* the way.
SPECIFICATION FairSpec
CONSTANTS
    Small = a
    Large = b
    MaxEvents = 1
    MaxQueue = 1
PROPERTIES Converges OpenStays
CHECK_DEADLOCK FALSE
