\* Two requests, two storage nodes, one fault.
SPECIFICATION FairSpec
CONSTANTS
    r1 = r1
    r2 = r2
    Request = {r1, r2}
    s1 = s1
    s2 = s2
    Storage = {s1, s2}
    Contacts = {s1}
    NodeLists <- SomeLists
    Requester = req
    Holdings <- SomeHoldings
    MaxEvents = 1
INVARIANTS WholeUnlessDisturbed LinksAreNeeded
PROPERTIES ImplementsStream
CHECK_DEADLOCK FALSE
