\* Messages numbered in any way: seven numbers leave room for a third gap, so
\* that the lowest is dropped.
SPECIFICATION Spec
CONSTANTS
    Infinity = 7
    MaxNumberOfGaps = 2
INVARIANTS GapsAscend NothingLost
PROPERTIES AcceptedOnce NoErrors
