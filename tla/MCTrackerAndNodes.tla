-------------------------- MODULE MCTrackerAndNodes --------------------------
\* TrackerAndNodes for TLC.  `sent` is the output of the last handler and is
\* never read; nodes are interchangeable.
EXTENDS TrackerAndNodes

WithoutSent ==
    <<connected, overlayPerStream, counters, nodeVars, events>>

NodeSymmetry == Permutations(Node)
=============================================================================
