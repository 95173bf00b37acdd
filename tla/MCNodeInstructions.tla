-------------------------- MODULE MCNodeInstructions --------------------------
\* NodeInstructions for TLC.
EXTENDS NodeInstructions

InstructionFor(s, nodeIds, counter, expected) ==
    [stream |-> s, nodeIds |-> nodeIds, counter |-> counter, expected |-> expected]

\* Every set of neighbors with every counter.
AllInstructions ==
    {InstructionFor(s, nodeIds, counter, TRUE) :
        s \in Stream, nodeIds \in SUBSET Peer, counter \in 1 .. 2}

\* Three instructions per stream, and one of another tracker.
FewInstructions ==
    UNION {{InstructionFor(s, Peer, 1, TRUE),
            InstructionFor(s, {}, 2, TRUE),
            InstructionFor(s, {}, 1, FALSE)} : s \in Stream}
=============================================================================
