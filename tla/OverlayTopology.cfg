\* Six nodes and four neighbors each: a newcomer to a clique of five finds
\* every node full and breaks two links, the smallest overlay in which the loop
\* over the disconnection targets has a second iteration.
SPECIFICATION OverlaySpec
CONSTANTS
    Node = {n1, n2, n3, n4, n5, n6}
    MaxNeighbors = 4
SYMMETRY NodeSymmetry
VIEW WithoutInstructions
INVARIANTS IInv FormRespectsMaximum FormAddsLinks GainersAreInstructed LoopBreaksTheseLinks
