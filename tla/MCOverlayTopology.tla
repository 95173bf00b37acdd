-------------------------- MODULE MCOverlayTopology --------------------------
(***************************************************************************)
(* OverlayTopology for TLC, and the loop over disconnectionTargets of      *)
(* formInstructions, statement by statement, which is compared with the    *)
(* set of broken links by which OverlayGraph describes its outcome.        *)
(***************************************************************************)
EXTENDS OverlayTopology, TLC

\* Nodes are interchangeable.
NodeSymmetry == Permutations(Node)

\* `instructions` is the output of the last call and is never read.
WithoutInstructions == nodes

\* One iteration: n1 was popped, n2 picked among its neighbors that are not
\* yet neighbors of n.
LinkedBetween(g, n, n1, n2) ==
    [g EXCEPT ![n1] = (@ \ {n2}) \cup {n},
              ![n2] = (@ \ {n1}) \cup {n},
              ![n] = @ \cup {n1, n2}]

\* The graphs the loop may end with.  The targets are in random order, so the
\* one popped is any of them.
RECURSIVE LoopOutcomes(_, _, _)
LoopOutcomes(g, n, disconnectionTargets) ==
    IF Missing(g, n) > 1 /\ disconnectionTargets # {}
    THEN UNION {LET n2candidates == {m \in g[n1] : n \notin g[m]}
                    rest == disconnectionTargets \ {n1}
                IN  IF n2candidates = {}
                    THEN LoopOutcomes(g, n, rest)
                    ELSE UNION {LoopOutcomes(LinkedBetween(g, n, n1, n2), n,
                                             rest \ {n2}) : n2 \in n2candidates} :
                n1 \in disconnectionTargets}
    ELSE {g}

\* The matchings of BrokenLinks are exactly what the loop can do, in every
\* overlay that reports, departures and instructions lead to; in particular no
\* order of the targets makes a node its own neighbor or links it twice.
LoopBreaksTheseLinks ==
    \A n \in DOMAIN nodes :
        Missing(nodes, n) > 1 =>
            LoopOutcomes(nodes, n, FullNodes(nodes, n)) = Swapped(nodes, n)
=============================================================================
