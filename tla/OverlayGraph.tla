---------------------------- MODULE OverlayGraph ----------------------------
(***************************************************************************)
(* The operations of src/logic/OverlayTopology.ts as operators on a graph. *)
(*                                                                         *)
(* A graph is the value of the field `nodes`: a function whose domain is   *)
(* the set of nodes of the stream and that gives each its set of           *)
(* neighbors.  shuffleArray and pickRandomElement are nondeterministic     *)
(* choices, so an operation that uses them is the SET of the graphs it may *)
(* produce.                                                                *)
(***************************************************************************)
EXTENDS Integers, FiniteSets, FiniteSetsExt, Functions

CONSTANTS Node,          \* identifiers of the nodes that may ever join
          MaxNeighbors   \* maxNeighborsPerNode

ASSUME MaxNeighborsAssumption == MaxNeighbors \in Nat

EmptyGraph == [m \in {} |-> {}]

Missing(g, n) == MaxNeighbors - Cardinality(g[n])

\* shuffleArray(S).slice(0, k): k arbitrary elements of S, or all of S when
\* it has fewer.
ShuffledSlice(S, k) == IF Cardinality(S) <= k THEN {S} ELSE kSubset(k, S)

\* Mutants of Updated: the others keep their links to n; reported nodes that
\* nobody heard of join the overlay.
UpdatedAtOneEnd(g, n, neighbors) ==
    LET known == {m \in neighbors : m \in DOMAIN g /\ m # n}
    IN  [m \in DOMAIN g \cup {n} |->
            IF m = n THEN known ELSE IF m \in known THEN g[m] \cup {n} ELSE g[m]]

UpdatedWithUnknown(g, n, neighbors) ==
    [m \in DOMAIN g \cup {n} \cup neighbors |->
        IF m = n THEN neighbors \ {n}
        ELSE LET old == IF m \in DOMAIN g THEN g[m] ELSE {}
             IN  IF m \in neighbors THEN old \cup {n} ELSE old \ {n}]

\* update(n, neighbors): n reports its neighbors.  Unknown ones and n itself
\* are ignored; every other node is made to agree with the report.
Updated(g, n, neighbors) ==
    LET known == {m \in neighbors : m \in DOMAIN g /\ m # n}
    IN  [m \in DOMAIN g \cup {n} |->
            IF m = n THEN known
            ELSE IF m \in known THEN g[m] \cup {n} ELSE g[m] \ {n}]

\* leave(n): n and its links disappear.
Left(g, n) ==
    [m \in DOMAIN g \ {n} |-> IF m \in g[n] THEN g[m] \ {n} ELSE g[m]]

-----------------------------------------------------------------------------
(***************************************************************************)
(* formInstructions(n), in its three phases.                               *)
(***************************************************************************)

\* Too many neighbors: keep MaxNeighbors of them.
Trimmed(g, n) ==
    IF Missing(g, n) < 0
    THEN {Updated(g, n, keep) : keep \in ShuffledSlice(g[n], MaxNeighbors)}
    ELSE {g}

\* Too few: link n to nodes that have open slots.
OpenNodes(g, n) ==
    {m \in DOMAIN g : /\ Cardinality(g[m]) < MaxNeighbors
                      /\ n \notin g[m]
                      /\ m # n}

\* Mutant of Extended: n's neighbors are replaced, not joined.
ExtendedAnew(g, n) ==
    IF Missing(g, n) > 0
    THEN {Updated(g, n, add) : add \in ShuffledSlice(OpenNodes(g, n), Missing(g, n))}
    ELSE {g}

Extended(g, n) ==
    IF Missing(g, n) > 0
    THEN {Updated(g, n, g[n] \cup add) :
            add \in ShuffledSlice(OpenNodes(g, n), Missing(g, n))}
    ELSE {g}

\* Still two or more too few: every other node is full.  A link between a full
\* node and one of its neighbors is broken and n is linked to both its ends.
FullNodes(g, n) ==
    {m \in DOMAIN g : /\ Cardinality(g[m]) >= MaxNeighbors
                      /\ n \notin g[m]
                      /\ m # n}

BreakableLinks(g, n) ==
    UNION {{{a, b} : b \in {c \in g[a] : n \notin g[c]}} : a \in FullNodes(g, n)}

\* Mutant of BrokenLinks: n2 stays among the disconnection targets.
BrokenLinksSharingEnds(g, n) ==
    LET pairs == Missing(g, n) \div 2
    IN  {M \in SUBSET BreakableLinks(g, n) :
           /\ Cardinality(M) <= pairs
           /\ \/ Cardinality(M) = pairs
              \/ \A a \in FullNodes(g, n) \ UNION M :
                   \A b \in g[a] : n \in g[b] \/ b \in UNION M}

(***************************************************************************)
(* The links the loop over disconnectionTargets may break.  An end of a    *)
(* broken link is a neighbor of n from then on, so no two broken links     *)
(* share an end; the loop stops when fewer than two slots are free or when *)
(* every target was tried, a target being passed over when all its         *)
(* neighbors are neighbors of n by then.  (MCOverlayTopology has the loop  *)
(* itself, and compares the two.)                                          *)
(***************************************************************************)
BrokenLinks(g, n) ==
    LET pairs == Missing(g, n) \div 2
    IN  {M \in SUBSET BreakableLinks(g, n) :
           /\ \A e, f \in M : e # f => e \cap f = {}
           /\ Cardinality(M) <= pairs
           /\ \/ Cardinality(M) = pairs
              \/ \A a \in FullNodes(g, n) \ UNION M :
                   \A b \in g[a] : n \in g[b] \/ b \in UNION M}

\* Mutant of Rewired: the link in whose place n comes is kept.
RewiredWithoutBreaking(g, n, M) ==
    [m \in DOMAIN g |->
        IF m = n THEN g[n] \cup UNION M
        ELSE IF m \in UNION M THEN g[m] \cup {n} ELSE g[m]]

Rewired(g, n, M) ==
    [m \in DOMAIN g |->
        IF m = n THEN g[n] \cup UNION M
        ELSE IF m \in UNION M THEN {b \in g[m] : {m, b} \notin M} \cup {n}
        ELSE g[m]]

Swapped(g, n) ==
    IF Missing(g, n) > 1
    THEN {Rewired(g, n, M) : M \in BrokenLinks(g, n)}
    ELSE {g}

\* The graphs formInstructions(n) may leave behind.
Formed(g, n) ==
    IF n \in DOMAIN g
    THEN UNION {UNION {Swapped(g2, n) : g2 \in Extended(g1, n)} :
                  g1 \in Trimmed(g, n)}
    ELSE {g}

\* Mutant of UpdatedNodes: only n itself.
UpdatedNodeItself(g, h, n, force) ==
    IF n \in DOMAIN g /\ (force \/ h[n] # g[n]) THEN {n} ELSE {}

\* updatedNodes at the end of formInstructions(n), force being forceGenerate:
\* the neighbors n gained, and n itself if its own set changed.  The neighbors
\* n lost and the other neighbors of rewired nodes are told nothing.
UpdatedNodes(g, h, n, force) ==
    IF n \in DOMAIN g
    THEN (h[n] \ g[n]) \cup (IF force \/ h[n] # g[n] THEN {n} ELSE {})
    ELSE {}

\* The Instructions returned: for each updated node, its neighbors.
Instructions(h, updated) == [m \in updated |-> h[m]]

-----------------------------------------------------------------------------
(***************************************************************************)
(* What a well-formed overlay is.                                          *)
(***************************************************************************)
\* The neighbors of nodes of the graph are nodes of the graph.
IsGraph(g) == /\ DOMAIN g \subseteq Node
              /\ g \in [DOMAIN g -> SUBSET DOMAIN g]

SymmetricGraph(g) == \A a, b \in DOMAIN g : a \in g[b] => b \in g[a]

IrreflexiveGraph(g) == \A a \in DOMAIN g : a \notin g[a]

WellFormed(g) == /\ IsGraph(g)
                 /\ SymmetricGraph(g)
                 /\ IrreflexiveGraph(g)
=============================================================================
