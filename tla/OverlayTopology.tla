--------------------------- MODULE OverlayTopology ---------------------------
(***************************************************************************)
(* src/logic/OverlayTopology.ts: the tracker's picture of the overlay of   *)
(* one stream.  Node processes report their neighbors (update), go away    *)
(* (leave), and the tracker asks for the instructions that bring a node    *)
(* to MaxNeighbors neighbors (formInstructions).                           *)
(*                                                                         *)
(* The methods may be called in any order with any argument: the only      *)
(* caller, Tracker.ts, passes on what the nodes of the network report.     *)
(***************************************************************************)
EXTENDS OverlayGraph

VARIABLES nodes,         \* the field `nodes`
          instructions   \* what the last formInstructions returned

overlayVars == <<nodes, instructions>>

NoInstructions == [m \in {} |-> {}]

OverlayInit == /\ nodes = EmptyGraph
        /\ instructions = NoInstructions

Update(n, neighbors) ==
    /\ nodes' = Updated(nodes, n, neighbors)
    /\ instructions' = NoInstructions

Leave(n) ==
    /\ n \in DOMAIN nodes
    /\ nodes' = Left(nodes, n)
    /\ instructions' = NoInstructions

FormInstructions(n, force) ==
    /\ nodes' \in Formed(nodes, n)
    /\ instructions' =
         Instructions(nodes', UpdatedNodes(nodes, nodes', n, force))

OverlayNext == \E n \in Node :
          \/ \E neighbors \in SUBSET Node : Update(n, neighbors)
          \/ Leave(n)
          \/ \E force \in BOOLEAN : FormInstructions(n, force)

OverlaySpec == OverlayInit /\ [][OverlayNext]_overlayVars

-----------------------------------------------------------------------------
\* The links stay among the nodes of the stream, and an instruction names only
\* nodes of the stream: no update or departure leaves a dangling neighbor.
TypeOK == /\ IsGraph(nodes)
          /\ instructions \in [DOMAIN instructions -> SUBSET DOMAIN nodes]
          /\ DOMAIN instructions \subseteq DOMAIN nodes

\* Both ends of a link know of it, after any sequence of partial, stale or
\* contradictory reports, departures and rewirings.
Symmetric == SymmetricGraph(nodes)

\* The invariant that formInstructions checks at run time (lines 163-169): a
\* node is never its own neighbor.  A report may name the reporter, and the
\* rewiring loop links n to both ends of links that run anywhere.
NoSelfNeighbor == IrreflexiveGraph(nodes)

\* What the proofs need: symmetry is what keeps departures from leaving
\* dangling links behind.
IInv == TypeOK /\ Symmetric /\ NoSelfNeighbor

\* What formInstructions(n) may make of the overlay, in every reachable state.
AfterForm(P(_, _)) ==
    \A n \in DOMAIN nodes : \A h \in Formed(nodes, n) : P(n, h)

\* formInstructions(n) leaves n with at most MaxNeighbors neighbors, and gives
\* no node more than the maximum that did not have them before.
FormRespectsMaximum ==
    AfterForm(LAMBDA n, h :
        \A m \in DOMAIN nodes :
            \/ Cardinality(h[m]) <= MaxNeighbors
            \/ m # n /\ Cardinality(h[m]) <= Cardinality(nodes[m]))

\* The links of an overlay, each once per end.
LinkEnds(g) == {e \in (DOMAIN g) \X (DOMAIN g) : e[2] \in g[e[1]]}

\* No "never-ending chain of disconnects and connects" (the comment at lines
\* 122-125): when n is not over the maximum, formInstructions(n) either changes
\* nothing or leaves the overlay with more links than before, of which there
\* can only be so many.
FormAddsLinks ==
    AfterForm(LAMBDA n, h :
        Missing(nodes, n) >= 0 =>
            h = nodes \/ Cardinality(LinkEnds(h)) > Cardinality(LinkEnds(nodes)))

\* Whoever gained a neighbor through formInstructions is instructed, with all
\* the neighbors it has now: both ends of every new link learn of it.
GainersAreInstructed ==
    AfterForm(LAMBDA n, h : \A force \in BOOLEAN :
        LET sent == Instructions(h, UpdatedNodes(nodes, h, n, force))
        IN  \A m \in DOMAIN nodes :
                ~ (h[m] \subseteq nodes[m]) => m \in DOMAIN sent /\ sent[m] = h[m])
=============================================================================
