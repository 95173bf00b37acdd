------------------------ MODULE TrackerAndNodes_proofs ------------------------
(***************************************************************************)
(* The overlay of a stream, the tracker that keeps the overlays of all of  *)
(* them, and the nodes at the other end, for every set of nodes and of     *)
(* streams, every maximum and every sequence of events.                    *)
(*                                                                         *)
(* First the overlay alone, as module OverlayTopology drives it: it stays  *)
(* well formed; formInstructions tells whoever gained a neighbor, respects *)
(* the maximum, and adds links or changes nothing.  Then the handlers of   *)
(* the tracker, one lemma for each of their parts, and the invariant that  *)
(* relates the overlays to the statuses in flight and the nodes' streams.  *)
(* Then the tracker and nodes that only join: how every node comes to know *)
(* the neighbors it has in the overlay.  Last, what the last of several    *)
(* instructions of a handler says.                                         *)
(***************************************************************************)
EXTENDS OverlayTopology, TrackerAndNodes, FiniteSetTheorems, SequenceTheorems,
        WellFoundedInduction, TLAPS

\* update keeps an overlay well formed whatever the report says.
LEMMA UpdatedWellFormed ==
    ASSUME NEW g, WellFormed(g), NEW n \in Node, NEW S
    PROVE  /\ WellFormed(Updated(g, n, S))
           /\ DOMAIN Updated(g, n, S) = DOMAIN g \cup {n}
<1> DEFINE known == {m \in S : m \in DOMAIN g /\ m # n}
           h == Updated(g, n, S)
<1>0. h = [m \in DOMAIN h |-> h[m]]
  BY DEF Updated
<1>1. DOMAIN h = DOMAIN g \cup {n}
  BY DEF Updated
<1>2. ASSUME NEW m \in DOMAIN h
      PROVE  h[m] = IF m = n THEN known
                    ELSE IF m \in known THEN g[m] \cup {n} ELSE g[m] \ {n}
  BY <1>1 DEF Updated
<1> HIDE DEF h
<1>3. IsGraph(h)
  <2>1. DOMAIN h \subseteq Node
    BY <1>1 DEF WellFormed, IsGraph
  <2>2. ASSUME NEW m \in DOMAIN h PROVE h[m] \subseteq DOMAIN h
    BY <1>1, <1>2 DEF WellFormed, IsGraph
  <2>3. h = [m \in DOMAIN h |-> h[m]]
    BY <1>0
  <2>. QED BY <2>1, <2>2, <2>3 DEF IsGraph
<1>4. SymmetricGraph(h)
  <2> SUFFICES ASSUME NEW a \in DOMAIN h, NEW b \in DOMAIN h, a \in h[b]
               PROVE  b \in h[a]
    BY DEF SymmetricGraph
  <2>1. CASE a = n
    BY <1>1, <1>2, <2>1 DEF WellFormed, IsGraph, SymmetricGraph
  <2>2. CASE a # n /\ b = n
    BY <1>1, <1>2, <2>2
  <2>3. CASE a # n /\ b # n
    <3>1. a \in DOMAIN g /\ b \in DOMAIN g /\ a \in g[b]
      BY <1>1, <1>2, <2>3
    <3>2. b \in g[a]
      BY <3>1 DEF WellFormed, SymmetricGraph
    <3>. QED BY <1>2, <2>3, <3>2
  <2>. QED BY <2>1, <2>2, <2>3
<1>5. IrreflexiveGraph(h)
  BY <1>1, <1>2 DEF WellFormed, IrreflexiveGraph
<1>. QED BY <1>1, <1>3, <1>4, <1>5 DEF WellFormed, h

\* leave keeps an overlay well formed.  It only visits the neighbors of the
\* node that leaves: symmetry is why no other node still lists it.
LEMMA LeftWellFormed ==
    ASSUME NEW g, WellFormed(g), NEW n \in DOMAIN g
    PROVE  WellFormed(Left(g, n))
<1> DEFINE h == Left(g, n)
<1>0. h = [m \in DOMAIN h |-> h[m]]
  BY DEF Left
<1>1. DOMAIN h = DOMAIN g \ {n}
  BY DEF Left
<1>2. ASSUME NEW m \in DOMAIN h
      PROVE  h[m] = g[m] \ {n}
  <2>1. h[m] = IF m \in g[n] THEN g[m] \ {n} ELSE g[m]
    BY <1>1 DEF Left
  <2>2. n \in g[m] => m \in g[n]
    BY <1>1 DEF WellFormed, SymmetricGraph
  <2>. QED BY <2>1, <2>2
<1> HIDE DEF h
<1>3. IsGraph(h)
  <2>1. ASSUME NEW m \in DOMAIN h PROVE h[m] \subseteq DOMAIN h
    BY <1>1, <1>2 DEF WellFormed, IsGraph
  <2>2. h = [m \in DOMAIN h |-> h[m]]
    BY <1>0
  <2>. QED BY <1>1, <2>1, <2>2 DEF IsGraph, WellFormed
<1>4. SymmetricGraph(h)
  BY <1>1, <1>2 DEF WellFormed, SymmetricGraph
<1>5. IrreflexiveGraph(h)
  BY <1>1, <1>2 DEF WellFormed, IrreflexiveGraph
<1>. QED BY <1>3, <1>4, <1>5 DEF WellFormed, h

\* No end of a link that may be broken is n itself: a full node that does not
\* have n as a neighbor cannot offer n as the other end.
LEMMA BreakableLinkEnds ==
    ASSUME NEW g, WellFormed(g), NEW n \in DOMAIN g,
           NEW e \in BreakableLinks(g, n)
    PROVE  \E a, b \in DOMAIN g \ {n} :
              /\ e = {a, b}
              /\ b \in g[a]
              /\ n \notin g[a]
              /\ n \notin g[b]
<1>1. PICK a \in FullNodes(g, n) : e \in {{a, b} : b \in {c \in g[a] : n \notin g[c]}}
  BY DEF BreakableLinks
<1>2. PICK b \in g[a] : e = {a, b} /\ n \notin g[b]
  BY <1>1
<1>3. a \in DOMAIN g \ {n} /\ n \notin g[a]
  BY <1>1 DEF FullNodes
<1>4. b \in DOMAIN g \ {n}
  BY <1>2, <1>3 DEF WellFormed, IsGraph
<1>. QED BY <1>2, <1>3, <1>4

\* Breaking links and linking n to their ends keeps an overlay well formed.
LEMMA RewiredWellFormed ==
    ASSUME NEW g, WellFormed(g), NEW n \in DOMAIN g,
           NEW M \in SUBSET BreakableLinks(g, n)
    PROVE  /\ WellFormed(Rewired(g, n, M))
           /\ DOMAIN Rewired(g, n, M) = DOMAIN g
<1> DEFINE h == Rewired(g, n, M)
           ends == UNION M
<1>0. h = [m \in DOMAIN h |-> h[m]]
  BY DEF Rewired
<1>1. DOMAIN h = DOMAIN g
  BY DEF Rewired
<1>2. ASSUME NEW m \in DOMAIN h
      PROVE  h[m] = IF m = n THEN g[n] \cup ends
                    ELSE IF m \in ends THEN {b \in g[m] : {m, b} \notin M} \cup {n}
                    ELSE g[m]
  BY <1>1 DEF Rewired
<1> HIDE DEF h
<1>3. ends \subseteq DOMAIN g \ {n}
  <2> SUFFICES ASSUME NEW e \in M, NEW x \in e PROVE x \in DOMAIN g \ {n}
    OBVIOUS
  <2>. QED BY BreakableLinkEnds
<1>4. IsGraph(h)
  <2>1. ASSUME NEW m \in DOMAIN h PROVE h[m] \subseteq DOMAIN h
    <3>1. g[m] \subseteq DOMAIN g /\ g[n] \subseteq DOMAIN g
      BY <1>1 DEF WellFormed, IsGraph
    <3>. HIDE DEF ends
    <3>. QED BY <1>1, <1>2, <1>3, <3>1
  <2>2. h = [m \in DOMAIN h |-> h[m]]
    BY <1>0
  <2>. QED BY <1>1, <2>1, <2>2 DEF IsGraph, WellFormed
<1>5. IrreflexiveGraph(h)
  <2>1. g[n] \cup ends \subseteq DOMAIN g \ {n}
    BY <1>3 DEF WellFormed, IrreflexiveGraph, IsGraph
  <2>2. ASSUME NEW m \in DOMAIN h PROVE m \notin h[m]
    <3>1. n # m => m \notin g[m]
      BY <1>1 DEF WellFormed, IrreflexiveGraph
    <3>. HIDE DEF ends
    <3>. QED BY <1>1, <1>2, <2>1, <3>1
  <2>. QED BY <2>2 DEF IrreflexiveGraph
<1>6. SymmetricGraph(h)
  <2> SUFFICES ASSUME NEW a \in DOMAIN g, NEW b \in DOMAIN g, a \in h[b]
               PROVE  b \in h[a]
    BY <1>1 DEF SymmetricGraph
  <2>1. CASE b = n
    <3>1. a \in g[n] \/ a \in ends
      BY <1>1, <1>2, <2>1
    <3>2. a # n
      BY <3>1, <1>3 DEF WellFormed, IrreflexiveGraph
    <3>3. CASE a \in ends
      BY <1>1, <1>2, <2>1, <3>2, <3>3
    <3>4. CASE a \notin ends
      BY <1>1, <1>2, <2>1, <3>1, <3>2, <3>4 DEF WellFormed, SymmetricGraph
    <3>. QED BY <3>3, <3>4
  <2>2. CASE b # n /\ a = n
    <3>1. b \in ends \/ n \in g[b]
      BY <1>1, <1>2, <2>2
    <3>2. b \in g[n] \cup ends
      BY <3>1 DEF WellFormed, SymmetricGraph
    <3>. QED BY <1>1, <1>2, <2>2, <3>2
  <2>3. CASE b # n /\ a # n
    <3>0. a \in g[b]
      <4>1. h[b] = IF b \in ends THEN {x \in g[b] : {b, x} \notin M} \cup {n} ELSE g[b]
        BY <1>1, <1>2, <2>3
      <4> QED BY <2>3, <4>1
    <3>1. a \in g[b] /\ b \in g[a]
      BY <3>0 DEF WellFormed, SymmetricGraph
    <3>2. {b, a} \notin M
      <4>1. CASE b \in ends
        BY <1>1, <1>2, <2>3, <4>1
      <4>2. CASE b \notin ends
        BY <4>2
      <4>. QED BY <4>1, <4>2
    <3>3. {a, b} \notin M
      <4>1. {a, b} = {b, a}
        OBVIOUS
      <4>. QED BY <3>2, <4>1
    <3>. QED BY <1>1, <1>2, <2>3, <3>1, <3>3
  <2>. QED BY <2>1, <2>2, <2>3
<1>. QED BY <1>1, <1>4, <1>5, <1>6 DEF WellFormed, h

\* formInstructions keeps an overlay well formed, and its set of nodes.
LEMMA FormedWellFormed ==
    ASSUME NEW g, WellFormed(g), NEW n \in Node, NEW h \in Formed(g, n)
    PROVE  WellFormed(h) /\ DOMAIN h = DOMAIN g
<1>1. CASE n \notin DOMAIN g
  BY <1>1 DEF Formed
<1>2. CASE n \in DOMAIN g
  <2>0. PICK g1 \in Trimmed(g, n) :
             h \in UNION {Swapped(g2, n) : g2 \in Extended(g1, n)}
    BY <1>2 DEF Formed
  <2>1. PICK g2 \in Extended(g1, n) : h \in Swapped(g2, n)
    BY <2>0
  <2>2. WellFormed(g1) /\ DOMAIN g1 = DOMAIN g
    BY <1>2, UpdatedWellFormed DEF Trimmed
  <2>3. WellFormed(g2) /\ DOMAIN g2 = DOMAIN g
    <3>1. CASE g2 = g1
      BY <2>2, <3>1
    <3>2. CASE g2 # g1
      <4>1. PICK add : g2 = Updated(g1, n, g1[n] \cup add)
        BY <3>2 DEF Extended
      <4>2. \A S : /\ WellFormed(Updated(g1, n, S))
                   /\ DOMAIN Updated(g1, n, S) = DOMAIN g1 \cup {n}
        BY <2>2, UpdatedWellFormed
      <4>3. WellFormed(g2) /\ DOMAIN g2 = DOMAIN g1 \cup {n}
        BY <4>1, <4>2
      <4>. QED BY <1>2, <2>2, <4>3
    <3>. QED BY <3>1, <3>2
  <2>4. WellFormed(h) /\ DOMAIN h = DOMAIN g
    BY <1>2, <2>1, <2>3, RewiredWellFormed DEF Swapped, BrokenLinks
  <2>. QED BY <2>4
<1>. QED BY <1>1, <1>2

-----------------------------------------------------------------------------
\* A new overlay has no nodes and no instructions.
LEMMA InitIInv == OverlayInit => IInv
BY DEF OverlayInit, IInv, TypeOK, Symmetric, NoSelfNeighbor, EmptyGraph,
       NoInstructions, IsGraph, SymmetricGraph, IrreflexiveGraph

\* Every method keeps the invariant.
LEMMA NextIInv == IInv /\ [OverlayNext]_overlayVars => IInv'
<1> SUFFICES ASSUME IInv, [OverlayNext]_overlayVars PROVE IInv'
  OBVIOUS
<1>0. WellFormed(nodes)
  BY DEF IInv, TypeOK, Symmetric, NoSelfNeighbor, WellFormed
<1>1. ASSUME NEW n \in Node, NEW neighbors \in SUBSET Node, Update(n, neighbors)
      PROVE  IInv'
  <2>1. WellFormed(nodes')
    BY <1>0, <1>1, UpdatedWellFormed DEF Update
  <2>2. instructions' = [m \in {} |-> {}]
    BY <1>1 DEF Update, NoInstructions
  <2>. QED BY <2>1, <2>2 DEF IInv, TypeOK, Symmetric, NoSelfNeighbor, WellFormed
<1>2. ASSUME NEW n \in Node, Leave(n)
      PROVE  IInv'
  <2>1. WellFormed(nodes')
    BY <1>0, <1>2, LeftWellFormed DEF Leave
  <2>2. instructions' = [m \in {} |-> {}]
    BY <1>2 DEF Leave, NoInstructions
  <2>. QED BY <2>1, <2>2 DEF IInv, TypeOK, Symmetric, NoSelfNeighbor, WellFormed
<1>3. ASSUME NEW n \in Node, NEW force \in BOOLEAN, FormInstructions(n, force)
      PROVE  IInv'
  <2> DEFINE updated == UpdatedNodes(nodes, nodes', n, force)
  <2>1. WellFormed(nodes') /\ DOMAIN nodes' = DOMAIN nodes
    BY <1>0, <1>3, FormedWellFormed DEF FormInstructions
  <2>2. updated \subseteq DOMAIN nodes'
    BY <2>1 DEF UpdatedNodes, WellFormed, IsGraph
  <2>3. instructions' = [m \in updated |-> nodes'[m]]
    BY <1>3 DEF FormInstructions, Instructions
  <2>4. \A m \in updated : nodes'[m] \subseteq DOMAIN nodes'
    BY <2>1, <2>2 DEF WellFormed, IsGraph
  <2>5. TypeOK'
    <3> HIDE DEF updated
    <3>. QED BY <2>1, <2>2, <2>3, <2>4 DEF TypeOK, WellFormed
  <2>. QED BY <2>1, <2>5 DEF IInv, Symmetric, NoSelfNeighbor, WellFormed
<1>4. CASE UNCHANGED overlayVars
  BY <1>4 DEF overlayVars, IInv, TypeOK, Symmetric, NoSelfNeighbor
<1>. QED BY <1>1, <1>2, <1>3, <1>4 DEF OverlayNext

\* The inductive invariant holds always.
THEOREM OverlayWellFormed == OverlaySpec => []IInv
<1>. QED BY InitIInv, NextIInv, PTL DEF OverlaySpec

\* Links stay inside the stream, and instructions name nodes of the stream.
THEOREM OverlayTypeCorrect == OverlaySpec => []TypeOK
BY OverlayWellFormed, PTL DEF IInv

\* Both ends of a link always know of it.
THEOREM AlwaysSymmetric == OverlaySpec => []Symmetric
BY OverlayWellFormed, PTL DEF IInv

\* The run-time check at lines 163-169 of OverlayTopology.ts never throws.
THEOREM NeverOwnNeighbor == OverlaySpec => []NoSelfNeighbor
BY OverlayWellFormed, PTL DEF IInv

-----------------------------------------------------------------------------
(***************************************************************************)
(* What one formInstructions(n) does to a well-formed overlay.             *)
(***************************************************************************)
\* A slice of a shuffled set holds elements of the set.
LEMMA SliceInside ==
    ASSUME NEW S, NEW k, NEW s \in ShuffledSlice(S, k)
    PROVE  s \subseteq S
<1>1. CASE Cardinality(S) <= k
  BY <1>1 DEF ShuffledSlice
<1>2. CASE ~ (Cardinality(S) <= k)
  BY <1>2 DEF ShuffledSlice, kSubset
<1> QED BY <1>1, <1>2

\* The three phases, one after the other.
LEMMA FormedInPhases ==
    ASSUME NEW g, NEW n \in DOMAIN g, NEW h \in Formed(g, n)
    PROVE  \E g1 \in Trimmed(g, n) : \E g2 \in Extended(g1, n) : h \in Swapped(g2, n)
<1>1. PICK g1 \in Trimmed(g, n) : h \in UNION {Swapped(g2, n) : g2 \in Extended(g1, n)}
  BY DEF Formed
<1>2. PICK g2 \in Extended(g1, n) : h \in Swapped(g2, n)
  BY <1>1
<1> QED BY <1>2

\* The first phase: whatever n lets go of loses n, and that is all.
LEMMA TrimmedIs ==
    ASSUME NEW g, WellFormed(g), NEW n \in DOMAIN g, NEW h \in Trimmed(g, n)
    PROVE  /\ WellFormed(h) /\ DOMAIN h = DOMAIN g
           /\ \A m \in DOMAIN g : h[m] \subseteq g[m]
           /\ \/ ~ (Missing(g, n) < 0) /\ h = g
              \/ Missing(g, n) < 0 /\ h[n] \in ShuffledSlice(g[n], MaxNeighbors)
<1>1. CASE ~ (Missing(g, n) < 0)
  BY <1>1 DEF Trimmed
<1>2. CASE Missing(g, n) < 0
  <2>1. PICK keep \in ShuffledSlice(g[n], MaxNeighbors) : h = Updated(g, n, keep)
    BY <1>2 DEF Trimmed
  <2>2. n \in Node /\ keep \subseteq g[n] /\ g[n] \subseteq DOMAIN g \ {n}
    BY SliceInside DEF WellFormed, IsGraph, IrreflexiveGraph
  <2>3. WellFormed(h) /\ DOMAIN h = DOMAIN g
    <3>1. \A S : /\ WellFormed(Updated(g, n, S))
                 /\ DOMAIN Updated(g, n, S) = DOMAIN g \cup {n}
      BY <2>2, UpdatedWellFormed
    <3>2. WellFormed(h) /\ DOMAIN h = DOMAIN g \cup {n}
      BY <2>1, <3>1
    <3> QED BY <3>2
  <2>4. h[n] = keep
    BY <2>1, <2>2 DEF Updated
  <2>5. ASSUME NEW m \in DOMAIN g PROVE h[m] \subseteq g[m]
    <3>1. CASE m = n
      BY <2>2, <2>4, <3>1
    <3>2. CASE m # n
      <4>1. m \in keep => n \in g[m]
        BY <2>2 DEF WellFormed, SymmetricGraph
      <4> QED BY <2>1, <2>2, <3>2, <4>1 DEF Updated
    <3> QED BY <3>1, <3>2
  <2> QED BY <1>2, <2>3, <2>4, <2>5
<1> QED BY <1>1, <1>2

\* n is linked to the nodes of add, and nothing else changes.
LinkedTo(g, n, add, h) ==
    /\ add \subseteq OpenNodes(g, n)
    /\ h[n] = g[n] \cup add
    /\ \A m \in DOMAIN g :
         m # n => h[m] = IF m \in add THEN g[m] \cup {n} ELSE g[m]

\* The second phase: n and some nodes with open slots are linked.
LEMMA ExtendedIs ==
    ASSUME NEW g, WellFormed(g), NEW n \in DOMAIN g, NEW h \in Extended(g, n)
    PROVE  /\ WellFormed(h) /\ DOMAIN h = DOMAIN g
           /\ \/ ~ (Missing(g, n) > 0) /\ h = g
              \/ /\ Missing(g, n) > 0
                 /\ \E add \in ShuffledSlice(OpenNodes(g, n), Missing(g, n)) :
                       LinkedTo(g, n, add, h)
<1>1. CASE ~ (Missing(g, n) > 0)
  BY <1>1 DEF Extended
<1>2. CASE Missing(g, n) > 0
  <2>1. PICK add \in ShuffledSlice(OpenNodes(g, n), Missing(g, n)) :
             h = Updated(g, n, g[n] \cup add)
    BY <1>2 DEF Extended
  <2>2. add \subseteq OpenNodes(g, n)
    BY SliceInside
  <2>3. n \in Node /\ g[n] \cup add \subseteq DOMAIN g \ {n}
    BY <2>2 DEF WellFormed, IsGraph, IrreflexiveGraph, OpenNodes
  <2>4. WellFormed(h) /\ DOMAIN h = DOMAIN g
    <3>1. \A S : /\ WellFormed(Updated(g, n, S))
                 /\ DOMAIN Updated(g, n, S) = DOMAIN g \cup {n}
      BY <2>3, UpdatedWellFormed
    <3>2. WellFormed(h) /\ DOMAIN h = DOMAIN g \cup {n}
      BY <2>1, <3>1
    <3> QED BY <3>2
  <2>5. h[n] = g[n] \cup add
    BY <2>1, <2>3 DEF Updated
  <2>6. ASSUME NEW m \in DOMAIN g, m # n
        PROVE  h[m] = IF m \in add THEN g[m] \cup {n} ELSE g[m]
    <3>1. h[m] = IF m \in g[n] \cup add THEN g[m] \cup {n} ELSE g[m] \ {n}
      BY <2>1, <2>3, <2>6 DEF Updated
    <3>2. m \in g[n] <=> n \in g[m]
      BY DEF WellFormed, SymmetricGraph
    <3> QED BY <3>1, <3>2
  <2> QED BY <1>2, <2>2, <2>4, <2>5, <2>6 DEF LinkedTo
<1> QED BY <1>1, <1>2

\* The links of M are broken and n is linked to their ends.
LinkedBetween(g, n, M, h) ==
    /\ M \subseteq BreakableLinks(g, n)
    /\ h[n] = g[n] \cup UNION M
    /\ \A m \in DOMAIN g :
         m # n => h[m] = IF m \in UNION M
                         THEN {b \in g[m] : {m, b} \notin M} \cup {n}
                         ELSE g[m]

\* The third phase: links are broken and n is linked to their ends.
LEMMA SwappedIs ==
    ASSUME NEW g, WellFormed(g), NEW n \in DOMAIN g, NEW h \in Swapped(g, n)
    PROVE  /\ WellFormed(h) /\ DOMAIN h = DOMAIN g
           /\ \/ ~ (Missing(g, n) > 1) /\ h = g
              \/ /\ Missing(g, n) > 1
                 /\ \E M \in BrokenLinks(g, n) : LinkedBetween(g, n, M, h)
<1>1. CASE ~ (Missing(g, n) > 1)
  BY <1>1 DEF Swapped
<1>2. CASE Missing(g, n) > 1
  <2>1. PICK M \in BrokenLinks(g, n) : h = Rewired(g, n, M)
    BY <1>2 DEF Swapped
  <2>2. M \subseteq BreakableLinks(g, n)
    BY DEF BrokenLinks
  <2>3. WellFormed(h) /\ DOMAIN h = DOMAIN g
    BY <2>1, <2>2, RewiredWellFormed
  <2>4. LinkedBetween(g, n, M, h)
    BY <2>1, <2>2 DEF Rewired, LinkedBetween
  <2> QED BY <1>2, <2>3, <2>4
<1> QED BY <1>1, <1>2

-----------------------------------------------------------------------------
\* No phase gives a node other than n a neighbor other than n.
LEMMA OnlyLinksToNAreNew ==
    ASSUME NEW g, WellFormed(g), NEW n \in DOMAIN g, NEW h \in Formed(g, n),
           NEW m \in DOMAIN g, m # n
    PROVE  h[m] \subseteq g[m] \cup {n}
<1>0. PICK g1 \in Trimmed(g, n) : \E g2 \in Extended(g1, n) : h \in Swapped(g2, n)
  BY FormedInPhases
<1>1. PICK g2 \in Extended(g1, n) : h \in Swapped(g2, n)
  BY <1>0
<1>2. WellFormed(g1) /\ DOMAIN g1 = DOMAIN g /\ g1[m] \subseteq g[m]
  BY TrimmedIs
<1>3. WellFormed(g2) /\ DOMAIN g2 = DOMAIN g /\ g2[m] \subseteq g1[m] \cup {n}
  <2>1. n \in DOMAIN g1 /\ m \in DOMAIN g1
    BY <1>2
  <2>2. /\ WellFormed(g2) /\ DOMAIN g2 = DOMAIN g1
        /\ g2 = g1 \/ \E add : LinkedTo(g1, n, add, g2)
    BY <1>2, <2>1, ExtendedIs
  <2> QED BY <1>2, <2>1, <2>2 DEF LinkedTo
<1>4. h[m] \subseteq g2[m] \cup {n}
  <2>1. n \in DOMAIN g2 /\ m \in DOMAIN g2
    BY <1>3
  <2>2. h = g2 \/ \E M : LinkedBetween(g2, n, M, h)
    BY <1>1, <1>3, <2>1, SwappedIs
  <2> QED BY <2>1, <2>2 DEF LinkedBetween
<1> QED BY <1>2, <1>3, <1>4

\* Whoever gained a neighbor is among the nodes that are instructed.
LEMMA GainersAreUpdated ==
    ASSUME NEW g, WellFormed(g), NEW n \in DOMAIN g, NEW h \in Formed(g, n),
           NEW force \in BOOLEAN, NEW m \in DOMAIN g, ~ (h[m] \subseteq g[m])
    PROVE  m \in UpdatedNodes(g, h, n, force)
<1>1. n \in Node
  BY DEF WellFormed, IsGraph
<1>2. WellFormed(h) /\ DOMAIN h = DOMAIN g
  BY <1>1, FormedWellFormed
<1>3. CASE m = n
  BY <1>3 DEF UpdatedNodes
<1>4. CASE m # n
  <2>1. h[m] \subseteq g[m] \cup {n}
    BY <1>4, OnlyLinksToNAreNew
  <2>2. n \in h[m] /\ n \notin g[m]
    BY <2>1
  <2>3. m \in h[n] /\ m \notin g[n]
    BY <1>2, <2>2 DEF WellFormed, SymmetricGraph
  <2> QED BY <2>3 DEF UpdatedNodes
<1> QED BY <1>3, <1>4

\* Whoever gained a neighbor through formInstructions is instructed, with all
\* the neighbors it has now: both ends of every new link learn of it.
THEOREM BothEndsAreInstructed == OverlaySpec => []GainersAreInstructed
<1>1. IInv => GainersAreInstructed
  <2> SUFFICES ASSUME IInv,
                      NEW n \in DOMAIN nodes, NEW h \in Formed(nodes, n),
                      NEW force \in BOOLEAN, NEW m \in DOMAIN nodes,
                      ~ (h[m] \subseteq nodes[m])
               PROVE  LET told == Instructions(h, UpdatedNodes(nodes, h, n, force))
                      IN  m \in DOMAIN told /\ told[m] = h[m]
    BY DEF GainersAreInstructed, AfterForm
  <2>1. WellFormed(nodes)
    BY DEF IInv, TypeOK, Symmetric, NoSelfNeighbor, WellFormed
  <2> QED BY <2>1, GainersAreUpdated DEF Instructions
<1> QED BY <1>1, OverlayWellFormed, PTL

-----------------------------------------------------------------------------
(***************************************************************************)
(* The maximum                                                             *)
(***************************************************************************)
\* An overlay has finitely many nodes, whatever the set Node is.
FiniteGraph(g) == IsFiniteSet(DOMAIN g)

\* The neighbors of a node of a finite overlay are finitely many.
LEMMA FiniteNeighbors ==
    ASSUME NEW g, WellFormed(g), FiniteGraph(g), NEW m \in DOMAIN g
    PROVE  IsFiniteSet(g[m]) /\ Cardinality(g[m]) \in Nat
<1>1. g[m] \subseteq DOMAIN g
  BY DEF WellFormed, IsGraph
<1>2. IsFiniteSet(g[m])
  BY <1>1, FS_Subset DEF FiniteGraph
<1> QED BY <1>2, FS_CardinalityType

\* A slice is no longer than asked for.
LEMMA SliceSize ==
    ASSUME NEW S, NEW k, NEW s \in ShuffledSlice(S, k)
    PROVE  Cardinality(s) <= k \/ Cardinality(s) = k
<1>1. CASE Cardinality(S) <= k
  BY <1>1 DEF ShuffledSlice
<1>2. CASE ~ (Cardinality(S) <= k)
  BY <1>2 DEF ShuffledSlice, kSubset
<1> QED BY <1>1, <1>2

\* From g to h, n has come to at most the maximum, and no other node has been
\* brought above it.
Respects(g, h, n) ==
    \A m \in DOMAIN g : \/ Cardinality(h[m]) <= MaxNeighbors
                        \/ m # n /\ Cardinality(h[m]) <= Cardinality(g[m])

\* One phase after another respects the maximum.
LEMMA RespectsTransitive ==
    ASSUME NEW g1, NEW g2, NEW g3, NEW n,
           WellFormed(g1), WellFormed(g2), WellFormed(g3),
           FiniteGraph(g1), DOMAIN g2 = DOMAIN g1, DOMAIN g3 = DOMAIN g1,
           Respects(g1, g2, n), Respects(g2, g3, n)
    PROVE  Respects(g1, g3, n)
<1> SUFFICES ASSUME NEW m \in DOMAIN g1
             PROVE  \/ Cardinality(g3[m]) <= MaxNeighbors
                    \/ m # n /\ Cardinality(g3[m]) <= Cardinality(g1[m])
  BY DEF Respects
<1>1. /\ Cardinality(g1[m]) \in Nat
      /\ Cardinality(g2[m]) \in Nat
      /\ Cardinality(g3[m]) \in Nat
  BY FiniteNeighbors DEF FiniteGraph
<1>2. \/ Cardinality(g2[m]) <= MaxNeighbors
      \/ m # n /\ Cardinality(g2[m]) <= Cardinality(g1[m])
  BY DEF Respects
<1>3. \/ Cardinality(g3[m]) <= MaxNeighbors
      \/ m # n /\ Cardinality(g3[m]) <= Cardinality(g2[m])
  BY DEF Respects
<1> QED BY <1>1, <1>2, <1>3, MaxNeighborsAssumption

\* The first phase brings n down to the maximum.
LEMMA TrimmedRespects ==
    ASSUME NEW g, WellFormed(g), FiniteGraph(g),
           NEW n \in DOMAIN g, NEW h \in Trimmed(g, n)
    PROVE  Respects(g, h, n)
<1>1. /\ WellFormed(h) /\ DOMAIN h = DOMAIN g
      /\ \A m \in DOMAIN g : h[m] \subseteq g[m]
  BY TrimmedIs
<1>2. Cardinality(h[n]) <= MaxNeighbors
  <2>1. Cardinality(g[n]) \in Nat
    BY FiniteNeighbors
  <2>2. CASE ~ (Missing(g, n) < 0) /\ h = g
    BY <2>1, <2>2, MaxNeighborsAssumption DEF Missing
  <2>3. CASE h[n] \in ShuffledSlice(g[n], MaxNeighbors)
    <3>1. Cardinality(h[n]) <= MaxNeighbors \/ Cardinality(h[n]) = MaxNeighbors
      BY <2>3, SliceSize
    <3> QED BY <3>1, MaxNeighborsAssumption
  <2> QED BY <2>2, <2>3, TrimmedIs
<1>3. ASSUME NEW m \in DOMAIN g PROVE Cardinality(h[m]) <= Cardinality(g[m])
  BY <1>1, FiniteNeighbors, FS_Subset
<1> QED BY <1>2, <1>3 DEF Respects

\* The second phase fills slots that are open, at either end.
LEMMA ExtendedRespects ==
    ASSUME NEW g, WellFormed(g), FiniteGraph(g),
           NEW n \in DOMAIN g, Cardinality(g[n]) <= MaxNeighbors,
           NEW h \in Extended(g, n)
    PROVE  Respects(g, h, n)
<1>0. Cardinality(g[n]) \in Nat /\ IsFiniteSet(g[n])
  BY FiniteNeighbors
<1>1. CASE h = g
  <2>1. \A m \in DOMAIN g : Cardinality(g[m]) \in Nat
    BY FiniteNeighbors
  <2> QED BY <1>1, <2>1 DEF Respects
<1>2. CASE h # g
  <2>1. Missing(g, n) > 0
    BY <1>2 DEF Extended
  <2>2. PICK add \in ShuffledSlice(OpenNodes(g, n), Missing(g, n)) :
               LinkedTo(g, n, add, h)
    BY <1>2, ExtendedIs
  <2>3. add \subseteq OpenNodes(g, n) /\ add \subseteq DOMAIN g
    BY <2>2 DEF LinkedTo, OpenNodes
  <2>4. IsFiniteSet(add) /\ Cardinality(add) \in Nat
    BY <2>3, FS_Subset, FS_CardinalityType DEF FiniteGraph
  <2>5. Cardinality(add) <= Missing(g, n)
    <3>1. Cardinality(add) <= Missing(g, n) \/ Cardinality(add) = Missing(g, n)
      BY SliceSize
    <3> QED BY <2>4, <3>1
  <2>6. Cardinality(h[n]) <= MaxNeighbors
    <3>1. h[n] = g[n] \cup add
      BY <2>2 DEF LinkedTo
    <3>2. /\ Cardinality(g[n] \cup add) =
                Cardinality(g[n]) + Cardinality(add) - Cardinality(g[n] \cap add)
          /\ IsFiniteSet(g[n] \cap add)
      BY <1>0, <2>4, FS_Union, FS_Intersection
    <3>3. Cardinality(g[n] \cap add) \in Nat
      BY <3>2, FS_CardinalityType
    <3> QED BY <1>0, <2>4, <2>5, <3>1, <3>2, <3>3, MaxNeighborsAssumption DEF Missing
  <2>7. ASSUME NEW m \in DOMAIN g, m # n
        PROVE  \/ Cardinality(h[m]) <= MaxNeighbors
               \/ Cardinality(h[m]) <= Cardinality(g[m])
    <3>1. Cardinality(g[m]) \in Nat /\ IsFiniteSet(g[m])
      BY FiniteNeighbors
    <3>2. CASE m \in add
      <4>1. h[m] = g[m] \cup {n} /\ n \notin g[m]
        BY <2>2, <2>3, <2>7, <3>2 DEF LinkedTo, OpenNodes
      <4>2. Cardinality(g[m]) < MaxNeighbors
        BY <2>3, <3>2 DEF OpenNodes
      <4>3. Cardinality(h[m]) = Cardinality(g[m]) + 1
        BY <3>1, <4>1, FS_AddElement
      <4> QED BY <3>1, <4>2, <4>3, MaxNeighborsAssumption
    <3>3. CASE m \notin add
      <4>1. h[m] = g[m]
        BY <2>2, <2>7, <3>3 DEF LinkedTo
      <4> QED BY <3>1, <4>1
    <3> QED BY <3>2, <3>3
  <2> QED BY <2>6, <2>7 DEF Respects
<1> QED BY <1>1, <1>2

-----------------------------------------------------------------------------
\* A set of links has at most two ends per link.
LEMMA EndsOfLinks ==
    ASSUME NEW M, IsFiniteSet(M), \A e \in M : \E a, b : e = {a, b}
    PROVE  /\ IsFiniteSet(UNION M)
           /\ Cardinality(UNION M) <= 2 * Cardinality(M)
<1> DEFINE A(e) == CHOOSE a : \E b : e = {a, b}
           B(e) == CHOOSE b : e = {A(e), b}
           S == M \X (1 .. 2)
           f == [p \in S |-> IF p[2] = 1 THEN A(p[1]) ELSE B(p[1])]
<1>1. ASSUME NEW e \in M PROVE e = {A(e), B(e)}
  <2>1. \E a : \E b : e = {a, b}
    OBVIOUS
  <2>2. \E b : e = {A(e), b}
    BY <2>1
  <2> QED BY <2>2
<1> HIDE DEF A, B
<1>2. IsFiniteSet(1 .. 2) /\ Cardinality(1 .. 2) = 2
  <2> HIDE DEF f, S
  <2>1. \A a, b \in Int : /\ IsFiniteSet(a .. b)
                          /\ Cardinality(a .. b) = IF a > b THEN 0 ELSE b - a + 1
    BY FS_Interval
  <2>2. 1 \in Int /\ 2 \in Int /\ ~ (1 > 2) /\ 2 - 1 + 1 = 2
    OBVIOUS
  <2>3. /\ IsFiniteSet(1 .. 2)
        /\ Cardinality(1 .. 2) = IF 1 > 2 THEN 0 ELSE 2 - 1 + 1
    BY <2>1, <2>2, Zenon
  <2> QED BY <2>3
<1>3. IsFiniteSet(S) /\ Cardinality(S) = Cardinality(M) * Cardinality(1 .. 2)
  BY <1>2, FS_Product
<1>4. f \in Surjection(S, UNION M)
  <2>1. ASSUME NEW p \in S PROVE f[p] \in UNION M
    <3>1. p[1] \in M /\ p[1] = {A(p[1]), B(p[1])}
      BY <1>1
    <3> QED BY <3>1
  <2>2. f \in [S -> UNION M]
    BY <2>1
  <2>3. ASSUME NEW e \in M, NEW x \in e PROVE \E p \in S : f[p] = x
    <3>1. e = {A(e), B(e)}
      BY <1>1
    <3>2. CASE x = A(e)
      <4>1. <<e, 1>> \in S /\ f[<<e, 1>>] = A(e)
        OBVIOUS
      <4> QED BY <3>2, <4>1
    <3>3. CASE x = B(e)
      <4>1. <<e, 2>> \in S /\ f[<<e, 2>>] = B(e)
        OBVIOUS
      <4> QED BY <3>3, <4>1
    <3> QED BY <3>1, <3>2, <3>3
  <2>4. ASSUME NEW x \in UNION M PROVE \E p \in S : f[p] = x
    BY <2>3
  <2> HIDE DEF f, S
  <2> QED BY <2>2, <2>4 DEF Surjection
<1> HIDE DEF f, S
<1>5. /\ IsFiniteSet(UNION M)
      /\ Cardinality(UNION M) <= Cardinality(S)
  BY <1>3, <1>4, FS_Surjection
<1>6. Cardinality(M) \in Nat
  BY FS_CardinalityType
<1> QED BY <1>2, <1>3, <1>5, <1>6

\* The third phase gives n two neighbors per broken link, and every end of a
\* broken link one for the one it loses.
LEMMA SwappedRespects ==
    ASSUME NEW g, WellFormed(g), FiniteGraph(g),
           NEW n \in DOMAIN g, Cardinality(g[n]) <= MaxNeighbors,
           NEW h \in Swapped(g, n)
    PROVE  Respects(g, h, n)
<1>0. Cardinality(g[n]) \in Nat /\ IsFiniteSet(g[n])
  BY FiniteNeighbors
<1>1. CASE h = g
  <2>1. \A m \in DOMAIN g : Cardinality(g[m]) \in Nat
    BY FiniteNeighbors
  <2> QED BY <1>1, <2>1 DEF Respects
<1>2. CASE h # g
  <2>1. Missing(g, n) > 1
    BY <1>2 DEF Swapped
  <2>2. PICK M \in BrokenLinks(g, n) : LinkedBetween(g, n, M, h)
    BY <1>2, SwappedIs
  <2>3. M \subseteq BreakableLinks(g, n)
    BY <2>2 DEF LinkedBetween
  <2>4. \A e \in M : \E a, b \in DOMAIN g \ {n} : e = {a, b} /\ b \in g[a]
    BY <2>3, BreakableLinkEnds
  <2>5. IsFiniteSet(M) /\ Cardinality(M) \in Nat
    <3>1. M \subseteq SUBSET DOMAIN g
      BY <2>4
    <3>2. IsFiniteSet(SUBSET DOMAIN g)
      BY FS_SUBSET DEF FiniteGraph
    <3>3. IsFiniteSet(M)
      BY <3>1, <3>2, FS_Subset
    <3> QED BY <3>3, FS_CardinalityType
  <2>6. Cardinality(M) <= Missing(g, n) \div 2
    BY DEF BrokenLinks
  <2>7. Cardinality(h[n]) <= MaxNeighbors
    <3>1. h[n] = g[n] \cup UNION M
      BY <2>2 DEF LinkedBetween
    <3>2. /\ IsFiniteSet(UNION M)
          /\ Cardinality(UNION M) <= 2 * Cardinality(M)
      BY <2>4, <2>5, EndsOfLinks
    <3>3. /\ Cardinality(g[n] \cup UNION M) =
                Cardinality(g[n]) + Cardinality(UNION M) - Cardinality(g[n] \cap UNION M)
          /\ IsFiniteSet(g[n] \cap UNION M)
      BY <1>0, <3>2, FS_Union, FS_Intersection
    <3>4. Cardinality(g[n] \cap UNION M) \in Nat /\ Cardinality(UNION M) \in Nat
      BY <3>2, <3>3, FS_CardinalityType
    <3>5. Missing(g, n) \in Int /\ Missing(g, n) = MaxNeighbors - Cardinality(g[n])
      BY <1>0, MaxNeighborsAssumption DEF Missing
    <3>6. 2 * Cardinality(M) <= Missing(g, n)
      BY <2>5, <2>6, <3>5
    <3> QED BY <1>0, <2>5, <3>1, <3>2, <3>3, <3>4, <3>5, <3>6, MaxNeighborsAssumption
  <2>8. ASSUME NEW m \in DOMAIN g, m # n
        PROVE  Cardinality(h[m]) <= Cardinality(g[m])
    <3>1. Cardinality(g[m]) \in Nat /\ IsFiniteSet(g[m])
      BY FiniteNeighbors
    <3>2. CASE m \notin UNION M
      <4>1. h[m] = g[m]
        BY <2>2, <2>8, <3>2 DEF LinkedBetween
      <4> QED BY <3>1, <4>1
    <3>3. CASE m \in UNION M
      <4> DEFINE kept == {b \in g[m] : {m, b} \notin M}
      <4>1. h[m] = kept \cup {n}
        BY <2>2, <2>8, <3>3 DEF LinkedBetween
      <4>2. PICK x \in g[m] : {m, x} \in M
        <5>1. PICK e \in M : m \in e
          BY <3>3
        <5>2. PICK a \in DOMAIN g, b \in DOMAIN g : e = {a, b} /\ b \in g[a]
          BY <2>4, <5>1
        <5>3. a \in g[b] /\ {b, a} = {a, b}
          BY <5>2 DEF WellFormed, SymmetricGraph
        <5>4. CASE m = a
          BY <5>1, <5>2, <5>4
        <5>5. CASE m = b
          BY <5>1, <5>2, <5>3, <5>5
        <5> QED BY <5>1, <5>2, <5>4, <5>5
      <4>3. kept \subseteq g[m] \ {x}
        BY <4>2
      <4>4. /\ IsFiniteSet(g[m] \ {x})
            /\ Cardinality(g[m] \ {x}) = Cardinality(g[m]) - 1
        BY <3>1, FS_RemoveElement
      <4> HIDE DEF kept
      <4>5. /\ IsFiniteSet(kept)
            /\ Cardinality(kept) <= Cardinality(g[m]) - 1
        BY <4>3, <4>4, FS_Subset
      <4>6. Cardinality(kept) \in Nat
        BY <4>5, FS_CardinalityType
      <4>7. Cardinality(kept \cup {n}) <= Cardinality(kept) + 1
        <5>1. \/ Cardinality(kept \cup {n}) = Cardinality(kept)
              \/ Cardinality(kept \cup {n}) = Cardinality(kept) + 1
          BY <4>5, FS_AddElement
        <5> QED BY <4>6, <5>1
      <4>8. Cardinality(h[m]) \in Nat
        BY <4>1, <4>5, FS_AddElement, FS_CardinalityType
      <4> QED BY <3>1, <4>1, <4>5, <4>6, <4>7, <4>8
    <3> QED BY <3>2, <3>3
  <2> QED BY <2>7, <2>8 DEF Respects
<1> QED BY <1>1, <1>2

\* All three phases together.
LEMMA FormedRespects ==
    ASSUME NEW g, WellFormed(g), FiniteGraph(g),
           NEW n \in DOMAIN g, NEW h \in Formed(g, n)
    PROVE  Respects(g, h, n)
<1>0. PICK g1 \in Trimmed(g, n) : \E g2 \in Extended(g1, n) : h \in Swapped(g2, n)
  BY FormedInPhases
<1>1. PICK g2 \in Extended(g1, n) : h \in Swapped(g2, n)
  BY <1>0
<1>2. WellFormed(g1) /\ DOMAIN g1 = DOMAIN g /\ FiniteGraph(g1)
  BY TrimmedIs DEF FiniteGraph
<1>3. n \in DOMAIN g1 /\ Respects(g, g1, n)
  BY <1>2, TrimmedRespects
<1>4. Cardinality(g1[n]) <= MaxNeighbors
  BY <1>3 DEF Respects
<1>5. WellFormed(g2) /\ DOMAIN g2 = DOMAIN g1 /\ FiniteGraph(g2)
  <2>1. WellFormed(g2) /\ DOMAIN g2 = DOMAIN g1
    BY <1>2, <1>3, ExtendedIs
  <2> QED BY <1>2, <2>1 DEF FiniteGraph
<1>6. n \in DOMAIN g2 /\ Respects(g1, g2, n)
  BY <1>2, <1>3, <1>4, <1>5, ExtendedRespects
<1>7. Cardinality(g2[n]) <= MaxNeighbors
  BY <1>3, <1>6 DEF Respects
<1>8. WellFormed(h) /\ DOMAIN h = DOMAIN g2
  BY <1>1, <1>5, <1>6, SwappedIs
<1>9. Respects(g2, h, n)
  BY <1>1, <1>5, <1>6, <1>7, SwappedRespects
<1>10. Respects(g, g2, n)
  BY <1>2, <1>3, <1>5, <1>6, RespectsTransitive
<1> QED
  BY <1>2, <1>5, <1>8, <1>9, <1>10, RespectsTransitive

\* The overlay is finite: each report adds one node.
THEOREM OverlayFinite == OverlaySpec => []FiniteGraph(nodes)
<1>1. OverlayInit => FiniteGraph(nodes)
  BY FS_EmptySet DEF OverlayInit, EmptyGraph, FiniteGraph
<1>2. IInv /\ FiniteGraph(nodes) /\ [OverlayNext]_overlayVars => FiniteGraph(nodes)'
  <2> SUFFICES ASSUME IInv, FiniteGraph(nodes), [OverlayNext]_overlayVars
               PROVE  FiniteGraph(nodes')
    BY DEF FiniteGraph
  <2>0. WellFormed(nodes)
    BY DEF IInv, TypeOK, Symmetric, NoSelfNeighbor, WellFormed
  <2>1. ASSUME NEW n \in Node, NEW neighbors \in SUBSET Node, Update(n, neighbors)
        PROVE  FiniteGraph(nodes')
    <3>1. DOMAIN nodes' = DOMAIN nodes \cup {n}
      BY <2>1 DEF Update, Updated
    <3> QED BY <3>1, FS_AddElement DEF FiniteGraph
  <2>2. ASSUME NEW n \in Node, Leave(n)
        PROVE  FiniteGraph(nodes')
    <3>1. DOMAIN nodes' = DOMAIN nodes \ {n}
      BY <2>2 DEF Leave, Left
    <3> QED BY <3>1, FS_RemoveElement DEF FiniteGraph
  <2>3. ASSUME NEW n \in Node, NEW force \in BOOLEAN, FormInstructions(n, force)
        PROVE  FiniteGraph(nodes')
    <3>1. DOMAIN nodes' = DOMAIN nodes
      BY <2>0, <2>3, FormedWellFormed DEF FormInstructions
    <3> QED BY <3>1 DEF FiniteGraph
  <2>4. CASE UNCHANGED overlayVars
    BY <2>4 DEF overlayVars
  <2> QED BY <2>1, <2>2, <2>3, <2>4 DEF OverlayNext
<1> QED BY <1>1, <1>2, OverlayWellFormed, PTL DEF OverlaySpec

\* formInstructions(n) leaves n with at most MaxNeighbors neighbors and brings
\* no node above the maximum.
THEOREM MaximumIsRespected == OverlaySpec => []FormRespectsMaximum
<1>1. IInv /\ FiniteGraph(nodes) => FormRespectsMaximum
  <2> SUFFICES ASSUME IInv, FiniteGraph(nodes),
                      NEW n \in DOMAIN nodes, NEW h \in Formed(nodes, n),
                      NEW m \in DOMAIN nodes
               PROVE  \/ Cardinality(h[m]) <= MaxNeighbors
                      \/ m # n /\ Cardinality(h[m]) <= Cardinality(nodes[m])
    BY DEF FormRespectsMaximum, AfterForm
  <2>1. WellFormed(nodes)
    BY DEF IInv, TypeOK, Symmetric, NoSelfNeighbor, WellFormed
  <2>2. Respects(nodes, h, n)
    BY <2>1, FormedRespects
  <2> QED BY <2>2 DEF Respects
<1> QED BY <1>1, OverlayWellFormed, OverlayFinite, PTL

-----------------------------------------------------------------------------
(***************************************************************************)
(* Links are only added                                                    *)
(***************************************************************************)
\* A finite overlay has finitely many links.
LEMMA FiniteLinks ==
    ASSUME NEW g, FiniteGraph(g)
    PROVE  IsFiniteSet(LinkEnds(g)) /\ Cardinality(LinkEnds(g)) \in Nat
<1>1. IsFiniteSet((DOMAIN g) \X (DOMAIN g))
  BY FS_Product DEF FiniteGraph
<1>2. LinkEnds(g) \subseteq (DOMAIN g) \X (DOMAIN g)
  BY DEF LinkEnds
<1>3. IsFiniteSet(LinkEnds(g))
  BY <1>1, <1>2, FS_Subset
<1> QED BY <1>3, FS_CardinalityType

\* Two overlays with the same nodes and the same neighbors are the same.
LEMMA SameNeighbors ==
    ASSUME NEW g, NEW h, WellFormed(g), WellFormed(h), DOMAIN h = DOMAIN g,
           \A m \in DOMAIN g : h[m] = g[m]
    PROVE  h = g
<1>1. /\ g = [m \in DOMAIN g |-> g[m]]
      /\ h = [m \in DOMAIN h |-> h[m]]
  BY DEF WellFormed, IsGraph
<1> QED BY <1>1, Zenon

\* The second phase changes nothing or adds links.
LEMMA ExtendedAddsLinks ==
    ASSUME NEW g, WellFormed(g), FiniteGraph(g), NEW n \in DOMAIN g,
           NEW h \in Extended(g, n), h # g
    PROVE  Cardinality(LinkEnds(h)) > Cardinality(LinkEnds(g))
<1>1. PICK add : LinkedTo(g, n, add, h)
  BY ExtendedIs
<1>2. WellFormed(h) /\ DOMAIN h = DOMAIN g
  BY ExtendedIs
<1>3. PICK x \in add : TRUE
  <2> SUFFICES ASSUME add = {} PROVE FALSE
    OBVIOUS
  <2>1. \A m \in DOMAIN g : h[m] = g[m]
    BY <1>1 DEF LinkedTo
  <2> QED BY <1>2, <2>1, SameNeighbors
<1>4. LinkEnds(g) \subseteq LinkEnds(h)
  <2> SUFFICES ASSUME NEW e \in LinkEnds(g) PROVE e \in LinkEnds(h)
    OBVIOUS
  <2>1. e \in (DOMAIN g) \X (DOMAIN g) /\ e[2] \in g[e[1]]
    BY DEF LinkEnds
  <2>2. g[e[1]] \subseteq h[e[1]]
    BY <1>1, <2>1 DEF LinkedTo
  <2> QED BY <1>2, <2>1, <2>2 DEF LinkEnds
<1>5. <<n, x>> \in LinkEnds(h) /\ <<n, x>> \notin LinkEnds(g)
  <2>1. x \in DOMAIN g /\ n \notin g[x] /\ x \in h[n]
    BY <1>1, <1>3 DEF LinkedTo, OpenNodes
  <2>2. x \notin g[n]
    BY <2>1 DEF WellFormed, SymmetricGraph
  <2> QED BY <1>2, <2>1, <2>2 DEF LinkEnds
<1>6. FiniteGraph(h)
  BY <1>2 DEF FiniteGraph
<1>7. /\ Cardinality(LinkEnds(g)) <= Cardinality(LinkEnds(h))
      /\ Cardinality(LinkEnds(g)) # Cardinality(LinkEnds(h))
      /\ Cardinality(LinkEnds(g)) \in Nat /\ Cardinality(LinkEnds(h)) \in Nat
  BY <1>4, <1>5, <1>6, FiniteLinks, FS_Subset
<1> QED BY <1>7

\* The third phase changes nothing or adds links: every end of a broken link
\* gets n for the end it loses, and n gets them both.
LEMMA SwappedAddsLinks ==
    ASSUME NEW g, WellFormed(g), FiniteGraph(g), NEW n \in DOMAIN g,
           NEW h \in Swapped(g, n), h # g
    PROVE  Cardinality(LinkEnds(h)) > Cardinality(LinkEnds(g))
<1>1. PICK M \in BrokenLinks(g, n) : LinkedBetween(g, n, M, h)
  BY SwappedIs
<1>2. WellFormed(h) /\ DOMAIN h = DOMAIN g
  BY SwappedIs
<1>3. \A e, f \in M : e # f => e \cap f = {}
  BY DEF BrokenLinks
<1>4. \A x \in UNION M : x \in DOMAIN g /\ x # n /\ n \notin g[x] /\ x \notin g[n]
  <2> SUFFICES ASSUME NEW e \in M, NEW x \in e
               PROVE  x \in DOMAIN g /\ x # n /\ n \notin g[x] /\ x \notin g[n]
    OBVIOUS
  <2>1. e \in BreakableLinks(g, n)
    BY <1>1 DEF LinkedBetween
  <2>2. x \in DOMAIN g /\ x # n /\ n \notin g[x]
    BY <2>1, BreakableLinkEnds
  <2> QED BY <2>2 DEF WellFormed, SymmetricGraph
<1>5. PICK x \in UNION M : TRUE
  <2> SUFFICES ASSUME UNION M = {} PROVE FALSE
    OBVIOUS
  <2>1. \A m \in DOMAIN g : h[m] = g[m]
    BY <1>1 DEF LinkedBetween
  <2> QED BY <1>2, <2>1, SameNeighbors
<1> DEFINE w == <<n, x>>
           T == LinkEnds(h) \ {w}
           f == [e \in LinkEnds(g) |-> IF {e[1], e[2]} \in M THEN <<e[1], n>> ELSE e]
<1>6. ASSUME NEW e \in LinkEnds(g)
      PROVE  /\ e \in (DOMAIN g) \X (DOMAIN g)
             /\ e[2] \in g[e[1]]
             /\ e = <<e[1], e[2]>>
  BY DEF LinkEnds
<1>7. ASSUME NEW e \in LinkEnds(g) PROVE f[e] \in T
  <2>1. CASE {e[1], e[2]} \in M
    <3>1. f[e] = <<e[1], n>> /\ e[1] \in UNION M
      BY <2>1
    <3> HIDE DEF f
    <3>2. e[1] # n /\ e[1] \in DOMAIN g
      BY <1>4, <3>1
    <3>3. n \in h[e[1]]
      <4>1. h[e[1]] = {b \in g[e[1]] : {e[1], b} \notin M} \cup {n}
        BY <1>1, <3>1, <3>2 DEF LinkedBetween
      <4> QED BY <4>1
    <3> QED BY <1>2, <3>1, <3>2, <3>3 DEF LinkEnds
  <2>2. CASE {e[1], e[2]} \notin M
    <3>1. f[e] = e
      BY <2>2
    <3> HIDE DEF f
    <3>2. e[2] \in h[e[1]]
      <4>1. PICK a, b \in DOMAIN g : e[1] = a /\ e[2] = b /\ b \in g[a] /\ {a, b} \notin M
        BY <1>6, <2>2
      <4>2. CASE a = n
        BY <1>1, <4>1, <4>2 DEF LinkedBetween
      <4>3. CASE a # n /\ a \in UNION M
        <5>1. h[a] = {x2 \in g[a] : {a, x2} \notin M} \cup {n}
          BY <1>1, <4>3 DEF LinkedBetween
        <5> QED BY <4>1, <5>1
      <4>4. CASE a # n /\ a \notin UNION M
        BY <1>1, <4>1, <4>4 DEF LinkedBetween
      <4> QED BY <4>1, <4>2, <4>3, <4>4
    <3>3. e # w
      <4> SUFFICES ASSUME e = <<n, x>> PROVE FALSE
        OBVIOUS
      <4>1. e[1] = n /\ e[2] = x
        OBVIOUS
      <4>2. x \in g[n]
        BY <1>6, <4>1
      <4> QED BY <1>4, <1>5, <4>2
    <3> QED BY <1>2, <1>6, <3>1, <3>2, <3>3 DEF LinkEnds
  <2> QED BY <2>1, <2>2
<1>8. ASSUME NEW d \in LinkEnds(g), NEW e \in LinkEnds(g), f[d] = f[e]
      PROVE  d = e
  <2>1. CASE {d[1], d[2]} \in M /\ {e[1], e[2]} \in M
    <3>1. <<d[1], n>> = <<e[1], n>>
      BY <1>8, <2>1
    <3>2. d[1] = e[1]
      BY <3>1
    <3>3. {d[1], d[2]} = {e[1], e[2]}
      BY <1>3, <2>1, <3>2
    <3>4. d[2] = e[2]
      BY <3>2, <3>3
    <3> QED BY <1>6, <3>2, <3>4
  <2>2. CASE {d[1], d[2]} \in M /\ {e[1], e[2]} \notin M
    <3>1. e = <<d[1], n>> /\ d[1] \in UNION M
      BY <1>8, <2>2
    <3>2. n \in g[d[1]]
      BY <1>6, <3>1
    <3> QED BY <1>4, <3>1, <3>2
  <2>3. CASE {d[1], d[2]} \notin M /\ {e[1], e[2]} \in M
    <3>1. d = <<e[1], n>> /\ e[1] \in UNION M
      BY <1>8, <2>3
    <3>2. n \in g[e[1]]
      BY <1>6, <3>1
    <3> QED BY <1>4, <3>1, <3>2
  <2>4. CASE {d[1], d[2]} \notin M /\ {e[1], e[2]} \notin M
    BY <1>8, <2>4
  <2> QED BY <2>1, <2>2, <2>3, <2>4
<1>9. f \in Injection(LinkEnds(g), T)
  <2>1. f \in [LinkEnds(g) -> T]
    BY <1>7
  <2>2. DOMAIN f = LinkEnds(g)
    OBVIOUS
  <2> HIDE DEF f, T
  <2> QED BY <1>8, <2>1, <2>2 DEF Injection, IsInjective
<1>10. w \in LinkEnds(h)
  <2>1. x \in h[n] /\ x \in DOMAIN g
    BY <1>1, <1>4 DEF LinkedBetween
  <2> QED BY <1>2, <2>1 DEF LinkEnds
<1>11. /\ IsFiniteSet(LinkEnds(h))
       /\ Cardinality(LinkEnds(h)) \in Nat
       /\ Cardinality(LinkEnds(g)) \in Nat
  <2>1. FiniteGraph(h)
    BY <1>2 DEF FiniteGraph
  <2> QED BY <2>1, FiniteLinks
<1> HIDE DEF f, w
<1>12. IsFiniteSet(T) /\ Cardinality(T) = Cardinality(LinkEnds(h)) - 1
  BY <1>10, <1>11, FS_RemoveElement
<1> HIDE DEF T
<1>13. Cardinality(LinkEnds(g)) <= Cardinality(T)
  BY <1>9, <1>12, FS_Injection
<1> QED BY <1>11, <1>12, <1>13

\* No never-ending chain of disconnects and connects: unless n is over the
\* maximum, formInstructions(n) changes nothing or adds links.
THEOREM LinksAreAdded == OverlaySpec => []FormAddsLinks
<1>1. IInv /\ FiniteGraph(nodes) => FormAddsLinks
  <2> SUFFICES ASSUME IInv, FiniteGraph(nodes),
                      NEW n \in DOMAIN nodes, NEW h \in Formed(nodes, n),
                      Missing(nodes, n) >= 0, h # nodes
               PROVE  Cardinality(LinkEnds(h)) > Cardinality(LinkEnds(nodes))
    BY DEF FormAddsLinks, AfterForm
  <2>1. WellFormed(nodes)
    BY DEF IInv, TypeOK, Symmetric, NoSelfNeighbor, WellFormed
  <2>2. PICK g \in Trimmed(nodes, n) : \E g2 \in Extended(g, n) : h \in Swapped(g2, n)
    BY FormedInPhases
  <2>3. g = nodes
    <3>1. Cardinality(nodes[n]) \in Nat
      BY <2>1, FiniteNeighbors
    <3>2. ~ (Missing(nodes, n) < 0)
      BY <3>1, MaxNeighborsAssumption DEF Missing
    <3> QED BY <3>2 DEF Trimmed
  <2>4. PICK g2 \in Extended(nodes, n) : h \in Swapped(g2, n)
    BY <2>2, <2>3
  <2>5. WellFormed(g2) /\ DOMAIN g2 = DOMAIN nodes /\ FiniteGraph(g2)
    <3>1. WellFormed(g2) /\ DOMAIN g2 = DOMAIN nodes
      BY <2>1, ExtendedIs
    <3> QED BY <3>1 DEF FiniteGraph
  <2>6. g2 = nodes \/ Cardinality(LinkEnds(g2)) > Cardinality(LinkEnds(nodes))
    BY <2>1, ExtendedAddsLinks
  <2>7. h = g2 \/ Cardinality(LinkEnds(h)) > Cardinality(LinkEnds(g2))
    <3>1. n \in DOMAIN g2
      BY <2>5
    <3> QED BY <2>4, <2>5, <3>1, SwappedAddsLinks
  <2>8. /\ Cardinality(LinkEnds(nodes)) \in Nat
        /\ Cardinality(LinkEnds(g2)) \in Nat
        /\ Cardinality(LinkEnds(h)) \in Nat
    <3>1. WellFormed(h) /\ DOMAIN h = DOMAIN nodes
      BY <2>1, FormedWellFormed DEF WellFormed, IsGraph
    <3>2. FiniteGraph(h)
      BY <3>1 DEF FiniteGraph
    <3> QED BY <2>5, <3>2, FiniteLinks
  <2> QED BY <2>6, <2>7, <2>8
<1> QED BY <1>1, OverlayWellFormed, OverlayFinite, PTL

-----------------------------------------------------------------------------
(***************************************************************************)
(* Loops                                                                   *)
(***************************************************************************)
\* A set of numbers has a least one.
LEMMA LeastNumber ==
    ASSUME NEW T, T \subseteq Nat, T # {}
    PROVE  \E x \in T : \A y \in T : x <= y
<1> DEFINE R == {p \in Nat \X Nat : p[1] < p[2]}
<1>1. IsWellFoundedOn(R, Nat)
  BY NatLessThanWellFounded DEF OpToRel
<1> HIDE DEF R
<1>2. PICK x \in T : \A y \in T : ~ (<<y, x>> \in R)
  BY <1>1, WFMin
<1>3. ASSUME NEW y \in T PROVE x <= y
  <2>1. x \in Nat /\ y \in Nat
    OBVIOUS
  <2>2. y < x => <<y, x>> \in R
    BY <2>1 DEF R
  <2> QED BY <1>2, <2>1, <2>2
<1> QED BY <1>3

\* Induction over the numbers of a set
LEMMA InductionSet ==
    ASSUME NEW S, 0 \in S, \A n \in Nat : n \in S => n + 1 \in S
    PROVE  Nat \subseteq S
<1> SUFFICES ASSUME Nat \ S # {} PROVE FALSE
  OBVIOUS
<1>1. PICK x \in Nat \ S : \A y \in Nat \ S : x <= y
  BY LeastNumber
<1>2. x - 1 \in Nat /\ x - 1 \in S
  BY <1>1
<1> QED BY <1>1, <1>2

\* What holds of the start of a loop and is kept by its turns holds of its end.
LEMMA LoopInduction ==
    ASSUME NEW N \in Nat, NEW S, 0 \in S, \A i \in 1 .. N : i - 1 \in S => i \in S
    PROVE  N \in S
<1> DEFINE R == {i \in Nat : i <= N => i \in S}
<1>1. 0 \in R
  OBVIOUS
<1>2. ASSUME NEW i \in Nat, i \in R PROVE i + 1 \in R
  <2> SUFFICES ASSUME i + 1 <= N PROVE i + 1 \in S
    OBVIOUS
  <2>1. i + 1 \in 1 .. N /\ (i + 1) - 1 = i /\ i <= N
    OBVIOUS
  <2> QED BY <1>2, <2>1
<1> HIDE DEF R
<1>3. N \in R
  BY <1>1, <1>2, InductionSet
<1>4. N <= N
  OBVIOUS
<1> QED BY <1>3, <1>4 DEF R

\* The order of a loop over a set has each of its elements, and no others.
LEMMA OrderOfSet ==
    ASSUME NEW S, IsFiniteSet(S)
    PROVE  /\ SetToSeq(S) \in SetToSeqs(S)
           /\ \A order \in SetToSeqs(S) :
                 /\ order \in Seq(S) /\ Len(order) \in Nat
                 /\ \A i \in 1 .. Len(order) : order[i] \in S
                 /\ \A x \in S : \E i \in 1 .. Len(order) : order[i] = x
                 /\ \A i, j \in 1 .. Len(order) : order[i] = order[j] => i = j
<1> DEFINE N == Cardinality(S)
<1>1. N \in Nat /\ ExistsBijection(1 .. N, S)
  BY FS_CardinalityType
<1>2. PICK f \in Bijection(1 .. N, S) : TRUE
  BY <1>1 DEF ExistsBijection
<1>3. f \in [1 .. N -> S] /\ IsInjective(f)
  BY <1>2 DEF Bijection, Injection
<1>4. SetToSeq(S) \in [1 .. N -> S] /\ IsInjective(SetToSeq(S))
  <2> DEFINE P(g) == IsInjective(g)
  <2> HIDE DEF P, N
  <2>1. \E g \in [1 .. N -> S] : P(g)
    BY <1>3 DEF P
  <2>2. SetToSeq(S) = CHOOSE g \in [1 .. N -> S] : P(g)
    BY DEF SetToSeq, P, N
  <2>3. (CHOOSE g \in [1 .. N -> S] : P(g)) \in [1 .. N -> S] /\ P(CHOOSE g \in [1 .. N -> S] : P(g))
    BY <2>1, Zenon
  <2> QED BY <2>2, <2>3 DEF P
<1>5. SetToSeq(S) \in SetToSeqs(S)
  BY <1>4 DEF SetToSeqs, IsInjective
<1>6. ASSUME NEW order \in SetToSeqs(S)
      PROVE  /\ order \in Seq(S) /\ Len(order) \in Nat
             /\ \A i \in 1 .. Len(order) : order[i] \in S
             /\ \A x \in S : \E i \in 1 .. Len(order) : order[i] = x
             /\ \A i, j \in 1 .. Len(order) : order[i] = order[j] => i = j
  <2>1. /\ order \in [1 .. N -> S]
        /\ \A i, j \in 1 .. N : i # j => order[i] # order[j]
    BY DEF SetToSeqs
  <2> HIDE DEF N
  <2>2. order \in Seq(S) /\ Len(order) = N
    BY <1>1, <2>1
  <2>3. order \in Injection(1 .. N, S)
    BY <2>1 DEF Injection, IsInjective
  <2>4. IsFiniteSet(1 .. N) /\ Cardinality(1 .. N) = N
    BY <1>1, FS_Interval
  <2>5. order \in Surjection(1 .. N, S)
    BY <2>3, <2>4, FS_Injection DEF N
  <2>6. \A x \in S : \E i \in 1 .. N : order[i] = x
    BY <2>5 DEF Surjection
  <2> QED BY <1>1, <2>1, <2>2, <2>6
<1> QED BY <1>5, <1>6

-----------------------------------------------------------------------------
(***************************************************************************)
(* The types of the tracker's state                                        *)
(***************************************************************************)
InstructionType == [stream : Stream, nodeIds : SUBSET Node, counter : Nat]

Sound(g) == WellFormed(g) /\ FiniteGraph(g)

\* t is the record of the tracker's overlays, counters and sends.
IsRecord(t) == t = [overlays |-> t.overlays, counters |-> t.counters, sent |-> t.sent]

OverlaysOK(o) == /\ DOMAIN o \subseteq Stream
                 /\ o = [s \in DOMAIN o |-> o[s]]
                 /\ \A s \in DOMAIN o : Sound(o[s])


\* A counter is that of an existing overlay, and counts instructions of members.
CountersOK(t) ==
    /\ t.counters \in [DOMAIN t.counters -> Nat]
    /\ DOMAIN t.counters \subseteq Node \X Stream
    /\ \A n \in Node, s \in Stream :
          <<n, s>> \in DOMAIN t.counters =>
              /\ s \in DOMAIN t.overlays
              /\ t.counters[<<n, s>>] > 0 => n \in DOMAIN t.overlays[s]

TrackerOK(t) == /\ IsRecord(t)
                /\ OverlaysOK(t.overlays)
                /\ CountersOK(t)
                /\ t.sent \in [Node -> Seq(InstructionType)]

-----------------------------------------------------------------------------
(***************************************************************************)
(* formInstructions and its instructions                                   *)
(***************************************************************************)
LEMMA FormedSound ==
    ASSUME NEW g, Sound(g), NEW n \in Node, NEW h \in Formed(g, n), NEW force \in BOOLEAN
    PROVE  /\ Sound(h) /\ DOMAIN h = DOMAIN g
           /\ UpdatedNodes(g, h, n, force) \subseteq DOMAIN g
           /\ \A m \in DOMAIN g : m \notin UpdatedNodes(g, h, n, force) => h[m] \subseteq g[m]
<1>1. WellFormed(g) /\ WellFormed(h) /\ DOMAIN h = DOMAIN g
  BY FormedWellFormed DEF Sound
<1>2. Sound(h)
  BY <1>1 DEF Sound, FiniteGraph
<1>3. UpdatedNodes(g, h, n, force) \subseteq DOMAIN g
  BY <1>1 DEF UpdatedNodes, WellFormed, IsGraph
<1>4. ASSUME NEW m \in DOMAIN g, m \notin UpdatedNodes(g, h, n, force)
      PROVE  h[m] \subseteq g[m]
  <2>1. CASE n \in DOMAIN g
    BY <1>1, <1>4, <2>1, GainersAreUpdated
  <2>2. CASE n \notin DOMAIN g
    BY <2>2 DEF Formed
  <2> QED BY <2>1, <2>2
<1> QED BY <1>1, <1>2, <1>3, <1>4

\* The overlay of s becomes h, and the nodes of updated are instructed.
Forms(t, s, h, updated, v) ==
    /\ v.overlays = [x \in DOMAIN t.overlays |-> IF x = s THEN h ELSE t.overlays[x]]
    /\ v.counters = SetOrIncrement(t.counters, updated, s)
    /\ v.sent = [m \in Node |->
          IF m \in updated
          THEN Append(t.sent[m], [stream |-> s, nodeIds |-> h[m], counter |-> v.counters[<<m, s>>]])
          ELSE t.sent[m]]

\* What formAndSendInstructions does to a stream that has an overlay
LEMMA FormAndSendIs ==
    ASSUME NEW t, IsRecord(t), OverlaysOK(t.overlays), NEW n, NEW s \in DOMAIN t.overlays,
           NEW force, NEW v \in FormAndSend(t, n, s, force)
    PROVE  /\ IsRecord(v)
           /\ \E h \in Formed(t.overlays[s], n) :
                 Forms(t, s, h, UpdatedNodes(t.overlays[s], h, n, force), v)
<1> DEFINE g == t.overlays[s]
<1>1. PICK h \in Formed(g, n) :
          v = Send([t EXCEPT !.overlays = Put(t.overlays, s, h)],
                   Instructions(h, UpdatedNodes(g, h, n, force)), s)
  BY DEF FormAndSend
<1> DEFINE updated == UpdatedNodes(g, h, n, force)
           told == Instructions(h, updated)
           o == Put(t.overlays, s, h)
           u == [overlays |-> o, counters |-> t.counters, sent |-> t.sent]
           c == SetOrIncrement(t.counters, updated, s)
           sends == [m \in Node |->
                        IF m \in DOMAIN told
                        THEN Append(t.sent[m], [stream |-> s, nodeIds |-> told[m],
                                                counter |-> c[<<m, s>>]])
                        ELSE t.sent[m]]
<1>2. DOMAIN told = updated /\ \A m \in updated : told[m] = h[m]
  BY DEF Instructions
<1>3. o = [x \in DOMAIN t.overlays |-> IF x = s THEN h ELSE t.overlays[x]]
  BY DEF Put
<1>4. [t EXCEPT !.overlays = o] = u
  <2> HIDE DEF o
  <2> QED BY DEF IsRecord
<1>5. u.overlays = o /\ u.counters = t.counters /\ u.sent = t.sent
  OBVIOUS
<1>6. v = Send(u, told, s)
  BY <1>1, <1>4
<1>7. Send(u, told, s) = [u EXCEPT !.counters = c, !.sent = sends]
  <2> HIDE DEF u, told, updated, o
  <2>1. SetOrIncrement(u.counters, DOMAIN told, s) = c
    BY <1>2, <1>5
  <2> QED BY <1>5, <2>1 DEF Send
<1> HIDE DEF sends, c, o
<1>8. v = [overlays |-> o, counters |-> c, sent |-> sends]
  BY <1>6, <1>7
<1>9. v.overlays = o /\ v.counters = c /\ v.sent = sends
  BY <1>8
<1>10. IsRecord(v)
  BY <1>8, <1>9 DEF IsRecord
<1>11. v.sent = [m \in Node |->
          IF m \in updated
          THEN Append(t.sent[m], [stream |-> s, nodeIds |-> h[m],
                                  counter |-> v.counters[<<m, s>>]])
          ELSE t.sent[m]]
  BY <1>2, <1>9 DEF sends
<1>12. Forms(t, s, h, updated, v)
  BY <1>3, <1>9, <1>11 DEF Forms, c
<1> QED BY <1>10, <1>12

\* x is named by one of the instructions for m.
Told(v, m, x) == \E i \in 1 .. Len(v.sent[m]) : x \in v.sent[m][i].nodeIds

Extends(a, b) == Len(a) <= Len(b) /\ \A i \in 1 .. Len(a) : b[i] = a[i]

\* Nobody comes or goes, only the overlays of S change, what was sent stays sent,
\* and whom a node gains it is told of.
Rewires(t, v, S) ==
    /\ DOMAIN v.overlays = DOMAIN t.overlays
    /\ \A s \in DOMAIN t.overlays : DOMAIN v.overlays[s] = DOMAIN t.overlays[s]
    /\ \A s \in DOMAIN t.overlays \ S : v.overlays[s] = t.overlays[s]
    /\ \A m \in Node : Extends(t.sent[m], v.sent[m])
    /\ \A s \in DOMAIN t.overlays : \A m \in DOMAIN t.overlays[s] :
          \A x \in v.overlays[s][m] \ t.overlays[s][m] : Told(v, m, x)

\* One rewiring after another is a rewiring.
LEMMA RewiresTransitive ==
    ASSUME NEW t, NEW u, NEW v, NEW S,
           t.sent \in [Node -> Seq(InstructionType)],
           u.sent \in [Node -> Seq(InstructionType)],
           v.sent \in [Node -> Seq(InstructionType)],
           OverlaysOK(t.overlays), Rewires(t, u, S), Rewires(u, v, S)
    PROVE  Rewires(t, v, S)
<1>0. ASSUME NEW m \in Node
      PROVE  Len(t.sent[m]) \in Nat /\ Len(u.sent[m]) \in Nat /\ Len(v.sent[m]) \in Nat
  OBVIOUS
<1>1. DOMAIN v.overlays = DOMAIN t.overlays
  BY DEF Rewires
<1>2. \A s \in DOMAIN t.overlays : DOMAIN v.overlays[s] = DOMAIN t.overlays[s]
  BY DEF Rewires
<1>3. \A s \in DOMAIN t.overlays \ S : v.overlays[s] = t.overlays[s]
  BY DEF Rewires
<1>4. ASSUME NEW m \in Node PROVE Extends(t.sent[m], v.sent[m])
  <2>1. Extends(t.sent[m], u.sent[m]) /\ Extends(u.sent[m], v.sent[m])
    BY DEF Rewires
  <2> QED BY <1>0, <2>1 DEF Extends
<1>5. ASSUME NEW s \in DOMAIN t.overlays, NEW m \in DOMAIN t.overlays[s],
             NEW x \in v.overlays[s][m] \ t.overlays[s][m]
      PROVE  Told(v, m, x)
  <2>1. m \in Node /\ s \in DOMAIN u.overlays /\ m \in DOMAIN u.overlays[s]
    BY DEF OverlaysOK, Sound, WellFormed, IsGraph, Rewires
  <2>2. CASE x \in u.overlays[s][m]
    <3>1. PICK i \in 1 .. Len(u.sent[m]) : x \in u.sent[m][i].nodeIds
      BY <2>2 DEF Rewires, Told
    <3>2. Extends(u.sent[m], v.sent[m])
      BY <2>1 DEF Rewires
    <3>3. i \in 1 .. Len(v.sent[m]) /\ v.sent[m][i] = u.sent[m][i]
      BY <1>0, <2>1, <3>2 DEF Extends
    <3> QED BY <3>1, <3>3 DEF Told
  <2>3. CASE x \notin u.overlays[s][m]
    BY <2>1, <2>3 DEF Rewires
  <2> QED BY <2>2, <2>3
<1> QED BY <1>1, <1>2, <1>3, <1>4, <1>5 DEF Rewires

\* To do nothing is a rewiring.
LEMMA RewiresReflexive ==
    ASSUME NEW t, NEW S, t.sent \in [Node -> Seq(InstructionType)]
    PROVE  Rewires(t, t, S)
BY DEF Rewires, Extends

\* The counters after instructions for some members of the overlay of s
Incremented(k, updated, s, c) ==
    /\ c \in [DOMAIN c -> Nat]
    /\ DOMAIN c = DOMAIN k \cup (updated \X {s})
    /\ \A p \in DOMAIN c :
          c[p] = IF p[1] \in updated /\ p[2] = s THEN CounterOf(k, p[1], s) + 1 ELSE k[p]

\* setOrIncrement counts one more instruction to each of the updated nodes.
LEMMA CountersIncremented ==
    ASSUME NEW k, k \in [DOMAIN k -> Nat], NEW s, NEW updated,
           NEW c, c = SetOrIncrement(k, updated, s)
    PROVE  Incremented(k, updated, s, c)
<1>1. \A m, x : CounterOf(k, m, x) \in Nat
  BY DEF CounterOf
<1>2. c = [p \in DOMAIN k \cup (updated \X {s}) |->
             IF p[1] \in updated /\ p[2] = s THEN CounterOf(k, p[1], s) + 1 ELSE k[p]]
  BY DEF SetOrIncrement
<1>3. ASSUME NEW p \in DOMAIN k \cup (updated \X {s})
      PROVE  (IF p[1] \in updated /\ p[2] = s THEN CounterOf(k, p[1], s) + 1 ELSE k[p]) \in Nat
  BY <1>1
<1> QED BY <1>2, <1>3 DEF Incremented

\* formAndSendInstructions for one stream rewires its overlay.
LEMMA FormAndSendKeeps ==
    ASSUME NEW t, TrackerOK(t), NEW n \in Node, NEW s \in Stream, NEW force \in BOOLEAN,
           NEW v \in FormAndSend(t, n, s, force)
    PROVE  TrackerOK(v) /\ Rewires(t, v, {s})
<1>1. CASE s \notin DOMAIN t.overlays
  <2>1. v = t
    BY <1>1 DEF FormAndSend
  <2> QED BY <2>1, RewiresReflexive DEF TrackerOK
<1>2. CASE s \in DOMAIN t.overlays
  <2> DEFINE g == t.overlays[s]
  <2>1. PICK h \in Formed(g, n) : Forms(t, s, h, UpdatedNodes(g, h, n, force), v)
    BY <1>2, FormAndSendIs DEF TrackerOK
  <2>2. IsRecord(v)
    BY <1>2, FormAndSendIs DEF TrackerOK
  <2> DEFINE updated == UpdatedNodes(g, h, n, force)
  <2>3. Sound(g)
    BY <1>2 DEF TrackerOK, OverlaysOK
  <2>4. /\ Sound(h) /\ DOMAIN h = DOMAIN g /\ updated \subseteq DOMAIN g
        /\ \A m \in DOMAIN g : m \notin updated => h[m] \subseteq g[m]
    BY <2>3, FormedSound
  <2>5. DOMAIN g \subseteq Node /\ \A m \in DOMAIN g : h[m] \subseteq Node
    BY <2>3, <2>4 DEF Sound, WellFormed, IsGraph
  <2> HIDE DEF g, updated
  <2>6. /\ DOMAIN v.overlays = DOMAIN t.overlays
        /\ v.overlays = [x \in DOMAIN v.overlays |-> v.overlays[x]]
        /\ v.overlays[s] = h
        /\ \A x \in DOMAIN t.overlays \ {s} : v.overlays[x] = t.overlays[x]
    BY <1>2, <2>1 DEF Forms
  <2>7. OverlaysOK(v.overlays)
    BY <2>4, <2>6 DEF TrackerOK, OverlaysOK
  <2>8. /\ v.counters \in [DOMAIN v.counters -> Nat]
        /\ DOMAIN v.counters = DOMAIN t.counters \cup (updated \X {s})
        /\ \A p \in DOMAIN v.counters :
              v.counters[p] = IF p[1] \in updated /\ p[2] = s
                              THEN CounterOf(t.counters, p[1], s) + 1 ELSE t.counters[p]
    <3>1. v.counters = SetOrIncrement(t.counters, updated, s)
      BY <2>1 DEF Forms, updated, g
    <3>2. t.counters \in [DOMAIN t.counters -> Nat]
      BY DEF TrackerOK, CountersOK
    <3>3. Incremented(t.counters, updated, s, v.counters)
      BY <3>1, <3>2, CountersIncremented
    <3> QED BY <3>3 DEF Incremented
  <2>9. CountersOK(v)
    <3>1. DOMAIN v.counters \subseteq Node \X Stream
      BY <2>4, <2>5, <2>8 DEF TrackerOK, CountersOK
    <3>2. ASSUME NEW m \in Node, NEW x \in Stream, <<m, x>> \in DOMAIN v.counters
          PROVE  /\ x \in DOMAIN v.overlays
                 /\ v.counters[<<m, x>>] > 0 => m \in DOMAIN v.overlays[x]
      <4>1. CASE m \in updated /\ x = s
        BY <1>2, <2>4, <2>6, <4>1
      <4>2. CASE ~ (m \in updated /\ x = s)
        <5>1. <<m, x>> \in DOMAIN t.counters /\ v.counters[<<m, x>>] = t.counters[<<m, x>>]
          BY <2>8, <3>2, <4>2
        <5>2. /\ x \in DOMAIN t.overlays
              /\ t.counters[<<m, x>>] > 0 => m \in DOMAIN t.overlays[x]
          BY <5>1 DEF TrackerOK, CountersOK
        <5> QED BY <2>4, <2>6, <5>1, <5>2 DEF g
      <4> QED BY <4>1, <4>2
    <3> QED BY <2>8, <3>1, <3>2 DEF CountersOK
  <2>10. ASSUME NEW m \in updated
         PROVE  /\ m \in Node
                /\ [stream |-> s, nodeIds |-> h[m], counter |-> v.counters[<<m, s>>]]
                     \in InstructionType
    <3>1. m \in Node /\ h[m] \subseteq Node
      BY <2>4, <2>5
    <3>2. v.counters[<<m, s>>] \in Nat
      BY <2>8
    <3> QED BY <3>1, <3>2 DEF InstructionType
  <2>11. v.sent = [m \in Node |->
          IF m \in updated
          THEN Append(t.sent[m], [stream |-> s, nodeIds |-> h[m],
                                  counter |-> v.counters[<<m, s>>]])
          ELSE t.sent[m]]
    BY <2>1 DEF Forms, updated, g
  <2>12. t.sent \in [Node -> Seq(InstructionType)]
    BY DEF TrackerOK
  <2>13. v.sent \in [Node -> Seq(InstructionType)]
    BY <2>10, <2>11, <2>12
  <2>14. TrackerOK(v)
    BY <2>2, <2>7, <2>9, <2>13 DEF TrackerOK
  <2>15. ASSUME NEW m \in Node PROVE Extends(t.sent[m], v.sent[m])
    <3>1. CASE m \in updated
      <4>1. PICK i \in InstructionType : v.sent[m] = Append(t.sent[m], i)
        BY <2>10, <2>11, <3>1
      <4>2. t.sent[m] \in Seq(InstructionType)
        BY <2>12
      <4> QED BY <4>1, <4>2 DEF Extends
    <3>2. CASE m \notin updated
      BY <2>11, <2>12, <3>2 DEF Extends
    <3> QED BY <3>1, <3>2
  <2>16. ASSUME NEW x \in DOMAIN t.overlays, NEW m \in DOMAIN t.overlays[x],
                NEW y \in v.overlays[x][m] \ t.overlays[x][m]
         PROVE  Told(v, m, y)
    <3>1. x = s
      BY <2>6
    <3>2. m \in updated /\ y \in h[m]
      BY <2>4, <2>6, <3>1 DEF g
    <3> DEFINE i == [stream |-> s, nodeIds |-> h[m], counter |-> v.counters[<<m, s>>]]
    <3>3. m \in Node /\ v.sent[m] = Append(t.sent[m], i) /\ i \in InstructionType
      BY <2>10, <2>11, <3>2
    <3>4. i.nodeIds = h[m]
      OBVIOUS
    <3> HIDE DEF i
    <3>5. t.sent[m] \in Seq(InstructionType)
      BY <2>12, <3>3
    <3>6. /\ Len(v.sent[m]) \in 1 .. Len(v.sent[m])
          /\ v.sent[m][Len(v.sent[m])] = i
      BY <3>3, <3>5
    <3> QED BY <3>2, <3>4, <3>6 DEF Told
  <2>17. Rewires(t, v, {s})
    BY <2>4, <2>6, <2>15, <2>16 DEF Rewires, g
  <2> QED BY <2>14, <2>17
<1> QED BY <1>1, <1>2

-----------------------------------------------------------------------------
(***************************************************************************)
(* The loops of the handlers                                               *)
(***************************************************************************)
\* The turns of formAndSendInstructions for several streams: what is reached after a
\* turn comes from something reached before it by a call for a stream.
StreamsInTurn(t, n, S, v, N, order, reached) ==
    /\ reached[0] = {t}
    /\ \A i \in 1 .. N : order[i] \in S
    /\ \A i, j \in 1 .. N : order[i] = order[j] => i = j
    /\ \A i \in 1 .. N : \A w \in reached[i] : \E u \in reached[i - 1] :
          w \in FormAndSend(u, n, order[i], FALSE)
    /\ v \in reached[N]

\* formAndSendInstructions takes its turns.
LEMMA FormAndSendAllTurns ==
    ASSUME NEW t, NEW n, NEW S \in SUBSET Stream, NEW v \in FormAndSendAll(t, n, S)
    PROVE  \E N, order, reached : N \in Nat /\ StreamsInTurn(t, n, S, v, N, order, reached)
<1> DEFINE order == SetToSeq(S)
           N == Len(order)
           reached[i \in 0 .. N] ==
             IF i = 0 THEN {t}
             ELSE UNION {FormAndSend(u, n, order[i], FALSE) : u \in reached[i - 1]}
<1>1. v \in reached[N]
  <2>1. FormAndSendAll(t, n, S) = reached[N]
    BY DEF FormAndSendAll, InTurn
  <2> QED BY <2>1
<1>2. /\ N \in Nat /\ \A i \in 1 .. N : order[i] \in S
      /\ \A i, j \in 1 .. N : order[i] = order[j] => i = j
  <2>1. IsFiniteSet(S)
    BY StreamAssumption, FS_Subset
  <2> QED BY <2>1, OrderOfSet
<1> DEFINE D(R, i) == UNION {FormAndSend(u, n, order[i], FALSE) : u \in R}
           P(f, k) == f = [i \in 0 .. k |-> IF i = 0 THEN {t} ELSE D(f[i - 1], i)]
           S0 == {k \in 0 .. N : \E f : P(f, k)}
<1>3. 0 \in S0
  <2> DEFINE f == [i \in 0 .. 0 |-> {t}]
  <2> HIDE DEF D, N
  <2>1. P(f, 0)
    OBVIOUS
  <2> HIDE DEF P, f
  <2> QED BY <1>2, <2>1
<1>4. ASSUME NEW k \in 1 .. N, k - 1 \in S0 PROVE k \in S0
  <2> HIDE DEF D, N
  <2>1. PICK f : P(f, k - 1)
    BY <1>4
  <2> DEFINE g == [i \in 0 .. k |-> IF i = k THEN D(f[k - 1], i) ELSE f[i]]
  <2>2. /\ \A i \in 0 .. k - 1 : f[i] = IF i = 0 THEN {t} ELSE D(f[i - 1], i)
        /\ f = [i \in 0 .. k - 1 |-> f[i]]
    BY <2>1, Zenon
  <2>3. ASSUME NEW i \in 0 .. k PROVE g[i] = IF i = 0 THEN {t} ELSE D(g[i - 1], i)
    <3>1. CASE i = k
      <4>1. i # 0 /\ i - 1 \in 0 .. k /\ i - 1 # k /\ i - 1 = k - 1
        BY <3>1
      <4>2. g[i] = D(f[k - 1], i) /\ g[i - 1] = f[i - 1]
        BY <3>1, <4>1, Zenon
      <4> QED BY <4>1, <4>2, Zenon
    <3>2. CASE i # k
      <4>1. i \in 0 .. k - 1 /\ g[i] = f[i]
        BY <3>2
      <4>2. i # 0 => i - 1 \in 0 .. k /\ i - 1 # k
        BY <3>2
      <4>3. i # 0 => g[i - 1] = f[i - 1]
        BY <4>2, Zenon
      <4> QED BY <2>2, <4>1, <4>3, Zenon
    <3> QED BY <3>1, <3>2
  <2> HIDE DEF g
  <2>4. g = [i \in 0 .. k |-> g[i]]
    BY DEF g
  <2>5. P(g, k)
    BY <2>3, <2>4, Zenon
  <2> HIDE DEF P
  <2> QED BY <1>2, <2>5
<1> HIDE DEF N
<1>5. N \in S0
  <2> HIDE DEF S0
  <2> QED BY <1>2, <1>3, <1>4, LoopInduction
<1>6. P(reached, N)
  <2>1. \E f : P(f, N)
    BY <1>5
  <2> QED BY <2>1, Zenon
<1> HIDE DEF reached
<1>7. /\ reached[0] = {t}
      /\ \A i \in 1 .. N : reached[i] = D(reached[i - 1], i)
  <2> HIDE DEF D
  <2>1. \A i \in 0 .. N : reached[i] = IF i = 0 THEN {t} ELSE D(reached[i - 1], i)
    BY <1>6, Zenon
  <2> QED BY <1>2, <2>1
<1>8. ASSUME NEW i \in 1 .. N, NEW w \in reached[i]
      PROVE  \E u \in reached[i - 1] : w \in FormAndSend(u, n, order[i], FALSE)
  <2>1. reached[i] = D(reached[i - 1], i)
    BY <1>7
  <2> QED BY <2>1
<1> HIDE DEF order, D, P, S0
<1> HIDE DEF N
<1>9. StreamsInTurn(t, n, S, v, N, order, reached)
  BY <1>1, <1>2, <1>7, <1>8 DEF StreamsInTurn
<1> QED BY <1>2, <1>9

\* formAndSendInstructions for a node and several streams
LEMMA FormAndSendAllKeeps ==
    ASSUME NEW t, TrackerOK(t), NEW n \in Node, NEW S \in SUBSET Stream,
           NEW v \in FormAndSendAll(t, n, S)
    PROVE  TrackerOK(v) /\ Rewires(t, v, S)
<1>0. PICK N, order, reached : N \in Nat /\ StreamsInTurn(t, n, S, v, N, order, reached)
  BY FormAndSendAllTurns
<1> N \in Nat
  BY <1>0
<1>1. /\ N \in Nat
      /\ reached[0] = {t}
      /\ \A i \in 1 .. N : order[i] \in S
      /\ \A i \in 1 .. N : \A w \in reached[i] : \E u \in reached[i - 1] :
            w \in FormAndSend(u, n, order[i], FALSE)
      /\ v \in reached[N]
  BY <1>0 DEF StreamsInTurn
<1> DEFINE Good == {i \in 0 .. N : \A u \in reached[i] : TrackerOK(u) /\ Rewires(t, u, S)}
<1>2. 0 \in Good
  BY <1>1, RewiresReflexive DEF TrackerOK
<1>3. ASSUME NEW i \in 1 .. N, i - 1 \in Good PROVE i \in Good
  <2> SUFFICES ASSUME NEW w \in reached[i] PROVE TrackerOK(w) /\ Rewires(t, w, S)
    OBVIOUS
  <2>1. PICK u \in reached[i - 1] : w \in FormAndSend(u, n, order[i], FALSE)
    BY <1>1
  <2>2. TrackerOK(u) /\ Rewires(t, u, S)
    BY <1>3
  <2>3. TrackerOK(w) /\ Rewires(u, w, {order[i]})
    BY <1>1, <2>1, <2>2, FormAndSendKeeps
  <2>4. Rewires(u, w, S)
    BY <1>1, <2>3 DEF Rewires
  <2> QED BY <2>2, <2>3, <2>4, RewiresTransitive DEF TrackerOK
<1> HIDE DEF Good
<1>4. N \in Good
  BY <1>2, <1>3, LoopInduction
<1> QED BY <1>1, <1>4 DEF Good

\* Every overlay is as it was or as formInstructions for n may leave it.
FormedFor(t, v, n) ==
    \A s \in DOMAIN t.overlays :
        /\ s \in DOMAIN v.overlays
        /\ v.overlays[s] = t.overlays[s] \/ v.overlays[s] \in Formed(t.overlays[s], n)

\* formAndSendInstructions for a node and several streams: every stream has one turn.
LEMMA FormAndSendAllForms ==
    ASSUME NEW t, TrackerOK(t), NEW n \in Node, NEW S \in SUBSET Stream,
           NEW v \in FormAndSendAll(t, n, S)
    PROVE  FormedFor(t, v, n)
<1>0. PICK N, order, reached : N \in Nat /\ StreamsInTurn(t, n, S, v, N, order, reached)
  BY FormAndSendAllTurns
<1> N \in Nat
  BY <1>0
<1>1. /\ N \in Nat
      /\ reached[0] = {t}
      /\ \A i \in 1 .. N : order[i] \in S
      /\ \A i, j \in 1 .. N : order[i] = order[j] => i = j
      /\ \A i \in 1 .. N : \A w \in reached[i] : \E u \in reached[i - 1] :
            w \in FormAndSend(u, n, order[i], FALSE)
      /\ v \in reached[N]
  BY <1>0 DEF StreamsInTurn
<1> DEFINE Done(k) == {order[i] : i \in 1 .. k}
           Fine(u, k) == /\ TrackerOK(u) /\ DOMAIN u.overlays = DOMAIN t.overlays
                         /\ FormedFor(t, u, n)
                         /\ \A s \in DOMAIN t.overlays \ Done(k) :
                               u.overlays[s] = t.overlays[s]
           Good == {k \in 0 .. N : \A u \in reached[k] : Fine(u, k)}
<1>2. 0 \in Good
  <2>1. Fine(t, 0)
    BY DEF FormedFor
  <2> HIDE DEF Fine
  <2> QED BY <1>1, <2>1
<1>3. ASSUME NEW i \in 1 .. N, i - 1 \in Good PROVE i \in Good
  <2> SUFFICES ASSUME NEW w \in reached[i] PROVE Fine(w, i)
    OBVIOUS
  <2>1. PICK u \in reached[i - 1] : w \in FormAndSend(u, n, order[i], FALSE)
    BY <1>1
  <2>2. Fine(u, i - 1)
    BY <1>3
  <2>3. PICK s : s = order[i]
    OBVIOUS
  <2>4. s \notin Done(i - 1) /\ s \in Stream
    BY <1>1, <2>3
  <2>5. TrackerOK(w) /\ Rewires(u, w, {s})
    BY <2>1, <2>2, <2>3, <2>4, FormAndSendKeeps
  <2>6. ASSUME s \in DOMAIN u.overlays PROVE w.overlays[s] \in Formed(u.overlays[s], n)
    <3>1. PICK h \in Formed(u.overlays[s], n) :
             Forms(u, s, h, UpdatedNodes(u.overlays[s], h, n, FALSE), w)
      BY <2>1, <2>2, <2>3, <2>6, FormAndSendIs DEF TrackerOK
    <3>2. w.overlays[s] = h
      BY <2>6, <3>1 DEF Forms
    <3> QED BY <3>2
  <2>7. \A x : x \notin Done(i) => x \notin Done(i - 1) /\ x # s
    BY <2>3
  <2> HIDE DEF Done
  <2>8. DOMAIN w.overlays = DOMAIN t.overlays
    BY <2>2, <2>5 DEF Rewires
  <2>9. \A x \in DOMAIN t.overlays : x # s => w.overlays[x] = u.overlays[x]
    BY <2>2, <2>5 DEF Rewires
  <2>10. FormedFor(t, w, n)
    BY <2>2, <2>4, <2>6, <2>8, <2>9 DEF FormedFor
  <2>11. \A x \in DOMAIN t.overlays \ Done(i) : w.overlays[x] = t.overlays[x]
    BY <2>2, <2>7, <2>9
  <2> QED BY <2>5, <2>8, <2>10, <2>11
<1> HIDE DEF Good
<1>4. N \in Good
  BY <1>2, <1>3, LoopInduction
<1>5. Fine(v, N)
  <2> HIDE DEF Fine
  <2> QED BY <1>1, <1>4 DEF Good
<1> QED BY <1>5

\* The turns of formAndSendInstructions for several nodes
NodesInTurn(t, S, s, v, N, order, reached) ==
    /\ reached[0] = {t}
    /\ \A i \in 1 .. N : order[i] \in S
    /\ \A i \in 1 .. N : \A w \in reached[i] : \E u \in reached[i - 1] :
          w \in FormAndSend(u, order[i], s, TRUE)
    /\ v \in reached[N]

\* formAndSendInstructions takes its turns for the nodes.
LEMMA FormAndSendToEachTurns ==
    ASSUME NEW t, NEW S \in SUBSET Node, IsFiniteSet(S), NEW s,
           NEW v \in FormAndSendToEach(t, S, s)
    PROVE  \E N, order, reached : N \in Nat /\ NodesInTurn(t, S, s, v, N, order, reached)
<1> DEFINE Result(o) ==
             LET reached[i \in 0 .. Len(o)] ==
                   IF i = 0 THEN {t}
                   ELSE UNION {FormAndSend(u, o[i], s, TRUE) : u \in reached[i - 1]}
             IN  reached[Len(o)]
<1>0. PICK order \in SetToSeqs(S) : v \in Result(order)
  <2>1. FormAndSendToEach(t, S, s) = UNION {Result(o) : o \in SetToSeqs(S)}
    BY DEF FormAndSendToEach, InTurn
  <2> HIDE DEF Result
  <2> QED BY <2>1
<1> DEFINE N == Len(order)
           reached[i \in 0 .. N] ==
             IF i = 0 THEN {t}
             ELSE UNION {FormAndSend(u, order[i], s, TRUE) : u \in reached[i - 1]}
<1>1. v \in reached[N]
  BY <1>0
<1>2. N \in Nat /\ \A i \in 1 .. N : order[i] \in S
  BY OrderOfSet
<1> DEFINE D(R, i) == UNION {FormAndSend(u, order[i], s, TRUE) : u \in R}
           P(f, k) == f = [i \in 0 .. k |-> IF i = 0 THEN {t} ELSE D(f[i - 1], i)]
           S0 == {k \in 0 .. N : \E f : P(f, k)}
<1>3. 0 \in S0
  <2> DEFINE f == [i \in 0 .. 0 |-> {t}]
  <2> HIDE DEF D, N
  <2>1. P(f, 0)
    OBVIOUS
  <2> HIDE DEF P, f
  <2> QED BY <1>2, <2>1
<1>4. ASSUME NEW k \in 1 .. N, k - 1 \in S0 PROVE k \in S0
  <2> HIDE DEF D, N
  <2>1. PICK f : P(f, k - 1)
    BY <1>4
  <2> DEFINE g == [i \in 0 .. k |-> IF i = k THEN D(f[k - 1], i) ELSE f[i]]
  <2>2. /\ \A i \in 0 .. k - 1 : f[i] = IF i = 0 THEN {t} ELSE D(f[i - 1], i)
        /\ f = [i \in 0 .. k - 1 |-> f[i]]
    BY <2>1, Zenon
  <2>3. ASSUME NEW i \in 0 .. k PROVE g[i] = IF i = 0 THEN {t} ELSE D(g[i - 1], i)
    <3>1. CASE i = k
      <4>1. i # 0 /\ i - 1 \in 0 .. k /\ i - 1 # k /\ i - 1 = k - 1
        BY <3>1
      <4>2. g[i] = D(f[k - 1], i) /\ g[i - 1] = f[i - 1]
        BY <3>1, <4>1, Zenon
      <4> QED BY <4>1, <4>2, Zenon
    <3>2. CASE i # k
      <4>1. i \in 0 .. k - 1 /\ g[i] = f[i]
        BY <3>2
      <4>2. i # 0 => i - 1 \in 0 .. k /\ i - 1 # k
        BY <3>2
      <4>3. i # 0 => g[i - 1] = f[i - 1]
        BY <4>2, Zenon
      <4> QED BY <2>2, <4>1, <4>3, Zenon
    <3> QED BY <3>1, <3>2
  <2> HIDE DEF g
  <2>4. g = [i \in 0 .. k |-> g[i]]
    BY DEF g
  <2>5. P(g, k)
    BY <2>3, <2>4, Zenon
  <2> HIDE DEF P
  <2> QED BY <1>2, <2>5
<1> HIDE DEF N
<1>5. N \in S0
  <2> HIDE DEF S0
  <2> QED BY <1>2, <1>3, <1>4, LoopInduction
<1>6. P(reached, N)
  <2>1. \E f : P(f, N)
    BY <1>5
  <2> QED BY <2>1, Zenon
<1> HIDE DEF reached
<1>7. /\ reached[0] = {t}
      /\ \A i \in 1 .. N : reached[i] = D(reached[i - 1], i)
  <2> HIDE DEF D
  <2>1. \A i \in 0 .. N : reached[i] = IF i = 0 THEN {t} ELSE D(reached[i - 1], i)
    BY <1>6, Zenon
  <2> QED BY <1>2, <2>1
<1>8. ASSUME NEW i \in 1 .. N, NEW w \in reached[i]
      PROVE  \E u \in reached[i - 1] : w \in FormAndSend(u, order[i], s, TRUE)
  <2>1. reached[i] = D(reached[i - 1], i)
    BY <1>7
  <2> QED BY <2>1
<1> HIDE DEF D, P, S0
<1> HIDE DEF N
<1>9. NodesInTurn(t, S, s, v, N, order, reached)
  BY <1>1, <1>2, <1>7, <1>8 DEF NodesInTurn
<1> QED BY <1>2, <1>9

\* formAndSendInstructions for several nodes and a stream
LEMMA FormAndSendToEachKeeps ==
    ASSUME NEW t, TrackerOK(t), NEW S \in SUBSET Node, IsFiniteSet(S), NEW s \in Stream,
           NEW v \in FormAndSendToEach(t, S, s)
    PROVE  TrackerOK(v) /\ Rewires(t, v, {s})
<1>0. PICK N, order, reached : N \in Nat /\ NodesInTurn(t, S, s, v, N, order, reached)
  BY FormAndSendToEachTurns
<1> N \in Nat
  BY <1>0
<1>1. /\ N \in Nat
      /\ reached[0] = {t}
      /\ \A i \in 1 .. N : order[i] \in S
      /\ \A i \in 1 .. N : \A w \in reached[i] : \E u \in reached[i - 1] :
            w \in FormAndSend(u, order[i], s, TRUE)
      /\ v \in reached[N]
  BY <1>0 DEF NodesInTurn
<1> DEFINE Good == {i \in 0 .. N : \A u \in reached[i] : TrackerOK(u) /\ Rewires(t, u, {s})}
<1>2. 0 \in Good
  BY <1>1, RewiresReflexive DEF TrackerOK
<1>3. ASSUME NEW i \in 1 .. N, i - 1 \in Good PROVE i \in Good
  <2> SUFFICES ASSUME NEW w \in reached[i] PROVE TrackerOK(w) /\ Rewires(t, w, {s})
    OBVIOUS
  <2>1. PICK u \in reached[i - 1] : w \in FormAndSend(u, order[i], s, TRUE)
    BY <1>1
  <2>2. TrackerOK(u) /\ Rewires(t, u, {s})
    BY <1>3
  <2>3. TrackerOK(w) /\ Rewires(u, w, {s})
    BY <1>1, <2>1, <2>2, FormAndSendKeeps
  <2> QED BY <2>2, <2>3, RewiresTransitive DEF TrackerOK
<1> HIDE DEF Good
<1>4. N \in Good
  BY <1>2, <1>3, LoopInduction
<1> QED BY <1>1, <1>4 DEF Good

-----------------------------------------------------------------------------
(***************************************************************************)
(* Leaving                                                                 *)
(***************************************************************************)
\* n left the overlays of S: those it was alone in, or that had nobody, are gone.
Leaves(t, v, n, S) ==
    /\ DOMAIN v.overlays \subseteq DOMAIN t.overlays
    /\ \A s \in DOMAIN t.overlays \ S :
          s \in DOMAIN v.overlays /\ v.overlays[s] = t.overlays[s]
    /\ \A s \in DOMAIN v.overlays \cap S :
          DOMAIN v.overlays[s] = DOMAIN t.overlays[s] \ {n} /\ DOMAIN v.overlays[s] # {}
    /\ \A s \in DOMAIN t.overlays \ DOMAIN v.overlays : DOMAIN t.overlays[s] \subseteq {n}

\* A departure from some streams and then from others is one from all of them.
LEMMA LeavesTransitive ==
    ASSUME NEW t, NEW u, NEW v, NEW n, NEW A, NEW B, Leaves(t, u, n, A), Leaves(u, v, n, B)
    PROVE  Leaves(t, v, n, A \cup B)
<1>1. DOMAIN v.overlays \subseteq DOMAIN t.overlays
  BY DEF Leaves
<1>2. ASSUME NEW s \in DOMAIN t.overlays \ (A \cup B)
      PROVE  s \in DOMAIN v.overlays /\ v.overlays[s] = t.overlays[s]
  BY DEF Leaves
<1>3. ASSUME NEW s \in DOMAIN v.overlays \cap (A \cup B)
      PROVE  DOMAIN v.overlays[s] = DOMAIN t.overlays[s] \ {n} /\ DOMAIN v.overlays[s] # {}
  <2>1. s \in DOMAIN u.overlays /\ s \in DOMAIN t.overlays
    BY DEF Leaves
  <2>2. CASE s \in B
    <3>1. DOMAIN v.overlays[s] = DOMAIN u.overlays[s] \ {n} /\ DOMAIN v.overlays[s] # {}
      BY <2>2 DEF Leaves
    <3>2. \/ DOMAIN u.overlays[s] = DOMAIN t.overlays[s] \ {n}
          \/ DOMAIN u.overlays[s] = DOMAIN t.overlays[s]
      BY <2>1 DEF Leaves
    <3> QED BY <3>1, <3>2
  <2>3. CASE s \notin B
    <3>1. v.overlays[s] = u.overlays[s] /\ s \in A
      BY <2>1, <2>3 DEF Leaves
    <3> QED BY <2>1, <3>1 DEF Leaves
  <2> QED BY <2>2, <2>3
<1>4. ASSUME NEW s \in DOMAIN t.overlays \ DOMAIN v.overlays
      PROVE  DOMAIN t.overlays[s] \subseteq {n}
  <2>1. CASE s \in DOMAIN u.overlays
    <3>1. DOMAIN u.overlays[s] \subseteq {n}
      BY <2>1 DEF Leaves
    <3>2. \/ DOMAIN u.overlays[s] = DOMAIN t.overlays[s] \ {n} /\ DOMAIN u.overlays[s] # {}
          \/ DOMAIN u.overlays[s] = DOMAIN t.overlays[s]
      BY <2>1 DEF Leaves
    <3> QED BY <3>1, <3>2
  <2>2. CASE s \notin DOMAIN u.overlays
    BY <2>2 DEF Leaves
  <2> QED BY <2>1, <2>2
<1> QED BY <1>1, <1>2, <1>3, <1>4 DEF Leaves

\* An overlay once n left it, and the neighbors n leaves behind
Without(g, n) == IF n \in DOMAIN g THEN Left(g, n) ELSE g
LeftBehind(g, n) == IF n \in DOMAIN g THEN g[n] ELSE {}

\* n leaves the overlay of s and leaves somebody behind: what is to be formed anew.
LeftBy(t, n, s, u) == /\ TrackerOK(u)
                      /\ u.sent = t.sent
                      /\ u.overlays = [x \in DOMAIN t.overlays |->
                                         IF x = s THEN Without(t.overlays[s], n)
                                         ELSE t.overlays[x]]

\* The overlay of s goes away.
Removes(t, s, v) == /\ TrackerOK(v)
                    /\ v.sent = t.sent
                    /\ v.overlays = [x \in DOMAIN t.overlays \ {s} |-> t.overlays[x]]

\* The parts of leaveAndCheckEmptyOverlay
LEMMA LeaveInParts ==
    ASSUME NEW t, TrackerOK(t), NEW n \in Node, NEW s \in DOMAIN t.overlays,
           NEW v \in LeaveAndCheckEmptyOverlay(t, n, s)
    PROVE  /\ Sound(Without(t.overlays[s], n))
           /\ DOMAIN Without(t.overlays[s], n) = DOMAIN t.overlays[s] \ {n}
           /\ LeftBehind(t.overlays[s], n) \subseteq Node
           /\ IsFiniteSet(LeftBehind(t.overlays[s], n))
           /\ DOMAIN Without(t.overlays[s], n) = {} => Removes(t, s, v)
           /\ DOMAIN Without(t.overlays[s], n) # {} =>
                 \E u : /\ LeftBy(t, n, s, u)
                        /\ v \in FormAndSendToEach(u, LeftBehind(t.overlays[s], n), s)
<1> DEFINE g == t.overlays[s]
           h == IF n \in DOMAIN g THEN Left(g, n) ELSE g
           c == RemoveNode(t.counters, n)
           mine == IF n \in DOMAIN g THEN g[n] ELSE {}
<1>0. /\ t.counters \in [DOMAIN t.counters -> Nat]
      /\ DOMAIN t.counters \subseteq Node \X Stream
  BY DEF TrackerOK, CountersOK
<1>1. Sound(g) /\ s \in Stream
  BY DEF TrackerOK, OverlaysOK
<1>2. Sound(h) /\ DOMAIN h = DOMAIN g \ {n}
  <2>1. CASE n \in DOMAIN g
    <3>1. WellFormed(h)
      BY <1>1, <2>1, LeftWellFormed DEF Sound
    <3>2. DOMAIN h = DOMAIN g \ {n}
      BY <2>1 DEF Left
    <3>3. IsFiniteSet(DOMAIN h)
      BY <1>1, <3>2, FS_Subset DEF Sound, FiniteGraph
    <3> QED BY <3>1, <3>2, <3>3 DEF Sound, FiniteGraph
  <2>2. CASE n \notin DOMAIN g
    BY <1>1, <2>2
  <2> QED BY <2>1, <2>2
<1>3. mine \subseteq Node /\ IsFiniteSet(mine)
  <2>1. CASE n \in DOMAIN g
    <3>1. g[n] \subseteq DOMAIN g /\ DOMAIN g \subseteq Node /\ IsFiniteSet(DOMAIN g)
      BY <1>1, <2>1 DEF Sound, WellFormed, IsGraph, FiniteGraph
    <3> QED BY <2>1, <3>1, FS_Subset
  <2>2. CASE n \notin DOMAIN g
    BY <2>2, FS_EmptySet
  <2> QED BY <2>1, <2>2
<1>4. /\ c \in [DOMAIN c -> Nat]
      /\ \A p : p \in DOMAIN c <=> p \in DOMAIN t.counters /\ p[1] # n
      /\ \A p \in DOMAIN c : c[p] = t.counters[p]
  BY <1>0 DEF RemoveNode, Restrict
<1>5. v \in IF DOMAIN h = {}
            THEN {[t EXCEPT !.overlays = Restrict(t.overlays, DOMAIN t.overlays \ {s}),
                            !.counters = RemoveStream(c, s)]}
            ELSE FormAndSendToEach([t EXCEPT !.overlays = Put(t.overlays, s, h),
                                             !.counters = c], mine, s)
  BY DEF LeaveAndCheckEmptyOverlay
<1> HIDE DEF h, c, mine, g
<1>6. ASSUME DOMAIN h = {}
      PROVE  /\ TrackerOK(v) /\ v.sent = t.sent
             /\ v.overlays = [x \in DOMAIN t.overlays \ {s} |-> t.overlays[x]]
  <2> DEFINE o == Restrict(t.overlays, DOMAIN t.overlays \ {s})
             d == RemoveStream(c, s)
  <2>1. v = [overlays |-> o, counters |-> d, sent |-> t.sent]
    <3>1. v = [t EXCEPT !.overlays = o, !.counters = d]
      BY <1>5, <1>6
    <3>2. IsRecord(t)
      BY DEF TrackerOK
    <3> HIDE DEF o, d
    <3> QED BY <3>1, <3>2 DEF IsRecord
  <2>2. /\ d \in [DOMAIN d -> Nat]
        /\ \A p : p \in DOMAIN d <=> p \in DOMAIN t.counters /\ p[1] # n /\ p[2] # s
        /\ \A p \in DOMAIN d : d[p] = t.counters[p]
    BY <1>4 DEF RemoveStream, Restrict
  <2>3. /\ o = [x \in DOMAIN t.overlays \ {s} |-> t.overlays[x]]
    BY DEF Restrict
  <2> HIDE DEF o, d
  <2>4. IsRecord(v) /\ v.overlays = o /\ v.counters = d /\ v.sent = t.sent
    BY <2>1 DEF IsRecord
  <2>5. OverlaysOK(o)
    BY <2>3 DEF TrackerOK, OverlaysOK
  <2>6. CountersOK(v)
    <3>1. DOMAIN d \subseteq Node \X Stream
      BY <1>0, <2>2
    <3>2. ASSUME NEW m \in Node, NEW x \in Stream, <<m, x>> \in DOMAIN d
          PROVE  x \in DOMAIN o /\ (d[<<m, x>>] > 0 => m \in DOMAIN o[x])
      <4>1. <<m, x>> \in DOMAIN t.counters /\ x # s /\ d[<<m, x>>] = t.counters[<<m, x>>]
        BY <2>2, <3>2
      <4>2. /\ x \in DOMAIN t.overlays
            /\ t.counters[<<m, x>>] > 0 => m \in DOMAIN t.overlays[x]
        BY <4>1 DEF TrackerOK, CountersOK
      <4> QED BY <2>3, <4>1, <4>2
    <3> QED BY <2>2, <2>4, <3>1, <3>2 DEF CountersOK
  <2>7. TrackerOK(v)
    BY <2>4, <2>5, <2>6 DEF TrackerOK
  <2> QED BY <1>6, <2>3, <2>4, <2>7
<1>7. ASSUME DOMAIN h # {}
      PROVE  \E u : /\ TrackerOK(u) /\ u.sent = t.sent
                    /\ u.overlays = [x \in DOMAIN t.overlays |->
                                       IF x = s THEN h ELSE t.overlays[x]]
                    /\ v \in FormAndSendToEach(u, mine, s)
  <2> DEFINE o == Put(t.overlays, s, h)
             u == [overlays |-> o, counters |-> c, sent |-> t.sent]
  <2>1. v \in FormAndSendToEach(u, mine, s)
    <3>1. v \in FormAndSendToEach([t EXCEPT !.overlays = o, !.counters = c], mine, s)
      BY <1>5, <1>7
    <3>2. IsRecord(t)
      BY DEF TrackerOK
    <3> HIDE DEF o
    <3>3. PICK w : w = [t EXCEPT !.overlays = o, !.counters = c]
      OBVIOUS
    <3>4. w = u
      BY <3>2, <3>3 DEF IsRecord
    <3> QED BY <3>1, <3>3, <3>4
  <2>2. o = [x \in DOMAIN t.overlays |-> IF x = s THEN h ELSE t.overlays[x]]
    BY DEF Put
  <2> HIDE DEF o
  <2>3. IsRecord(u) /\ u.overlays = o /\ u.counters = c /\ u.sent = t.sent
    BY DEF IsRecord
  <2> HIDE DEF u
  <2>4. OverlaysOK(o)
    BY <1>2, <2>2 DEF TrackerOK, OverlaysOK
  <2>5. CountersOK(u)
    <3>1. DOMAIN c \subseteq Node \X Stream
      BY <1>0, <1>4
    <3>2. ASSUME NEW m \in Node, NEW x \in Stream, <<m, x>> \in DOMAIN c
          PROVE  x \in DOMAIN o /\ (c[<<m, x>>] > 0 => m \in DOMAIN o[x])
      <4>1. <<m, x>> \in DOMAIN t.counters /\ m # n /\ c[<<m, x>>] = t.counters[<<m, x>>]
        BY <1>4, <3>2
      <4>2. /\ x \in DOMAIN t.overlays
            /\ t.counters[<<m, x>>] > 0 => m \in DOMAIN t.overlays[x]
        BY <4>1 DEF TrackerOK, CountersOK
      <4> QED BY <1>2, <2>2, <4>1, <4>2 DEF g
    <3> QED BY <1>4, <2>3, <3>1, <3>2 DEF CountersOK
  <2>6. TrackerOK(u)
    BY <2>3, <2>4, <2>5 DEF TrackerOK
  <2> QED BY <1>7, <2>1, <2>2, <2>3, <2>6
<1>8. h = Without(g, n) /\ mine = LeftBehind(g, n)
  BY DEF h, mine, Without, LeftBehind
<1>9. DOMAIN h # {} => \E u : LeftBy(t, n, s, u) /\ v \in FormAndSendToEach(u, mine, s)
  BY <1>7, <1>8 DEF LeftBy, g
<1>10. DOMAIN h = {} => Removes(t, s, v)
  BY <1>6 DEF Removes
<1> QED BY <1>2, <1>3, <1>8, <1>9, <1>10 DEF g

\* leaveAndCheckEmptyOverlay takes a node out of an overlay, which goes away with the
\* last one.
LEMMA LeaveAndCheckKeeps ==
    ASSUME NEW t, TrackerOK(t), NEW n \in Node, NEW s \in DOMAIN t.overlays,
           NEW v \in LeaveAndCheckEmptyOverlay(t, n, s)
    PROVE  TrackerOK(v) /\ Leaves(t, v, n, {s})
<1> DEFINE g == t.overlays[s]
           h == Without(g, n)
<1>1. DOMAIN h = DOMAIN g \ {n}
  BY LeaveInParts
<1>2. s \in Stream
  BY DEF TrackerOK, OverlaysOK
<1>3. CASE DOMAIN h = {}
  <2>1. Removes(t, s, v)
    BY <1>3, LeaveInParts
  <2> HIDE DEF h
  <2> QED BY <1>1, <1>3, <2>1 DEF Leaves, Removes
<1>4. CASE DOMAIN h # {}
  <2>1. PICK u : LeftBy(t, n, s, u) /\ v \in FormAndSendToEach(u, LeftBehind(g, n), s)
    BY <1>4, LeaveInParts
  <2>2. LeftBehind(g, n) \subseteq Node /\ IsFiniteSet(LeftBehind(g, n))
    BY LeaveInParts
  <2>3. TrackerOK(v) /\ Rewires(u, v, {s})
    BY <1>2, <2>1, <2>2, FormAndSendToEachKeeps DEF LeftBy
  <2> HIDE DEF h
  <2>4. /\ DOMAIN v.overlays = DOMAIN t.overlays
        /\ \A x \in DOMAIN t.overlays \ {s} : v.overlays[x] = t.overlays[x]
        /\ DOMAIN v.overlays[s] = DOMAIN h
    BY <2>1, <2>3 DEF Rewires, LeftBy, h
  <2> QED BY <1>1, <1>4, <2>3, <2>4 DEF Leaves
<1> QED BY <1>3, <1>4

\* The turns of removeNode and of updateNode: each of the streams has one.
LeavesInTurn(t, n, S, v, N, order, reached) ==
    /\ reached[0] = {t}
    /\ \A i \in 1 .. N : order[i] \in S
    /\ \A x \in S : \E i \in 1 .. N : order[i] = x
    /\ \A i, j \in 1 .. N : order[i] = order[j] => i = j
    /\ \A i \in 1 .. N : \A w \in reached[i] : \E u \in reached[i - 1] :
          w \in LeaveAndCheckEmptyOverlay(u, n, order[i])
    /\ v \in reached[N]

\* removeNode and updateNode take their turns.
LEMMA LeaveAllTurns ==
    ASSUME NEW t, NEW n, NEW S, S \subseteq Stream, NEW v, v \in LeaveAll(t, n, S)
    PROVE  \E N, order, reached : N \in Nat /\ LeavesInTurn(t, n, S, v, N, order, reached)
<1> DEFINE order == SetToSeq(S)
           N == Len(order)
           reached[i \in 0 .. N] ==
             IF i = 0 THEN {t}
             ELSE UNION {LeaveAndCheckEmptyOverlay(u, n, order[i]) : u \in reached[i - 1]}
<1>1. v \in reached[N]
  <2>1. LeaveAll(t, n, S) = reached[N]
    BY DEF LeaveAll, InTurn
  <2> QED BY <2>1
<1>2. /\ N \in Nat /\ \A i \in 1 .. N : order[i] \in S
      /\ \A x \in S : \E i \in 1 .. N : order[i] = x
      /\ \A i, j \in 1 .. N : order[i] = order[j] => i = j
  <2>1. IsFiniteSet(S)
    BY StreamAssumption, FS_Subset
  <2> QED BY <2>1, OrderOfSet
<1> DEFINE D(R, i) == UNION {LeaveAndCheckEmptyOverlay(u, n, order[i]) : u \in R}
           P(f, k) == f = [i \in 0 .. k |-> IF i = 0 THEN {t} ELSE D(f[i - 1], i)]
           S0 == {k \in 0 .. N : \E f : P(f, k)}
<1>3. 0 \in S0
  <2> DEFINE f == [i \in 0 .. 0 |-> {t}]
  <2> HIDE DEF D, N
  <2>1. P(f, 0)
    OBVIOUS
  <2> HIDE DEF P, f
  <2> QED BY <1>2, <2>1
<1>4. ASSUME NEW k \in 1 .. N, k - 1 \in S0 PROVE k \in S0
  <2> HIDE DEF D, N
  <2>1. PICK f : P(f, k - 1)
    BY <1>4
  <2> DEFINE g == [i \in 0 .. k |-> IF i = k THEN D(f[k - 1], i) ELSE f[i]]
  <2>2. /\ \A i \in 0 .. k - 1 : f[i] = IF i = 0 THEN {t} ELSE D(f[i - 1], i)
        /\ f = [i \in 0 .. k - 1 |-> f[i]]
    BY <2>1, Zenon
  <2>3. ASSUME NEW i \in 0 .. k PROVE g[i] = IF i = 0 THEN {t} ELSE D(g[i - 1], i)
    <3>1. CASE i = k
      <4>1. i # 0 /\ i - 1 \in 0 .. k /\ i - 1 # k /\ i - 1 = k - 1
        BY <3>1
      <4>2. g[i] = D(f[k - 1], i) /\ g[i - 1] = f[i - 1]
        BY <3>1, <4>1, Zenon
      <4> QED BY <4>1, <4>2, Zenon
    <3>2. CASE i # k
      <4>1. i \in 0 .. k - 1 /\ g[i] = f[i]
        BY <3>2
      <4>2. i # 0 => i - 1 \in 0 .. k /\ i - 1 # k
        BY <3>2
      <4>3. i # 0 => g[i - 1] = f[i - 1]
        BY <4>2, Zenon
      <4> QED BY <2>2, <4>1, <4>3, Zenon
    <3> QED BY <3>1, <3>2
  <2> HIDE DEF g
  <2>4. g = [i \in 0 .. k |-> g[i]]
    BY DEF g
  <2>5. P(g, k)
    BY <2>3, <2>4, Zenon
  <2> HIDE DEF P
  <2> QED BY <1>2, <2>5
<1> HIDE DEF N
<1>5. N \in S0
  <2> HIDE DEF S0
  <2> QED BY <1>2, <1>3, <1>4, LoopInduction
<1>6. P(reached, N)
  <2>1. \E f : P(f, N)
    BY <1>5
  <2> QED BY <2>1, Zenon
<1> HIDE DEF reached
<1>7. /\ reached[0] = {t}
      /\ \A i \in 1 .. N : reached[i] = D(reached[i - 1], i)
  <2> HIDE DEF D
  <2>1. \A i \in 0 .. N : reached[i] = IF i = 0 THEN {t} ELSE D(reached[i - 1], i)
    BY <1>6, Zenon
  <2> QED BY <1>2, <2>1
<1>8. ASSUME NEW i \in 1 .. N, NEW w \in reached[i]
      PROVE  \E u \in reached[i - 1] : w \in LeaveAndCheckEmptyOverlay(u, n, order[i])
  <2>1. reached[i] = D(reached[i - 1], i)
    BY <1>7
  <2> QED BY <2>1
<1> HIDE DEF order
<1> HIDE DEF N
<1>9. LeavesInTurn(t, n, S, v, N, order, reached)
  BY <1>1, <1>2, <1>7, <1>8 DEF LeavesInTurn
<1> QED BY <1>2, <1>9

\* removeNode, and the second half of updateNode
LEMMA LeaveAllKeeps ==
    ASSUME NEW t, TrackerOK(t), NEW n \in Node, NEW S \in SUBSET DOMAIN t.overlays,
           NEW v \in LeaveAll(t, n, S)
    PROVE  TrackerOK(v) /\ Leaves(t, v, n, S)
<1>1. PICK N, order, reached : N \in Nat /\ LeavesInTurn(t, n, S, v, N, order, reached)
  <2>1. S \subseteq Stream /\ v \in LeaveAll(t, n, S)
    BY DEF TrackerOK, OverlaysOK
  <2> QED BY <2>1, LeaveAllTurns
<1> N \in Nat
  BY <1>1
<1>2. /\ reached[0] = {t}
      /\ \A i \in 1 .. N : order[i] \in S
      /\ \A x \in S : \E i \in 1 .. N : order[i] = x
      /\ \A i, j \in 1 .. N : order[i] = order[j] => i = j
      /\ \A i \in 1 .. N : \A w \in reached[i] : \E u \in reached[i - 1] :
            w \in LeaveAndCheckEmptyOverlay(u, n, order[i])
      /\ v \in reached[N]
  BY <1>1 DEF LeavesInTurn
<1> DEFINE Done(k) == {order[i] : i \in 1 .. k}
           Good == {k \in 0 .. N :
                      \A u \in reached[k] : TrackerOK(u) /\ Leaves(t, u, n, Done(k))}
<1>3. 0 \in Good
  <2>1. Done(0) = {}
    OBVIOUS
  <2>2. Leaves(t, t, n, Done(0))
    BY <2>1 DEF Leaves
  <2> HIDE DEF Done
  <2>3. \A u \in reached[0] : TrackerOK(u) /\ Leaves(t, u, n, Done(0))
    BY <1>2, <2>2
  <2> QED BY <1>2, <2>3
<1>4. ASSUME NEW i \in 1 .. N, i - 1 \in Good PROVE i \in Good
  <2> SUFFICES ASSUME NEW w \in reached[i] PROVE TrackerOK(w) /\ Leaves(t, w, n, Done(i))
    OBVIOUS
  <2>1. PICK u \in reached[i - 1] : w \in LeaveAndCheckEmptyOverlay(u, n, order[i])
    BY <1>2
  <2>2. TrackerOK(u) /\ Leaves(t, u, n, Done(i - 1))
    BY <1>4
  <2>3. order[i] \notin Done(i - 1)
    BY <1>2
  <2>4. order[i] \in DOMAIN u.overlays
    BY <1>2, <2>2, <2>3 DEF Leaves
  <2>5. TrackerOK(w) /\ Leaves(u, w, n, {order[i]})
    BY <2>1, <2>2, <2>4, LeaveAndCheckKeeps
  <2>6. Done(i) = Done(i - 1) \cup {order[i]}
    OBVIOUS
  <2> HIDE DEF Done
  <2> QED BY <2>2, <2>5, <2>6, LeavesTransitive
<1>5. N \in Good
  <2> HIDE DEF Good
  <2> QED BY <1>3, <1>4, LoopInduction
<1>6. Done(N) = S
  BY <1>2
<1> HIDE DEF Done
<1> QED BY <1>2, <1>5, <1>6

-----------------------------------------------------------------------------
(***************************************************************************)
(* What a status comes to                                                  *)
(***************************************************************************)
Members(o, s) == IF s \in DOMAIN o THEN DOMAIN o[s] ELSE {}

Occupied(o) == \A s \in DOMAIN o : DOMAIN o[s] # {}

\* Statuses that nodes send: of a single stream, or of all those of the node.
StatusOK(reports, singleStream) ==
    /\ DOMAIN reports \subseteq Stream
    /\ IsFiniteSet(DOMAIN reports)
    /\ singleStream \in BOOLEAN
    /\ singleStream => \E s \in Stream : DOMAIN reports = {s}
    /\ \A s \in DOMAIN reports :
          \/ reports[s].counter \in Nat
          \/ singleStream /\ reports[s].counter = Unsubscribed

Departs(s, reports, singleStream) ==
    IF s \in DOMAIN reports THEN reports[s].counter = Unsubscribed ELSE ~ singleStream

Joins(s, reports) == s \in DOMAIN reports /\ reports[s].counter # Unsubscribed

\* The members of the overlays after the status
MembersAfter(o, p, n, reports, singleStream) ==
    \A s : Members(p, s) = IF Joins(s, reports) THEN Members(o, s) \cup {n}
                           ELSE IF Departs(s, reports, singleStream) THEN Members(o, s) \ {n}
                           ELSE Members(o, s)

\* n is in the overlays of S, and the other overlays are what they were.
Updates(t, v, n, S) ==
    /\ DOMAIN v.overlays = DOMAIN t.overlays
    /\ \A s \in DOMAIN t.overlays \ S : v.overlays[s] = t.overlays[s]
    /\ \A s \in S : DOMAIN v.overlays[s] = DOMAIN t.overlays[s] \cup {n}

\* The updates of a status add its sender to the overlays of its streams.
LEMMA UpdateOverlaysKeeps ==
    ASSUME NEW t, TrackerOK(t), NEW n \in Node, NEW S, S \subseteq DOMAIN t.overlays,
           NEW reports, NEW v \in {UpdateOverlays(t, n, S, reports)}
    PROVE  TrackerOK(v) /\ Updates(t, v, n, S)
<1> DEFINE o == [s \in DOMAIN t.overlays |->
                   IF s \in S THEN Updated(t.overlays[s], n, reports[s].neighbors)
                   ELSE t.overlays[s]]
<1>1. v = [overlays |-> o, counters |-> t.counters, sent |-> t.sent]
  <2>1. v = [t EXCEPT !.overlays = o]
    BY DEF UpdateOverlays
  <2>2. IsRecord(t)
    BY DEF TrackerOK
  <2> HIDE DEF o
  <2> QED BY <2>1, <2>2 DEF IsRecord
<1>2. ASSUME NEW s \in S PROVE Sound(o[s]) /\ DOMAIN o[s] = DOMAIN t.overlays[s] \cup {n}
  <2> DEFINE g == t.overlays[s]
             h == Updated(g, n, reports[s].neighbors)
  <2>1. o[s] = h
    OBVIOUS
  <2>2. Sound(g)
    BY DEF TrackerOK, OverlaysOK
  <2> HIDE DEF g, o
  <2>3. WellFormed(h) /\ DOMAIN h = DOMAIN g \cup {n}
    BY <2>2, UpdatedWellFormed DEF Sound
  <2>4. IsFiniteSet(DOMAIN h)
    BY <2>2, <2>3, FS_AddElement DEF Sound, FiniteGraph
  <2> QED BY <2>1, <2>3, <2>4 DEF Sound, FiniteGraph, g
<1>3. /\ DOMAIN o = DOMAIN t.overlays /\ o = [s \in DOMAIN o |-> o[s]]
      /\ \A s \in DOMAIN t.overlays \ S : o[s] = t.overlays[s]
  OBVIOUS
<1> HIDE DEF o
<1>4. IsRecord(v) /\ v.overlays = o /\ v.counters = t.counters /\ v.sent = t.sent
  BY <1>1 DEF IsRecord
<1>5. OverlaysOK(o)
  <2>1. \A s \in DOMAIN o : Sound(o[s])
    BY <1>2, <1>3 DEF TrackerOK, OverlaysOK
  <2> QED BY <1>3, <2>1 DEF TrackerOK, OverlaysOK
<1>6. CountersOK(v)
  <2>1. ASSUME NEW m \in Node, NEW x \in Stream, <<m, x>> \in DOMAIN t.counters
        PROVE  x \in DOMAIN o /\ (t.counters[<<m, x>>] > 0 => m \in DOMAIN o[x])
    <3>1. /\ x \in DOMAIN t.overlays
          /\ t.counters[<<m, x>>] > 0 => m \in DOMAIN t.overlays[x]
      BY <2>1 DEF TrackerOK, CountersOK
    <3> QED BY <1>2, <1>3, <3>1
  <2> QED BY <1>4, <2>1 DEF TrackerOK, CountersOK
<1>7. TrackerOK(v)
  BY <1>4, <1>5, <1>6 DEF TrackerOK
<1> QED BY <1>2, <1>3, <1>4, <1>7 DEF Updates

\* The overlays are created and the counters set for the streams of the status.
LEMMA CreatedKeeps ==
    ASSUME NEW t, TrackerOK(t), NEW n \in Node, NEW S \in SUBSET Stream,
           NEW v, v = [overlays |-> CreateNewOverlayTopologies(t.overlays, S),
                       counters |-> SetIfNecessary(t.counters, n, S),
                       sent     |-> t.sent]
    PROVE  /\ TrackerOK(v)
           /\ DOMAIN v.overlays = DOMAIN t.overlays \cup S
           /\ \A s \in DOMAIN t.overlays : v.overlays[s] = t.overlays[s]
           /\ \A s \in S \ DOMAIN t.overlays : DOMAIN v.overlays[s] = {}
<1> DEFINE o == CreateNewOverlayTopologies(t.overlays, S)
           c == SetIfNecessary(t.counters, n, S)
<1>1. v = [overlays |-> o, counters |-> c, sent |-> t.sent]
  OBVIOUS
<1>2. /\ t.counters \in [DOMAIN t.counters -> Nat]
      /\ DOMAIN t.counters \subseteq Node \X Stream
  BY DEF TrackerOK, CountersOK
<1>3. /\ c = [p \in DOMAIN t.counters \cup ({n} \X S) |->
                IF p \in DOMAIN t.counters THEN t.counters[p] ELSE 0]
      /\ DOMAIN c = DOMAIN t.counters \cup ({n} \X S)
  <2>1. ASSUME NEW p \in DOMAIN t.counters \cup ({n} \X S)
        PROVE  CounterOf(t.counters, p[1], p[2])
                 = IF p \in DOMAIN t.counters THEN t.counters[p] ELSE 0
    <3>1. p = <<p[1], p[2]>>
      BY <1>2
    <3> QED BY <3>1 DEF CounterOf
  <2> QED BY <2>1 DEF SetIfNecessary
<1>4. /\ o = [s \in DOMAIN t.overlays \cup S |->
                IF s \in DOMAIN t.overlays THEN t.overlays[s] ELSE EmptyGraph]
      /\ DOMAIN o = DOMAIN t.overlays \cup S
  BY DEF CreateNewOverlayTopologies
<1> HIDE DEF o, c
<1>5. IsRecord(v) /\ v.overlays = o /\ v.counters = c /\ v.sent = t.sent
  BY <1>1 DEF IsRecord
<1>6. Sound(EmptyGraph) /\ DOMAIN EmptyGraph = {}
  BY FS_EmptySet DEF EmptyGraph, Sound, WellFormed, IsGraph, SymmetricGraph,
                     IrreflexiveGraph, FiniteGraph
<1>7. OverlaysOK(o)
  BY <1>4, <1>6 DEF TrackerOK, OverlaysOK
<1>8. CountersOK(v)
  <2>1. c \in [DOMAIN c -> Nat] /\ DOMAIN c \subseteq Node \X Stream
    BY <1>2, <1>3
  <2>2. ASSUME NEW m \in Node, NEW x \in Stream, <<m, x>> \in DOMAIN c
        PROVE  x \in DOMAIN o /\ (c[<<m, x>>] > 0 => m \in DOMAIN o[x])
    <3>1. CASE <<m, x>> \in DOMAIN t.counters
      <4>1. /\ x \in DOMAIN t.overlays
            /\ t.counters[<<m, x>>] > 0 => m \in DOMAIN t.overlays[x]
        BY <3>1 DEF TrackerOK, CountersOK
      <4>2. c[<<m, x>>] = t.counters[<<m, x>>]
        BY <1>3, <3>1
      <4> QED BY <1>4, <4>1, <4>2
    <3>2. CASE <<m, x>> \notin DOMAIN t.counters
      <4>1. x \in S /\ c[<<m, x>>] = 0
        BY <1>3, <2>2, <3>2
      <4> QED BY <1>4, <4>1
    <3> QED BY <3>1, <3>2
  <2> QED BY <1>5, <2>1, <2>2 DEF CountersOK
<1>9. TrackerOK(v)
  BY <1>5, <1>7, <1>8 DEF TrackerOK
<1> QED BY <1>4, <1>5, <1>6, <1>9

\* The first lines of processNodeStatus: the overlays and the counters of the streams
\* of a status exist.
Prepared(n, S) == [overlays |-> CreateNewOverlayTopologies(overlayPerStream, S),
                   counters |-> SetIfNecessary(counters, n, S),
                   sent     |-> NoSends]

\* The parts of processNodeStatus
LEMMA StatusInParts ==
    ASSUME TrackerOK(State), NEW n \in Node, NEW reports, NEW singleStream,
           StatusOK(reports, singleStream), NEW v \in StatusOutcomes(n, reports, singleStream)
    PROVE  LET S == DOMAIN reports
               F == FilteredStreams(counters, n, reports)
               t == Prepared(n, S)
               o == overlayPerStream
           IN  /\ TrackerOK(t)
               /\ DOMAIN t.overlays = DOMAIN o \cup S
               /\ \A s \in DOMAIN o : t.overlays[s] = o[s]
               /\ \A s \in S \ DOMAIN o : DOMAIN t.overlays[s] = {}
               /\ \E u \in IF singleStream THEN UpdateNodeOnStream(t, n, F, reports)
                           ELSE UpdateNode(t, n, F, reports) :
                     v \in FormAndSendAll(u, n, S)
<1> DEFINE S == DOMAIN reports
           F == FilteredStreams(counters, n, reports)
           t == Prepared(n, S)
           o == overlayPerStream
<1>1. /\ State.overlays = o /\ State.counters = counters /\ State.sent = NoSends
      /\ [State EXCEPT !.counters = SetIfNecessary(counters, n, S),
                       !.overlays = CreateNewOverlayTopologies(overlayPerStream, S)] = t
  <2> DEFINE c == SetIfNecessary(counters, n, S)
             p == CreateNewOverlayTopologies(overlayPerStream, S)
  <2> HIDE DEF c, p
  <2>0. PICK z, w : z = State /\ w = [z EXCEPT !.counters = c, !.overlays = p]
    OBVIOUS
  <2>1. [State EXCEPT !.counters = c, !.overlays = p]
          = [overlays |-> p, counters |-> c, sent |-> NoSends]
    <3>1. IsRecord(z) /\ z.sent = NoSends
      BY <2>0 DEF State, IsRecord
    <3>2. w = [overlays |-> p, counters |-> c, sent |-> z.sent]
      BY <2>0, <3>1 DEF IsRecord
    <3> QED BY <2>0, <3>1, <3>2
  <2> QED BY <2>1 DEF State, Prepared, c, p
<1>2. S \subseteq Stream /\ F \subseteq S
  BY DEF StatusOK, FilteredStreams
<1>3. /\ TrackerOK(t)
      /\ DOMAIN t.overlays = DOMAIN o \cup S
      /\ \A s \in DOMAIN o : t.overlays[s] = o[s]
      /\ \A s \in S \ DOMAIN o : DOMAIN t.overlays[s] = {}
  <2>1. t = [overlays |-> CreateNewOverlayTopologies(State.overlays, S),
             counters |-> SetIfNecessary(State.counters, n, S),
             sent     |-> State.sent]
    BY <1>1 DEF Prepared
  <2>2. PICK w, S0 : w = State /\ S0 = S
    OBVIOUS
  <2>3. TrackerOK(w) /\ S0 \in SUBSET Stream /\ w.overlays = o /\ w.counters = counters
    BY <1>1, <1>2, <2>2
  <2>4. t = [overlays |-> CreateNewOverlayTopologies(w.overlays, S0),
             counters |-> SetIfNecessary(w.counters, n, S0),
             sent     |-> w.sent]
    BY <2>1, <2>2
  <2> HIDE DEF t
  <2>5. /\ TrackerOK(t)
        /\ DOMAIN t.overlays = DOMAIN w.overlays \cup S0
        /\ \A s \in DOMAIN w.overlays : t.overlays[s] = w.overlays[s]
        /\ \A s \in S0 \ DOMAIN w.overlays : DOMAIN t.overlays[s] = {}
    BY <2>3, <2>4, CreatedKeeps
  <2> QED BY <2>2, <2>3, <2>5
<1>4. \E u \in IF singleStream THEN UpdateNodeOnStream(t, n, F, reports)
               ELSE UpdateNode(t, n, F, reports) :
          v \in FormAndSendAll(u, n, S)
  <2> DEFINE R == IF singleStream THEN UpdateNodeOnStream(t, n, F, reports)
                  ELSE UpdateNode(t, n, F, reports)
  <2>1. StatusOutcomes(n, reports, singleStream)
          = UNION {FormAndSendAll(u, n, S) : u \in R}
    BY <1>1, Zenon DEF StatusOutcomes
  <2> HIDE DEF R
  <2>2. PICK u \in R : v \in FormAndSendAll(u, n, S)
    BY <2>1
  <2> QED BY <2>2 DEF R
<1> HIDE DEF t, S, F
<1> QED BY <1>3, <1>4 DEF t, S, F

\* processNodeStatus: who is in which overlay is settled before instructions are
\* formed, and the overlays of streams whose report is too old are not updated.
LEMMA StatusEffect ==
    ASSUME TrackerOK(State), Occupied(overlayPerStream),
           NEW n \in Node, NEW reports, NEW singleStream, StatusOK(reports, singleStream),
           NEW v \in StatusOutcomes(n, reports, singleStream)
    PROVE  /\ TrackerOK(v)
           /\ \E u : /\ Rewires(u, v, DOMAIN reports)
                     /\ FormedFor(u, v, n)
                     /\ MembersAfter(overlayPerStream, u.overlays, n, reports, singleStream)
                     /\ Occupied(u.overlays)
                     /\ \A s \in (DOMAIN reports \cap DOMAIN overlayPerStream)
                                   \ FilteredStreams(counters, n, reports) :
                           s \in DOMAIN u.overlays /\ u.overlays[s] = overlayPerStream[s]
<1> DEFINE S == DOMAIN reports
           F == FilteredStreams(counters, n, reports)
           t == Prepared(n, S)
           o == overlayPerStream
           Unbelieved(p) == \A s \in (S \cap DOMAIN o) \ F : s \in DOMAIN p /\ p[s] = o[s]
           Settled(p) == /\ MembersAfter(o, p, n, reports, singleStream)
                         /\ Occupied(p)
                         /\ Unbelieved(p)
<1>1. State.overlays = o /\ State.counters = counters
  BY DEF State
<1>2. S \subseteq Stream /\ F \subseteq S
  BY DEF StatusOK, FilteredStreams
<1>3. /\ TrackerOK(t)
      /\ DOMAIN t.overlays = DOMAIN o \cup S
      /\ \A s \in DOMAIN o : t.overlays[s] = o[s]
      /\ \A s \in S \ DOMAIN o : DOMAIN t.overlays[s] = {}
  BY StatusInParts
<1>4. PICK u \in IF singleStream THEN UpdateNodeOnStream(t, n, F, reports)
                 ELSE UpdateNode(t, n, F, reports) :
          v \in FormAndSendAll(u, n, S)
  BY StatusInParts
<1> HIDE DEF t
<1>5. ASSUME NEW s \in S \ F
      PROVE  Joins(s, reports) /\ s \in DOMAIN o /\ n \in DOMAIN o[s]
  <2>1. /\ ~ (reports[s].counter >= CounterOf(counters, n, s))
        /\ reports[s].counter # Unsubscribed
    BY DEF FilteredStreams
  <2>2. reports[s].counter \in Nat
    BY <2>1 DEF StatusOK
  <2>3. /\ counters \in [DOMAIN counters -> Nat]
        /\ \A m \in Node, x \in Stream :
              <<m, x>> \in DOMAIN counters =>
                  x \in DOMAIN o /\ (counters[<<m, x>>] > 0 => m \in DOMAIN o[x])
    BY <1>1 DEF TrackerOK, CountersOK
  <2>4. <<n, s>> \in DOMAIN counters
    BY <2>1, <2>2 DEF CounterOf
  <2>5. counters[<<n, s>>] > 0
    BY <2>1, <2>2, <2>3, <2>4 DEF CounterOf
  <2> QED BY <1>2, <2>1, <2>3, <2>4, <2>5 DEF Joins
<1>6. TrackerOK(u) /\ Settled(u.overlays)
  <2>1. CASE singleStream
    <3>1. PICK s \in Stream : S = {s}
      BY <2>1 DEF StatusOK
    <3>2. u \in UpdateNodeOnStream(t, n, F, reports)
      BY <1>4, <2>1
    <3>3. CASE F = {}
      <4>1. u = t
        BY <3>2, <3>3, FS_EmptySet DEF UpdateNodeOnStream
      <4>2. Joins(s, reports) /\ s \in DOMAIN o /\ n \in DOMAIN o[s]
        BY <1>5, <3>1, <3>3
      <4>3. \A x : Joins(x, reports) \/ Departs(x, reports, singleStream) => x = s
        BY <2>1, <3>1 DEF Joins, Departs
      <4>4. DOMAIN u.overlays = DOMAIN o /\ \A x \in DOMAIN o : u.overlays[x] = o[x]
        BY <1>3, <3>1, <4>1, <4>2
      <4>5. \A x : Members(u.overlays, x) = Members(o, x)
        BY <4>4 DEF Members
      <4>6. Members(o, s) \cup {n} = Members(o, s)
        BY <4>2 DEF Members
      <4>7. MembersAfter(o, u.overlays, n, reports, singleStream)
        BY <4>2, <4>3, <4>5, <4>6 DEF MembersAfter
      <4> QED BY <1>3, <4>1, <4>4, <4>7 DEF Occupied
    <3>4. CASE F = {s}
      <4>1. Cardinality(F) = 1 /\ (CHOOSE x \in F : TRUE) = s
        BY <3>4, FS_Singleton
      <4>2. u \in IF reports[s].counter = Unsubscribed THEN LeaveAndCheckEmptyOverlay(t, n, s)
                  ELSE {UpdateOverlays(t, n, {s}, reports)}
        BY <3>2, <4>1 DEF UpdateNodeOnStream
      <4>3. s \in DOMAIN t.overlays /\ (S \cap DOMAIN o) \ F = {}
        BY <1>3, <3>1, <3>4
      <4>4. CASE reports[s].counter = Unsubscribed
        <5>1. TrackerOK(u) /\ Leaves(t, u, n, {s})
          BY <1>3, <4>2, <4>3, <4>4, LeaveAndCheckKeeps
        <5>2. /\ \A x : ~ Joins(x, reports)
              /\ \A x : Departs(x, reports, singleStream) <=> x = s
          BY <2>1, <3>1, <4>4 DEF Joins, Departs
        <5>3. Members(u.overlays, s) = Members(o, s) \ {n}
          BY <1>3, <3>1, <5>1 DEF Leaves, Members
        <5>4. ASSUME NEW x, x # s PROVE Members(u.overlays, x) = Members(o, x)
          BY <1>3, <3>1, <5>1, <5>4 DEF Leaves, Members
        <5>5. Occupied(u.overlays)
          BY <1>3, <3>1, <5>1 DEF Leaves, Occupied
        <5>6. MembersAfter(o, u.overlays, n, reports, singleStream)
          BY <5>2, <5>3, <5>4 DEF MembersAfter
        <5> QED BY <4>3, <5>1, <5>5, <5>6
      <4>5. CASE reports[s].counter # Unsubscribed
        <5>1. /\ TrackerOK(u)
              /\ DOMAIN u.overlays = DOMAIN t.overlays
              /\ \A x \in DOMAIN t.overlays \ {s} : u.overlays[x] = t.overlays[x]
              /\ DOMAIN u.overlays[s] = DOMAIN t.overlays[s] \cup {n}
          <6>1. u \in {UpdateOverlays(t, n, F, reports)}
            BY <3>4, <4>2, <4>5
          <6>2. F \subseteq DOMAIN t.overlays
            BY <3>4, <4>3
          <6> HIDE DEF F
          <6>3. TrackerOK(u) /\ Updates(t, u, n, F)
            BY <1>3, <6>1, <6>2, UpdateOverlaysKeeps
          <6> QED BY <3>4, <6>3 DEF Updates
        <5>2. /\ \A x : Joins(x, reports) <=> x = s
              /\ \A x : ~ Departs(x, reports, singleStream)
          BY <2>1, <3>1, <4>5 DEF Joins, Departs
        <5>3. Members(u.overlays, s) = Members(o, s) \cup {n}
          BY <1>3, <3>1, <5>1 DEF Members
        <5>4. ASSUME NEW x, x # s PROVE Members(u.overlays, x) = Members(o, x)
          BY <1>3, <3>1, <5>1, <5>4 DEF Members
        <5>5. Occupied(u.overlays)
          BY <1>3, <3>1, <5>1 DEF Occupied
        <5>6. MembersAfter(o, u.overlays, n, reports, singleStream)
          BY <5>2, <5>3, <5>4 DEF MembersAfter
        <5> QED BY <4>3, <5>1, <5>5, <5>6
      <4> QED BY <4>4, <4>5
    <3> QED BY <1>2, <3>1, <3>3, <3>4
  <2>2. CASE ~ singleStream
    <3>1. PICK w \in {UpdateOverlays(t, n, F, reports)} :
             u \in LeaveAll(w, n, DOMAIN w.overlays \ S)
      BY <1>4, <2>2 DEF UpdateNode
    <3>2. TrackerOK(w) /\ Updates(t, w, n, F)
      <4>1. F \subseteq DOMAIN t.overlays
        BY <1>2, <1>3
      <4> HIDE DEF F
      <4> QED BY <1>3, <4>1, UpdateOverlaysKeeps
    <3> HIDE DEF F
    <3>3. TrackerOK(u) /\ Leaves(w, u, n, DOMAIN w.overlays \ S)
      BY <3>1, <3>2, LeaveAllKeeps
    <3>4. \A s : /\ Joins(s, reports) <=> s \in S
                 /\ Departs(s, reports, singleStream) <=> s \notin S
      BY <2>2 DEF StatusOK, Joins, Departs, Unsubscribed
    <3>5. ASSUME NEW s \in S
          PROVE  /\ s \in DOMAIN u.overlays /\ u.overlays[s] = w.overlays[s]
                 /\ DOMAIN u.overlays[s] = Members(o, s) \cup {n}
      <4>1. s \in DOMAIN u.overlays /\ u.overlays[s] = w.overlays[s]
        BY <1>3, <3>2, <3>3 DEF Leaves, Updates
      <4>2. CASE s \in F
        BY <1>3, <3>2, <4>1, <4>2 DEF Members, Updates
      <4>3. CASE s \notin F
        BY <1>3, <1>5, <3>2, <4>1, <4>3 DEF Members, Updates
      <4> QED BY <4>1, <4>2, <4>3
    <3>6. ASSUME NEW s, s \notin S
          PROVE  /\ Members(u.overlays, s) = Members(o, s) \ {n}
                 /\ s \in DOMAIN u.overlays => DOMAIN u.overlays[s] # {}
      <4>1. s \in DOMAIN w.overlays <=> s \in DOMAIN o
        BY <1>3, <3>2, <3>6 DEF Updates
      <4>2. s \in DOMAIN o => w.overlays[s] = o[s]
        BY <1>2, <1>3, <3>2, <3>6 DEF Updates
      <4> QED BY <3>3, <3>6, <4>1, <4>2 DEF Leaves, Members
    <3>7. MembersAfter(o, u.overlays, n, reports, singleStream)
      <4>1. \A s \in S : Members(u.overlays, s) = Members(o, s) \cup {n}
        BY <3>5 DEF Members
      <4> QED BY <3>4, <3>6, <4>1 DEF MembersAfter
    <3>8. Occupied(u.overlays)
      BY <3>5, <3>6 DEF Occupied
    <3>9. Unbelieved(u.overlays)
      BY <1>3, <3>2, <3>5 DEF Updates
    <3> QED BY <3>3, <3>7, <3>8, <3>9
  <2> QED BY <2>1, <2>2
<1>7. TrackerOK(v) /\ Rewires(u, v, S) /\ FormedFor(u, v, n)
  BY <1>2, <1>4, <1>6, FormAndSendAllKeeps, FormAndSendAllForms
<1> QED BY <1>6, <1>7

-----------------------------------------------------------------------------
(***************************************************************************)
(* What is in flight                                                       *)
(***************************************************************************)
StreamState == [neighbors : SUBSET Node, counter : Nat]

IsStreamManager(ss) == ss \in [DOMAIN ss -> StreamState] /\ DOMAIN ss \subseteq Stream

Report == [neighbors : SUBSET Node, counter : Nat \cup {Unsubscribed}]

StatusType ==
    {st \in [reports : UNION {[D -> Report] : D \in SUBSET Stream}, singleStream : BOOLEAN] :
        StatusOK(st.reports, st.singleStream)}

\* The status says whether its sender is in the stream.
Concerns(st, s) == ~ st.singleStream \/ s \in DOMAIN st.reports

Pending(q, s) == {i \in 1 .. Len(q) : Concerns(q[i], s)}

\* The last status on its way, or the overlay if there is none, says of n and s
\* what D, the streams of n, say.
Agreed(q, s, n, members, D) ==
    /\ Pending(q, s) = {} => (n \in members <=> s \in D)
    /\ \A i \in Pending(q, s) :
          (\A j \in Pending(q, s) : j <= i) => (Joins(s, q[i].reports) <=> s \in D)

\* A full status says of every stream whether the node is in it.
LEMMA FullStatusIs ==
    ASSUME NEW ss, IsStreamManager(ss)
    PROVE  /\ FullStatus(ss) \in StatusType
           /\ \A s \in Stream : /\ Concerns(FullStatus(ss), s)
                                /\ Joins(s, FullStatus(ss).reports) <=> s \in DOMAIN ss
<1>1. /\ FullStatus(ss) = [reports |-> ss, singleStream |-> FALSE]
      /\ FullStatus(ss).reports = ss /\ FullStatus(ss).singleStream = FALSE
  BY DEF FullStatus
<1>2. ss \in [DOMAIN ss -> Report] /\ \A s \in DOMAIN ss : ss[s].counter \in Nat
  BY DEF IsStreamManager, StreamState, Report
<1>3. ss \in UNION {[D -> Report] : D \in SUBSET Stream}
  BY <1>2 DEF IsStreamManager
<1>4. IsFiniteSet(DOMAIN ss)
  BY StreamAssumption, FS_Subset DEF IsStreamManager
<1>5. StatusOK(ss, FALSE)
  BY <1>2, <1>4 DEF StatusOK, IsStreamManager
<1>6. FullStatus(ss) \in StatusType
  BY <1>1, <1>3, <1>5 DEF StatusType
<1>7. ASSUME NEW s \in Stream PROVE Joins(s, ss) <=> s \in DOMAIN ss
  BY <1>2 DEF Joins, Unsubscribed
<1> QED BY <1>1, <1>6, <1>7 DEF Concerns

\* The status of a stream says whether the node is in it, and nothing of others.
LEMMA StreamStatusIs ==
    ASSUME NEW ss, IsStreamManager(ss), NEW s \in Stream
    PROVE  /\ StreamStatus(ss, s) \in StatusType
           /\ \A x \in Stream : Concerns(StreamStatus(ss, s), x) <=> x = s
           /\ Joins(s, StreamStatus(ss, s).reports) <=> s \in DOMAIN ss
<1> DEFINE r == [x \in {s} |-> IF s \in DOMAIN ss THEN ss[s] ELSE Departure]
<1>1. /\ StreamStatus(ss, s) = [reports |-> r, singleStream |-> TRUE]
      /\ StreamStatus(ss, s).reports = r /\ StreamStatus(ss, s).singleStream = TRUE
  BY DEF StreamStatus
<1>2. DOMAIN r = {s} /\ r[s] = IF s \in DOMAIN ss THEN ss[s] ELSE Departure
  OBVIOUS
<1>3. r \in [{s} -> Report]
  BY DEF IsStreamManager, StreamState, Report, Departure, Unsubscribed
<1> HIDE DEF r
<1>4. r \in UNION {[D -> Report] : D \in SUBSET Stream}
  BY <1>3
<1>5. r[s].counter = IF s \in DOMAIN ss THEN ss[s].counter ELSE Unsubscribed
  BY <1>2 DEF Departure
<1>6. s \in DOMAIN ss => ss[s].counter \in Nat
  BY DEF IsStreamManager, StreamState
<1>7. StatusOK(r, TRUE)
  BY <1>2, <1>5, <1>6, FS_Singleton DEF StatusOK
<1>8. StreamStatus(ss, s) \in StatusType
  BY <1>1, <1>4, <1>7 DEF StatusType
<1>9. Joins(s, r) <=> s \in DOMAIN ss
  BY <1>2, <1>5, <1>6 DEF Joins, Unsubscribed
<1> QED BY <1>1, <1>2, <1>8, <1>9 DEF Concerns

\* A status that a node sends after a change to its streams keeps the tracker's
\* future view right.
LEMMA AgreedOnAppend ==
    ASSUME NEW q \in Seq(StatusType), NEW st \in StatusType, NEW s, NEW n, NEW members,
           NEW D, NEW E,
           \/ Concerns(st, s) /\ (Joins(s, st.reports) <=> s \in E)
           \/ ~ Concerns(st, s) /\ Agreed(q, s, n, members, D) /\ (s \in D <=> s \in E)
    PROVE  Agreed(Append(q, st), s, n, members, E)
<1> DEFINE N == Len(q)
           r == Append(q, st)
<1>1. /\ N \in Nat /\ Len(r) = N + 1 /\ r[N + 1] = st
      /\ \A i \in 1 .. N : r[i] = q[i]
  OBVIOUS
<1> HIDE DEF r, N
<1>2. CASE Concerns(st, s)
  <2>1. N + 1 \in Pending(r, s) /\ \A i \in Pending(r, s) : i \in 1 .. N + 1
    BY <1>1, <1>2 DEF Pending
  <2>2. ASSUME NEW i \in Pending(r, s), \A j \in Pending(r, s) : j <= i PROVE i = N + 1
    BY <1>1, <2>1, <2>2
  <2> QED BY <1>1, <1>2, <2>1, <2>2 DEF Agreed, r
<1>3. CASE ~ Concerns(st, s)
  <2>1. Pending(r, s) = Pending(q, s)
    BY <1>1, <1>3 DEF Pending, N
  <2>2. \A i \in Pending(q, s) : r[i] = q[i]
    BY <1>1 DEF Pending, N
  <2> QED BY <1>3, <2>1, <2>2 DEF Agreed, r
<1> QED BY <1>2, <1>3

\* The tracker's view stays right when it handles the first status as it says.
LEMMA AgreedOnTail ==
    ASSUME NEW q \in Seq(StatusType), q # <<>>, NEW s, NEW n, NEW members, NEW after, NEW D,
           Agreed(q, s, n, members, D),
           IF Concerns(Head(q), s) THEN n \in after <=> Joins(s, Head(q).reports)
           ELSE n \in after <=> n \in members
    PROVE  Agreed(Tail(q), s, n, after, D)
<1> DEFINE N == Len(q)
           r == Tail(q)
<1>1. /\ N \in Nat /\ N > 0 /\ Len(r) = N - 1 /\ Head(q) = q[1]
      /\ \A i \in 1 .. N - 1 : r[i] = q[i + 1]
  OBVIOUS
<1> HIDE DEF r, N
<1>2. \A i \in Pending(r, s) : i \in Nat /\ i + 1 \in Pending(q, s) /\ r[i] = q[i + 1]
  BY <1>1 DEF Pending, N
<1>3. \A j \in Pending(q, s) : j \in Nat /\ (j = 1 \/ j - 1 \in Pending(r, s))
  BY <1>1 DEF Pending, N
<1>4. ASSUME NEW i \in Pending(r, s), \A j \in Pending(r, s) : j <= i
      PROVE  Joins(s, r[i].reports) <=> s \in D
  <2>1. ASSUME NEW j \in Pending(q, s) PROVE j <= i + 1
    <3>1. CASE j = 1
      BY <1>2, <3>1
    <3>2. CASE j - 1 \in Pending(r, s)
      BY <1>2, <1>3, <1>4, <3>2
    <3> QED BY <1>3, <3>1, <3>2
  <2> QED BY <1>2, <2>1 DEF Agreed
<1>5. ASSUME Pending(r, s) = {} PROVE n \in after <=> s \in D
  <2>1. CASE Concerns(Head(q), s)
    <3>1. 1 \in Pending(q, s)
      BY <1>1, <2>1 DEF Pending, N
    <3>2. \A j \in Pending(q, s) : j <= 1
      BY <1>3, <1>5
    <3>3. Joins(s, q[1].reports) <=> s \in D
      BY <3>1, <3>2 DEF Agreed
    <3> QED BY <1>1, <2>1, <3>3
  <2>2. CASE ~ Concerns(Head(q), s)
    <3>1. Pending(q, s) = {}
      <4> SUFFICES ASSUME NEW j \in Pending(q, s) PROVE FALSE
        OBVIOUS
      <4>1. j = 1
        BY <1>3, <1>5
      <4> QED BY <1>1, <2>2, <4>1 DEF Pending
    <3> QED BY <2>2, <3>1 DEF Agreed
  <2> QED BY <2>1, <2>2
<1> QED BY <1>4, <1>5 DEF Agreed, r

-----------------------------------------------------------------------------
(***************************************************************************)
(* The invariant                                                           *)
(***************************************************************************)
TrackerInv ==
    /\ connected \subseteq Node
    /\ TrackerOK(State)
    /\ sent \in [Node -> Seq(InstructionType)]
    /\ Occupied(overlayPerStream)
    /\ \A s \in DOMAIN overlayPerStream : DOMAIN overlayPerStream[s] \subseteq connected

NodesInv ==
    /\ streams = [n \in Node |-> streams[n]]
    /\ \A n \in Node : IsStreamManager(streams[n])
    /\ toTracker \in [Node -> Seq(StatusType)]
    /\ toNode \in [Node -> Seq(InstructionType)]
    /\ \A n \in Node \ connected : toTracker[n] = <<>>

AgreementInv ==
    \A n \in connected, s \in Stream :
        Agreed(toTracker[n], s, n, Members(overlayPerStream, s), DOMAIN streams[n])

SoundInv == TrackerInv /\ NodesInv /\ AgreementInv

\* Nobody is connected and nobody is in a stream.
LEMMA InitSound == Init => SoundInv
<1> SUFFICES ASSUME Init PROVE SoundInv
  OBVIOUS
<1>1. TrackerInv
  <2>1. /\ overlayPerStream = [s \in {} |-> EmptyGraph] /\ counters = [p \in {} |-> 0]
        /\ connected = {} /\ sent = NoSends
    BY DEF Init, TrackerInit
  <2>2. NoSends \in [Node -> Seq(InstructionType)]
    BY DEF NoSends
  <2>3. State = [overlays |-> overlayPerStream, counters |-> counters, sent |-> NoSends]
    BY DEF State
  <2>4. OverlaysOK(overlayPerStream) /\ DOMAIN overlayPerStream = {}
    BY <2>1 DEF OverlaysOK
  <2>5. CountersOK(State)
    BY <2>1, <2>3 DEF CountersOK
  <2>6. TrackerOK(State)
    BY <2>2, <2>3, <2>4, <2>5 DEF TrackerOK, IsRecord
  <2> QED BY <2>1, <2>2, <2>4, <2>6 DEF TrackerInv, Occupied
<1>2. NodesInv
  <2>1. <<>> \in Seq(StatusType) /\ <<>> \in Seq(InstructionType)
    OBVIOUS
  <2>2. IsStreamManager([s \in {} |-> NewStream])
    BY DEF IsStreamManager
  <2> QED BY <2>1, <2>2 DEF Init, NodesInv
<1>3. AgreementInv
  BY DEF Init, TrackerInit, AgreementInv
<1> QED BY <1>1, <1>2, <1>3 DEF SoundInv

\* A node changes its streams and sends a status that says so.
LEMMA NodeReports ==
    ASSUME SoundInv, NEW n \in Node, NEW ss, IsStreamManager(ss), NEW st \in StatusType,
           streams' = [streams EXCEPT ![n] = ss], SendStatus(n, st), UNCHANGED trackerVars,
           toNode' \in [Node -> Seq(InstructionType)],
           \A s \in Stream :
              \/ Concerns(st, s) /\ (Joins(s, st.reports) <=> s \in DOMAIN ss)
              \/ ~ Concerns(st, s) /\ (s \in DOMAIN streams[n] <=> s \in DOMAIN ss)
    PROVE  SoundInv'
<1>0. TrackerInv /\ NodesInv /\ AgreementInv
  BY DEF SoundInv
<1>1. TrackerInv'
  BY <1>0 DEF TrackerInv, trackerVars, State
<1>2. /\ streams' = [m \in Node |-> streams'[m]]
      /\ \A m \in Node : streams'[m] = IF m = n THEN ss ELSE streams[m]
      /\ connected' = connected /\ overlayPerStream' = overlayPerStream
  BY <1>0 DEF NodesInv, trackerVars
<1>3. /\ toTracker' \in [Node -> Seq(StatusType)]
      /\ \A m \in Node : toTracker'[m] = IF m = n /\ n \in connected
                                         THEN Append(toTracker[n], st) ELSE toTracker[m]
  BY <1>0 DEF NodesInv, SendStatus
<1>4. NodesInv'
  BY <1>0, <1>2, <1>3 DEF NodesInv
<1>5. AgreementInv'
  <2> SUFFICES ASSUME NEW m \in connected, NEW s \in Stream
               PROVE  Agreed(toTracker'[m], s, m, Members(overlayPerStream, s), DOMAIN streams'[m])
    BY <1>2 DEF AgreementInv
  <2>1. m \in Node /\ Agreed(toTracker[m], s, m, Members(overlayPerStream, s), DOMAIN streams[m])
    BY <1>0 DEF AgreementInv, TrackerInv
  <2>2. CASE m = n
    <3>1. toTracker'[m] = Append(toTracker[n], st) /\ streams'[m] = ss
      BY <1>2, <1>3, <2>2
    <3>2. toTracker[n] \in Seq(StatusType)
      BY <1>0 DEF NodesInv
    <3> QED BY <2>1, <2>2, <3>1, <3>2, AgreedOnAppend
  <2>3. CASE m # n
    BY <1>2, <1>3, <2>1, <2>3
  <2> QED BY <2>2, <2>3
<1> QED BY <1>1, <1>4, <1>5 DEF SoundInv

\* The handlers of the tracker leave it as they should.
LEMMA TrackerBecomes ==
    ASSUME NEW t, TrackerOK(t), Becomes(t)
    PROVE  TrackerOK(State)' /\ sent' \in [Node -> Seq(InstructionType)]
<1>1. overlayPerStream' = t.overlays /\ counters' = t.counters /\ sent' = t.sent
  BY DEF Becomes
<1> DEFINE u == [overlays |-> t.overlays, counters |-> t.counters, sent |-> NoSends]
<1>2. NoSends \in [Node -> Seq(InstructionType)]
  BY DEF NoSends
<1>3. u.overlays = t.overlays /\ u.counters = t.counters /\ u.sent = NoSends
  OBVIOUS
<1>4. IsRecord(u)
  BY DEF IsRecord
<1> HIDE DEF u
<1>5. TrackerOK(u)
  BY <1>2, <1>3, <1>4 DEF TrackerOK, CountersOK
<1>6. State' = u
  BY <1>1 DEF State, u
<1>7. TrackerOK(State)'
  BY <1>5, <1>6
<1> QED BY <1>1, <1>7 DEF TrackerOK

\* The stream manager of a node that sets up a stream
LEMMA PutIs ==
    ASSUME NEW ss, IsStreamManager(ss), NEW s \in Stream, NEW x \in StreamState
    PROVE  /\ IsStreamManager(Put(ss, s, x))
           /\ DOMAIN Put(ss, s, x) = DOMAIN ss \cup {s}
BY DEF Put, IsStreamManager

\* The stream manager of a node that removes a stream
LEMMA RemovedIs ==
    ASSUME NEW ss, IsStreamManager(ss), NEW s \in Stream
    PROVE  /\ IsStreamManager(Restrict(ss, DOMAIN ss \ {s}))
           /\ DOMAIN Restrict(ss, DOMAIN ss \ {s}) = DOMAIN ss \ {s}
BY DEF Restrict, IsStreamManager

\* Nothing changes but instructions arrive and users change their mind.
LEMMA NothingReported ==
    ASSUME SoundInv, UNCHANGED <<streams, toTracker, trackerVars>>,
           toNode' \in [Node -> Seq(InstructionType)]
    PROVE  SoundInv'
<1>1. TrackerInv'
  BY DEF SoundInv, TrackerInv, trackerVars, State
<1>2. NodesInv'
  BY DEF SoundInv, NodesInv, trackerVars
<1>3. AgreementInv'
  BY DEF SoundInv, AgreementInv, trackerVars
<1> QED BY <1>1, <1>2, <1>3 DEF SoundInv

\* A user subscribes, and its node reports the new stream.
LEMMA SubscribeSound ==
    ASSUME SoundInv, NEW n \in Node, NEW s \in Stream, Subscribe(n, s)
    PROVE  SoundInv'
<1>0. /\ toNode' = toNode /\ toNode \in [Node -> Seq(InstructionType)]
      /\ IsStreamManager(streams[n]) /\ streams = [m \in Node |-> streams[m]]
  BY DEF Subscribe, SoundInv, NodesInv
<1>1. CASE s \in DOMAIN streams[n]
  BY <1>0, <1>1, NothingReported DEF Subscribe
<1>2. CASE s \notin DOMAIN streams[n]
  <2> DEFINE ss == Put(streams[n], s, NewStream)
             st == StreamStatus(ss, s)
  <2>1. streams' = [streams EXCEPT ![n] = ss]
    BY <1>2 DEF Subscribe
  <2>2. streams'[n] = ss
    BY <1>0, <2>1
  <2>3. SendStatus(n, st)
    BY <1>2, <2>2 DEF Subscribe
  <2>4. NewStream \in StreamState
    BY DEF NewStream, StreamState
  <2>5. IsStreamManager(ss) /\ DOMAIN ss = DOMAIN streams[n] \cup {s}
    BY <1>0, <2>4, PutIs
  <2> HIDE DEF ss
  <2>6. /\ st \in StatusType
        /\ \A x \in Stream : Concerns(st, x) <=> x = s
        /\ Joins(s, st.reports) <=> s \in DOMAIN ss
    BY <2>5, StreamStatusIs
  <2> HIDE DEF st
  <2>7. \A x \in Stream :
           \/ Concerns(st, x) /\ (Joins(x, st.reports) <=> x \in DOMAIN ss)
           \/ ~ Concerns(st, x) /\ (x \in DOMAIN streams[n] <=> x \in DOMAIN ss)
    BY <2>5, <2>6
  <2>8. UNCHANGED trackerVars
    BY DEF Subscribe
  <2> QED BY <1>0, <2>1, <2>3, <2>5, <2>6, <2>7, <2>8, NodeReports
<1> QED BY <1>1, <1>2

\* A user unsubscribes, and its node reports that it left.
LEMMA UnsubscribeSound ==
    ASSUME SoundInv, NEW n \in Node, NEW s \in Stream, Unsubscribe(n, s)
    PROVE  SoundInv'
<1>0. /\ toNode' = toNode /\ toNode \in [Node -> Seq(InstructionType)]
      /\ IsStreamManager(streams[n]) /\ streams = [m \in Node |-> streams[m]]
  BY DEF Unsubscribe, SoundInv, NodesInv
<1> DEFINE ss == Restrict(streams[n], DOMAIN streams[n] \ {s})
           st == StreamStatus(ss, s)
<1>1. streams' = [streams EXCEPT ![n] = ss]
  BY DEF Unsubscribe
<1>2. streams'[n] = ss
  BY <1>0, <1>1
<1>3. SendStatus(n, st)
  BY <1>2 DEF Unsubscribe
<1>4. IsStreamManager(ss) /\ DOMAIN ss = DOMAIN streams[n] \ {s}
  BY <1>0, RemovedIs
<1> HIDE DEF ss
<1>5. /\ st \in StatusType
      /\ \A x \in Stream : Concerns(st, x) <=> x = s
      /\ Joins(s, st.reports) <=> s \in DOMAIN ss
  BY <1>4, StreamStatusIs
<1> HIDE DEF st
<1>6. \A x \in Stream :
         \/ Concerns(st, x) /\ (Joins(x, st.reports) <=> x \in DOMAIN ss)
         \/ ~ Concerns(st, x) /\ (x \in DOMAIN streams[n] <=> x \in DOMAIN ss)
  BY <1>4, <1>5
<1>7. UNCHANGED trackerVars
  BY DEF Unsubscribe
<1> QED BY <1>0, <1>1, <1>3, <1>4, <1>5, <1>6, <1>7, NodeReports

\* A node handles an instruction: it is in the stream after, and reports so.
LEMMA ReceiveInstructionSound ==
    ASSUME SoundInv, NEW n \in Node, NEW failed \in SUBSET Node, ReceiveInstruction(n, failed)
    PROVE  SoundInv'
<1> DEFINE i == Head(toNode[n])
           s == i.stream
           before == IF s \in DOMAIN streams[n] THEN streams[n][s].neighbors ELSE {}
           after == (before \cap i.nodeIds) \cup (i.nodeIds \ failed)
           x == [neighbors |-> after, counter |-> i.counter]
           ss == Put(streams[n], s, x)
           st == StreamStatus(ss, s)
<1>0. /\ IsStreamManager(streams[n]) /\ streams = [m \in Node |-> streams[m]]
      /\ toNode \in [Node -> Seq(InstructionType)] /\ toNode[n] # <<>>
      /\ toNode' = [toNode EXCEPT ![n] = Tail(@)]
  BY DEF ReceiveInstruction, SoundInv, NodesInv
<1>1. i \in InstructionType
  <2>1. toNode[n] \in Seq(InstructionType) /\ toNode[n] # <<>>
    BY <1>0
  <2> QED BY <2>1
<1>2. toNode' \in [Node -> Seq(InstructionType)]
  <2>1. toNode[n] \in Seq(InstructionType) /\ toNode[n] # <<>>
    BY <1>0
  <2>2. Tail(toNode[n]) \in Seq(InstructionType)
    BY <2>1
  <2> QED BY <1>0, <2>2
<1>3. UNCHANGED trackerVars
  BY DEF ReceiveInstruction
<1>4. CASE ~ Accepts(n, i)
  BY <1>2, <1>3, <1>4, NothingReported DEF ReceiveInstruction
<1>5. CASE Accepts(n, i)
  <2>1. streams' = [streams EXCEPT ![n] = ss] /\ SendStatus(n, StreamStatus(streams'[n], s))
    BY <1>5 DEF ReceiveInstruction
  <2>2. streams'[n] = ss
    BY <1>0, <2>1
  <2>3. x \in StreamState /\ s \in Stream
    BY <1>1 DEF InstructionType, StreamState
  <2> HIDE DEF x, s
  <2>4. IsStreamManager(ss) /\ DOMAIN ss = DOMAIN streams[n] \cup {s}
    BY <1>0, <2>3, PutIs
  <2> HIDE DEF ss
  <2>5. SendStatus(n, st)
    BY <2>1, <2>2
  <2>6. /\ st \in StatusType
        /\ \A y \in Stream : Concerns(st, y) <=> y = s
        /\ Joins(s, st.reports) <=> s \in DOMAIN ss
    BY <2>3, <2>4, StreamStatusIs
  <2> HIDE DEF st
  <2>7. \A y \in Stream :
           \/ Concerns(st, y) /\ (Joins(y, st.reports) <=> y \in DOMAIN ss)
           \/ ~ Concerns(st, y) /\ (y \in DOMAIN streams[n] <=> y \in DOMAIN ss)
    BY <2>4, <2>6
  <2> QED BY <1>2, <1>3, <2>1, <2>4, <2>5, <2>6, <2>7, NodeReports
<1> QED BY <1>4, <1>5

\* A node that loses a neighbor keeps its streams and reports them all.
LEMMA NeighborLostSound ==
    ASSUME SoundInv, NEW n \in Node, NEW m \in Node, NeighborLost(n, m)
    PROVE  SoundInv'
<1>0. /\ toNode' = toNode /\ toNode \in [Node -> Seq(InstructionType)]
      /\ IsStreamManager(streams[n]) /\ streams = [k \in Node |-> streams[k]]
  BY DEF NeighborLost, SoundInv, NodesInv
<1> DEFINE ss == [s \in DOMAIN streams[n] |->
                    [neighbors |-> streams[n][s].neighbors \ {m},
                     counter   |-> streams[n][s].counter]]
           st == FullStatus(ss)
<1>1. streams' = [streams EXCEPT ![n] = ss]
  BY DEF NeighborLost
<1>2. streams'[n] = ss
  BY <1>0, <1>1
<1>3. SendStatus(n, st)
  BY <1>2 DEF NeighborLost
<1>4. IsStreamManager(ss) /\ DOMAIN ss = DOMAIN streams[n]
  BY <1>0 DEF IsStreamManager, StreamState
<1> HIDE DEF ss
<1>5. /\ st \in StatusType
      /\ \A x \in Stream : Concerns(st, x) /\ (Joins(x, st.reports) <=> x \in DOMAIN ss)
  BY <1>4, FullStatusIs
<1> HIDE DEF st
<1>6. UNCHANGED trackerVars
  BY DEF NeighborLost
<1> QED BY <1>0, <1>1, <1>3, <1>4, <1>5, <1>6, NodeReports

\* A node that connects reports all its streams first.
LEMMA ConnectSound ==
    ASSUME SoundInv, NEW n \in Node, Connect(n)
    PROVE  SoundInv'
<1> DEFINE st == FullStatus(streams[n])
<1>0. TrackerInv /\ NodesInv /\ AgreementInv
  BY DEF SoundInv
<1>1. /\ n \notin connected /\ connected' = connected \cup {n} /\ sent' = NoSends
      /\ overlayPerStream' = overlayPerStream /\ counters' = counters
      /\ toTracker' = [toTracker EXCEPT ![n] = <<st>>]
      /\ streams' = streams /\ toNode' = toNode
  BY DEF Connect, NodeConnected
<1>2. NoSends \in [Node -> Seq(InstructionType)]
  BY DEF NoSends
<1>3. TrackerInv'
  BY <1>0, <1>1, <1>2 DEF TrackerInv, State
<1>4. /\ st \in StatusType
      /\ \A s \in Stream : Concerns(st, s) /\ (Joins(s, st.reports) <=> s \in DOMAIN streams[n])
  BY <1>0, FullStatusIs DEF NodesInv
<1> HIDE DEF st
<1>5. /\ toTracker' \in [Node -> Seq(StatusType)]
      /\ \A m \in Node : toTracker'[m] = IF m = n THEN <<st>> ELSE toTracker[m]
  BY <1>0, <1>1, <1>4 DEF NodesInv
<1>6. NodesInv'
  BY <1>0, <1>1, <1>5 DEF NodesInv
<1>7. AgreementInv'
  <2> SUFFICES ASSUME NEW m \in connected', NEW s \in Stream
               PROVE  Agreed(toTracker'[m], s, m, Members(overlayPerStream, s), DOMAIN streams[m])
    BY <1>1 DEF AgreementInv
  <2>1. CASE m = n
    <3>1. <<>> \in Seq(StatusType) /\ <<st>> = Append(<<>>, st)
      OBVIOUS
    <3>2. Agreed(Append(<<>>, st), s, m, Members(overlayPerStream, s), DOMAIN streams[n])
      BY <1>4, <3>1, AgreedOnAppend
    <3> QED BY <1>5, <2>1, <3>1, <3>2
  <2>2. CASE m # n
    <3>1. m \in connected /\ m \in Node
      BY <1>0, <1>1, <2>2 DEF TrackerInv
    <3> QED BY <1>0, <1>5, <2>2, <3>1 DEF AgreementInv
  <2> QED BY <2>1, <2>2
<1> QED BY <1>3, <1>6, <1>7 DEF SoundInv

\* The instructions of a handler are on their way.
LEMMA InstructionsSentType ==
    ASSUME toNode \in [Node -> Seq(InstructionType)], sent' \in [Node -> Seq(InstructionType)]
    PROVE  InstructionsSent \in [Node -> Seq(InstructionType)]
<1>1. ASSUME NEW m \in Node PROVE toNode[m] \o sent'[m] \in Seq(InstructionType)
  OBVIOUS
<1> QED BY <1>1 DEF InstructionsSent

\* The tracker takes a node that disconnects out of all overlays.
LEMMA DisconnectSound ==
    ASSUME SoundInv, NEW n \in Node, Disconnect(n)
    PROVE  SoundInv'
<1>0. TrackerInv /\ NodesInv /\ AgreementInv
  BY DEF SoundInv
<1> DEFINE o == overlayPerStream
<1>1. PICK t \in LeaveAll(State, n, DOMAIN o) : Becomes(t)
  BY DEF Disconnect, NodeDisconnected
<1>2. /\ connected' = connected \ {n} /\ streams' = streams
      /\ toTracker' = [toTracker EXCEPT ![n] = <<>>]
      /\ toNode' = [InstructionsSent EXCEPT ![n] = <<>>]
  BY DEF Disconnect, NodeDisconnected
<1>3. State.overlays = o /\ TrackerOK(State)
  BY <1>0 DEF State, TrackerInv
<1>4. TrackerOK(t) /\ Leaves(State, t, n, DOMAIN o)
  <2>1. DOMAIN o \in SUBSET DOMAIN State.overlays
    BY <1>3
  <2> QED BY <1>1, <1>3, <2>1, LeaveAllKeeps
<1>5. TrackerOK(State)' /\ sent' \in [Node -> Seq(InstructionType)]
  BY <1>1, <1>4, TrackerBecomes
<1>6. o' = t.overlays
  BY <1>1 DEF Becomes
<1>7. /\ DOMAIN o' \subseteq DOMAIN o
      /\ \A s \in DOMAIN o' : DOMAIN o'[s] = DOMAIN o[s] \ {n} /\ DOMAIN o'[s] # {}
      /\ \A s \in DOMAIN o \ DOMAIN o' : DOMAIN o[s] \subseteq {n}
  BY <1>3, <1>4, <1>6 DEF Leaves
<1>8. \A s : Members(o', s) = Members(o, s) \ {n}
  BY <1>7 DEF Members
<1>9. TrackerInv'
  BY <1>0, <1>2, <1>5, <1>7 DEF TrackerInv, Occupied
<1>10. NodesInv'
  <2>1. InstructionsSent \in [Node -> Seq(InstructionType)]
    BY <1>0, <1>5, InstructionsSentType DEF NodesInv
  <2>2. toNode' \in [Node -> Seq(InstructionType)]
    BY <1>2, <2>1
  <2>3. /\ toTracker' \in [Node -> Seq(StatusType)]
        /\ \A m \in Node : toTracker'[m] = IF m = n THEN <<>> ELSE toTracker[m]
    BY <1>0, <1>2 DEF NodesInv
  <2> QED BY <1>0, <1>2, <2>2, <2>3 DEF NodesInv
<1>11. AgreementInv'
  <2> SUFFICES ASSUME NEW m \in connected \ {n}, NEW s \in Stream
               PROVE  Agreed(toTracker'[m], s, m, Members(o', s), DOMAIN streams[m])
    BY <1>2 DEF AgreementInv
  <2>1. Agreed(toTracker[m], s, m, Members(o, s), DOMAIN streams[m])
    BY <1>0 DEF AgreementInv
  <2>2. m \in Node /\ toTracker'[m] = toTracker[m]
    BY <1>0, <1>2 DEF NodesInv, TrackerInv
  <2>3. m \in Members(o', s) <=> m \in Members(o, s)
    BY <1>8
  <2> QED BY <2>1, <2>2, <2>3 DEF Agreed
<1> QED BY <1>9, <1>10, <1>11 DEF SoundInv

\* The tracker handles a status: who is in which overlay is as the status says,
\* and what it does not say of is left to the statuses behind it.
LEMMA TrackerReceivesSound ==
    ASSUME SoundInv, NEW n \in Node, TrackerReceives(n)
    PROVE  SoundInv'
<1>0. TrackerInv /\ NodesInv /\ AgreementInv
  BY DEF SoundInv
<1> DEFINE o == overlayPerStream
           q == toTracker[n]
           st == Head(q)
<1>1. /\ q # <<>> /\ n \in connected /\ connected' = connected
      /\ toTracker' = [toTracker EXCEPT ![n] = Tail(@)]
      /\ toNode' = InstructionsSent /\ streams' = streams
  BY DEF TrackerReceives, ProcessNodeStatus
<1>2. PICK v \in StatusOutcomes(n, st.reports, st.singleStream) : Becomes(v)
  BY DEF TrackerReceives, ProcessNodeStatus
<1>3. q \in Seq(StatusType) /\ st \in StatusType /\ Tail(q) \in Seq(StatusType)
  <2>1. q \in Seq(StatusType)
    BY <1>0 DEF NodesInv
  <2> HIDE DEF q
  <2> QED BY <1>1, <2>1
<1> HIDE DEF q
<1>4. StatusOK(st.reports, st.singleStream) /\ st.singleStream \in BOOLEAN
  BY <1>3 DEF StatusType
<1> HIDE DEF st
<1>5. TrackerOK(State) /\ Occupied(o)
  BY <1>0 DEF TrackerInv
<1>6. TrackerOK(v)
  BY <1>2, <1>4, <1>5, StatusEffect
<1>7. PICK u : /\ Rewires(u, v, DOMAIN st.reports)
               /\ MembersAfter(o, u.overlays, n, st.reports, st.singleStream)
               /\ Occupied(u.overlays)
  BY <1>2, <1>4, <1>5, StatusEffect
<1>8. TrackerOK(State)' /\ sent' \in [Node -> Seq(InstructionType)]
  BY <1>2, <1>6, TrackerBecomes
<1>9. o' = v.overlays
  BY <1>2 DEF Becomes
<1>10. Occupied(o') /\ \A s : Members(o', s) = Members(u.overlays, s)
  BY <1>7, <1>9 DEF Rewires, Occupied, Members
<1>11. MembersAfter(o, o', n, st.reports, st.singleStream)
  BY <1>7, <1>10 DEF MembersAfter
<1>12. \A s : Members(o', s) \subseteq Members(o, s) \cup {n}
  BY <1>11 DEF MembersAfter
<1>13. TrackerInv'
  <2>1. ASSUME NEW s \in DOMAIN o' PROVE DOMAIN o'[s] \subseteq connected
    <3>1. DOMAIN o'[s] \subseteq Members(o, s) \cup {n}
      BY <1>12 DEF Members
    <3>2. Members(o, s) \subseteq connected
      BY <1>0 DEF TrackerInv, Members
    <3> QED BY <1>1, <3>1, <3>2
  <2> QED BY <1>0, <1>1, <1>8, <1>10, <2>1 DEF TrackerInv
<1>14. /\ toTracker' \in [Node -> Seq(StatusType)]
       /\ \A m \in Node : toTracker'[m] = IF m = n THEN Tail(q) ELSE toTracker[m]
  BY <1>0, <1>1, <1>3 DEF NodesInv, q
<1>15. NodesInv'
  <2>1. InstructionsSent \in [Node -> Seq(InstructionType)]
    BY <1>0, <1>8, InstructionsSentType DEF NodesInv
  <2> QED BY <1>0, <1>1, <1>14, <2>1 DEF NodesInv
<1>16. AgreementInv'
  <2> SUFFICES ASSUME NEW m \in connected, NEW s \in Stream
               PROVE  Agreed(toTracker'[m], s, m, Members(o', s), DOMAIN streams[m])
    BY <1>1 DEF AgreementInv
  <2>1. Agreed(toTracker[m], s, m, Members(o, s), DOMAIN streams[m]) /\ m \in Node
    BY <1>0 DEF AgreementInv, TrackerInv
  <2>2. CASE m = n
    <3>1. CASE Concerns(st, s)
      <4>1. n \in Members(o', s) <=> Joins(s, st.reports)
        <5>1. Joins(s, st.reports) \/ Departs(s, st.reports, st.singleStream)
          BY <3>1 DEF Concerns, Joins, Departs
        <5> QED BY <1>11, <5>1 DEF MembersAfter
      <4> QED BY <1>1, <1>3, <1>14, <2>1, <2>2, <3>1, <4>1, AgreedOnTail DEF q, st
    <3>2. CASE ~ Concerns(st, s)
      <4>1. ~ Joins(s, st.reports) /\ ~ Departs(s, st.reports, st.singleStream)
        BY <1>4, <3>2 DEF Concerns, Joins, Departs
      <4>2. n \in Members(o', s) <=> n \in Members(o, s)
        BY <1>11, <4>1 DEF MembersAfter
      <4> QED BY <1>1, <1>3, <1>14, <2>1, <2>2, <3>2, <4>2, AgreedOnTail DEF q, st
    <3> QED BY <3>1, <3>2
  <2>3. CASE m # n
    <3>1. m \in Members(o', s) <=> m \in Members(o, s)
      BY <1>11, <2>3 DEF MembersAfter
    <3> QED BY <1>14, <2>1, <2>3, <3>1 DEF Agreed
  <2> QED BY <2>2, <2>3
<1> QED BY <1>13, <1>15, <1>16 DEF SoundInv

\* Every step keeps the invariant.
LEMMA NextSound == SoundInv /\ [Next]_vars => SoundInv'
<1> SUFFICES ASSUME SoundInv, [Next]_vars PROVE SoundInv'
  OBVIOUS
<1>1. ASSUME NEW n \in Node, NEW s \in Stream, Subscribe(n, s) PROVE SoundInv'
  BY <1>1, SubscribeSound
<1>2. ASSUME NEW n \in Node, NEW s \in Stream, Unsubscribe(n, s) PROVE SoundInv'
  BY <1>2, UnsubscribeSound
<1>3. ASSUME NEW n \in Node, NEW failed \in SUBSET Node, ReceiveInstruction(n, failed)
      PROVE  SoundInv'
  BY <1>3, ReceiveInstructionSound
<1>4. ASSUME NEW n \in Node, NEW m \in Node, NeighborLost(n, m) PROVE SoundInv'
  BY <1>4, NeighborLostSound
<1>5. ASSUME NEW n \in Node, Connect(n) PROVE SoundInv'
  BY <1>5, ConnectSound
<1>6. ASSUME NEW n \in Node, Disconnect(n) PROVE SoundInv'
  BY <1>6, DisconnectSound
<1>7. ASSUME NEW n \in Node, TrackerReceives(n) PROVE SoundInv'
  BY <1>7, TrackerReceivesSound
<1>8. CASE UNCHANGED vars
  <2>1. /\ UNCHANGED <<streams, toTracker, trackerVars>>
        /\ toNode' \in [Node -> Seq(InstructionType)]
    BY <1>8 DEF vars, nodeVars, SoundInv, NodesInv
  <2> QED BY <2>1, NothingReported
<1> QED BY <1>1, <1>2, <1>3, <1>4, <1>5, <1>6, <1>7, <1>8 DEF Next

\* The state of the tracker and of the nodes is always sound.
THEOREM TrackerInvariant == Spec => []SoundInv
BY InitSound, NextSound, PTL DEF Spec

\* Every overlay is well formed, has a node, and has only connected nodes.
THEOREM AlwaysSound == Spec => []OverlaysSound
<1>1. SoundInv => OverlaysSound
  BY DEF SoundInv, TrackerInv, State, TrackerOK, OverlaysOK, Sound, Occupied, OverlaysSound
<1> QED BY <1>1, TrackerInvariant, PTL

\* Once all that was sent has arrived, a connected node is in the overlay of a
\* stream if and only if it is in the stream.
THEOREM MembersAgree == Spec => []MembershipAgreement
<1>1. SoundInv => MembershipAgreement
  <2> SUFFICES ASSUME SoundInv, NothingInFlight, NEW n \in connected, NEW s \in Stream
               PROVE  s \in DOMAIN streams[n] <=>
                         s \in DOMAIN overlayPerStream /\ n \in DOMAIN overlayPerStream[s]
    BY DEF MembershipAgreement
  <2>1. Agreed(toTracker[n], s, n, Members(overlayPerStream, s), DOMAIN streams[n])
    BY DEF SoundInv, AgreementInv
  <2>2. toTracker[n] = <<>>
    BY DEF NothingInFlight, SoundInv, TrackerInv
  <2>3. Pending(toTracker[n], s) = {}
    BY <2>2 DEF Pending
  <2> QED BY <2>1, <2>3 DEF Agreed, Members
<1> QED BY <1>1, TrackerInvariant, PTL

-----------------------------------------------------------------------------
(***************************************************************************)
(* Old reports                                                             *)
(***************************************************************************)
\* A status is at the end of the queue of its sender, or of no queue.
LEMMA SentIsAppended ==
    ASSUME NEW n \in Node, NEW m, NEW st, NodesInv, SendStatus(m, st)
    PROVE  toTracker'[n] = toTracker[n] \/ toTracker'[n] = Append(toTracker[n], st)
BY DEF SendStatus, NodesInv

\* Only the tracker takes the first status of the queue of a connected node.
LEMMA OnlyTheTrackerTakes ==
    ASSUME SoundInv, Next, NEW n \in Node, n \in connected',
           toTracker[n] # <<>>, toTracker'[n] = Tail(toTracker[n])
    PROVE  TrackerReceives(n)
<1> DEFINE q == toTracker[n]
<1>1. NodesInv /\ q \in Seq(StatusType) /\ q # <<>>
  BY DEF SoundInv, NodesInv
<1> DEFINE r == toTracker'[n]
<1>2. r = Tail(q)
  OBVIOUS
<1> HIDE DEF q, r
<1>3. Len(r) = Len(q) - 1 /\ Len(q) \in Nat /\ Len(q) > 0
  BY <1>1, <1>2
<1>4. r # q
  BY <1>3
<1>5. ASSUME NEW st PROVE r # Append(q, st)
  <2>1. Len(Append(q, st)) = Len(q) + 1
    BY <1>1
  <2> QED BY <1>3, <2>1
<1>6. ASSUME NEW m, NEW st, SendStatus(m, st) PROVE FALSE
  BY <1>1, <1>4, <1>5, <1>6, SentIsAppended DEF q, r
<1>7. ASSUME NEW m \in Node, NEW s \in Stream, Subscribe(m, s) PROVE FALSE
  BY <1>4, <1>6, <1>7 DEF Subscribe, q, r
<1>8. ASSUME NEW m \in Node, NEW s \in Stream, Unsubscribe(m, s) PROVE FALSE
  BY <1>6, <1>8 DEF Unsubscribe
<1>9. ASSUME NEW m \in Node, NEW failed \in SUBSET Node, ReceiveInstruction(m, failed)
      PROVE  FALSE
  <2>1. ASSUME UNCHANGED toTracker PROVE FALSE
    BY <1>4, <2>1 DEF q, r
  <2> QED BY <1>6, <1>9, <2>1 DEF ReceiveInstruction
<1>10. ASSUME NEW m \in Node, NEW x \in Node, NeighborLost(m, x) PROVE FALSE
  BY <1>6, <1>10 DEF NeighborLost
<1>11. ASSUME NEW m \in Node, Connect(m) PROVE FALSE
  <2>1. /\ m \notin connected
        /\ toTracker' = [toTracker EXCEPT ![m] = <<FullStatus(streams[m])>>]
    BY <1>11 DEF Connect, NodeConnected
  <2>2. CASE n = m
    BY <1>1, <2>1, <2>2 DEF NodesInv, q
  <2>3. CASE n # m
    BY <1>4, <2>1, <2>3 DEF q, r
  <2> QED BY <2>2, <2>3
<1>12. ASSUME NEW m \in Node, Disconnect(m) PROVE FALSE
  <2>1. n # m /\ toTracker' = [toTracker EXCEPT ![m] = <<>>]
    BY <1>12 DEF Disconnect, NodeDisconnected
  <2> QED BY <1>4, <2>1 DEF q, r
<1>13. ASSUME NEW m \in Node, TrackerReceives(m) PROVE m = n
  <2>1. toTracker' = [toTracker EXCEPT ![m] = Tail(@)]
    BY <1>13 DEF TrackerReceives
  <2> QED BY <1>4, <2>1 DEF q, r
<1> QED BY <1>7, <1>8, <1>9, <1>10, <1>11, <1>12, <1>13 DEF Next

\* A node that is not over the maximum keeps its neighbors, and formInstructions for
\* it breaks only links to both whose ends it links the node.
OnlyBrokenGo(g, h, n) ==
    Cardinality(g[n]) <= MaxNeighbors =>
        /\ g[n] \subseteq h[n]
        /\ \A a \in DOMAIN g : \A b \in g[a] \ h[a] : {a, b} \subseteq h[n] \ g[n]

LEMMA FormedBreaks ==
    ASSUME NEW g, Sound(g), NEW n \in DOMAIN g, NEW h \in Formed(g, n)
    PROVE  OnlyBrokenGo(g, h, n)
<1> SUFFICES ASSUME Cardinality(g[n]) <= MaxNeighbors
             PROVE  /\ g[n] \subseteq h[n]
                    /\ \A a \in DOMAIN g : \A b \in g[a] \ h[a] : {a, b} \subseteq h[n] \ g[n]
  BY DEF OnlyBrokenGo
<1>1. WellFormed(g) /\ FiniteGraph(g)
  BY DEF Sound
<1>2. PICK g1 \in Trimmed(g, n) : \E g2 \in Extended(g1, n) : h \in Swapped(g2, n)
  BY FormedInPhases
<1>3. PICK g2 \in Extended(g1, n) : h \in Swapped(g2, n)
  BY <1>2
<1>4. g1 = g
  <2>1. Cardinality(g[n]) \in Nat
    BY <1>1, FiniteNeighbors
  <2>2. ~ (Missing(g, n) < 0)
    BY <2>1, MaxNeighborsAssumption DEF Missing
  <2> QED BY <1>1, <2>2, TrimmedIs
<1>5. /\ WellFormed(g2) /\ DOMAIN g2 = DOMAIN g
      /\ g2 = g \/ \E add : LinkedTo(g, n, add, g2)
  BY <1>1, <1>3, <1>4, ExtendedIs
<1>6. \A a \in DOMAIN g : g[a] \subseteq g2[a]
  BY <1>5 DEF LinkedTo
<1>7. h = g2 \/ \E M : LinkedBetween(g2, n, M, h)
  BY <1>3, <1>5, SwappedIs
<1>8. g2[n] \subseteq h[n]
  BY <1>7 DEF LinkedBetween
<1>9. ASSUME NEW a \in DOMAIN g, NEW b \in g[a] \ h[a]
      PROVE  {a, b} \subseteq h[n] \ g[n]
  <2>1. b \in g2[a] \ h[a]
    BY <1>6
  <2>2. PICK M : LinkedBetween(g2, n, M, h)
    BY <1>7, <2>1
  <2>3. {a, b} \in M
    BY <1>5, <1>8, <2>1, <2>2 DEF LinkedBetween
  <2>4. {a, b} \in BreakableLinks(g2, n) /\ {a, b} \subseteq h[n]
    BY <2>2, <2>3 DEF LinkedBetween
  <2>5. PICK c, d \in DOMAIN g2 \ {n} : {a, b} = {c, d} /\ n \notin g2[c] /\ n \notin g2[d]
    BY <1>5, <2>4, BreakableLinkEnds
  <2>6. c \notin g2[n] /\ d \notin g2[n]
    BY <1>5, <2>5 DEF WellFormed, SymmetricGraph
  <2>7. a \notin g2[n] /\ b \notin g2[n]
    BY <2>5, <2>6
  <2> QED BY <1>6, <2>4, <2>7
<1> QED BY <1>6, <1>8, <1>9

\* Of the streams that a status says too little of, as filterStatus finds, the
\* tracker only rewires the overlays for the sender, and it tells the nodes.
LEMMA UnbelievedReport ==
    ASSUME SoundInv, NEW n \in Node, TrackerReceives(n),
           NEW s \in DOMAIN Head(toTracker[n]).reports \cap DOMAIN overlayPerStream,
           s \notin FilteredStreams(counters, n, Head(toTracker[n]).reports),
           n \in DOMAIN overlayPerStream[s]
    PROVE  /\ DOMAIN overlayPerStream'[s] = DOMAIN overlayPerStream[s]
           /\ OnlyBrokenGo(overlayPerStream[s], overlayPerStream'[s], n)
           /\ \A m \in overlayPerStream'[s][n] \ overlayPerStream[s][n] :
                 \E i \in DOMAIN sent'[n] : m \in sent'[n][i].nodeIds
<1> DEFINE o == overlayPerStream
           q == toTracker[n]
           st == Head(q)
<1>1. TrackerOK(State) /\ Occupied(o) /\ q \in Seq(StatusType)
  BY DEF SoundInv, TrackerInv, NodesInv
<1>2. PICK v \in StatusOutcomes(n, st.reports, st.singleStream) : Becomes(v)
  BY DEF TrackerReceives, ProcessNodeStatus
<1>3. StatusOK(st.reports, st.singleStream)
  <2>1. q # <<>>
    BY DEF TrackerReceives
  <2> HIDE DEF q
  <2>2. st \in StatusType
    BY <1>1, <2>1
  <2> QED BY <2>2 DEF StatusType
<1>4. s \in (DOMAIN st.reports \cap DOMAIN o) \ FilteredStreams(counters, n, st.reports)
  OBVIOUS
<1> HIDE DEF st
<1>5. PICK u : Rewires(u, v, DOMAIN st.reports) /\ FormedFor(u, v, n)
               /\ s \in DOMAIN u.overlays /\ u.overlays[s] = o[s]
  BY <1>1, <1>2, <1>3, <1>4, StatusEffect
<1>6. o' = v.overlays /\ sent' = v.sent
  BY <1>2 DEF Becomes
<1>7. TrackerOK(v)
  BY <1>1, <1>2, <1>3, StatusEffect
<1>8. sent'[n] \in Seq(InstructionType)
  BY <1>6, <1>7 DEF TrackerOK
<1>9. DOMAIN o'[s] = DOMAIN o[s]
  BY <1>5, <1>6 DEF Rewires
<1>10. OnlyBrokenGo(o[s], o'[s], n)
  <2>1. o'[s] = o[s] \/ o'[s] \in Formed(o[s], n)
    BY <1>5, <1>6 DEF FormedFor
  <2>2. Sound(o[s])
    BY <1>1 DEF TrackerOK, OverlaysOK, State
  <2>3. CASE o'[s] \in Formed(o[s], n)
    BY <2>2, <2>3, FormedBreaks
  <2>4. CASE o'[s] = o[s]
    BY <2>4 DEF OnlyBrokenGo
  <2> QED BY <2>1, <2>3, <2>4
<1>11. ASSUME NEW m \in o'[s][n] \ o[s][n]
       PROVE  \E i \in DOMAIN sent'[n] : m \in sent'[n][i].nodeIds
  <2>1. Told(v, n, m)
    BY <1>5, <1>6, <1>11 DEF Rewires
  <2> QED BY <1>6, <1>8, <2>1 DEF Told
<1> QED BY <1>9, <1>10, <1>11

\* A report that is older than the last instruction to its sender is not believed,
\* neither what it adds nor what it leaves out: filterStatus keeps it from updateNode
\* and updateNodeOnStream, and formInstructions takes no neighbor from a sender that
\* is not over the maximum, nor any link but to put the sender in its place.
THEOREM OldReportsAreNotBelieved == Spec => OldReportIsNotBelieved
<1>1. ASSUME SoundInv, SoundInv', [Next]_vars, NEW n \in connected',
             toTracker[n] # <<>>, toTracker'[n] = Tail(toTracker[n]),
             NEW s \in DOMAIN Head(toTracker[n]).reports \cap DOMAIN overlayPerStream,
             Head(toTracker[n]).reports[s].counter \in 0 .. CounterOf(counters, n, s) - 1
      PROVE  /\ n \in DOMAIN overlayPerStream[s]
             /\ DOMAIN overlayPerStream'[s] = DOMAIN overlayPerStream[s]
             /\ OnlyBrokenGo(overlayPerStream[s], overlayPerStream'[s], n)
             /\ \A m \in overlayPerStream'[s][n] \ overlayPerStream[s][n] :
                   \E i \in DOMAIN sent'[n] : m \in sent'[n][i].nodeIds
  <2>1. n \in Node /\ toTracker[n] \in Seq(StatusType)
    BY <1>1 DEF SoundInv, TrackerInv, NodesInv
  <2>2. ~ UNCHANGED vars
    <3> DEFINE q == toTracker[n]
    <3>1. q \in Seq(StatusType) /\ q # <<>>
      BY <1>1, <2>1
    <3> HIDE DEF q
    <3>2. Tail(q) # q
      BY <3>1
    <3> QED BY <1>1, <3>2 DEF vars, nodeVars, q
  <2>3. TrackerReceives(n)
    BY <1>1, <2>1, <2>2, OnlyTheTrackerTakes
  <2>4. s \in DOMAIN overlayPerStream /\ s \in Stream /\ CounterOf(counters, n, s) \in Nat
    <3>1. TrackerOK(State) /\ State.overlays = overlayPerStream /\ State.counters = counters
      BY <1>1 DEF SoundInv, TrackerInv, State
    <3> QED BY <2>1, <3>1 DEF TrackerOK, OverlaysOK, CountersOK, CounterOf
  <2>5. s \notin FilteredStreams(counters, n, Head(toTracker[n]).reports)
    <3> DEFINE r == Head(toTracker[n]).reports
               c == CounterOf(counters, n, s)
    <3>1. r[s].counter \in 0 .. c - 1 /\ c \in Nat
      BY <1>1, <2>4
    <3> HIDE DEF c, r
    <3>2. ~ (r[s].counter >= c) /\ r[s].counter # -1
      BY <3>1
    <3> QED BY <3>2 DEF FilteredStreams, Unsubscribed, c, r
  <2>6. n \in DOMAIN overlayPerStream[s]
    <3> DEFINE c == CounterOf(counters, n, s)
    <3>1. \E k : k \in 0 .. c - 1
      BY <1>1
    <3>2. c \in Nat /\ c > 0
      <4>1. c \in Nat
        BY <2>4
      <4> HIDE DEF c
      <4> QED BY <3>1, <4>1
    <3>3. <<n, s>> \in DOMAIN counters /\ c = counters[<<n, s>>]
      BY <3>2 DEF CounterOf
    <3>4. TrackerOK(State) /\ State.overlays = overlayPerStream /\ State.counters = counters
      BY <1>1 DEF SoundInv, TrackerInv, State
    <3> QED BY <2>1, <2>4, <3>2, <3>3, <3>4 DEF TrackerOK, CountersOK
  <2> QED BY <1>1, <2>1, <2>3, <2>5, <2>6, UnbelievedReport
<1>2. SoundInv /\ SoundInv' /\ [Next]_vars =>
        \A n \in connected' :
          toTracker[n] # <<>> /\ toTracker'[n] = Tail(toTracker[n]) =>
            LET reports == Head(toTracker[n]).reports
                old == {s \in DOMAIN reports \cap DOMAIN overlayPerStream :
                           reports[s].counter \in 0 .. CounterOf(counters, n, s) - 1}
            IN  \A s \in old :
                    LET g == overlayPerStream[s]
                        h == overlayPerStream'[s]
                    IN  /\ n \in DOMAIN g /\ DOMAIN h = DOMAIN g
                        /\ Cardinality(g[n]) <= MaxNeighbors =>
                             /\ g[n] \subseteq h[n]
                             /\ \A a \in DOMAIN g : \A b \in g[a] \ h[a] :
                                   {a, b} \subseteq h[n] \ g[n]
                        /\ \A m \in h[n] \ g[n] :
                             \E i \in DOMAIN sent'[n] : m \in sent'[n][i].nodeIds
  BY <1>1 DEF OnlyBrokenGo
<1> QED BY <1>2, TrackerInvariant, PTL DEF Spec, OldReportIsNotBelieved

-----------------------------------------------------------------------------
(***************************************************************************)
(* When nobody leaves                                                      *)
(***************************************************************************)
\* Nodes connect and users subscribe, and nothing else happens.
OnlyJoins == Churn \subseteq {"connect", "subscribe"}

\* The neighbors of n in the overlay of s, if it is there
NeighborsOf(o, n, s) == IF s \in DOMAIN o /\ n \in DOMAIN o[s] THEN o[s][n] ELSE {}

\* Nobody is over the maximum.
Bounded(o) ==
    \A n \in Node, s \in Stream : Cardinality(NeighborsOf(o, n, s)) <= MaxNeighbors

\* Counter k with neighbors S is older than counter c with neighbors g, or the same.
UpTo(k, S, c, g) == k <= c /\ (k = c => S = g)

\* A node with no more than the maximum that is not instructed has the neighbors it
\* had: formInstructions breaks links only of nodes it links to n, and does not
\* link them if it finds too many.
LEMMA OthersKeepNeighbors ==
    ASSUME NEW g, WellFormed(g), FiniteGraph(g), NEW n \in DOMAIN g,
           Cardinality(g[n]) <= MaxNeighbors, NEW h \in Formed(g, n),
           NEW force \in BOOLEAN, NEW m \in DOMAIN g, m \notin UpdatedNodes(g, h, n, force)
    PROVE  h[m] = g[m]
<1>1. h[m] \subseteq g[m]
  BY GainersAreUpdated
<1>2. CASE m = n
  BY <1>2 DEF UpdatedNodes
<1>3. CASE m # n
  <2>0. PICK g1 \in Trimmed(g, n) : \E g2 \in Extended(g1, n) : h \in Swapped(g2, n)
    BY FormedInPhases
  <2>1. PICK g2 \in Extended(g1, n) : h \in Swapped(g2, n)
    BY <2>0
  <2>2. g1 = g
    <3>1. Cardinality(g[n]) \in Nat
      BY FiniteNeighbors
    <3>2. ~ (Missing(g, n) < 0)
      BY <3>1, MaxNeighborsAssumption DEF Missing
    <3> QED BY <3>2, TrimmedIs
  <2>3. /\ WellFormed(g2) /\ DOMAIN g2 = DOMAIN g
        /\ g2 = g \/ \E add : LinkedTo(g, n, add, g2)
    BY <2>1, <2>2, ExtendedIs
  <2>4. g[m] \subseteq g2[m] /\ g[n] \subseteq g2[n]
    BY <1>3, <2>3 DEF LinkedTo
  <2>5. h = g2 \/ \E M : LinkedBetween(g2, n, M, h)
    BY <2>1, <2>3, SwappedIs
  <2>6. ASSUME NEW M, LinkedBetween(g2, n, M, h), m \in UNION M PROVE FALSE
    <3>1. m \in h[n]
      BY <2>6 DEF LinkedBetween
    <3>2. PICK a \in FullNodes(g2, n) : \E b \in g2[a] : n \notin g2[b] /\ (m = a \/ m = b)
      BY <2>6 DEF LinkedBetween, BreakableLinks
    <3>3. n \notin g2[m] /\ m \in DOMAIN g2
      BY <2>3, <3>2 DEF FullNodes, WellFormed, IsGraph
    <3>4. m \notin g2[n]
      BY <2>3, <3>3 DEF WellFormed, SymmetricGraph
    <3>5. m \in h[n] \ g[n]
      BY <2>4, <3>1, <3>4
    <3> QED BY <3>5 DEF UpdatedNodes
  <2>7. g2[m] \subseteq h[m]
    BY <1>3, <2>3, <2>5, <2>6 DEF LinkedBetween
  <2> QED BY <1>1, <2>4, <2>7
<1> QED BY <1>2, <1>3

\* formInstructions brings nobody above the maximum.
LEMMA FormedBounded ==
    ASSUME NEW g, Sound(g), NEW n \in DOMAIN g, NEW h \in Formed(g, n),
           \A m \in DOMAIN g : Cardinality(g[m]) <= MaxNeighbors
    PROVE  \A m \in DOMAIN g : Cardinality(h[m]) <= MaxNeighbors
<1>1. Respects(g, h, n)
  BY FormedRespects DEF Sound
<1>2. \A m \in DOMAIN g : Cardinality(g[m]) \in Nat
  BY FiniteNeighbors DEF Sound
<1>3. DOMAIN h = DOMAIN g /\ Sound(h)
  <2>1. n \in Node
    BY DEF Sound, WellFormed, IsGraph
  <2> QED BY <2>1, FormedSound
<1>4. \A m \in DOMAIN g : Cardinality(h[m]) \in Nat
  BY <1>3, FiniteNeighbors DEF Sound
<1> QED BY <1>1, <1>2, <1>4, MaxNeighborsAssumption DEF Respects

\* From t to v, m is told of its neighbors in x as often as they change: every
\* instruction has the next counter, the last one has the neighbors m has then, and
\* without one m has the neighbors it had.
Advances(t, v, m, x) ==
    LET a == CounterOf(t.counters, m, x)
        b == CounterOf(v.counters, m, x)
        new == {i \in Len(t.sent[m]) + 1 .. Len(v.sent[m]) : v.sent[m][i].stream = x}
    IN  /\ a <= b
        /\ a = b => NeighborsOf(v.overlays, m, x) = NeighborsOf(t.overlays, m, x)
        /\ a < b => \E i \in new : v.sent[m][i].counter = b
        /\ \A i \in new : /\ a < v.sent[m][i].counter
                          /\ UpTo(v.sent[m][i].counter, v.sent[m][i].nodeIds,
                                  b, NeighborsOf(v.overlays, m, x))
        /\ \A i, j \in new : i < j => v.sent[m][i].counter < v.sent[m][j].counter

\* Every node is told of every stream.
AllAdvance(t, v) == /\ \A m \in Node : Extends(t.sent[m], v.sent[m])
                    /\ \A m \in Node, x \in Stream : Advances(t, v, m, x)

\* One turn after the other
LEMMA AdvancesTransitive ==
    ASSUME NEW t, NEW u, NEW v, TrackerOK(t), TrackerOK(u), TrackerOK(v),
           AllAdvance(t, u), AllAdvance(u, v)
    PROVE  AllAdvance(t, v)
<1>1. ASSUME NEW m \in Node PROVE Extends(t.sent[m], v.sent[m])
  <2>1. Len(t.sent[m]) \in Nat /\ Len(u.sent[m]) \in Nat /\ Len(v.sent[m]) \in Nat
    BY DEF TrackerOK
  <2>2. PICK a, b, c : a = t.sent[m] /\ b = u.sent[m] /\ c = v.sent[m]
    OBVIOUS
  <2>3. /\ Len(a) \in Nat /\ Len(b) \in Nat /\ Len(c) \in Nat
        /\ Extends(a, b) /\ Extends(b, c)
    BY <2>1, <2>2 DEF AllAdvance
  <2>4. Extends(a, c)
    BY <2>3 DEF Extends
  <2> QED BY <2>2, <2>4
<1>2. ASSUME NEW m \in Node, NEW x \in Stream PROVE Advances(t, v, m, x)
  <2> DEFINE a == CounterOf(t.counters, m, x)
             b == CounterOf(u.counters, m, x)
             c == CounterOf(v.counters, m, x)
             p == u.sent[m]
             q == v.sent[m]
             J == Len(t.sent[m])
             K == Len(p)
             L == Len(q)
             first == {i \in J + 1 .. K : p[i].stream = x}
             second == {i \in K + 1 .. L : q[i].stream = x}
             new == {i \in J + 1 .. L : q[i].stream = x}
             g == NeighborsOf(u.overlays, m, x)
             h == NeighborsOf(v.overlays, m, x)
  <2>1. /\ J \in Nat /\ K \in Nat /\ L \in Nat
        /\ a \in Nat /\ b \in Nat /\ c \in Nat
    BY DEF TrackerOK, CountersOK, CounterOf
  <2>2. \A i \in 1 .. L : q[i].counter \in Nat
    <3>1. q \in Seq(InstructionType)
      BY DEF TrackerOK
    <3> HIDE DEF q
    <3>2. \A i \in 1 .. L : q[i] \in InstructionType
      BY <3>1
    <3> QED BY <3>2 DEF InstructionType
  <2>3. J <= K /\ K <= L /\ \A i \in 1 .. K : q[i] = p[i]
    BY DEF AllAdvance, Extends
  <2>4. /\ a <= b
        /\ a = b => g = NeighborsOf(t.overlays, m, x)
        /\ a < b => \E i \in first : p[i].counter = b
        /\ \A i \in first : a < p[i].counter /\ UpTo(p[i].counter, p[i].nodeIds, b, g)
        /\ \A i, j \in first : i < j => p[i].counter < p[j].counter
    BY DEF AllAdvance, Advances
  <2>5. /\ b <= c
        /\ b = c => h = g
        /\ b < c => \E i \in second : q[i].counter = c
        /\ \A i \in second : b < q[i].counter /\ UpTo(q[i].counter, q[i].nodeIds, c, h)
        /\ \A i, j \in second : i < j => q[i].counter < q[j].counter
    BY DEF AllAdvance, Advances
  <2> HIDE DEF a, b, c, p, q, J, K, L, g, h
  <2>6. new = first \cup second /\ \A i \in first : q[i] = p[i]
    BY <2>1, <2>3
  <2>7. \A i \in new : q[i].counter \in Nat
    BY <2>1, <2>2, <2>3
  <2>8. \A i \in first, j \in second : i < j
    BY <2>1
  <2>9. \A i \in first : i \in Nat
    BY <2>1
  <2>10. \A i \in second : i \in Nat
    BY <2>1
  <2> HIDE DEF new, first, second
  <2>11. a <= c /\ (a = c => h = NeighborsOf(t.overlays, m, x))
    BY <2>1, <2>4, <2>5
  <2>12. a < c => \E i \in new : q[i].counter = c
    <3>1. CASE b < c
      BY <2>5, <2>6, <3>1
    <3>2. CASE b = c
      BY <2>4, <2>6, <3>2
    <3> QED BY <2>1, <2>5, <3>1, <3>2
  <2>13. ASSUME NEW i \in new
         PROVE  a < q[i].counter /\ UpTo(q[i].counter, q[i].nodeIds, c, h)
    <3>1. CASE i \in first
      BY <2>1, <2>4, <2>5, <2>6, <2>7, <3>1 DEF UpTo
    <3>2. CASE i \in second
      BY <2>1, <2>4, <2>5, <2>7, <3>2
    <3> QED BY <2>6, <3>1, <3>2
  <2>14. ASSUME NEW i \in new, NEW j \in new, i < j
         PROVE  q[i].counter < q[j].counter
    <3>1. CASE i \in first /\ j \in first
      BY <2>4, <2>6, <2>14, <3>1
    <3>2. CASE i \in first /\ j \in second
      <4>1. q[i].counter <= b /\ b < q[j].counter
        BY <2>4, <2>5, <2>6, <3>2 DEF UpTo
      <4> QED BY <2>1, <2>7, <4>1
    <3>3. CASE i \in second /\ j \in second
      BY <2>5, <2>14, <3>3
    <3>4. CASE i \in second /\ j \in first
      BY <2>8, <2>9, <2>10, <2>14, <3>4
    <3> QED BY <2>6, <3>1, <3>2, <3>3, <3>4
  <2> QED BY <2>11, <2>12, <2>13, <2>14 DEF Advances, a, c, q, J, L, h, new
<1> QED BY <1>1, <1>2 DEF AllAdvance

\* To do nothing
LEMMA AdvancesReflexive ==
    ASSUME NEW t, TrackerOK(t)
    PROVE  AllAdvance(t, t)
<1>1. ASSUME NEW m \in Node
      PROVE  /\ Len(t.sent[m]) \in Nat
             /\ \A x \in Stream : CounterOf(t.counters, m, x) \in Nat
  BY DEF TrackerOK, CountersOK, CounterOf
<1>2. ASSUME NEW m \in Node PROVE Len(t.sent[m]) + 1 .. Len(t.sent[m]) = {}
  BY <1>1
<1>3. ASSUME NEW m \in Node, NEW x \in Stream PROVE Advances(t, t, m, x)
  BY <1>1, <1>2 DEF Advances
<1> QED BY <1>1, <1>3 DEF AllAdvance, Extends

\* formAndSendInstructions for one stream, when nobody in it is over the maximum
LEMMA FormAndSendAdvances ==
    ASSUME NEW t, TrackerOK(t), Bounded(t.overlays), NEW n \in Node, NEW s \in Stream,
           NEW force \in BOOLEAN, NEW v \in FormAndSend(t, n, s, force)
    PROVE  AllAdvance(t, v) /\ Bounded(v.overlays)
<1>0. TrackerOK(v)
  BY FormAndSendKeeps
<1>1. CASE s \notin DOMAIN t.overlays
  <2>1. v = t
    BY <1>1 DEF FormAndSend
  <2> QED BY <2>1, AdvancesReflexive
<1>2. CASE s \in DOMAIN t.overlays
  <2> DEFINE g == t.overlays[s]
  <2>1. PICK h \in Formed(g, n) : Forms(t, s, h, UpdatedNodes(g, h, n, force), v)
    BY <1>2, FormAndSendIs DEF TrackerOK
  <2> DEFINE updated == UpdatedNodes(g, h, n, force)
  <2>2. Sound(g)
    BY <1>2 DEF TrackerOK, OverlaysOK
  <2>3. /\ Sound(h) /\ DOMAIN h = DOMAIN g /\ updated \subseteq DOMAIN g
        /\ DOMAIN g \subseteq Node
    BY <2>2, FormedSound DEF Sound, WellFormed, IsGraph
  <2>4. \A m \in DOMAIN g : Cardinality(g[m]) <= MaxNeighbors
    <3> SUFFICES ASSUME NEW m \in DOMAIN g PROVE Cardinality(g[m]) <= MaxNeighbors
      OBVIOUS
    <3>1. m \in Node /\ NeighborsOf(t.overlays, m, s) = g[m]
      BY <1>2, <2>3 DEF NeighborsOf
    <3> QED BY <3>1 DEF Bounded
  <2>5. /\ \A m \in DOMAIN g : m \notin updated => h[m] = g[m]
        /\ \A m \in DOMAIN g : Cardinality(h[m]) <= MaxNeighbors
    <3>1. CASE n \in DOMAIN g
      BY <2>2, <2>4, <3>1, OthersKeepNeighbors, FormedBounded DEF Sound
    <3>2. CASE n \notin DOMAIN g
      <4>1. h = g
        BY <3>2 DEF Formed
      <4> QED BY <2>4, <4>1
    <3> QED BY <3>1, <3>2
  <2>6. Forms(t, s, h, updated, v)
    BY <2>1
  <2> HIDE DEF g, updated
  <2>7. ASSUME NEW m \in Node, NEW x \in Stream
        PROVE  /\ x = s /\ m \in DOMAIN g => NeighborsOf(v.overlays, m, x) = h[m]
               /\ ~ (x = s /\ m \in updated) =>
                     NeighborsOf(v.overlays, m, x) = NeighborsOf(t.overlays, m, x)
    BY <1>2, <2>3, <2>5, <2>6 DEF Forms, NeighborsOf, g
  <2>8. Bounded(v.overlays)
    <3> SUFFICES ASSUME NEW m \in Node, NEW x \in Stream
                 PROVE  Cardinality(NeighborsOf(v.overlays, m, x)) <= MaxNeighbors
      BY DEF Bounded
    <3>1. CASE x = s /\ m \in DOMAIN g
      BY <2>5, <2>7, <3>1
    <3>2. CASE ~ (x = s /\ m \in DOMAIN g)
      <4>1. NeighborsOf(v.overlays, m, x) = NeighborsOf(t.overlays, m, x)
        BY <2>3, <2>7, <3>2
      <4> QED BY <4>1 DEF Bounded
    <3> QED BY <3>1, <3>2
  <2>9. /\ t.counters \in [DOMAIN t.counters -> Nat]
        /\ \A m \in Node, x \in Stream : CounterOf(t.counters, m, x) \in Nat
    BY DEF TrackerOK, CountersOK, CounterOf
  <2>10. ASSUME NEW m \in Node, NEW x \in Stream
         PROVE  CounterOf(v.counters, m, x)
                  = IF m \in updated /\ x = s THEN CounterOf(t.counters, m, x) + 1
                    ELSE CounterOf(t.counters, m, x)
    <3>1. Incremented(t.counters, updated, s, v.counters)
      BY <2>6, <2>9, CountersIncremented DEF Forms
    <3>2. <<m, x>> \in updated \X {s} <=> m \in updated /\ x = s
      OBVIOUS
    <3>3. <<m, x>>[1] = m /\ <<m, x>>[2] = x
      OBVIOUS
    <3> QED BY <3>1, <3>2, <3>3 DEF Incremented, CounterOf
  <2>11. ASSUME NEW m \in Node, m \notin updated PROVE v.sent[m] = t.sent[m]
    BY <2>6, <2>11 DEF Forms
  <2>12. ASSUME NEW m \in updated
         PROVE  LET k == Len(t.sent[m]) + 1
                IN  /\ k \in Nat /\ Len(v.sent[m]) = k
                    /\ \A i \in 1 .. k - 1 : v.sent[m][i] = t.sent[m][i]
                    /\ v.sent[m][k].stream = s
                    /\ v.sent[m][k].nodeIds = h[m]
                    /\ v.sent[m][k].counter = CounterOf(v.counters, m, s)
    <3> DEFINE i == [stream |-> s, nodeIds |-> h[m], counter |-> v.counters[<<m, s>>]]
               q == t.sent[m]
    <3>1. m \in Node /\ v.sent[m] = Append(q, i)
      BY <2>3, <2>6 DEF Forms
    <3>2. q \in Seq(InstructionType)
      BY <3>1 DEF TrackerOK
    <3>3. i.stream = s /\ i.nodeIds = h[m] /\ i.counter = v.counters[<<m, s>>]
      OBVIOUS
    <3>4. v.counters[<<m, s>>] = CounterOf(v.counters, m, s)
      <4>1. <<m, s>> \in DOMAIN v.counters
        BY <2>6 DEF Forms, SetOrIncrement
      <4> QED BY <4>1 DEF CounterOf
    <3> HIDE DEF i, q
    <3>5. /\ Len(q) + 1 \in Nat /\ Len(v.sent[m]) = Len(q) + 1
          /\ \A j \in 1 .. Len(q) : v.sent[m][j] = q[j]
          /\ v.sent[m][Len(q) + 1] = i
      BY <3>1, <3>2
    <3> QED BY <3>3, <3>4, <3>5 DEF q
  <2>13. ASSUME NEW m \in Node PROVE Extends(t.sent[m], v.sent[m])
    <3>1. CASE m \in updated
      BY <2>12, <3>1 DEF Extends
    <3>2. CASE m \notin updated
      BY <2>11, <3>2 DEF Extends, TrackerOK
    <3> QED BY <3>1, <3>2
  <2>14. ASSUME NEW m \in Node, NEW x \in Stream PROVE Advances(t, v, m, x)
    <3> DEFINE a == CounterOf(t.counters, m, x)
               b == CounterOf(v.counters, m, x)
               new == {i \in Len(t.sent[m]) + 1 .. Len(v.sent[m]) : v.sent[m][i].stream = x}
    <3>1. CASE m \in updated /\ x = s
      <4>1. new = {Len(t.sent[m]) + 1} /\ Len(t.sent[m]) + 1 \in Nat
        BY <2>12, <3>1
      <4>2. b = a + 1 /\ a \in Nat
        BY <2>9, <2>10, <3>1
      <4>3. NeighborsOf(v.overlays, m, x) = h[m]
        BY <2>3, <2>7, <3>1
      <4>4. \A i \in new : v.sent[m][i].counter = b /\ v.sent[m][i].nodeIds = h[m]
        BY <2>12, <3>1, <4>1
      <4> HIDE DEF a, b
      <4>5. /\ \A i \in new : a < v.sent[m][i].counter
                              /\ UpTo(v.sent[m][i].counter, v.sent[m][i].nodeIds, b, h[m])
            /\ \E i \in new : v.sent[m][i].counter = b
        BY <4>1, <4>2, <4>4 DEF UpTo
      <4>6. \A i, j \in new : ~ (i < j)
        BY <4>1
      <4> QED BY <4>2, <4>3, <4>5, <4>6 DEF Advances, a, b
    <3>2. CASE ~ (m \in updated /\ x = s)
      <4>1. b = a /\ a \in Nat
        BY <2>9, <2>10, <3>2
      <4>2. NeighborsOf(v.overlays, m, x) = NeighborsOf(t.overlays, m, x)
        BY <2>7, <3>2
      <4>3. new = {}
        <5>1. CASE m \in updated
          BY <2>12, <3>2, <5>1
        <5>2. CASE m \notin updated
          BY <2>11, <5>2 DEF TrackerOK
        <5> QED BY <5>1, <5>2
      <4> QED BY <4>1, <4>2, <4>3 DEF Advances
    <3> QED BY <3>1, <3>2
  <2> QED BY <2>8, <2>13, <2>14 DEF AllAdvance
<1> QED BY <1>1, <1>2

\* formAndSendInstructions for several streams
LEMMA FormAndSendAllAdvances ==
    ASSUME NEW t, TrackerOK(t), Bounded(t.overlays), NEW n \in Node, NEW S \in SUBSET Stream,
           NEW v \in FormAndSendAll(t, n, S)
    PROVE  AllAdvance(t, v) /\ Bounded(v.overlays)
<1>0. PICK N, order, reached : N \in Nat /\ StreamsInTurn(t, n, S, v, N, order, reached)
  BY FormAndSendAllTurns
<1> N \in Nat
  BY <1>0
<1>1. /\ N \in Nat
      /\ reached[0] = {t}
      /\ \A i \in 1 .. N : order[i] \in S
      /\ \A i \in 1 .. N : \A w \in reached[i] : \E u \in reached[i - 1] :
            w \in FormAndSend(u, n, order[i], FALSE)
      /\ v \in reached[N]
  BY <1>0 DEF StreamsInTurn
<1> DEFINE Fine(u) == TrackerOK(u) /\ AllAdvance(t, u) /\ Bounded(u.overlays)
           Good == {i \in 0 .. N : \A u \in reached[i] : Fine(u)}
<1>2. 0 \in Good
  <2>1. Fine(t)
    BY AdvancesReflexive
  <2> HIDE DEF Fine
  <2> QED BY <1>1, <2>1
<1>3. ASSUME NEW i \in 1 .. N, i - 1 \in Good PROVE i \in Good
  <2> SUFFICES ASSUME NEW w \in reached[i] PROVE Fine(w)
    OBVIOUS
  <2>1. PICK u \in reached[i - 1] : w \in FormAndSend(u, n, order[i], FALSE)
    BY <1>1
  <2>2. Fine(u)
    BY <1>3
  <2>3. TrackerOK(w) /\ AllAdvance(u, w) /\ Bounded(w.overlays)
    <3>1. order[i] \in Stream
      BY <1>1
    <3> QED BY <2>1, <2>2, <3>1, FormAndSendKeeps, FormAndSendAdvances
  <2> QED BY <2>2, <2>3, AdvancesTransitive
<1> HIDE DEF Good
<1>4. N \in Good
  BY <1>2, <1>3, LoopInduction
<1> QED BY <1>1, <1>4 DEF Good

\* The tracker sends nothing, and what it knows of the links and has counted is the same.
SameView(t, v) ==
    /\ v.sent = t.sent
    /\ \A m \in Node, x \in Stream :
          /\ CounterOf(v.counters, m, x) = CounterOf(t.counters, m, x)
          /\ NeighborsOf(v.overlays, m, x) = NeighborsOf(t.overlays, m, x)

\* Where nothing changes, nobody has to be told.
LEMMA SameViewAdvances ==
    ASSUME NEW t, NEW v, TrackerOK(t), SameView(t, v)
    PROVE  AllAdvance(t, v)
<1>1. \A m \in Node : Extends(t.sent[m], v.sent[m])
  BY DEF SameView, TrackerOK, Extends
<1>2. ASSUME NEW m \in Node, NEW x \in Stream PROVE Advances(t, v, m, x)
  <2>1. Len(t.sent[m]) \in Nat /\ CounterOf(t.counters, m, x) \in Nat
    BY DEF TrackerOK, CountersOK, CounterOf
  <2>2. Len(t.sent[m]) + 1 .. Len(v.sent[m]) = {}
    BY <2>1 DEF SameView
  <2> QED BY <2>1, <2>2 DEF Advances, SameView
<1> QED BY <1>1, <1>2 DEF AllAdvance

\* A report of the neighbors a node has in the overlay, or of none by a node that
\* is not there yet, changes no link.
LEMMA UpdatedAsItIs ==
    ASSUME NEW g, WellFormed(g), NEW n \in Node, NEW S,
           S = IF n \in DOMAIN g THEN g[n] ELSE {}
    PROVE  LET h == Updated(g, n, S)
           IN  /\ DOMAIN h = DOMAIN g \cup {n}
               /\ \A m \in DOMAIN g : h[m] = g[m]
               /\ n \notin DOMAIN g => h[n] = {}
<1> DEFINE known == {m \in S : m \in DOMAIN g /\ m # n}
           h == Updated(g, n, S)
<1>1. DOMAIN h = DOMAIN g \cup {n}
  BY DEF Updated
<1>2. ASSUME NEW m \in DOMAIN h
      PROVE  h[m] = IF m = n THEN known
                    ELSE IF m \in known THEN g[m] \cup {n} ELSE g[m] \ {n}
  BY <1>1 DEF Updated
<1> HIDE DEF h
<1>3. known = S
  BY DEF WellFormed, IsGraph, IrreflexiveGraph
<1>4. ASSUME NEW m \in DOMAIN g, m # n PROVE m \in S <=> n \in g[m]
  BY <1>4 DEF WellFormed, IsGraph, SymmetricGraph
<1>5. ASSUME NEW m \in DOMAIN g PROVE h[m] = g[m]
  <2>1. CASE m = n
    BY <1>1, <1>2, <1>3, <2>1
  <2>2. CASE m # n
    <3>1. m \in known => g[m] \cup {n} = g[m]
      BY <1>3, <1>4, <2>2
    <3>2. m \notin known => g[m] \ {n} = g[m]
      BY <1>3, <1>4, <2>2
    <3> QED BY <1>1, <1>2, <2>2, <3>1, <3>2
  <2> QED BY <2>1, <2>2
<1>6. n \notin DOMAIN g => h[n] = {}
  BY <1>1, <1>2, <1>3
<1> QED BY <1>1, <1>5, <1>6 DEF h

\* updateNode for the streams that pass the filter, when what is reported is not
\* newer than what the tracker knows
LEMMA UpdateKeepsView ==
    ASSUME NEW t, TrackerOK(t), NEW n \in Node, NEW S, S \subseteq DOMAIN t.overlays,
           NEW reports, \A s \in S : reports[s].neighbors = NeighborsOf(t.overlays, n, s),
           NEW v \in {UpdateOverlays(t, n, S, reports)}
    PROVE  SameView(t, v)
<1> DEFINE o == [s \in DOMAIN t.overlays |->
                   IF s \in S THEN Updated(t.overlays[s], n, reports[s].neighbors)
                   ELSE t.overlays[s]]
<1>1. v = [overlays |-> o, counters |-> t.counters, sent |-> t.sent]
  <2>1. v = [t EXCEPT !.overlays = o]
    BY DEF UpdateOverlays
  <2>2. IsRecord(t)
    BY DEF TrackerOK
  <2> HIDE DEF o
  <2> QED BY <2>1, <2>2 DEF IsRecord
<1>2. v.overlays = o /\ v.counters = t.counters /\ v.sent = t.sent
  BY <1>1
<1>3. ASSUME NEW m \in Node, NEW x \in Stream
      PROVE  NeighborsOf(o, m, x) = NeighborsOf(t.overlays, m, x)
  <2>1. CASE x \in S
    <3> DEFINE g == t.overlays[x]
               h == Updated(g, n, reports[x].neighbors)
    <3>1. x \in DOMAIN t.overlays /\ WellFormed(g)
      BY <2>1 DEF TrackerOK, OverlaysOK, Sound
    <3>2. reports[x].neighbors = IF n \in DOMAIN g THEN g[n] ELSE {}
      BY <2>1, <3>1 DEF NeighborsOf
    <3>3. x \in DOMAIN o /\ o[x] = h
      BY <2>1, <3>1
    <3> HIDE DEF o
    <3>4. /\ DOMAIN h = DOMAIN g \cup {n}
          /\ \A y \in DOMAIN g : h[y] = g[y]
          /\ n \notin DOMAIN g => h[n] = {}
      BY <3>1, <3>2, UpdatedAsItIs
    <3> HIDE DEF h
    <3> QED BY <3>1, <3>3, <3>4 DEF NeighborsOf
  <2>2. CASE x \notin S
    BY <2>2 DEF NeighborsOf
  <2> QED BY <2>1, <2>2
<1> HIDE DEF o
<1> QED BY <1>2, <1>3 DEF SameView

\* A node that is not in an overlay leaves it: no instructions are formed, and the
\* tracker forgets the node's counters, which are all zero.
LEMMA LeaveOtherKeepsView ==
    ASSUME NEW t, TrackerOK(t), NEW n \in Node, NEW s \in DOMAIN t.overlays,
           n \notin DOMAIN t.overlays[s], DOMAIN t.overlays[s] # {},
           \A x \in Stream : CounterOf(t.counters, n, x) = 0,
           NEW v \in LeaveAndCheckEmptyOverlay(t, n, s)
    PROVE  SameView(t, v) /\ v.overlays = t.overlays
<1> DEFINE c == RemoveNode(t.counters, n)
           u == [overlays |-> t.overlays, counters |-> c, sent |-> t.sent]
           o == Put(t.overlays, s, t.overlays[s])
<1>1. o = t.overlays
  BY DEF Put, TrackerOK, OverlaysOK
<1>2. v \in FormAndSendToEach([t EXCEPT !.overlays = o, !.counters = c], {}, s)
  BY DEF LeaveAndCheckEmptyOverlay
<1> HIDE DEF o, c
<1>3. PICK w : w = [t EXCEPT !.overlays = o, !.counters = c]
  OBVIOUS
<1>4. v \in FormAndSendToEach(u, {}, s)
  <2>1. IsRecord(t)
    BY DEF TrackerOK
  <2>2. w = [overlays |-> o, counters |-> c, sent |-> t.sent]
    BY <1>3, <2>1 DEF IsRecord
  <2>3. w = u
    BY <1>1, <2>2
  <2> QED BY <1>2, <1>3, <2>3
<1>5. v = u
  <2> HIDE DEF u
  <2>0. PICK N, order, reached : N \in Nat /\ NodesInTurn(u, {}, s, v, N, order, reached)
    BY <1>4, FS_EmptySet, FormAndSendToEachTurns
  <2>1. /\ N \in Nat
        /\ reached[0] = {u}
        /\ \A i \in 1 .. N : order[i] \in {}
        /\ v \in reached[N]
    BY <2>0 DEF NodesInTurn
  <2> N \in Nat
    BY <2>1
  <2>2. N = 0
    <3> SUFFICES ASSUME N # 0 PROVE FALSE
      OBVIOUS
    <3>1. 1 \in 1 .. N
      OBVIOUS
    <3> QED BY <2>1, <3>1
  <2> QED BY <2>1, <2>2
<1>6. v.overlays = t.overlays /\ v.counters = c /\ v.sent = t.sent
  BY <1>5
<1>7. ASSUME NEW m \in Node, NEW x \in Stream
      PROVE  CounterOf(c, m, x) = CounterOf(t.counters, m, x)
  <2>1. <<m, x>> \in DOMAIN c <=> <<m, x>> \in DOMAIN t.counters /\ m # n
    BY DEF RemoveNode, Restrict, c
  <2>2. <<m, x>> \in DOMAIN c => c[<<m, x>>] = t.counters[<<m, x>>]
    BY DEF RemoveNode, Restrict, c
  <2> QED BY <2>1, <2>2 DEF CounterOf
<1> HIDE DEF u
<1> QED BY <1>6, <1>7 DEF SameView

\* A node that reports all its streams for the first time leaves the others.
LEMMA LeaveAllKeepsView ==
    ASSUME NEW t, TrackerOK(t), NEW n \in Node, NEW S \in SUBSET DOMAIN t.overlays,
           \A s \in S : n \notin DOMAIN t.overlays[s] /\ DOMAIN t.overlays[s] # {},
           \A x \in Stream : CounterOf(t.counters, n, x) = 0,
           NEW v \in LeaveAll(t, n, S)
    PROVE  SameView(t, v)
<1>1. PICK N, order, reached : N \in Nat /\ LeavesInTurn(t, n, S, v, N, order, reached)
  <2>1. S \subseteq Stream /\ v \in LeaveAll(t, n, S)
    BY DEF TrackerOK, OverlaysOK
  <2> QED BY <2>1, LeaveAllTurns
<1> N \in Nat
  BY <1>1
<1>2. /\ reached[0] = {t}
      /\ \A i \in 1 .. N : order[i] \in S
      /\ \A i \in 1 .. N : \A w \in reached[i] : \E u \in reached[i - 1] :
            w \in LeaveAndCheckEmptyOverlay(u, n, order[i])
      /\ v \in reached[N]
  BY <1>1 DEF LeavesInTurn
<1> DEFINE Fine(u) == TrackerOK(u) /\ SameView(t, u) /\ u.overlays = t.overlays
           Good == {i \in 0 .. N : \A u \in reached[i] : Fine(u)}
<1>3. 0 \in Good
  <2>1. Fine(t)
    BY DEF SameView
  <2> HIDE DEF Fine
  <2> QED BY <1>2, <2>1
<1>4. ASSUME NEW i \in 1 .. N, i - 1 \in Good PROVE i \in Good
  <2> SUFFICES ASSUME NEW w \in reached[i] PROVE Fine(w)
    OBVIOUS
  <2>1. PICK u \in reached[i - 1] : w \in LeaveAndCheckEmptyOverlay(u, n, order[i])
    BY <1>2
  <2>2. Fine(u)
    BY <1>4
  <2>3. /\ order[i] \in DOMAIN u.overlays
        /\ n \notin DOMAIN u.overlays[order[i]] /\ DOMAIN u.overlays[order[i]] # {}
    BY <1>2, <2>2
  <2>4. \A x \in Stream : CounterOf(u.counters, n, x) = 0
    BY <2>2 DEF SameView
  <2>5. TrackerOK(w) /\ SameView(u, w) /\ w.overlays = u.overlays
    <3> DEFINE x == order[i]
    <3>1. x \in DOMAIN u.overlays /\ TrackerOK(u) /\ w \in LeaveAndCheckEmptyOverlay(u, n, x)
      BY <2>1, <2>2, <2>3
    <3>2. n \notin DOMAIN u.overlays[x] /\ DOMAIN u.overlays[x] # {}
      BY <2>3
    <3> HIDE DEF x, Fine
    <3>3. TrackerOK(w)
      BY <3>1, LeaveAndCheckKeeps
    <3> QED BY <2>4, <3>1, <3>2, <3>3, LeaveOtherKeepsView
  <2> QED BY <2>2, <2>5 DEF SameView
<1> HIDE DEF Good
<1>5. N \in Good
  BY <1>3, <1>4, LoopInduction
<1> QED BY <1>2, <1>5 DEF Good

\* One part of a handler after the other
LEMMA SameViewTransitive ==
    ASSUME NEW t, NEW u, NEW v, SameView(t, u), SameView(u, v)
    PROVE  SameView(t, v)
BY DEF SameView

\* What a node reports of a stream is not newer than what the tracker knows.
NotNewer(n, reports, c, o) ==
    \A s \in DOMAIN reports :
        /\ reports[s].counter # Unsubscribed
        /\ UpTo(reports[s].counter, reports[s].neighbors,
                CounterOf(c, n, s), NeighborsOf(o, n, s))

\* The first lines of processNodeStatus change nothing of what the tracker knows.
LEMMA PreparedKeepsView ==
    ASSUME TrackerOK(State), NEW n \in Node, NEW S \in SUBSET Stream,
           NEW t, t = Prepared(n, S)
    PROVE  SameView(State, t)
<1> DEFINE c == SetIfNecessary(counters, n, S)
           o == CreateNewOverlayTopologies(overlayPerStream, S)
<1>1. /\ t.overlays = o /\ t.counters = c /\ t.sent = NoSends
      /\ State.overlays = overlayPerStream /\ State.counters = counters
      /\ State.sent = NoSends
  BY DEF Prepared, State
<1>2. ASSUME NEW m \in Node, NEW x \in Stream
      PROVE  CounterOf(c, m, x) = CounterOf(counters, m, x)
  <2>1. DOMAIN c = DOMAIN counters \cup ({n} \X S)
    BY DEF SetIfNecessary
  <2>2. <<m, x>> \in DOMAIN c => c[<<m, x>>] = CounterOf(counters, m, x)
    <3>1. <<m, x>>[1] = m /\ <<m, x>>[2] = x
      OBVIOUS
    <3> QED BY <2>1, <3>1 DEF SetIfNecessary
  <2> HIDE DEF c
  <2> QED BY <2>1, <2>2 DEF CounterOf
<1>3. ASSUME NEW m \in Node, NEW x \in Stream
      PROVE  NeighborsOf(o, m, x) = NeighborsOf(overlayPerStream, m, x)
  <2>1. CASE x \in DOMAIN overlayPerStream
    BY <2>1 DEF NeighborsOf, CreateNewOverlayTopologies
  <2>2. CASE x \notin DOMAIN overlayPerStream
    BY <2>2 DEF NeighborsOf, CreateNewOverlayTopologies, EmptyGraph
  <2> QED BY <2>1, <2>2
<1> HIDE DEF c, o
<1> QED BY <1>1, <1>2, <1>3 DEF SameView

\* processNodeStatus, when nothing newer than what the tracker knows is reported, no
\* stream is left and a node that reports all its streams is new to the tracker:
\* the report itself changes no link, the instructions formed for it do.
LEMMA StatusAdvances ==
    ASSUME TrackerOK(State), Occupied(overlayPerStream), Bounded(overlayPerStream),
           NEW n \in Node, NEW reports, NEW singleStream, StatusOK(reports, singleStream),
           NotNewer(n, reports, counters, overlayPerStream),
           ~ singleStream => \A s \in DOMAIN overlayPerStream :
                                n \notin DOMAIN overlayPerStream[s],
           NEW v \in StatusOutcomes(n, reports, singleStream)
    PROVE  AllAdvance(State, v) /\ Bounded(v.overlays)
<1> DEFINE S == DOMAIN reports
           F == FilteredStreams(counters, n, reports)
           o == overlayPerStream
<1>1. PICK t : t = Prepared(n, S)
  OBVIOUS
<1>2. /\ TrackerOK(t)
      /\ DOMAIN t.overlays = DOMAIN o \cup S
      /\ \A s \in DOMAIN o : t.overlays[s] = o[s]
  BY <1>1, StatusInParts
<1>3. PICK u \in IF singleStream THEN UpdateNodeOnStream(t, n, F, reports)
                 ELSE UpdateNode(t, n, F, reports) :
          v \in FormAndSendAll(u, n, S)
  BY <1>1, StatusInParts
<1>4. S \in SUBSET Stream /\ F \subseteq S
  BY DEF StatusOK, FilteredStreams
<1>5. PICK z : z = State
  OBVIOUS
<1>6. /\ TrackerOK(z) /\ Bounded(z.overlays) /\ z.overlays = o /\ z.counters = counters
  BY <1>5 DEF State
<1>7. SameView(z, t)
  BY <1>1, <1>4, <1>5, PreparedKeepsView
<1>8. \A m \in Node, x \in Stream :
         /\ CounterOf(t.counters, m, x) = CounterOf(counters, m, x)
         /\ NeighborsOf(t.overlays, m, x) = NeighborsOf(o, m, x)
  BY <1>6, <1>7 DEF SameView
<1>9. ASSUME NEW s \in F
      PROVE  reports[s].neighbors = NeighborsOf(t.overlays, n, s)
  <2> DEFINE k == reports[s].counter
             c == CounterOf(counters, n, s)
  <2>1. k # Unsubscribed /\ k \in Nat
    BY <1>4 DEF NotNewer, StatusOK
  <2>2. c \in Nat
    BY <1>4, <1>6 DEF TrackerOK, CountersOK, CounterOf
  <2>3. k >= c
    BY <2>1 DEF FilteredStreams
  <2>4. UpTo(k, reports[s].neighbors, c, NeighborsOf(o, n, s))
    BY <1>4 DEF NotNewer
  <2> HIDE DEF k, c
  <2>5. reports[s].neighbors = NeighborsOf(o, n, s)
    BY <2>1, <2>2, <2>3, <2>4 DEF UpTo
  <2> QED BY <1>4, <1>8, <2>5
<1>10. ASSUME NEW S1 \in SUBSET F, NEW w \in {UpdateOverlays(t, n, S1, reports)}
       PROVE  TrackerOK(w) /\ Updates(t, w, n, S1) /\ SameView(t, w)
  <2>1. S1 \subseteq DOMAIN t.overlays
    BY <1>2, <1>4
  <2>2. \A s \in S1 : reports[s].neighbors = NeighborsOf(t.overlays, n, s)
    BY <1>9
  <2> HIDE DEF F
  <2> QED BY <1>2, <2>1, <2>2, UpdateOverlaysKeeps, UpdateKeepsView
<1> HIDE DEF F
<1>11. TrackerOK(u) /\ SameView(t, u)
  <2>1. CASE singleStream
    <3>1. u \in UpdateNodeOnStream(t, n, F, reports)
      BY <1>3, <2>1
    <3>2. CASE Cardinality(F) = 1
      <4>1. PICK s \in Stream : S = {s}
        BY <2>1 DEF StatusOK
      <4>2. F = {s}
        BY <1>4, <3>2, <4>1, FS_EmptySet
      <4>3. (CHOOSE x \in F : TRUE) = s
        BY <4>2
      <4>4. reports[s].counter # Unsubscribed
        BY <4>1 DEF NotNewer
      <4>5. u \in {UpdateOverlays(t, n, F, reports)}
        BY <3>1, <3>2, <4>2, <4>3, <4>4 DEF UpdateNodeOnStream
      <4> QED BY <1>10, <4>5
    <3>3. CASE Cardinality(F) # 1
      <4>1. u = t
        BY <3>1, <3>3 DEF UpdateNodeOnStream
      <4> QED BY <1>2, <4>1 DEF SameView
    <3> QED BY <3>2, <3>3
  <2>2. CASE ~ singleStream
    <3>1. PICK w \in {UpdateOverlays(t, n, F, reports)} :
             u \in LeaveAll(w, n, DOMAIN w.overlays \ S)
      BY <1>3, <2>2 DEF UpdateNode
    <3>2. TrackerOK(w) /\ Updates(t, w, n, F) /\ SameView(t, w)
      BY <1>10, <3>1
    <3>3. ASSUME NEW s \in DOMAIN w.overlays \ S
          PROVE  n \notin DOMAIN w.overlays[s] /\ DOMAIN w.overlays[s] # {}
      <4>1. s \in DOMAIN o /\ w.overlays[s] = o[s]
        BY <1>2, <1>4, <3>2 DEF Updates
      <4> QED BY <2>2, <4>1 DEF Occupied
    <3>4. ASSUME NEW x \in Stream PROVE CounterOf(w.counters, n, x) = 0
      <4>1. CounterOf(counters, n, x) = 0
        <5>1. /\ counters \in [DOMAIN counters -> Nat]
              /\ <<n, x>> \in DOMAIN counters =>
                    x \in DOMAIN o /\ (counters[<<n, x>>] > 0 => n \in DOMAIN o[x])
          BY <1>6 DEF TrackerOK, CountersOK
        <5>2. <<n, x>> \in DOMAIN counters => counters[<<n, x>>] = 0
          BY <2>2, <5>1
        <5> QED BY <5>2 DEF CounterOf
      <4> QED BY <1>8, <3>2, <4>1 DEF SameView
    <3>5. SameView(w, u)
      BY <3>1, <3>2, <3>3, <3>4, LeaveAllKeepsView
    <3>6. TrackerOK(u)
      BY <3>1, <3>2, LeaveAllKeeps
    <3> QED BY <3>2, <3>5, <3>6, SameViewTransitive
  <2> QED BY <2>1, <2>2
<1>12. SameView(z, u)
  BY <1>7, <1>11, SameViewTransitive
<1>13. Bounded(u.overlays)
  BY <1>6, <1>12 DEF Bounded, SameView
<1>14. AllAdvance(u, v) /\ Bounded(v.overlays)
  BY <1>3, <1>4, <1>11, <1>13, FormAndSendAllAdvances
<1>15. TrackerOK(v)
  BY <1>3, <1>4, <1>11, FormAndSendAllKeeps
<1>16. AllAdvance(z, u)
  BY <1>6, <1>12, SameViewAdvances
<1> QED BY <1>5, <1>6, <1>11, <1>14, <1>15, <1>16, AdvancesTransitive

-----------------------------------------------------------------------------
(***************************************************************************)
(* What nodes and tracker know of each other when nobody leaves            *)
(***************************************************************************)
\* The state of a stream at a node, which a stream it does not have starts from
Has(ss, s) == IF s \in DOMAIN ss THEN ss[s] ELSE NewStream

\* The instructions about s in q
About(q, s) == {i \in 1 .. Len(q) : q[i].stream = s}

\* A node whose state of the stream s is v, with the instructions q in flight to it,
\* comes to know the neighbors g, which the tracker counts as c: each instruction is
\* newer than the node's state and the ones before it, and the newest one, or the
\* node's state if there is none, is up to date.
Follows(v, q, s, c, g) ==
    /\ UpTo(v.counter, v.neighbors, c, g)
    /\ \A i \in About(q, s) : v.counter < q[i].counter /\ UpTo(q[i].counter, q[i].nodeIds, c, g)
    /\ \A i, j \in About(q, s) : i < j => q[i].counter < q[j].counter
    /\ v.counter = c \/ \E i \in About(q, s) : q[i].counter = c

\* Every node comes to know its neighbors in every stream.
FollowsInv ==
    \A n \in Node, s \in Stream :
        Follows(Has(streams[n], s), toNode[n], s,
                CounterOf(counters, n, s), NeighborsOf(overlayPerStream, n, s))

\* The throttler accepted nothing newer than what the node's streams have.
AcceptedInv ==
    /\ accepted = [n \in Node |-> accepted[n]]
    /\ \A n \in Node : \A s \in DOMAIN accepted[n] :
          accepted[n][s] \in Nat /\ accepted[n][s] <= Has(streams[n], s).counter

\* The status n sends when it connects is the first one in flight, and the tracker
\* has n in no overlay until it arrives.
ReportsInv ==
    \A n \in Node : \A i \in 1 .. Len(toTracker[n]) :
        /\ NotNewer(n, toTracker[n][i].reports, counters, overlayPerStream)
        /\ ~ toTracker[n][i].singleStream =>
              i = 1 /\ \A s \in Stream : n \notin Members(overlayPerStream, s)

JoinInv == FollowsInv /\ AcceptedInv /\ ReportsInv /\ Bounded(overlayPerStream)

\* Nobody has a stream.
LEMMA InitJoin == Init => JoinInv
<1> SUFFICES ASSUME Init PROVE JoinInv
  OBVIOUS
<1>1. /\ overlayPerStream = [s \in {} |-> EmptyGraph] /\ counters = [p \in {} |-> 0]
      /\ streams = [n \in Node |-> [s \in {} |-> NewStream]]
      /\ accepted = [n \in Node |-> [s \in {} |-> 0]]
      /\ toTracker = [n \in Node |-> <<>>] /\ toNode = [n \in Node |-> <<>>]
  BY DEF Init, TrackerInit
<1>2. \A n \in Node, s \in Stream : /\ CounterOf(counters, n, s) = 0
                                    /\ NeighborsOf(overlayPerStream, n, s) = {}
                                    /\ Has(streams[n], s) = NewStream
  BY <1>1 DEF CounterOf, NeighborsOf, Has
<1>3. FollowsInv
  <2>1. \A s : Follows(NewStream, <<>>, s, 0, {})
    BY DEF Follows, NewStream, UpTo, About
  <2> QED BY <1>1, <1>2, <2>1 DEF FollowsInv
<1>4. AcceptedInv
  BY <1>1 DEF AcceptedInv
<1>5. ReportsInv
  BY <1>1 DEF ReportsInv
<1>6. Bounded(overlayPerStream)
  BY <1>2, FS_EmptySet, MaxNeighborsAssumption DEF Bounded
<1> QED BY <1>3, <1>4, <1>5, <1>6 DEF JoinInv

\* A node that handles its first instruction has the state the instruction gives.
LEMMA FollowsOnTail ==
    ASSUME NEW v, NEW q \in Seq(InstructionType), q # <<>>, NEW s, NEW c \in Nat, NEW g,
           Follows(v, q, s, c, g),
           NEW w, w = IF Head(q).stream = s
                      THEN [neighbors |-> Head(q).nodeIds, counter |-> Head(q).counter] ELSE v
    PROVE  Follows(w, Tail(q), s, c, g)
<1> DEFINE r == Tail(q)
           N == Len(q)
<1>1. /\ N \in Nat /\ N >= 1 /\ Len(r) = N - 1 /\ Head(q) = q[1]
      /\ \A i \in 1 .. N - 1 : r[i] = q[i + 1]
  OBVIOUS
<1>2. \A i \in 1 .. N : q[i].counter \in Nat
  <2>1. \A i \in 1 .. N : q[i] \in InstructionType
    OBVIOUS
  <2> QED BY <2>1 DEF InstructionType
<1> HIDE DEF r, N
<1>3. ASSUME NEW i \in About(r, s)
      PROVE  i \in Nat /\ i >= 1 /\ i + 1 \in About(q, s) /\ r[i] = q[i + 1]
  BY <1>1 DEF About, N, r
<1>4. ASSUME NEW i \in About(q, s), i # 1
      PROVE  i - 1 \in About(r, s) /\ r[i - 1] = q[i]
  <2>1. i \in 1 .. N /\ i - 1 \in 1 .. N - 1 /\ (i - 1) + 1 = i
    BY <1>1, <1>4 DEF About, N
  <2> QED BY <1>1, <2>1 DEF About, r
<1>5. 1 \in About(q, s) <=> q[1].stream = s
  BY <1>1 DEF About, N
<1>6. CASE q[1].stream = s
  <2>1. w.neighbors = q[1].nodeIds /\ w.counter = q[1].counter
    BY <1>1, <1>6
  <2>2. UpTo(w.counter, w.neighbors, c, g)
    BY <1>5, <1>6, <2>1 DEF Follows
  <2>3. ASSUME NEW i \in About(r, s)
        PROVE  w.counter < r[i].counter /\ UpTo(r[i].counter, r[i].nodeIds, c, g)
    <3>1. 1 < i + 1
      BY <1>3
    <3> QED BY <1>3, <1>5, <1>6, <2>1, <3>1 DEF Follows
  <2>4. \A i, j \in About(r, s) : i < j => r[i].counter < r[j].counter
    <3> SUFFICES ASSUME NEW i \in About(r, s), NEW j \in About(r, s), i < j
                 PROVE  r[i].counter < r[j].counter
      OBVIOUS
    <3>1. i + 1 < j + 1
      BY <1>3
    <3> QED BY <1>3, <3>1 DEF Follows
  <2>5. w.counter = c \/ \E i \in About(r, s) : r[i].counter = c
    <3>1. PICK i \in About(q, s) : q[i].counter = c
      <4>1. v.counter < q[1].counter /\ q[1].counter <= c
        BY <1>5, <1>6 DEF Follows, UpTo
      <4>2. v.counter # c \/ q[1].counter = c
        BY <1>1, <1>2, <4>1
      <4> QED BY <1>5, <1>6, <4>2 DEF Follows
    <3>2. CASE i = 1
      BY <2>1, <3>1, <3>2
    <3>3. CASE i # 1
      BY <1>4, <3>1, <3>3
    <3> QED BY <3>2, <3>3
  <2> QED BY <2>2, <2>3, <2>4, <2>5 DEF Follows, r
<1>7. CASE q[1].stream # s
  <2>1. w = v
    BY <1>1, <1>7
  <2>2. \A i \in About(r, s) :
           v.counter < r[i].counter /\ UpTo(r[i].counter, r[i].nodeIds, c, g)
    BY <1>3 DEF Follows
  <2>3. \A i, j \in About(r, s) : i < j => r[i].counter < r[j].counter
    <3> SUFFICES ASSUME NEW i \in About(r, s), NEW j \in About(r, s), i < j
                 PROVE  r[i].counter < r[j].counter
      OBVIOUS
    <3>1. i + 1 < j + 1
      BY <1>3
    <3> QED BY <1>3, <3>1 DEF Follows
  <2>4. v.counter = c \/ \E i \in About(r, s) : r[i].counter = c
    BY <1>4, <1>5, <1>7 DEF Follows
  <2> QED BY <2>1, <2>2, <2>3, <2>4 DEF Follows, r
<1> QED BY <1>6, <1>7

\* What the tracker sends in a step brings the node up to date.
LEMMA FollowsOnSend ==
    ASSUME NEW v, v.counter \in Nat, NEW q \in Seq(InstructionType), NEW m \in Node, NEW s \in Stream,
           NEW t, NEW u, TrackerOK(t), TrackerOK(u), t.sent[m] = <<>>,
           Follows(v, q, s, CounterOf(t.counters, m, s), NeighborsOf(t.overlays, m, s)),
           Advances(t, u, m, s)
    PROVE  Follows(v, q \o u.sent[m], s,
                   CounterOf(u.counters, m, s), NeighborsOf(u.overlays, m, s))
<1> DEFINE a == CounterOf(t.counters, m, s)
           b == CounterOf(u.counters, m, s)
           g == NeighborsOf(t.overlays, m, s)
           h == NeighborsOf(u.overlays, m, s)
           p == u.sent[m]
           r == q \o p
           K == Len(q)
           L == Len(p)
           new == {i \in Len(t.sent[m]) + 1 .. L : p[i].stream = s}
<1>1. a \in Nat /\ b \in Nat /\ p \in Seq(InstructionType)
  BY DEF TrackerOK, CountersOK, CounterOf
<1>2. new = About(p, s)
  BY DEF About
<1>3. /\ a <= b
      /\ a = b => h = g
      /\ a < b => \E i \in About(p, s) : p[i].counter = b
      /\ \A i \in About(p, s) : a < p[i].counter /\ UpTo(p[i].counter, p[i].nodeIds, b, h)
      /\ \A i, j \in About(p, s) : i < j => p[i].counter < p[j].counter
  BY <1>2 DEF Advances
<1>4. /\ UpTo(v.counter, v.neighbors, a, g)
      /\ \A i \in About(q, s) : v.counter < q[i].counter /\ UpTo(q[i].counter, q[i].nodeIds, a, g)
      /\ \A i, j \in About(q, s) : i < j => q[i].counter < q[j].counter
      /\ v.counter = a \/ \E i \in About(q, s) : q[i].counter = a
  BY DEF Follows
<1> HIDE DEF a, b, g, h, p
<1>5. /\ K \in Nat /\ L \in Nat /\ Len(r) = K + L
      /\ \A i \in 1 .. K : r[i] = q[i]
      /\ \A i \in K + 1 .. K + L : r[i] = p[i - K]
  BY <1>1
<1>6. /\ \A i \in 1 .. K : q[i].counter \in Nat
      /\ \A i \in 1 .. L : p[i].counter \in Nat
  <2>1. /\ \A i \in 1 .. K : q[i] \in InstructionType
        /\ \A i \in 1 .. L : p[i] \in InstructionType
    BY <1>1
  <2> QED BY <2>1 DEF InstructionType
<1> HIDE DEF r, K, L
<1>7. ASSUME NEW i \in About(r, s)
      PROVE  \/ i \in About(q, s) /\ i \in 1 .. K /\ r[i] = q[i]
             \/ i - K \in About(p, s) /\ i \in K + 1 .. K + L /\ r[i] = p[i - K]
                /\ r[i].counter \in Nat
  <2>1. i \in 1 .. K + L /\ r[i].stream = s
    BY <1>5 DEF About
  <2>2. CASE i \in 1 .. K
    BY <1>5, <2>1, <2>2 DEF About, K
  <2>3. CASE i \in K + 1 .. K + L
    <3>1. i - K \in 1 .. L
      BY <1>5, <2>3
    <3> QED BY <1>5, <1>6, <2>1, <2>3, <3>1 DEF About, L
  <2> QED BY <1>5, <2>1, <2>2, <2>3
<1>8. UpTo(v.counter, v.neighbors, b, h)
  BY <1>1, <1>3, <1>4 DEF UpTo
<1>9. ASSUME NEW i \in About(r, s)
      PROVE  v.counter < r[i].counter /\ UpTo(r[i].counter, r[i].nodeIds, b, h)
  <2>1. CASE i \in About(q, s) /\ i \in 1 .. K /\ r[i] = q[i]
    BY <1>1, <1>3, <1>4, <1>6, <2>1 DEF UpTo
  <2>2. CASE i - K \in About(p, s) /\ r[i] = p[i - K] /\ r[i].counter \in Nat
    <3>1. a < r[i].counter /\ UpTo(r[i].counter, r[i].nodeIds, b, h)
      BY <1>3, <2>2
    <3>2. v.counter <= a
      BY <1>4 DEF UpTo
    <3> QED BY <1>1, <2>2, <3>1, <3>2
  <2> QED BY <1>7, <2>1, <2>2
<1>10. ASSUME NEW i \in About(r, s), NEW j \in About(r, s), i < j
       PROVE  r[i].counter < r[j].counter
  <2>1. CASE i \in 1 .. K /\ j \in 1 .. K
    <3>1. i \in About(q, s) /\ r[i] = q[i] /\ j \in About(q, s) /\ r[j] = q[j]
      BY <1>5, <1>7, <2>1
    <3> QED BY <1>4, <1>10, <3>1
  <2>2. CASE i \in 1 .. K /\ j \notin 1 .. K
    <3>1. i \in About(q, s) /\ r[i] = q[i] /\ r[i].counter \in Nat
      BY <1>5, <1>6, <1>7, <2>2
    <3>2. j - K \in About(p, s) /\ r[j] = p[j - K] /\ r[j].counter \in Nat
      BY <1>7, <2>2
    <3>3. r[i].counter <= a /\ a < r[j].counter
      BY <1>3, <1>4, <3>1, <3>2 DEF UpTo
    <3> QED BY <1>1, <3>1, <3>2, <3>3
  <2>3. CASE i \notin 1 .. K
    <3>1. /\ i \in K + 1 .. K + L /\ i - K \in About(p, s) /\ r[i] = p[i - K]
      BY <1>7, <2>3
    <3>2. j \notin 1 .. K
      BY <1>5, <1>7, <1>10, <3>1
    <3>3. j \in K + 1 .. K + L /\ j - K \in About(p, s) /\ r[j] = p[j - K]
      BY <1>7, <3>2
    <3>4. i - K < j - K
      BY <1>5, <1>10, <3>1, <3>3
    <3> QED BY <1>3, <3>1, <3>3, <3>4
  <2> QED BY <2>1, <2>2, <2>3
<1>11. v.counter = b \/ \E i \in About(r, s) : r[i].counter = b
  <2>1. CASE a = b
    <3>1. ASSUME NEW i \in About(q, s) PROVE i \in About(r, s) /\ r[i] = q[i]
      <4>1. i \in 1 .. K /\ i \in 1 .. K + L
        BY <1>5 DEF About, K
      <4> QED BY <1>5, <4>1 DEF About
    <3> QED BY <1>4, <2>1, <3>1
  <2>2. CASE a < b
    <3>1. PICK i \in About(p, s) : p[i].counter = b
      BY <1>3, <2>2
    <3>2. i + K \in K + 1 .. K + L /\ i + K \in 1 .. K + L /\ (i + K) - K = i
      BY <1>5 DEF About, L
    <3>3. r[i + K] = p[i] /\ i + K \in About(r, s)
      BY <1>5, <3>2 DEF About
    <3> QED BY <3>1, <3>3
  <2> QED BY <1>1, <1>3, <2>1, <2>2
<1>12. Follows(v, r, s, b, h)
  BY <1>8, <1>9, <1>10, <1>11 DEF Follows
<1> QED BY <1>12 DEF r, p, b, h

\* What is not newer than what the tracker knows stays so.
LEMMA NotNewerAdvances ==
    ASSUME NEW t, NEW u, TrackerOK(t), TrackerOK(u), AllAdvance(t, u), NEW m \in Node,
           NEW reports, NEW single, StatusOK(reports, single),
           NotNewer(m, reports, t.counters, t.overlays)
    PROVE  NotNewer(m, reports, u.counters, u.overlays)
<1> SUFFICES ASSUME NEW s \in DOMAIN reports
             PROVE  UpTo(reports[s].counter, reports[s].neighbors,
                         CounterOf(u.counters, m, s), NeighborsOf(u.overlays, m, s))
  BY DEF NotNewer
<1> DEFINE a == CounterOf(t.counters, m, s)
           b == CounterOf(u.counters, m, s)
           k == reports[s].counter
           g == NeighborsOf(t.overlays, m, s)
           h == NeighborsOf(u.overlays, m, s)
<1>1. s \in Stream /\ k \in Nat
  BY DEF StatusOK, NotNewer
<1>2. a \in Nat /\ b \in Nat
  BY <1>1 DEF TrackerOK, CountersOK, CounterOf
<1>3. a <= b /\ (a = b => h = g)
  BY <1>1 DEF AllAdvance, Advances
<1>4. UpTo(k, reports[s].neighbors, a, g)
  BY DEF NotNewer
<1> HIDE DEF a, b, k, g, h
<1>5. UpTo(k, reports[s].neighbors, b, h)
  BY <1>1, <1>2, <1>3, <1>4 DEF UpTo
<1> QED BY <1>5 DEF b, k, h

\* What the tracker does with a status
LEMMA TrackerTells ==
    ASSUME SoundInv, JoinInv, NEW n \in Node, TrackerReceives(n)
    PROVE  \E v : /\ TrackerOK(v) /\ Becomes(v)
                  /\ AllAdvance(State, v) /\ Bounded(v.overlays)
                  /\ \A s : Members(v.overlays, s) \subseteq Members(overlayPerStream, s) \cup {n}
<1> DEFINE o == overlayPerStream
           q == toTracker[n]
           st == Head(q)
<1>1. TrackerOK(State) /\ Occupied(o) /\ q \in Seq(StatusType) /\ Bounded(o)
  BY DEF SoundInv, TrackerInv, NodesInv, JoinInv
<1>2. PICK v \in StatusOutcomes(n, st.reports, st.singleStream) : Becomes(v)
  BY DEF TrackerReceives, ProcessNodeStatus
<1>3. st \in StatusType /\ 1 \in 1 .. Len(q) /\ st = q[1]
  <2>1. q # <<>>
    BY DEF TrackerReceives
  <2> HIDE DEF q
  <2> QED BY <1>1, <2>1
<1>4. StatusOK(st.reports, st.singleStream)
  BY <1>3 DEF StatusType
<1>5. /\ NotNewer(n, st.reports, counters, o)
      /\ ~ st.singleStream => \A s \in Stream : n \notin Members(o, s)
  BY <1>3 DEF JoinInv, ReportsInv
<1> HIDE DEF st, q
<1>6. ~ st.singleStream => \A s \in DOMAIN o : n \notin DOMAIN o[s]
  <2>1. DOMAIN o \subseteq Stream
    BY <1>1 DEF TrackerOK, OverlaysOK, State
  <2> QED BY <1>5, <2>1 DEF Members
<1>7. AllAdvance(State, v) /\ Bounded(v.overlays)
  BY <1>1, <1>2, <1>4, <1>5, <1>6, StatusAdvances
<1>8. TrackerOK(v)
  BY <1>1, <1>2, <1>4, StatusEffect
<1>9. PICK u : /\ Rewires(u, v, DOMAIN st.reports)
               /\ MembersAfter(o, u.overlays, n, st.reports, st.singleStream)
  BY <1>1, <1>2, <1>4, StatusEffect
<1>10. \A s : Members(v.overlays, s) \subseteq Members(o, s) \cup {n}
  BY <1>9 DEF Rewires, Members, MembersAfter
<1> QED BY <1>2, <1>7, <1>8, <1>10

\* The tracker handles a status, and nobody is behind with what it was told.
LEMMA TrackerReceivesJoin ==
    ASSUME SoundInv, JoinInv, NEW n \in Node, TrackerReceives(n)
    PROVE  JoinInv'
<1> DEFINE o == overlayPerStream
           q == toTracker[n]
<1>1. PICK v : /\ TrackerOK(v) /\ Becomes(v)
               /\ AllAdvance(State, v) /\ Bounded(v.overlays)
               /\ \A s : Members(v.overlays, s) \subseteq Members(o, s) \cup {n}
  BY TrackerTells
<1>2. o' = v.overlays /\ counters' = v.counters /\ sent' = v.sent
  BY <1>1 DEF Becomes
<1>3. PICK z : z = State
  OBVIOUS
<1>4. /\ TrackerOK(z) /\ z.overlays = o /\ z.counters = counters
      /\ \A m \in Node : z.sent[m] = <<>>
  BY <1>3 DEF SoundInv, TrackerInv, State, NoSends
<1>5. /\ toTracker' = [toTracker EXCEPT ![n] = Tail(@)]
      /\ toNode' = InstructionsSent /\ streams' = streams /\ accepted' = accepted
      /\ q # <<>>
  BY DEF TrackerReceives
<1>6. NodesInv /\ FollowsInv /\ AcceptedInv /\ ReportsInv
  BY DEF SoundInv, JoinInv
<1>7. FollowsInv'
  <2> SUFFICES ASSUME NEW m \in Node, NEW s \in Stream
               PROVE  Follows(Has(streams[m], s), toNode[m] \o v.sent[m], s,
                              CounterOf(v.counters, m, s), NeighborsOf(v.overlays, m, s))
    BY <1>2, <1>5 DEF FollowsInv, InstructionsSent
  <2>1. Has(streams[m], s).counter \in Nat /\ toNode[m] \in Seq(InstructionType)
    BY <1>6 DEF NodesInv, Has, NewStream, IsStreamManager, StreamState
  <2>2. Follows(Has(streams[m], s), toNode[m], s,
                CounterOf(z.counters, m, s), NeighborsOf(z.overlays, m, s))
    BY <1>4, <1>6 DEF FollowsInv
  <2>3. Advances(z, v, m, s)
    BY <1>1, <1>3 DEF AllAdvance
  <2> QED BY <1>1, <1>4, <2>1, <2>2, <2>3, FollowsOnSend
<1>8. AcceptedInv'
  BY <1>5, <1>6 DEF AcceptedInv
<1>9. ReportsInv'
  <2>1. /\ q \in Seq(StatusType)
        /\ \A m \in Node : toTracker'[m] = IF m = n THEN Tail(q) ELSE toTracker[m]
    BY <1>5, <1>6 DEF NodesInv
  <2> HIDE DEF q
  <2>2. /\ Len(q) \in Nat /\ Len(Tail(q)) = Len(q) - 1
        /\ \A i \in 1 .. Len(q) - 1 : Tail(q)[i] = q[i + 1]
    BY <1>5, <2>1
  <2> SUFFICES ASSUME NEW m \in Node, NEW i \in 1 .. Len(toTracker'[m])
               PROVE  /\ NotNewer(m, toTracker'[m][i].reports, v.counters, v.overlays)
                      /\ ~ toTracker'[m][i].singleStream =>
                            i = 1 /\ \A s \in Stream : m \notin Members(v.overlays, s)
    BY <1>2 DEF ReportsInv
  <2>3. PICK j \in 1 .. Len(toTracker[m]) :
           toTracker'[m][i] = toTracker[m][j] /\ j = IF m = n THEN i + 1 ELSE i
    <3>1. CASE m = n
      <4>1. toTracker'[m] = Tail(q) /\ toTracker[m] = q
        BY <2>1, <3>1 DEF q
      <4>2. i + 1 \in 1 .. Len(q) /\ Tail(q)[i] = q[i + 1]
        BY <2>2, <4>1
      <4> QED BY <3>1, <4>1, <4>2
    <3>2. CASE m # n
      BY <2>1, <3>2
    <3> QED BY <3>1, <3>2
  <2> DEFINE st == toTracker[m][j]
  <2>4. StatusOK(st.reports, st.singleStream)
    <3>1. toTracker[m] \in Seq(StatusType)
      BY <1>6 DEF NodesInv
    <3>2. st \in StatusType
      BY <3>1
    <3> QED BY <3>2 DEF StatusType
  <2>5. /\ NotNewer(m, st.reports, counters, o)
        /\ ~ st.singleStream => j = 1 /\ \A s \in Stream : m \notin Members(o, s)
    BY <1>6 DEF ReportsInv
  <2> HIDE DEF st
  <2>6. NotNewer(m, st.reports, v.counters, v.overlays)
    BY <1>1, <1>3, <1>4, <2>4, <2>5, NotNewerAdvances
  <2>7. ~ st.singleStream => i = 1 /\ \A s \in Stream : m \notin Members(v.overlays, s)
    <3>1. CASE m = n
      <4>1. i \in Nat /\ i >= 1 /\ j = i + 1
        BY <2>1, <2>2, <2>3, <3>1
      <4>2. j # 1
        BY <4>1
      <4> QED BY <2>5, <4>2
    <3>2. CASE m # n
      BY <1>1, <2>3, <2>5, <3>2
    <3> QED BY <3>1, <3>2
  <2> QED BY <2>3, <2>6, <2>7 DEF st
<1>10. Bounded(o')
  BY <1>1, <1>2
<1> QED BY <1>7, <1>8, <1>9, <1>10 DEF JoinInv

\* A node reports a stream as it has it.
LEMMA NodeReportsJoin ==
    ASSUME SoundInv, JoinInv, SoundInv', FollowsInv', AcceptedInv', NEW n \in Node, NEW s \in Stream,
           s \in DOMAIN streams'[n], SendStatus(n, StreamStatus(streams'[n], s)),
           UNCHANGED trackerVars
    PROVE  JoinInv'
<1> DEFINE q == toTracker[n]
           r == [x \in {s} |-> streams'[n][x]]
           st == StreamStatus(streams'[n], s)
<1>1. overlayPerStream' = overlayPerStream /\ counters' = counters
  BY DEF trackerVars
<1>2. st.reports = r /\ st.singleStream = TRUE
  BY DEF StreamStatus
<1>3. NotNewer(n, r, counters, overlayPerStream)
  <2>1. Has(streams'[n], s) = streams'[n][s]
    BY DEF Has
  <2>2. UpTo(streams'[n][s].counter, streams'[n][s].neighbors,
             CounterOf(counters, n, s), NeighborsOf(overlayPerStream, n, s))
    BY <1>1, <2>1 DEF FollowsInv, Follows
  <2>3. streams'[n][s].counter \in Nat
    BY DEF SoundInv, NodesInv, IsStreamManager, StreamState
  <2> QED BY <2>2, <2>3 DEF NotNewer, Unsubscribed
<1>4. q \in Seq(StatusType) /\ toTracker = [m \in Node |-> toTracker[m]] /\ ReportsInv
  BY DEF SoundInv, NodesInv, JoinInv
<1>5. ReportsInv'
  <2> SUFFICES ASSUME NEW m \in Node, NEW i \in 1 .. Len(toTracker'[m])
               PROVE  /\ NotNewer(m, toTracker'[m][i].reports, counters, overlayPerStream)
                      /\ ~ toTracker'[m][i].singleStream =>
                            i = 1 /\ \A x \in Stream : m \notin Members(overlayPerStream, x)
    BY <1>1 DEF ReportsInv
  <2>1. CASE m = n /\ n \in connected
    <3>1. toTracker'[m] = Append(q, st)
      BY <1>4, <2>1 DEF SendStatus
    <3> HIDE DEF q, st
    <3>2. (i \in 1 .. Len(q) /\ toTracker'[m][i] = q[i]) \/ toTracker'[m][i] = st
      BY <1>4, <3>1
    <3> HIDE DEF r
    <3> QED BY <1>2, <1>3, <1>4, <2>1, <3>2 DEF ReportsInv, q
  <2>2. CASE ~ (m = n /\ n \in connected)
    <3>1. toTracker'[m] = toTracker[m]
      BY <1>4, <2>2 DEF SendStatus
    <3> QED BY <1>4, <3>1 DEF ReportsInv
  <2> QED BY <2>1, <2>2
<1> QED BY <1>1, <1>5 DEF JoinInv

\* The state of a stream once another or the same one is set
LEMMA HasPut ==
    ASSUME NEW ss, NEW s, NEW x, NEW z
    PROVE  Has(Put(ss, s, x), z) = IF z = s THEN x ELSE Has(ss, z)
BY DEF Has, Put

\* A user subscribes: the node has no neighbors yet, and so it reports.
LEMMA SubscribeJoin ==
    ASSUME SoundInv, SoundInv', JoinInv, NEW n \in Node, NEW s \in Stream, Subscribe(n, s)
    PROVE  JoinInv'
<1>1. /\ toNode' = toNode /\ accepted' = accepted /\ UNCHANGED trackerVars
      /\ overlayPerStream' = overlayPerStream /\ counters' = counters
  BY DEF Subscribe, trackerVars
<1>2. FollowsInv /\ AcceptedInv /\ ReportsInv /\ Bounded(overlayPerStream)
      /\ streams = [m \in Node |-> streams[m]]
  BY DEF JoinInv, SoundInv, NodesInv
<1>3. \A x : \A m \in Node : Has(streams'[m], x) = Has(streams[m], x)
  <2>1. CASE s \in DOMAIN streams[n]
    BY <2>1 DEF Subscribe
  <2>2. CASE s \notin DOMAIN streams[n]
    <3>1. \A m \in Node : streams'[m] = IF m = n THEN Put(streams[n], s, NewStream) ELSE streams[m]
      BY <1>2, <2>2 DEF Subscribe
    <3>2. \A x : Has(Put(streams[n], s, NewStream), x) = Has(streams[n], x)
      BY <2>2, HasPut DEF Has
    <3> QED BY <3>1, <3>2
  <2> QED BY <2>1, <2>2
<1>4. FollowsInv'
  BY <1>1, <1>2, <1>3 DEF FollowsInv
<1>5. AcceptedInv'
  BY <1>1, <1>2, <1>3 DEF AcceptedInv
<1>6. CASE s \in DOMAIN streams[n]
  <2>1. toTracker' = toTracker
    BY <1>6 DEF Subscribe
  <2>2. ReportsInv'
    BY <1>1, <1>2, <2>1 DEF ReportsInv
  <2> QED BY <1>1, <1>2, <1>4, <1>5, <2>2 DEF JoinInv
<1>7. CASE s \notin DOMAIN streams[n]
  <2>1. SendStatus(n, StreamStatus(streams'[n], s))
    BY <1>7 DEF Subscribe
  <2>2. s \in DOMAIN streams'[n]
    <3>1. streams'[n] = Put(streams[n], s, NewStream)
      BY <1>2, <1>7 DEF Subscribe
    <3> QED BY <3>1 DEF Put
  <2> QED BY <1>1, <1>4, <1>5, <2>1, <2>2, NodeReportsJoin
<1> QED BY <1>6, <1>7

\* The instructions in flight to a node are never older than what it accepted.
LEMMA InFlightIsAccepted ==
    ASSUME SoundInv, JoinInv, NEW n \in Node, NEW k \in 1 .. Len(toNode[n])
    PROVE  /\ toNode[n][k] \in InstructionType
           /\ Accepts(n, toNode[n][k])
<1> DEFINE q == toNode[n]
           i == q[k]
           s == i.stream
           v == Has(streams[n], s)
<1>1. q \in Seq(InstructionType) /\ IsStreamManager(streams[n])
  BY DEF SoundInv, NodesInv
<1>2. i \in InstructionType
  <2> HIDE DEF q
  <2> QED BY <1>1 DEF q
<1>3. s \in Stream /\ i.counter \in Nat
  BY <1>2 DEF InstructionType
<1>4. v.counter < i.counter
  <2>1. k \in About(q, s)
    BY DEF About
  <2>2. Follows(v, q, s, CounterOf(counters, n, s), NeighborsOf(overlayPerStream, n, s))
    BY <1>3 DEF JoinInv, FollowsInv
  <2> QED BY <2>1, <2>2 DEF Follows
<1>5. v.counter \in Nat
  BY <1>1 DEF Has, NewStream, IsStreamManager, StreamState
<1>6. s \in DOMAIN accepted[n] => accepted[n][s] \in Nat /\ accepted[n][s] <= v.counter
  BY DEF JoinInv, AcceptedInv
<1> HIDE DEF v
<1>7. s \in DOMAIN accepted[n] => accepted[n][s] <= i.counter
  BY <1>3, <1>4, <1>5, <1>6
<1> QED BY <1>2, <1>7 DEF Accepts

\* A node handles an instruction, and reports the neighbors it was told to have.
LEMMA ReceiveInstructionJoin ==
    ASSUME SoundInv, SoundInv', JoinInv, NEW n \in Node, ReceiveInstruction(n, {})
    PROVE  JoinInv'
<1> DEFINE q == toNode[n]
           i == Head(q)
           s == i.stream
           before == IF s \in DOMAIN streams[n] THEN streams[n][s].neighbors ELSE {}
           x == [neighbors |-> (before \cap i.nodeIds) \cup (i.nodeIds \ {}),
                 counter |-> i.counter]
           y == [neighbors |-> i.nodeIds, counter |-> i.counter]
<1>1. /\ q # <<>> /\ UNCHANGED trackerVars
      /\ overlayPerStream' = overlayPerStream /\ counters' = counters
      /\ toNode' = [toNode EXCEPT ![n] = Tail(@)]
  BY DEF ReceiveInstruction, trackerVars
<1>2. /\ FollowsInv /\ AcceptedInv /\ streams = [m \in Node |-> streams[m]]
      /\ toNode = [m \in Node |-> toNode[m]] /\ q \in Seq(InstructionType)
      /\ IsStreamManager(streams[n]) /\ TrackerOK(State) /\ State.counters = counters
  BY DEF JoinInv, SoundInv, NodesInv, TrackerInv, State
<1>3. 1 \in 1 .. Len(q) /\ i = q[1] /\ i \in InstructionType
  <2> HIDE DEF q
  <2> QED BY <1>1, <1>2
<1>4. s \in Stream /\ i.counter \in Nat /\ Accepts(n, i)
  BY <1>3, InFlightIsAccepted DEF InstructionType
<1>5. x = y
  BY Zenon
<1>6. /\ accepted' = [accepted EXCEPT ![n] = Put(@, s, i.counter)]
      /\ streams' = [streams EXCEPT ![n] = Put(@, s, y)]
      /\ SendStatus(n, StreamStatus(streams'[n], s))
  <2> HIDE DEF y
  <2> QED BY <1>4, <1>5 DEF ReceiveInstruction
<1> HIDE DEF x
<1>7. y.counter = i.counter
  OBVIOUS
<1>8. /\ \A m \in Node : streams'[m] = IF m = n THEN Put(streams[n], s, y) ELSE streams[m]
      /\ \A m \in Node : accepted'[m] = IF m = n THEN Put(accepted[n], s, i.counter)
                                        ELSE accepted[m]
      /\ accepted' = [m \in Node |-> accepted'[m]]
      /\ \A m \in Node : toNode'[m] = IF m = n THEN Tail(q) ELSE toNode[m]
  <2> HIDE DEF y, s
  <2> QED BY <1>1, <1>2, <1>6 DEF AcceptedInv
<1>9. \A z : \A m \in Node : Has(streams'[m], z) = IF m = n /\ z = s THEN y ELSE Has(streams[m], z)
  <2> HIDE DEF y, s
  <2> QED BY <1>8, HasPut
<1>10. FollowsInv'
  <2> SUFFICES ASSUME NEW m \in Node, NEW z \in Stream
               PROVE  Follows(Has(streams'[m], z), toNode'[m], z,
                              CounterOf(counters, m, z), NeighborsOf(overlayPerStream, m, z))
    BY <1>1 DEF FollowsInv
  <2>1. Follows(Has(streams[m], z), toNode[m], z,
                CounterOf(counters, m, z), NeighborsOf(overlayPerStream, m, z))
    BY <1>2 DEF FollowsInv
  <2>2. CASE m = n
    <3>1. PICK w : w = IF s = z THEN y ELSE Has(streams[n], z)
      OBVIOUS
    <3>2. CounterOf(counters, n, z) \in Nat
      BY <1>2 DEF TrackerOK, CountersOK, CounterOf
    <3>3. Follows(w, Tail(q), z, CounterOf(counters, n, z), NeighborsOf(overlayPerStream, n, z))
      <4> HIDE DEF q
      <4> QED BY <1>1, <1>2, <2>1, <2>2, <3>1, <3>2, FollowsOnTail DEF q
    <3>4. Has(streams'[m], z) = w /\ toNode'[m] = Tail(q)
      BY <1>8, <1>9, <2>2, <3>1
    <3> QED BY <2>2, <3>3, <3>4
  <2>3. CASE m # n
    BY <1>8, <1>9, <2>1, <2>3
  <2> QED BY <2>2, <2>3
<1>11. AcceptedInv'
  <2> SUFFICES ASSUME NEW m \in Node, NEW z \in DOMAIN accepted'[m]
               PROVE  accepted'[m][z] \in Nat /\ accepted'[m][z] <= Has(streams'[m], z).counter
    BY <1>8 DEF AcceptedInv
  <2>1. CASE m = n /\ z = s
    <3>1. accepted'[m][z] = i.counter
      BY <1>8, <2>1 DEF Put
    <3>2. Has(streams'[m], z).counter = i.counter
      BY <1>7, <1>9, <2>1
    <3> QED BY <1>4, <3>1, <3>2
  <2>2. CASE ~ (m = n /\ z = s)
    <3>1. z \in DOMAIN accepted[m] /\ accepted'[m][z] = accepted[m][z]
      BY <1>8, <2>2 DEF Put
    <3>2. Has(streams'[m], z) = Has(streams[m], z)
      BY <1>9, <2>2
    <3> QED BY <1>2, <3>1, <3>2 DEF AcceptedInv
  <2> QED BY <2>1, <2>2
<1>12. s \in DOMAIN streams'[n]
  BY <1>8 DEF Put
<1> HIDE DEF s
<1> QED BY <1>1, <1>4, <1>6, <1>10, <1>11, <1>12, NodeReportsJoin

\* A node connects: the tracker does not know it yet, and it reports what it has.
LEMMA ConnectJoin ==
    ASSUME SoundInv, SoundInv', JoinInv, NEW n \in Node, Connect(n)
    PROVE  JoinInv'
<1> DEFINE st == FullStatus(streams[n])
<1>1. /\ n \notin connected
      /\ overlayPerStream' = overlayPerStream /\ counters' = counters
      /\ toTracker' = [toTracker EXCEPT ![n] = <<st>>]
      /\ streams' = streams /\ toNode' = toNode /\ accepted' = accepted
  BY DEF Connect, NodeConnected
<1>2. /\ FollowsInv /\ AcceptedInv /\ ReportsInv /\ Bounded(overlayPerStream)
      /\ IsStreamManager(streams[n]) /\ toTracker = [m \in Node |-> toTracker[m]]
  BY DEF JoinInv, SoundInv, NodesInv
<1>3. FollowsInv' /\ AcceptedInv'
  BY <1>1, <1>2 DEF FollowsInv, AcceptedInv
<1>4. st.reports = streams[n]
  BY DEF FullStatus
<1> HIDE DEF st
<1>5. NotNewer(n, streams[n], counters, overlayPerStream)
  <2> SUFFICES ASSUME NEW s \in DOMAIN streams[n]
               PROVE  /\ streams[n][s].counter # Unsubscribed
                      /\ UpTo(streams[n][s].counter, streams[n][s].neighbors,
                              CounterOf(counters, n, s), NeighborsOf(overlayPerStream, n, s))
    BY DEF NotNewer
  <2>1. s \in Stream /\ streams[n][s].counter \in Nat /\ Has(streams[n], s) = streams[n][s]
    BY <1>2 DEF IsStreamManager, StreamState, Has
  <2> QED BY <1>2, <2>1 DEF FollowsInv, Follows, Unsubscribed
<1>6. \A s \in Stream : n \notin Members(overlayPerStream, s)
  BY <1>1 DEF SoundInv, TrackerInv, Members
<1>7. ReportsInv'
  <2> SUFFICES ASSUME NEW m \in Node, NEW i \in 1 .. Len(toTracker'[m])
               PROVE  /\ NotNewer(m, toTracker'[m][i].reports, counters, overlayPerStream)
                      /\ ~ toTracker'[m][i].singleStream =>
                            i = 1 /\ \A x \in Stream : m \notin Members(overlayPerStream, x)
    BY <1>1 DEF ReportsInv
  <2>1. CASE m = n
    <3>1. toTracker'[m] = <<st>>
      BY <1>1, <1>2, <2>1
    <3>2. i = 1 /\ toTracker'[m][i] = st
      BY <3>1
    <3> QED BY <1>4, <1>5, <1>6, <2>1, <3>2
  <2>2. CASE m # n
    <3>1. toTracker'[m] = toTracker[m]
      BY <1>1, <1>2, <2>2
    <3> QED BY <1>2, <3>1 DEF ReportsInv
  <2> QED BY <2>1, <2>2
<1> QED BY <1>1, <1>2, <1>3, <1>7 DEF JoinInv

\* The steps there are when nobody leaves
LEMMA JoinSteps ==
    ASSUME OnlyJoins, Next
    PROVE  \E n \in Node : \/ \E s \in Stream : Subscribe(n, s)
                           \/ ReceiveInstruction(n, {})
                           \/ Connect(n)
                           \/ TrackerReceives(n)
<1>1. ASSUME NEW kind, kind \notin {"connect", "subscribe"}, Event(kind) PROVE FALSE
  BY <1>1 DEF Event, OnlyJoins
<1>2. ASSUME NEW n \in Node, NEW s \in Stream, Unsubscribe(n, s) PROVE FALSE
  BY <1>1, <1>2 DEF Unsubscribe
<1>3. ASSUME NEW n \in Node, NEW failed \in SUBSET Node, ReceiveInstruction(n, failed)
      PROVE  failed = {}
  BY <1>1, <1>3 DEF ReceiveInstruction
<1>4. ASSUME NEW n \in Node, NEW m \in Node, NeighborLost(n, m) PROVE FALSE
  BY <1>1, <1>4 DEF NeighborLost
<1>5. ASSUME NEW n \in Node, Disconnect(n) PROVE FALSE
  BY <1>1, <1>5 DEF Disconnect
<1> QED BY <1>2, <1>3, <1>4, <1>5 DEF Next

\* Every step of nodes that join keeps what they and the tracker know in line.
LEMMA NextJoin ==
    ASSUME OnlyJoins, SoundInv, SoundInv', JoinInv, [Next]_vars
    PROVE  JoinInv'
<1>1. CASE Next
  BY <1>1, JoinSteps, SubscribeJoin, ReceiveInstructionJoin, ConnectJoin, TrackerReceivesJoin
<1>2. CASE UNCHANGED vars
  <2>1. /\ FollowsInv' /\ AcceptedInv' /\ ReportsInv'
        /\ overlayPerStream' = overlayPerStream
    BY <1>2 DEF vars, nodeVars, trackerVars, JoinInv, FollowsInv, AcceptedInv, ReportsInv
  <2> QED BY <2>1 DEF JoinInv
<1> QED BY <1>1, <1>2

\* When nodes only join, what a node has of a stream, the instructions on their way to
\* it and the tracker's overlay are in line: the last instruction counts.
THEOREM JoinInvariant ==
    ASSUME OnlyJoins
    PROVE  Spec => []JoinInv
<1>1. SoundInv /\ SoundInv' /\ JoinInv /\ [Next]_vars => JoinInv'
  BY NextJoin
<1> QED BY <1>1, InitJoin, TrackerInvariant, PTL DEF Spec

\* InstructionThrottler.add drops nothing: the last instruction is newer than what
\* the node accepted.
THEOREM NewestAlwaysAccepted ==
    ASSUME OnlyJoins
    PROVE  Spec => []NewestIsAccepted
<1>1. SoundInv /\ JoinInv => NewestIsAccepted
  <2> SUFFICES ASSUME SoundInv, JoinInv, NEW n \in Node, Len(toNode[n]) = 1
               PROVE  Accepts(n, Head(toNode[n]))
    BY DEF NewestIsAccepted
  <2>1. toNode[n] \in Seq(InstructionType) /\ 1 \in 1 .. Len(toNode[n])
    BY DEF SoundInv, NodesInv
  <2>2. Head(toNode[n]) = toNode[n][1]
    BY <2>1
  <2> QED BY <2>1, <2>2, InFlightIsAccepted
<1> QED BY <1>1, TrackerInvariant, JoinInvariant, PTL

\* Once all that was sent has arrived, the neighbors that a connected node has in a
\* stream are those it has in the overlay.
THEOREM AgreeWhenQuiescent ==
    ASSUME OnlyJoins
    PROVE  Spec => []QuiescentAgreement
<1>1. SoundInv /\ MembershipAgreement /\ JoinInv => QuiescentAgreement
  <2> SUFFICES ASSUME SoundInv, MembershipAgreement, JoinInv, NothingInFlight,
                      NEW n \in connected, NEW s \in DOMAIN streams[n]
               PROVE  /\ s \in DOMAIN overlayPerStream /\ n \in DOMAIN overlayPerStream[s]
                      /\ streams[n][s].neighbors = overlayPerStream[s][n]
    BY DEF QuiescentAgreement
  <2>1. n \in Node /\ s \in Stream
    BY DEF SoundInv, TrackerInv, NodesInv, IsStreamManager
  <2>2. s \in DOMAIN overlayPerStream /\ n \in DOMAIN overlayPerStream[s]
    BY <2>1 DEF MembershipAgreement
  <2>3. toNode[n] = <<>> /\ Has(streams[n], s) = streams[n][s]
    BY <2>1 DEF NothingInFlight, Has
  <2>4. Follows(streams[n][s], <<>>, s, CounterOf(counters, n, s), overlayPerStream[s][n])
    BY <2>1, <2>2, <2>3 DEF JoinInv, FollowsInv, NeighborsOf
  <2> QED BY <2>2, <2>4 DEF Follows, UpTo, About
<1> QED BY <1>1, TrackerInvariant, MembersAgree, JoinInvariant, PTL

-----------------------------------------------------------------------------
(***************************************************************************)
(* What the last instruction of a handler says                             *)
(***************************************************************************)
\* Nobody in the overlay of s is over the maximum.
BoundedIn(o, s) ==
    s \in DOMAIN o => \A m \in DOMAIN o[s] : Cardinality(o[s][m]) <= MaxNeighbors

\* The last instruction about s to a node has the neighbors it has in the overlay.
Current(v, s) ==
    \A m \in Node : \A i \in About(v.sent[m], s) :
        (\A j \in About(v.sent[m], s) : j <= i) =>
            /\ s \in DOMAIN v.overlays
            /\ m \in DOMAIN v.overlays[s]
            /\ v.sent[m][i].nodeIds = v.overlays[s][m]

\* Nobody has been instructed about s.
Untold(v, s) == \A m \in Node : About(v.sent[m], s) = {}

\* The overlay of s and the instructions about s are the same.
SameIn(t, v, s) ==
    /\ s \in DOMAIN v.overlays <=> s \in DOMAIN t.overlays
    /\ s \in DOMAIN t.overlays => v.overlays[s] = t.overlays[s]
    /\ \A m \in Node : /\ About(v.sent[m], s) = About(t.sent[m], s)
                       /\ \A i \in About(t.sent[m], s) : v.sent[m][i] = t.sent[m][i]

\* The last instructions are current, and stay so.
CurrentIn(v, s) == BoundedIn(v.overlays, s) /\ Current(v, s)

\* What is the same in two records
LEMMA SameInKeeps ==
    ASSUME NEW t, NEW v, NEW s, SameIn(t, v, s)
    PROVE  /\ BoundedIn(t.overlays, s) => BoundedIn(v.overlays, s)
           /\ Current(t, s) => Current(v, s)
           /\ Untold(t, s) => Untold(v, s)
<1>1. BoundedIn(t.overlays, s) => BoundedIn(v.overlays, s)
  BY DEF SameIn, BoundedIn
<1>2. Untold(t, s) => Untold(v, s)
  BY DEF SameIn, Untold
<1>3. ASSUME Current(t, s) PROVE Current(v, s)
  BY <1>3 DEF SameIn, Current
<1> QED BY <1>1, <1>2, <1>3

\* Sameness passes through.
LEMMA SameInTransitive ==
    ASSUME NEW t, NEW u, NEW v, NEW s, SameIn(t, u, s), SameIn(u, v, s)
    PROVE  SameIn(t, v, s)
<1>1. /\ s \in DOMAIN v.overlays <=> s \in DOMAIN t.overlays
      /\ s \in DOMAIN t.overlays => v.overlays[s] = t.overlays[s]
  BY DEF SameIn
<1>2. ASSUME NEW m \in Node
      PROVE  /\ About(v.sent[m], s) = About(t.sent[m], s)
             /\ \A i \in About(t.sent[m], s) : v.sent[m][i] = t.sent[m][i]
  BY DEF SameIn
<1> QED BY <1>1, <1>2 DEF SameIn

\* Nothing is about s any more or any less when nothing is sent.
LEMMA SameInReflexive ==
    ASSUME NEW t, NEW s PROVE SameIn(t, t, s)
BY DEF SameIn

\* What is sent is the last that is sent.
LEMMA AboutAppended ==
    ASSUME NEW q \in Seq(InstructionType), NEW i, NEW s
    PROVE  /\ \A j \in 1 .. Len(q) : Append(q, i)[j] = q[j]
           /\ Append(q, i)[Len(q) + 1] = i
           /\ i.stream # s => About(Append(q, i), s) = About(q, s)
           /\ i.stream = s => About(Append(q, i), s) = About(q, s) \cup {Len(q) + 1}
<1>1. /\ Len(Append(q, i)) = Len(q) + 1 /\ Len(q) \in Nat
      /\ \A j \in 1 .. Len(q) : Append(q, i)[j] = q[j]
      /\ Append(q, i)[Len(q) + 1] = i
  OBVIOUS
<1>2. 1 .. Len(q) + 1 = (1 .. Len(q)) \cup {Len(q) + 1}
  BY <1>1
<1> DEFINE p == Append(q, i)
           k == Len(q)
<1>3. /\ Len(p) = k + 1 /\ \A j \in 1 .. k : p[j] = q[j]
      /\ p[k + 1] = i /\ 1 .. k + 1 = (1 .. k) \cup {k + 1}
  BY <1>1, <1>2
<1>4. About(q, s) = {j \in 1 .. k : q[j].stream = s}
  BY DEF About
<1> HIDE DEF p, k
<1>5. About(p, s) = {j \in (1 .. k) \cup {k + 1} : p[j].stream = s}
  BY <1>3 DEF About
<1>6. About(p, s) = {j \in 1 .. k : q[j].stream = s} \cup {j \in {k + 1} : i.stream = s}
  BY <1>3, <1>5
<1>7. /\ i.stream # s => About(p, s) = About(q, s)
      /\ i.stream = s => About(p, s) = About(q, s) \cup {k + 1}
  BY <1>4, <1>6
<1> QED BY <1>1, <1>7 DEF p, k

\* formAndSendInstructions for one stream.  Its instructions have the neighbors the
\* nodes have then; a node that gets none keeps its neighbors if nobody is over the
\* maximum; and other streams have nothing to do with it.
LEMMA FormAndSendCurrent ==
    ASSUME NEW t, TrackerOK(t), NEW n \in Node, NEW s \in Stream,
           NEW force \in BOOLEAN, NEW v \in FormAndSend(t, n, s, force)
    PROVE  /\ \A x \in Stream \ {s} : SameIn(t, v, x)
           /\ Untold(t, s) => Current(v, s)
           /\ CurrentIn(t, s) => CurrentIn(v, s)
<1>1. CASE s \notin DOMAIN t.overlays
  <2>1. v = t
    BY <1>1 DEF FormAndSend
  <2>2. Untold(t, s) => Current(t, s)
    BY DEF Untold, Current
  <2> QED BY <2>1, <2>2, SameInReflexive
<1>2. CASE s \in DOMAIN t.overlays
  <2> DEFINE g == t.overlays[s]
  <2>1. PICK h \in Formed(g, n) : Forms(t, s, h, UpdatedNodes(g, h, n, force), v)
    BY <1>2, FormAndSendIs DEF TrackerOK
  <2> DEFINE updated == UpdatedNodes(g, h, n, force)
  <2>2. Sound(g)
    BY <1>2 DEF TrackerOK, OverlaysOK
  <2>3. /\ Sound(h) /\ DOMAIN h = DOMAIN g /\ updated \subseteq DOMAIN g
        /\ DOMAIN g \subseteq Node
    BY <2>2, FormedSound DEF Sound, WellFormed, IsGraph
  <2>4. BoundedIn(t.overlays, s) =>
           /\ \A m \in DOMAIN g : m \notin updated => h[m] = g[m]
           /\ \A m \in DOMAIN g : Cardinality(h[m]) <= MaxNeighbors
    <3> SUFFICES ASSUME \A m \in DOMAIN g : Cardinality(g[m]) <= MaxNeighbors
                 PROVE  /\ \A m \in DOMAIN g : m \notin updated => h[m] = g[m]
                        /\ \A m \in DOMAIN g : Cardinality(h[m]) <= MaxNeighbors
      BY <1>2 DEF BoundedIn
    <3>1. CASE n \in DOMAIN g
      BY <2>2, <3>1, OthersKeepNeighbors, FormedBounded DEF Sound
    <3>2. CASE n \notin DOMAIN g
      <4>1. h = g
        BY <3>2 DEF Formed
      <4> QED BY <4>1
    <3> QED BY <3>1, <3>2
  <2>5. Forms(t, s, h, updated, v)
    BY <2>1
  <2> HIDE DEF g, updated
  <2>6. /\ DOMAIN v.overlays = DOMAIN t.overlays
        /\ v.overlays[s] = h
        /\ \A x \in DOMAIN t.overlays \ {s} : v.overlays[x] = t.overlays[x]
    BY <1>2, <2>5 DEF Forms
  <2>7. ASSUME NEW m \in updated
        PROVE  /\ \A j \in 1 .. Len(t.sent[m]) : v.sent[m][j] = t.sent[m][j]
               /\ v.sent[m][Len(t.sent[m]) + 1].nodeIds = h[m]
               /\ \A x \in Stream \ {s} : About(v.sent[m], x) = About(t.sent[m], x)
               /\ About(v.sent[m], s) = About(t.sent[m], s) \cup {Len(t.sent[m]) + 1}
               /\ Len(t.sent[m]) \in Nat
    <3> DEFINE i == [stream |-> s, nodeIds |-> h[m], counter |-> v.counters[<<m, s>>]]
               q == t.sent[m]
    <3>1. m \in Node /\ v.sent[m] = Append(q, i)
      BY <2>3, <2>5 DEF Forms
    <3>2. q \in Seq(InstructionType)
      BY <3>1 DEF TrackerOK
    <3>3. i.stream = s /\ i.nodeIds = h[m]
      OBVIOUS
    <3> HIDE DEF i, q
    <3>4. /\ \A j \in 1 .. Len(q) : Append(q, i)[j] = q[j]
          /\ Append(q, i)[Len(q) + 1] = i
          /\ \A x \in Stream : x # s => About(Append(q, i), x) = About(q, x)
          /\ About(Append(q, i), s) = About(q, s) \cup {Len(q) + 1}
      <4>1. i.stream = s => About(Append(q, i), s) = About(q, s) \cup {Len(q) + 1}
        BY <3>2, AboutAppended
      <4>2. \A x \in Stream : i.stream # x => About(Append(q, i), x) = About(q, x)
        BY <3>2, AboutAppended
      <4> QED BY <3>2, <3>3, <4>1, <4>2, AboutAppended
    <3>5. Len(q) \in Nat
      BY <3>2
    <3> QED BY <3>1, <3>3, <3>4, <3>5 DEF q
  <2>8. ASSUME NEW m \in Node, m \notin updated PROVE v.sent[m] = t.sent[m]
    BY <2>5, <2>8 DEF Forms
  <2>9. ASSUME NEW x \in Stream \ {s} PROVE SameIn(t, v, x)
    <3>1. ASSUME NEW m \in Node
          PROVE  /\ About(v.sent[m], x) = About(t.sent[m], x)
                 /\ \A i \in About(t.sent[m], x) : v.sent[m][i] = t.sent[m][i]
      BY <2>7, <2>8 DEF About
    <3> QED BY <2>6, <3>1 DEF SameIn
  <2>10. ASSUME NEW m \in updated, NEW i \in About(v.sent[m], s),
                \A j \in About(v.sent[m], s) : j <= i
         PROVE  m \in DOMAIN h /\ v.sent[m][i].nodeIds = h[m]
    <3> DEFINE k == Len(t.sent[m])
    <3>1. k + 1 <= i /\ k \in Nat
      BY <2>7, <2>10
    <3>2. i \in (1 .. k) \cup {k + 1}
      BY <2>7 DEF About
    <3>3. i = k + 1
      BY <3>1, <3>2
    <3> QED BY <2>3, <2>7, <3>3
  <2>11. ASSUME Untold(t, s) PROVE Current(v, s)
    <3> SUFFICES ASSUME NEW m \in Node, NEW i \in About(v.sent[m], s),
                        \A j \in About(v.sent[m], s) : j <= i
                 PROVE  m \in DOMAIN h /\ v.sent[m][i].nodeIds = h[m]
      BY <1>2, <2>6 DEF Current
    <3>1. CASE m \in updated
      BY <2>10, <3>1
    <3>2. CASE m \notin updated
      BY <2>8, <2>11, <3>2 DEF Untold
    <3> QED BY <3>1, <3>2
  <2>12. ASSUME CurrentIn(t, s) PROVE CurrentIn(v, s)
    <3>1. /\ \A m \in DOMAIN g : m \notin updated => h[m] = g[m]
          /\ \A m \in DOMAIN g : Cardinality(h[m]) <= MaxNeighbors
      BY <2>4, <2>12 DEF CurrentIn
    <3>2. BoundedIn(v.overlays, s)
      BY <2>3, <2>6, <3>1 DEF BoundedIn
    <3>3. Current(v, s)
      <4> SUFFICES ASSUME NEW m \in Node, NEW i \in About(v.sent[m], s),
                          \A j \in About(v.sent[m], s) : j <= i
                   PROVE  m \in DOMAIN h /\ v.sent[m][i].nodeIds = h[m]
        BY <1>2, <2>6 DEF Current
      <4>1. CASE m \in updated
        BY <2>10, <4>1
      <4>2. CASE m \notin updated
        <5>1. m \in DOMAIN g /\ v.sent[m][i].nodeIds = g[m]
          BY <2>8, <2>12, <4>2 DEF CurrentIn, Current, g
        <5> QED BY <2>3, <3>1, <4>2, <5>1
      <4> QED BY <4>1, <4>2
    <3> QED BY <3>2, <3>3 DEF CurrentIn
  <2> QED BY <2>9, <2>11, <2>12
<1> QED BY <1>1, <1>2

\* formAndSendInstructions for several streams: each has its turn once.
LEMMA FormAndSendAllCurrent ==
    ASSUME NEW t, TrackerOK(t), NEW n \in Node, NEW S \in SUBSET Stream,
           NEW v \in FormAndSendAll(t, n, S)
    PROVE  \A x \in Stream : /\ x \notin S => SameIn(t, v, x)
                             /\ Untold(t, x) => Current(v, x)
                             /\ CurrentIn(t, x) => CurrentIn(v, x)
<1>0. PICK N, order, reached : N \in Nat /\ StreamsInTurn(t, n, S, v, N, order, reached)
  BY FormAndSendAllTurns
<1> N \in Nat
  BY <1>0
<1>1. /\ N \in Nat
      /\ reached[0] = {t}
      /\ \A i \in 1 .. N : order[i] \in S
      /\ \A i, j \in 1 .. N : order[i] = order[j] => i = j
      /\ \A i \in 1 .. N : \A w \in reached[i] : \E u \in reached[i - 1] :
            w \in FormAndSend(u, n, order[i], FALSE)
      /\ v \in reached[N]
  BY <1>0 DEF StreamsInTurn
<1> DEFINE Done(k) == {order[i] : i \in 1 .. k}
           Fine(u, k) == /\ TrackerOK(u)
                         /\ \A x \in Stream : /\ x \notin Done(k) => SameIn(t, u, x)
                                              /\ Untold(t, x) => Current(u, x)
                                              /\ CurrentIn(t, x) => CurrentIn(u, x)
           Good == {k \in 0 .. N : \A u \in reached[k] : Fine(u, k)}
<1>2. 0 \in Good
  <2>1. Fine(t, 0)
    BY SameInReflexive DEF Untold, Current
  <2> HIDE DEF Fine
  <2> QED BY <1>1, <2>1
<1>3. ASSUME NEW i \in 1 .. N, i - 1 \in Good PROVE i \in Good
  <2> SUFFICES ASSUME NEW w \in reached[i] PROVE Fine(w, i)
    OBVIOUS
  <2>1. PICK u \in reached[i - 1] : w \in FormAndSend(u, n, order[i], FALSE)
    BY <1>1
  <2>2. Fine(u, i - 1)
    BY <1>3
  <2>3. order[i] \notin Done(i - 1) /\ order[i] \in Stream
    BY <1>1
  <2>4. PICK s : s = order[i]
    OBVIOUS
  <2>5. /\ TrackerOK(w)
        /\ \A x \in Stream \ {s} : SameIn(u, w, x)
        /\ Untold(u, s) => Current(w, s)
        /\ CurrentIn(u, s) => CurrentIn(w, s)
    BY <2>1, <2>2, <2>3, <2>4, FormAndSendKeeps, FormAndSendCurrent
  <2>6. \A x \in Stream : x \notin Done(i) => x \notin Done(i - 1) /\ x # s
    BY <2>4
  <2> HIDE DEF Done
  <2>7. ASSUME NEW x \in Stream
        PROVE  /\ x \notin Done(i) => SameIn(t, w, x)
               /\ Untold(t, x) => Current(w, x)
               /\ CurrentIn(t, x) => CurrentIn(w, x)
    <3>1. /\ x \notin Done(i - 1) => SameIn(t, u, x)
          /\ Untold(t, x) => Current(u, x)
          /\ CurrentIn(t, x) => CurrentIn(u, x)
      BY <2>2
    <3>2. CASE x = s
      <4>1. Untold(t, x) => Untold(u, x)
        BY <2>3, <2>4, <3>1, <3>2, SameInKeeps
      <4> QED BY <2>5, <2>6, <3>1, <3>2, <4>1
    <3>3. CASE x # s
      <4>1. SameIn(u, w, x)
        BY <2>5, <3>3
      <4> QED BY <2>6, <3>1, <4>1, SameInKeeps, SameInTransitive DEF CurrentIn
    <3> QED BY <3>2, <3>3
  <2> QED BY <2>5, <2>7
<1> HIDE DEF Good
<1>4. N \in Good
  BY <1>2, <1>3, LoopInduction
<1>5. \A x \in Stream : x \notin S => x \notin Done(N)
  BY <1>1
<1> HIDE DEF Done
<1>6. Fine(v, N)
  <2> HIDE DEF Fine
  <2> QED BY <1>1, <1>4 DEF Good
<1> QED BY <1>5, <1>6

\* formAndSendInstructions for several nodes and a stream
LEMMA FormAndSendToEachCurrent ==
    ASSUME NEW t, TrackerOK(t), NEW S \in SUBSET Node, IsFiniteSet(S), NEW s \in Stream,
           NEW v \in FormAndSendToEach(t, S, s)
    PROVE  /\ \A x \in Stream \ {s} : SameIn(t, v, x)
           /\ CurrentIn(t, s) => CurrentIn(v, s)
<1>0. PICK N, order, reached : N \in Nat /\ NodesInTurn(t, S, s, v, N, order, reached)
  BY FormAndSendToEachTurns
<1> N \in Nat
  BY <1>0
<1>1. /\ N \in Nat
      /\ reached[0] = {t}
      /\ \A i \in 1 .. N : order[i] \in S
      /\ \A i \in 1 .. N : \A w \in reached[i] : \E u \in reached[i - 1] :
            w \in FormAndSend(u, order[i], s, TRUE)
      /\ v \in reached[N]
  BY <1>0 DEF NodesInTurn
<1> DEFINE Fine(u) == /\ TrackerOK(u)
                      /\ \A x \in Stream \ {s} : SameIn(t, u, x)
                      /\ CurrentIn(t, s) => CurrentIn(u, s)
           Good == {i \in 0 .. N : \A u \in reached[i] : Fine(u)}
<1>2. 0 \in Good
  <2>1. Fine(t)
    BY SameInReflexive
  <2> HIDE DEF Fine
  <2> QED BY <1>1, <2>1
<1>3. ASSUME NEW i \in 1 .. N, i - 1 \in Good PROVE i \in Good
  <2> SUFFICES ASSUME NEW w \in reached[i] PROVE Fine(w)
    OBVIOUS
  <2>1. PICK u \in reached[i - 1] : w \in FormAndSend(u, order[i], s, TRUE)
    BY <1>1
  <2>2. Fine(u)
    BY <1>3
  <2>3. order[i] \in Node
    BY <1>1
  <2>4. /\ TrackerOK(w)
        /\ \A x \in Stream \ {s} : SameIn(u, w, x)
        /\ CurrentIn(u, s) => CurrentIn(w, s)
    BY <2>1, <2>2, <2>3, FormAndSendKeeps, FormAndSendCurrent
  <2> QED BY <2>2, <2>4, SameInTransitive
<1> HIDE DEF Good
<1>4. N \in Good
  BY <1>2, <1>3, LoopInduction
<1> QED BY <1>1, <1>4 DEF Good

\* leaveAndCheckEmptyOverlay: departing takes neighbors away and gives nobody any.
LEMMA LeaveAndCheckCurrent ==
    ASSUME NEW t, TrackerOK(t), NEW n \in Node, NEW s \in DOMAIN t.overlays,
           NEW v \in LeaveAndCheckEmptyOverlay(t, n, s)
    PROVE  /\ \A x \in Stream \ {s} : SameIn(t, v, x)
           /\ Untold(t, s) /\ BoundedIn(t.overlays, s) => CurrentIn(v, s)
<1> DEFINE g == t.overlays[s]
           h == Without(g, n)
<1>1. s \in Stream /\ Sound(g)
  BY DEF TrackerOK, OverlaysOK
<1>2. ASSUME NEW u, u.sent = t.sent PROVE Untold(t, s) => Current(u, s)
  BY <1>2 DEF Untold, Current
<1>3. CASE DOMAIN h = {}
  <2>1. Removes(t, s, v)
    BY <1>3, LeaveInParts
  <2>2. /\ s \notin DOMAIN v.overlays /\ v.sent = t.sent
        /\ \A x \in Stream \ {s} : /\ x \in DOMAIN v.overlays <=> x \in DOMAIN t.overlays
                                   /\ x \in DOMAIN t.overlays => v.overlays[x] = t.overlays[x]
    BY <2>1 DEF Removes
  <2> QED BY <1>2, <2>2 DEF SameIn, BoundedIn, CurrentIn
<1>4. CASE DOMAIN h # {}
  <2>1. PICK u : LeftBy(t, n, s, u) /\ v \in FormAndSendToEach(u, LeftBehind(g, n), s)
    BY <1>4, LeaveInParts
  <2>2. LeftBehind(g, n) \subseteq Node /\ IsFiniteSet(LeftBehind(g, n))
    BY LeaveInParts
  <2>3. /\ \A x \in Stream \ {s} : SameIn(u, v, x)
        /\ CurrentIn(u, s) => CurrentIn(v, s)
    BY <1>1, <2>1, <2>2, FormAndSendToEachCurrent DEF LeftBy
  <2>4. /\ DOMAIN u.overlays = DOMAIN t.overlays
        /\ u.overlays[s] = h
        /\ \A x \in DOMAIN t.overlays \ {s} : u.overlays[x] = t.overlays[x]
        /\ u.sent = t.sent
    BY <2>1 DEF LeftBy
  <2>5. ASSUME NEW x \in Stream \ {s} PROVE SameIn(t, v, x)
    <3>1. SameIn(t, u, x)
      BY <2>4 DEF SameIn
    <3> QED BY <2>3, <3>1, SameInTransitive
  <2>6. ASSUME NEW m \in DOMAIN h
        PROVE  m \in DOMAIN g /\ h[m] \subseteq g[m] /\ IsFiniteSet(g[m])
    <3>1. m \in DOMAIN g /\ h[m] \subseteq g[m]
      BY DEF Without, Left
    <3>2. g[m] \subseteq DOMAIN g /\ IsFiniteSet(DOMAIN g)
      BY <1>1, <3>1 DEF Sound, WellFormed, IsGraph, FiniteGraph
    <3> QED BY <3>1, <3>2, FS_Subset
  <2>7. ASSUME BoundedIn(t.overlays, s) PROVE BoundedIn(u.overlays, s)
    <3> SUFFICES ASSUME NEW m \in DOMAIN h PROVE Cardinality(h[m]) <= MaxNeighbors
      BY <2>4 DEF BoundedIn
    <3>1. /\ Cardinality(h[m]) <= Cardinality(g[m])
          /\ Cardinality(h[m]) \in Nat /\ Cardinality(g[m]) \in Nat
      BY <2>6, FS_Subset, FS_CardinalityType
    <3>2. Cardinality(g[m]) <= MaxNeighbors
      BY <2>6, <2>7 DEF BoundedIn
    <3> QED BY <3>1, <3>2, MaxNeighborsAssumption
  <2> QED BY <1>2, <2>3, <2>4, <2>5, <2>7 DEF CurrentIn
<1> QED BY <1>3, <1>4

\* removeNode, and the second half of updateNode
LEMMA LeaveAllCurrent ==
    ASSUME NEW t, TrackerOK(t), NEW n \in Node, NEW S \in SUBSET DOMAIN t.overlays,
           NEW v \in LeaveAll(t, n, S)
    PROVE  \A x \in Stream : /\ x \notin S => SameIn(t, v, x)
                             /\ Untold(t, x) /\ BoundedIn(t.overlays, x) => CurrentIn(v, x)
<1>1. PICK N, order, reached : N \in Nat /\ LeavesInTurn(t, n, S, v, N, order, reached)
  <2>1. S \subseteq Stream /\ v \in LeaveAll(t, n, S)
    BY DEF TrackerOK, OverlaysOK
  <2> QED BY <2>1, LeaveAllTurns
<1> N \in Nat
  BY <1>1
<1>2. /\ reached[0] = {t}
      /\ \A i \in 1 .. N : order[i] \in S
      /\ \A i, j \in 1 .. N : order[i] = order[j] => i = j
      /\ \A i \in 1 .. N : \A w \in reached[i] : \E u \in reached[i - 1] :
            w \in LeaveAndCheckEmptyOverlay(u, n, order[i])
      /\ v \in reached[N]
  BY <1>1 DEF LeavesInTurn
<1> DEFINE Done(k) == {order[i] : i \in 1 .. k}
           Fine(u, k) ==
             /\ TrackerOK(u)
             /\ \A x \in DOMAIN t.overlays \ Done(k) : x \in DOMAIN u.overlays
             /\ \A x \in Stream :
                   /\ x \notin Done(k) => SameIn(t, u, x)
                   /\ Untold(t, x) /\ BoundedIn(t.overlays, x) => CurrentIn(u, x)
           Good == {k \in 0 .. N : \A u \in reached[k] : Fine(u, k)}
<1>3. 0 \in Good
  <2>1. Fine(t, 0)
    BY SameInReflexive DEF Untold, Current, CurrentIn
  <2> HIDE DEF Fine
  <2> QED BY <1>2, <2>1
<1>4. ASSUME NEW i \in 1 .. N, i - 1 \in Good PROVE i \in Good
  <2> SUFFICES ASSUME NEW w \in reached[i] PROVE Fine(w, i)
    OBVIOUS
  <2>1. PICK u \in reached[i - 1] : w \in LeaveAndCheckEmptyOverlay(u, n, order[i])
    BY <1>2
  <2>2. Fine(u, i - 1)
    BY <1>4
  <2>3. order[i] \notin Done(i - 1) /\ order[i] \in DOMAIN t.overlays
    BY <1>2
  <2>4. PICK s : s = order[i]
    OBVIOUS
  <2>5. s \in DOMAIN u.overlays /\ s \in Stream
    BY <2>2, <2>3, <2>4 DEF TrackerOK, OverlaysOK
  <2>6. /\ TrackerOK(w) /\ Leaves(u, w, n, {s})
        /\ \A x \in Stream \ {s} : SameIn(u, w, x)
        /\ Untold(u, s) /\ BoundedIn(u.overlays, s) => CurrentIn(w, s)
    BY <2>1, <2>2, <2>4, <2>5, LeaveAndCheckKeeps, LeaveAndCheckCurrent
  <2>7. \A x : x \notin Done(i) => x \notin Done(i - 1) /\ x # s
    BY <2>4
  <2> HIDE DEF Done
  <2>8. ASSUME NEW x \in Stream
        PROVE  /\ x \notin Done(i) => SameIn(t, w, x)
               /\ Untold(t, x) /\ BoundedIn(t.overlays, x) => CurrentIn(w, x)
    <3>1. /\ x \notin Done(i - 1) => SameIn(t, u, x)
          /\ Untold(t, x) /\ BoundedIn(t.overlays, x) => CurrentIn(u, x)
      BY <2>2
    <3>2. CASE x = s
      <4>1. SameIn(t, u, x)
        BY <2>3, <2>4, <3>1, <3>2
      <4>2. Untold(t, x) /\ BoundedIn(t.overlays, x)
               => Untold(u, x) /\ BoundedIn(u.overlays, x)
        BY <4>1, SameInKeeps
      <4> QED BY <2>6, <2>7, <3>2, <4>2
    <3>3. CASE x # s
      <4>1. SameIn(u, w, x)
        BY <2>6, <3>3
      <4> QED BY <2>7, <3>1, <4>1, SameInKeeps, SameInTransitive DEF CurrentIn
    <3> QED BY <3>2, <3>3
  <2>9. ASSUME NEW x \in DOMAIN t.overlays \ Done(i) PROVE x \in DOMAIN w.overlays
    BY <2>2, <2>6, <2>7 DEF Leaves
  <2> QED BY <2>6, <2>8, <2>9
<1> HIDE DEF Good
<1>5. N \in Good
  BY <1>3, <1>4, LoopInduction
<1>6. \A x : x \notin S => x \notin Done(N)
  BY <1>2
<1> HIDE DEF Done
<1> QED BY <1>2, <1>5, <1>6 DEF Good

\* processNodeStatus, whatever the neighbors reported: the overlays of the streams
\* reported may be over the maximum in between, but then nobody was told anything
\* before their only turn of formAndSendInstructions.
LEMMA StatusCurrent ==
    ASSUME TrackerOK(State), NEW n \in Node, NEW reports, NEW singleStream,
           StatusOK(reports, singleStream), NEW v \in StatusOutcomes(n, reports, singleStream)
    PROVE  \A x \in Stream : BoundedIn(overlayPerStream, x) => Current(v, x)
<1> DEFINE S == DOMAIN reports
           F == FilteredStreams(counters, n, reports)
           t == Prepared(n, S)
           o == overlayPerStream
<1>1. S \subseteq Stream /\ F \subseteq S
  BY DEF StatusOK, FilteredStreams
<1>2. /\ TrackerOK(t)
      /\ DOMAIN t.overlays = DOMAIN o \cup S
      /\ \A s \in DOMAIN o : t.overlays[s] = o[s]
      /\ \A s \in S \ DOMAIN o : DOMAIN t.overlays[s] = {}
  BY StatusInParts
<1>3. PICK u \in IF singleStream THEN UpdateNodeOnStream(t, n, F, reports)
                 ELSE UpdateNode(t, n, F, reports) :
          v \in FormAndSendAll(u, n, S)
  BY StatusInParts
<1>4. \A x \in Stream : Untold(t, x)
  BY DEF Prepared, NoSends, Untold, About
<1> HIDE DEF t
<1>5. ASSUME NEW x \in Stream, BoundedIn(o, x) PROVE BoundedIn(t.overlays, x)
  BY <1>2, <1>5 DEF BoundedIn
<1>6. ASSUME NEW w, w \in {UpdateOverlays(t, n, F, reports)}
      PROVE  /\ TrackerOK(w) /\ DOMAIN w.overlays = DOMAIN t.overlays
             /\ \A x \in Stream : Untold(w, x)
             /\ \A x \in Stream \ F : BoundedIn(t.overlays, x) => BoundedIn(w.overlays, x)
  <2>1. F \subseteq DOMAIN t.overlays
    BY <1>1, <1>2
  <2> HIDE DEF F
  <2>2. TrackerOK(w) /\ Updates(t, w, n, F)
    BY <1>2, <1>6, <2>1, UpdateOverlaysKeeps
  <2>3. w.sent = t.sent
    BY <1>2, <1>6 DEF UpdateOverlays, TrackerOK, IsRecord
  <2> QED BY <1>4, <2>2, <2>3 DEF Updates, BoundedIn, Untold
<1> HIDE DEF F
<1>7. /\ TrackerOK(u)
      /\ \A x \in Stream : BoundedIn(o, x) => Untold(u, x) \/ CurrentIn(u, x)
  <2>1. CASE singleStream
    <3>1. PICK s \in Stream : S = {s}
      BY <2>1 DEF StatusOK
    <3>2. u \in UpdateNodeOnStream(t, n, F, reports)
      BY <1>3, <2>1
    <3>3. CASE F = {}
      <4>1. u = t
        BY <3>2, <3>3, FS_EmptySet DEF UpdateNodeOnStream
      <4> QED BY <1>2, <1>4, <4>1
    <3>4. CASE F = {s}
      <4>1. Cardinality(F) = 1 /\ (CHOOSE x \in F : TRUE) = s
        BY <3>4, FS_Singleton
      <4>2. u \in IF reports[s].counter = Unsubscribed THEN LeaveAndCheckEmptyOverlay(t, n, s)
                  ELSE {UpdateOverlays(t, n, {s}, reports)}
        BY <3>2, <4>1 DEF UpdateNodeOnStream
      <4>3. s \in DOMAIN t.overlays
        BY <1>2, <3>1
      <4>4. CASE reports[s].counter = Unsubscribed
        <5>1. u \in LeaveAndCheckEmptyOverlay(t, n, s)
          BY <4>2, <4>4
        <5>2. /\ TrackerOK(u)
              /\ \A x \in Stream \ {s} : SameIn(t, u, x)
              /\ Untold(t, s) /\ BoundedIn(t.overlays, s) => CurrentIn(u, s)
          BY <1>2, <4>3, <5>1, LeaveAndCheckKeeps, LeaveAndCheckCurrent
        <5>3. \A x \in Stream \ {s} : Untold(u, x)
          BY <1>4, <5>2, SameInKeeps
        <5> QED BY <1>4, <1>5, <5>2, <5>3
      <4>5. CASE reports[s].counter # Unsubscribed
        <5>1. u \in {UpdateOverlays(t, n, F, reports)}
          BY <3>4, <4>2, <4>5
        <5> QED BY <1>6, <5>1
      <4> QED BY <4>4, <4>5
    <3> QED BY <1>1, <3>1, <3>3, <3>4
  <2>2. CASE ~ singleStream
    <3>1. PICK w \in {UpdateOverlays(t, n, F, reports)} :
             u \in LeaveAll(w, n, DOMAIN w.overlays \ S)
      BY <1>3, <2>2 DEF UpdateNode
    <3> DEFINE D == DOMAIN w.overlays \ S
    <3>2. TrackerOK(w) /\ \A x \in Stream : Untold(w, x)
      BY <1>6, <3>1
    <3>3. /\ TrackerOK(u)
          /\ \A x \in Stream : /\ x \notin D => SameIn(w, u, x)
                               /\ Untold(w, x) /\ BoundedIn(w.overlays, x) => CurrentIn(u, x)
      BY <3>1, <3>2, LeaveAllKeeps, LeaveAllCurrent
    <3>4. ASSUME NEW x \in Stream, BoundedIn(o, x) PROVE Untold(u, x) \/ CurrentIn(u, x)
      <4>1. CASE x \in D
        <5>1. BoundedIn(w.overlays, x)
          BY <1>1, <1>5, <1>6, <3>1, <3>4, <4>1
        <5> QED BY <3>2, <3>3, <5>1
      <4>2. CASE x \notin D
        BY <3>2, <3>3, <4>2, SameInKeeps
      <4> QED BY <4>1, <4>2
    <3> QED BY <3>3, <3>4
  <2> QED BY <2>1, <2>2
<1>8. \A x \in Stream : /\ Untold(u, x) => Current(v, x)
                        /\ CurrentIn(u, x) => CurrentIn(v, x)
  <2>1. S \in SUBSET Stream
    BY <1>1
  <2> HIDE DEF S
  <2> QED BY <1>3, <1>7, <2>1, FormAndSendAllCurrent
<1> QED BY <1>7, <1>8 DEF CurrentIn

\* The instructions of a handler that are current when it is done
LEMMA BecomesCurrent ==
    ASSUME NEW v, TrackerOK(v), Becomes(v),
           \A x \in Stream : BoundedIn(overlayPerStream, x) => Current(v, x),
           NEW n \in Node, NEW s \in Stream, BoundedIn(overlayPerStream, s),
           NEW i \in DOMAIN sent'[n], sent'[n][i].stream = s,
           \A j \in DOMAIN sent'[n] : sent'[n][j].stream = s => j <= i
    PROVE  /\ s \in DOMAIN overlayPerStream'
           /\ n \in DOMAIN overlayPerStream'[s]
           /\ sent'[n][i].nodeIds = overlayPerStream'[s][n]
<1>1. overlayPerStream' = v.overlays /\ sent' = v.sent
  BY DEF Becomes
<1>2. v.sent[n] \in Seq(InstructionType)
  BY DEF TrackerOK
<1>3. DOMAIN v.sent[n] = 1 .. Len(v.sent[n])
  BY <1>2
<1>4. i \in About(v.sent[n], s) /\ \A j \in About(v.sent[n], s) : j <= i
  BY <1>1, <1>3 DEF About
<1> QED BY <1>1, <1>4 DEF Current

\* The last instruction of a handler tells a node the neighbors it has when the
\* handler is done, unless somebody was over the maximum before: whatever connects,
\* disconnects, subscribes and leaves, in whatever order its messages come.
THEOREM LastIsCurrent == Spec => LastInstructionIsCurrent
<1>1. ASSUME SoundInv, [Next]_vars, NEW n \in Node, NEW s \in Stream,
             BoundedIn(overlayPerStream, s),
             NEW i \in DOMAIN sent'[n], sent'[n][i].stream = s,
             \A j \in DOMAIN sent'[n] : sent'[n][j].stream = s => j <= i,
             ~ UNCHANGED trackerVars
      PROVE  /\ s \in DOMAIN overlayPerStream'
             /\ n \in DOMAIN overlayPerStream'[s]
             /\ sent'[n][i].nodeIds = overlayPerStream'[s][n]
  <2>0. TrackerOK(State) /\ State.overlays = overlayPerStream
    BY <1>1 DEF SoundInv, TrackerInv, State
  <2>1. PICK m \in Node : Connect(m) \/ Disconnect(m) \/ TrackerReceives(m)
    <3>1. Next
      BY <1>1 DEF vars
    <3> QED BY <1>1, <3>1 DEF Next, Subscribe, Unsubscribe, ReceiveInstruction, NeighborLost
  <2>2. \A z : sent' = NoSends => z \notin DOMAIN sent'[n]
    BY DEF NoSends
  <2>3. CASE Connect(m)
    BY <1>1, <2>2, <2>3 DEF Connect, NodeConnected
  <2>4. CASE Disconnect(m)
    <3>1. PICK v \in LeaveAll(State, m, DOMAIN overlayPerStream) : Becomes(v)
      BY <2>4 DEF Disconnect, NodeDisconnected
    <3>2. PICK z, D : z = State /\ D = DOMAIN z.overlays
      OBVIOUS
    <3>3. TrackerOK(z) /\ D \in SUBSET DOMAIN z.overlays /\ v \in LeaveAll(z, m, D)
      BY <2>0, <3>1, <3>2
    <3>4. /\ TrackerOK(v)
          /\ \A x \in Stream : Untold(z, x) /\ BoundedIn(z.overlays, x) => CurrentIn(v, x)
      BY <3>3, LeaveAllKeeps, LeaveAllCurrent
    <3>5. \A x \in Stream : Untold(z, x)
      BY <3>2 DEF State, NoSends, Untold, About
    <3>6. \A x \in Stream : BoundedIn(overlayPerStream, x) => Current(v, x)
      BY <2>0, <3>2, <3>4, <3>5 DEF CurrentIn
    <3> QED BY <1>1, <3>1, <3>4, <3>6, BecomesCurrent
  <2>5. CASE TrackerReceives(m)
    <3> DEFINE q == toTracker[m]
               st == Head(q)
    <3>1. q # <<>> /\ \E v \in StatusOutcomes(m, st.reports, st.singleStream) : Becomes(v)
      BY <2>5 DEF TrackerReceives, ProcessNodeStatus
    <3>2. st \in StatusType
      <4>1. q \in Seq(StatusType)
        BY <1>1 DEF SoundInv, NodesInv
      <4> HIDE DEF q
      <4> QED BY <3>1, <4>1
    <3> HIDE DEF q
    <3>3. StatusOK(st.reports, st.singleStream) /\ st.singleStream \in BOOLEAN
      BY <3>2 DEF StatusType
    <3> HIDE DEF st
    <3>4. PICK v \in StatusOutcomes(m, st.reports, st.singleStream) : Becomes(v)
      BY <3>1
    <3>5. TrackerOK(v)
      BY <1>1, <2>0, <3>3, StatusEffect DEF SoundInv, TrackerInv
    <3>6. \A x \in Stream : BoundedIn(overlayPerStream, x) => Current(v, x)
      BY <2>0, <3>3, StatusCurrent
    <3> QED BY <1>1, <3>4, <3>5, <3>6, BecomesCurrent
  <2> QED BY <2>1, <2>3, <2>4, <2>5
<1>2. SoundInv /\ [Next]_vars =>
        [\A n \in Node, s \in Stream :
           LET mine == {i \in DOMAIN sent'[n] : sent'[n][i].stream = s}
           IN  (s \in DOMAIN overlayPerStream =>
                   \A m \in DOMAIN overlayPerStream[s] :
                       Cardinality(overlayPerStream[s][m]) <= MaxNeighbors)
               => \A i \in mine : (\A j \in mine : j <= i) =>
                      /\ s \in DOMAIN overlayPerStream'
                      /\ n \in DOMAIN overlayPerStream'[s]
                      /\ sent'[n][i].nodeIds = overlayPerStream'[s][n]]_trackerVars
  BY <1>1 DEF BoundedIn
<1> QED BY <1>2, TrackerInvariant, PTL DEF Spec, LastInstructionIsCurrent
=============================================================================
