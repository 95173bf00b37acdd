------------------------------- MODULE Tracker -------------------------------
(***************************************************************************)
(* src/logic/Tracker.ts with src/logic/InstructionCounter.ts: one tracker, *)
(* the overlays of its streams and the instructions it sends to nodes.     *)
(*                                                                         *)
(* The tracker is driven by the events of TrackerServer.  Each handler     *)
(* runs to completion (the only awaits are those for the outcome of a      *)
(* send), so each is one action; `sent` holds what the last handler sent.  *)
(* TrackerAndNodes puts the nodes of src/logic/Node.ts at the other end    *)
(* and has the runs.  The maps that only storage-node requests and HTTP    *)
(* endpoints read (storageNodes, overlayConnectionRtts) are left out.      *)
(***************************************************************************)
EXTENDS OverlayGraph, SequencesExt

CONSTANTS Stream   \* stream keys, streamId::partition

ASSUME StreamAssumption == IsFiniteSet(Stream)

VARIABLES
    connected,         \* nodes with an open connection to the tracker
    overlayPerStream,  \* stream key -> overlay graph, for the existing overlays
    counters,          \* <<node, stream>> -> counter (InstructionCounter)
    sent               \* per node, the instructions sent by the last handler

trackerVars == <<connected, overlayPerStream, counters, sent>>

\* The counter with which a node reports that it left a stream.
Unsubscribed == -1

\* The map f once s is set to x
Put(f, s, x) == [k \in DOMAIN f \cup {s} |-> IF k = s THEN x ELSE f[k]]

NoSends == [n \in Node |-> <<>>]

-----------------------------------------------------------------------------
(***************************************************************************)
(* InstructionCounter                                                      *)
(***************************************************************************)
CounterOf(c, n, s) == IF <<n, s>> \in DOMAIN c THEN c[<<n, s>>] ELSE 0

\* Mutant of SetIfNecessary: sets the counters that exist, too.
SetAlways(c, n, streams) ==
    [p \in DOMAIN c \cup ({n} \X streams) |->
        IF p \in {n} \X streams THEN 0 ELSE c[p]]

\* getAndSetIfNecessary, for each of several streams
SetIfNecessary(c, n, streams) ==
    [p \in DOMAIN c \cup ({n} \X streams) |-> CounterOf(c, p[1], p[2])]

\* setOrIncrement, for each of several nodes.
SetOrIncrement(c, ns, s) ==
    [p \in DOMAIN c \cup (ns \X {s}) |->
        IF p[1] \in ns /\ p[2] = s THEN CounterOf(c, p[1], s) + 1 ELSE c[p]]

RemoveNode(c, n) == Restrict(c, {p \in DOMAIN c : p[1] # n})

RemoveStream(c, s) == Restrict(c, {p \in DOMAIN c : p[2] # s})

\* Mutant of FilteredStreams: nothing is filtered.
UnfilteredStreams(c, n, streams) == DOMAIN streams

\* filterStatus: the streams of a report that are not older than the last
\* instruction sent to the reporter.
FilteredStreams(c, n, streams) ==
    {s \in DOMAIN streams : \/ streams[s].counter >= CounterOf(c, n, s)
                            \/ streams[s].counter = Unsubscribed}

-----------------------------------------------------------------------------
(***************************************************************************)
(* The parts of the handlers.  They transform a record of overlays,        *)
(* counters and sends; where the overlay chooses at random they give the   *)
(* set of the possible outcomes.                                           *)
(***************************************************************************)
\* setOrIncrement and sendInstruction, for each instruction
Send(t, instructions, s) ==
    LET c == SetOrIncrement(t.counters, DOMAIN instructions, s)
    IN  [t EXCEPT
            !.counters = c,
            !.sent = [n \in Node |->
                        IF n \in DOMAIN instructions
                        THEN Append(t.sent[n], [stream  |-> s,
                                                nodeIds |-> instructions[n],
                                                counter |-> c[<<n, s>>]])
                        ELSE t.sent[n]]]

\* Mutant of FormAndSend: the instructions are made before the overlay changes.
FormAndSendOutdated(t, n, s, force) ==
    IF s \in DOMAIN t.overlays
    THEN LET g == t.overlays[s]
         IN  {Send([t EXCEPT !.overlays = Put(t.overlays, s, h)],
                   Instructions(g, UpdatedNodes(g, h, n, force)), s) :
                h \in Formed(g, n)}
    ELSE {t}

\* formAndSendInstructions for one stream key.
FormAndSend(t, n, s, force) ==
    IF s \in DOMAIN t.overlays
    THEN LET g == t.overlays[s]
         IN  {Send([t EXCEPT !.overlays = Put(t.overlays, s, h)],
                   Instructions(h, UpdatedNodes(g, h, n, force)), s) :
                h \in Formed(g, n)}
    ELSE {t}

\* A loop: what calls for each element of order, one after the other, may come to
InTurn(t, order, Call(_, _)) ==
    LET reached[i \in 0 .. Len(order)] ==
            IF i = 0 THEN {t} ELSE UNION {Call(u, order[i]) : u \in reached[i - 1]}
    IN  reached[Len(order)]

\* formAndSendInstructions for a node and several stream keys.  Different
\* streams have different overlays and counters: one order stands for all.
FormAndSendAll(t, n, streams) ==
    InTurn(t, SetToSeq(streams), LAMBDA u, s : FormAndSend(u, n, s, FALSE))

\* The neighbors left behind are visited in the order of a set that other
\* nodes filled: any order.
FormAndSendToEach(t, neighbors, s) ==
    UNION {InTurn(t, order, LAMBDA u, m : FormAndSend(u, m, s, TRUE)) :
             order \in SetToSeqs(neighbors)}

\* leaveAndCheckEmptyOverlay
LeaveAndCheckEmptyOverlay(t, n, s) ==
    LET g == t.overlays[s]
        h == IF n \in DOMAIN g THEN Left(g, n) ELSE g
        c == RemoveNode(t.counters, n)
    IN  IF DOMAIN h = {}
        THEN {[t EXCEPT !.overlays = Restrict(t.overlays, DOMAIN t.overlays \ {s}),
                        !.counters = RemoveStream(c, s)]}
        ELSE FormAndSendToEach([t EXCEPT !.overlays = Put(t.overlays, s, h),
                                         !.counters = c],
                               IF n \in DOMAIN g THEN g[n] ELSE {}, s)

LeaveAll(t, n, streams) ==
    InTurn(t, SetToSeq(streams), LAMBDA u, s : LeaveAndCheckEmptyOverlay(u, n, s))

UpdateOverlays(t, n, streams, reports) ==
    [t EXCEPT !.overlays = [s \in DOMAIN t.overlays |->
        IF s \in streams THEN Updated(t.overlays[s], n, reports[s].neighbors)
        ELSE t.overlays[s]]]

\* updateNodeOnStream: a report about a single stream.
UpdateNodeOnStream(t, n, filtered, reports) ==
    IF Cardinality(filtered) = 1
    THEN LET s == CHOOSE x \in filtered : TRUE
         IN  IF reports[s].counter = Unsubscribed
             THEN LeaveAndCheckEmptyOverlay(t, n, s)
             ELSE {UpdateOverlays(t, n, {s}, reports)}
    ELSE {t}

\* updateNode: a report about all the streams of a node.
UpdateNode(t, n, filtered, reports) ==
    LET u == UpdateOverlays(t, n, filtered, reports)
    IN  LeaveAll(u, n, DOMAIN u.overlays \ DOMAIN reports)

\* createNewOverlayTopologies
CreateNewOverlayTopologies(overlays, streams) ==
    [s \in DOMAIN overlays \cup streams |->
        IF s \in DOMAIN overlays THEN overlays[s] ELSE EmptyGraph]

State == [overlays |-> overlayPerStream, counters |-> counters, sent |-> NoSends]

Becomes(t) == /\ overlayPerStream' = t.overlays
              /\ counters' = t.counters
              /\ sent' = t.sent

-----------------------------------------------------------------------------
(***************************************************************************)
(* The handlers                                                            *)
(***************************************************************************)
TrackerInit ==
    /\ connected = {}
    /\ overlayPerStream = [s \in {} |-> EmptyGraph]
    /\ counters = [p \in {} |-> 0]
    /\ sent = NoSends

\* onNodeConnected
NodeConnected(n) ==
    /\ n \notin connected
    /\ connected' = connected \cup {n}
    /\ sent' = NoSends
    /\ UNCHANGED <<overlayPerStream, counters>>

\* onNodeDisconnected, removeNode
NodeDisconnected(n) ==
    /\ n \in connected
    /\ connected' = connected \ {n}
    /\ \E t \in LeaveAll(State, n, DOMAIN overlayPerStream) : Becomes(t)

\* What processNodeStatus may come to.  reports gives, for each stream of the
\* status, the neighbors (inbound and outbound nodes) and the counter.
StatusOutcomes(n, reports, singleStream) ==
    LET filtered == FilteredStreams(counters, n, reports)
        t == [State EXCEPT
                !.counters = SetIfNecessary(counters, n, DOMAIN reports),
                !.overlays = CreateNewOverlayTopologies(overlayPerStream,
                                                        DOMAIN reports)]
    IN  UNION {FormAndSendAll(u, n, DOMAIN reports) :
                 u \in IF singleStream
                       THEN UpdateNodeOnStream(t, n, filtered, reports)
                       ELSE UpdateNode(t, n, filtered, reports)}

\* processNodeStatus
ProcessNodeStatus(n, reports, singleStream) ==
    /\ n \in connected
    /\ \E t \in StatusOutcomes(n, reports, singleStream) : Becomes(t)
    /\ UNCHANGED connected

\* What a node reports of a stream it left.
Departure == [neighbors |-> {}, counter |-> Unsubscribed]

-----------------------------------------------------------------------------
\* Every overlay is well formed, has a node and has only connected ones,
\* whatever nodes report.  It goes away with its last node; a report that is
\* ignored for its old counter does not leave the overlay made for it behind;
\* and no report made before its sender learned of a disconnection brings the
\* node that disconnected back.
OverlaysSound ==
    \A s \in DOMAIN overlayPerStream :
        /\ WellFormed(overlayPerStream[s])
        /\ DOMAIN overlayPerStream[s] # {}
        /\ DOMAIN overlayPerStream[s] \subseteq connected

\* The last instruction sent to a node by a handler states the neighbors the
\* node has in the overlay the handler leaves behind, although the handler
\* rewires the overlay several times when several nodes lose a neighbor,
\* unless somebody was over the maximum before.
LastInstructionIsCurrent ==
    [][\A n \in Node, s \in Stream :
         LET mine == {i \in DOMAIN sent'[n] : sent'[n][i].stream = s}
         IN  (s \in DOMAIN overlayPerStream =>
                 \A m \in DOMAIN overlayPerStream[s] :
                     Cardinality(overlayPerStream[s][m]) <= MaxNeighbors)
             => \A i \in mine : (\A j \in mine : j <= i) =>
                    /\ s \in DOMAIN overlayPerStream'
                    /\ n \in DOMAIN overlayPerStream'[s]
                    /\ sent'[n][i].nodeIds = overlayPerStream'[s][n]]_trackerVars
=============================================================================
