--------------------------- MODULE TrackerAndNodes ---------------------------
(***************************************************************************)
(* The tracker of module Tracker and the nodes of src/logic/Node.ts, with  *)
(* a WebSocket connection between the tracker and each node: the reports   *)
(* and the instructions in flight are in order and are lost when the       *)
(* connection is.                                                          *)
(*                                                                         *)
(* A node handles an instruction in one step here, as it does when it has  *)
(* the connections it is told to make or makes them at once; module        *)
(* NodeInstructions has the handler's awaits.                              *)
(***************************************************************************)
EXTENDS Tracker

CONSTANTS MaxEvents,    \* bound on what users and networks do to the nodes
          Churn         \* the kinds of events that happen

VARIABLES
    wanted,     \* per node, the streams its user is subscribed to
    streams,    \* per node, stream key -> neighbors and counter (StreamManager)
    accepted,   \* per node, stream key -> InstructionThrottler.instructionCounter
    toTracker,  \* per node, the status messages in flight
    toNode,     \* per node, the instructions in flight
    events      \* how many events happened

nodeVars == <<wanted, streams, accepted, toTracker, toNode>>
vars == <<trackerVars, nodeVars, events>>

-----------------------------------------------------------------------------
(***************************************************************************)
(* What a node reports                                                     *)
(***************************************************************************)
\* getStreamState
StreamStatus(ss, s) ==
    [reports |-> [x \in {s} |-> IF s \in DOMAIN ss THEN ss[s] ELSE Departure],
     singleStream |-> TRUE]

\* getFullStatus, for a network with one tracker
FullStatus(ss) == [reports |-> ss, singleStream |-> FALSE]

\* A status is lost when the node has no connection to the tracker.
SendStatus(n, status) ==
    toTracker' = IF n \in connected
                 THEN [toTracker EXCEPT ![n] = Append(@, status)]
                 ELSE toTracker

\* What the tracker sent in this step is in flight.
InstructionsSent == [m \in Node |-> toNode[m] \o sent'[m]]

Event(kind) == /\ kind \in Churn
               /\ events < MaxEvents
               /\ events' = events + 1

NewStream == [neighbors |-> {}, counter |-> 0]

-----------------------------------------------------------------------------
Init == /\ TrackerInit
        /\ wanted = [n \in Node |-> {}]
        /\ streams = [n \in Node |-> [s \in {} |-> NewStream]]
        /\ accepted = [n \in Node |-> [s \in {} |-> 0]]
        /\ toTracker = [n \in Node |-> <<>>]
        /\ toNode = [n \in Node |-> <<>>]
        /\ events = 0

\* subscribeToStreamIfHaveNotYet, called by the user of the node.
Subscribe(n, s) ==
    /\ Event("subscribe")
    /\ s \notin wanted[n]
    /\ wanted' = [wanted EXCEPT ![n] = @ \cup {s}]
    /\ IF s \in DOMAIN streams[n]
       THEN UNCHANGED <<streams, toTracker>>
       ELSE /\ streams' = [streams EXCEPT ![n] = Put(@, s, NewStream)]
            /\ SendStatus(n, StreamStatus(streams'[n], s))
    /\ UNCHANGED <<accepted, toNode, trackerVars>>

\* Mutant of Unsubscribe: the status is made before the stream is removed.
UnsubscribeReportingFirst(n, s) ==
    /\ Event("unsubscribe")
    /\ s \in wanted[n]
    /\ wanted' = [wanted EXCEPT ![n] = @ \ {s}]
    /\ streams' = [streams EXCEPT ![n] = Restrict(@, DOMAIN @ \ {s})]
    /\ accepted' = [accepted EXCEPT ![n] = Restrict(@, DOMAIN @ \ {s})]
    /\ SendStatus(n, StreamStatus(streams[n], s))
    /\ UNCHANGED <<toNode, trackerVars>>

\* unsubscribeFromStream
Unsubscribe(n, s) ==
    /\ Event("unsubscribe")
    /\ s \in wanted[n]
    /\ wanted' = [wanted EXCEPT ![n] = @ \ {s}]
    /\ streams' = [streams EXCEPT ![n] = Restrict(@, DOMAIN @ \ {s})]
    /\ accepted' = [accepted EXCEPT ![n] = Restrict(@, DOMAIN @ \ {s})]
    /\ SendStatus(n, StreamStatus(streams'[n], s))
    /\ UNCHANGED <<toNode, trackerVars>>

\* InstructionThrottler.add: an instruction older than the last one is dropped.
Accepts(n, i) ==
    \/ i.stream \notin DOMAIN accepted[n]
    \/ accepted[n][i.stream] <= i.counter

\* onTrackerInstructionReceived, handleTrackerInstruction.  The node connects
\* to the nodes it was given, except the failed ones, drops its other
\* neighbors and reports.
ReceiveInstruction(n, failed) ==
    LET i == Head(toNode[n])
        before == IF i.stream \in DOMAIN streams[n] THEN streams[n][i.stream].neighbors
                  ELSE {}
        after == (before \cap i.nodeIds) \cup (i.nodeIds \ failed)
    IN  /\ toNode[n] # <<>>
        /\ failed \subseteq i.nodeIds
        /\ IF failed = {} THEN UNCHANGED events ELSE Event("connect failure")
        /\ toNode' = [toNode EXCEPT ![n] = Tail(@)]
        /\ IF Accepts(n, i)
           THEN /\ accepted' = [accepted EXCEPT ![n] = Put(@, i.stream, i.counter)]
                /\ streams' = [streams EXCEPT ![n] =
                     Put(@, i.stream, [neighbors |-> after, counter |-> i.counter])]
                /\ SendStatus(n, StreamStatus(streams'[n], i.stream))
           ELSE UNCHANGED <<accepted, streams, toTracker>>
        /\ UNCHANGED <<wanted, trackerVars>>

\* onNodeDisconnected: the connection to a neighbor is lost, which the neighbor
\* finds out in a step of its own.
NeighborLost(n, m) ==
    /\ Event("neighbor lost")
    /\ \E s \in DOMAIN streams[n] : m \in streams[n][s].neighbors
    /\ streams' = [streams EXCEPT ![n] =
         [s \in DOMAIN streams[n] |->
             [neighbors |-> streams[n][s].neighbors \ {m},
              counter   |-> streams[n][s].counter]]]
    /\ SendStatus(n, FullStatus(streams'[n]))
    /\ UNCHANGED <<wanted, accepted, toNode, trackerVars>>

\* A connection to the tracker opens: the tracker's onNodeConnected and the
\* node's onConnectedToTracker.
Connect(n) ==
    /\ Event("connect")
    /\ NodeConnected(n)
    /\ toTracker' = [toTracker EXCEPT ![n] = <<FullStatus(streams[n])>>]
    /\ UNCHANGED <<wanted, streams, accepted, toNode>>

\* A connection to the tracker is lost, with all that was in flight.  The node
\* does nothing about it (onTrackerDisconnected).
Disconnect(n) ==
    /\ Event("disconnect")
    /\ NodeDisconnected(n)
    /\ toTracker' = [toTracker EXCEPT ![n] = <<>>]
    /\ toNode' = [InstructionsSent EXCEPT ![n] = <<>>]
    /\ UNCHANGED <<wanted, streams, accepted>>

\* The tracker receives a status.
TrackerReceives(n) ==
    /\ toTracker[n] # <<>>
    /\ LET status == Head(toTracker[n])
       IN  ProcessNodeStatus(n, status.reports, status.singleStream)
    /\ toTracker' = [toTracker EXCEPT ![n] = Tail(@)]
    /\ toNode' = InstructionsSent
    /\ UNCHANGED <<wanted, streams, accepted, events>>

Next == \E n \in Node :
           \/ \E s \in Stream : Subscribe(n, s) \/ Unsubscribe(n, s)
           \/ \E failed \in SUBSET Node : ReceiveInstruction(n, failed)
           \/ \E m \in Node : NeighborLost(n, m)
           \/ Connect(n)
           \/ Disconnect(n)
           \/ TrackerReceives(n)

Spec == Init /\ [][Next]_vars

-----------------------------------------------------------------------------
NothingInFlight == \A n \in Node : toTracker[n] = <<>> /\ toNode[n] = <<>>

\* When everything that was sent has arrived, the tracker and the connected
\* nodes agree on who is whose neighbor: no node sends its messages to a node
\* that does not know of the link, and the tracker counts no link twice.
QuiescentAgreement ==
    NothingInFlight =>
        \A n \in connected : \A s \in DOMAIN streams[n] :
            /\ s \in DOMAIN overlayPerStream
            /\ n \in DOMAIN overlayPerStream[s]
            /\ streams[n][s].neighbors = overlayPerStream[s][n]

\* When everything that was sent has arrived, the tracker and the connected
\* nodes agree on who is in which stream, whatever happened to subscriptions
\* and connections in the meantime.
MembershipAgreement ==
    NothingInFlight =>
        \A n \in connected, s \in Stream :
            s \in DOMAIN streams[n] <=>
                s \in DOMAIN overlayPerStream /\ n \in DOMAIN overlayPerStream[s]

\* "Tracker receiving status with old counter should not affect topology"
\* (counter-filtering-in-tracker.test.ts:101): what a node reports of a stream
\* before it had its last instruction is not believed, neither the neighbors it
\* has nor those it lacks.  Nobody joins or leaves the stream by it.  Unless the
\* reporter was over the maximum it keeps all its neighbors, and the only links
\* that go are those broken to link it to both their ends; and whom it gains it
\* is instructed to connect to.
OldReportIsNotBelieved ==
    [][\A n \in connected' :
         toTracker[n] # <<>> /\ toTracker'[n] = Tail(toTracker[n]) =>
             LET reports == Head(toTracker[n]).reports
                 old == {s \in DOMAIN reports \cap DOMAIN overlayPerStream :
                            reports[s].counter \in 0 .. CounterOf(counters, n, s) - 1}
             IN  \A s \in old :
                     LET g == overlayPerStream[s]
                         h == overlayPerStream'[s]
                     IN  /\ n \in DOMAIN g /\ DOMAIN h = DOMAIN g
                         /\ Cardinality(g[n]) <= MaxNeighbors =>
                              /\ g[n] \subseteq h[n]
                              /\ \A a \in DOMAIN g : \A b \in g[a] \ h[a] :
                                    {a, b} \subseteq h[n] \ g[n]
                         /\ \A m \in h[n] \ g[n] :
                              \E i \in DOMAIN sent'[n] : m \in sent'[n][i].nodeIds]_vars

\* "All instructions are handled when inserting them slowly"
\* (InstructionThrottler.test.ts:58): the last instruction in flight to a node
\* is never dropped as older than one the node had before.
NewestIsAccepted ==
    \A n \in Node : Len(toNode[n]) = 1 => Accepts(n, Head(toNode[n]))
=============================================================================
