------------------------------- MODULE Resends -------------------------------
(***************************************************************************)
(* src/resend and Node.requestResend: the resends an application requests  *)
(* of its node (the requester), which the node takes from its own storage  *)
(* or has sent to it by a storage node the tracker names.                  *)
(*                                                                         *)
(* A request has a stream at every node it gets to: the loop over          *)
(* LocalResendStrategy and ForeignResendStrategy, which gives a storage    *)
(* node's messages to the requester and the requester's to the             *)
(* application.  At the requester it also has a place, where it is on its  *)
(* way through the tracker to a storage node and back, which outlives the  *)
(* stream.  All requests are for one stream of the network.                *)
(***************************************************************************)
EXTENDS Naturals, Sequences, SequencesExt, FiniteSets

CONSTANTS Request,
          Storage,      \* the storage nodes
          Contacts,     \* those that may be neighbors of the requester, too
          Requester,
          NodeLists,    \* the lists of storage nodes a tracker may answer
          Holdings,     \* how many messages the storages may have (see holds)
          MaxEvents     \* bound on failures, cancellations, pauses and stops

Node == Storage \cup {Requester}

ASSUME RequestAssumption == IsFiniteSet(Request)
ASSUME NodeAssumption == Requester \notin Storage /\ Contacts \subseteq Storage
ASSUME NodeListsAssumption == NodeLists \subseteq Seq(Storage)
ASSUME HoldingsAssumption == Holdings \subseteq [Node -> [Request -> Nat]]

VARIABLES
    holds,       \* per node and request, how many messages its storage has
    stream,      \* per node and request, the loop through the strategies
    place,       \* per request, what the requester's foreign strategy does
    neighbors,   \* the nodes for which isSubscribedTo holds at the requester
    linked,      \* the storage nodes the requester is connected to
    attached,    \* the storage nodes that are connected to the requester
    forwarded,   \* per storage node, the requests on the way to it
    answers,     \* per storage node, its responses in queues and on the way
    paused,      \* per storage node, the streams paused by back pressure
    stopped,     \* the requester is stopped
    events,      \* how many of MaxEvents happened
    disturbed    \* history: a timer fired or an event happened

requesterVars == <<place, linked, neighbors, stopped>>
storageVars == <<attached, forwarded, answers, paused>>
faultVars == <<events, disturbed>>
vars == <<holds, stream, requesterVars, storageVars, faultVars>>

Event == events < MaxEvents /\ events' = events + 1 /\ disturbed' = TRUE

TimerFires == disturbed' = TRUE /\ UNCHANGED events

-----------------------------------------------------------------------------
(***************************************************************************)
(* The loop: loopThruResendStrategies and readStreamUntilEndOrError.  A    *)
(* stream is at one strategy, which has given `seen` messages.             *)
(***************************************************************************)
Loop(strategy, given) == [at |-> strategy, seen |-> 0, given |-> given]

NotAsked == Loop("none", <<>>)

Runs(n, r) == stream[n][r].at \in {"local", "foreign"}

Over(loop) == Loop("over", loop.given)

Gives(loop, i) == [loop EXCEPT !.seen = @ + 1, !.given = Append(@, i)]

\* The foreign strategy ends at once for the requests of other nodes.
NextStrategy(n, loop) ==
    IF n = Requester /\ loop.at = "local" THEN Loop("foreign", loop.given) ELSE Over(loop)

\* The strategy ends: the next one runs if it gave nothing.
Ends(n, loop) == IF loop.seen > 0 THEN Over(loop) ELSE NextStrategy(n, loop)

At(state, s, rest) == [at |-> state, of |-> s, rest |-> rest]

Nowhere(state) == At(state, Requester, <<>>)

\* The response at the end of a stream that gave these messages.
FinalResponse(r, given) ==
    [type |-> IF given = <<>> THEN "NoResend" ELSE "Resent", of |-> r, no |-> 0]

\* proxyRequestStream: what a storage node sends when its loop becomes `loop`.
\* (Resending, which comes first, only resets a timer.)  A stream that is paused
\* does not emit its end.
Says(s, r, loop) ==
    IF loop.at # "over" THEN <<[type |-> "Unicast", of |-> r, no |-> Last(loop.given)]>>
    ELSE IF r \in paused[s] THEN <<>>
    ELSE <<FinalResponse(r, loop.given)>>

Becomes(n, r, loop) ==
    /\ stream' = [stream EXCEPT ![n][r] = loop]
    /\ place' = IF loop.at = "foreign" /\ stream[n][r].at = "local"
                THEN [place EXCEPT ![r] = Nowhere("asking")]
                ELSE place
    /\ answers' = IF n \in Storage
                  THEN [answers EXCEPT ![n] = @ \o Says(n, r, loop)]
                  ELSE answers
    /\ UNCHANGED <<holds, linked, neighbors, stopped, attached, forwarded, paused>>

\* cancelResendsOfNode, for the requester
Cancelled(s) ==
    [stream EXCEPT ![s] = [r \in Request |->
        IF Runs(s, r) THEN Over(stream[s][r]) ELSE stream[s][r]]]

-----------------------------------------------------------------------------
(***************************************************************************)
(* The requester's foreign strategy.  A request asks the tracker, is       *)
(* pending, dials one storage node after the other, is sending to one of   *)
(* them, has it as its currentNeighbor, and is done.                       *)
(***************************************************************************)
\* pendingResends: the ProxiedResends of a storage node
Using(p, s) == {r \in Request : p[r].at \in {"sending", "current"} /\ p[r].of = s}

\* Mutant of Unneeded: a request that is done does not look for others.
UnneededByThese(p) ==
    {s \in linked \ neighbors : Using(place, s) \ Using(p, s) # {}}

\* Mutant of Unneeded: the request is removed from pendingResends too late.
UnneededBefore(p) == {s \in linked \ neighbors : Using(place, s) = {}}

\* onDoneCb: the last request to be done with a node disconnects from it, if it
\* is no neighbor.
Unneeded(p) ==
    {s \in linked \ neighbors : Using(p, s) = {} /\ Using(place, s) # {}}

\* Streams end when their requests get done, if they still wait for that.
StreamAfter(p) ==
    [stream EXCEPT ![Requester] = [r \in Request |->
        IF /\ p[r].at = "done" /\ place[r].at # "done"
           /\ stream[Requester][r].at = "foreign"
        THEN Ends(Requester, stream[Requester][r])
        ELSE stream[Requester][r]]]

Placed(rs, to) == [r \in Request |-> IF r \in rs THEN to[r] ELSE place[r]]

Done(rs) == Placed(rs, [r \in rs |-> [place[r] EXCEPT !.at = "done"]])

\* The connections to these nodes are gone: onNodeDisconnect, of the requests
\* that wait for their answers.
Cut(p, gone) ==
    /\ linked' = linked \ gone
    /\ place' = [r \in Request |->
                    IF p[r].at = "current" /\ p[r].of \in gone
                    THEN [p[r] EXCEPT !.at = "done"]
                    ELSE p[r]]
    /\ stream' = StreamAfter(place')
    /\ UNCHANGED holds

\* endStream, and pushing null onto the response stream before there is a
\* ProxiedResend
Moves(p) == Cut(p, Unneeded(p)) /\ UNCHANGED <<neighbors, stopped>>

\* The loop over storageNodeIds: connectToNode returns at once if there is a
\* connection.
Tries(list) ==
    IF list = <<>> THEN Nowhere("done")
    ELSE IF Head(list) \in linked THEN At("sending", Head(list), <<>>)
    ELSE At("dialing", Head(list), Tail(list))

-----------------------------------------------------------------------------
Init == /\ holds \in Holdings
        /\ neighbors \in SUBSET Contacts
        /\ linked = neighbors
        /\ attached = neighbors
        /\ stream = [n \in Node |-> [r \in Request |-> NotAsked]]
        /\ place = [r \in Request |-> Nowhere("none")]
        /\ forwarded = [s \in Storage |-> {}]
        /\ answers = [s \in Storage |-> <<>>]
        /\ paused = [s \in Storage |-> {}]
        /\ stopped = FALSE
        /\ events = 0
        /\ disturbed = FALSE

\* requestResend and handleRequest, of the application
Ask(r) ==
    /\ ~ stopped
    /\ stream[Requester][r].at = "none"
    /\ Becomes(Requester, r, Loop("local", <<>>))
    /\ UNCHANGED faultVars

\* requestResend and handleRequest, of a request that came from the requester.
\* (The storage node also sets the stream up, like Subscribe of NodeInstructions.)
Requested(s, r) ==
    /\ r \in forwarded[s]
    /\ forwarded' = [forwarded EXCEPT ![s] = @ \ {r}]
    /\ stream' = [stream EXCEPT ![s][r] = Loop("local", <<>>)]
    /\ UNCHANGED <<holds, requesterVars, attached, answers, paused, faultVars>>

IsPaused(n, r) == n \in Storage /\ r \in paused[n]

\* LocalResendStrategy: the storage gives the next message, ...
Reads(n, r) ==
    LET loop == stream[n][r]
    IN  /\ loop.at = "local"
        /\ ~ IsPaused(n, r)
        /\ loop.seen < holds[n][r]
        /\ Becomes(n, r, Gives(loop, loop.seen + 1))
        /\ UNCHANGED faultVars

\* ... or ends.
StorageEnds(n, r) ==
    LET loop == stream[n][r]
    IN  /\ loop.at = "local"
        /\ ~ IsPaused(n, r)
        /\ loop.seen = holds[n][r]
        /\ Becomes(n, r, Ends(n, loop))
        /\ UNCHANGED faultVars

\* Mutant of InactivityCheck: a strategy that gave something may stall.
InactivityCheckAtStart(n, r) ==
    /\ Runs(n, r)
    /\ stream[n][r].seen = 0
    /\ Becomes(n, r, NextStrategy(n, stream[n][r]))
    /\ TimerFires

\* rejectInterval: the strategy gave nothing from one check to the next, and
\* fails.  How long that takes does not matter here.
InactivityCheck(n, r) ==
    /\ Runs(n, r)
    /\ Becomes(n, r, NextStrategy(n, stream[n][r]))
    /\ TimerFires

\* The application destroys its stream; the foreign strategy is not told.
Cancel(r) ==
    /\ Event
    /\ Runs(Requester, r)
    /\ Becomes(Requester, r, Over(stream[Requester][r]))

-----------------------------------------------------------------------------
\* sendStorageNodesRequest
AskTracker(r) ==
    /\ place[r].at = "asking"
    /\ place' = [place EXCEPT ![r] = Nowhere("pending")]
    /\ UNCHANGED <<holds, stream, linked, neighbors, stopped, storageVars, faultVars>>

AskTrackerFails(r) ==
    /\ Event
    /\ place[r].at = "asking"
    /\ Moves(Done({r}))
    /\ UNCHANGED storageVars

TrackerTimeout(r) ==
    /\ place[r].at = "pending"
    /\ Moves(Done({r}))
    /\ TimerFires
    /\ UNCHANGED storageVars

\* STORAGE_NODES_RESPONSE_RECEIVED: it is for all requests that are pending.
StorageNodesResponse(list) ==
    LET rs == {r \in Request : place[r].at = "pending"}
    IN  /\ rs # {}
        /\ ~ stopped
        /\ Moves(Placed(rs, [r \in rs |-> Tries(list)]))
        /\ UNCHANGED <<storageVars, faultVars>>

Dialing(s) == {r \in Request : place[r].at = "dialing" /\ place[r].of = s}

\* The endpoint's old connection to the peer is closed before a new one opens.
Connected(s) ==
    /\ Dialing(s) # {}
    /\ s \notin attached
    /\ linked' = linked \cup {s}
    /\ attached' = attached \cup {s}
    /\ place' = Placed(Dialing(s), [r \in Dialing(s) |-> At("sending", s, <<>>)])
    /\ UNCHANGED <<holds, stream, neighbors, stopped, forwarded, answers, paused, faultVars>>

ConnectFails(s) ==
    /\ Dialing(s) # {}
    /\ Moves(Placed(Dialing(s), [r \in Dialing(s) |-> Tries(place[r].rest)]))
    /\ TimerFires
    /\ UNCHANGED storageVars

\* The request leaves, and the promise of send resolves in the same turn.
Forward(r) ==
    LET s == place[r].of
    IN  /\ place[r].at = "sending"
        /\ s \in linked
        /\ place' = [place EXCEPT ![r].at = "current"]
        /\ forwarded' = IF s \in attached THEN [forwarded EXCEPT ![s] = @ \cup {r}]
                        ELSE forwarded
        /\ UNCHANGED <<holds, stream, linked, neighbors, stopped, attached, answers,
                       paused, faultVars>>

ForwardFails(r) ==
    /\ Event
    /\ place[r].at = "sending"
    /\ place[r].of \in linked
    /\ Moves(Done({r}))
    /\ UNCHANGED storageVars

IsFor(message, s) == place[message.of].at = "current" /\ place[message.of].of = s

\* onUnicast and onResendResponse
Receive(s) ==
    LET message == Head(answers[s])
        r == message.of
    IN  /\ s \in linked
        /\ answers[s] # <<>>
        /\ answers' = [answers EXCEPT ![s] = Tail(@)]
        /\ IF IsFor(message, s) /\ message.type \in {"Resent", "NoResend"}
           THEN Moves(Done({r}))
           ELSE /\ IF /\ IsFor(message, s) /\ message.type = "Unicast"
                      /\ stream[Requester][r].at = "foreign"
                   THEN stream' = [stream EXCEPT ![Requester][r] = Gives(@, message.no)]
                   ELSE UNCHANGED stream
                /\ UNCHANGED <<holds, requesterVars>>
        /\ UNCHANGED <<attached, forwarded, paused, faultVars>>

\* No message for 20 seconds: askNextNeighbor has tried as many as it may.
Timeout(r) ==
    /\ place[r].at = "current"
    /\ Moves(Done({r}))
    /\ TimerFires
    /\ UNCHANGED storageVars

-----------------------------------------------------------------------------
(***************************************************************************)
(* Connections and back pressure                                           *)
(***************************************************************************)
\* NODE_DISCONNECTED at the requester.  A request that is being sent stays in
\* the queue for the next connection.
LinkLost(s) ==
    /\ s \in linked
    /\ IF s \in attached THEN Event ELSE UNCHANGED faultVars
    /\ Cut(place, {s})
    /\ neighbors' = neighbors \ {s}
    /\ UNCHANGED <<stopped, storageVars>>

\* NODE_DISCONNECTED at a storage node.  What had left it is lost; what waits in
\* its queue is sent on the next connection.
RequesterLost(s) ==
    /\ s \in attached
    /\ IF s \in linked THEN Event ELSE UNCHANGED faultVars
    /\ attached' = attached \ {s}
    /\ stream' = Cancelled(s)
    /\ forwarded' = [forwarded EXCEPT ![s] = {}]
    /\ paused' = [paused EXCEPT ![s] = {}]
    /\ \E k \in 1 .. Len(answers[s]) + 1 :
          answers' = [answers EXCEPT ![s] = SubSeq(@, k, Len(@))]
    /\ UNCHANGED <<holds, requesterVars>>

\* The send of an answer rejects: all resends for the requester are cancelled,
\* and end as if they had been fulfilled, in any order.
AnswerFails(s) ==
    /\ Event
    /\ s \in attached
    /\ stream' = Cancelled(s)
    /\ \E k \in DOMAIN answers[s] :
          \E finals \in SetToSeqs({FinalResponse(r, stream[s][r].given) :
                                     r \in {q \in Request : Runs(s, q)} \ paused[s]}) :
             answers' = [answers EXCEPT ![s] = RemoveAt(@, k) \o finals]
    /\ UNCHANGED <<holds, requesterVars, attached, forwarded, paused>>

\* HIGH_BACK_PRESSURE
Pause(s) ==
    /\ Event
    /\ \E r \in Request : Runs(s, r)
    /\ paused' = [paused EXCEPT ![s] = {r \in Request : Runs(s, r)} \cup @]
    /\ UNCHANGED <<holds, stream, requesterVars, attached, forwarded, answers>>

\* LOW_BACK_PRESSURE: a stream the bookkeeper has dropped stays paused.
Resume(s) ==
    /\ \E r \in paused[s] : Runs(s, r)
    /\ paused' = [paused EXCEPT ![s] = {r \in @ : ~ Runs(s, r)}]
    /\ UNCHANGED <<holds, stream, requesterVars, attached, forwarded, answers, faultVars>>

\* Node.stop.  ResendHandler.stop cancels no stream (it iterates over the fields
\* of the bookkeeper); the foreign strategy ends its own.
Stop ==
    /\ Event
    /\ ~ stopped
    /\ stopped' = TRUE
    /\ Cut(Done({r \in Request : place[r].at \notin {"none", "asking", "done"}}), linked)
    /\ neighbors' = {}
    /\ UNCHANGED storageVars

Next ==
    \/ \E r \in Request :
          \/ Ask(r) \/ Cancel(r)
          \/ AskTracker(r) \/ AskTrackerFails(r) \/ TrackerTimeout(r)
          \/ Forward(r) \/ ForwardFails(r) \/ Timeout(r)
          \/ \E n \in Node : Reads(n, r) \/ StorageEnds(n, r) \/ InactivityCheck(n, r)
          \/ \E s \in Storage : Requested(s, r)
    \/ \E s \in Storage :
          \/ Connected(s) \/ ConnectFails(s) \/ Receive(s)
          \/ LinkLost(s) \/ RequesterLost(s) \/ AnswerFails(s)
          \/ Pause(s) \/ Resume(s)
    \/ \E list \in NodeLists : StorageNodesResponse(list)
    \/ Stop

Spec == Init /\ [][Next]_vars

\* The interval of a loop fires.  Nothing is assumed of storages, trackers and
\* connections, nor of the other timers or that a message arrives.
FairSpec == /\ Spec
            /\ \A r \in Request : WF_vars(InactivityCheck(Requester, r))

-----------------------------------------------------------------------------
\* The numbers of the messages that storages may have
Numbered == UNION {1 .. h[n][r] : h \in Holdings, n \in Node, r \in Request}

\* The streams the application gets
Streams == INSTANCE ResendStream WITH
    given <- [r \in Request |-> stream[Requester][r].given],
    state <- [r \in Request |->
                 CASE stream[Requester][r].at = "none" -> "none"
                   [] Runs(Requester, r) -> "open"
                   [] OTHER -> "ended"],
    Strategies <- 2,
    Stored <- Numbered

\* What is requested is given once, in order, and ends, whichever of the parties
\* fails, stops or stalls, and however their answers and timers race: the
\* refinement of ResendStream by the loop through the strategies.
ImplementsStream == Streams!Spec

\* If nothing fails and no timer fires, a resend is all that its storage has:
\* requests that share a storage node and a connection, and finish at different
\* times, do not cut each other off (onDoneCb), and no answer overtakes another.
WholeUnlessDisturbed ==
    ~ disturbed =>
        \A r \in Request :
            stream[Requester][r].at = "over" =>
                stream[Requester][r].given = [i \in 1 .. holds[place[r].of][r] |-> i]

\* A connection made for resends stays only as long as one of them uses it,
\* whether they end, fail, time out or are left waiting in a queue.
LinksAreNeeded == \A s \in linked \ neighbors : Using(place, s) # {}
=============================================================================
