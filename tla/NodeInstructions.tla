-------------------------- MODULE NodeInstructions --------------------------
(***************************************************************************)
(* How a node handles the instructions of its tracker:                     *)
(* src/logic/InstructionThrottler.ts, src/logic/InstructionRetryManager.ts *)
(* and the handler they share, handleTrackerInstruction of                 *)
(* src/logic/Node.ts, with the timers and connections of its neighbors.    *)
(*                                                                         *)
(* The handler awaits the connections it asks for, so handlers overlap     *)
(* with one another and with what users, networks and timers do.  An await *)
(* that has its result continues before the next event is processed        *)
(* (microtasks run first): HandlerEnds precedes every other action.        *)
(***************************************************************************)
EXTENDS Integers, FiniteSets, Functions

CONSTANTS
    Peer,               \* identifiers of the other nodes
    Stream,             \* stream keys
    Instruction,        \* instructions that may arrive: records with the fields
                        \* stream, nodeIds, counter and expected
    StatusSendCounterLimit,
    MaxHandlers,        \* bound on the handlers that run at a time
    Happens             \* the kinds of events that happen

ASSUME InstructionAssumption ==
    \A i \in Instruction : i.stream \in Stream /\ i.nodeIds \subseteq Peer
ASSUME MaxHandlersAssumption == MaxHandlers \in Nat

VARIABLES
    streams,     \* set-up streams -> neighbors and counter (StreamManager)
    connection,  \* per peer, the state of the WebRTC connection
    timers,      \* peers with a disconnection timer
    accepted,    \* stream -> the last instruction the throttler accepted; its
                 \* counter is instructionCounter
    queue,       \* stream -> the instruction in the throttler's queue
    handling,    \* streams with ongoingPromises[s].handling
    handlers,    \* the calls of handleTrackerInstruction in progress
    retries,     \* stream -> instruction and counter of its retry timer
    reported     \* stream -> what the tracker was last told about it

vars == <<streams, connection, timers, accepted, queue, handling, handlers,
          retries, reported>>

State == [streams |-> streams, connection |-> connection, timers |-> timers,
          accepted |-> accepted, queue |-> queue, handling |-> handling,
          handlers |-> handlers, retries |-> retries, reported |-> reported]

Becomes(t) == /\ streams' = t.streams
              /\ connection' = t.connection
              /\ timers' = t.timers
              /\ accepted' = t.accepted
              /\ queue' = t.queue
              /\ handling' = t.handling
              /\ handlers' = t.handlers
              /\ retries' = t.retries
              /\ reported' = t.reported

\* Map.set and Map.delete
With(f, s, x) == [y \in DOMAIN f \cup {s} |-> IF y = s THEN x ELSE f[y]]

Without(f, s) == Restrict(f, DOMAIN f \ {s})

-----------------------------------------------------------------------------
(***************************************************************************)
(* Statuses, neighbors                                                     *)
(***************************************************************************)
\* Mutant of NewStream: starts with the counter that signals unsubscribe.
NewStreamUnsubscribed == [neighbors |-> {}, counter |-> -1]

\* setUpStream
NewStream == [neighbors |-> {}, counter |-> 0]

\* getStreamState: the counter -1 signals unsubscribe.
StreamState(t, s) == IF s \in DOMAIN t.streams THEN t.streams[s]
                     ELSE [neighbors |-> {}, counter |-> -1]

\* prepareAndSendStreamStatus, prepareAndSendFullStatus
Report(t, about) ==
    [t EXCEPT !.reported = [s \in Stream |-> IF s \in about THEN StreamState(t, s)
                                             ELSE t.reported[s]]]

\* isNodePresent
Present(ss, m) == \E s \in DOMAIN ss : m \in ss[s].neighbors

\* onNodeDisconnected, after the WebRTC endpoint dropped the connection: what
\* awaited the connection fails.
Disconnected(t, m) ==
    LET u == [t EXCEPT
                !.connection = [t.connection EXCEPT ![m] = "none"],
                !.handlers = [k \in DOMAIN t.handlers |->
                    LET h == t.handlers[k]
                    IN  [h EXCEPT !.pending = h.pending \ {m},
                                  !.failed = h.failed \/ m \in h.pending]],
                !.streams = [s \in DOMAIN t.streams |->
                    [neighbors |-> t.streams[s].neighbors \ {m},
                     counter   |-> t.streams[s].counter]]]
    IN  IF Present(t.streams, m) THEN Report(u, Stream) ELSE u

-----------------------------------------------------------------------------
(***************************************************************************)
(* handleTrackerInstruction                                                *)
(***************************************************************************)
\* Mutant of Connected: connections that are being made are not awaited.
Contacted(t, nodeIds) == {m \in nodeIds : t.connection[m] # "none"}

\* The peer connection is made; its data channel opens after that.
Established == {"connected", "open"}

\* The peers for which connectToNode has nothing to wait for: it returns at once
\* when the last state of the peer connection is "connected", also before the
\* data channel is open.  (The states "failed" and "closed" of that early return
\* belong to connections that are gone: they are closed as they get there.)
Connected(t, nodeIds) == {m \in nodeIds : t.connection[m] \in Established}

\* Mutant of Lonely: the other streams are not looked at.
LonelyHere(ss, dropped) == dropped

\* unsubscribeFromStreamOnNode: the dropped neighbors that get a disconnection
\* timer, ss being the streams without them.
Lonely(ss, dropped) == {m \in dropped : ~ Present(ss, m)}

\* Up to the await of the connections.  Peers that are connected become
\* neighbors at once.
Begin(t, i, caller, reattempt) ==
    LET s == i.stream
        old == IF s \in DOMAIN t.streams THEN t.streams[s] ELSE NewStream
        open == Connected(t, i.nodeIds)
        new == [neighbors |-> (old.neighbors \cap i.nodeIds) \cup open,
                counter   |-> old.counter]
        streams1 == With(t.streams, s, new)
        slot == CHOOSE k \in 1 .. MaxHandlers : k \notin DOMAIN t.handlers
        handler == [instruction |-> i,
                    caller      |-> caller,
                    cancelled   |-> FALSE,
                    reattempt   |-> reattempt,
                    pending     |-> IF i.expected THEN i.nodeIds \ open ELSE {},
                    failed      |-> FALSE]
        u == [t EXCEPT
                !.retries = With(t.retries, s, [instruction |-> i, counter |-> 0]),
                !.handlers = With(t.handlers, slot, handler)]
    IN  IF i.expected
        THEN [u EXCEPT
                !.streams = streams1,
                !.timers = (t.timers \ open) \cup Lonely(streams1, old.neighbors \ i.nodeIds),
                !.connection = [m \in Peer |->
                    IF m \in i.nodeIds /\ t.connection[m] = "none"
                    THEN "connecting" ELSE t.connection[m]]]
        ELSE u

\* Mutants of Complete: the counter is not updated, or after the status is sent.
CompleteWithoutCounter(t, h) ==
    IF h.instruction.expected /\ (~ h.reattempt \/ h.failed)
    THEN Report(t, {h.instruction.stream})
    ELSE t

CompleteReportingFirst(t, h) ==
    LET s == h.instruction.stream
        u == IF ~ h.reattempt \/ h.failed THEN Report(t, {s}) ELSE t
    IN  IF h.instruction.expected /\ s \in DOMAIN t.streams
        THEN [u EXCEPT !.streams[s].counter = h.instruction.counter]
        ELSE t

\* After the await: the counter and the status.  A status is sent unless this
\* is a reattempt without failures.
Complete(t, h) ==
    LET s == h.instruction.stream
        u == IF s \in DOMAIN t.streams
             THEN [t EXCEPT !.streams = With(t.streams, s,
                     [neighbors |-> t.streams[s].neighbors,
                      counter   |-> h.instruction.counter])]
             ELSE t
    IN  IF ~ h.instruction.expected THEN t
        ELSE IF ~ h.reattempt \/ h.failed THEN Report(u, {s})
        ELSE u

\* Mutants of InvokeHandleFnWithLock: what is handled stays in the queue; the
\* stream is left marked as being handled.
InvokeKeepingQueue(t, s) ==
    IF s \in DOMAIN t.queue
    THEN Begin([t EXCEPT !.handling = t.handling \cup {s}],
               t.queue[s], "throttler", FALSE)
    ELSE [t EXCEPT !.handling = t.handling \ {s}]

InvokeKeepingLock(t, s) ==
    IF s \in DOMAIN t.queue
    THEN Begin([t EXCEPT !.queue = Without(t.queue, s),
                         !.handling = t.handling \cup {s}],
               t.queue[s], "throttler", FALSE)
    ELSE t

\* invokeHandleFnWithLock
InvokeHandleFnWithLock(t, s) ==
    IF s \in DOMAIN t.queue
    THEN Begin([t EXCEPT !.queue = Without(t.queue, s),
                         !.handling = t.handling \cup {s}],
               t.queue[s], "throttler", FALSE)
    ELSE [t EXCEPT !.handling = t.handling \ {s}]

\* The end of retryFunction: the timer is armed again, for the instruction that
\* was just retried.
Rearm(t, i) ==
    LET s == i.stream
        c == t.retries[s].counter
        next == IF c >= StatusSendCounterLimit THEN 0 ELSE c + 1
    IN  IF s \in DOMAIN t.retries
        THEN [t EXCEPT !.retries =
                With(t.retries, s, [instruction |-> i, counter |-> next])]
        ELSE t

-----------------------------------------------------------------------------
(***************************************************************************)
(* The steps of the node                                                   *)
(***************************************************************************)
Init == /\ streams = [s \in {} |-> NewStream]
        /\ connection = [m \in Peer |-> "none"]
        /\ timers = {}
        /\ accepted = [s \in {} |-> {}]
        /\ queue = [s \in {} |-> {}]
        /\ handling = {}
        /\ handlers = [k \in {} |-> {}]
        /\ retries = [s \in {} |-> {}]
        /\ reported = [s \in Stream |-> [neighbors |-> {}, counter |-> -1]]

\* A call of the handler goes on as soon as nothing is left to await, and then
\* its caller does, unless the throttler was told to cancel.
HandlerEnds(k) ==
    /\ k \in DOMAIN handlers
    /\ handlers[k].pending = {}
    /\ LET h == handlers[k]
           s == h.instruction.stream
           t == Complete([State EXCEPT !.handlers = Without(handlers, k)], h)
       IN  Becomes(CASE h.caller = "throttler" /\ ~ h.cancelled ->
                            InvokeHandleFnWithLock(t, s)
                     [] h.caller = "throttler" /\ h.cancelled -> t
                     [] OTHER -> Rearm(t, h.instruction))

HandlersOf(s, caller) ==
    {k \in DOMAIN handlers : /\ handlers[k].instruction.stream = s
                             /\ handlers[k].caller = caller}

Quiet(kind) == /\ kind \in Happens
               /\ \A k \in DOMAIN handlers : handlers[k].pending # {}

SlotFree == Cardinality(DOMAIN handlers) < MaxHandlers

\* Mutant of InstructionReceived: does not look at what is being handled.
InstructionReceivedWithoutLock(i) ==
    LET s == i.stream
    IN  /\ Quiet("instruction")
        /\ SlotFree
        /\ s \in DOMAIN accepted => accepted[s].counter <= i.counter
        /\ Becomes(InvokeHandleFnWithLock(
             [State EXCEPT !.accepted = With(accepted, s, i),
                           !.queue = With(queue, s, i)], s))

\* onTrackerInstructionReceived, InstructionThrottler.add
InstructionReceived(i) ==
    LET s == i.stream
        t == [State EXCEPT !.accepted = With(accepted, s, i),
                           !.queue = With(queue, s, i)]
    IN  /\ Quiet("instruction")
        /\ SlotFree
        /\ s \in DOMAIN accepted => accepted[s].counter <= i.counter
        /\ Becomes(IF s \in handling THEN t ELSE InvokeHandleFnWithLock(t, s))

\* subscribeToStreamIfHaveNotYet, called by the user
Subscribe(s) ==
    /\ Quiet("subscribe")
    /\ s \notin DOMAIN streams
    /\ Becomes(Report([State EXCEPT !.streams = With(streams, s, NewStream)], {s}))

\* InstructionThrottler.removeStreamId.  The throttler cancels what it awaits;
\* the handler itself goes on.
ThrottlerRemoves(t, s) ==
    [t EXCEPT
        !.queue = Without(t.queue, s),
        !.accepted = Without(t.accepted, s),
        !.handling = t.handling \ {s},
        !.handlers = [k \in DOMAIN t.handlers |->
            [t.handlers[k] EXCEPT !.cancelled =
                @ \/ k \in HandlersOf(s, "throttler")]]]

\* InstructionRetryManager.removeStreamId
RetryManagerRemoves(t, s) == [t EXCEPT !.retries = Without(t.retries, s)]

\* unsubscribeFromStream, called by the user
Unsubscribe(s) ==
    /\ Quiet("unsubscribe")
    /\ s \in DOMAIN streams
    /\ LET t == [State EXCEPT !.streams = Without(streams, s)]
       IN  Becomes(Report(RetryManagerRemoves(ThrottlerRemoves(t, s), s), {s}))

\* A retry timer runs out: retryFunction up to its await.  The retry interval
\* (60 s) is longer than the node waits for connections (15 s) and every call
\* of the handler arms the timer anew, so no call for the stream is running.
RetryFires(s) ==
    /\ Quiet("retry")
    /\ SlotFree
    /\ s \in DOMAIN retries
    /\ \A k \in DOMAIN handlers : handlers[k].instruction.stream # s
    /\ Becomes(Begin(State, retries[s].instruction, "retry", retries[s].counter # 0))

\* A peer connection is made.  Who awaits it goes on waiting for its data channel.
PeerConnectionConnects(m) ==
    /\ Quiet("open")
    /\ connection[m] = "connecting"
    /\ connection' = [connection EXCEPT ![m] = "connected"]
    /\ UNCHANGED <<streams, timers, accepted, queue, handling, handlers, retries,
                   reported>>

\* The data channel opens: those who await it make the peer a neighbor, if they
\* still find the stream set up.
ConnectionOpens(m) ==
    LET waiting == {k \in DOMAIN handlers : m \in handlers[k].pending}
        waitedFor == {handlers[k].instruction.stream : k \in waiting}
    IN  /\ Quiet("open")
        /\ connection[m] = "connected"
        /\ connection' = [connection EXCEPT ![m] = "open"]
        /\ timers' = IF waiting = {} THEN timers ELSE timers \ {m}
        /\ streams' = [s \in DOMAIN streams |->
             IF s \in waitedFor
             THEN [streams[s] EXCEPT !.neighbors = @ \cup {m}]
             ELSE streams[s]]
        /\ handlers' = [k \in DOMAIN handlers |->
             IF k \in waiting
             THEN [handlers[k] EXCEPT
                     !.pending = @ \ {m},
                     !.failed = @ \/ handlers[k].instruction.stream \notin DOMAIN streams]
             ELSE handlers[k]]
        /\ UNCHANGED <<accepted, queue, handling, retries, reported>>

\* A connection is lost or could not be made.
ConnectionCloses(m) ==
    /\ Quiet("close")
    /\ connection[m] # "none"
    /\ Becomes(Disconnected(State, m))

\* The other side asks for a connection.
PeerConnects(m) ==
    /\ Quiet("peer")
    /\ connection[m] = "none"
    /\ connection' = [connection EXCEPT ![m] = "connecting"]
    /\ UNCHANGED <<streams, timers, accepted, queue, handling, handlers, retries,
                   reported>>

\* promiseTimeout: a handler no longer awaits a connection, which may yet open.
ConnectTimesOut(k, m) ==
    /\ Quiet("timeout")
    /\ k \in DOMAIN handlers
    /\ m \in handlers[k].pending
    /\ handlers' = [handlers EXCEPT ![k].pending = @ \ {m}, ![k].failed = TRUE]
    /\ UNCHANGED <<streams, connection, timers, accepted, queue, handling, retries,
                   reported>>

\* A disconnection timer runs out.
DisconnectionTimerFires(m) ==
    /\ Quiet("disconnection timer")
    /\ m \in timers
    /\ LET t == [State EXCEPT !.timers = timers \ {m}]
       IN  Becomes(IF Present(streams, m) \/ connection[m] = "none" THEN t
                   ELSE Disconnected(t, m))

Next == \/ \E k \in 1 .. MaxHandlers :
              HandlerEnds(k) \/ \E m \in Peer : ConnectTimesOut(k, m)
        \/ \E i \in Instruction : InstructionReceived(i)
        \/ \E s \in Stream : Subscribe(s) \/ Unsubscribe(s) \/ RetryFires(s)
        \/ \E m \in Peer : \/ PeerConnectionConnects(m)
                           \/ ConnectionOpens(m)
                           \/ ConnectionCloses(m)
                           \/ PeerConnects(m)
                           \/ DisconnectionTimerFires(m)

Spec == Init /\ [][Next]_vars

\* A handler goes on when it can, and waits for a connection only so long.
FairSpec == /\ Spec
            /\ \A k \in 1 .. MaxHandlers :
                  /\ WF_vars(HandlerEnds(k))
                  /\ \A m \in Peer : WF_vars(ConnectTimesOut(k, m))

-----------------------------------------------------------------------------
Idle(s) == /\ s \notin handling
           /\ \A k \in DOMAIN handlers : handlers[k].instruction.stream # s

NodeTypeOK ==
    /\ DOMAIN streams \subseteq Stream
    /\ \A s \in DOMAIN streams : streams[s] \in [neighbors : SUBSET Peer, counter : Nat]
    /\ connection \in [Peer -> {"none", "connecting"} \cup Established]
    /\ timers \subseteq Peer
    /\ \A f \in {accepted, queue} :
          DOMAIN f \subseteq Stream /\ \A s \in DOMAIN f : f[s] \in Instruction
    /\ handling \subseteq Stream
    /\ DOMAIN handlers \subseteq 1 .. MaxHandlers
    /\ \A k \in DOMAIN handlers :
          handlers[k] \in [instruction : Instruction, caller : {"throttler", "retry"},
                           cancelled : BOOLEAN, reattempt : BOOLEAN,
                           pending : SUBSET Peer, failed : BOOLEAN]
    /\ DOMAIN retries \subseteq Stream
    /\ \A s \in DOMAIN retries :
          retries[s] \in [instruction : Instruction, counter : 0 .. StatusSendCounterLimit]

\* A neighbor in any stream is a peer with an established connection, although
\* connections come and go while handlers that were to add or remove it wait.  Its
\* data channel need not be open yet: what is sent to it waits in the message queue
\* of the connection.
NeighborsAreConnected ==
    \A s \in DOMAIN streams :
        \A m \in streams[s].neighbors : connection[m] \in Established

\* The node never counts down to disconnecting a peer it shares a stream with,
\* whichever of its streams that is.
NoTimerForNeighbors == \A m \in timers : ~ Present(streams, m)

\* No lost wakeup: an instruction waits in the queue only while a handler runs
\* whose end will fetch it, also when the stream was left and joined again.
QueuedIsFetched ==
    \A s \in DOMAIN queue :
        \E k \in HandlersOf(s, "throttler") : ~ handlers[k].cancelled

\* When nothing is being handled, the node has no neighbors but those of the
\* last instruction it accepted, and reports that instruction's counter.
NeighborsFollowLastAccepted ==
    \A s \in DOMAIN streams \cap DOMAIN accepted :
        Idle(s) /\ accepted[s].expected =>
            /\ streams[s].neighbors \subseteq accepted[s].nodeIds
            /\ streams[s].counter = accepted[s].counter

\* When nothing is being handled, the tracker was told of the neighbors.
ReportedIsCurrent ==
    \A s \in Stream : Idle(s) => reported[s] = StreamState(State, s)

\* A queued instruction does not wait for ever: its stream's queue empties,
\* because the handler in its way gives up on connections that do not open.
QueuedIsHandled == \A s \in Stream : s \in DOMAIN queue ~> s \notin DOMAIN queue

\* "No more than one instruction is handled at a time" (comment of
\* InstructionThrottler, lines 15-20).
OneAtATime == \A s \in Stream : Cardinality(HandlersOf(s, "throttler")) <= 1
=============================================================================
