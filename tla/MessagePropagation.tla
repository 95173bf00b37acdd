-------------------------- MODULE MessagePropagation --------------------------
(***************************************************************************)
(* src/logic/Node.ts: how the messages of a stream spread from node to     *)
(* node, with the buffer (src/helpers/MessageBuffer.ts) and the set        *)
(* (src/helpers/SeenButNotPropagatedSet.ts) for messages a node had nobody *)
(* to send to.                                                             *)
(*                                                                         *)
(* One publisher numbers its messages 1, 2, ... and refers in each to the  *)
(* one before.  For such a chain the detector of a node accepts what comes *)
(* after the first number it saw and has not been accepted (AcceptedOnce   *)
(* and NothingLost in module DuplicateMessageDetector), so the set of      *)
(* accepted numbers is all that is kept of it.  Messages to a neighbor     *)
(* arrive in order (module OrderedDelivery) or fail.                       *)
(***************************************************************************)
EXTENDS Integers, FiniteSetsExt, Sequences

CONSTANTS Node,
          Publisher,     \* the node whose application publishes
          Local,         \* source null: the application of the node itself
          MaxSize,       \* bufferMaxSize
          FailureLimit,  \* 100, in propagateMessage
          MaxMessages,   \* bound: how many messages are published
          MaxEvents,     \* bound: how often the network changes
          Happens        \* the kinds of changes

\* put to a full buffer of size one would throw: pop deletes the empty array
\* that put then pushes to.
ASSUME MaxSizeAssumption == MaxSize \in Nat /\ MaxSize > 1
ASSUME FailureLimitAssumption == FailureLimit \in Nat \ {0}
ASSUME MaxMessagesAssumption == MaxMessages \in Nat
ASSUME PublisherAssumption == Publisher \in Node /\ Local \notin Node

Message == 1 .. MaxMessages

VARIABLES
    subscribed,      \* per node, the stream is set up
    outbound,        \* per node, outboundNodes of the stream
    seen,            \* per node, the numbers its detector has accepted
    notPropagated,   \* per node, seenButNotPropagatedSet
    buffer,          \* per node, messageBuffer: pairs of message and source
    failures,        \* per node and neighbor, consecutiveDeliveryFailures
    flight,          \* per node and neighbor, the messages sent and not settled
    published,       \* how many messages were published
    events,          \* how often the network changed
    sent,            \* history: per node, how often it propagated each message
    dropped          \* history: per node, messages whose wait was given up

nodeVars == <<seen, notPropagated, buffer, flight, sent, dropped>>
vars == <<subscribed, outbound, nodeVars, failures, published, events>>

-----------------------------------------------------------------------------
(***************************************************************************)
(* What a node does with a message.  h is the part of its state that is    *)
(* involved: seen, notPropagated, buffer and flight, and the histories.    *)
(***************************************************************************)
\* markNumbersAndCheckThatIsNotDuplicate
IsUnseen(accepted, m) ==
    accepted = {} \/ (m > Min(accepted) /\ m \notin accepted)

\* Mutant of Put: a full buffer takes nothing.
PutIfRoom(b, entry) == IF Len(b) >= MaxSize THEN b ELSE Append(b, entry)

\* MessageBuffer.put: a full buffer gives up its oldest message.
Put(b, entry) ==
    Append(IF Len(b) >= MaxSize THEN Tail(b) ELSE b, entry)

\* The messages in flight to each neighbor after m was sent to the subscribers
SentTo(inFlight, m, subscribers) ==
    [k \in Node |-> IF k \in subscribers THEN Append(inFlight[k], m) ELSE inFlight[k]]

\* Mutant of Propagated: the message stays in the set.
PropagatedKeeping(h, m, subscribers) ==
    [h EXCEPT !.flight = SentTo(@, m, subscribers),
              !.sent[m] = IF @ = 0 THEN 1 ELSE 2]

\* How often a message was sent is counted as never, once and (2) more often.
Propagated(h, m, subscribers) ==
    [h EXCEPT !.flight = SentTo(@, m, subscribers),
              !.sent[m] = IF @ = 0 THEN 1 ELSE 2,
              !.notPropagated = @ \ {m}]

PutBack(h, m, source) ==
    [h EXCEPT !.notPropagated = @ \cup {m},
              !.buffer = Put(@, <<m, source>>),
              !.dropped = IF Len(h.buffer) >= MaxSize THEN @ \cup {h.buffer[1][1]}
                          ELSE @]

\* Mutant of Subscribers: the first one will pass it on.
FirstSubscriber(source, neighbors) ==
    IF neighbors \ {source} = {} THEN {} ELSE {CHOOSE k \in neighbors \ {source} : TRUE}

Subscribers(source, neighbors) == neighbors \ {source}

\* propagateMessage
PropagateMessage(h, m, source, neighbors) ==
    LET subscribers == Subscribers(source, neighbors)
    IN  IF subscribers = {} THEN PutBack(h, m, source)
        ELSE Propagated(h, m, subscribers)

\* Mutant of DataReceived: duplicates are propagated.
DataReceivedAgain(h, m, source, neighbors) ==
    PropagateMessage([h EXCEPT !.seen = @ \cup {m}], m, source, neighbors)

\* onDataReceived, on a stream that is set up
DataReceived(h, m, source, neighbors) ==
    IF IsUnseen(h.seen, m)
    THEN PropagateMessage([h EXCEPT !.seen = @ \cup {m}], m, source, neighbors)
    ELSE IF m \in h.notPropagated THEN PropagateMessage(h, m, source, neighbors)
    ELSE h

\* Mutant of BufferHandled: the messages stay in the buffer.
BufferIgnored(h, neighbors) == h

\* handleBufferedMessages
BufferHandled(h, neighbors) ==
    LET handled[i \in 0 .. Len(h.buffer)] ==
            IF i = 0 THEN [h EXCEPT !.buffer = <<>>]
            ELSE DataReceived(handled[i - 1], h.buffer[i][1], h.buffer[i][2], neighbors)
    IN  handled[Len(h.buffer)]

StateOf(n) == [seen |-> seen[n], notPropagated |-> notPropagated[n],
               buffer |-> buffer[n], flight |-> flight[n], sent |-> sent[n],
               dropped |-> dropped[n]]

\* The state of node n becomes h, while otherwise inFlight is in flight.
Becomes(n, h, inFlight) ==
    /\ seen' = [seen EXCEPT ![n] = h.seen]
    /\ notPropagated' = [notPropagated EXCEPT ![n] = h.notPropagated]
    /\ buffer' = [buffer EXCEPT ![n] = h.buffer]
    /\ dropped' = [dropped EXCEPT ![n] = h.dropped]
    /\ flight' = [inFlight EXCEPT ![n] = h.flight]
    /\ sent' = [sent EXCEPT ![n] = h.sent]

-----------------------------------------------------------------------------
Event(kind) == /\ kind \in Happens
               /\ events < MaxEvents
               /\ events' = events + 1

\* The nodes are subscribed and know some of each other.
Init ==
    /\ subscribed = [n \in Node |-> TRUE]
    /\ outbound \in {g \in [Node -> SUBSET Node] :
                        \A n, k \in Node : /\ n \notin g[n]
                                           /\ n \in g[k] <=> k \in g[n]}
    /\ seen = [n \in Node |-> {}]
    /\ notPropagated = [n \in Node |-> {}]
    /\ buffer = [n \in Node |-> <<>>]
    /\ failures = [n \in Node |-> [k \in Node |-> 0]]
    /\ flight = [n \in Node |-> [k \in Node |-> <<>>]]
    /\ published = 0
    /\ events = 0
    /\ sent = [n \in Node |-> [m \in Message |-> 0]]
    /\ dropped = [n \in Node |-> {}]

\* What onDataReceived does first: subscribeToStreamIfHaveNotYet.
SetUp(n) == subscribed' = [subscribed EXCEPT ![n] = TRUE]

\* The application publishes the next message.
Publish ==
    /\ published < MaxMessages
    /\ published' = published + 1
    /\ SetUp(Publisher)
    /\ LET h == DataReceived(StateOf(Publisher), published', Local, outbound[Publisher])
       IN  Becomes(Publisher, h, flight)
    /\ UNCHANGED <<outbound, failures, events>>

\* A message from n arrives at k: sendData has succeeded at n, and k receives
\* the data.
Deliver(n, k) ==
    /\ flight[n][k] # <<>>
    /\ failures' = [failures EXCEPT ![n][k] = 0]
    /\ SetUp(k)
    /\ LET h == DataReceived(StateOf(k), Head(flight[n][k]), n, outbound[k])
       IN  Becomes(k, h, [flight EXCEPT ![n][k] = Tail(@)])
    /\ UNCHANGED <<outbound, published, events>>

IsLimit(count) == count >= FailureLimit

\* sendData fails at n; at the limit the neighbor is removed
\* (onNodeDisconnected).
SendFails(n, k) ==
    /\ Event("failure")
    /\ flight[n][k] # <<>>
    /\ flight' = [flight EXCEPT ![n][k] = Tail(@)]
    /\ LET count == failures[n][k] + 1
       IN  IF IsLimit(count)
           THEN /\ outbound' = [outbound EXCEPT ![n] = @ \ {k}]
                /\ failures' = [failures EXCEPT ![n][k] = 0]
           ELSE /\ failures' = [failures EXCEPT ![n][k] = count]
                /\ UNCHANGED outbound
    /\ UNCHANGED <<subscribed, seen, notPropagated, buffer, sent, published, dropped>>

\* subscribeToStreamOnNode; k may be a neighbor already, as when an instruction
\* is repeated, and then only the buffer matters.
SubscribeToStreamOnNode(n, k) ==
    /\ Event("neighbor")
    /\ subscribed[n]
    /\ k # n
    /\ k \notin outbound[n] \/ buffer[n] # <<>>
    /\ outbound' = [outbound EXCEPT ![n] = @ \cup {k}]
    /\ LET h == BufferHandled(StateOf(n), outbound'[n])
       IN  Becomes(n, h, flight)
    /\ UNCHANGED <<subscribed, failures, published>>

\* unsubscribeFromStreamOnNode, onNodeDisconnected
RemoveNeighbor(n, k) ==
    /\ Event("neighbor lost")
    /\ k \in outbound[n]
    /\ outbound' = [outbound EXCEPT ![n] = @ \ {k}]
    /\ UNCHANGED <<subscribed, nodeVars, failures, published>>

\* unsubscribeFromStream: the neighbors and the detectors go, the buffer and
\* the set of messages that were not propagated stay.
Unsubscribe(n) ==
    /\ Event("unsubscribe")
    /\ subscribed[n]
    /\ subscribed' = [subscribed EXCEPT ![n] = FALSE]
    /\ outbound' = [outbound EXCEPT ![n] = {}]
    /\ seen' = [seen EXCEPT ![n] = {}]
    /\ sent' = [sent EXCEPT ![n] = [m \in Message |-> 0]]
    /\ UNCHANGED <<notPropagated, buffer, flight, failures, published, dropped>>

\* The timeout of the oldest message in the buffer: the message goes, and with
\* it, or later, its entry in the set expires.
BufferTimesOut(n) ==
    /\ Event("timeout")
    /\ buffer[n] # <<>>
    /\ LET m == Head(buffer[n])[1]
       IN  /\ buffer' = [buffer EXCEPT ![n] = Tail(@)]
           /\ notPropagated' \in {notPropagated,
                                  [notPropagated EXCEPT ![n] = @ \ {m}]}
           /\ dropped' = [dropped EXCEPT ![n] = @ \cup {m}]
    /\ UNCHANGED <<subscribed, outbound, seen, flight, sent, failures, published>>

Next == \/ Publish
        \/ \E n, k \in Node : \/ Deliver(n, k)
                              \/ SendFails(n, k)
                              \/ SubscribeToStreamOnNode(n, k)
                              \/ RemoveNeighbor(n, k)
        \/ \E n \in Node : Unsubscribe(n) \/ BufferTimesOut(n)

Spec == Init /\ [][Next]_vars

\* Connections deliver what was sent (module Connection: MessagesSettle).
FairSpec == Spec /\ WF_vars(\E n, k \in Node : Deliver(n, k))

-----------------------------------------------------------------------------
Buffered(n) == {buffer[n][i][1] : i \in DOMAIN buffer[n]}

NothingInFlight == \A n, k \in Node : flight[n][k] = <<>>

TypeOK ==
    /\ published \in 0 .. MaxMessages
    /\ events \in Nat
    /\ subscribed \in [Node -> BOOLEAN]
    /\ outbound \in [Node -> SUBSET Node]
    /\ seen \in [Node -> SUBSET (1 .. published)]
    /\ notPropagated \in [Node -> SUBSET (1 .. published)]
    /\ buffer \in [Node -> Seq((1 .. published) \X (Node \cup {Local}))]
    /\ \A n \in Node : Len(buffer[n]) <= MaxSize
    /\ failures \in [Node -> [Node -> 0 .. FailureLimit - 1]]
    /\ flight \in [Node -> [Node -> Seq(1 .. published)]]
    /\ sent \in [Node -> [Message -> 0 .. 2]]
    /\ dropped \in [Node -> SUBSET (1 .. published)]

\* While a node stays subscribed it propagates a message at most once, whatever
\* copies of it arrive and however often its buffer is handled: the number of
\* messages in the network is bounded by its links.
PropagatesOnce == \A n \in Node, m \in Message : sent[n][m] <= 1

\* A message that was not propagated waits in the buffer, so that the next
\* neighbor gets it, unless its timeout came or a full buffer gave it up as the
\* oldest.
UnpropagatedWait ==
    \A n \in Node : notPropagated[n] \subseteq Buffered(n) \cup dropped[n]

\* A message waits in the buffer only while the node has no neighbor but the
\* one it came from: the buffer is handled whenever a neighbor is added.
WaitOnlyForNeighbors ==
    \A n \in Node : \A i \in DOMAIN buffer[n] :
        buffer[n][i][1] \in notPropagated[n] => outbound[n] \subseteq {buffer[n][i][2]}

\* As long as the network does not change, all that was published has reached
\* every node there is a path to when nothing is in flight: neighbors have seen
\* the same messages, although a detector refuses what is below the first
\* number it saw and messages come over several paths.
NeighborsSeeTheSame ==
    NothingInFlight /\ events = 0 =>
        \A n \in Node : \A k \in outbound[n] : seen[n] = seen[k]

\* Messages do not go round in circles: some day nothing is in flight any more,
\* also when nodes leave the stream and forget what they have seen.
PropagationEnds == <>[]NothingInFlight
=============================================================================
