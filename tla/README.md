# TLA+ models and proofs of the Streamr network layer

This directory holds TLA+ specifications of the TypeScript code in `src/src`
(the tracker, the nodes, and the connections between them), TLC configurations
that check them on small instances, and proofs, checked by TLAPS, of the
properties that matter most. Paths below are relative to the repository;
`Tracker.ts:191` is a line of `src/src/logic/Tracker.ts`.

## 1. The system

A *stream* is spread from node to node over an *overlay*: a graph in which every
node has about `maxNeighborsPerNode` (4) neighbors. A *tracker* holds its picture
of the overlay of each stream, fed by the statuses that nodes report, and sends
*instructions*: "these are your neighbors on this stream". Nodes follow them by
making WebRTC connections, which the tracker relays the signalling of, and pass
on every message of the stream they have not seen before.

```
 application                      application
     | publish/subscribe               |
   Node  ---- status -->  Tracker <-- status ---- Node
     |  <- instruction --  (overlay) -- instruction -> |
     |        (WebSocket: WsEndpoint)                  |
     +------- data (WebRTC: WebRtcEndpoint) -----------+
```

All of it is JavaScript: a callback runs to completion, and what overlaps is
what lies on the two sides of an `await`, a promise, a timer or an event. The
exceptions are the threads of the native WebRTC library.

### Components, their state and what makes them correct

| component | code | state | operations | what makes it correct | module |
|---|---|---|---|---|---|
| Overlay of a stream | `OverlayTopology.ts` | graph of nodes | `update`, `leave`, `formInstructions` | links are two-sided and inside the stream; rewiring makes progress, within the maximum, and instructs whoever gains | `OverlayGraph`, `OverlayTopology` |
| Tracker | `Tracker.ts`, `InstructionCounter.ts` | connected nodes, overlays, counters | connection events, `processNodeStatus` | knows only connected nodes; old reports are not believed; the last instruction is the current one | `Tracker` |
| Tracker and nodes | `Tracker.ts`, `Node.ts`, `StreamManager.ts` | the above, streams and neighbors of nodes, messages in flight | join, leave, connect, lose | when all has arrived, both sides agree | `TrackerAndNodes` |
| Instructions at a node | `Node.ts`, `InstructionThrottler.ts`, `InstructionRetryManager.ts`, `StreamManager.ts` | neighbors, counter, queue, handlers awaiting connections, timers | instruction, retry, subscribe, unsubscribe, connection events | one handler at a time, last instruction wins, the tracker is told, no instruction is forgotten | `NodeInstructions` |
| Duplicate detector | `DuplicateMessageDetector.ts` | gaps | `markAndCheck` | nothing twice, nothing lost | `DuplicateMessageDetector` |
| Message propagation | `Node.ts`, `MessageBuffer.ts`, `SeenButNotPropagatedSet.ts` | seen, buffered and unpropagated messages | `onDataReceived`, new neighbor, timeouts | once per node, kept for the next neighbor, everybody gets it, the traffic ends | `MessagePropagation` |
| Connection and queue | `Connection.ts`, `MessageQueue.ts` | queue, timers, back pressure, pings | `send`, flush, ping, close, native callbacks | outcomes once and in order, no lost wakeup, dead peers are dropped | `OrderedDelivery`, `MessageQueue`, `Connection` |
| WebRTC endpoint and signalling | `WebRtcEndpoint.ts`, `RtcSignaller.ts`, `rtcSignallingHandlers.ts` | connections per peer, messages at the tracker | `connect`, offer, answer, candidate, connect, error, timeouts | both ends settle on one connection, which old signalling does not close | `WebRtcSignalling` |
| WebSocket endpoint | `WsEndpoint.ts`, `PeerBook.ts` | sockets by address, pending connections, pings | connect, duplicate sockets, ping, close, stop | client and server agree on the socket; ties are broken; dead sockets go | `WsConnections` |
| Resends | `ResendHandler.ts`, `resendStrategies.ts`, `proxyRequestStream.ts` | loops over strategies, proxied resends, connections to storage nodes | request, responses, timeouts, pause, cancel, stop | every stream ends, once, in order and whole unless something fails; connections are closed by their last resend | `ResendStream`, `Resends` |
| Rest | identities, versions, metrics, logging, locations, HTTP, `composition.ts` | | | no state machine of their own | not modelled |

### Interaction

* `Tracker` calls `OverlayTopology` and `InstructionCounter`; `TrackerServer`
  calls it for connections and statuses. It sends instructions through
  `TrackerServer.sendInstruction` and does not wait for them.
* `Node.onTrackerInstructionReceived` puts an instruction into the throttler,
  which calls `handleTrackerInstruction`, which the retry manager calls too.
  The handler awaits `NodeToNode.connectToNode` for each new neighbor.
* `NodeToNode` reports connections and data from `WebRtcEndpoint`, which has
  one `Connection` per peer and one `MessageQueue` per peer that outlives it.
* `Node.onDataReceived` asks `StreamManager` (one detector per chain) and sends
  to all other neighbors; with no neighbor, it uses the buffer.

### What is hard here

* *Interleaving*: reports cross the instructions made from earlier ones; a
  handler waits for connections while its stream is left, joined again or
  instructed anew (`Node.ts:295`); the native side drains and closes a channel
  while it is being written to (`Connection.ts:532`).
* *Stale state*: the tracker's picture is always a little old; old reports are
  told from new ones by counters that both sides forget at different moments.
* *Timers*: connection timeouts race answers; retries race instructions;
  disconnection timers race new subscriptions; a closed connection must leave
  no timer that touches the queue it shares with the next one.
* *Ordering and duplication* of data over several paths of the overlay.
* *Bounds*: full queues, full buffers, too many gaps, too many neighbors.

`PROJECT.json` lists these hazards at their lines, with the properties that
would catch them going wrong.

## 2. The plan

Modules in the order in which they are written; a star marks what exists.

1. `OverlayGraph`*, `OverlayTopology`* (with `MCOverlayTopology`*): everything
   else relies on the overlay.
2. `Tracker`* (extends `OverlayGraph`): overlays per stream,
   counters, sends.
3. `TrackerAndNodes`* (extends `Tracker`; `MCTrackerAndNodes`*): the tracker and
   its nodes, with what is in flight. `TrackerAndNodes_proofs`* has the theorems
   about 1 to 3: those about the handlers rest on those about the overlay.
4. `NodeInstructions`* (`MCNodeInstructions`*, `NodeInstructions_proofs`*): one node, with the awaits that
   `TrackerAndNodes` leaves out.
5. `DuplicateMessageDetector`* (`DuplicateMessageDetector_proofs`*).
6. `OrderedDelivery`* (abstract), `MessageQueue`* (implements it),
   `Connection`* (uses the queue, hence implements it too),
   `Connection_proofs`*.
7. `MessagePropagation`* (`MessagePropagation_proofs`*): composes nodes, on what 5 and 6 establish.
8. `WsConnections`* (`WsConnections_proofs`*): two endpoints and their sockets,
   duplicates.
9. `ResendStream`* (abstract), `Resends`* (implements it; `MCResends`*, `Resends_proofs`*):
   a requester and storage nodes with the loop over strategies at each.
10. `WebRtcSignalling`* (`WebRtcSignalling_proofs`*): two endpoints and the tracker
    that relays.
11. Left: `Node.stop` in `NodeInstructions`; `WsEndpoint.send`; the negotiation
    of versions in the signalling.

Theorems: those of section 6, which state every invariant and action property that
a run checks except the one about a recursive operator.

## 3. How the modules correspond to the code

`PROJECT.json` maps every definition to its lines; here is the idea of each.

**OverlayGraph** has the methods of `OverlayTopology` as operators on a graph, a
function from the nodes of the stream to their sets of neighbors. What the code
shuffles is any order: `Formed(g, n)` is the *set* of graphs `formInstructions`
may leave. It is composed as the code is: trim (`Trimmed`), link to nodes that
have room (`Extended`), break links between full nodes (`Swapped`). The loop over
`disconnectionTargets` is described by its outcome, the matchings of broken links
(`BrokenLinks`); `MCOverlayTopology` has the loop statement by statement and TLC
compares the two in every reachable overlay (`LoopBreaksTheseLinks`).

**OverlayTopology** makes a state machine of it: any node may report any
neighbors, leave, or be given instructions.

**Tracker** has one action per event of `TrackerServer`. A handler of the tracker
never waits for anything that changes its state, so each is one step. The
functions it calls are operators on a record of overlays, counters and sends, and
where the overlay chooses they yield sets of outcomes; a loop of calls (`InTurn`) is
a recursive function on the number of turns, so that it can be reasoned about. `sent` holds what the last
handler sent. It has no runs of its own: what nodes report is up to them, and its
properties are checked in the composition with them.

**TrackerAndNodes** adds the nodes: the streams their users want (`wanted`), what
the node has set up (`streams`), the throttler's counter (`accepted`), and the
statuses and instructions in flight, in order, on one WebSocket connection per
node, which loses them when it goes. Instructions are handled in one step,
connecting to all or all but some of the nodes they name.

**NodeInstructions** is one node with its handlers opened up. A call of
`handleTrackerInstruction` is `Begin`, up to the `await` of the connections, and
`Complete`, after it; between the two it is a record in `handlers` with the
connections it waits for. Promise continuations run before the next event of the
event loop, which is why every event is guarded by `Quiet`: no handler whose
connections are all settled is left to continue. The throttler's lock, queue and
`cancel`, the retry timer with its counter, and disconnection timers are as in
the code; an instruction from a tracker that is not the one of the stream has
`expected` = FALSE. A connection is made in two steps, the peer connection and then
its data channel (`"connecting"`, `"connected"`, `"open"`): `connectToNode` waits for
the channel, but returns at once when it is called after the first step
(`WebRtcEndpoint.ts:173`), so that a neighbor has an *established* connection. The
states `failed` and `closed` of that line are those of connections that close, and
leave the map, as they get there (`Connection.ts:430-433`).

**DuplicateMessageDetector** has `markAndCheck` with its outcomes and exceptions.
Numbers are pairs compared lexicographically and used in no other way, so a pair
is represented by its rank. `gaps` is the array of half-closed intervals.

**OrderedDelivery** is what a sender can rely on: each message gets at most one
outcome, in the order in which messages were sent. **MessageQueue** is the queue
with its tries and its limit. **Connection** is `Connection.ts` together with the
replacement of a closed connection by a new one on the same queue
(`WebRtcEndpoint.ts:186`). Each iteration of `attemptToFlushMessages` is a step,
so that the native side (`ChannelOpens`, `ChannelCloses`, `Drain`, `PeerPongs`,
`PeerDies`; external, modelled from the callbacks `Connection.ts` registers) can
interfere between iterations; callbacks and timers cannot (`Turn`). Buffered
bytes are counted in messages.

**MessagePropagation** composes nodes: what one sends, another receives in order
or not at all, which is what `OrderedDelivery` promises. The detector of a node
is replaced by the set of numbers it accepted; for a publisher that refers from
each message to the one before, `AcceptedOnce` and `NothingLost` justify this.
`onDataReceived` with everything it calls is one operator on the node's state.
What becomes of a whole buffer, whose messages are handled one after the other and
may come back to its end, is a recursive function on its length.

**WsConnections** is two endpoints and the sockets between them. A socket has two
ends, each with a state and what is on the way to it, in order; `connections` is
the map by address, which can only hold the one other address, and a close
handler is `OnClose` by address, whichever socket is there. Each endpoint is a
client (the `ws` library) and a server (uWebSockets), and the two differ where it
matters: `close()` of uWebSockets calls the close handler at once, a client waits
for the answer; a closed server socket throws on ping; server sockets have no
`readyState` (`CloseWs`, `PingFails`, `Connect`). A client takes a pong as that of
its own socket, a server as that of whatever connection is under the address, so
that a socket it no longer uses can answer for the next one: `late` has the sockets
for which that may still happen, once each.

**ResendStream** is what the application can rely on: a stream gives stored
messages in order, a later strategy may start over, it ends, and nothing comes
after that. **Resends** is the code: at every node a request gets to, `stream` is
where `loopThruResendStrategies` stands; at the requester, `place` is where the
foreign strategy stands (asking the tracker, pending, dialing, sending, current,
done), which outlives the stream when the loop gives up on it. `linked` and
`attached` are the two ends of a connection, which notice its loss separately;
what a storage node sends waits in `answers` and survives a lost connection if it
was still in the queue, as `Connection` has it. When a send fails, the storage
node ends all its resends to that requester, in any order (`AnswerFails`), each with
the response its `FinalResponse` is. The refinement is
`ImplementsStream`, with the liveness of the abstract specification.

**WebRtcSignalling** is two peers and the tracker. A connection is known by its
generation, a number nothing else refers to (`Fresh`), so that a description or
candidate of an earlier attempt is told from one of this attempt, which the code
cannot do and the native library can (`Matched`). `up` and `down` are the
messages to and from the tracker; the tracker knows the peers it has ever seen
(`known`, the peer book) and those that are there (`online`). A retry of the
instruction to connect is `Connect`, at any time when no more than `MaxQueue`
messages of the peer are under way: retries are a minute apart
(`instructionRetryInterval`) and without the bound errors of an unknown peer and
new attempts would fill the queues for ever.

## 4. What is checked

Each run is `tlc -config <run>.cfg <module>`.

| run | module | shows | size |
|---|---|---|---|
| `OverlayTopology` | `MCOverlayTopology` | overlays stay well formed; `formInstructions` adds links or changes nothing, respects the maximum, tells whoever gained; the loop is what we say | 645 states |
| `NodesJoin` | `MCTrackerAndNodes` | nodes that come in any order end up agreeing with the tracker on every link; old reports are not believed, neither in what they add nor in what they leave out | 65 thousand |
| `NodesChurn` | `MCTrackerAndNodes` | with six kinds of events, only connected nodes are in overlays, all end up agreeing on who is in which stream, and the last instruction is current | 1.0 million |
| `InstructionsThrottled` | `MCNodeInstructions` | one handler at a time; the last instruction wins and is reported; a queued one is handled eventually | 16 thousand |
| `InstructionsAllEvents` | `MCNodeInstructions` | with all events, neighbors have an established connection and are not counted down; nothing queued is forgotten | 1.3 million |
| `Detector` | `DuplicateMessageDetector` | nothing twice, nothing lost, no errors for consistent publishers | 1249 states |
| `Connection` | `Connection` | outcomes once and in order, no lost wakeup, nothing stuck, dead peers dropped | 58 thousand |
| `Propagation` | `MessagePropagation` | once per node, kept for the next neighbor, all neighbors see the same, the traffic ends | 141 thousand |
| `WsConnections` | `WsConnections` | client and server agree on the socket, a tie leaves one connection, dead sockets go | 154 thousand |
| `Resends` | `MCResends` | streams of resends refine `ResendStream` and end; whole when nothing is disturbed; connections go with their last resend | 292 thousand |
| `Signalling` | `WebRtcSignalling` | after failures both peers end with one open connection, which old signalling does not close | 133 thousand |
| `ReconnectDropsInstruction` | `MCTrackerAndNodes` | a violation, section 7 | |

For each property of a passing run, `PROJECT.json` names a mutant: a definition of
the model changed the way a bug would change the code. The mutants stand next to
what they change, and with each of them TLC finds the property violated.

### Bounds and why they are enough

* `OverlayTopology`: six nodes and four neighbors. A newcomer to a clique of
  five finds every node full and needs two of its links broken: the smallest
  case in which the loop over the targets has a second iteration.
* `NodesJoin`: five nodes with two neighbors each, ten events: every node can
  connect and subscribe, and the fourth and fifth find full nodes.
* `NodesChurn`: three nodes, two streams, eight events of any kind.
  A connection lost with a status and an instruction in flight needs four.
* `InstructionsThrottled`: two peers, every instruction for them with two
  counters, two handlers. `InstructionsAllEvents`: one peer, two streams (a peer
  shared by streams is where timers go wrong), three handlers.
* `Detector`: seven numbers and two gaps: a third gap can arise below the other
  two and push the lowest out. All numberings and orders are included.
* `Connection`: four messages, a queue of three (so that it can be full), two
  tries, two sends per turn, two connections to the peer, pausing at two
  messages and resuming at none, one message too large to send.
* `Propagation`: three nodes in any graph, three messages with room for two in a
  buffer, two changes of the network, two failures in a row for the limit.
  A triangle is the smallest graph with two paths and with a cycle. The module
  assumes a buffer larger than one message, because `put` throws otherwise.
* `WsConnections`: three sockets, so that one can be old, one newer and one
  dialed from the other side, and two failures, closes or stops.
* `Resends`: two requests, because what they share (a connection, a tracker's
  answer, a storage node's bookkeeper) is where they could hurt each other; two
  storage nodes, of which one may be a neighbor as well; one failure,
  cancellation, pause or stop. Timers fire at any time and are not counted.
* `Signalling`: one failure (of a connection, an endpoint, the way to the tracker
  or the tracker), in any state; timeouts that come when nothing else can are not
  counted. A new attempt starts with at most one message of the peer under way.

`SYMMETRY` is used in runs with invariants and action properties only, on sets
whose elements the modules treat alike. `VIEW` hides `sent`, which is the output
of the last handler and which no action reads. Deadlock is allowed where events
are bounded, because then the system may stop.

## 5. Fairness

* `NodeInstructions!FairSpec`: `HandlerEnds`, a promise continuation, runs when
  it can; `ConnectTimesOut` is the timer of `promiseTimeout`, which fires unless
  the connection settles first. Nothing is assumed of instructions, users, or
  connections.
* `Connection!FairSpec`: weak fairness of timers, callbacks and iterations of
  the loop, which the event loop provides, and of `Drain` while the peer is alive.
  Nothing is assumed of sends, of the peer, of the channel opening, or of sends
  succeeding: `MessagesSettle` holds because of the tries and the timeouts.
* `MessagePropagation!FairSpec`: something that is in flight is delivered at
  some time; the weakest assumption, a single one for the whole network, is
  enough for `PropagationEnds`. That deliveries come is what `MessagesSettle`
  says of a connection.

* `WsConnections!FairSpec`: the ping interval goes on until the endpoint stops, and
  what was sent on a socket that works arrives. Not assumed: that the loss of a
  socket is heard of (`Reset`), which is the point of `StaleSocketsGo`.
* `Resends!FairSpec`: only the interval of `readStreamUntilEndOrError`
  (`ResendHandler.ts:194`) at the requester. Storages, trackers, connections and
  the other timers may do nothing at all, and streams end.
* `WebRtcSignalling!FairSpec`: the instruction to connect is retried by both
  nodes, the tracker relays what it got, callbacks of the native library are made
  when two descriptions match, and the interval that connects to trackers goes
  on. The connection timer has strong fairness: it runs on while messages of the
  other peer come and go, which makes `Timeout` enabled again and again only.

## 6. What is proved

All for every value of the constants. The proofs are in `*_proofs` modules.

**TrackerAndNodes_proofs**, the overlay. `OverlayWellFormed`: `Spec => []IInv`, the conjunction
of `TypeOK`, `Symmetric` and `NoSelfNeighbor`, which `OverlayTypeCorrect`,
`AlwaysSymmetric` and `NeverOwnNeighbor` state one by one. None is inductive alone:
`leave` removes a node only from its neighbors, so that without symmetry it leaves
dangling links; and rewiring keeps symmetry only because a node is not its own
neighbor. One lemma per operator shows that it preserves well-formed graphs.
On that invariant rests what `formInstructions` does to any overlay that can arise,
whatever choices its shuffles make. `BothEndsAreInstructed`
(`GainersAreInstructed`): who gained a neighbor is told; symmetry before and after
makes both ends gain. `MaximumIsRespected` (`FormRespectsMaximum`): the number of
neighbors is followed through trimming, extending and swapping; swapping gives back
to each node as many as it takes. `LinksAreAdded` (`FormAddsLinks`): unless the node
is over the maximum, nothing changes or there are more links; the links that are
broken inject into those that are made and miss one. Counting needs finite overlays
(`OverlayFinite`), although the set of possible nodes need not be. Assumption:
`MaxNeighbors \in Nat`.

**TrackerAndNodes_proofs**, the tracker and its nodes. With everything that
subscriptions, departures, lost connections and reports in any order can do:
`AlwaysSound` (`OverlaysSound`), `MembersAgree` (`MembershipAgreement`),
`OldReportsAreNotBelieved` (`OldReportIsNotBelieved`) and `LastIsCurrent`
(`LastInstructionIsCurrent`), from `TrackerInvariant`. There
is one lemma for each part of a handler, on the record it transforms. Forming
instructions *rewires* (`Rewires`: nobody comes or goes, other streams are left
alone, what was sent stays sent, and whom a node gains it is told of), a departure
*leaves* (`Leaves`), and both are transitive, so that they hold of the loops over
streams and neighbors as they hold of a turn: the induction over the turns is one
over a set of numbers, which follows from `<` being well-founded. `StatusEffect` puts
`processNodeStatus` together: who is in which overlay is settled by the status
before instructions are formed. For `OldReportsAreNotBelieved` it also says what links
may go: a report that is not believed leaves the overlay as it was, the stream then has
one turn of `formInstructions`, and that breaks only links whose two ends it links to
the sender (`FormedBreaks`, `OnlyBrokenGo`). `LastIsCurrent` follows one stream through the parts
of a handler: a turn of `formInstructions` leaves the last instructions current if
nobody was told anything before it, or if they were current and nobody was over the
maximum (`FormAndSendCurrent`). The reported neighbors may bring somebody over the
maximum in between, but a reported stream has one turn only; the several turns come
after a departure, which takes neighbors away. The invariant has three parts. `TrackerInv`: overlays
are well formed, finite, occupied, and have connected nodes only; and a counter above
zero is that of a member, without which a node that was never instructed could have
its first report taken for an old one, and its overlay would be left empty.
`NodesInv`: statuses in flight are such as nodes send, and none is in flight from a
node without a connection, without which a status could bring back a node that
disconnected. `AgreementInv`: the last status in flight that says something about a
node and a stream, or the overlay if there is none, says what the node's streams say.
It is stronger than agreement once nothing is in flight, and inductive because
connections keep the order. Assumption besides that on `MaxNeighbors`: streams are
finitely many.

**TrackerAndNodes_proofs**, when nobody leaves. `NewestAlwaysAccepted`
(`NewestIsAccepted`) and `AgreeWhenQuiescent` (`QuiescentAgreement`) have the
hypothesis `OnlyJoins`, that `Churn` has no kinds of events but `"connect"` and
`"subscribe"`, as in the run `NodesJoin`. Without it they do not hold, for a node that
reconnects has counters the tracker forgot (section 7).
They come from `JoinInvariant`, for any numbers of nodes, streams and events.
`FollowsInv` says of each node and stream that what the node has, then the
instructions in flight one after the other, have ascending counters, that each of
them is older than the tracker's counter or has the neighbors of the overlay, and that
the newest one has that counter. Four more facts make it inductive: the throttler
accepted nothing newer than what the node has (`AcceptedInv`); what is reported is
not newer than what the tracker knows, so that a report the filter lets through says
what the overlay says already; a full status is the first one from a node that is in
no overlay (both `ReportsInv`), so that leaving all other streams removes nothing; and
nobody is over the maximum (`Bounded`), so that `formInstructions` takes neighbors
only from nodes it instructs (`OthersKeepNeighbors`). What a handler does to the
overlays is told of with ascending counters (`Advances`); that is transitive, and is
carried through the parts of the handlers as `Rewires` is.

**DuplicateMessageDetector_proofs.** `AlwaysAscending`, `AcceptedLeavesGaps`,
`NeverAcceptedTwice`, `ConsistentNeverErrs`, `NothingIsLost`. The invariant has the type, the
order of the gaps, that their last ends at Infinity, and that no accepted number
is in a gap. Replacing a gap by what remains of it keeps the order because the
pieces lie inside it; dropping the lowest gap only shrinks what may be accepted. For `NothingIsLost` the
same lemmas are read the other way: the splice keeps every number of the gap but
those that are now accepted, and what else leaves the gaps does so by the two
events the property names.
Assumptions: `Infinity \in Nat`, `MaxNumberOfGaps` is positive.

**Connection_proofs**, the queue. `QueueInvariant`, `QueuedArePending`,
`QueueImplementsDelivery`. `QueueHoldsPending` (exactly the queued messages are
pending) needs to know *which* messages are queued: the last ones, in order
(`QueueIsTail`); and that a failing message leaves at once needs that those in
the queue have tries left (`TriesLeft`). The refinement maps each operation to a
step of `OrderedDelivery`: the head of the queue is its oldest pending message.

**Connection_proofs**, the connection. Every step of a connection is a step of its queue or leaves
it alone (`ConnectionUsesQueue`), so that `ConnectionImplementsDelivery` and
`ConnectionQueuesPending` follow from the queue's theorems. `WakeupsAreNotLost`
and `ClosedConnectionIsQuiet` come from the inductive invariant
`ConnectionIInv`: types, what `close` leaves behind (`FinishedIsClosed`), and that
a paused connection has a callback to come (`PausedIsWatched`), which holds
because it pauses at the high threshold, and that is above the low one. That is
the assumption to look at, `Low < High`: with equal thresholds a connection
could pause for ever. The others are that limits are natural or positive numbers.

**NodeInstructions_proofs.** `NodeInvariant`: neighbors are connected and without
timers (`Links`), what is queued, handled and retried are instructions (`Known`), and
every stream that has a queue *or a lock* has a handler that was not cancelled
(`Fetched`). `NeighborsAlwaysConnected`, `NeverTimerForNeighbors` and
`QueuedAlwaysFetched` follow. The two link properties need no more than each other's
company: an operator that adds neighbors takes them from established connections, and clears
their timers. For the third the lock has to be in the invariant, for it is what lets
`InstructionReceived` leave an instruction in the queue; and the instruction in the
queue of `s` must be one for `s`, since the handler that fetches it counts for the
stream of its instruction. One lemma per operator on the node's record, then one per
action. Assumptions: instructions name streams and peers, and there is a bound on
handlers.

The other three properties have theorems of their own, and two need a hypothesis on
`Happens`, the set of kinds of events of a run; the runs that check the properties
have it, too. `AlwaysOneAtATime` (`OneAtATime`) needs `NeverUnsubscribes`, because
`removeStreamId` makes the throttler forget a handler that runs on (section 7). Its
invariant `Locked` says that a handler of the throttler is not cancelled, holds the
lock of its stream, and is the only one that does. `AlwaysReported` (`ReportedIsCurrent`) needs
`NeverRetries`, because a retry without failures reports nothing, but allows
unsubscribing: every stream was reported as it is, or a handler runs that will
report it (`Telling`). `NeighborsAlwaysFollow` (`NeighborsFollowLastAccepted`) needs
both: while a handler waits its stream has neighbors among those of its
instruction, and that is the accepted one unless a newer one is queued (`Ordered`).

**MessagePropagation_proofs.** For any network, and changes of it while messages are
in flight: `AlwaysPropagatesOnce` (`PropagatesOnce`), `UnpropagatedAlwaysWait`
(`UnpropagatedWait`), `WaitsOnlyForNeighbors` (`WaitOnlyForNeighbors`). The
invariant is one predicate on the state of a node, `Good`: what it has sent it sent
once, and neither accepts nor propagates again; what it did not propagate is in its
buffer, unless it was given up; and while a message is in the buffer, the node has no
neighbor but the one it came from. It has a parameter, the messages that are being handled, so that it
holds between the messages of a buffer; that handling a whole buffer ends with
`Good` for no messages is proved by induction on its length, which follows from the
fact that `<` is well-founded (`WFMin`). `FloodReachesAll` (`NeighborsSeeTheSame`)
is about a network that does not change: `Flood` says that links are mutual, that
what is in flight on a link ascends and was seen by its sender, that a node that has
seen a message has seen all before it, and that what a neighbor has not seen is on
its way to it. Assumptions: the
publisher is a node, buffers have room for two messages, the limit is positive.

**WsConnections_proofs.** For any number of sockets and failures. The invariant has
for each socket which states its two ends may be in with what is on the way
(`Sound`), and that an end the dialer counts on is in use at the acceptor, or the
dialer is about to hear otherwise (`Hears`); the second is inductive only with the
first, for an end is dropped by what arrives on its way. `AlwaysHeard`
(`ClientIsHeard`) is the settled case. A step concerns one socket, but finds
`connections` by address: `OthersStay` shows that it leaves the others as they are
unless it goes `astray`, the two cases of section 7. `TieIsAlwaysBroken`
(`TieIsBroken`) is about runs without failures: a socket has six phases, and `Tie`
says in which of them the sockets of the two endpoints are used where. The larger
end drops its socket only when it has the other one, and that one stays. `Tie` is
inductive and used with `IInv`. Assumption: there are two endpoints.

**Resends_proofs.** `TypeCorrect`, and `ResendsInvariant`: that no request has a place
before its loop has come to the foreign strategy (`NotYetForeign`), and
`LinksAreNeeded`. The last alone is not inductive: a loop that goes to the foreign
strategy resets the request's place, which must not have held a connection until
then. One lemma says that any change of places keeps the invariant if the
connections it leaves unused are closed with it (`MovesKeepsIInv`); each action is
then an instance. `LinksAlwaysNeeded` and `OverIsSilent` (a stream that has ended or
was destroyed gives nothing more, though its request lives on) follow.
`AlwaysWholeUnlessDisturbed` (`WholeUnlessDisturbed`) needs an invariant of its own,
`Calm`, for as long as nothing failed and no timer fired (`disturbed`): what is on
the way to a request are the next of the messages it was given, in order and without
a gap, up to what its storage node has read, and then the response that ends it;
they come over a connection that both ends have, and nothing else is on the way to
that request. `StreamIsImplemented` is the refinement of `ResendStream`, with failures,
timers, back pressure and stops: every step opens a stream, gives it one stored
message, ends streams, or does nothing to them. What makes it hard is that a stream
may start over only once, when its second strategy begins, although answers are lost
and a connection is lost and made again between two of them. The invariant is
`StartsOverOnce`: a request has not been to any storage node until it is current, and
goes to one only once (`AtStorage`); what a storage node has said to it ascends and is
among what its loop has given, though messages in between may be missing (`Rises`);
and what is on the way from the node that the request waits for is newer than the
last message the requester's strategy gave (`OnTheWay`). `NextMoves` describes every
action of the model by what it does to a request at a storage node, on its way and at
the requester; the inductive step and the refinement are about those few moves
only. Assumptions:
requests are finitely many, the requester is no storage node, and the tracker
names storage nodes only.

**WebRtcSignalling_proofs.** For any number of failures, retries and messages on the
way: `TypeCorrect`, `SignallingInvariant`, `OpenAlwaysStays` (`OpenStays`). That a
connection which is open at both ends survives what is left of earlier attempts rests
on the order of messages: a peer sends the description of a connection once, and
nothing after it that would make the other peer replace what it has. `InOrder` says so
of the queue to the tracker, of the one from it, and of both together: once the
description is at the other peer, no offer, answer or request for an offer is under
way. It is inductive because a new connection has a generation nothing on the way
refers to (`FreshIsNew`: the numbers on the way are finitely many, so that one is
left), and because the tracker and its failures keep the order or lose what is
queued. A few lemmas say what a step does to one peer's order (`Untold`, `Told`,
`Created`); each action is an instance. Assumption: there are two peers.

**Model-checked only.** Liveness (`QueuedIsHandled`, `MessagesSettle`,
`DeadPeerIsDropped`, `PropagationEnds`, `StaleSocketsGo`, `Converges`, and the
liveness half of `ImplementsStream`): out of the prover's reach. `LoopBreaksTheseLinks`
compares the overlay with a recursive operator of `MCOverlayTopology`.

## 7. Where the code does not do what it says

Found while modelling. The first has a run that shows it.

1. **A node that reconnects drops instructions** (`ReconnectDropsInstruction`).
   The tracker forgets the counters of a node that disconnects (`Tracker.ts:229`)
   and starts again; the node's throttler does not forget and drops what is lower
   than before (`InstructionThrottler.ts:41`).

Observed with the same modules, without a run of their own. About instructions:

* Two handlers for a stream: `removeStreamId` cancels the promise the throttler
  awaits, but the handler runs on; after the stream is joined again another
  handler runs beside it, against the comment at `InstructionThrottler.ts:17`.
* Retries stop reporting: each retry calls the handler, which calls `add`, which
  resets the counter that is to make every nth retry report
  (`InstructionRetryManager.ts:35-46`).
* A full status makes the tracker drop *all* counters of the node if there is an
  overlay the status does not name (`Tracker.ts:166-173`, `229`), with the effect
  of 1 on streams the node never left.
* An instruction that crosses an unsubscription subscribes the node again
  (`Node.ts:281`), and so does data in flight (`Node.ts:338`).
* A retry that ends after a newer instruction was handled arms the timer with the
  older instruction (`InstructionRetryManager.ts:60`).
* When both ends leave a stream that was the only one they shared, no timer is set
  and the connection stays (`Node.ts:217`).

About connections:

* `connectToNode` resolves at once when the peer connection is made
  (`WebRtcEndpoint.ts:173`) and otherwise when the data channel is open, so that an
  instruction that comes between the two makes a neighbor of a peer whose channel is
  not open. What is sent to it waits in the queue. If the channel never opens, the
  timer of the connection (`Connection.ts:437`) closes it, and the peer is no neighbor
  any longer (`DeadPeerIsDropped`, `NeighborsAreConnected`).
* The pong of a socket that a server has replaced marks the connection that took its
  place as having answered (`WsEndpoint.ts:185-193`). That delays the detection of a
  dead one by an interval, no more (`StaleSocketsGo`).
* `ping` arms its timer after it has closed the connection
  (`Connection.ts:348`, `362`); the model keeps that timer, and
  `ClosedStaysQuiet` says that it is the only one.
* When the last connection to a peer has closed, or the endpoint stops, the
  promises of queued messages never settle (`WebRtcEndpoint.ts:216`, `339`).
* `MessageBuffer.put` throws when `maxSize` is 1 (`MessageBuffer.ts:28-32`).
* The capacity of a message queue is the maximal size of a message in bytes
  (`WebRtcEndpoint.ts:186`).
* An offer that meets a connection with a description closes that connection,
  makes a new one and then sets the description on the *old* one
  (`WebRtcEndpoint.ts:76-86`; the comment at line 78 says that the offer indicates
  a new connection). The offer is lost; the timeout of the other side and its next
  attempt repair it, which is what `Converges` shows. In the same way an answer may
  be given to a newer connection than the one it answers.
* The error of a tracker that was restarted and does not know the receiver of a
  late candidate closes a connection that is open (`WebRtcEndpoint.ts:129-136`).
  `OpenStays` excepts this one case.
* A server that has a connection to an address and gets another one from it closes
  the new one with `close()` of uWebSockets, which calls the close handler at once
  and removes the connection there *was* (`WsEndpoint.ts:521-524`, `174-183`):
  both ends may be left without one
  (`test/integration/duplicate-connections-are-closed.test.ts:21` expects one).
  The late close of an old socket removes a newer one by the same rule.
  `astray` marks both, and `ClientIsHeard` and `TieIsBroken` except them.
* The tracker's address book never forgets anybody: `PeerBook.remove` is not called.
* A send of `WsEndpoint` that throws leaves its promise pending (`297-302`), and
  `connect` takes a closed server socket for an open one, since its `readyState`
  and `OPEN` are both undefined (`344`).

About resends:

* `ResendHandler.stop` iterates over the fields of the bookkeeper and cancels
  nothing (`ResendHandler.ts:123`).
* When the send of an answer fails, the storage node's resends are cancelled and
  end as if they were complete (`proxyRequestStream.ts:24`): the requester is told
  `Resent` about a part. The same happens to a consumer that pauses for longer
  than `maxInactivityPeriodInMs`.
* A stream that is paused when the bookkeeper drops it is never resumed.
* A request that waits in the queue of a lost connection has no timer until the
  send resolves (`resendStrategies.ts:209-213`): only the inactivity check, after
  five minutes, ends its stream.
* The answer of a tracker serves all requests pending for the stream, and only the
  first storage node that can be connected to is asked (`maxTries` is 1).

## 8. What is not modelled

* `Node.stop`, which resets the throttler and the retries of `NodeInstructions`
  (`Resends` has the part about resends), and `WsEndpoint.send`, its back pressure
  and the peer book: none decides who is connected to whom.
* In the signalling: protocol versions (a peer without a common version is closed
  like any failure), several trackers as routers, more than one candidate (the
  code sends the first only), peers beyond two (connections are per peer).
* `SeenButNotPropagatedSet`'s limit of 50000 entries; entries go with their
  timeout only. Several publishers and chains: each has its own detector.
* A second tracker in `TrackerAndNodes`: streams are partitioned among trackers;
  `NodeInstructions` has the instructions of an unexpected one.
* In resends: pausing by the application; several streams of the network. That a
  storage node is a neighbor changes by lost connections and by `stop` only:
  instructions, unsubscriptions and disconnection timers (`Node.ts:533`) that change
  it during a resend are left out, and with them a connection that was kept because
  its node was a neighbor at that moment.
* Failures of a WebSocket send other than by losing the connection; messages that
  arrive although `sendData` failed.
* Locations, round-trip times, metrics, logging, HTTP endpoints, peer identities
  and protocol versions: no property here depends on them.
