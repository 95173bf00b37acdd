--------------------------- MODULE WebRtcSignalling ---------------------------
(***************************************************************************)
(* src/connection/WebRtcEndpoint.ts, RtcSignaller.ts and                   *)
(* rtcSignallingHandlers.ts: two peers and the connections they make to    *)
(* each other, with offers, answers and requests for offers that a tracker *)
(* relays.  The peer with the smaller id offers.                           *)
(*                                                                         *)
(* A peer has at most one connection to the other at a time; connections   *)
(* that replace each other have different generations.  Two connections    *)
(* can open when each has the other's description.  That they then do so,  *)
(* and that an open one notices that the other is gone, is up to the       *)
(* native library and its callbacks.                                       *)
(***************************************************************************)
EXTENDS Naturals, Sequences, FiniteSets, FiniteSetsExt

CONSTANTS Small,       \* the peer with the smaller id, whose isOffering is true
          Large,
          MaxEvents,   \* bound on failures
    MaxQueue     \* bound on what is on the way when a retry comes

ASSUME PeerAssumption == Small # Large

Peer == {Small, Large}

Other(p) == IF p = Small THEN Large ELSE Small

VARIABLES
    conn,      \* per peer, connections[Other(p)]
    up,        \* per peer, what it sent that the tracker has not handled yet
    down,      \* per peer, what the tracker sent to it
    online,    \* the peers connected to the tracker
    known,     \* the peers in the tracker's peer book, which forgets nobody
    stopped,   \* the endpoints that were stopped
    events     \* how many of MaxEvents happened

trackerVars == <<online, known>>
vars == <<conn, up, down, trackerVars, stopped, events>>

Event == events < MaxEvents /\ events' = events + 1

\* A connection of generation gen: remote is the generation of the one whose
\* description was set (isRemoteDescriptionSet), candidate and enqueued those of
\* the remote candidates it was given, and sent how many messages it sent, a
\* description first and then a candidate.
Connection(gen, remote, state) ==
    [gen |-> gen, remote |-> remote, state |-> state,
     candidate |-> 0, enqueued |-> 0, sent |-> 0]

NoConnection == Connection(0, 0, "none")

Exists(p) == conn[p].state # "none"

IsRemoteDescriptionSet(p) == conn[p].remote # 0

Message(type, gen) == [type |-> type, gen |-> gen]

\* A generation nothing refers to any more, to keep the numbers few.
Fresh(p) ==
    LET peer == conn[Other(p)]
        onTheWay(q) == {q[i].gen : i \in DOMAIN q}
        used == {conn[p].gen, peer.remote, peer.candidate, peer.enqueued}
                    \cup onTheWay(up[p]) \cup onTheWay(down[Other(p)])
    IN  Min(1 .. Cardinality(used) + 1 \ used)

\* What p sends to the tracker, if it is connected to it
Sends(p, message) == up' = IF p \in online THEN [up EXCEPT ![p] = Append(@, message)]
                           ELSE up

\* connect, of a peer that has no connection (any more): one that does not offer
\* asks for an offer (onConnectionNeeded).
Creates(p, remote) ==
    /\ conn' = [conn EXCEPT ![p] = Connection(Fresh(p), remote, "new")]
    /\ IF p = Large THEN Sends(p, Message("connect", 0)) ELSE UNCHANGED up

\* setRemoteDescription, which also gives the native side the candidate that
\* waits for it
SetRemoteDescription(p, gen) ==
    conn' = [conn EXCEPT ![p].remote = gen,
                         ![p].candidate = conn[p].enqueued,
                         ![p].enqueued = 0]

\* close
Closes(p) == conn' = [conn EXCEPT ![p] = NoConnection]

Init == /\ conn = [p \in Peer |-> NoConnection]
        /\ up = [p \in Peer |-> <<>>]
        /\ down = [p \in Peer |-> <<>>]
        /\ online \in SUBSET Peer
        /\ known = online
        /\ stopped = {}
        /\ events = 0

-----------------------------------------------------------------------------
\* Mutant of Connect: a connection that exists is asked for again.
ConnectAgain(p) ==
    /\ p \notin stopped
    /\ IF ~ Exists(p) THEN Creates(p, 0)
       ELSE /\ p = Large
            /\ Sends(p, Message("connect", 0))
            /\ UNCHANGED conn
    /\ UNCHANGED <<down, trackerVars, stopped, events>>

\* connect, for the node's handler of an instruction or its retry.  If there is a
\* connection, it waits for that.
Connect(p) ==
    /\ p \notin stopped
    /\ ~ Exists(p)
    /\ Len(up[p]) + Len(down[p]) <= MaxQueue
    /\ Creates(p, 0)
    /\ UNCHANGED <<down, trackerVars, stopped, events>>

\* The native side has a description: an offer, or the answer to one.
HasDescription(p) == /\ conn[p].state = "new"
                     /\ conn[p].sent = 0
                     /\ p = Small \/ IsRemoteDescriptionSet(p)

LocalDescription(p) ==
    /\ HasDescription(p)
    /\ conn' = [conn EXCEPT ![p].sent = 1]
    /\ Sends(p, Message(IF p = Small THEN "offer" ELSE "answer", conn[p].gen))
    /\ UNCHANGED <<down, trackerVars, stopped, events>>

\* Then it has candidates, of which only the first is sent.
HasCandidate(p) == conn[p].state = "new" /\ conn[p].sent = 1

LocalCandidate(p) ==
    /\ HasCandidate(p)
    /\ conn' = [conn EXCEPT ![p].sent = 2]
    /\ Sends(p, Message("candidate", conn[p].gen))
    /\ UNCHANGED <<down, trackerVars, stopped, events>>

\* attachRtcSignalling: the tracker relays a message.  That its receiver was
\* never there is an error for the sender, that it is gone is not.
RelayMessage(p) ==
    LET message == Head(up[p])
    IN  /\ up[p] # <<>>
        /\ up' = [up EXCEPT ![p] = Tail(@)]
        /\ down' = IF Other(p) \notin known
                   THEN [down EXCEPT ![p] = Append(@, Message("error", 0))]
                   ELSE IF Other(p) \notin online THEN down
                   ELSE [down EXCEPT ![Other(p)] = Append(@, message)]
        /\ UNCHANGED <<conn, trackerVars, stopped, events>>

Takes(p, type) == /\ down[p] # <<>>
                  /\ Head(down[p]).type = type
                  /\ p \notin stopped
                  /\ down' = [down EXCEPT ![p] = Tail(@)]
                  /\ UNCHANGED <<trackerVars, stopped, events>>

\* The offer listener.  A connection that has a description is replaced, but it
\* is the old one, which is closed, that is given the offer.
RtcOffer ==
    LET offer == Head(down[Large]).gen
    IN  /\ Takes(Large, "offer")
        /\ IF ~ Exists(Large) THEN Creates(Large, offer)
           ELSE IF IsRemoteDescriptionSet(Large) THEN Creates(Large, 0)
           ELSE SetRemoteDescription(Large, offer) /\ UNCHANGED up

\* The answer listener.  Whichever connection there is gets the answer; a second
\* one is refused by the native side.
RtcAnswer ==
    /\ Takes(Small, "answer")
    /\ IF Exists(Small) /\ ~ IsRemoteDescriptionSet(Small)
       THEN SetRemoteDescription(Small, Head(down[Small]).gen)
       ELSE UNCHANGED conn
    /\ UNCHANGED up

\* The remote candidate listener
RemoteCandidate(p) ==
    LET candidate == Head(down[p]).gen
    IN  /\ Takes(p, "candidate")
        /\ conn' = IF ~ Exists(p) THEN conn
                   ELSE IF ~ IsRemoteDescriptionSet(p)
                   THEN [conn EXCEPT ![p].enqueued = candidate]
                   ELSE IF candidate = conn[p].remote
                   THEN [conn EXCEPT ![p].candidate = candidate]
                   ELSE conn
        /\ UNCHANGED up

\* The connect listener
RtcConnect ==
    /\ Takes(Small, "connect")
    /\ IF ~ Exists(Small) \/ IsRemoteDescriptionSet(Small)
       THEN Creates(Small, 0)
       ELSE UNCHANGED <<conn, up>>

\* The error listener closes the connection there is.
RtcError(p) ==
    /\ Takes(p, "error")
    /\ Closes(p)
    /\ UNCHANGED up

\* A stopped endpoint has listeners that do nothing.
Ignores(p) ==
    /\ p \in stopped
    /\ down[p] # <<>>
    /\ down' = [down EXCEPT ![p] = <<>>]
    /\ UNCHANGED <<conn, up, trackerVars, stopped, events>>

Receive(p) == \/ p = Large /\ RtcOffer
              \/ p = Small /\ (RtcAnswer \/ RtcConnect)
              \/ RemoteCandidate(p) \/ RtcError(p) \/ Ignores(p)

-----------------------------------------------------------------------------
\* Each has the other's description, and one of them a way to reach the other.
Matched == /\ \A p \in Peer : Exists(p) /\ conn[p].remote = conn[Other(p)].gen
           /\ \E p \in Peer : conn[p].candidate = conn[p].remote

Native(p) == /\ Closes(p)
             /\ UNCHANGED <<up, down, trackerVars>>

\* The data channel opens, at one end and then at the other.
Opens(p) ==
    /\ Matched
    /\ conn[p].state = "new"
    /\ conn' = [conn EXCEPT ![p].state = "open"]
    /\ UNCHANGED <<up, down, trackerVars, stopped, events>>

\* An open connection whose other end is gone: a callback, or the pings.
PeerIsGone(p) ==
    /\ conn[p].state = "open"
    /\ ~ Matched
    /\ Native(p)
    /\ UNCHANGED <<stopped, events>>

\* Nothing is under way that could open a connection.
Stuck == /\ ~ Matched
         /\ \A p \in Peer : /\ up[p] = <<>> /\ down[p] = <<>>
                            /\ ~ HasDescription(p) /\ ~ HasCandidate(p)

\* Mutant of Timeout: the timer is cleared once the remote description is set.
TimeoutOfUnanswered(p) ==
    /\ conn[p].state = "new"
    /\ Stuck
    /\ ~ IsRemoteDescriptionSet(p)
    /\ Native(p)
    /\ UNCHANGED <<stopped, events>>

\* The connection timer
Timeout(p) ==
    /\ conn[p].state = "new"
    /\ Stuck
    /\ Native(p)
    /\ UNCHANGED <<stopped, events>>

\* The timer is too early, the connection fails, or the node disconnects.
Fails(p) ==
    /\ Event
    /\ Exists(p)
    /\ Native(p)
    /\ UNCHANGED stopped

Stop(p) ==
    /\ Event
    /\ p \notin stopped
    /\ stopped' = stopped \cup {p}
    /\ Native(p)

\* These peers lose their connections to the tracker, with what is on the way.
Disconnected(peers) ==
    /\ Event
    /\ online' = online \ peers
    /\ up' = [p \in Peer |-> IF p \in peers THEN <<>> ELSE up[p]]
    /\ down' = [p \in Peer |-> IF p \in peers THEN <<>> ELSE down[p]]
    /\ UNCHANGED <<conn, stopped>>

TrackerLost(p) == p \in online /\ Disconnected({p}) /\ UNCHANGED known

TrackerRestarts == Disconnected(Peer) /\ known' = {}

\* connectToBootstrapTrackers
TrackerBack(p) ==
    /\ p \notin online
    /\ online' = online \cup {p}
    /\ known' = known \cup {p}
    /\ UNCHANGED <<conn, up, down, stopped, events>>

Next == \/ TrackerRestarts
        \/ \E p \in Peer :
              \/ Connect(p) \/ LocalDescription(p) \/ LocalCandidate(p)
              \/ RelayMessage(p) \/ Receive(p)
              \/ Opens(p) \/ PeerIsGone(p) \/ Timeout(p) \/ Fails(p) \/ Stop(p)
              \/ TrackerLost(p) \/ TrackerBack(p)

Spec == Init /\ [][Next]_vars

\* Both nodes keep the instruction to connect and retry it; what is sent through
\* the tracker arrives; native callbacks are made, and the interval that connects
\* to the tracker goes on.  A connection timer fires although the attempts of the
\* other peer interrupt the silence in between.
FairSpec ==
    /\ Spec
    /\ \A p \in Peer : /\ WF_vars(Connect(p))
                       /\ WF_vars(LocalDescription(p))
                       /\ WF_vars(LocalCandidate(p))
                       /\ WF_vars(RelayMessage(p))
                       /\ WF_vars(Receive(p))
                       /\ WF_vars(Opens(p))
                       /\ WF_vars(PeerIsGone(p))
                       /\ WF_vars(TrackerBack(p))
                       /\ SF_vars(Timeout(p))

-----------------------------------------------------------------------------
BothOpen == Matched /\ \A p \in Peer : conn[p].state = "open"

\* Once failures end, both peers end up with one open connection to each other,
\* unless one is stopped: no order of offers, answers, candidates, requests for
\* offers, errors and timeouts keeps them replacing connections for ever, or
\* waiting for each other.  (An offer that meets an old connection is lost and an
\* answer may be given to a connection it is not for; timeouts and retries repair
\* both.)
Converges == <>[](BothOpen \/ stopped # {})

\* What is left of the signalling of earlier attempts never tears down a
\* connection that is open at both ends: only a failure does, or a late candidate
\* through a tracker that was restarted and does not know its receiver yet.
OpenStays ==
    [][BothOpen => BothOpen' \/ events' # events \/ \E p \in Peer : RtcError(p)]_vars
=============================================================================
