---------------------------- MODULE WsConnections ----------------------------
(***************************************************************************)
(* src/connection/WsEndpoint.ts: two endpoints and the WebSocket           *)
(* connections between them.  Each endpoint is a client (the ws library,   *)
(* for the sockets it opens itself) and a server (uWebSockets, for those   *)
(* it accepts), and keeps one socket per address in `connections`.         *)
(*                                                                         *)
(* A socket has two ends.  What one end sends arrives at the other in      *)
(* order, but nothing orders one socket with respect to another.           *)
(* Handlers that concern a closed socket find `connections` by address:    *)
(* they see whatever socket is there by then.                              *)
(***************************************************************************)
EXTENDS Naturals, FiniteSets, Sequences

CONSTANTS Endpoint,
          Larger,       \* the endpoint whose address sorts after the other's
          Dialer,       \* the endpoints that call connect
          MaxSockets,   \* bound on the sockets opened
          MaxFailures   \* bound on sockets that fail, are closed or stopped

ASSUME EndpointAssumption == /\ IsFiniteSet(Endpoint) /\ Cardinality(Endpoint) = 2
                             /\ Larger \in Endpoint
                             /\ Dialer \subseteq Endpoint

None == 0

Peer(e) == CHOOSE x \in Endpoint : x # e

VARIABLES
    dialer,       \* per socket, in the order they were opened: who opened it
    end,          \* per socket and endpoint, the state of that end
    way,          \* per socket and endpoint, what is on the way to that end
    connections,  \* per endpoint, the socket by which it reaches the other
    pending,      \* per endpoint, the socket in pendingConnections
    unanswered,   \* per endpoint, respondedPong of its connection is false
    late,         \* per endpoint, the sockets it accepted, no longer uses and
                  \* still hears, whose pong is to come
    listening,    \* the endpoints that were not stopped
    failures,     \* how many sockets failed, were closed or stopped
    astray        \* history: a close handler removed a socket not its own

vars == <<dialer, end, way, connections, pending, unanswered, late, listening,
          failures, astray>>

Socket == DOMAIN dialer

IsServer(s, e) == dialer[s] # e

\* The state of e's end of s; nothing arrives at an end that is closed.
EndBecomes(s, e, state) == [end EXCEPT ![s][e] = state]

\* What is under way when e has taken the first item and sends these itself.
Exchange(s, e, sent) ==
    [way EXCEPT ![s] = [x \in Endpoint |->
        IF x = e THEN Tail(way[s][e])
        ELSE IF end[s][x] = "closed" THEN <<>> ELSE way[s][x] \o sent]]

Sends(s, e, sent) ==
    [way EXCEPT ![s][Peer(e)] = IF end[s][Peer(e)] = "closed" THEN <<>> ELSE @ \o sent]

\* TCP gives up: what was under way is lost, the ends that are left hear of it.
Resets(s, closed) ==
    [way EXCEPT ![s] = [x \in Endpoint |->
        IF x \in closed \/ end[s][x] = "closed" THEN <<>> ELSE <<"reset">>]]

\* The socket no longer works, at one end at least.
Gone(s) == \E e \in Endpoint : end[s][e] = "closed" \/ way[s][e] = <<"reset">>

Event == failures < MaxFailures /\ failures' = failures + 1

Keep(e) == UNCHANGED <<connections, unanswered, late, astray>>

\* The socket whose pong the server e still waits for, if it goes on hearing it.
\* (A client that hears from a socket it does not use marks only that socket.)
Awaited(e) == {s \in Socket : /\ connections[e] = s /\ IsServer(s, e)
                              /\ unanswered[e] /\ ~ Gone(s) /\ end'[s][e] = "open"}

\* onNewConnection, when it takes the socket
Takes(e, s) == /\ connections' = [connections EXCEPT ![e] = s]
               /\ unanswered' = [unanswered EXCEPT ![e] = FALSE]
               /\ late' = [late EXCEPT ![e] = @ \cup Awaited(e)]

\* Mutant of OnClose: a close is ignored unless somebody asked for it.
OnCloseIfAsked(e, s, reason) ==
    IF reason = "bye" THEN Takes(e, None) /\ UNCHANGED astray ELSE Keep(e)

\* onClose: by address, whichever socket is there.  A socket closed as a
\* duplicate leaves the other one in place.
OnClose(e, s, reason) ==
    IF reason = "duplicate" THEN Keep(e)
    ELSE Takes(e, None) /\ astray' = (astray \/ connections[e] \notin {None, s})

-----------------------------------------------------------------------------
Init == /\ dialer = <<>>
        /\ end = <<>>
        /\ way = <<>>
        /\ connections = [e \in Endpoint |-> None]
        /\ pending = [e \in Endpoint |-> None]
        /\ unanswered = [e \in Endpoint |-> FALSE]
        /\ late = [e \in Endpoint |-> {}]
        /\ listening = Endpoint
        /\ failures = 0
        /\ astray = FALSE

\* connect: an endpoint that is connected, or about to be, stays so, unless the
\* client socket it has is closing.  (Server sockets have no readyState: it and
\* OPEN are both undefined.)
Connect(e) ==
    /\ e \in Dialer \cap listening
    /\ Len(dialer) < MaxSockets
    /\ connections[e] # None => end[connections[e]][e] = "closing"
    /\ pending[e] = None
    /\ dialer' = Append(dialer, e)
    /\ end' = Append(end, [x \in Endpoint |-> IF x = e THEN "connecting" ELSE "none"])
    /\ way' = Append(way, [x \in Endpoint |-> IF x = e THEN <<>> ELSE <<"upgrade">>])
    /\ pending' = [pending EXCEPT ![e] = Len(dialer')]
    /\ UNCHANGED <<connections, unanswered, late, listening, failures, astray>>

\* The server's upgrade and open handlers, onIncomingConnection.  close() of
\* uWebSockets sends no close frame and calls the close handler at once, which
\* removes the connection there was.
Upgrade(s, e) ==
    /\ way[s][e] # <<>> /\ Head(way[s][e]) = "upgrade"
    /\ CASE e \notin listening ->
              /\ end' = EndBecomes(s, e, "closed")
              /\ way' = Exchange(s, e, <<"reset">>)
              /\ Keep(e)
         [] e \in listening /\ connections[e] # None ->
              /\ end' = EndBecomes(s, e, "closed")
              /\ way' = Exchange(s, e, <<"reply", "reset">>)
              /\ OnClose(e, s, "")
         [] OTHER ->
              /\ end' = EndBecomes(s, e, "open")
              /\ way' = Exchange(s, e, <<"reply">>)
              /\ Takes(e, s)
              /\ UNCHANGED astray
    /\ UNCHANGED <<dialer, pending, listening, failures>>

\* Mutant of DropsDuplicate: both ends drop their own socket.
DropsEveryDuplicate(e) == connections[e] # None

\* The tiebreaker of onNewConnection.
DropsDuplicate(e) == connections[e] # None /\ e = Larger

\* The client's open handler.
Opens(s, e) ==
    /\ way[s][e] # <<>> /\ Head(way[s][e]) = "reply"
    /\ pending' = [pending EXCEPT ![e] = None]
    /\ IF DropsDuplicate(e)
       THEN /\ end' = EndBecomes(s, e, "closing")
            /\ way' = Exchange(s, e, <<"duplicate">>)
            /\ Keep(e)
       ELSE /\ end' = EndBecomes(s, e, "open")
            /\ way' = Exchange(s, e, <<>>)
            /\ Takes(e, s)
            /\ UNCHANGED astray
    /\ UNCHANGED <<dialer, listening, failures>>

\* A close frame arrives: the end answers with the same reason and is closed.
CloseFrame(s, e) ==
    /\ way[s][e] # <<>> /\ Head(way[s][e]) \in {"duplicate", "bye"}
    /\ end' = EndBecomes(s, e, "closed")
    /\ way' = [Exchange(s, e, <<Head(way[s][e])>>) EXCEPT ![s][e] = <<>>]
    /\ OnClose(e, s, Head(way[s][e]))
    /\ UNCHANGED <<dialer, pending, listening, failures>>

\* The socket is lost: the close handler, or the error handler of a client that
\* was still connecting.
Reset(s, e) ==
    /\ way[s][e] # <<>> /\ Head(way[s][e]) = "reset"
    /\ end' = EndBecomes(s, e, "closed")
    /\ way' = [way EXCEPT ![s][e] = <<>>]
    /\ IF end[s][e] = "connecting" THEN pending' = [pending EXCEPT ![e] = None]
       ELSE UNCHANGED pending
    /\ IF end[s][e] \in {"connecting", "none"} THEN Keep(e)
       ELSE OnClose(e, s, "")
    /\ UNCHANGED <<dialer, listening, failures>>

\* closeWs: a client waits for the answer, end() of uWebSockets calls the close
\* handler at once.  A socket that is closed or closing stays so.
CloseWs(e, s) ==
    CASE s # None /\ IsServer(s, e) /\ end[s][e] # "closed" ->
            /\ end' = EndBecomes(s, e, "closed")
            /\ way' = [Sends(s, e, <<"bye">>) EXCEPT ![s][e] = <<>>]
            /\ OnClose(e, s, "bye")
      [] s # None /\ ~ IsServer(s, e) /\ end[s][e] = "open" ->
            /\ end' = EndBecomes(s, e, "closing")
            /\ way' = Sends(s, e, <<"bye">>)
            /\ Keep(e)
      [] OTHER -> UNCHANGED <<end, way>> /\ Keep(e)

Close(e) ==
    /\ Event
    /\ CloseWs(e, connections[e])
    /\ UNCHANGED <<dialer, pending, listening>>

\* stop
Stop(e) ==
    /\ Event
    /\ e \in listening
    /\ listening' = listening \ {e}
    /\ CloseWs(e, connections[e])
    /\ UNCHANGED <<dialer, pending>>

\* The network fails; each end hears of it some time.
Fails(s) ==
    /\ Event
    /\ \E e \in Endpoint : end[s][e] # "closed" /\ way[s][e] # <<"reset">>
    /\ way' = Resets(s, {})
    /\ UNCHANGED <<dialer, end, connections, pending, unanswered, late, listening,
                   astray>>

\* pingConnections, of a connection that did not answer the last time or that
\* cannot be pinged (a closed socket of uWebSockets throws).  terminateWs has
\* the close handler of a server called at once, and of a client later.  The
\* answer of an end that works may only be late: that is a failure, too.
PingFails(e) ==
    LET s == connections[e]
    IN  /\ s # None
        /\ e \in listening
        /\ unanswered[e] \/ (IsServer(s, e) /\ end[s][e] = "closed")
        /\ IF Gone(s) THEN UNCHANGED failures ELSE Event
        /\ end' = IF IsServer(s, e) THEN EndBecomes(s, e, "closed") ELSE end
        /\ OnClose(e, s, "")
        /\ way' = IF end[s][e] = "closed" THEN way
                  ELSE Resets(s, IF IsServer(s, e) THEN {e} ELSE {})
        /\ UNCHANGED <<dialer, pending, listening>>

\* Mutant of Ping: a connection that did not answer is pinged again.
PingAgain(e) ==
    /\ connections[e] # None
    /\ e \in listening
    /\ unanswered' = [unanswered EXCEPT ![e] = ~ @]
    /\ UNCHANGED <<dialer, end, way, connections, pending, late, listening, failures,
                   astray>>

\* pingConnections, of a connection that answered the last time
Ping(e) ==
    /\ connections[e] # None
    /\ e \in listening
    /\ ~ unanswered[e]
    /\ IsServer(connections[e], e) => end[connections[e]][e] # "closed"
    /\ unanswered' = [unanswered EXCEPT ![e] = TRUE]
    /\ UNCHANGED <<dialer, end, way, connections, pending, late, listening, failures,
                   astray>>

\* The pong handler.  A client marks its own socket, a server whatever connection
\* is under the address, also when it is another socket that answers.  The other
\* end may have answered before it was closed.
Pong(s, e) ==
    /\ (s = connections[e] /\ unanswered[e]) \/ s \in late[e]
    /\ end[s][e] \in {"open", "closing"} /\ end[s][Peer(e)] # "connecting"
    /\ way[s][e] # <<>> => Head(way[s][e]) # "reset"
    /\ unanswered' = [unanswered EXCEPT ![e] = FALSE]
    /\ late' = [late EXCEPT ![e] = @ \ {s}]
    /\ UNCHANGED <<dialer, end, way, connections, pending, listening, failures, astray>>

Arrives(s, e) == Upgrade(s, e) \/ Opens(s, e) \/ CloseFrame(s, e)

Next == \E e \in Endpoint :
           \/ Connect(e)
           \/ \E s \in Socket : Arrives(s, e) \/ Reset(s, e) \/ Pong(s, e)
           \/ Close(e) \/ Stop(e)
           \/ PingFails(e) \/ Ping(e)
           \/ \E s \in Socket : Fails(s)

Spec == Init /\ [][Next]_vars

\* The ping interval goes on as long as the endpoint is not stopped, and what
\* was sent arrives.  That a socket is lost need not be heard of.
FairSpec ==
    /\ Spec
    /\ \A e \in Endpoint :
          /\ WF_vars(Ping(e))
          /\ WF_vars(PingFails(e))
          /\ \A s \in 1 .. MaxSockets : WF_vars(s \in Socket /\ Arrives(s, e))

-----------------------------------------------------------------------------
Settled == \A s \in Socket, e \in Endpoint : way[s][e] = <<>>

\* A client that has a connection is heard: when all has arrived its server
\* finds the same socket under its address, whichever sockets failed before and
\* in whatever order the ends found out, unless a close handler removed a socket
\* that was not its own, or the server dialed, too (as a tracker never does).
ClientIsHeard ==
    Settled /\ ~ astray =>
        \A s \in Socket :
            /\ connections[dialer[s]] = s /\ end[s][dialer[s]] # "closing"
            /\ \A t \in Socket : dialer[t] = dialer[s]
            => connections[Peer(dialer[s])] = s

\* The tiebreaker: two endpoints that open a socket to each other at the same
\* time are connected in the end, if neither socket was turned down because its
\* receiver had the other one already (duplicate-connections-are-closed.test.ts:21:
\* "one of them should be closed").
TieIsBroken ==
    Settled /\ ~ astray /\ failures = 0 /\ Socket # {} =>
        \E s \in Socket : \A e \in Endpoint : connections[e] = s

\* No endpoint keeps a socket that does not work, also if it is never told: the
\* ping finds out, although some close handlers are told to do nothing and others
\* remove the wrong socket.
StaleSocketsGo ==
    \A e \in Endpoint, s \in 1 .. MaxSockets :
        (s \in Socket /\ connections[e] = s /\ Gone(s))
            ~> (connections[e] # s \/ e \notin listening)
=============================================================================
