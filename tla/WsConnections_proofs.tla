-------------------------- MODULE WsConnections_proofs --------------------------
(***************************************************************************)
(* Proofs about src/connection/WsEndpoint.ts, for any number of sockets,   *)
(* failures, closes and stops: the server finds a client's socket when the *)
(* client does, and the tiebreaker leaves one socket of two.               *)
(***************************************************************************)
EXTENDS WsConnections, SequenceTheorems, FiniteSetTheorems, TLAPS

Item == {"upgrade", "reply", "reset", "duplicate", "bye"}

State == {"none", "connecting", "open", "closing", "closed"}

Ends == [Socket -> [Endpoint -> State]]
Ways == [Socket -> [Endpoint -> Seq(Item)]]
Numbers == [Endpoint -> {None} \cup Socket]
Lates == [Endpoint -> SUBSET Socket]

TypeOK ==
    /\ dialer \in Seq(Endpoint)
    /\ end \in Ends
    /\ way \in Ways
    /\ connections \in Numbers
    /\ pending \in Numbers
    /\ unanswered \in [Endpoint -> BOOLEAN]
    /\ late \in Lates
    /\ listening \subseteq Endpoint
    /\ failures \in Nat
    /\ astray \in BOOLEAN

-----------------------------------------------------------------------------
(***************************************************************************)
(* Endpoints, sockets and what is on the way                               *)
(***************************************************************************)
\* An endpoint has a peer, and that is all there is.
LEMMA TwoEndpoints ==
    ASSUME NEW e \in Endpoint
    PROVE  /\ Peer(e) \in Endpoint
           /\ Peer(e) # e
           /\ Peer(Peer(e)) = e
           /\ \A x \in Endpoint : x = e \/ x = Peer(e)
<1>1. \A x \in Endpoint : \E y : Endpoint \ {x} = {y}
  <2> TAKE x \in Endpoint
  <2>1. IsFiniteSet(Endpoint \ {x}) /\ Cardinality(Endpoint \ {x}) = 1
    BY EndpointAssumption, FS_RemoveElement
  <2> QED BY <2>1, FS_Singleton
<1>2. ASSUME NEW x \in Endpoint
      PROVE  Peer(x) \in Endpoint /\ Peer(x) # x /\ Endpoint \ {x} = {Peer(x)}
  <2>1. PICK y : Endpoint \ {x} = {y}
    BY <1>1
  <2>2. \E z \in Endpoint : z # x
    BY <2>1
  <2>3. Peer(x) \in Endpoint /\ Peer(x) # x
    BY <2>2 DEF Peer
  <2> QED BY <2>1, <2>3
<1> QED BY <1>2

\* Sockets have numbers, and None is none of them.
LEMMA SocketsAreNumbers ==
    ASSUME TypeOK
    PROVE  /\ Socket = 1 .. Len(dialer) /\ Len(dialer) \in Nat
           /\ None \notin Socket
           /\ \A s \in Socket : dialer[s] \in Endpoint
<1>1. Socket = 1 .. Len(dialer) /\ Len(dialer) \in Nat
  BY LenProperties DEF TypeOK, Socket
<1>2. \A s \in 1 .. Len(dialer) : dialer[s] \in Endpoint
  BY ElementOfSeq DEF TypeOK
<1> QED BY <1>1, <1>2 DEF None

Has(items, x) == \E i \in DOMAIN items : items[i] = x

Fatal(items) == items # <<>> /\ items[Len(items)] \in {"reset", "bye", "duplicate"}

OneReply(items) == \A i \in DOMAIN items : items[i] = "reply" => i = 1

\* A sequence without items is empty.
LEMMA EmptyIsShort ==
    ASSUME NEW S, NEW items \in Seq(S)
    PROVE  Len(items) = 0 <=> items = <<>>
BY EmptySeq

\* What is left when the first item has arrived
LEMMA ItemsThatFollow ==
    ASSUME NEW items \in Seq(Item), items # <<>>
    PROVE  /\ Tail(items) \in Seq(Item)
           /\ Has(items, Head(items)) /\ Head(items) = items[1] /\ 1 \in DOMAIN items
           /\ Head(items) \in Item
           /\ \A x : Has(Tail(items), x) => Has(items, x)
           /\ OneReply(items) => OneReply(Tail(items)) /\ ~ Has(Tail(items), "reply")
           /\ Len(items) = 1 => Tail(items) = <<>>
           /\ Fatal(items) /\ Head(items) \notin {"reset", "bye", "duplicate"}
              => Fatal(Tail(items))
<1>1. Len(items) \in Nat \ {0} /\ DOMAIN items = 1 .. Len(items)
  BY LenProperties, EmptySeq
<1>2. /\ Tail(items) \in Seq(Item)
      /\ Len(Tail(items)) = Len(items) - 1
      /\ \A i \in 1 .. Len(Tail(items)) : Tail(items)[i] = items[i + 1]
      /\ Head(items) = items[1] /\ Head(items) \in Item
  BY HeadTailProperties
<1>3. DOMAIN Tail(items) = 1 .. Len(items) - 1
  BY <1>2, LenProperties
<1>4. \A i \in DOMAIN Tail(items) :
          i \in Nat \ {0} /\ i + 1 \in DOMAIN items /\ Tail(items)[i] = items[i + 1]
  BY <1>1, <1>2, <1>3
<1>5. ASSUME Fatal(items), Head(items) \notin {"reset", "bye", "duplicate"}
      PROVE  Fatal(Tail(items))
  <2>1. Len(items) # 1
    BY <1>2, <1>5 DEF Fatal
  <2>2. Len(items) - 1 \in DOMAIN Tail(items)
    BY <1>1, <1>3, <2>1
  <2>4. Tail(items) # <<>>
    <3>1. Len(Tail(items)) # 0 /\ Tail(items) \in Seq(Item)
      BY <1>1, <1>2, <2>1
    <3> QED BY <3>1, EmptyIsShort
  <2>3. Tail(items)[Len(Tail(items))] = items[Len(items)]
    BY <1>1, <1>2, <1>4, <2>2
  <2> QED BY <1>5, <2>4, <2>3 DEF Fatal
<1>6. OneReply(items) => OneReply(Tail(items)) /\ ~ Has(Tail(items), "reply")
  BY <1>1, <1>4 DEF OneReply, Has
<1>7. Len(items) = 1 => Tail(items) = <<>>
  <2>1. Tail(items) \in Seq(Item) /\ (Len(items) = 1 => Len(Tail(items)) = 0)
    BY <1>2
  <2> QED BY <2>1, EmptyIsShort
<1>8. /\ Has(items, Head(items)) /\ 1 \in DOMAIN items
      /\ \A x : Has(Tail(items), x) => Has(items, x)
  BY <1>1, <1>2, <1>4 DEF Has
<1> QED BY <1>2, <1>5, <1>6, <1>7, <1>8

\* An item is sent after the others.
LEMMA ItemsThatAreSent ==
    ASSUME NEW items \in Seq(Item), NEW x \in Item
    PROVE  /\ items \o <<x>> \in Seq(Item)
           /\ \A y : Has(items \o <<x>>, y) <=> Has(items, y) \/ y = x
           /\ x # "reply" /\ OneReply(items) => OneReply(items \o <<x>>)
           /\ x \in {"reset", "bye", "duplicate"} => Fatal(items \o <<x>>)
<1> DEFINE next == items \o <<x>>
           n == Len(items)
<1>1. n \in Nat /\ DOMAIN items = 1 .. n
  BY LenProperties
<1>2. <<x>> \in Seq(Item) /\ Len(<<x>>) = 1 /\ <<x>>[1] = x
  OBVIOUS
<1>3. /\ next \in Seq(Item)
      /\ Len(next) = n + 1
      /\ \A i \in 1 .. n + 1 : next[i] = (IF i <= n THEN items[i] ELSE x)
  <2>1. /\ next \in Seq(Item) /\ Len(next) = n + 1
        /\ \A i \in 1 .. n + 1 : next[i] = (IF i <= n THEN items[i] ELSE <<x>>[i - n])
    BY <1>2, ConcatProperties
  <2>2. \A i \in 1 .. n + 1 : i <= n \/ i - n = 1
    BY <1>1
  <2> QED BY <1>2, <2>1, <2>2
<1>4. DOMAIN next = 1 .. n + 1
  BY <1>3, LenProperties
<1> HIDE DEF next, n
<1>5. \A y : Has(next, y) <=> Has(items, y) \/ y = x
  <2>1. n + 1 \in DOMAIN next /\ next[n + 1] = x
    BY <1>1, <1>3, <1>4
  <2>2. \A i \in DOMAIN items : i \in DOMAIN next /\ next[i] = items[i]
    BY <1>1, <1>3, <1>4
  <2>3. \A i \in DOMAIN next : (i \in DOMAIN items /\ next[i] = items[i]) \/ next[i] = x
    BY <1>1, <1>3, <1>4
  <2> QED BY <2>1, <2>2, <2>3 DEF Has
<1>6. \A i \in DOMAIN next : (i \in DOMAIN items /\ next[i] = items[i]) \/ next[i] = x
  BY <1>1, <1>3, <1>4
<1>7. x \in {"reset", "bye", "duplicate"} => Fatal(next)
  BY <1>1, <1>3, EmptySeq DEF Fatal
<1>8. x # "reply" /\ OneReply(items) => OneReply(next)
  BY <1>6 DEF OneReply
<1> QED BY <1>3, <1>5, <1>7, <1>8 DEF next

\* Nothing that is one of two short sequences
LEMMA ShortItems ==
    /\ \A x : ~ Has(<<>>, x)
    /\ \A x, y : Has(<<y>>, x) <=> x = y
    /\ <<>> \in Seq(Item) /\ \A x \in Item : <<x>> \in Seq(Item)
    /\ Fatal(<<"reset">>)
    /\ <<"reply", "reset">> \in Seq(Item) /\ Fatal(<<"reply", "reset">>)
    /\ \A x : Has(<<"reply", "reset">>, x) <=> x \in {"reply", "reset"}
    /\ OneReply(<<"reply", "reset">>) /\ OneReply(<<>>) /\ \A x : OneReply(<<x>>)
    /\ ~ Fatal(<<>>)
<1>1. \A x : ~ Has(<<>>, x)
  BY DEF Has
<1>2. \A x, y : Has(<<y>>, x) <=> x = y
  BY DEF Has
<1>3. Fatal(<<"reset">>) /\ \A x \in Item : <<x>> \in Seq(Item)
  BY DEF Fatal
<1>4. /\ <<"reply", "reset">> \in Seq(Item) /\ Len(<<"reply", "reset">>) = 2
      /\ <<"reply", "reset">>[1] = "reply" /\ <<"reply", "reset">>[2] = "reset"
      /\ DOMAIN <<"reply", "reset">> = 1 .. 2
  BY DEF Item
<1>5. /\ Fatal(<<"reply", "reset">>) /\ OneReply(<<"reply", "reset">>)
      /\ \A x : Has(<<"reply", "reset">>, x) <=> x \in {"reply", "reset"}
  BY <1>4 DEF Fatal, OneReply, Has
<1>6. OneReply(<<>>) /\ (\A x : OneReply(<<x>>)) /\ ~ Fatal(<<>>)
  BY DEF OneReply, Fatal
<1> QED BY <1>1, <1>2, <1>3, <1>4, <1>5, <1>6, EmptySeq

-----------------------------------------------------------------------------
(***************************************************************************)
(* What the operators on a socket do                                       *)
(***************************************************************************)
\* f differs from g in the socket s only.
Beside(f, g, s) == \A t \in Socket \ {s} : f[t] = g[t]

\* One end of one socket changes.
LEMMA AnEndBecomes ==
    ASSUME TypeOK, NEW s \in Socket, NEW e \in Endpoint, NEW state \in State
    PROVE  /\ EndBecomes(s, e, state) \in Ends
           /\ Beside(EndBecomes(s, e, state), end, s)
           /\ EndBecomes(s, e, state)[s][e] = state
           /\ EndBecomes(s, e, state)[s][Peer(e)] = end[s][Peer(e)]
BY TwoEndpoints DEF TypeOK, EndBecomes, Ends, State, Beside

\* An end handles what came first, and sends something.
LEMMA Exchanged ==
    ASSUME TypeOK, NEW s \in Socket, NEW e \in Endpoint, way[s][e] # <<>>,
           NEW sent \in Seq(Item)
    PROVE  /\ Exchange(s, e, sent) \in Ways
           /\ Beside(Exchange(s, e, sent), way, s)
           /\ Exchange(s, e, sent)[s][e] = Tail(way[s][e])
           /\ Exchange(s, e, sent)[s][Peer(e)]
                = IF end[s][Peer(e)] = "closed" THEN <<>> ELSE way[s][Peer(e)] \o sent
<1>1. /\ way \in Ways /\ Peer(e) \in Endpoint /\ Peer(e) # e
      /\ \A x \in Endpoint : way[s][x] \in Seq(Item)
  BY TwoEndpoints DEF TypeOK, Ways
<1>2. Tail(way[s][e]) \in Seq(Item)
  BY <1>1, ItemsThatFollow
<1>3. \A x \in Endpoint : way[s][x] \o sent \in Seq(Item)
  BY <1>1, ConcatProperties
<1>4. <<>> \in Seq(Item)
  BY ShortItems
<1> DEFINE of == [x \in Endpoint |->
        IF x = e THEN Tail(way[s][e])
        ELSE IF end[s][x] = "closed" THEN <<>> ELSE way[s][x] \o sent]
<1>5. of \in [Endpoint -> Seq(Item)]
  BY <1>2, <1>3, <1>4
<1>6. /\ of[e] = Tail(way[s][e])
      /\ of[Peer(e)] = IF end[s][Peer(e)] = "closed" THEN <<>> ELSE way[s][Peer(e)] \o sent
  BY <1>1
<1>7. Exchange(s, e, sent) = [way EXCEPT ![s] = of]
  BY DEF Exchange
<1> HIDE DEF of
<1> QED BY <1>1, <1>5, <1>6, <1>7 DEF Ways, Beside

\* An end sends something.
LEMMA Sent ==
    ASSUME TypeOK, NEW s \in Socket, NEW e \in Endpoint, NEW sent \in Seq(Item)
    PROVE  /\ Sends(s, e, sent) \in Ways
           /\ Beside(Sends(s, e, sent), way, s)
           /\ Sends(s, e, sent)[s][e] = way[s][e]
           /\ Sends(s, e, sent)[s][Peer(e)]
                = IF end[s][Peer(e)] = "closed" THEN <<>> ELSE way[s][Peer(e)] \o sent
<1>1. /\ way \in Ways /\ Peer(e) \in Endpoint /\ Peer(e) # e
      /\ way[s][Peer(e)] \in Seq(Item)
  BY TwoEndpoints DEF TypeOK, Ways
<1>2. PICK next : next = IF end[s][Peer(e)] = "closed" THEN <<>> ELSE way[s][Peer(e)] \o sent
  OBVIOUS
<1>3. next \in Seq(Item)
  BY <1>1, <1>2, ShortItems, ConcatProperties
<1>4. Sends(s, e, sent) = [way EXCEPT ![s][Peer(e)] = next]
  BY <1>2 DEF Sends
<1>5. PICK p : p = Peer(e)
  OBVIOUS
<1> QED BY <1>1, <1>2, <1>3, <1>4, <1>5 DEF Ways, Beside

\* Nothing else arrives at this end.
LEMMA Emptied ==
    ASSUME NEW ways \in Ways, NEW s \in Socket, NEW e \in Endpoint
    PROVE  /\ [ways EXCEPT ![s][e] = <<>>] \in Ways
           /\ Beside([ways EXCEPT ![s][e] = <<>>], ways, s)
           /\ [ways EXCEPT ![s][e] = <<>>][s][e] = <<>>
           /\ [ways EXCEPT ![s][e] = <<>>][s][Peer(e)] = ways[s][Peer(e)]
BY TwoEndpoints, ShortItems DEF Ways, Beside

\* The connection below a socket is reset.
LEMMA WasReset ==
    ASSUME TypeOK, NEW s \in Socket, NEW closed
    PROVE  /\ Resets(s, closed) \in Ways
           /\ Beside(Resets(s, closed), way, s)
           /\ \A x \in Endpoint : Resets(s, closed)[s][x]
                = IF x \in closed \/ end[s][x] = "closed" THEN <<>> ELSE <<"reset">>
<1>1. way \in Ways
  BY DEF TypeOK, Ways
<1>2. <<>> \in Seq(Item) /\ <<"reset">> \in Seq(Item)
  BY ShortItems DEF Item
<1> DEFINE of == [x \in Endpoint |->
        IF x \in closed \/ end[s][x] = "closed" THEN <<>> ELSE <<"reset">>]
<1>3. of \in [Endpoint -> Seq(Item)]
  BY <1>2
<1>4. \A x \in Endpoint :
         of[x] = IF x \in closed \/ end[s][x] = "closed" THEN <<>> ELSE <<"reset">>
  OBVIOUS
<1>5. Resets(s, closed) = [way EXCEPT ![s] = of]
  BY DEF Resets
<1> HIDE DEF of
<1> QED BY <1>1, <1>3, <1>4, <1>5 DEF Ways, Beside

-----------------------------------------------------------------------------
(***************************************************************************)
(* The inductive invariant                                                 *)
(***************************************************************************)
\* What holds of a socket s, whose dialer is in state c with W on its way, whose
\* acceptor is in state v with V on its way, and which use the sockets k and l.
Sound(s, c, v, W, V, k, l) ==
    /\ c \in {"connecting", "open", "closing", "closed"}
    /\ v \in {"none", "open", "closed"}
    /\ ~ Has(W, "upgrade") /\ ~ Has(V, "reply")
    /\ Has(V, "upgrade") => /\ Len(V) = 1 /\ W = <<>>
                            /\ c = "connecting" /\ v = "none"
    /\ OneReply(W)
    /\ Has(W, "reply") => c = "connecting" /\ v # "none"
    /\ v = "none" => c \in {"connecting", "closed"}
    /\ Has(V, "reset") \/ v = "closed" => c = "closed" \/ Fatal(W)
    /\ c = "connecting" => ~ Has(W, "duplicate") /\ ~ Has(V, "duplicate")
    /\ k = s => c \in {"open", "closing"} /\ ~ Has(W, "duplicate") /\ ~ Has(V, "duplicate")
    /\ l = s => v # "none"
    /\ c = "closed" => W = <<>>
    /\ v = "closed" => V = <<>>

\* The acceptor uses the socket the dialer has, or the dialer is about to hear
\* that it does not.
Hears(s, c, v, W, l) ==
    v # "none" /\ c \in {"connecting", "open"} => l = s \/ Fatal(W)

SocketOK(s) ==
    Sound(s, end[s][dialer[s]], end[s][Peer(dialer[s])],
          way[s][dialer[s]], way[s][Peer(dialer[s])],
          connections[dialer[s]], connections[Peer(dialer[s])])

SocketHeard(s) ==
    ~ astray /\ (\A t \in Socket : dialer[t] = dialer[s]) =>
        Hears(s, end[s][dialer[s]], end[s][Peer(dialer[s])], way[s][dialer[s]],
              connections[Peer(dialer[s])])

SocketsOK == \A s \in Socket : SocketOK(s) /\ SocketHeard(s)

IInv == TypeOK /\ SocketsOK

-----------------------------------------------------------------------------
(***************************************************************************)
(* What a step on one socket does to the connections                       *)
(***************************************************************************)
\* A step on s only puts s into connections, or removes what is there, and it
\* replaces another socket on purpose or else goes astray.
Replaces(s) ==
    /\ astray => astray'
    /\ \A x \in Endpoint :
          /\ connections'[x] \in {connections[x], None, s}
          /\ \/ connections'[x] = connections[x]
             \/ astray'
             \/ connections[x] \in {None, s}
             \/ x = dialer[s]

Ledgers == /\ connections \in Numbers
           /\ unanswered \in [Endpoint -> BOOLEAN]
           /\ late \in Lates
           /\ astray \in BOOLEAN

\* An endpoint takes a socket as the one to its peer.
LEMMA IsTaken ==
    ASSUME TypeOK, NEW s \in {None} \cup Socket, NEW e \in Endpoint, Takes(e, s), dialer' = dialer
    PROVE  /\ connections' \in Numbers' /\ unanswered' \in [Endpoint -> BOOLEAN]
           /\ late' \in Lates'
           /\ connections'[e] = s
           /\ \A x \in Endpoint : x # e => connections'[x] = connections[x]
           /\ connections'[Peer(e)] = connections[Peer(e)]
<1>1. late' \in Lates'
  <2>1. Awaited(e) \subseteq Socket /\ Socket' = Socket
    BY DEF Awaited, Socket
  <2>2. late' = [late EXCEPT ![e] = @ \cup Awaited(e)]
    BY DEF Takes
  <2> QED BY <2>1, <2>2 DEF TypeOK, Lates
<1> QED BY <1>1, TwoEndpoints DEF TypeOK, Takes, Numbers, Socket

\* An endpoint hears that a socket is closed.
LEMMA IsClosed ==
    ASSUME TypeOK, NEW s \in Socket, NEW e \in Endpoint, NEW reason,
           OnClose(e, s, reason), dialer' = dialer
    PROVE  /\ Replaces(s) /\ Ledgers'
           /\ connections'[Peer(e)] = connections[Peer(e)]
           /\ connections'[e] = IF reason = "duplicate" THEN connections[e] ELSE None
<1>1. CASE reason = "duplicate"
  BY <1>1 DEF OnClose, Keep, Replaces, Ledgers, TypeOK, Numbers, Lates, Socket
<1>2. CASE reason # "duplicate"
  <2>1. Takes(e, None) /\ astray' = (astray \/ connections[e] \notin {None, s})
    BY <1>2 DEF OnClose
  <2>2. /\ connections' \in Numbers' /\ unanswered' \in [Endpoint -> BOOLEAN]
        /\ late' \in Lates'
        /\ connections'[e] = None
        /\ \A x \in Endpoint : x # e => connections'[x] = connections[x]
        /\ connections'[Peer(e)] = connections[Peer(e)]
    BY <2>1, IsTaken
  <2>3. astray' \in BOOLEAN
    BY <2>1
  <2>4. Replaces(s)
    BY <2>1, <2>2 DEF Replaces, TypeOK
  <2> QED BY <1>2, <2>2, <2>3, <2>4 DEF Ledgers
<1> QED BY <1>1, <1>2

\* An endpoint keeps the socket it has.
LEMMA IsKept ==
    ASSUME TypeOK, NEW s \in Socket, NEW e, Keep(e), dialer' = dialer
    PROVE  Replaces(s) /\ Ledgers' /\ connections' = connections /\ astray' = astray
BY DEF Keep, Replaces, Ledgers, TypeOK, Numbers, Lates, Socket

\* The dialer, or an endpoint without a socket, takes one.
LEMMA IsTakenOn ==
    ASSUME TypeOK, NEW s \in Socket, NEW e \in Endpoint, Takes(e, s), astray' = astray,
           connections[e] = None \/ e = dialer[s], dialer' = dialer
    PROVE  /\ Replaces(s) /\ Ledgers'
           /\ connections'[Peer(e)] = connections[Peer(e)]
           /\ connections'[e] = s
<1>1. /\ connections' \in Numbers' /\ unanswered' \in [Endpoint -> BOOLEAN]
      /\ late' \in Lates'
      /\ connections'[e] = s
      /\ \A x \in Endpoint : x # e => connections'[x] = connections[x]
      /\ connections'[Peer(e)] = connections[Peer(e)]
  BY IsTaken
<1> QED BY <1>1 DEF Replaces, Ledgers, TypeOK

\* A step on s that keeps what holds of s keeps what holds of all.
LEMMA OthersStay ==
    ASSUME IInv, NEW s \in Socket, dialer' = dialer,
           Beside(end', end, s), Beside(way', way, s), Replaces(s),
           SocketOK(s)', SocketHeard(s)'
    PROVE  SocketsOK'
<1>1. Socket' = Socket
  BY DEF Socket
<1>2. SUFFICES ASSUME NEW t \in Socket, t # s
               PROVE  SocketOK(t)' /\ SocketHeard(t)'
  BY <1>1 DEF SocketsOK
<1>3. PICK d : d = dialer[t]
  OBVIOUS
<1>4. PICK p : p = Peer(dialer[t])
  OBVIOUS
<1>5. d \in Endpoint /\ p \in Endpoint /\ p = Peer(d) /\ p # d /\ None # t
      /\ dialer[s] \in Endpoint
  BY <1>3, <1>4, TwoEndpoints, SocketsAreNumbers DEF IInv
<1>6. end'[t] = end[t] /\ way'[t] = way[t] /\ dialer'[t] = d
  BY <1>2, <1>3 DEF Beside
<1>7. /\ Sound(t, end[t][d], end[t][p], way[t][d], way[t][p], connections[d], connections[p])
      /\ SocketHeard(t)
  BY <1>3, <1>5 DEF IInv, SocketsOK, SocketOK
<1>8. /\ connections'[d] = t => connections[d] = t
      /\ connections'[p] = t => connections[p] = t
  BY <1>2, <1>5 DEF Replaces
<1>9. Sound(t, end[t][d], end[t][p], way[t][d], way[t][p], connections'[d], connections'[p])
  BY <1>7, <1>8 DEF Sound
<1>10. SocketOK(t)'
  BY <1>5, <1>6, <1>9 DEF SocketOK
<1>11. ASSUME ~ astray', \A u \in Socket : dialer[u] = d
       PROVE  Hears(t, end[t][d], end[t][p], way[t][d], connections'[p])
  <2>1. Hears(t, end[t][d], end[t][p], way[t][d], connections[p])
    BY <1>3, <1>5, <1>7, <1>11 DEF SocketHeard, Replaces
  <2>2. connections[p] = t => connections'[p] = t
    BY <1>2, <1>5, <1>11 DEF Replaces
  <2> QED BY <2>1, <2>2 DEF Hears
<1>12. SocketHeard(t)'
  BY <1>1, <1>5, <1>6, <1>11 DEF SocketHeard
<1> QED BY <1>10, <1>12

\* Types of the rest
LEMMA TypesStay ==
    ASSUME TypeOK, dialer' = dialer, end' \in Ends, way' \in Ways, Ledgers',
           pending' \in Numbers, listening' \subseteq Endpoint, failures' \in Nat
    PROVE  TypeOK'
BY DEF TypeOK, Ledgers, Ends, Ways, Numbers, Socket

-----------------------------------------------------------------------------
(***************************************************************************)
(* One lemma per action                                                    *)
(***************************************************************************)
\* d opened s to p, and what holds of s
Between(s, d, p) ==
    /\ d \in Endpoint /\ p \in Endpoint /\ d # p
    /\ d = dialer[s] /\ p = Peer(d) /\ d = Peer(p)
    /\ \A x \in Endpoint : x = d \/ x = p
    /\ s # None
    /\ way[s][d] \in Seq(Item) /\ way[s][p] \in Seq(Item)
    /\ Sound(s, end[s][d], end[s][p], way[s][d], way[s][p], connections[d], connections[p])

\* A socket has a dialer and an acceptor.
LEMMA SocketsAreBetween ==
    ASSUME IInv, NEW s \in Socket
    PROVE  \E d, p \in Endpoint : Between(s, d, p)
<1>1. PICK d : d = dialer[s]
  OBVIOUS
<1>2. PICK p : p = Peer(d)
  OBVIOUS
<1>3. d \in Endpoint /\ s # None
  BY <1>1, SocketsAreNumbers DEF IInv
<1>4. p \in Endpoint /\ d # p /\ d = Peer(p) /\ \A x \in Endpoint : x = d \/ x = p
  BY <1>2, <1>3, TwoEndpoints
<1>5. way[s][d] \in Seq(Item) /\ way[s][p] \in Seq(Item)
  BY <1>3, <1>4 DEF IInv, TypeOK, Ways
<1>6. Sound(s, end[s][d], end[s][p], way[s][d], way[s][p], connections[d], connections[p])
  BY <1>1, <1>2 DEF IInv, SocketsOK, SocketOK
<1> QED BY <1>1, <1>2, <1>3, <1>4, <1>5, <1>6 DEF Between

\* A step on a socket has to be looked at for that socket only.
LEMMA OneSocketMoves ==
    ASSUME IInv, TypeOK', NEW s \in Socket, NEW d, NEW p, Between(s, d, p), dialer' = dialer,
           Beside(end', end, s), Beside(way', way, s), Replaces(s),
           Sound(s, end'[s][d], end'[s][p], way'[s][d], way'[s][p],
                 connections'[d], connections'[p]),
           ~ astray' /\ Hears(s, end[s][d], end[s][p], way[s][d], connections[p])
           => Hears(s, end'[s][d], end'[s][p], way'[s][d], connections'[p])
    PROVE  IInv'
<1>1. d = dialer[s] /\ p = Peer(d)
  BY DEF Between
<1>2. SocketOK(s)'
  BY <1>1 DEF SocketOK
<1>3. SocketHeard(s)'
  <2>1. SUFFICES ASSUME ~ astray', \A t \in Socket : dialer[t] = dialer[s]
                 PROVE  Hears(s, end'[s][d], end'[s][p], way'[s][d], connections'[p])
    BY <1>1 DEF SocketHeard, Socket
  <2>2. Hears(s, end[s][d], end[s][p], way[s][d], connections[p])
    BY <1>1, <2>1 DEF IInv, SocketsOK, SocketHeard, Replaces
  <2> QED BY <2>1, <2>2
<1> QED BY <1>2, <1>3, OthersStay DEF IInv

\* The acceptor gets the request for a socket.
LEMMA UpgradeKeepsIInv ==
    ASSUME IInv, NEW s \in Socket, NEW e \in Endpoint, Upgrade(s, e)
    PROVE  IInv'
<1>1. PICK d, p \in Endpoint : Between(s, d, p)
  BY SocketsAreBetween
<1>2. TypeOK /\ dialer' = dialer /\ pending' = pending /\ listening' = listening /\ failures' = failures
  BY DEF IInv, Upgrade
<1>3. way[s][e] # <<>> /\ Head(way[s][e]) = "upgrade" /\ way[s][e] \in Seq(Item)
  BY <1>1 DEF Upgrade, Between
<1>4. Has(way[s][e], "upgrade") /\ (Len(way[s][e]) = 1 => Tail(way[s][e]) = <<>>)
  BY <1>3, ItemsThatFollow
<1>5. /\ e = p /\ Peer(e) = d
      /\ Tail(way[s][p]) = <<>>
      /\ way[s][d] = <<>> /\ end[s][d] = "connecting" /\ end[s][p] = "none"
  BY <1>1, <1>4 DEF Between, Sound
<1>6. pending' \in Numbers /\ listening' \subseteq Endpoint /\ failures' \in Nat
  BY <1>2 DEF TypeOK
<1>7. /\ \A x \in Item : <<>> \o <<x>> = <<x>>
      /\ <<>> \o <<"reply", "reset">> = <<"reply", "reset">>
  BY DEF Item
<1>8. /\ \A x : ~ Has(<<>>, x)
      /\ \A x, y : Has(<<y>>, x) <=> x = y
      /\ <<"reset">> \in Seq(Item) /\ <<"reply">> \in Seq(Item) /\ <<"reply", "reset">> \in Seq(Item)
      /\ Fatal(<<"reset">>) /\ Fatal(<<"reply", "reset">>)
      /\ \A x : Has(<<"reply", "reset">>, x) <=> x \in {"reply", "reset"}
      /\ OneReply(<<"reply", "reset">>) /\ \A x : OneReply(<<x>>)
  BY ShortItems DEF Item
<1>9. connections[d] # s
  BY <1>1, <1>5 DEF Between, Sound
<1>10. CASE /\ e \notin listening
            /\ end' = EndBecomes(s, e, "closed")
            /\ way' = Exchange(s, e, <<"reset">>)
            /\ Keep(e)
  <2>1. Replaces(s) /\ Ledgers' /\ connections' = connections
    BY <1>2, <1>10, IsKept
  <2>2. /\ end' \in Ends /\ Beside(end', end, s)
        /\ end'[s][p] = "closed" /\ end'[s][d] = "connecting"
    BY <1>2, <1>5, <1>10, AnEndBecomes DEF State
  <2>3. /\ way' \in Ways /\ Beside(way', way, s)
        /\ way'[s][p] = <<>> /\ way'[s][d] = <<"reset">>
    <3>1. /\ way' \in Ways /\ Beside(way', way, s)
          /\ way'[s][e] = Tail(way[s][e])
          /\ way'[s][Peer(e)] = IF end[s][Peer(e)] = "closed" THEN <<>>
                               ELSE way[s][Peer(e)] \o <<"reset">>
      <4>1. TypeOK /\ way[s][e] # <<>> /\ <<"reset">> \in Seq(Item)
        BY <1>2, <1>3, <1>8
      <4>2. way' = Exchange(s, e, <<"reset">>)
        BY <1>10
      <4> QED BY <4>1, <4>2, Exchanged
    <3>2. way'[s][d] = <<>> \o <<"reset">>
      BY <1>5, <3>1
    <3> QED BY <1>5, <1>7, <3>1, <3>2 DEF Item
  <2>4. TypeOK'
    BY <1>2, <1>6, <2>1, <2>2, <2>3, TypesStay
  <2>5. Sound(s, end'[s][d], end'[s][p], way'[s][d], way'[s][p], connections'[d], connections'[p])
    BY <1>8, <1>9, <2>1, <2>2, <2>3, EmptySeq DEF Sound
  <2>6. Hears(s, end'[s][d], end'[s][p], way'[s][d], connections'[p])
    BY <1>8, <2>3 DEF Hears
  <2> QED BY <1>1, <1>2, <2>1, <2>2, <2>3, <2>4, <2>5, <2>6, OneSocketMoves
<1>11. CASE /\ e \in listening /\ connections[e] # None
            /\ end' = EndBecomes(s, e, "closed")
            /\ way' = Exchange(s, e, <<"reply", "reset">>)
            /\ OnClose(e, s, "")
  <2>1. Replaces(s) /\ Ledgers' /\ connections'[d] = connections[d] /\ connections'[p] = None
    <3>1. /\ Replaces(s) /\ Ledgers'
          /\ connections'[Peer(e)] = connections[Peer(e)]
          /\ connections'[e] = IF "" = "duplicate" THEN connections[e] ELSE None
      BY <1>2, <1>11, IsClosed
    <3> QED BY <1>5, <3>1
  <2>2. /\ end' \in Ends /\ Beside(end', end, s)
        /\ end'[s][p] = "closed" /\ end'[s][d] = "connecting"
    BY <1>2, <1>5, <1>11, AnEndBecomes DEF State
  <2>3. /\ way' \in Ways /\ Beside(way', way, s)
        /\ way'[s][p] = <<>> /\ way'[s][d] = <<"reply", "reset">>
    <3>1. /\ way' \in Ways /\ Beside(way', way, s)
          /\ way'[s][e] = Tail(way[s][e])
          /\ way'[s][Peer(e)] = IF end[s][Peer(e)] = "closed" THEN <<>>
                               ELSE way[s][Peer(e)] \o <<"reply", "reset">>
      BY <1>2, <1>3, <1>8, <1>11, Exchanged
    <3>2. way'[s][d] = <<>> \o <<"reply", "reset">>
      BY <1>5, <3>1
    <3> QED BY <1>5, <1>7, <3>1, <3>2
  <2>4. TypeOK'
    BY <1>2, <1>6, <2>1, <2>2, <2>3, TypesStay
  <2>5. Sound(s, end'[s][d], end'[s][p], way'[s][d], way'[s][p], connections'[d], connections'[p])
    BY <1>8, <1>9, <2>1, <2>2, <2>3 DEF Sound
  <2>6. Hears(s, end'[s][d], end'[s][p], way'[s][d], connections'[p])
    BY <1>8, <2>3 DEF Hears
  <2> QED BY <1>1, <1>2, <2>1, <2>2, <2>3, <2>4, <2>5, <2>6, OneSocketMoves
<1>12. CASE /\ e \in listening /\ connections[e] = None
            /\ end' = EndBecomes(s, e, "open")
            /\ way' = Exchange(s, e, <<"reply">>)
            /\ Takes(e, s)
            /\ UNCHANGED astray
  <2>1. Replaces(s) /\ Ledgers' /\ connections'[d] = connections[d] /\ connections'[p] = s
    BY <1>2, <1>5, <1>12, IsTakenOn
  <2>2. /\ end' \in Ends /\ Beside(end', end, s)
        /\ end'[s][p] = "open" /\ end'[s][d] = "connecting"
    BY <1>2, <1>5, <1>12, AnEndBecomes DEF State
  <2>3. /\ way' \in Ways /\ Beside(way', way, s)
        /\ way'[s][p] = <<>> /\ way'[s][d] = <<"reply">>
    <3>1. /\ way' \in Ways /\ Beside(way', way, s)
          /\ way'[s][e] = Tail(way[s][e])
          /\ way'[s][Peer(e)] = IF end[s][Peer(e)] = "closed" THEN <<>>
                               ELSE way[s][Peer(e)] \o <<"reply">>
      BY <1>2, <1>3, <1>8, <1>12, Exchanged
    <3>2. way'[s][d] = <<>> \o <<"reply">>
      BY <1>5, <3>1
    <3> QED BY <1>5, <1>7, <3>1, <3>2 DEF Item
  <2>4. TypeOK'
    BY <1>2, <1>6, <2>1, <2>2, <2>3, TypesStay
  <2>5. Sound(s, end'[s][d], end'[s][p], way'[s][d], way'[s][p], connections'[d], connections'[p])
    BY <1>8, <1>9, <2>1, <2>2, <2>3 DEF Sound
  <2>6. Hears(s, end'[s][d], end'[s][p], way'[s][d], connections'[p])
    BY <2>1 DEF Hears
  <2> QED BY <1>1, <1>2, <2>1, <2>2, <2>3, <2>4, <2>5, <2>6, OneSocketMoves
<1> QED BY <1>10, <1>11, <1>12 DEF Upgrade

\* The dialer gets the reply.
LEMMA OpensKeepsIInv ==
    ASSUME IInv, NEW s \in Socket, NEW e \in Endpoint, Opens(s, e)
    PROVE  IInv'
<1>1. PICK d, p \in Endpoint : Between(s, d, p)
  BY SocketsAreBetween
<1>2. TypeOK /\ dialer' = dialer /\ listening' = listening /\ failures' = failures
  BY DEF IInv, Opens
<1>3. way[s][e] # <<>> /\ Head(way[s][e]) = "reply" /\ way[s][e] \in Seq(Item)
  BY <1>1 DEF Opens, Between
<1>4. Has(way[s][e], "reply")
  BY <1>3, ItemsThatFollow
<1>5. /\ e = d /\ Peer(e) = p
      /\ end[s][d] = "connecting" /\ end[s][p] # "none"
      /\ way[s][p] \in Seq(Item)
  BY <1>1, <1>4 DEF Between, Sound
<1>6. /\ Tail(way[s][d]) \in Seq(Item)
      /\ \A x : Has(Tail(way[s][d]), x) => Has(way[s][d], x)
      /\ OneReply(Tail(way[s][d])) /\ ~ Has(Tail(way[s][d]), "reply")
      /\ Fatal(way[s][d]) => Fatal(Tail(way[s][d]))
  BY <1>1, <1>3, <1>5, ItemsThatFollow DEF Between, Sound
<1>7. pending' \in Numbers /\ listening' \subseteq Endpoint /\ failures' \in Nat
  BY <1>2 DEF TypeOK, Opens, Numbers
<1>8. connections[d] # s /\ ~ Has(way[s][p], "upgrade") /\ ~ Has(way[s][p], "reply")
      /\ ~ Has(way[s][p], "duplicate") /\ ~ Has(way[s][d], "duplicate")
      /\ ~ Has(way[s][d], "upgrade")
  BY <1>1, <1>3, <1>5 DEF Between, Sound
<1>9. CASE /\ end' = EndBecomes(s, e, "closing")
           /\ way' = Exchange(s, e, <<"duplicate">>)
           /\ Keep(e)
  <2>1. Replaces(s) /\ Ledgers' /\ connections' = connections
    BY <1>2, <1>9, IsKept
  <2>2. /\ end' \in Ends /\ Beside(end', end, s)
        /\ end'[s][d] = "closing" /\ end'[s][p] = end[s][p]
    BY <1>2, <1>5, <1>9, AnEndBecomes DEF State
  <2>3. /\ way' \in Ways /\ Beside(way', way, s)
        /\ way'[s][d] = Tail(way[s][d])
        /\ way'[s][p] = IF end[s][p] = "closed" THEN <<>> ELSE way[s][p] \o <<"duplicate">>
    <3>1. <<"duplicate">> \in Seq(Item)
      BY ShortItems DEF Item
    <3> QED BY <1>2, <1>3, <1>5, <1>9, <3>1, Exchanged
  <2>4. TypeOK'
    BY <1>2, <1>7, <2>1, <2>2, <2>3, TypesStay
  <2>5. /\ ~ Has(way'[s][p], "upgrade") /\ ~ Has(way'[s][p], "reply")
        /\ Has(way'[s][p], "reset") => Has(way[s][p], "reset")
    BY <1>5, <1>8, <2>3, ItemsThatAreSent, ShortItems DEF Item
  <2>6. Sound(s, end'[s][d], end'[s][p], way'[s][d], way'[s][p], connections'[d], connections'[p])
    <3>1. Sound(s, end[s][d], end[s][p], way[s][d], way[s][p], connections[d], connections[p])
      BY <1>1 DEF Between
    <3>2. connections'[d] = connections[d] /\ connections'[p] = connections[p]
      BY <2>1
    <3>3. /\ end[s][p] \in {"open", "closed"}
          /\ end[s][p] = "closed" => way'[s][p] = <<>> /\ Fatal(way[s][d])
          /\ Has(way[s][p], "reset") => Fatal(way[s][d])
          /\ connections[d] # s
      BY <1>5, <1>8, <2>3, <3>1 DEF Sound
    <3>4. /\ ~ Has(way'[s][d], "upgrade") /\ ~ Has(way'[s][d], "reply")
          /\ OneReply(way'[s][d])
          /\ Fatal(way[s][d]) => Fatal(way'[s][d])
      BY <1>6, <1>8, <2>3
    <3> QED BY <1>5, <2>2, <2>5, <3>2, <3>3, <3>4 DEF Sound
  <2>7. Hears(s, end'[s][d], end'[s][p], way'[s][d], connections'[p])
    BY <2>2 DEF Hears
  <2> QED BY <1>1, <1>2, <2>1, <2>2, <2>3, <2>4, <2>6, <2>7, OneSocketMoves
<1>10. CASE /\ end' = EndBecomes(s, e, "open")
            /\ way' = Exchange(s, e, <<>>)
            /\ Takes(e, s)
            /\ UNCHANGED astray
  <2>1. Replaces(s) /\ Ledgers' /\ connections'[p] = connections[p] /\ connections'[d] = s
    <3>1. TypeOK /\ Takes(e, s) /\ astray' = astray /\ dialer' = dialer /\ e = dialer[s]
      BY <1>1, <1>2, <1>5, <1>10 DEF Between
    <3>2. /\ Replaces(s) /\ Ledgers'
          /\ connections'[Peer(e)] = connections[Peer(e)]
          /\ connections'[e] = s
      BY <3>1, IsTakenOn
    <3> QED BY <1>5, <3>2
  <2>2. /\ end' \in Ends /\ Beside(end', end, s)
        /\ end'[s][d] = "open" /\ end'[s][p] = end[s][p]
    BY <1>2, <1>5, <1>10, AnEndBecomes DEF State
  <2>3. /\ way' \in Ways /\ Beside(way', way, s)
        /\ way'[s][d] = Tail(way[s][d])
        /\ way'[s][p] = IF end[s][p] = "closed" THEN <<>> ELSE way[s][p]
    <3>1. <<>> \in Seq(Item)
      BY ShortItems
    <3>2. way[s][p] \o <<>> = way[s][p]
      BY <1>5, ConcatEmptySeq
    <3>3. /\ way' \in Ways /\ Beside(way', way, s)
          /\ way'[s][e] = Tail(way[s][e])
          /\ way'[s][Peer(e)] = IF end[s][Peer(e)] = "closed" THEN <<>>
                                ELSE way[s][Peer(e)] \o <<>>
      BY <1>2, <1>3, <1>10, <3>1, Exchanged
    <3> QED BY <1>5, <3>2, <3>3
  <2>4. TypeOK'
    BY <1>2, <1>7, <2>1, <2>2, <2>3, TypesStay
  <2>5. way'[s][p] = way[s][p]
    BY <1>1, <2>3 DEF Between, Sound
  <2>6. Sound(s, end'[s][d], end'[s][p], way'[s][d], way'[s][p], connections'[d], connections'[p])
    BY <1>1, <1>5, <1>6, <1>8, <2>1, <2>2, <2>3, <2>5 DEF Sound, Between
  <2>7. Hears(s, end[s][d], end[s][p], way[s][d], connections[p])
        => Hears(s, end'[s][d], end'[s][p], way'[s][d], connections'[p])
    BY <1>5, <1>6, <2>1, <2>2, <2>3 DEF Hears
  <2> QED BY <1>1, <1>2, <2>1, <2>2, <2>3, <2>4, <2>6, <2>7, OneSocketMoves
<1> QED BY <1>9, <1>10 DEF Opens

\* An end gets a close frame.
LEMMA CloseFrameKeepsIInv ==
    ASSUME IInv, NEW s \in Socket, NEW e \in Endpoint, CloseFrame(s, e)
    PROVE  IInv'
<1>1. PICK d, p \in Endpoint : Between(s, d, p)
  BY SocketsAreBetween
<1>2. /\ TypeOK /\ dialer' = dialer /\ pending' = pending /\ listening' = listening
      /\ failures' = failures
  BY DEF IInv, CloseFrame
<1>3. way[s][e] # <<>> /\ way[s][e] \in Seq(Item)
  BY <1>1 DEF CloseFrame, Between
<1>4. PICK x : x = Head(way[s][e])
  OBVIOUS
<1>5. x \in {"duplicate", "bye"} /\ x \in Item /\ <<x>> \in Seq(Item) /\ Has(way[s][e], x)
  BY <1>3, <1>4, ItemsThatFollow, ShortItems DEF CloseFrame, Item
<1>6. pending' \in Numbers /\ listening' \subseteq Endpoint /\ failures' \in Nat
  BY <1>2 DEF TypeOK
<1>7. /\ Replaces(s) /\ Ledgers'
      /\ connections'[Peer(e)] = connections[Peer(e)]
      /\ connections'[e] = IF x = "duplicate" THEN connections[e] ELSE None
  <2>1. OnClose(e, s, x)
    BY <1>4 DEF CloseFrame
  <2> QED BY <1>2, <2>1, IsClosed
<1>8. /\ end' \in Ends /\ Beside(end', end, s)
      /\ end'[s][e] = "closed" /\ end'[s][Peer(e)] = end[s][Peer(e)]
  BY <1>2, AnEndBecomes DEF State, CloseFrame
<1>9. /\ way' \in Ways /\ Beside(way', way, s)
      /\ way'[s][e] = <<>>
      /\ way'[s][Peer(e)] = IF end[s][Peer(e)] = "closed" THEN <<>> ELSE way[s][Peer(e)] \o <<x>>
  <2>1. PICK ways : ways = Exchange(s, e, <<x>>)
    OBVIOUS
  <2>2. /\ ways \in Ways /\ Beside(ways, way, s)
        /\ ways[s][Peer(e)] = IF end[s][Peer(e)] = "closed" THEN <<>> ELSE way[s][Peer(e)] \o <<x>>
    BY <1>2, <1>3, <1>5, <2>1, Exchanged
  <2>3. way' = [ways EXCEPT ![s][e] = <<>>]
    BY <1>4, <2>1 DEF CloseFrame
  <2>4. /\ way' \in Ways /\ Beside(way', ways, s)
        /\ way'[s][e] = <<>>
        /\ way'[s][Peer(e)] = ways[s][Peer(e)]
    BY <2>2, <2>3, Emptied
  <2> QED BY <2>2, <2>4 DEF Beside
<1>10. TypeOK'
  BY <1>2, <1>6, <1>7, <1>8, <1>9, TypesStay
<1>11. /\ \A y : ~ Has(<<>>, y)
       /\ OneReply(<<>>)
  BY ShortItems
<1>12. CASE e = d
  <2>1. Peer(e) = p /\ way[s][p] \in Seq(Item)
    BY <1>1, <1>12 DEF Between
  <2>2. /\ end'[s][d] = "closed" /\ end'[s][p] = end[s][p]
        /\ way'[s][d] = <<>>
        /\ way'[s][p] = IF end[s][p] = "closed" THEN <<>> ELSE way[s][p] \o <<x>>
        /\ connections'[d] = IF x = "duplicate" THEN connections[d] ELSE None
        /\ connections'[p] = connections[p]
    BY <1>7, <1>8, <1>9, <1>12, <2>1
  <2>3. connections'[d] # s
    BY <1>1, <1>5, <1>12, <2>2 DEF Between, Sound
  <2>4. ~ Has(way'[s][p], "upgrade") /\ ~ Has(way'[s][p], "reply")
    BY <1>1, <1>3, <1>5, <1>11, <1>12, <2>1, <2>2, ItemsThatAreSent DEF Between, Sound
  <2>5. Sound(s, end'[s][d], end'[s][p], way'[s][d], way'[s][p], connections'[d], connections'[p])
    BY <1>1, <1>11, <2>2, <2>3, <2>4 DEF Sound, Between
  <2>6. Hears(s, end'[s][d], end'[s][p], way'[s][d], connections'[p])
    BY <2>2 DEF Hears
  <2> QED BY <1>1, <1>2, <1>7, <1>8, <1>9, <1>10, <2>5, <2>6, OneSocketMoves
<1>13. CASE e = p
  <2>1. Peer(e) = d /\ way[s][d] \in Seq(Item)
    BY <1>1, <1>13 DEF Between
  <2>2. /\ end'[s][p] = "closed" /\ end'[s][d] = end[s][d]
        /\ way'[s][p] = <<>>
        /\ way'[s][d] = IF end[s][d] = "closed" THEN <<>> ELSE way[s][d] \o <<x>>
        /\ connections'[p] = IF x = "duplicate" THEN connections[p] ELSE None
        /\ connections'[d] = connections[d]
    BY <1>7, <1>8, <1>9, <1>13, <2>1
  <2>3. end[s][d] # "closed" =>
           /\ Fatal(way'[s][d]) /\ OneReply(way'[s][d])
           /\ \A y : Has(way'[s][d], y) <=> Has(way[s][d], y) \/ y = x
    <3>1. OneReply(way[s][d])
      BY <1>1 DEF Between, Sound
    <3> QED BY <1>5, <2>1, <2>2, <3>1, ItemsThatAreSent
  <2>4. /\ x = "duplicate" => end[s][d] # "connecting" /\ connections[d] # s
        /\ ~ Has(way[s][p], "upgrade") \/ (Len(way[s][p]) = 1 /\ end[s][p] = "none")
    BY <1>1, <1>5, <1>13 DEF Between, Sound
  <2>5. Sound(s, end'[s][d], end'[s][p], way'[s][d], way'[s][p], connections'[d], connections'[p])
    BY <1>1, <1>5, <1>11, <2>2, <2>3, <2>4 DEF Sound, Between
  <2>6. Hears(s, end'[s][d], end'[s][p], way'[s][d], connections'[p])
    BY <2>2, <2>3 DEF Hears
  <2> QED BY <1>1, <1>2, <1>7, <1>8, <1>9, <1>10, <2>5, <2>6, OneSocketMoves
<1> QED BY <1>1, <1>12, <1>13 DEF Between

\* An end gets a reset.
LEMMA ResetKeepsIInv ==
    ASSUME IInv, NEW s \in Socket, NEW e \in Endpoint, Reset(s, e)
    PROVE  IInv'
<1>1. PICK d, p \in Endpoint : Between(s, d, p)
  BY SocketsAreBetween
<1>2. TypeOK /\ dialer' = dialer /\ listening' = listening /\ failures' = failures
  BY DEF IInv, Reset
<1>3. way[s][e] # <<>> /\ Head(way[s][e]) = "reset" /\ way[s][e] \in Seq(Item)
  BY <1>1 DEF Reset, Between
<1>4. Has(way[s][e], "reset")
  BY <1>3, ItemsThatFollow
<1>5. pending' \in Numbers /\ listening' \subseteq Endpoint /\ failures' \in Nat
  BY <1>2 DEF TypeOK, Reset, Numbers
<1>6. /\ Replaces(s) /\ Ledgers'
      /\ connections'[Peer(e)] = connections[Peer(e)]
      /\ connections'[e] = IF end[s][e] \in {"connecting", "none"} THEN connections[e] ELSE None
  <2>1. CASE end[s][e] \in {"connecting", "none"}
    <3>1. Keep(e)
      BY <2>1 DEF Reset
    <3> QED BY <1>2, <2>1, <3>1, IsKept
  <2>2. CASE end[s][e] \notin {"connecting", "none"}
    <3>1. OnClose(e, s, "")
      BY <2>2 DEF Reset
    <3>2. /\ Replaces(s) /\ Ledgers'
          /\ connections'[Peer(e)] = connections[Peer(e)]
          /\ connections'[e] = IF "" = "duplicate" THEN connections[e] ELSE None
      BY <1>2, <3>1, IsClosed
    <3> QED BY <2>2, <3>2
  <2> QED BY <2>1, <2>2
<1>7. /\ end' \in Ends /\ Beside(end', end, s)
      /\ end'[s][e] = "closed" /\ end'[s][Peer(e)] = end[s][Peer(e)]
  BY <1>2, AnEndBecomes DEF State, Reset
<1>8. /\ way' \in Ways /\ Beside(way', way, s)
      /\ way'[s][e] = <<>>
      /\ way'[s][Peer(e)] = way[s][Peer(e)]
  <2>1. way \in Ways /\ way' = [way EXCEPT ![s][e] = <<>>]
    BY <1>2 DEF TypeOK, Reset
  <2> QED BY <2>1, Emptied
<1>9. TypeOK'
  BY <1>2, <1>5, <1>6, <1>7, <1>8, TypesStay
<1>10. /\ \A y : ~ Has(<<>>, y)
       /\ OneReply(<<>>)
  BY ShortItems
<1>11. CASE e = d
  <2>1. Peer(e) = p
    BY <1>1, <1>11 DEF Between
  <2>2. /\ end'[s][d] = "closed" /\ end'[s][p] = end[s][p]
        /\ way'[s][d] = <<>> /\ way'[s][p] = way[s][p]
        /\ connections'[d] = IF end[s][d] \in {"connecting", "none"} THEN connections[d] ELSE None
        /\ connections'[p] = connections[p]
    BY <1>6, <1>7, <1>8, <1>11, <2>1
  <2>3. connections'[d] # s /\ ~ Has(way[s][p], "upgrade")
    BY <1>1, <1>3, <1>11, <2>2 DEF Between, Sound
  <2>4. Sound(s, end'[s][d], end'[s][p], way'[s][d], way'[s][p], connections'[d], connections'[p])
    BY <1>1, <1>10, <2>2, <2>3 DEF Sound, Between
  <2>5. Hears(s, end'[s][d], end'[s][p], way'[s][d], connections'[p])
    BY <2>2 DEF Hears
  <2> QED BY <1>1, <1>2, <1>6, <1>7, <1>8, <1>9, <2>4, <2>5, OneSocketMoves
<1>12. CASE e = p
  <2>1. Peer(e) = d
    BY <1>1, <1>12 DEF Between
  <2>2. /\ end'[s][p] = "closed" /\ end'[s][d] = end[s][d]
        /\ way'[s][p] = <<>> /\ way'[s][d] = way[s][d]
        /\ connections'[d] = connections[d]
    BY <1>6, <1>7, <1>8, <1>12, <2>1
  <2>3. end[s][d] = "closed" \/ Fatal(way[s][d])
    BY <1>1, <1>4, <1>12 DEF Between, Sound
  <2>4. Sound(s, end'[s][d], end'[s][p], way'[s][d], way'[s][p], connections'[d], connections'[p])
    BY <1>1, <1>10, <2>2, <2>3 DEF Sound, Between
  <2>5. Hears(s, end'[s][d], end'[s][p], way'[s][d], connections'[p])
    BY <2>2, <2>3 DEF Hears
  <2> QED BY <1>1, <1>2, <1>6, <1>7, <1>8, <1>9, <2>4, <2>5, OneSocketMoves
<1> QED BY <1>1, <1>11, <1>12 DEF Between

\* A step that leaves the sockets as they are
LEMMA NothingMoves ==
    ASSUME IInv, UNCHANGED <<dialer, end, way, connections, astray>>,
           pending' \in Numbers, unanswered' \in [Endpoint -> BOOLEAN],
           late' \in Lates, listening' \subseteq Endpoint, failures' \in Nat
    PROVE  IInv'
<1>1. TypeOK'
  BY DEF IInv, TypeOK, Ends, Ways, Numbers, Lates, Socket
<1>2. SocketsOK'
  BY DEF IInv, SocketsOK, SocketOK, SocketHeard, Socket
<1> QED BY <1>1, <1>2 DEF IInv

\* An endpoint closes its socket.
LEMMA CloseWsKeepsIInv ==
    ASSUME IInv, NEW e \in Endpoint, CloseWs(e, connections[e]),
           UNCHANGED <<dialer, pending>>, listening' \subseteq Endpoint, failures' \in Nat
    PROVE  IInv'
<1>1. PICK s : s = connections[e]
  OBVIOUS
<1>2. TypeOK /\ dialer' = dialer /\ pending' \in Numbers /\ s \in {None} \cup Socket
  BY <1>1 DEF IInv, TypeOK, Numbers
<1>3. <<"bye">> \in Seq(Item) /\ "bye" \in Item /\ (\A x : ~ Has(<<>>, x)) /\ OneReply(<<>>)
  BY ShortItems DEF Item
<1>4. CASE /\ s # None /\ IsServer(s, e) /\ end[s][e] # "closed"
           /\ end' = EndBecomes(s, e, "closed")
           /\ way' = [Sends(s, e, <<"bye">>) EXCEPT ![s][e] = <<>>]
           /\ OnClose(e, s, "bye")
  <2>1. s \in Socket
    BY <1>2, <1>4
  <2>2. PICK d, p \in Endpoint : Between(s, d, p)
    BY <2>1, SocketsAreBetween
  <2>3. e = p /\ Peer(e) = d /\ way[s][d] \in Seq(Item)
    BY <1>4, <2>2 DEF Between, IsServer
  <2>4. /\ Replaces(s) /\ Ledgers'
        /\ connections'[d] = connections[d] /\ connections'[p] = None
    <3>1. /\ Replaces(s) /\ Ledgers'
          /\ connections'[Peer(e)] = connections[Peer(e)]
          /\ connections'[e] = IF "bye" = "duplicate" THEN connections[e] ELSE None
      BY <1>2, <1>4, <2>1, IsClosed
    <3> QED BY <2>3, <3>1
  <2>5. /\ end' \in Ends /\ Beside(end', end, s)
        /\ end'[s][p] = "closed" /\ end'[s][d] = end[s][d]
    BY <1>2, <1>4, <2>1, <2>3, AnEndBecomes DEF State
  <2>6. /\ way' \in Ways /\ Beside(way', way, s)
        /\ way'[s][p] = <<>>
        /\ way'[s][d] = IF end[s][d] = "closed" THEN <<>> ELSE way[s][d] \o <<"bye">>
    <3>1. PICK ways : ways = Sends(s, e, <<"bye">>)
      OBVIOUS
    <3>2. /\ ways \in Ways /\ Beside(ways, way, s)
          /\ ways[s][Peer(e)] = IF end[s][Peer(e)] = "closed" THEN <<>>
                                ELSE way[s][Peer(e)] \o <<"bye">>
      BY <1>2, <1>3, <2>1, <3>1, Sent
    <3>3. way' = [ways EXCEPT ![s][e] = <<>>]
      BY <1>4, <3>1
    <3>4. /\ way' \in Ways /\ Beside(way', ways, s)
          /\ way'[s][e] = <<>>
          /\ way'[s][Peer(e)] = ways[s][Peer(e)]
      BY <2>1, <3>2, <3>3, Emptied
    <3> QED BY <2>3, <3>2, <3>4 DEF Beside
  <2>7. TypeOK'
    BY <1>2, <2>4, <2>5, <2>6, TypesStay
  <2>8. end[s][d] # "closed" =>
           /\ Fatal(way'[s][d]) /\ OneReply(way'[s][d])
           /\ \A y : Has(way'[s][d], y) <=> Has(way[s][d], y) \/ y = "bye"
    <3>1. OneReply(way[s][d])
      BY <2>2 DEF Between, Sound
    <3> QED BY <1>3, <2>3, <2>6, <3>1, ItemsThatAreSent
  <2>9. end[s][p] # "none"
    BY <1>1, <2>2, <2>3 DEF Between, Sound
  <2>10. Sound(s, end'[s][d], end'[s][p], way'[s][d], way'[s][p], connections'[d], connections'[p])
    BY <1>3, <2>2, <2>4, <2>5, <2>6, <2>8, <2>9 DEF Sound, Between
  <2>11. Hears(s, end'[s][d], end'[s][p], way'[s][d], connections'[p])
    BY <2>5, <2>8 DEF Hears
  <2> QED BY <1>2, <2>1, <2>2, <2>4, <2>5, <2>6, <2>7, <2>10, <2>11, OneSocketMoves
<1>5. CASE /\ s # None /\ ~ IsServer(s, e) /\ end[s][e] = "open"
           /\ end' = EndBecomes(s, e, "closing")
           /\ way' = Sends(s, e, <<"bye">>)
           /\ Keep(e)
  <2>1. s \in Socket
    BY <1>2, <1>5
  <2>2. PICK d, p \in Endpoint : Between(s, d, p)
    BY <2>1, SocketsAreBetween
  <2>3. e = d /\ Peer(e) = p /\ way[s][p] \in Seq(Item)
    BY <1>5, <2>2 DEF Between, IsServer
  <2>4. Replaces(s) /\ Ledgers' /\ connections' = connections
    BY <1>2, <1>5, <2>1, IsKept
  <2>5. /\ end' \in Ends /\ Beside(end', end, s)
        /\ end'[s][d] = "closing" /\ end'[s][p] = end[s][p] /\ end[s][d] = "open"
    BY <1>2, <1>5, <2>1, <2>3, AnEndBecomes DEF State
  <2>6. /\ way' \in Ways /\ Beside(way', way, s)
        /\ way'[s][d] = way[s][d]
        /\ way'[s][p] = IF end[s][p] = "closed" THEN <<>> ELSE way[s][p] \o <<"bye">>
    BY <1>2, <1>3, <1>5, <2>1, <2>3, Sent
  <2>7. TypeOK'
    BY <1>2, <2>4, <2>5, <2>6, TypesStay
  <2>8. \A y : Has(way'[s][p], y) => Has(way[s][p], y) \/ y = "bye"
    BY <1>3, <2>3, <2>6, ItemsThatAreSent
  <2>9. ~ Has(way[s][p], "upgrade")
    BY <2>2, <2>5 DEF Between, Sound
  <2>10. Sound(s, end'[s][d], end'[s][p], way'[s][d], way'[s][p], connections'[d], connections'[p])
    BY <2>2, <2>4, <2>5, <2>6, <2>8, <2>9 DEF Sound, Between
  <2>11. Hears(s, end'[s][d], end'[s][p], way'[s][d], connections'[p])
    BY <2>5 DEF Hears
  <2> QED BY <1>2, <2>1, <2>2, <2>4, <2>5, <2>6, <2>7, <2>10, <2>11, OneSocketMoves
<1>6. CASE UNCHANGED <<end, way>> /\ Keep(e)
  BY <1>2, <1>6, NothingMoves DEF Keep, TypeOK
<1> QED BY <1>1, <1>4, <1>5, <1>6 DEF CloseWs

\* The connection below a socket fails.
LEMMA FailsKeepsIInv ==
    ASSUME IInv, NEW s \in Socket, Fails(s)
    PROVE  IInv'
<1>1. PICK d, p \in Endpoint : Between(s, d, p)
  BY SocketsAreBetween
<1>2. /\ TypeOK /\ dialer' = dialer /\ end' = end /\ connections' = connections
      /\ astray' = astray /\ unanswered' = unanswered /\ late' = late
      /\ pending' \in Numbers /\ listening' \subseteq Endpoint /\ failures' \in Nat
  BY DEF IInv, Fails, Event, TypeOK, Numbers
<1>3. /\ way' \in Ways /\ Beside(way', way, s)
      /\ way'[s][d] = IF end[s][d] = "closed" THEN <<>> ELSE <<"reset">>
      /\ way'[s][p] = IF end[s][p] = "closed" THEN <<>> ELSE <<"reset">>
  <2>1. way' = Resets(s, {})
    BY DEF Fails
  <2> QED BY <1>1, <1>2, <2>1, WasReset
<1>4. Replaces(s) /\ Ledgers' /\ end' \in Ends /\ Beside(end', end, s)
  BY <1>2 DEF Replaces, Ledgers, TypeOK, Ends, Numbers, Lates, Socket, Beside
<1>5. TypeOK'
  BY <1>2, <1>3, <1>4, TypesStay
<1>6. /\ \A y : ~ Has(<<>>, y)
      /\ \A y : Has(<<"reset">>, y) <=> y = "reset"
      /\ OneReply(<<>>) /\ OneReply(<<"reset">>) /\ Fatal(<<"reset">>)
  BY ShortItems
<1>7. Sound(s, end'[s][d], end'[s][p], way'[s][d], way'[s][p], connections'[d], connections'[p])
  BY <1>1, <1>2, <1>3, <1>6 DEF Sound, Between
<1>8. Hears(s, end'[s][d], end'[s][p], way'[s][d], connections'[p])
  BY <1>2, <1>3, <1>6 DEF Hears
<1> QED BY <1>1, <1>2, <1>3, <1>4, <1>5, <1>7, <1>8, OneSocketMoves

\* An endpoint gives its peer up.
LEMMA PingFailsKeepsIInv ==
    ASSUME IInv, NEW e \in Endpoint, PingFails(e)
    PROVE  IInv'
<1>1. PICK s : s = connections[e]
  OBVIOUS
<1>2. /\ TypeOK /\ dialer' = dialer /\ s \in Socket
      /\ pending' \in Numbers /\ listening' \subseteq Endpoint /\ failures' \in Nat
  <2>1. /\ TypeOK /\ dialer' = dialer /\ s # None
        /\ pending' = pending /\ listening' = listening
    BY <1>1 DEF IInv, PingFails
  <2>2. failures' = failures \/ failures' = failures + 1
    BY DEF PingFails, Event
  <2> QED BY <1>1, <2>1, <2>2 DEF TypeOK, Numbers
<1>3. PICK d, p \in Endpoint : Between(s, d, p)
  BY <1>2, SocketsAreBetween
<1>4. /\ Replaces(s) /\ Ledgers'
      /\ connections'[Peer(e)] = connections[Peer(e)] /\ connections'[e] = None
  <2>1. OnClose(e, s, "")
    BY <1>1 DEF PingFails
  <2>2. /\ Replaces(s) /\ Ledgers'
        /\ connections'[Peer(e)] = connections[Peer(e)]
        /\ connections'[e] = IF "" = "duplicate" THEN connections[e] ELSE None
    BY <1>2, <2>1, IsClosed
  <2> QED BY <2>2
<1>5. /\ \A y : ~ Has(<<>>, y)
      /\ \A y : Has(<<"reset">>, y) <=> y = "reset"
      /\ OneReply(<<>>) /\ OneReply(<<"reset">>) /\ Fatal(<<"reset">>)
  BY ShortItems
<1>6. CASE e = p
  <2>1. IsServer(s, e) /\ Peer(e) = d
    BY <1>3, <1>6 DEF IsServer, Between
  <2>2. /\ end' \in Ends /\ Beside(end', end, s)
        /\ end'[s][p] = "closed" /\ end'[s][d] = end[s][d]
    <3>1. end' = EndBecomes(s, e, "closed")
      BY <1>1, <2>1 DEF PingFails
    <3> QED BY <1>2, <1>6, <2>1, <3>1, AnEndBecomes DEF State
  <2>3. /\ way' \in Ways /\ Beside(way', way, s)
        /\ way'[s][p] = <<>>
        /\ end[s][p] = "closed" => way'[s][d] = way[s][d]
        /\ end[s][p] # "closed" =>
              way'[s][d] = IF end[s][d] = "closed" THEN <<>> ELSE <<"reset">>
    <3>1. CASE end[s][p] = "closed"
      <4>1. way' = way
        BY <1>1, <1>6, <3>1 DEF PingFails
      <4>2. way[s][p] = <<>>
        BY <1>3, <3>1 DEF Between, Sound
      <4> QED BY <1>2, <3>1, <4>1, <4>2 DEF TypeOK, Beside
    <3>2. CASE end[s][p] # "closed"
      <4>1. way' = Resets(s, {e})
        BY <1>1, <1>6, <2>1, <3>2 DEF PingFails
      <4> QED BY <1>2, <1>3, <1>6, <3>2, <4>1, WasReset DEF Between
    <3> QED BY <3>1, <3>2
  <2>4. TypeOK'
    BY <1>2, <1>4, <2>2, <2>3, TypesStay
  <2>5. end[s][d] = "closed" \/ Fatal(way'[s][d])
    BY <1>3, <1>5, <2>3 DEF Between, Sound
  <2>6. connections'[d] = connections[d] /\ connections'[p] = None /\ end[s][p] # "none"
    BY <1>1, <1>3, <1>4, <1>6, <2>1 DEF Between, Sound
  <2>7. Sound(s, end'[s][d], end'[s][p], way'[s][d], way'[s][p], connections'[d], connections'[p])
    BY <1>3, <1>5, <2>2, <2>3, <2>5, <2>6 DEF Sound, Between
  <2>8. Hears(s, end'[s][d], end'[s][p], way'[s][d], connections'[p])
    BY <2>2, <2>5 DEF Hears
  <2> QED BY <1>2, <1>3, <1>4, <2>2, <2>3, <2>4, <2>7, <2>8, OneSocketMoves
<1>7. CASE e = d
  <2>1. ~ IsServer(s, e) /\ Peer(e) = p
    BY <1>3, <1>7 DEF IsServer, Between
  <2>2. end[s][d] \in {"open", "closing"}
    BY <1>1, <1>3, <1>7 DEF Between, Sound
  <2>3. end' = end /\ end' \in Ends /\ Beside(end', end, s)
    BY <1>1, <1>2, <2>1 DEF PingFails, TypeOK, Beside
  <2>4. /\ way' \in Ways /\ Beside(way', way, s)
        /\ way'[s][d] = <<"reset">>
        /\ way'[s][p] = IF end[s][p] = "closed" THEN <<>> ELSE <<"reset">>
    <3>1. way' = Resets(s, {})
      BY <1>1, <1>7, <2>1, <2>2 DEF PingFails
    <3> QED BY <1>2, <1>3, <2>2, <3>1, WasReset
  <2>5. TypeOK'
    BY <1>2, <1>4, <2>3, <2>4, TypesStay
  <2>6. connections'[p] = connections[p] /\ connections'[d] = None
    BY <1>4, <1>7, <2>1
  <2>7. Sound(s, end'[s][d], end'[s][p], way'[s][d], way'[s][p], connections'[d], connections'[p])
    BY <1>3, <1>5, <2>2, <2>3, <2>4, <2>6 DEF Sound, Between
  <2>8. Hears(s, end'[s][d], end'[s][p], way'[s][d], connections'[p])
    BY <1>5, <2>4 DEF Hears
  <2> QED BY <1>2, <1>3, <1>4, <2>3, <2>4, <2>5, <2>7, <2>8, OneSocketMoves
<1> QED BY <1>3, <1>6, <1>7 DEF Between

\* A function from 1 .. n is a sequence of n elements.
LEMMA FunctionsAreSequences ==
    ASSUME NEW S, NEW n \in Nat, NEW f \in [1 .. n -> S], NEW x \in S
    PROVE  /\ Append(f, x) \in [1 .. n + 1 -> S]
           /\ \A i \in 1 .. n : Append(f, x)[i] = f[i]
           /\ Append(f, x)[n + 1] = x
<1>1. f \in Seq(S) /\ Len(f) = n
  OBVIOUS
<1>2. PICK g : g = Append(f, x)
  OBVIOUS
<1>3. /\ g \in Seq(S) /\ Len(g) = n + 1
      /\ \A i \in 1 .. n : g[i] = f[i]
      /\ g[n + 1] = x
  BY <1>1, <1>2, AppendProperties
<1>4. g \in [1 .. n + 1 -> S]
  BY <1>3, LenProperties
<1> QED BY <1>2, <1>3, <1>4

\* The state after Connect
LEMMA OneMoreSocket ==
    ASSUME TypeOK, NEW e \in Endpoint, Connect(e)
    PROVE  /\ Socket' = Socket \cup {Len(dialer) + 1} /\ Len(dialer) + 1 \notin Socket
           /\ Len(dialer) + 1 # None
           /\ \A t \in Socket : dialer'[t] = dialer[t] /\ end'[t] = end[t] /\ way'[t] = way[t]
           /\ dialer'[Len(dialer) + 1] = e
           /\ end'[Len(dialer) + 1]
                = [x \in Endpoint |-> IF x = e THEN "connecting" ELSE "none"]
           /\ way'[Len(dialer) + 1]
                = [x \in Endpoint |-> IF x = e THEN <<>> ELSE <<"upgrade">>]
           /\ pending' = [pending EXCEPT ![e] = Len(dialer) + 1]
           /\ UNCHANGED <<connections, unanswered, late, listening, failures, astray>>
           /\ TypeOK'
<1>1. PICK n : n = Len(dialer)
  OBVIOUS
<1>2. Socket = 1 .. n /\ n \in Nat
  BY <1>1, SocketsAreNumbers
<1>3. /\ dialer' \in Seq(Endpoint) /\ Len(dialer') = n + 1
      /\ \A t \in 1 .. n : dialer'[t] = dialer[t]
      /\ dialer'[n + 1] = e
  BY <1>1, AppendProperties DEF TypeOK, Connect
<1>4. Socket' = 1 .. n + 1
  BY <1>3, LenProperties DEF Socket
<1>5. PICK ends : ends = [x \in Endpoint |-> IF x = e THEN "connecting" ELSE "none"]
  OBVIOUS
<1>6. ends \in [Endpoint -> State]
  BY <1>5 DEF State
<1>7. end \in [1 .. n -> [Endpoint -> State]] /\ end' = Append(end, ends)
  BY <1>2, <1>5 DEF TypeOK, Ends, Connect
<1>8. /\ end' \in [1 .. n + 1 -> [Endpoint -> State]]
      /\ \A t \in 1 .. n : end'[t] = end[t]
      /\ end'[n + 1] = ends
  <2>1. PICK S : S = [Endpoint -> State]
    OBVIOUS
  <2>2. end \in [1 .. n -> S] /\ ends \in S
    BY <1>6, <1>7, <2>1
  <2>3. Append(end, ends) \in [1 .. n + 1 -> S]
    BY <1>2, <2>2, FunctionsAreSequences
  <2>5. Append(end, ends)[n + 1] = ends
    BY <1>2, <2>2, FunctionsAreSequences
  <2>4. \A t \in 1 .. n : Append(end, ends)[t] = end[t]
    BY <1>2, <2>2, FunctionsAreSequences
  <2> QED BY <1>7, <2>1, <2>3, <2>4, <2>5, <2>5
<1>9. PICK ways : ways = [x \in Endpoint |-> IF x = e THEN <<>> ELSE <<"upgrade">>]
  OBVIOUS
<1>10. ways \in [Endpoint -> Seq(Item)]
  <2>1. <<>> \in Seq(Item) /\ <<"upgrade">> \in Seq(Item)
    BY ShortItems DEF Item
  <2> QED BY <1>9, <2>1
<1>11. way \in [1 .. n -> [Endpoint -> Seq(Item)]] /\ way' = Append(way, ways)
  BY <1>2, <1>9 DEF TypeOK, Ways, Connect
<1>12. /\ way' \in [1 .. n + 1 -> [Endpoint -> Seq(Item)]]
       /\ \A t \in 1 .. n : way'[t] = way[t]
       /\ way'[n + 1] = ways
  <2>1. PICK S : S = [Endpoint -> Seq(Item)]
    OBVIOUS
  <2>2. way \in [1 .. n -> S] /\ ways \in S
    BY <1>10, <1>11, <2>1
  <2>3. Append(way, ways) \in [1 .. n + 1 -> S]
    BY <1>2, <2>2, FunctionsAreSequences
  <2>5. Append(way, ways)[n + 1] = ways
    BY <1>2, <2>2, FunctionsAreSequences
  <2>4. \A t \in 1 .. n : Append(way, ways)[t] = way[t]
    BY <1>2, <2>2, FunctionsAreSequences
  <2> QED BY <1>11, <2>1, <2>3, <2>4, <2>5, <2>5
<1>13. /\ pending' = [pending EXCEPT ![e] = n + 1]
       /\ UNCHANGED <<connections, unanswered, late, listening, failures, astray>>
  BY <1>3 DEF Connect
<1>14. 1 .. n + 1 = (1 .. n) \cup {n + 1} /\ n + 1 \notin 1 .. n /\ n + 1 # None
  BY <1>2 DEF None
<1>15. TypeOK'
  <2>1. Socket \subseteq Socket'
    BY <1>2, <1>4, <1>14
  <2>2. late' \in Lates'
    BY <1>13, <2>1 DEF TypeOK, Lates
  <2> QED BY <1>2, <1>3, <1>4, <1>8, <1>12, <1>13, <1>14, <2>2 DEF TypeOK, Ends, Ways, Numbers
<1> QED BY <1>1, <1>2, <1>3, <1>4, <1>5, <1>8, <1>9, <1>12, <1>13, <1>14, <1>15

\* An endpoint dials.
LEMMA ConnectKeepsIInv ==
    ASSUME IInv, NEW e \in Endpoint, Connect(e)
    PROVE  IInv'
<1>1. PICK s : s = Len(dialer) + 1
  OBVIOUS
<1>2. /\ Socket' = Socket \cup {s} /\ s \notin Socket
      /\ s # None
      /\ \A t \in Socket : dialer'[t] = dialer[t] /\ end'[t] = end[t] /\ way'[t] = way[t]
      /\ dialer'[s] = e
      /\ end'[s] = [x \in Endpoint |-> IF x = e THEN "connecting" ELSE "none"]
      /\ way'[s] = [x \in Endpoint |-> IF x = e THEN <<>> ELSE <<"upgrade">>]
      /\ connections' = connections /\ astray' = astray
      /\ TypeOK'
  BY <1>1, OneMoreSocket DEF IInv
<1>3. ASSUME NEW t \in Socket PROVE SocketOK(t)' /\ SocketHeard(t)'
  <2>1. SocketOK(t) /\ SocketHeard(t)
    BY DEF IInv, SocketsOK
  <2>2. SocketOK(t)'
    BY <1>2, <2>1 DEF SocketOK
  <2>3. SocketHeard(t)'
    BY <1>2, <2>1 DEF SocketHeard
  <2> QED BY <2>2, <2>3
<1>4. SocketOK(s)' /\ SocketHeard(s)'
  <2>1. PICK p : p = Peer(e)
    OBVIOUS
  <2>2. p \in Endpoint /\ p # e
    BY <2>1, TwoEndpoints
  <2>3. /\ end'[s][e] = "connecting" /\ end'[s][p] = "none"
        /\ way'[s][e] = <<>> /\ way'[s][p] = <<"upgrade">>
    BY <1>2, <2>2
  <2>4. connections'[e] # s /\ connections'[p] # s
    BY <1>2, <2>2 DEF IInv, TypeOK, Numbers
  <2>5. /\ \A y : ~ Has(<<>>, y)
        /\ \A y : Has(<<"upgrade">>, y) <=> y = "upgrade"
        /\ OneReply(<<>>) /\ Len(<<"upgrade">>) = 1
    BY ShortItems
  <2>6. Sound(s, end'[s][e], end'[s][p], way'[s][e], way'[s][p], connections'[e], connections'[p])
    BY <2>3, <2>4, <2>5 DEF Sound
  <2>7. Hears(s, end'[s][e], end'[s][p], way'[s][e], connections'[p])
    BY <2>3 DEF Hears
  <2> QED BY <1>2, <2>1, <2>6, <2>7 DEF SocketOK, SocketHeard
<1> QED BY <1>2, <1>3, <1>4 DEF IInv, SocketsOK

\* An endpoint pings its peer.
LEMMA PingKeepsIInv ==
    ASSUME IInv, NEW e \in Endpoint, Ping(e)
    PROVE  IInv'
<1>1. /\ UNCHANGED <<dialer, end, way, connections, pending, late, listening, failures, astray>>
      /\ unanswered' \in [Endpoint -> BOOLEAN]
  BY DEF Ping, IInv, TypeOK
<1> QED BY <1>1, NothingMoves DEF IInv, TypeOK, Numbers

\* An endpoint hears from its peer.
LEMMA PongKeepsIInv ==
    ASSUME IInv, NEW e \in Endpoint, NEW s \in Socket, Pong(s, e)
    PROVE  IInv'
<1>1. /\ UNCHANGED <<dialer, end, way, connections, pending, listening, failures, astray>>
      /\ unanswered' \in [Endpoint -> BOOLEAN]
      /\ late' = [late EXCEPT ![e] = @ \ {s}]
  BY DEF Pong, IInv, TypeOK
<1>2. late' \in Lates
  BY <1>1 DEF IInv, TypeOK, Lates
<1> QED BY <1>1, <1>2, NothingMoves DEF IInv, TypeOK, Numbers

\* There are no sockets.
LEMMA InitEstablishesIInv == Init => IInv
<1> SUFFICES ASSUME Init PROVE IInv
  OBVIOUS
<1>1. Socket = {}
  BY DEF Init, Socket
<1>2. end \in Ends /\ way \in Ways
  BY <1>1 DEF Init, Ends, Ways
<1>3. TypeOK
  BY <1>1, <1>2, EmptySeq DEF Init, TypeOK, Numbers, Lates
<1> QED BY <1>1, <1>3 DEF IInv, SocketsOK

\* Every step keeps the inductive invariant.
LEMMA NextKeepsIInv == IInv /\ [Next]_vars => IInv'
<1> SUFFICES ASSUME IInv, [Next]_vars PROVE IInv'
  OBVIOUS
<1>1. CASE UNCHANGED vars
  BY <1>1, NothingMoves DEF vars, IInv, TypeOK
<1>2. ASSUME NEW e \in Endpoint, Close(e) PROVE IInv'
  BY <1>2, CloseWsKeepsIInv DEF Close, Event, IInv, TypeOK
<1>3. ASSUME NEW e \in Endpoint, Stop(e) PROVE IInv'
  BY <1>3, CloseWsKeepsIInv DEF Stop, Event, IInv, TypeOK
<1>4. ASSUME NEW e \in Endpoint, NEW s \in Socket, Arrives(s, e) PROVE IInv'
  BY <1>4, UpgradeKeepsIInv, OpensKeepsIInv, CloseFrameKeepsIInv DEF Arrives
<1> QED BY <1>1, <1>2, <1>3, <1>4, ConnectKeepsIInv, ResetKeepsIInv, FailsKeepsIInv,
           PingFailsKeepsIInv, PingKeepsIInv, PongKeepsIInv DEF Next

\* The inductive invariant: the states the two ends of a socket may be in, with
\* what is on its way, and that an acceptor uses the socket its dialer uses.
THEOREM SocketInvariant == Spec => []IInv
<1> QED BY InitEstablishesIInv, NextKeepsIInv, PTL DEF Spec

\* The types of the variables, however many sockets there are.
THEOREM TypeCorrect == Spec => []TypeOK
<1>1. IInv => TypeOK
  BY DEF IInv
<1> QED BY <1>1, SocketInvariant, PTL

\* A client that has a connection is heard, however many sockets it opened
\* before, and in whatever order the two sides learned of their ends.
THEOREM AlwaysHeard == Spec => []ClientIsHeard
<1>1. IInv => ClientIsHeard
  <2>1. SUFFICES ASSUME IInv, Settled, ~ astray, NEW s \in Socket,
                        connections[dialer[s]] = s, end[s][dialer[s]] # "closing",
                        \A t \in Socket : dialer[t] = dialer[s]
                 PROVE  connections[Peer(dialer[s])] = s
    BY DEF ClientIsHeard
  <2>2. PICK d, p \in Endpoint : Between(s, d, p)
    BY <2>1, SocketsAreBetween
  <2>3. way[s][d] = <<>> /\ ~ Fatal(way[s][d])
    BY <2>1, ShortItems DEF Settled
  <2>4. Hears(s, end[s][d], end[s][p], way[s][d], connections[p])
    BY <2>1, <2>2 DEF IInv, SocketsOK, SocketHeard, Between
  <2>5. end[s][d] = "open" /\ end[s][p] # "none"
    BY <2>1, <2>2 DEF Between, Sound
  <2> QED BY <2>2, <2>3, <2>4, <2>5 DEF Between, Hears
<1> QED BY <1>1, SocketInvariant, PTL

-----------------------------------------------------------------------------
(***************************************************************************)
(* The tiebreaker, of what is dialed and accepted without a failure        *)
(***************************************************************************)
Phase == {"dialed", "accepted", "opened", "dropped", "answered", "over"}

\* The phase of a socket whose dialer is in state c and acceptor in state v
PhaseOf(c, v) ==
    IF c = "connecting" THEN IF v = "none" THEN "dialed" ELSE "accepted"
    ELSE IF c = "open" THEN "opened"
    ELSE IF c = "closed" THEN "over"
    ELSE IF v = "open" THEN "dropped" ELSE "answered"

\* What else holds of that socket, with W and V on the way
Fits(c, v, W, V) ==
    \/ c = "connecting" /\ v = "none" /\ W = <<>> /\ V = <<"upgrade">>
    \/ c = "connecting" /\ v = "open" /\ W = <<"reply">> /\ V = <<>>
    \/ c = "open" /\ v = "open" /\ W = <<>> /\ V = <<>>
    \/ c = "closing" /\ v = "open" /\ W = <<>> /\ V = <<"duplicate">>
    \/ c = "closing" /\ v = "closed" /\ W = <<"duplicate">> /\ V = <<>>
    \/ c = "closed" /\ v = "closed" /\ W = <<>> /\ V = <<>>

\* How sockets S by the dialers D, in phases ph, are used: each endpoint dialed
\* once, the smaller one's socket is kept, and the larger one drops its own only
\* when that one is there.
Tie(S, D, ph, con, pen) ==
    /\ \A s \in S : D[s] \in Endpoint /\ ph[s] \in Phase
    /\ \A e \in Endpoint : con[e] \in {None} \cup S
    /\ \A s, t \in S : D[s] = D[t] => s = t
    /\ \A s \in S : ph[s] \in {"dropped", "answered", "over"} => D[s] = Larger
    /\ \A s \in S : pen[D[s]] = IF ph[s] \in {"dialed", "accepted"} THEN s ELSE None
    /\ \A e \in Endpoint, s \in S :
          con[e] = s => IF D[s] = e THEN ph[s] = "opened" ELSE ph[s] # "dialed"
    /\ \A s \in S : ph[s] = "opened" => con[D[s]] = s
    /\ \A s \in S : D[s] # Larger /\ ph[s] # "dialed" => con[Larger] = s
    /\ \A s \in S : ph[s] \in {"dropped", "answered", "over"} =>
          \E t \in S : D[t] # Larger /\ ph[t] \in {"accepted", "opened"}
    /\ \A s \in S : D[s] = Larger /\ ph[s] \in {"accepted", "opened", "dropped"} =>
          \/ con[Peer(Larger)] = s
          \/ \E t \in S : D[t] # Larger /\ ph[t] = "opened"

\* Only s is in another phase.
OnlyPhase(S, ph, next, s) == \A t \in S : t # s => next[t] = ph[t]

\* e dials when it has no socket of its own.
LEMMA TieDials ==
    ASSUME NEW S, NEW D, NEW ph, NEW con, NEW pen, Tie(S, D, ph, con, pen), None \notin S,
           NEW s, s \notin S, s # None, NEW E, NEW next, NEW pnext, NEW e \in Endpoint,
           \A t \in S : E[t] = D[t] /\ next[t] = ph[t], E[s] = e, next[s] = "dialed",
           pnext[e] = s, \A x \in Endpoint : x # e => pnext[x] = pen[x],
           \A t \in S : D[t] # e
    PROVE  Tie(S \cup {s}, E, next, con, pnext)
<1> DEFINE T == S \cup {s}
<1>1. \A t \in T : t = s \/ (t \in S /\ t # s /\ E[t] = D[t] /\ next[t] = ph[t] /\ E[t] # e)
  OBVIOUS
<1>2. /\ \A t \in T : E[t] \in Endpoint /\ next[t] \in Phase
      /\ \A x \in Endpoint : con[x] \in {None} \cup T
  BY <1>1 DEF Tie, Phase
<1>3. \A t, u \in T : E[t] = E[u] => t = u
  BY <1>1 DEF Tie
<1>4. /\ \A t \in T : next[t] \in {"dropped", "answered", "over"} => E[t] = Larger
      /\ \A t \in T : pnext[E[t]] = IF next[t] \in {"dialed", "accepted"} THEN t ELSE None
  BY <1>1 DEF Tie
<1>5. \A x \in Endpoint : con[x] # s
  BY DEF Tie
<1>6. /\ \A x \in Endpoint, t \in T :
           con[x] = t => IF E[t] = x THEN next[t] = "opened" ELSE next[t] # "dialed"
      /\ \A t \in T : next[t] = "opened" => con[E[t]] = t
      /\ \A t \in T : E[t] # Larger /\ next[t] # "dialed" => con[Larger] = t
  BY <1>1, <1>5 DEF Tie
<1>7. \A t \in S : t \in T /\ E[t] = D[t] /\ next[t] = ph[t]
  OBVIOUS
<1>8. \A t \in T : next[t] \in {"dropped", "answered", "over"} =>
          \E u \in T : E[u] # Larger /\ next[u] \in {"accepted", "opened"}
  BY <1>1, <1>7 DEF Tie
<1>9. \A t \in T : E[t] = Larger /\ next[t] \in {"accepted", "opened", "dropped"} =>
          \/ con[Peer(Larger)] = t
          \/ \E u \in T : E[u] # Larger /\ next[u] = "opened"
  BY <1>1, <1>7 DEF Tie
<1> HIDE DEF T
<1>10. Tie(T, E, next, con, pnext)
  BY <1>2, <1>3, <1>4, <1>6, <1>8, <1>9 DEF Tie
<1> QED BY <1>10 DEF T

\* The other end accepts, having no connection.
LEMMA TieAccepts ==
    ASSUME NEW S, NEW D, NEW ph, NEW con, NEW pen, Tie(S, D, ph, con, pen), None \notin S,
           NEW s \in S, NEW next, NEW cnext, NEW e \in Endpoint, D[s] # e,
           OnlyPhase(S, ph, next, s), ph[s] = "dialed", next[s] = "accepted",
           con[e] = None, cnext[e] = s, \A x \in Endpoint : x # e => cnext[x] = con[x]
    PROVE  Tie(S, D, next, cnext, pen)
<1>1. \A t \in S : t = s \/ (t # s /\ next[t] = ph[t] /\ D[t] # D[s])
  BY DEF OnlyPhase, Tie
<1>2. Larger \in Endpoint /\ Peer(Larger) \in Endpoint /\ Peer(Larger) # Larger
      /\ \A x \in Endpoint : x = Larger \/ x = Peer(Larger)
  BY TwoEndpoints, EndpointAssumption
<1>3. /\ \A t \in S : D[t] \in Endpoint /\ next[t] \in Phase
      /\ \A x \in Endpoint : cnext[x] \in {None} \cup S
      /\ \A t, u \in S : D[t] = D[u] => t = u
      /\ \A t \in S : next[t] \in {"dropped", "answered", "over"} => D[t] = Larger
      /\ \A t \in S : pen[D[t]] = IF next[t] \in {"dialed", "accepted"} THEN t ELSE None
  BY <1>1 DEF Tie, Phase
<1>4. \A x \in Endpoint, t \in S :
           cnext[x] = t => IF D[t] = x THEN next[t] = "opened" ELSE next[t] # "dialed"
  BY <1>1 DEF Tie
<1>5. \A t \in S : next[t] = "opened" => cnext[D[t]] = t
  BY <1>1 DEF Tie
<1>6. \A t \in S : D[t] # Larger /\ next[t] # "dialed" => cnext[Larger] = t
  BY <1>1, <1>2 DEF Tie
<1>7. \A t \in S : next[t] \in {"dropped", "answered", "over"} =>
          \E u \in S : D[u] # Larger /\ next[u] \in {"accepted", "opened"}
  BY <1>1 DEF Tie
<1>8. \A t \in S : D[t] = Larger /\ next[t] \in {"accepted", "opened", "dropped"} =>
          \/ cnext[Peer(Larger)] = t
          \/ \E u \in S : D[u] # Larger /\ next[u] = "opened"
  <2> TAKE t \in S
  <2> HAVE D[t] = Larger /\ next[t] \in {"accepted", "opened", "dropped"}
  <2>1. CASE t = s
    BY <1>2, <2>1
  <2>2. CASE t # s
    <3>1. CASE con[Peer(Larger)] = t
      BY <1>2, <2>2, <3>1
    <3>2. CASE con[Peer(Larger)] # t
      <4>1. PICK u \in S : D[u] # Larger /\ ph[u] = "opened"
        BY <1>1, <2>2, <3>2 DEF Tie
      <4>2. next[u] = "opened"
        BY <1>1, <4>1
      <4> QED BY <4>1, <4>2
    <3> QED BY <3>1, <3>2
  <2> QED BY <2>1, <2>2
<1> QED BY <1>3, <1>4, <1>5, <1>6, <1>7, <1>8 DEF Tie

\* The dialer opens, having no connection or being the smaller.
LEMMA TieOpens ==
    ASSUME NEW S, NEW D, NEW ph, NEW con, NEW pen, Tie(S, D, ph, con, pen), None \notin S,
           NEW s \in S, NEW next, NEW cnext, NEW pnext, NEW e \in Endpoint, D[s] = e,
           OnlyPhase(S, ph, next, s), ph[s] = "accepted", next[s] = "opened",
           con[e] = None \/ e # Larger, cnext[e] = s,
           \A x \in Endpoint : x # e => cnext[x] = con[x],
           pnext[e] = None, \A x \in Endpoint : x # e => pnext[x] = pen[x]
    PROVE  Tie(S, D, next, cnext, pnext)
<1>1. \A t \in S : t = s \/ (t # s /\ next[t] = ph[t] /\ D[t] # e)
  BY DEF OnlyPhase, Tie
<1>2. Larger \in Endpoint /\ Peer(Larger) \in Endpoint /\ Peer(Larger) # Larger
      /\ \A x \in Endpoint : x = Larger \/ x = Peer(Larger)
  BY TwoEndpoints, EndpointAssumption
<1>3. /\ \A t \in S : D[t] \in Endpoint /\ next[t] \in Phase
      /\ \A x \in Endpoint : cnext[x] \in {None} \cup S
      /\ \A t, u \in S : D[t] = D[u] => t = u
      /\ \A t \in S : next[t] \in {"dropped", "answered", "over"} => D[t] = Larger
      /\ \A t \in S : pnext[D[t]] = IF next[t] \in {"dialed", "accepted"} THEN t ELSE None
  BY <1>1 DEF Tie, Phase
<1>4. \A x \in Endpoint, t \in S :
           cnext[x] = t => IF D[t] = x THEN next[t] = "opened" ELSE next[t] # "dialed"
  BY <1>1 DEF Tie
<1>5. \A t \in S : next[t] = "opened" => cnext[D[t]] = t
  BY <1>1 DEF Tie
<1>6. \A t \in S : D[t] # Larger /\ next[t] # "dialed" => cnext[Larger] = t
  BY <1>1, <1>2 DEF Tie
<1>7. \A t \in S : next[t] \in {"dropped", "answered", "over"} =>
          \E u \in S : D[u] # Larger /\ next[u] \in {"accepted", "opened"}
  BY <1>1 DEF Tie
<1>8. \A t \in S : D[t] = Larger /\ next[t] \in {"accepted", "opened", "dropped"} =>
          \/ cnext[Peer(Larger)] = t
          \/ \E u \in S : D[u] # Larger /\ next[u] = "opened"
  <2> TAKE t \in S
  <2> HAVE D[t] = Larger /\ next[t] \in {"accepted", "opened", "dropped"}
  <2>1. CASE e # Larger
    BY <2>1
  <2>2. CASE e = Larger
    <3>1. t = s /\ ph[t] = "accepted"
      BY <1>1, <2>2
    <3>2. CASE con[Peer(Larger)] = t
      BY <1>2, <2>2, <3>2
    <3>3. CASE con[Peer(Larger)] # t
      <4>1. PICK u \in S : D[u] # Larger /\ ph[u] = "opened"
        BY <3>1, <3>3 DEF Tie
      <4>2. next[u] = "opened"
        BY <1>1, <2>2, <4>1
      <4> QED BY <4>1, <4>2
    <3> QED BY <3>2, <3>3
  <2> QED BY <2>1, <2>2
<1> QED BY <1>3, <1>4, <1>5, <1>6, <1>7, <1>8 DEF Tie

\* The larger end drops its own socket, having the other.
LEMMA TieDrops ==
    ASSUME NEW S, NEW D, NEW ph, NEW con, NEW pen, Tie(S, D, ph, con, pen), None \notin S,
           NEW s \in S, NEW next, NEW pnext, D[s] = Larger,
           OnlyPhase(S, ph, next, s), ph[s] = "accepted", next[s] = "dropped",
           con[Larger] # None,
           pnext[Larger] = None, \A x \in Endpoint : x # Larger => pnext[x] = pen[x]
    PROVE  Tie(S, D, next, con, pnext)
<1>1. \A t \in S : t = s \/ (t # s /\ next[t] = ph[t] /\ D[t] # Larger)
  BY DEF OnlyPhase, Tie
<1>2. Larger \in Endpoint
  BY EndpointAssumption
<1>3. /\ \A t \in S : D[t] \in Endpoint /\ next[t] \in Phase
      /\ \A x \in Endpoint : con[x] \in {None} \cup S
      /\ \A t, u \in S : D[t] = D[u] => t = u
      /\ \A t \in S : next[t] \in {"dropped", "answered", "over"} => D[t] = Larger
      /\ \A t \in S : pnext[D[t]] = IF next[t] \in {"dialed", "accepted"} THEN t ELSE None
  BY <1>1, <1>2 DEF Tie, Phase
<1>4. /\ \A x \in Endpoint, t \in S :
           con[x] = t => IF D[t] = x THEN next[t] = "opened" ELSE next[t] # "dialed"
      /\ \A t \in S : next[t] = "opened" => con[D[t]] = t
      /\ \A t \in S : D[t] # Larger /\ next[t] # "dialed" => con[Larger] = t
  BY <1>1, <1>2 DEF Tie
<1>5. PICK k \in S : k = con[Larger]
  BY <1>2 DEF Tie
<1>6. k # s /\ D[k] # Larger /\ ph[k] \in {"accepted", "opened"} /\ next[k] = ph[k]
  BY <1>1, <1>2, <1>5 DEF Tie, Phase
<1>7. \A t \in S : next[t] \in {"dropped", "answered", "over"} =>
          \E u \in S : D[u] # Larger /\ next[u] \in {"accepted", "opened"}
  BY <1>6
<1>8. \A t \in S : D[t] = Larger /\ next[t] \in {"accepted", "opened", "dropped"} =>
          \/ con[Peer(Larger)] = t
          \/ \E u \in S : D[u] # Larger /\ next[u] = "opened"
  <2> TAKE t \in S
  <2> HAVE D[t] = Larger /\ next[t] \in {"accepted", "opened", "dropped"}
  <2>1. t = s /\ ph[t] = "accepted"
    BY <1>1
  <2>2. CASE con[Peer(Larger)] # t
    <3>1. PICK u \in S : D[u] # Larger /\ ph[u] = "opened"
      BY <2>1, <2>2 DEF Tie
    <3>2. next[u] = "opened"
      BY <1>1, <3>1
    <3> QED BY <3>1, <3>2
  <2> QED BY <2>2
<1> QED BY <1>3, <1>4, <1>7, <1>8 DEF Tie

\* The dropped socket is closed at one end, then at the other.
LEMMA TieCloses ==
    ASSUME NEW S, NEW D, NEW ph, NEW con, NEW pen, Tie(S, D, ph, con, pen), None \notin S,
           NEW s \in S, NEW next, OnlyPhase(S, ph, next, s),
           ph[s] \in {"dropped", "answered"}, next[s] \in {"answered", "over"}
    PROVE  Tie(S, D, next, con, pen)
<1>1. \A t \in S : t = s \/ (t # s /\ next[t] = ph[t] /\ D[t] # Larger)
  BY DEF OnlyPhase, Tie
<1>2. Larger \in Endpoint /\ D[s] = Larger
  BY EndpointAssumption DEF Tie
<1>3. /\ \A t \in S : D[t] \in Endpoint /\ next[t] \in Phase
      /\ \A x \in Endpoint : con[x] \in {None} \cup S
      /\ \A t, u \in S : D[t] = D[u] => t = u
      /\ \A t \in S : next[t] \in {"dropped", "answered", "over"} => D[t] = Larger
      /\ \A t \in S : pen[D[t]] = IF next[t] \in {"dialed", "accepted"} THEN t ELSE None
  BY <1>1, <1>2 DEF Tie, Phase
<1>4. /\ \A x \in Endpoint, t \in S :
           con[x] = t => IF D[t] = x THEN next[t] = "opened" ELSE next[t] # "dialed"
      /\ \A t \in S : next[t] = "opened" => con[D[t]] = t
      /\ \A t \in S : D[t] # Larger /\ next[t] # "dialed" => con[Larger] = t
  BY <1>1, <1>2 DEF Tie
<1>5. PICK u \in S : D[u] # Larger /\ ph[u] \in {"accepted", "opened"}
  BY DEF Tie
<1>6. next[u] = ph[u]
  BY <1>1, <1>2, <1>5
<1>7. \A t \in S : D[t] = Larger => next[t] \in {"answered", "over"}
  BY <1>1
<1> QED BY <1>3, <1>4, <1>5, <1>6, <1>7 DEF Tie

\* The other end forgets the socket that was dropped.
LEMMA TieForgets ==
    ASSUME NEW S, NEW D, NEW ph, NEW con, NEW pen, Tie(S, D, ph, con, pen), None \notin S,
           NEW s \in S, ph[s] \in {"answered", "over"}, NEW cnext, NEW e \in Endpoint,
           con[e] = s, cnext[e] = None, \A x \in Endpoint : x # e => cnext[x] = con[x]
    PROVE  Tie(S, D, ph, cnext, pen)
<1>1. D[s] = Larger /\ e # Larger
  BY DEF Tie
<1>2. Larger \in Endpoint /\ Peer(Larger) \in Endpoint /\ e = Peer(Larger) /\ cnext[Larger] = con[Larger]
  BY <1>1, TwoEndpoints, EndpointAssumption
<1>3. \A x \in Endpoint : cnext[x] \in {None, con[x]}
  OBVIOUS
<1>4. /\ \A t \in S : D[t] \in Endpoint /\ ph[t] \in Phase
      /\ \A x \in Endpoint : cnext[x] \in {None} \cup S
      /\ \A t, u \in S : D[t] = D[u] => t = u
      /\ \A t \in S : ph[t] \in {"dropped", "answered", "over"} => D[t] = Larger
      /\ \A t \in S : pen[D[t]] = IF ph[t] \in {"dialed", "accepted"} THEN t ELSE None
      /\ \A t \in S : ph[t] \in {"dropped", "answered", "over"} =>
            \E u \in S : D[u] # Larger /\ ph[u] \in {"accepted", "opened"}
  BY <1>3 DEF Tie
<1>5. /\ \A x \in Endpoint, t \in S :
           cnext[x] = t => IF D[t] = x THEN ph[t] = "opened" ELSE ph[t] # "dialed"
      /\ \A t \in S : ph[t] = "opened" => cnext[D[t]] = t
      /\ \A t \in S : D[t] # Larger /\ ph[t] # "dialed" => cnext[Larger] = t
  BY <1>2, <1>3 DEF Tie
<1>6. \A t \in S : D[t] = Larger => t = s
  BY <1>1 DEF Tie
<1> QED BY <1>4, <1>5, <1>6 DEF Tie

\* What is left in the end is one socket, which both use.
LEMMA TieEnds ==
    ASSUME NEW S, NEW D, NEW ph, NEW con, NEW pen, Tie(S, D, ph, con, pen), None \notin S,
           S # {}, \A s \in S : ph[s] \in {"opened", "over"}
    PROVE  \E s \in S : \A e \in Endpoint : con[e] = s
<1>1. Larger \in Endpoint /\ Peer(Larger) \in Endpoint
      /\ \A x \in Endpoint : x = Larger \/ x = Peer(Larger)
  BY TwoEndpoints, EndpointAssumption
<1>2. CASE \E t \in S : D[t] # Larger
  <2>1. PICK t \in S : D[t] # Larger
    BY <1>2
  <2>2. ph[t] = "opened" /\ D[t] = Peer(Larger)
    BY <1>1, <2>1 DEF Tie
  <2>3. con[D[t]] = t /\ con[Larger] = t
    BY <2>1, <2>2 DEF Tie
  <2> QED BY <1>1, <2>2, <2>3
<1>3. CASE \A t \in S : D[t] = Larger
  <2>1. PICK s \in S : TRUE
    OBVIOUS
  <2>2. D[s] = Larger /\ ph[s] = "opened"
    BY <1>3, <2>1 DEF Tie
  <2>3. con[Larger] = s /\ con[Peer(Larger)] = s
    BY <1>3, <2>2 DEF Tie
  <2> QED BY <1>1, <2>3
<1> QED BY <1>2, <1>3

phases == [s \in Socket |-> PhaseOf(end[s][dialer[s]], end[s][Peer(dialer[s])])]

SocketFits(s) == Fits(end[s][dialer[s]], end[s][Peer(dialer[s])],
                      way[s][dialer[s]], way[s][Peer(dialer[s])])

\* What holds while nothing fails and no close handler goes astray
Calm == /\ listening = Endpoint
        /\ \A s \in Socket : SocketFits(s)
        /\ Tie(Socket, dialer, phases, connections, pending)

CalmUnlessDisturbed == failures = 0 /\ ~ astray => Calm

\* What comes next of a socket, in the sequences that a socket may have
LEMMA FirstItems ==
    /\ <<"upgrade">> # <<>> /\ <<"reply">> # <<>> /\ <<"duplicate">> # <<>>
    /\ \A x : Head(<<x>>) = x /\ Tail(<<x>>) = <<>>
    /\ \A x \in Item : <<>> \o <<x>> = <<x>>
    /\ <<>> \o <<>> = <<>>
<1>1. \A x : Head(<<x>>) = x /\ Tail(<<x>>) = <<>>
  OBVIOUS
<1>2. \A x \in Item : <<>> \o <<x>> = <<x>>
  BY DEF Item
<1>3. <<>> \o <<>> = <<>>
  OBVIOUS
<1>4. <<"upgrade">> # <<>> /\ <<"reply">> # <<>> /\ <<"duplicate">> # <<>>
  OBVIOUS
<1> QED BY <1>1, <1>2, <1>3, <1>4

\* A step on s that keeps s in one of the phases
LEMMA OnlyOneMoves ==
    ASSUME IInv, Calm, NEW s \in Socket, NEW d, NEW p, Between(s, d, p), dialer' = dialer,
           Beside(end', end, s), Beside(way', way, s),
           Fits(end'[s][d], end'[s][p], way'[s][d], way'[s][p])
    PROVE  /\ Socket' = Socket
           /\ \A t \in Socket : SocketFits(t)'
           /\ OnlyPhase(Socket, phases, phases', s)
           /\ phases[s] = PhaseOf(end[s][d], end[s][p])
           /\ phases'[s] = PhaseOf(end'[s][d], end'[s][p])
<1>1. Socket' = Socket
  BY DEF Socket
<1>2. d = dialer[s] /\ p = Peer(dialer[s])
  BY DEF Between
<1>3. ASSUME NEW t \in Socket PROVE SocketFits(t)'
  <2>1. CASE t = s
    BY <1>2, <2>1 DEF SocketFits
  <2>2. CASE t # s
    <3>1. end'[t] = end[t] /\ way'[t] = way[t] /\ SocketFits(t)
      BY <2>2 DEF Beside, Calm
    <3> QED BY <3>1 DEF SocketFits
  <2> QED BY <2>1, <2>2
<1>4. OnlyPhase(Socket, phases, phases', s)
  <2> SUFFICES ASSUME NEW t \in Socket, t # s PROVE phases'[t] = phases[t]
    BY DEF OnlyPhase
  <2>1. end'[t] = end[t]
    BY DEF Beside
  <2> QED BY <1>1, <2>1 DEF phases
<1>5. phases[s] = PhaseOf(end[s][d], end[s][p]) /\ phases'[s] = PhaseOf(end'[s][d], end'[s][p])
  BY <1>1, <1>2 DEF phases
<1> QED BY <1>1, <1>3, <1>4, <1>5

\* What holds of a socket while nothing disturbs
LEMMA CalmSocket ==
    ASSUME IInv, Calm, NEW s \in Socket, NEW d, NEW p, Between(s, d, p)
    PROVE  /\ Fits(end[s][d], end[s][p], way[s][d], way[s][p])
           /\ phases[s] = PhaseOf(end[s][d], end[s][p])
           /\ phases[s] \in Phase
           /\ None \notin Socket
BY SocketsAreNumbers DEF Calm, SocketFits, phases, Between, Tie, IInv

\* The acceptor gets the request for a socket.
LEMMA UpgradeKeepsCalm ==
    ASSUME IInv, Calm, NEW s \in Socket, NEW e \in Endpoint, Upgrade(s, e), ~ astray'
    PROVE  Calm'
<1>1. PICK d, p \in Endpoint : Between(s, d, p)
  BY SocketsAreBetween
<1>2. /\ TypeOK /\ dialer' = dialer /\ pending' = pending /\ listening' = listening
      /\ listening = Endpoint
  BY DEF IInv, Upgrade, Calm
<1>3. way[s][e] # <<>> /\ Head(way[s][e]) = "upgrade"
  BY DEF Upgrade
<1>4. e = d \/ e = p
  BY <1>1 DEF Between
<1>5. /\ e = p /\ Peer(e) = d
      /\ end[s][d] = "connecting" /\ end[s][p] = "none"
      /\ way[s][d] = <<>> /\ way[s][p] = <<"upgrade">>
  <2>1. Fits(end[s][d], end[s][p], way[s][d], way[s][p])
    BY <1>1, CalmSocket
  <2>2. /\ Head(<<"upgrade">>) = "upgrade" /\ Head(<<"reply">>) = "reply"
        /\ Head(<<"duplicate">>) = "duplicate"
    BY FirstItems
  <2>3. d # p /\ Peer(d) = p /\ Peer(p) = d
    BY <1>1 DEF Between
  <2> QED BY <1>3, <1>4, <2>1, <2>2, <2>3 DEF Fits
<1>6. phases[s] = "dialed" /\ None \notin Socket
  BY <1>1, <1>5, CalmSocket DEF PhaseOf
<1>7. connections[e] # s
  BY <1>1, <1>5, <1>6 DEF Calm, Tie, Between
<1>8. connections[e] = None
  <2>1. SUFFICES ASSUME connections[e] # None PROVE FALSE
    OBVIOUS
  <2>2. OnClose(e, s, "")
    BY <1>2, <2>1 DEF Upgrade
  <2>3. "" # "duplicate"
    OBVIOUS
  <2>4. astray' = (astray \/ connections[e] \notin {None, s})
    BY <2>2, <2>3 DEF OnClose
  <2> QED BY <1>7, <2>1, <2>4
<1>9. /\ end' = EndBecomes(s, e, "open")
      /\ way' = Exchange(s, e, <<"reply">>)
      /\ Takes(e, s)
  BY <1>2, <1>8 DEF Upgrade
<1>10. /\ Beside(end', end, s)
       /\ end'[s][p] = "open" /\ end'[s][d] = "connecting"
  BY <1>2, <1>5, <1>9, AnEndBecomes DEF State
<1>11. /\ Beside(way', way, s)
       /\ way'[s][p] = <<>> /\ way'[s][d] = <<"reply">>
  <2>1. <<"reply">> \in Seq(Item)
    BY ShortItems DEF Item
  <2>2. /\ Beside(way', way, s)
        /\ way'[s][e] = Tail(way[s][e])
        /\ way'[s][Peer(e)] = IF end[s][Peer(e)] = "closed" THEN <<>>
                              ELSE way[s][Peer(e)] \o <<"reply">>
    BY <1>2, <1>3, <1>9, <2>1, Exchanged
  <2>3. way'[s][d] = <<>> \o <<"reply">>
    BY <1>5, <2>2
  <2> QED BY <1>5, <2>2, <2>3, FirstItems DEF Item
<1>12. Fits(end'[s][d], end'[s][p], way'[s][d], way'[s][p])
  BY <1>10, <1>11 DEF Fits
<1>13. /\ Socket' = Socket
       /\ \A t \in Socket : SocketFits(t)'
       /\ OnlyPhase(Socket, phases, phases', s)
       /\ phases'[s] = PhaseOf(end'[s][d], end'[s][p])
  BY <1>1, <1>2, <1>10, <1>11, <1>12, OnlyOneMoves
<1>14. phases'[s] = "accepted"
  BY <1>10, <1>13 DEF PhaseOf
<1>15. connections'[e] = s /\ \A x \in Endpoint : x # e => connections'[x] = connections[x]
  BY <1>2, <1>9, IsTaken
<1>16. dialer[s] # e /\ Tie(Socket, dialer, phases, connections, pending)
  BY <1>1, <1>5 DEF Between, Calm
<1>17. Tie(Socket, dialer, phases', connections', pending)
  BY <1>6, <1>8, <1>13, <1>14, <1>15, <1>16, TieAccepts
<1> QED BY <1>2, <1>13, <1>17 DEF Calm

\* The dialer gets the reply.
LEMMA OpensKeepsCalm ==
    ASSUME IInv, Calm, NEW s \in Socket, NEW e \in Endpoint, Opens(s, e)
    PROVE  Calm'
<1>1. PICK d, p \in Endpoint : Between(s, d, p)
  BY SocketsAreBetween
<1>2. TypeOK /\ dialer' = dialer /\ listening' = listening /\ listening = Endpoint
  BY DEF IInv, Opens, Calm
<1>3. way[s][e] # <<>> /\ Head(way[s][e]) = "reply"
  BY DEF Opens
<1>4. e = d \/ e = p
  BY <1>1 DEF Between
<1>5. /\ e = d /\ Peer(e) = p
      /\ end[s][d] = "connecting" /\ end[s][p] = "open"
      /\ way[s][d] = <<"reply">> /\ way[s][p] = <<>>
  <2>1. Fits(end[s][d], end[s][p], way[s][d], way[s][p])
    BY <1>1, CalmSocket
  <2>2. /\ Head(<<"upgrade">>) = "upgrade" /\ Head(<<"reply">>) = "reply"
        /\ Head(<<"duplicate">>) = "duplicate"
    BY FirstItems
  <2>3. d # p /\ Peer(d) = p /\ Peer(p) = d
    BY <1>1 DEF Between
  <2> QED BY <1>3, <1>4, <2>1, <2>2, <2>3 DEF Fits
<1>6. phases[s] = "accepted" /\ None \notin Socket
  BY <1>1, <1>5, CalmSocket DEF PhaseOf
<1>7. pending'[e] = None /\ \A x \in Endpoint : x # e => pending'[x] = pending[x]
  BY <1>2 DEF Opens, TypeOK, Numbers
<1>8. dialer[s] = e /\ Tie(Socket, dialer, phases, connections, pending)
  BY <1>1, <1>5 DEF Between, Calm
<1>9. <<"duplicate">> \in Seq(Item) /\ <<>> \in Seq(Item)
  BY ShortItems DEF Item
<1>10. CASE DropsDuplicate(e)
  <2>1. /\ end' = EndBecomes(s, e, "closing")
        /\ way' = Exchange(s, e, <<"duplicate">>)
        /\ connections' = connections
    BY <1>10 DEF Opens, Keep
  <2>2. /\ Beside(end', end, s)
        /\ end'[s][d] = "closing" /\ end'[s][p] = "open"
    BY <1>2, <1>5, <2>1, AnEndBecomes DEF State
  <2>3. /\ Beside(way', way, s)
        /\ way'[s][d] = <<>> /\ way'[s][p] = <<"duplicate">>
    <3>1. /\ Beside(way', way, s)
          /\ way'[s][e] = Tail(way[s][e])
          /\ way'[s][Peer(e)] = IF end[s][Peer(e)] = "closed" THEN <<>>
                                ELSE way[s][Peer(e)] \o <<"duplicate">>
      BY <1>2, <1>3, <1>9, <2>1, Exchanged
    <3>2. way'[s][p] = <<>> \o <<"duplicate">>
      BY <1>5, <3>1
    <3> QED BY <1>5, <3>1, <3>2, FirstItems DEF Item
  <2>4. Fits(end'[s][d], end'[s][p], way'[s][d], way'[s][p])
    BY <2>2, <2>3 DEF Fits
  <2>5. /\ Socket' = Socket
        /\ \A t \in Socket : SocketFits(t)'
        /\ OnlyPhase(Socket, phases, phases', s)
        /\ phases'[s] = PhaseOf(end'[s][d], end'[s][p])
    BY <1>1, <1>2, <2>2, <2>3, <2>4, OnlyOneMoves
  <2>6. phases'[s] = "dropped"
    BY <2>2, <2>5 DEF PhaseOf
  <2>7. e = Larger /\ connections[Larger] # None
    BY <1>10 DEF DropsDuplicate
  <2>8. Tie(Socket, dialer, phases', connections, pending')
    BY <1>6, <1>7, <1>8, <2>5, <2>6, <2>7, TieDrops
  <2> QED BY <1>2, <2>1, <2>5, <2>8 DEF Calm
<1>11. CASE ~ DropsDuplicate(e)
  <2>1. /\ end' = EndBecomes(s, e, "open")
        /\ way' = Exchange(s, e, <<>>)
        /\ Takes(e, s)
    BY <1>11 DEF Opens
  <2>2. /\ Beside(end', end, s)
        /\ end'[s][d] = "open" /\ end'[s][p] = "open"
    BY <1>2, <1>5, <2>1, AnEndBecomes DEF State
  <2>3. /\ Beside(way', way, s)
        /\ way'[s][d] = <<>> /\ way'[s][p] = <<>>
    <3>1. /\ Beside(way', way, s)
          /\ way'[s][e] = Tail(way[s][e])
          /\ way'[s][Peer(e)] = IF end[s][Peer(e)] = "closed" THEN <<>>
                                ELSE way[s][Peer(e)] \o <<>>
      BY <1>2, <1>3, <1>9, <2>1, Exchanged
    <3>2. way'[s][p] = <<>> \o <<>>
      BY <1>5, <3>1
    <3> QED BY <1>5, <3>1, <3>2, FirstItems
  <2>4. Fits(end'[s][d], end'[s][p], way'[s][d], way'[s][p])
    BY <2>2, <2>3 DEF Fits
  <2>5. /\ Socket' = Socket
        /\ \A t \in Socket : SocketFits(t)'
        /\ OnlyPhase(Socket, phases, phases', s)
        /\ phases'[s] = PhaseOf(end'[s][d], end'[s][p])
    BY <1>1, <1>2, <2>2, <2>3, <2>4, OnlyOneMoves
  <2>6. phases'[s] = "opened"
    BY <2>2, <2>5 DEF PhaseOf
  <2>7. connections[e] = None \/ e # Larger
    BY <1>11 DEF DropsDuplicate
  <2>8. connections'[e] = s /\ \A x \in Endpoint : x # e => connections'[x] = connections[x]
    BY <1>2, <2>1, IsTaken
  <2>9. Tie(Socket, dialer, phases', connections', pending')
    BY <1>6, <1>7, <1>8, <2>5, <2>6, <2>7, <2>8, TieOpens
  <2> QED BY <1>2, <2>5, <2>9 DEF Calm
<1> QED BY <1>10, <1>11

\* An end gets a close frame.
LEMMA CloseFrameKeepsCalm ==
    ASSUME IInv, Calm, NEW s \in Socket, NEW e \in Endpoint, CloseFrame(s, e)
    PROVE  Calm'
<1>1. PICK d, p \in Endpoint : Between(s, d, p)
  BY SocketsAreBetween
<1>2. /\ TypeOK /\ dialer' = dialer /\ pending' = pending /\ listening' = listening
      /\ listening = Endpoint /\ way \in Ways
  BY DEF IInv, CloseFrame, Calm, TypeOK
<1>3. way[s][e] # <<>> /\ Head(way[s][e]) \in {"duplicate", "bye"}
  BY DEF CloseFrame
<1>4. (e = d /\ Peer(e) = p) \/ (e = p /\ Peer(e) = d)
  BY <1>1 DEF Between
<1>5. /\ way[s][e] = <<"duplicate">> /\ Head(way[s][e]) = "duplicate" /\ way[s][Peer(e)] = <<>>
      /\ end[s][d] = "closing"
      /\ \/ e = p /\ end[s][p] = "open"
         \/ e = d /\ end[s][p] = "closed"
  <2>1. Fits(end[s][d], end[s][p], way[s][d], way[s][p])
    BY <1>1, CalmSocket
  <2>2. /\ Head(<<"upgrade">>) = "upgrade" /\ Head(<<"reply">>) = "reply"
        /\ Head(<<"duplicate">>) = "duplicate"
    BY FirstItems
  <2>3. d # p /\ Peer(d) = p /\ Peer(p) = d
    BY <1>1 DEF Between
  <2> QED BY <1>3, <1>4, <2>1, <2>2, <2>3 DEF Fits
<1>6. phases[s] \in {"dropped", "answered"} /\ None \notin Socket
  BY <1>1, <1>5, CalmSocket DEF PhaseOf
<1>7. connections' = connections
  BY <1>5 DEF CloseFrame, OnClose, Keep
<1>8. /\ Beside(end', end, s)
      /\ end'[s][e] = "closed" /\ end'[s][Peer(e)] = end[s][Peer(e)]
  BY <1>2, AnEndBecomes DEF State, CloseFrame
<1>9. /\ Beside(way', way, s)
      /\ way'[s][e] = <<>>
      /\ way'[s][Peer(e)] = IF end[s][Peer(e)] = "closed" THEN <<>> ELSE <<"duplicate">>
  <2>1. PICK ways : ways = Exchange(s, e, <<"duplicate">>)
    OBVIOUS
  <2>2. <<"duplicate">> \in Seq(Item)
    BY ShortItems DEF Item
  <2>3. /\ ways \in Ways /\ Beside(ways, way, s)
        /\ ways[s][Peer(e)] = IF end[s][Peer(e)] = "closed" THEN <<>>
                              ELSE way[s][Peer(e)] \o <<"duplicate">>
    BY <1>2, <1>3, <2>1, <2>2, Exchanged
  <2>4. way' = [ways EXCEPT ![s][e] = <<>>]
    BY <1>5, <2>1 DEF CloseFrame
  <2>5. /\ Beside(way', ways, s)
        /\ way'[s][e] = <<>>
        /\ way'[s][Peer(e)] = ways[s][Peer(e)]
    BY <2>3, <2>4, Emptied
  <2>6. way[s][Peer(e)] \o <<"duplicate">> = <<"duplicate">>
    BY <1>5, FirstItems DEF Item
  <2> QED BY <2>3, <2>5, <2>6 DEF Beside
<1>10. Fits(end'[s][d], end'[s][p], way'[s][d], way'[s][p])
       /\ PhaseOf(end'[s][d], end'[s][p]) \in {"answered", "over"}
  BY <1>1, <1>4, <1>5, <1>8, <1>9 DEF Fits, PhaseOf, Between
<1>11. /\ Socket' = Socket
       /\ \A t \in Socket : SocketFits(t)'
       /\ OnlyPhase(Socket, phases, phases', s)
       /\ phases'[s] = PhaseOf(end'[s][d], end'[s][p])
  BY <1>1, <1>2, <1>8, <1>9, <1>10, OnlyOneMoves
<1>12. Tie(Socket, dialer, phases, connections, pending)
  BY DEF Calm
<1>13. Tie(Socket, dialer, phases', connections, pending)
  BY <1>6, <1>10, <1>11, <1>12, TieCloses
<1> QED BY <1>2, <1>7, <1>11, <1>13 DEF Calm

\* While nothing disturbs, no socket is reset.
LEMMA NoReset ==
    ASSUME IInv, Calm, NEW s \in Socket, NEW e \in Endpoint
    PROVE  ~ Reset(s, e) /\ way[s][e] # <<"reset">>
<1>1. PICK d, p \in Endpoint : Between(s, d, p)
  BY SocketsAreBetween
<1>2. e = d \/ e = p
  BY <1>1 DEF Between
<1>3. way[s][e] \in {<<>>, <<"upgrade">>, <<"reply">>, <<"duplicate">>}
  <2>1. Fits(end[s][d], end[s][p], way[s][d], way[s][p])
    BY <1>1, CalmSocket
  <2> QED BY <1>2, <2>1 DEF Fits
<1>4. Head(<<"upgrade">>) = "upgrade" /\ Head(<<"reply">>) = "reply"
      /\ Head(<<"duplicate">>) = "duplicate" /\ Head(<<"reset">>) = "reset" /\ <<"reset">> # <<>>
  BY FirstItems
<1> QED BY <1>3, <1>4 DEF Reset

\* An endpoint dials.
LEMMA ConnectKeepsCalm ==
    ASSUME IInv, Calm, NEW e \in Endpoint, Connect(e)
    PROVE  Calm'
<1>1. PICK s : s = Len(dialer) + 1
  OBVIOUS
<1>2. TypeOK
  BY DEF IInv
<1>3. /\ Socket' = Socket \cup {s} /\ s \notin Socket /\ s # None
      /\ \A t \in Socket : dialer'[t] = dialer[t] /\ end'[t] = end[t] /\ way'[t] = way[t]
      /\ dialer'[s] = e
      /\ end'[s] = [x \in Endpoint |-> IF x = e THEN "connecting" ELSE "none"]
      /\ way'[s] = [x \in Endpoint |-> IF x = e THEN <<>> ELSE <<"upgrade">>]
      /\ pending' = [pending EXCEPT ![e] = s]
      /\ connections' = connections /\ listening' = listening
  BY <1>1, <1>2, OneMoreSocket
<1>4. PICK p : p = Peer(e)
  OBVIOUS
<1>5. p \in Endpoint /\ p # e
  BY <1>4, TwoEndpoints
<1>6. /\ end'[s][e] = "connecting" /\ end'[s][p] = "none"
      /\ way'[s][e] = <<>> /\ way'[s][p] = <<"upgrade">>
  BY <1>3, <1>5
<1>7. \A t \in Socket : dialer[t] # e
  <2> SUFFICES ASSUME NEW t \in Socket, dialer[t] = e PROVE FALSE
    OBVIOUS
  <2>1. PICK d, q \in Endpoint : Between(t, d, q)
    BY SocketsAreBetween
  <2>2. d = e /\ t # None
    BY <2>1 DEF Between
  <2>3. Fits(end[t][d], end[t][q], way[t][d], way[t][q])
        /\ phases[t] = PhaseOf(end[t][d], end[t][q]) /\ phases[t] \in Phase
    BY <2>1, CalmSocket
  <2>4. pending[e] = None /\ (connections[e] # None => end[connections[e]][e] = "closing")
    BY DEF Connect
  <2>5. Tie(Socket, dialer, phases, connections, pending)
    BY DEF Calm
  <2>6. phases[t] \notin {"dialed", "accepted"}
    BY <2>2, <2>4, <2>5 DEF Tie
  <2>7. phases[t] # "opened"
    <3>1. SUFFICES ASSUME phases[t] = "opened" PROVE FALSE
      OBVIOUS
    <3>2. connections[e] = t
      BY <2>5, <3>1 DEF Tie
    <3>3. end[t][e] = "closing"
      BY <2>2, <2>4, <3>2
    <3> QED BY <2>2, <2>3, <3>1, <3>3 DEF PhaseOf
  <2>8. phases[t] \in {"dropped", "answered", "over"}
    BY <2>3, <2>6, <2>7 DEF Phase
  <2>9. e = Larger
    BY <2>5, <2>8 DEF Tie
  <2>10. PICK u \in Socket : dialer[u] # Larger /\ phases[u] \in {"accepted", "opened"}
    BY <2>5, <2>8 DEF Tie
  <2>11. connections[Larger] = u
    BY <2>5, <2>10 DEF Tie
  <2>12. PICK f, g \in Endpoint : Between(u, f, g)
    BY SocketsAreBetween
  <2>13. Larger = g /\ u # None
    BY <2>9, <2>10, <2>12 DEF Between
  <2>14. Fits(end[u][f], end[u][g], way[u][f], way[u][g])
         /\ phases[u] = PhaseOf(end[u][f], end[u][g])
    BY <2>12, CalmSocket
  <2>15. end[u][g] = "open"
    BY <2>10, <2>14 DEF Fits, PhaseOf
  <2> QED BY <2>4, <2>9, <2>11, <2>13, <2>15
<1>8. \A t \in Socket' : SocketFits(t)'
  <2>1. ASSUME NEW t \in Socket PROVE SocketFits(t)'
    BY <1>3 DEF Calm, SocketFits
  <2>2. SocketFits(s)'
    BY <1>3, <1>4, <1>6 DEF SocketFits, Fits
  <2> QED BY <1>3, <2>1, <2>2
<1>9. \A t \in Socket : phases'[t] = phases[t]
  BY <1>3 DEF phases
<1>10. phases'[s] = "dialed"
  BY <1>3, <1>4, <1>6 DEF phases, PhaseOf
<1>11. pending'[e] = s /\ \A x \in Endpoint : x # e => pending'[x] = pending[x]
  BY <1>2, <1>3 DEF TypeOK, Numbers
<1>12. None \notin Socket /\ Tie(Socket, dialer, phases, connections, pending)
  BY <1>2, SocketsAreNumbers DEF Calm
<1>13. Tie(Socket \cup {s}, dialer', phases', connections, pending')
  <2>1. PICK S, D, ph, con, pen :
           S = Socket /\ D = dialer /\ ph = phases /\ con = connections /\ pen = pending
    OBVIOUS
  <2>2. PICK E, next, pnext : E = dialer' /\ next = phases' /\ pnext = pending'
    OBVIOUS
  <2>3. Tie(S, D, ph, con, pen) /\ None \notin S
    BY <1>12, <2>1
  <2>4. /\ s \notin S /\ s # None /\ E[s] = e /\ next[s] = "dialed" /\ pnext[e] = s
        /\ \A t \in S : E[t] = D[t] /\ next[t] = ph[t]
        /\ \A x \in Endpoint : x # e => pnext[x] = pen[x]
        /\ \A t \in S : D[t] # e
    BY <1>3, <1>7, <1>9, <1>10, <1>11, <2>1, <2>2
  <2>5. Tie(S \cup {s}, E, next, con, pnext)
    BY <2>3, <2>4, TieDials
  <2> QED BY <2>1, <2>2, <2>5
<1> QED BY <1>3, <1>8, <1>13 DEF Calm

\* An endpoint gives its peer up.
LEMMA PingFailsKeepsCalm ==
    ASSUME IInv, Calm, NEW e \in Endpoint, PingFails(e), failures' = 0
    PROVE  Calm'
<1>1. PICK s : s = connections[e]
  OBVIOUS
<1>2. /\ TypeOK /\ dialer' = dialer /\ s # None
      /\ pending' = pending /\ listening' = listening
      /\ OnClose(e, s, "")
  BY <1>1 DEF IInv, PingFails
<1>3. s \in Socket
  BY <1>1, <1>2 DEF TypeOK, Numbers
<1>4. PICK d, p \in Endpoint : Between(s, d, p)
  BY <1>3, SocketsAreBetween
<1>5. (e = d \/ e = p) /\ dialer[s] = d /\ d # p /\ \A x \in Endpoint : x = d \/ x = p
  BY <1>4 DEF Between
<1>6. Gone(s)
  <2>1. failures \in Nat
    BY <1>2 DEF TypeOK
  <2>2. failures + 1 # 0
    BY <2>1
  <2> QED BY <1>1, <2>2 DEF PingFails, Event
<1>7. /\ Fits(end[s][d], end[s][p], way[s][d], way[s][p])
      /\ phases[s] = PhaseOf(end[s][d], end[s][p])
      /\ None \notin Socket
  BY <1>3, <1>4, CalmSocket
<1>8. end[s][d] = "closed" \/ end[s][p] = "closed"
  BY <1>3, <1>5, <1>6, NoReset DEF Gone
<1>9. phases[s] \in {"answered", "over"} /\ end[s][p] = "closed"
  BY <1>7, <1>8 DEF Fits, PhaseOf
<1>10. Tie(Socket, dialer, phases, connections, pending)
  BY DEF Calm
<1>11. e = p /\ IsServer(s, e)
  <2>1. connections[d] = s => phases[s] = "opened"
    BY <1>3, <1>4, <1>5, <1>10 DEF Tie, Between
  <2> QED BY <1>1, <1>5, <1>9, <2>1 DEF IsServer
<1>12. way' = way
  BY <1>1, <1>9, <1>11 DEF PingFails
<1>13. end' = end
  <2>1. end' = [end EXCEPT ![s][e] = "closed"]
    BY <1>1, <1>11 DEF PingFails, EndBecomes
  <2> QED BY <1>2, <1>3, <1>9, <1>11, <2>1 DEF TypeOK, Ends
<1>14. connections'[e] = None /\ \A x \in Endpoint : x # e => connections'[x] = connections[x]
  <2>1. "" # "duplicate"
    OBVIOUS
  <2>2. Takes(e, None)
    BY <1>2, <2>1 DEF OnClose
  <2> QED BY <1>2, <2>2, IsTaken
<1>15. Tie(Socket, dialer, phases, connections', pending)
  BY <1>1, <1>3, <1>7, <1>9, <1>10, <1>14, TieForgets
<1>16. phases' = phases /\ Socket' = Socket /\ \A t \in Socket : SocketFits(t)'
  BY <1>2, <1>12, <1>13 DEF phases, Socket, Calm, SocketFits
<1> QED BY <1>2, <1>15, <1>16 DEF Calm

\* A step that leaves the sockets alone
LEMMA NothingDisturbs ==
    ASSUME Calm, UNCHANGED <<dialer, end, way, connections, pending, listening>>
    PROVE  Calm'
BY DEF Calm, SocketFits, phases, Socket

\* Every step that disturbs nothing keeps the sockets calm.
LEMMA NextKeepsCalm ==
    IInv /\ CalmUnlessDisturbed /\ [Next]_vars => CalmUnlessDisturbed'
<1> SUFFICES ASSUME IInv, CalmUnlessDisturbed, [Next]_vars, failures' = 0, ~ astray'
             PROVE  Calm'
  BY DEF CalmUnlessDisturbed
<1>1. failures \in Nat /\ TypeOK
  BY DEF IInv, TypeOK
<1>2. CASE UNCHANGED vars
  <2>1. Calm
    BY <1>2 DEF CalmUnlessDisturbed, vars
  <2> QED BY <1>2, <2>1, NothingDisturbs DEF vars
<1>3. ASSUME NEW e \in Endpoint,
             \/ Connect(e)
             \/ \E s \in Socket : Arrives(s, e) \/ Reset(s, e) \/ Pong(s, e)
             \/ Close(e) \/ Stop(e)
             \/ PingFails(e) \/ Ping(e)
             \/ \E s \in Socket : Fails(s)
      PROVE  Calm'
  <2>1. ~ Event
    BY <1>1 DEF Event
  <2>2. ~ Close(e) /\ ~ Stop(e) /\ ~ \E s \in Socket : Fails(s)
    BY <2>1 DEF Close, Stop, Fails
  <2>3. CASE Connect(e)
    <3>1. Calm
      BY <2>3 DEF Connect, CalmUnlessDisturbed
    <3> QED BY <2>3, <3>1, ConnectKeepsCalm
  <2>4. ASSUME NEW s \in Socket, Upgrade(s, e) PROVE Calm'
    <3>1. astray => astray'
      BY <2>4 DEF Upgrade, OnClose, Keep
    <3>2. Calm
      BY <2>4, <3>1 DEF Upgrade, CalmUnlessDisturbed
    <3> QED BY <2>4, <3>2, UpgradeKeepsCalm
  <2>5. ASSUME NEW s \in Socket, Opens(s, e) PROVE Calm'
    <3>1. Calm
      BY <2>5 DEF Opens, Keep, CalmUnlessDisturbed
    <3> QED BY <2>5, <3>1, OpensKeepsCalm
  <2>6. ASSUME NEW s \in Socket, CloseFrame(s, e) PROVE Calm'
    <3>1. astray => astray'
      BY <2>6 DEF CloseFrame, OnClose, Keep
    <3>2. Calm
      BY <2>6, <3>1 DEF CloseFrame, CalmUnlessDisturbed
    <3> QED BY <2>6, <3>2, CloseFrameKeepsCalm
  <2>7. ASSUME NEW s \in Socket, Reset(s, e) PROVE Calm'
    <3>1. astray => astray'
      BY <2>7 DEF Reset, OnClose, Keep
    <3>2. Calm
      BY <2>7, <3>1 DEF Reset, CalmUnlessDisturbed
    <3> QED BY <2>7, <3>2, NoReset
  <2>8. CASE PingFails(e)
    <3>1. astray => astray'
      BY <2>8 DEF PingFails, OnClose, Keep
    <3>2. failures = 0
      BY <1>1, <2>1, <2>8 DEF PingFails
    <3>3. Calm
      BY <3>1, <3>2 DEF CalmUnlessDisturbed
    <3> QED BY <2>8, <3>3, PingFailsKeepsCalm
  <2>9. CASE Ping(e) \/ \E s \in Socket : Pong(s, e)
    <3>1. Calm
      BY <2>9 DEF Ping, Pong, CalmUnlessDisturbed
    <3> QED BY <2>9, <3>1, NothingDisturbs DEF Ping, Pong
  <2> QED BY <1>3, <2>2, <2>3, <2>4, <2>5, <2>6, <2>7, <2>8, <2>9 DEF Arrives
<1> QED BY <1>2, <1>3 DEF Next

\* There are no sockets to disturb.
LEMMA InitIsCalm == Init => CalmUnlessDisturbed
<1> SUFFICES ASSUME Init PROVE Calm
  BY DEF CalmUnlessDisturbed
<1>1. Socket = {}
  BY DEF Init, Socket
<1>2. \A e \in Endpoint : connections[e] = None
  BY DEF Init
<1> QED BY <1>1, <1>2 DEF Init, Calm, Tie

\* Without failures and without a close handler that goes astray, the sockets of
\* two endpoints go through six phases, and of two that cross the smaller's stays.
THEOREM CalmInvariant == Spec => [](IInv /\ CalmUnlessDisturbed)
<1>1. Init => IInv /\ CalmUnlessDisturbed
  BY InitEstablishesIInv, InitIsCalm
<1>2. IInv /\ CalmUnlessDisturbed /\ [Next]_vars => IInv' /\ CalmUnlessDisturbed'
  BY NextKeepsIInv, NextKeepsCalm
<1> QED BY <1>1, <1>2, PTL DEF Spec

\* Two endpoints that dial each other at the same time end up with one socket
\* that both use, in whatever order the sockets are accepted and opened.
THEOREM TieIsAlwaysBroken == Spec => []TieIsBroken
<1>1. IInv /\ CalmUnlessDisturbed => TieIsBroken
  <2> SUFFICES ASSUME IInv, Calm, Settled, Socket # {}
               PROVE  \E s \in Socket : \A e \in Endpoint : connections[e] = s
    BY DEF TieIsBroken, CalmUnlessDisturbed
  <2>1. None \notin Socket
    BY SocketsAreNumbers DEF IInv
  <2>2. ASSUME NEW s \in Socket PROVE phases[s] \in {"opened", "over"}
    <3>1. PICK d, p \in Endpoint : Between(s, d, p)
      BY SocketsAreBetween
    <3>2. /\ Fits(end[s][d], end[s][p], way[s][d], way[s][p])
          /\ phases[s] = PhaseOf(end[s][d], end[s][p])
      BY <3>1, CalmSocket
    <3>3. way[s][d] = <<>> /\ way[s][p] = <<>>
      BY DEF Settled
    <3>4. <<"upgrade">> # <<>> /\ <<"reply">> # <<>> /\ <<"duplicate">> # <<>>
      BY FirstItems
    <3> QED BY <3>2, <3>3, <3>4 DEF Fits, PhaseOf
  <2>3. Tie(Socket, dialer, phases, connections, pending)
    BY DEF Calm
  <2> QED BY <2>1, <2>2, <2>3, TieEnds
<1> QED BY <1>1, CalmInvariant, PTL
=============================================================================
