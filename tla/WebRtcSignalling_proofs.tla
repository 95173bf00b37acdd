----------------------- MODULE WebRtcSignalling_proofs -----------------------
(***************************************************************************)
(* Proofs about the signalling of src/connection/WebRtcEndpoint.ts,        *)
(* RtcSignaller.ts and rtcSignallingHandlers.ts, for two peers and any     *)
(* number of failures: what is left of earlier attempts does not tear down *)
(* a connection that is open at both ends.                                 *)
(***************************************************************************)
EXTENDS WebRtcSignalling, SequenceTheorems, FiniteSetTheorems, WellFoundedInduction, TLAPS

ConnectionType == [gen : Nat, remote : Nat, state : {"none", "new", "open"},
                   candidate : Nat, enqueued : Nat, sent : Nat]

MessageType == [type : {"offer", "answer", "candidate", "connect", "error"}, gen : Nat]

TypeOK ==
    /\ conn \in [Peer -> ConnectionType]
    /\ up \in [Peer -> Seq(MessageType)]
    /\ down \in [Peer -> Seq(MessageType)]
    /\ online \subseteq Peer /\ known \subseteq Peer /\ stopped \subseteq Peer
    /\ events \in Nat

\* Only a connection has a generation, and what it was told.
GenerationsOK ==
    \A p \in Peer : IF Exists(p) THEN conn[p].gen > 0 ELSE conn[p] = NoConnection

\* What makes a peer set a description, or replace its connection
Telling(m) == m.type \in {"offer", "answer", "connect"}

Description(m, gen) == m.type \in {"offer", "answer"} /\ m.gen = gen

Tells(queue) == \E i \in DOMAIN queue : Telling(queue[i])

Describes(queue, gen) == \E i \in DOMAIN queue : Description(queue[i], gen)

\* After that description, there is nothing of the kind.
EndsWith(queue, gen) ==
    \A i, j \in DOMAIN queue :
        i < j /\ Description(queue[i], gen) => ~ Telling(queue[j])

\* The description of a connection is the last that its peer tells the other, and
\* is on the way until the other has it.
InOrder(p) ==
    LET q == Other(p)
        gen == conn[p].gen
    IN  Exists(p) =>
          /\ EndsWith(up[p], gen) /\ EndsWith(down[q], gen)
          /\ Describes(down[q], gen) => ~ Tells(up[p])
          /\ Describes(down[q], gen) \/ Describes(up[p], gen)
                => conn[p].sent > 0 /\ conn[q].remote # gen
          /\ conn[q].remote = gen
                => conn[p].sent > 0 /\ ~ Tells(up[p]) /\ ~ Tells(down[q])

IInv == TypeOK /\ GenerationsOK /\ \A p \in Peer : InOrder(p)

-----------------------------------------------------------------------------
(***************************************************************************)
(* Generations                                                             *)
(***************************************************************************)
\* A finite set of numbers leaves one out.
LEMMA LeftOut ==
    ASSUME NEW used, IsFiniteSet(used)
    PROVE  LET fresh == Min(1 .. Cardinality(used) + 1 \ used)
           IN  fresh \in Nat /\ fresh > 0 /\ fresh \notin used
<1> DEFINE n == Cardinality(used)
           free == (1 .. n + 1) \ used
<1>1. n \in Nat
  BY FS_CardinalityType
<1>2. free # {}
  <2> SUFFICES ASSUME free = {} PROVE FALSE
    OBVIOUS
  <2>1. 1 .. n + 1 \in SUBSET used
    OBVIOUS
  <2>2. Cardinality(1 .. n + 1) <= n
    BY <2>1, FS_Subset
  <2>3. Cardinality(1 .. n + 1) = n + 1
    BY <1>1, FS_Interval
  <2> QED BY <1>1, <2>2, <2>3
<1>3. free \subseteq Nat /\ \A x \in free : x > 0
  BY <1>1
<1>4. \E x \in free : \A y \in free : x <= y
  <2> DEFINE R == {p \in Nat \X Nat : p[1] < p[2]}
  <2>1. IsWellFoundedOn(R, Nat)
    BY NatLessThanWellFounded DEF OpToRel
  <2> HIDE DEF R, free
  <2>2. PICK x \in free : \A y \in free : ~ (<<y, x>> \in R)
    BY <1>2, <1>3, <2>1, WFMin
  <2>3. ASSUME NEW y \in free PROVE x <= y
    <3>1. x \in Nat /\ y \in Nat
      BY <1>3
    <3>2. y < x => <<y, x>> \in R
      BY <3>1 DEF R
    <3> QED BY <2>2, <3>1, <3>2
  <2> QED BY <2>3
<1> HIDE DEF free
<1>5. Min(free) \in free
  BY <1>4 DEF Min
<1> QED BY <1>3, <1>5 DEF free

\* The generations in a queue
LEMMA QueuedAreFinite ==
    ASSUME NEW queue \in Seq(MessageType)
    PROVE  IsFiniteSet({queue[i].gen : i \in DOMAIN queue})
<1> DEFINE gens == {queue[i].gen : i \in DOMAIN queue}
           gen == [i \in DOMAIN queue |-> queue[i].gen]
<1>1. IsFiniteSet(DOMAIN queue)
  <2>1. Len(queue) \in Int /\ DOMAIN queue = 1 .. Len(queue)
    BY LenProperties
  <2> QED BY <2>1, FS_Interval
<1>2. gen \in Surjection(DOMAIN queue, gens)
  BY DEF Surjection
<1> QED BY <1>1, <1>2, FS_Surjection

\* A new connection has a generation that nothing refers to.
LEMMA FreshIsNew ==
    ASSUME TypeOK, NEW p \in Peer
    PROVE  /\ Fresh(p) \in Nat /\ Fresh(p) > 0
           /\ conn[Other(p)].remote # Fresh(p)
           /\ ~ Describes(up[p], Fresh(p)) /\ ~ Describes(down[Other(p)], Fresh(p))
<1>1. Other(p) \in Peer
  BY DEF Other, Peer
<1> DEFINE peer == conn[Other(p)]
           onTheWay(q) == {q[i].gen : i \in DOMAIN q}
           named == {conn[p].gen, peer.remote, peer.candidate, peer.enqueued}
           used == named \cup onTheWay(up[p]) \cup onTheWay(down[Other(p)])
<1>2. IsFiniteSet(used)
  <2>1. IsFiniteSet(named)
    <3>1. IsFiniteSet({conn[p].gen}) /\ IsFiniteSet({peer.remote})
          /\ IsFiniteSet({peer.candidate}) /\ IsFiniteSet({peer.enqueued})
      BY FS_Singleton
    <3> DEFINE first == {conn[p].gen} \cup {peer.remote}
               second == {peer.candidate} \cup {peer.enqueued}
    <3>2. IsFiniteSet(first) /\ IsFiniteSet(second)
      BY <3>1, FS_Union
    <3>3. named = first \cup second
      OBVIOUS
    <3> HIDE DEF first, second, named
    <3> QED BY <3>2, <3>3, FS_Union
  <2>2. IsFiniteSet(onTheWay(up[p])) /\ IsFiniteSet(onTheWay(down[Other(p)]))
    BY <1>1, QueuedAreFinite DEF TypeOK
  <2> HIDE DEF named, onTheWay
  <2> QED BY <2>1, <2>2, FS_Union
<1>3. Fresh(p) = Min(1 .. Cardinality(used) + 1 \ used)
  BY DEF Fresh
<1>4. peer.remote \in used
  OBVIOUS
<1>5. \A i \in DOMAIN up[p] : up[p][i].gen \in used
  OBVIOUS
<1>6. \A i \in DOMAIN down[Other(p)] : down[Other(p)][i].gen \in used
  OBVIOUS
<1> HIDE DEF used
<1>7. Fresh(p) \in Nat /\ Fresh(p) > 0 /\ Fresh(p) \notin used
  BY <1>2, <1>3, LeftOut
<1> QED BY <1>4, <1>5, <1>6, <1>7 DEF Describes, Description

-----------------------------------------------------------------------------
(***************************************************************************)
(* Queues                                                                  *)
(***************************************************************************)
\* A queue to which a message is added
LEMMA Added ==
    ASSUME NEW queue \in Seq(MessageType), NEW m \in MessageType, NEW gen
    PROVE  /\ Append(queue, m) \in Seq(MessageType)
           /\ Tells(Append(queue, m)) <=> Tells(queue) \/ Telling(m)
           /\ Describes(Append(queue, m), gen) <=> Describes(queue, gen) \/ Description(m, gen)
           /\ EndsWith(queue, gen) /\ (Describes(queue, gen) => ~ Telling(m))
              => EndsWith(Append(queue, m), gen)
<1> DEFINE next == Append(queue, m)
           n == Len(queue)
<1>1. /\ next \in Seq(MessageType)
      /\ n \in Nat /\ DOMAIN queue = 1 .. n /\ DOMAIN next = 1 .. n + 1
      /\ \A i \in DOMAIN queue : next[i] = queue[i]
      /\ next[n + 1] = m
  BY AppendProperties, LenProperties
<1> HIDE DEF next, n
<1>2. \A i \in DOMAIN next : i \in DOMAIN queue \/ i = n + 1
  BY <1>1
<1>3. \A i \in DOMAIN queue : i \in DOMAIN next
  BY <1>1
<1>4. n + 1 \in DOMAIN next
  BY <1>1
<1>5. Tells(next) <=> Tells(queue) \/ Telling(m)
  BY <1>1, <1>2, <1>3, <1>4 DEF Tells
<1>6. Describes(next, gen) <=> Describes(queue, gen) \/ Description(m, gen)
  BY <1>1, <1>2, <1>3, <1>4 DEF Describes
<1>7. ASSUME EndsWith(queue, gen), Describes(queue, gen) => ~ Telling(m)
      PROVE  EndsWith(next, gen)
  <2> SUFFICES ASSUME NEW i \in DOMAIN next, NEW j \in DOMAIN next, i < j,
                      Description(next[i], gen)
               PROVE  ~ Telling(next[j])
    BY DEF EndsWith
  <2>1. i \in DOMAIN queue
    BY <1>1
  <2>2. Description(queue[i], gen)
    BY <1>1, <2>1
  <2>3. CASE j \in DOMAIN queue
    BY <1>1, <1>7, <2>1, <2>2, <2>3 DEF EndsWith
  <2>4. CASE j = n + 1
    BY <1>1, <1>7, <2>1, <2>2, <2>4 DEF Describes
  <2> QED BY <1>2, <2>3, <2>4
<1> QED BY <1>1, <1>5, <1>6, <1>7 DEF next

\* A queue whose first message is taken
LEMMA Taken ==
    ASSUME NEW queue \in Seq(MessageType), queue # <<>>, NEW gen
    PROVE  /\ Head(queue) \in MessageType /\ Tail(queue) \in Seq(MessageType)
           /\ Telling(Head(queue)) => Tells(queue)
           /\ Description(Head(queue), gen) => Describes(queue, gen)
           /\ Tells(Tail(queue)) => Tells(queue)
           /\ Describes(Tail(queue), gen) => Describes(queue, gen)
           /\ EndsWith(queue, gen) => EndsWith(Tail(queue), gen)
           /\ EndsWith(queue, gen) /\ Description(Head(queue), gen) => ~ Tells(Tail(queue))
<1> DEFINE next == Tail(queue)
           n == Len(queue)
<1>1. /\ next \in Seq(MessageType) /\ Head(queue) \in MessageType
      /\ n \in Nat \ {0} /\ DOMAIN queue = 1 .. n /\ DOMAIN next = 1 .. n - 1
      /\ \A i \in DOMAIN next : next[i] = queue[i + 1]
      /\ Head(queue) = queue[1]
  BY HeadTailProperties, LenProperties, EmptySeq
<1> HIDE DEF next, n
<1>2. 1 \in DOMAIN queue
  BY <1>1
<1>3. \A i \in DOMAIN next : i \in Nat /\ i + 1 \in DOMAIN queue /\ 1 < i + 1
  BY <1>1
<1>4. /\ Telling(Head(queue)) => Tells(queue)
      /\ Description(Head(queue), gen) => Describes(queue, gen)
  BY <1>1, <1>2 DEF Tells, Describes
<1>5. /\ Tells(next) => Tells(queue)
      /\ Describes(next, gen) => Describes(queue, gen)
  BY <1>1, <1>3 DEF Tells, Describes
<1>6. ASSUME EndsWith(queue, gen)
      PROVE  EndsWith(next, gen)
  <2> SUFFICES ASSUME NEW i \in DOMAIN next, NEW j \in DOMAIN next, i < j,
                      Description(next[i], gen)
               PROVE  ~ Telling(next[j])
    BY DEF EndsWith
  <2>1. i + 1 \in DOMAIN queue /\ j + 1 \in DOMAIN queue /\ i + 1 < j + 1
    BY <1>3
  <2>2. next[i] = queue[i + 1] /\ next[j] = queue[j + 1]
    BY <1>1
  <2> QED BY <1>6, <2>1, <2>2 DEF EndsWith
<1>7. ASSUME EndsWith(queue, gen), Description(Head(queue), gen)
      PROVE  ~ Tells(next)
  BY <1>1, <1>2, <1>3, <1>7 DEF EndsWith, Tells
<1> QED BY <1>1, <1>4, <1>5, <1>6, <1>7 DEF next

\* An empty queue
LEMMA Nothing ==
    ASSUME NEW gen
    PROVE  /\ <<>> \in Seq(MessageType)
           /\ ~ Tells(<<>>) /\ ~ Describes(<<>>, gen) /\ EndsWith(<<>>, gen)
BY DEF Tells, Describes, EndsWith

\* Order in two queues, one behind the other: a step keeps it if it tells no more,
\* and the other peer has heard no more.
LEMMA LessIsInOrder ==
    ASSUME NEW p \in Peer, InOrder(p), ~ Exists(p)' \/ conn'[p].gen = conn[p].gen,
           Exists(p)' => Exists(p) /\ conn'[p].sent >= conn[p].sent,
           conn[p].sent \in Nat, conn'[p].sent \in Nat,
           \A gen : /\ Tells(up'[p]) => Tells(up[p])
                    /\ Describes(up'[p], gen) => Describes(up[p], gen)
                    /\ EndsWith(up[p], gen) => EndsWith(up'[p], gen)
                    /\ Tells(down'[Other(p)]) => Tells(down[Other(p)])
                    /\ Describes(down'[Other(p)], gen) => Describes(down[Other(p)], gen)
                    /\ EndsWith(down[Other(p)], gen) => EndsWith(down'[Other(p)], gen),
           Exists(p)' => \/ conn'[Other(p)].remote = conn[Other(p)].remote
                         \/ conn'[Other(p)].remote # conn[p].gen
    PROVE  InOrder(p)'
<1> SUFFICES ASSUME Exists(p)' PROVE InOrder(p)'
  BY DEF InOrder
<1> DEFINE q == Other(p)
           gen == conn[p].gen
<1>1. /\ EndsWith(up[p], gen) /\ EndsWith(down[q], gen)
      /\ Describes(down[q], gen) => ~ Tells(up[p])
      /\ Describes(down[q], gen) \/ Describes(up[p], gen)
            => conn[p].sent > 0 /\ conn[q].remote # gen
      /\ conn[q].remote = gen
            => conn[p].sent > 0 /\ ~ Tells(up[p]) /\ ~ Tells(down[q])
  BY DEF InOrder
<1>2. conn'[p].gen = gen /\ (conn[p].sent > 0 => conn'[p].sent > 0)
  OBVIOUS
<1> HIDE DEF q, gen
<1> QED BY <1>1, <1>2 DEF InOrder, q, gen

-----------------------------------------------------------------------------
(***************************************************************************)
(* The parts of the actions                                                *)
(***************************************************************************)
LEMMA Peers ==
    ASSUME NEW p \in Peer
    PROVE  /\ Other(p) \in Peer /\ Other(p) # p /\ Other(Other(p)) = p
           /\ \A r \in Peer : r = p \/ r = Other(p)
           /\ p = Small \/ p = Large
           /\ Other(Small) = Large /\ Other(Large) = Small
           /\ Small \in Peer /\ Large \in Peer
BY PeerAssumption DEF Peer, Other

\* A message of an online peer is appended, one of an offline peer is lost.
LEMMA Sent ==
    ASSUME TypeOK, NEW p \in Peer, NEW m \in MessageType, Sends(p, m)
    PROVE  /\ up' \in [Peer -> Seq(MessageType)]
           /\ up'[Other(p)] = up[Other(p)]
           /\ up'[p] = up[p] \/ up'[p] = Append(up[p], m)
<1>1. Append(up[p], m) \in Seq(MessageType)
  BY AppendProperties DEF TypeOK
<1> QED BY <1>1, Peers DEF Sends, TypeOK

\* A peer takes the first message the tracker has for it.
LEMMA TakesFrom ==
    ASSUME TypeOK, NEW p \in Peer, NEW type, Takes(p, type)
    PROVE  /\ down[p] \in Seq(MessageType) /\ down[p] # <<>>
           /\ Head(down[p]) \in MessageType /\ Head(down[p]).type = type
           /\ down' \in [Peer -> Seq(MessageType)]
           /\ down'[p] = Tail(down[p])
           /\ down'[Other(p)] = down[Other(p)]
           /\ online' \subseteq Peer /\ known' \subseteq Peer /\ stopped' \subseteq Peer
           /\ events' \in Nat
<1>1. down[p] \in Seq(MessageType) /\ down[p] # <<>>
  BY DEF TypeOK, Takes
<1>2. Head(down[p]) \in MessageType /\ Tail(down[p]) \in Seq(MessageType)
  BY <1>1, Taken
<1> QED BY <1>1, <1>2, Peers DEF Takes, TypeOK, trackerVars

\* A new connection: nothing refers to it yet.
LEMMA Created ==
    ASSUME IInv, NEW p \in Peer, NEW remote \in Nat, Creates(p, remote),
           down'[Other(p)] = down[Other(p)]
    PROVE  /\ conn' \in [Peer -> ConnectionType]
           /\ up' \in [Peer -> Seq(MessageType)]
           /\ GenerationsOK'
           /\ InOrder(p)'
           /\ conn'[Other(p)] = conn[Other(p)] /\ up'[Other(p)] = up[Other(p)]
           /\ Exists(p)' /\ conn'[p].remote = remote
<1> DEFINE q == Other(p)
           gen == Fresh(p)
           request == Message("connect", 0)
<1>1. TypeOK /\ GenerationsOK
  BY DEF IInv
<1>2. /\ gen \in Nat /\ gen > 0 /\ conn[q].remote # gen
      /\ ~ Describes(up[p], gen) /\ ~ Describes(down[q], gen)
  BY <1>1, FreshIsNew
<1>3. q \in Peer /\ q # p /\ \A r \in Peer : r = p \/ r = q
  BY Peers
<1> HIDE DEF gen, q
<1>4. /\ conn' = [conn EXCEPT ![p] = Connection(gen, remote, "new")]
      /\ IF p = Large THEN Sends(p, request) ELSE up' = up
  BY DEF Creates, gen
<1>5. /\ conn'[p] = Connection(gen, remote, "new")
      /\ conn'[q] = conn[q]
      /\ conn' \in [Peer -> ConnectionType]
  BY <1>1, <1>2, <1>3, <1>4 DEF TypeOK, ConnectionType, Connection
<1>6. conn'[p].gen = gen /\ conn'[p].state = "new" /\ conn'[p].remote = remote
  BY <1>5 DEF Connection
<1>7. request \in MessageType /\ ~ Description(request, gen)
  BY DEF Message, MessageType, Description
<1>8. /\ up' \in [Peer -> Seq(MessageType)]
      /\ up'[q] = up[q]
      /\ up'[p] = up[p] \/ up'[p] = Append(up[p], request)
  BY <1>1, <1>4, <1>7, Sent DEF TypeOK, q
<1>9. ~ Describes(up'[p], gen) /\ ~ Describes(down'[q], gen)
  <2>1. ~ Describes(Append(up[p], request), gen)
    BY <1>1, <1>2, <1>7, Added DEF TypeOK
  <2> QED BY <1>2, <1>8, <2>1 DEF q
<1>10. InOrder(p)'
  <2>1. EndsWith(up'[p], gen) /\ EndsWith(down'[q], gen)
    BY <1>9 DEF EndsWith, Describes
  <2> QED BY <1>2, <1>5, <1>6, <1>9, <2>1 DEF InOrder, q
<1>11. GenerationsOK'
  BY <1>1, <1>2, <1>3, <1>5, <1>6 DEF GenerationsOK, Exists
<1> QED BY <1>5, <1>6, <1>8, <1>10, <1>11 DEF q, Exists

\* The other peer has the description it was waiting for.
LEMMA Told ==
    ASSUME NEW p \in Peer, InOrder(p), TypeOK,
           conn'[p] = conn[p], up'[p] = up[p],
           down[Other(p)] # <<>>, down'[Other(p)] = Tail(down[Other(p)]),
           Description(Head(down[Other(p)]), conn'[Other(p)].remote)
    PROVE  InOrder(p)'
<1> DEFINE q == Other(p)
           gen == conn[p].gen
<1>1. CASE conn'[q].remote # gen
  <2>1. q \in Peer
    BY Peers
  <2>2. \A g : /\ Tells(down'[q]) => Tells(down[q])
               /\ Describes(down'[q], g) => Describes(down[q], g)
               /\ EndsWith(down[q], g) => EndsWith(down'[q], g)
    BY <2>1, Taken DEF TypeOK
  <2>3. conn[p].sent \in Nat
    BY DEF TypeOK, ConnectionType
  <2>4. (Exists(p)' <=> Exists(p)) /\ conn'[p].gen = conn[p].gen /\ conn'[p].sent = conn[p].sent
    BY DEF Exists
  <2>5. conn'[p].sent >= conn[p].sent
    BY <2>3, <2>4
  <2> QED BY <1>1, <2>2, <2>3, <2>4, <2>5, LessIsInOrder
<1>2. CASE conn'[q].remote = gen
  <2> SUFFICES ASSUME Exists(p) PROVE InOrder(p)'
    BY DEF InOrder, Exists
  <2>1. down[q] \in Seq(MessageType)
    BY Peers DEF TypeOK
  <2>2. Description(Head(down[q]), gen)
    BY <1>2
  <2>3. /\ EndsWith(up[p], gen) /\ EndsWith(down[q], gen)
        /\ Describes(down[q], gen) => ~ Tells(up[p]) /\ conn[p].sent > 0
    BY DEF InOrder
  <2>4. ~ Tells(up[p]) /\ conn[p].sent > 0
    BY <2>1, <2>2, <2>3, Taken
  <2>5. ~ Tells(down'[q]) /\ EndsWith(down'[q], gen)
    BY <2>1, <2>2, <2>3, Taken
  <2>6. ~ Describes(down'[q], gen) /\ ~ Describes(up'[p], gen)
    BY <2>4, <2>5 DEF Describes, Tells, Description, Telling
  <2> QED BY <1>2, <2>3, <2>4, <2>5, <2>6 DEF InOrder
<1> QED BY <1>1, <1>2

\* A step that tells nothing, and does to the connections what does not matter
LEMMA Untold ==
    ASSUME IInv, NEW p \in Peer,
           conn' \in [Peer -> ConnectionType],
           Exists(p)' => /\ Exists(p)
                         /\ conn'[p].gen = conn[p].gen
                         /\ conn'[p].sent >= conn[p].sent,
           \/ conn'[Other(p)].remote = conn[Other(p)].remote
           \/ conn'[Other(p)].remote = 0,
           \A gen : /\ Tells(up'[p]) => Tells(up[p])
                    /\ Describes(up'[p], gen) => Describes(up[p], gen)
                    /\ EndsWith(up[p], gen) => EndsWith(up'[p], gen),
           \A gen : /\ Tells(down'[Other(p)]) => Tells(down[Other(p)])
                    /\ Describes(down'[Other(p)], gen) => Describes(down[Other(p)], gen)
                    /\ EndsWith(down[Other(p)], gen) => EndsWith(down'[Other(p)], gen)
    PROVE  InOrder(p)'
<1>1. conn[p].sent \in Nat /\ conn'[p].sent \in Nat /\ InOrder(p)
  BY DEF IInv, TypeOK, ConnectionType
<1>2. Exists(p) => conn[p].gen > 0 /\ conn[p].gen \in Nat
  BY DEF IInv, TypeOK, ConnectionType, GenerationsOK
<1>3. Exists(p)' => \/ conn'[Other(p)].remote = conn[Other(p)].remote
                    \/ conn'[Other(p)].remote # conn[p].gen
  BY <1>2
<1>4. ~ Exists(p)' \/ conn'[p].gen = conn[p].gen
  OBVIOUS
<1> QED BY <1>1, <1>3, <1>4, LessIsInOrder

\* A message that is taken and tells nothing, if the peer that takes it changes
\* its connection only where that does not matter, or closes it
LEMMA TakenUntold ==
    ASSUME IInv, NEW p \in Peer, NEW type, Takes(p, type), up' = up,
           conn' \in [Peer -> ConnectionType], conn'[Other(p)] = conn[Other(p)],
           \/ conn'[p] = NoConnection
           \/ /\ Exists(p)' <=> Exists(p)
              /\ Exists(p) => conn'[p].gen = conn[p].gen
              /\ ~ Exists(p) => conn'[p] = conn[p]
              /\ conn'[p].sent = conn[p].sent
              /\ conn'[p].remote = conn[p].remote
    PROVE  IInv'
<1>1. /\ Other(p) \in Peer /\ Other(p) # p /\ Other(Other(p)) = p
      /\ \A r \in Peer : r = p \/ r = Other(p)
  BY Peers
<1>2. TypeOK /\ GenerationsOK
  BY DEF IInv
<1>3. /\ down[p] \in Seq(MessageType) /\ down[p] # <<>>
      /\ down' \in [Peer -> Seq(MessageType)]
      /\ down'[p] = Tail(down[p]) /\ down'[Other(p)] = down[Other(p)]
  BY <1>2, TakesFrom
<1>4. TypeOK'
  BY <1>2, TakesFrom DEF TypeOK
<1>5. GenerationsOK'
  BY <1>1, <1>2 DEF GenerationsOK, Exists, NoConnection, Connection
<1>6. NoConnection.state = "none" /\ NoConnection.remote = 0
  BY DEF NoConnection, Connection
<1>7. /\ conn[p].sent \in Nat /\ conn[Other(p)].sent \in Nat
      /\ Exists(Other(p))' <=> Exists(Other(p))
      /\ Exists(p)' => conn'[p] # NoConnection
  BY <1>1, <1>2, <1>6 DEF TypeOK, ConnectionType, Exists
<1>8. InOrder(p)'
  <2>1. Exists(p)' => /\ Exists(p)
                      /\ conn'[p].gen = conn[p].gen
                      /\ conn'[p].sent >= conn[p].sent
    BY <1>7
  <2> QED BY <1>3, <2>1, Untold
<1>9. InOrder(Other(p))'
  <2>1. \A gen : /\ Tells(down'[p]) => Tells(down[p])
                 /\ Describes(down'[p], gen) => Describes(down[p], gen)
                 /\ EndsWith(down[p], gen) => EndsWith(down'[p], gen)
    BY <1>3, Taken
  <2>2. conn'[p].remote = conn[p].remote \/ conn'[p].remote = 0
    BY <1>6
  <2>3. conn'[Other(p)].sent >= conn[Other(p)].sent
    BY <1>7
  <2> QED BY <1>1, <1>7, <2>1, <2>2, <2>3, Untold
<1> QED BY <1>1, <1>4, <1>5, <1>8, <1>9 DEF IInv

\* A connection that is closed, with nothing taken or sent
LEMMA Closed ==
    ASSUME IInv, NEW p \in Peer, Native(p),
           stopped' \subseteq Peer, events' \in Nat
    PROVE  IInv'
<1>1. /\ Other(p) \in Peer /\ Other(p) # p /\ Other(Other(p)) = p
      /\ \A r \in Peer : r = p \/ r = Other(p)
  BY Peers
<1>2. TypeOK /\ GenerationsOK
  BY DEF IInv
<1>3. NoConnection \in ConnectionType
  BY DEF NoConnection, Connection, ConnectionType
<1>4. conn'[p] = NoConnection /\ conn'[Other(p)] = conn[Other(p)]
  BY <1>1, <1>2 DEF Native, Closes, TypeOK
<1>5. TypeOK'
  BY <1>2, <1>3 DEF TypeOK, Native, Closes, trackerVars
<1>6. NoConnection.state = "none" /\ NoConnection.remote = 0
  BY DEF NoConnection, Connection
<1>7. GenerationsOK'
  BY <1>1, <1>2, <1>4, <1>6 DEF GenerationsOK, Exists
<1>8. up' = up /\ down' = down
  BY DEF Native
<1>9. InOrder(p)'
  BY <1>4, <1>6 DEF InOrder, Exists
<1>10. InOrder(Other(p))'
  <2>1. conn'[Other(p)].sent >= conn[Other(p)].sent
    <3>1. conn[Other(p)] \in ConnectionType
      BY <1>1, <1>2 DEF TypeOK
    <3>2. conn[Other(p)].sent \in Nat
      BY <3>1 DEF ConnectionType
    <3> QED BY <1>4, <3>2
  <2>2. conn' \in [Peer -> ConnectionType]
    BY <1>5 DEF TypeOK
  <2> QED BY <1>1, <1>4, <1>6, <1>8, <2>1, <2>2, Untold DEF Exists
<1> QED BY <1>1, <1>5, <1>7, <1>9, <1>10 DEF IInv

\* A step that leaves the connections alone, and of each queue leaves what it
\* was or nothing
LEMMA Emptied ==
    ASSUME IInv, conn' = conn,
           up' \in [Peer -> Seq(MessageType)], down' \in [Peer -> Seq(MessageType)],
           \A p \in Peer : up'[p] \in {up[p], <<>>} /\ down'[p] \in {down[p], <<>>},
           online' \subseteq Peer, known' \subseteq Peer, stopped' \subseteq Peer,
           events' \in Nat
    PROVE  IInv'
<1>1. TypeOK /\ GenerationsOK
  BY DEF IInv
<1>2. TypeOK'
  BY <1>1 DEF TypeOK
<1>3. GenerationsOK'
  BY <1>1 DEF GenerationsOK, Exists
<1>4. ASSUME NEW p \in Peer
      PROVE  InOrder(p)'
  <2>1. Other(p) \in Peer
    BY Peers
  <2>2. \A gen : /\ Tells(up'[p]) => Tells(up[p])
                 /\ Describes(up'[p], gen) => Describes(up[p], gen)
                 /\ EndsWith(up[p], gen) => EndsWith(up'[p], gen)
    BY Nothing
  <2>3. \A gen : /\ Tells(down'[Other(p)]) => Tells(down[Other(p)])
                 /\ Describes(down'[Other(p)], gen) => Describes(down[Other(p)], gen)
                 /\ EndsWith(down[Other(p)], gen) => EndsWith(down'[Other(p)], gen)
    BY <2>1, Nothing
  <2>4. conn'[p].sent >= conn[p].sent
    BY <1>1 DEF TypeOK, ConnectionType
  <2>5. conn' \in [Peer -> ConnectionType]
    BY <1>2 DEF TypeOK
  <2>6. Exists(p)' => Exists(p)
    BY DEF Exists
  <2> QED BY <2>2, <2>3, <2>4, <2>5, <2>6, Untold
<1> QED BY <1>2, <1>3, <1>4 DEF IInv

-----------------------------------------------------------------------------
(***************************************************************************)
(* The actions                                                             *)
(***************************************************************************)
\* A step of p that replaces the connection it has, or has none, and takes
\* nothing or a message of any kind
LEMMA Replaced ==
    ASSUME IInv, NEW p \in Peer, Creates(p, 0),
           \/ down' = down
           \/ /\ down[p] \in Seq(MessageType) /\ down[p] # <<>>
              /\ down' \in [Peer -> Seq(MessageType)]
              /\ down'[p] = Tail(down[p]) /\ down'[Other(p)] = down[Other(p)],
           online' \subseteq Peer, known' \subseteq Peer, stopped' \subseteq Peer,
           events' \in Nat
    PROVE  IInv'
<1>1. /\ Other(p) \in Peer /\ Other(p) # p /\ Other(Other(p)) = p
      /\ \A r \in Peer : r = p \/ r = Other(p)
  BY Peers
<1>2. TypeOK /\ GenerationsOK
  BY DEF IInv
<1>3. down' \in [Peer -> Seq(MessageType)] /\ down'[Other(p)] = down[Other(p)]
  BY <1>2 DEF TypeOK
<1>4. /\ conn' \in [Peer -> ConnectionType]
      /\ up' \in [Peer -> Seq(MessageType)]
      /\ GenerationsOK'
      /\ InOrder(p)'
      /\ conn'[Other(p)] = conn[Other(p)] /\ up'[Other(p)] = up[Other(p)]
      /\ conn'[p].remote = 0
  BY <1>3, Created
<1>5. TypeOK'
  BY <1>2, <1>3, <1>4 DEF TypeOK
<1>6. InOrder(Other(p))'
  <2>1. \A gen : /\ Tells(down'[p]) => Tells(down[p])
                 /\ Describes(down'[p], gen) => Describes(down[p], gen)
                 /\ EndsWith(down[p], gen) => EndsWith(down'[p], gen)
    BY Taken
  <2>2. conn'[Other(p)].sent >= conn[Other(p)].sent
    <3>1. conn[Other(p)].sent \in Nat
      <4>1. conn[Other(p)] \in ConnectionType
        BY <1>1, <1>2 DEF TypeOK
      <4> QED BY <4>1 DEF ConnectionType
    <3>2. conn'[Other(p)].sent = conn[Other(p)].sent
      BY <1>4
    <3> QED BY <3>1, <3>2
  <2>3. Exists(Other(p))' => Exists(Other(p))
    BY <1>4 DEF Exists
  <2> QED BY <1>1, <1>4, <2>1, <2>2, <2>3, Untold
<1> QED BY <1>1, <1>4, <1>5, <1>6 DEF IInv

\* A step that sends a message of a new connection
LEMMA Speaks ==
    ASSUME IInv, NEW p \in Peer, NEW type \in {"offer", "answer", "candidate"},
           NEW sent \in {1, 2}, conn[p].state = "new",
           type = "candidate" \/ conn[p].sent = 0, conn[p].sent < sent,
           conn' = [conn EXCEPT ![p].sent = sent],
           Sends(p, Message(type, conn[p].gen)),
           UNCHANGED <<down, trackerVars, stopped, events>>
    PROVE  IInv'
<1> DEFINE q == Other(p)
           gen == conn[p].gen
           m == Message(type, gen)
<1>1. /\ q \in Peer /\ q # p /\ Other(q) = p
      /\ \A r \in Peer : r = p \/ r = q
  BY Peers
<1>2. TypeOK /\ GenerationsOK /\ InOrder(p)
  BY DEF IInv
<1>3. m \in MessageType
  BY <1>2 DEF TypeOK, ConnectionType, Message, MessageType
<1>4. /\ up' \in [Peer -> Seq(MessageType)]
      /\ up'[q] = up[q]
      /\ up'[p] = up[p] \/ up'[p] = Append(up[p], m)
  BY <1>2, <1>3, Sent
<1>5. /\ conn' \in [Peer -> ConnectionType]
      /\ conn'[p].gen = gen /\ conn'[p].sent = sent /\ conn'[p].state = "new"
      /\ conn'[p].remote = conn[p].remote
      /\ conn'[q] = conn[q]
  <2> DEFINE c == conn[p]
             d == [c EXCEPT !.sent = sent]
  <2>1. conn \in [Peer -> ConnectionType] /\ c \in ConnectionType
    BY <1>2 DEF TypeOK
  <2>2. conn' = [conn EXCEPT ![p] = d]
    OBVIOUS
  <2>3. sent \in Nat
    OBVIOUS
  <2>4. c.state = "new"
    OBVIOUS
  <2>5. /\ d \in ConnectionType
        /\ d.gen = c.gen /\ d.remote = c.remote /\ d.state = c.state /\ d.sent = sent
    <3> HIDE DEF c
    <3> QED BY <2>1, <2>3 DEF ConnectionType
  <2> HIDE DEF d
  <2>6. conn' \in [Peer -> ConnectionType] /\ conn'[p] = d /\ conn'[q] = conn[q]
    BY <1>1, <2>1, <2>2, <2>5
  <2> QED BY <2>4, <2>5, <2>6
<1>6. sent > 0
  OBVIOUS
<1>7. TypeOK'
  BY <1>2, <1>4, <1>5 DEF TypeOK, trackerVars
<1>8. GenerationsOK'
  BY <1>1, <1>2, <1>5 DEF GenerationsOK, Exists
<1>9. up[p] \in Seq(MessageType) /\ conn[p].sent \in Nat
  BY <1>2 DEF TypeOK, ConnectionType
<1>10. Exists(p) /\ Exists(p)'
  BY <1>5 DEF Exists
<1>11. /\ EndsWith(up[p], gen) /\ EndsWith(down[q], gen)
       /\ Describes(down[q], gen) => ~ Tells(up[p])
       /\ Describes(down[q], gen) \/ Describes(up[p], gen)
             => conn[p].sent > 0 /\ conn[q].remote # gen
       /\ conn[q].remote = gen
             => conn[p].sent > 0 /\ ~ Tells(up[p]) /\ ~ Tells(down[q])
  BY <1>2, <1>10 DEF InOrder
<1> HIDE DEF m, q
<1>12. InOrder(p)'
  <2>1. CASE type = "candidate"
    <3>1. ~ Telling(m) /\ ~ Description(m, gen)
      BY <2>1 DEF m, Message, Telling, Description
    <3>2. /\ Tells(up'[p]) => Tells(up[p])
          /\ Describes(up'[p], gen) => Describes(up[p], gen)
          /\ EndsWith(up[p], gen) => EndsWith(up'[p], gen)
      BY <1>3, <1>4, <1>9, <3>1, Added
    <3> QED BY <1>5, <1>6, <1>10, <1>11, <3>2 DEF InOrder, q
  <2>2. CASE conn[p].sent = 0
    <3>1. ~ Describes(down[q], gen) /\ ~ Describes(up[p], gen) /\ conn[q].remote # gen
      BY <1>11, <2>2
    <3>2. EndsWith(up'[p], gen)
      BY <1>3, <1>4, <1>9, <1>11, <3>1, Added
    <3> QED BY <1>5, <1>6, <1>10, <1>11, <3>1, <3>2 DEF InOrder, q
  <2> QED BY <2>1, <2>2
<1>13. InOrder(q)'
  <2>1. conn'[q].sent >= conn[q].sent
    <3>1. conn[q].sent \in Nat
      <4>1. conn[q] \in ConnectionType
        BY <1>1, <1>2 DEF TypeOK
      <4> QED BY <4>1 DEF ConnectionType
    <3>2. conn'[q].sent = conn[q].sent
      BY <1>5
    <3> QED BY <3>1, <3>2
  <2>2. Exists(q)' => Exists(q)
    BY <1>5 DEF Exists
  <2> QED BY <1>1, <1>4, <1>5, <1>6, <2>1, <2>2, Untold
<1> QED BY <1>1, <1>7, <1>8, <1>12, <1>13 DEF IInv

\* A step of p that takes a description, which its connection then has
LEMMA Hears ==
    ASSUME IInv, NEW p \in Peer, NEW type \in {"offer", "answer"}, Takes(p, type),
           conn' \in [Peer -> ConnectionType], up' \in [Peer -> Seq(MessageType)],
           GenerationsOK', InOrder(p)',
           conn'[Other(p)] = conn[Other(p)], up'[Other(p)] = up[Other(p)],
           conn'[p].remote = Head(down[p]).gen
    PROVE  IInv'
<1>1. /\ Other(p) \in Peer /\ Other(p) # p /\ Other(Other(p)) = p
      /\ \A r \in Peer : r = p \/ r = Other(p)
  BY Peers
<1>2. TypeOK /\ GenerationsOK /\ InOrder(Other(p))
  BY <1>1 DEF IInv
<1>3. /\ down[p] # <<>> /\ Head(down[p]).type = type
      /\ down' \in [Peer -> Seq(MessageType)]
      /\ down'[p] = Tail(down[p])
      /\ online' \subseteq Peer /\ known' \subseteq Peer /\ stopped' \subseteq Peer
      /\ events' \in Nat
  BY <1>2, TakesFrom
<1>4. TypeOK'
  BY <1>3 DEF TypeOK
<1>5. Description(Head(down[p]), conn'[p].remote)
  BY <1>3 DEF Description
<1>6. InOrder(Other(p))'
  BY <1>1, <1>2, <1>3, <1>5, Told
<1> QED BY <1>1, <1>4, <1>6 DEF IInv

\* A connection gets a description.
LEMMA Described ==
    ASSUME IInv, NEW p \in Peer, NEW type \in {"offer", "answer"}, Takes(p, type),
           Exists(p), SetRemoteDescription(p, Head(down[p]).gen), up' = up
    PROVE  IInv'
<1> DEFINE q == Other(p)
           gen == Head(down[p]).gen
           c == conn[p]
           d == [c EXCEPT !.remote = gen, !.candidate = c.enqueued, !.enqueued = 0]
<1>1. /\ q \in Peer /\ q # p /\ Other(q) = p
      /\ \A r \in Peer : r = p \/ r = q
  BY Peers
<1>2. TypeOK /\ GenerationsOK /\ InOrder(p)
  BY DEF IInv
<1>3. /\ Head(down[p]) \in MessageType /\ down[p] # <<>>
      /\ down'[q] = down[q]
  BY <1>2, TakesFrom
<1>4. gen \in Nat
  BY <1>3 DEF MessageType
<1>5. conn \in [Peer -> ConnectionType] /\ up \in [Peer -> Seq(MessageType)]
      /\ c \in ConnectionType
  BY <1>2 DEF TypeOK
<1>6. conn' = [conn EXCEPT ![p] = d]
  BY <1>5 DEF SetRemoteDescription, ConnectionType
<1> HIDE DEF gen
<1>7. /\ d \in ConnectionType
      /\ d.gen = c.gen /\ d.state = c.state /\ d.sent = c.sent /\ d.remote = gen
  <2> HIDE DEF c
  <2> QED BY <1>4, <1>5 DEF ConnectionType
<1> HIDE DEF d
<1>8. /\ conn' \in [Peer -> ConnectionType]
      /\ conn'[p] = d /\ conn'[q] = conn[q]
  BY <1>1, <1>5, <1>6, <1>7
<1>9. GenerationsOK'
  BY <1>1, <1>2, <1>7, <1>8 DEF GenerationsOK, Exists
<1>10. InOrder(p)'
  BY <1>2, <1>3, <1>7, <1>8 DEF InOrder, Exists
<1> QED BY <1>5, <1>7, <1>8, <1>9, <1>10, Hears DEF gen, q

\* The larger id gets an offer.
LEMMA Offered == ASSUME IInv, RtcOffer PROVE IInv'
<1> DEFINE offer == Head(down[Large]).gen
<1>1. Large \in Peer /\ TypeOK /\ Takes(Large, "offer")
  BY DEF IInv, Peer, RtcOffer
<1>2. /\ down[Large] \in Seq(MessageType) /\ down[Large] # <<>>
      /\ down' \in [Peer -> Seq(MessageType)]
      /\ down'[Large] = Tail(down[Large]) /\ down'[Other(Large)] = down[Other(Large)]
      /\ online' \subseteq Peer /\ known' \subseteq Peer /\ stopped' \subseteq Peer
      /\ events' \in Nat
      /\ Head(down[Large]) \in MessageType
  BY <1>1, TakesFrom
<1>3. offer \in Nat
  BY <1>2 DEF MessageType
<1>4. CASE Creates(Large, offer)
  <2> HIDE DEF offer
  <2>1. /\ conn' \in [Peer -> ConnectionType] /\ up' \in [Peer -> Seq(MessageType)]
        /\ GenerationsOK' /\ InOrder(Large)'
        /\ conn'[Other(Large)] = conn[Other(Large)] /\ up'[Other(Large)] = up[Other(Large)]
        /\ conn'[Large].remote = offer
    BY <1>1, <1>2, <1>3, <1>4, Created
  <2> QED BY <1>1, <2>1, Hears DEF offer
<1>5. CASE Creates(Large, 0)
  BY <1>1, <1>2, <1>5, Replaced
<1>6. CASE Exists(Large) /\ SetRemoteDescription(Large, offer) /\ UNCHANGED up
  BY <1>1, <1>6, Described
<1> QED BY <1>4, <1>5, <1>6 DEF RtcOffer

\* The smaller id gets an answer.
LEMMA Answered == ASSUME IInv, RtcAnswer PROVE IInv'
<1>1. Small \in Peer /\ Takes(Small, "answer") /\ up' = up
  BY DEF Peer, RtcAnswer
<1>2. CASE Exists(Small) /\ SetRemoteDescription(Small, Head(down[Small]).gen)
  BY <1>1, <1>2, Described
<1>3. CASE conn' = conn
  <2>1. conn' \in [Peer -> ConnectionType] /\ (Exists(Small)' <=> Exists(Small))
    BY <1>3 DEF IInv, TypeOK, Exists
  <2> QED BY <1>1, <1>3, <2>1, TakenUntold
<1> QED BY <1>2, <1>3 DEF RtcAnswer

\* The smaller id is asked to connect.
LEMMA Requested == ASSUME IInv, RtcConnect PROVE IInv'
<1>1. Small \in Peer /\ TypeOK /\ Takes(Small, "connect")
  BY DEF IInv, Peer, RtcConnect
<1>2. CASE Creates(Small, 0)
  BY <1>1, <1>2, TakesFrom, Replaced
<1>3. CASE conn' = conn /\ up' = up
  <2>1. conn' \in [Peer -> ConnectionType] /\ (Exists(Small)' <=> Exists(Small))
    BY <1>1, <1>3 DEF TypeOK, Exists
  <2> QED BY <1>1, <1>3, <2>1, TakenUntold
<1> QED BY <1>2, <1>3 DEF RtcConnect

\* What a remote candidate does to a connection
LEMMA CandidateGiven ==
    ASSUME TypeOK, NEW p \in Peer, RemoteCandidate(p)
    PROVE  /\ conn' \in [Peer -> ConnectionType] /\ conn'[Other(p)] = conn[Other(p)]
           /\ conn'[p].gen = conn[p].gen /\ conn'[p].state = conn[p].state
           /\ conn'[p].sent = conn[p].sent /\ conn'[p].remote = conn[p].remote
           /\ ~ Exists(p) => conn'[p] = conn[p]
           /\ conn[p].remote # 0 => \/ conn'[p].candidate = conn[p].candidate
                                    \/ conn'[p].candidate = conn[p].remote
<1> DEFINE candidate == Head(down[p]).gen
           c == conn[p]
           d == [c EXCEPT !.enqueued = candidate]
           e == [c EXCEPT !.candidate = candidate]
<1>1. Takes(p, "candidate")
  BY DEF RemoteCandidate
<1>2. Head(down[p]) \in MessageType
  BY <1>1, TakesFrom
<1>3. candidate \in Nat
  BY <1>2 DEF MessageType
<1>4. conn \in [Peer -> ConnectionType] /\ c \in ConnectionType
  BY DEF TypeOK
<1>5. \/ conn' = conn
      \/ Exists(p) /\ c.remote = 0 /\ conn' = [conn EXCEPT ![p] = d]
      \/ Exists(p) /\ candidate = c.remote /\ conn' = [conn EXCEPT ![p] = e]
  BY DEF RemoteCandidate, IsRemoteDescriptionSet
<1> HIDE DEF candidate
<1>6. /\ d \in ConnectionType /\ e \in ConnectionType
      /\ d.gen = c.gen /\ d.state = c.state /\ d.sent = c.sent /\ d.remote = c.remote
      /\ e.gen = c.gen /\ e.state = c.state /\ e.sent = c.sent /\ e.remote = c.remote
      /\ e.candidate = candidate
  <2> HIDE DEF c
  <2> QED BY <1>3, <1>4 DEF ConnectionType
<1> HIDE DEF d, e
<1>7. conn' \in [Peer -> ConnectionType] /\ conn'[Other(p)] = conn[Other(p)]
  BY <1>4, <1>5, <1>6, Peers
<1>8. \/ conn'[p] = c
      \/ Exists(p) /\ c.remote = 0 /\ conn'[p] = d
      \/ Exists(p) /\ candidate = c.remote /\ conn'[p] = e
  BY <1>4, <1>5
<1> QED BY <1>6, <1>7, <1>8

\* What opening does to a connection
LEMMA Opened ==
    ASSUME IInv, NEW p \in Peer, Opens(p)
    PROVE  IInv'
<1> DEFINE q == Other(p)
           c == conn[p]
           d == [c EXCEPT !.state = "open"]
<1>1. /\ q \in Peer /\ q # p /\ Other(q) = p
      /\ \A r \in Peer : r = p \/ r = q
  BY Peers
<1>2. TypeOK /\ GenerationsOK /\ InOrder(p) /\ InOrder(q)
  BY <1>1 DEF IInv
<1>3. conn \in [Peer -> ConnectionType] /\ c \in ConnectionType /\ c.state = "new"
  BY <1>2 DEF TypeOK, Opens
<1>4. conn' = [conn EXCEPT ![p] = d]
  BY DEF Opens
<1>5. /\ d \in ConnectionType
      /\ d.gen = c.gen /\ d.state = "open" /\ d.sent = c.sent /\ d.remote = c.remote
  <2> HIDE DEF c
  <2> QED BY <1>3 DEF ConnectionType
<1> HIDE DEF d
<1>6. /\ conn' \in [Peer -> ConnectionType]
      /\ conn'[p] = d /\ conn'[q] = conn[q]
  BY <1>1, <1>3, <1>4, <1>5
<1>7. UNCHANGED <<up, down, online, known, stopped, events>>
  BY DEF Opens, trackerVars
<1>8. TypeOK' /\ GenerationsOK'
  BY <1>1, <1>2, <1>3, <1>5, <1>6, <1>7 DEF TypeOK, GenerationsOK, Exists
<1>9. InOrder(p)' /\ InOrder(q)'
  BY <1>1, <1>2, <1>3, <1>5, <1>6, <1>7 DEF InOrder, Exists
<1> QED BY <1>1, <1>8, <1>9 DEF IInv

\* The tracker relays a message, drops it, or answers with an error.
LEMMA Relayed ==
    ASSUME IInv, NEW p \in Peer, RelayMessage(p)
    PROVE  IInv'
<1> DEFINE q == Other(p)
           gen == conn[p].gen
           m == Head(up[p])
           error == Message("error", 0)
<1>1. /\ q \in Peer /\ q # p /\ Other(q) = p
      /\ \A r \in Peer : r = p \/ r = q
  BY Peers
<1>2. TypeOK /\ GenerationsOK /\ InOrder(p)
  BY DEF IInv
<1>3. /\ conn' = conn
      /\ UNCHANGED <<online, known, stopped, events>>
      /\ up[p] \in Seq(MessageType) /\ up[p] # <<>>
      /\ down[p] \in Seq(MessageType) /\ down[q] \in Seq(MessageType)
  BY <1>1, <1>2 DEF RelayMessage, trackerVars, TypeOK
<1>4. /\ m \in MessageType /\ Tail(up[p]) \in Seq(MessageType)
      /\ error \in MessageType /\ ~ Telling(error) /\ ~ \E g : Description(error, g)
  BY <1>3, Taken DEF Message, MessageType, Telling, Description
<1>5. /\ up' \in [Peer -> Seq(MessageType)]
      /\ up'[p] = Tail(up[p]) /\ up'[q] = up[q]
  BY <1>1, <1>2, <1>4 DEF RelayMessage, TypeOK
<1>6. Append(down[p], error) \in Seq(MessageType) /\ Append(down[q], m) \in Seq(MessageType)
  BY <1>3, <1>4, AppendProperties
<1> HIDE DEF q, m, error
<1>7. /\ down' \in [Peer -> Seq(MessageType)]
      /\ \/ /\ down'[q] = down[q]
            /\ down'[p] = down[p] \/ down'[p] = Append(down[p], error)
         \/ /\ down'[q] = Append(down[q], m)
            /\ down'[p] = down[p]
  BY <1>1, <1>2, <1>6 DEF RelayMessage, TypeOK, q, m, error
<1>8. TypeOK' /\ GenerationsOK'
  BY <1>2, <1>3, <1>5, <1>7 DEF TypeOK, GenerationsOK, Exists
<1>9. (\A r \in Peer : Exists(r)' => Exists(r)) /\ conn' \in [Peer -> ConnectionType]
      /\ \A r \in Peer : conn'[r].sent >= conn[r].sent
  <2>1. conn \in [Peer -> ConnectionType]
    BY <1>2 DEF TypeOK
  <2>2. \A r \in Peer : conn[r].sent \in Nat
    BY <2>1 DEF ConnectionType
  <2>3. \A r \in Peer : conn'[r].sent >= conn[r].sent
    BY <1>3, <2>2
  <2> QED BY <1>3, <2>1, <2>3 DEF Exists
<1>10. InOrder(q)'
  <2>1. \A g : /\ Tells(down'[p]) => Tells(down[p])
               /\ Describes(down'[p], g) => Describes(down[p], g)
               /\ EndsWith(down[p], g) => EndsWith(down'[p], g)
    BY <1>3, <1>4, <1>7, Added
  <2> QED BY <1>1, <1>3, <1>5, <1>9, <2>1, Untold
<1>11. \A g : /\ Tells(up'[p]) => Tells(up[p])
              /\ Describes(up'[p], g) => Describes(up[p], g)
              /\ EndsWith(up[p], g) => EndsWith(up'[p], g)
  BY <1>3, <1>5, Taken
<1>12. InOrder(p)'
  <2>1. CASE down'[q] = down[q]
    BY <1>3, <1>9, <1>11, <2>1, Untold DEF q
  <2>2. CASE down'[q] = Append(down[q], m)
    <3> SUFFICES ASSUME Exists(p) PROVE InOrder(p)'
      BY <1>3 DEF InOrder, Exists
    <3>1. /\ EndsWith(up[p], gen) /\ EndsWith(down[q], gen)
          /\ Describes(down[q], gen) => ~ Tells(up[p])
          /\ Describes(down[q], gen) \/ Describes(up[p], gen)
                => conn[p].sent > 0 /\ conn[q].remote # gen
          /\ conn[q].remote = gen
                => conn[p].sent > 0 /\ ~ Tells(up[p]) /\ ~ Tells(down[q])
      BY <1>2 DEF InOrder, q
    <3>2. /\ Telling(m) => Tells(up[p])
          /\ Description(m, gen) => Describes(up[p], gen) /\ ~ Tells(up'[p])
      BY <1>3, <1>5, <3>1, Taken DEF m
    <3>3. /\ Tells(down'[q]) => Tells(down[q]) \/ Telling(m)
          /\ Describes(down'[q], gen) => Describes(down[q], gen) \/ Description(m, gen)
          /\ (Describes(down[q], gen) => ~ Telling(m)) => EndsWith(down'[q], gen)
      BY <1>3, <1>4, <2>2, <3>1, Added
    <3> QED BY <1>3, <1>11, <3>1, <3>2, <3>3 DEF InOrder, q
  <2> QED BY <1>7, <2>1, <2>2
<1> QED BY <1>1, <1>8, <1>10, <1>12 DEF IInv

-----------------------------------------------------------------------------
(***************************************************************************)
(* The invariant                                                           *)
(***************************************************************************)
LEMMA InitIsInOrder == Init => IInv
<1> SUFFICES ASSUME Init PROVE IInv
  OBVIOUS
<1>1. NoConnection \in ConnectionType /\ NoConnection.state = "none"
  BY DEF NoConnection, Connection, ConnectionType
<1>2. TypeOK
  BY <1>1, Nothing DEF Init, TypeOK
<1>3. \A p \in Peer : ~ Exists(p)
  BY <1>1 DEF Init, Exists
<1>4. GenerationsOK
  BY <1>3 DEF Init, GenerationsOK
<1> QED BY <1>2, <1>3, <1>4 DEF IInv, InOrder

\* Every step keeps the inductive invariant.
LEMMA StepIsInOrder == IInv /\ [Next]_vars => IInv'
<1> SUFFICES ASSUME IInv, [Next]_vars PROVE IInv'
  OBVIOUS
<1>1. TypeOK
  BY DEF IInv
<1>2. /\ up \in [Peer -> Seq(MessageType)] /\ down \in [Peer -> Seq(MessageType)]
      /\ online \subseteq Peer /\ known \subseteq Peer /\ stopped \subseteq Peer
      /\ events \in Nat /\ events + 1 \in Nat
  BY <1>1 DEF TypeOK
<1>3. ASSUME NEW p \in Peer, Connect(p) PROVE IInv'
  BY <1>2, <1>3, Replaced DEF Connect, trackerVars
<1>4. ASSUME NEW p \in Peer, LocalDescription(p) PROVE IInv'
  <2>1. conn[p].state = "new" /\ conn[p].sent = 0 /\ conn[p].sent < 1
    BY <1>4 DEF LocalDescription, HasDescription
  <2>2. CASE p = Small
    BY <1>4, <2>1, <2>2, Speaks DEF LocalDescription
  <2>3. CASE p # Small
    BY <1>4, <2>1, <2>3, Speaks DEF LocalDescription
  <2> QED BY <2>2, <2>3
<1>5. ASSUME NEW p \in Peer, LocalCandidate(p) PROVE IInv'
  <2>1. conn[p].state = "new" /\ conn[p].sent < 2
    BY <1>5 DEF LocalCandidate, HasCandidate
  <2> QED BY <1>5, <2>1, Speaks DEF LocalCandidate
<1>6. ASSUME NEW p \in Peer, RelayMessage(p) PROVE IInv'
  BY <1>6, Relayed
<1>7. ASSUME NEW p \in Peer, Receive(p) PROVE IInv'
  <2>1. CASE RtcOffer \/ RtcAnswer \/ RtcConnect
    BY <2>1, Offered, Answered, Requested
  <2>2. CASE RemoteCandidate(p)
    <3>1. Takes(p, "candidate") /\ up' = up
      BY <2>2 DEF RemoteCandidate
    <3>2. Exists(p)' <=> Exists(p)
      BY <1>1, <2>2, CandidateGiven DEF Exists
    <3> QED BY <1>1, <2>2, <3>1, <3>2, CandidateGiven, TakenUntold
  <2>3. CASE RtcError(p)
    <3>1. Takes(p, "error") /\ up' = up /\ Closes(p)
      BY <2>3 DEF RtcError
    <3>2. NoConnection \in ConnectionType
      BY DEF NoConnection, Connection, ConnectionType
    <3>3. /\ conn' \in [Peer -> ConnectionType] /\ conn'[p] = NoConnection
          /\ conn'[Other(p)] = conn[Other(p)]
      BY <1>1, <3>1, <3>2, Peers DEF Closes, TypeOK
    <3> QED BY <3>1, <3>3, TakenUntold
  <2>4. CASE Ignores(p)
    <3>1. /\ down' = [down EXCEPT ![p] = <<>>]
          /\ UNCHANGED <<conn, up, online, known, stopped, events>>
      BY <2>4 DEF Ignores, trackerVars
    <3> QED BY <1>2, <3>1, Nothing, Emptied
  <2> QED BY <1>7, <2>1, <2>2, <2>3, <2>4 DEF Receive
<1>8. ASSUME NEW p \in Peer, Opens(p) PROVE IInv'
  BY <1>8, Opened
<1>9. ASSUME NEW p \in Peer, PeerIsGone(p) \/ Timeout(p) \/ Fails(p) \/ Stop(p) PROVE IInv'
  <2>1. Native(p) /\ stopped' \subseteq Peer /\ events' \in Nat
    BY <1>2, <1>9 DEF PeerIsGone, Timeout, Fails, Stop, Event
  <2> QED BY <2>1, Closed
<1>10. ASSUME NEW peers \in SUBSET Peer, Disconnected(peers),
              known' = known \/ known' = {}
       PROVE  IInv'
  <2>1. /\ conn' = conn /\ stopped' = stopped /\ events' = events + 1
        /\ online' = online \ peers
        /\ up' = [p \in Peer |-> IF p \in peers THEN <<>> ELSE up[p]]
        /\ down' = [p \in Peer |-> IF p \in peers THEN <<>> ELSE down[p]]
    BY <1>10 DEF Disconnected, Event
  <2>2. up' \in [Peer -> Seq(MessageType)] /\ down' \in [Peer -> Seq(MessageType)]
    BY <1>2, <2>1, Nothing
  <2> QED BY <1>2, <1>10, <2>1, <2>2, Emptied
<1>11. ASSUME NEW p \in Peer, TrackerBack(p) PROVE IInv'
  <2>1. /\ UNCHANGED <<conn, up, down, stopped, events>>
        /\ online' \subseteq Peer /\ known' \subseteq Peer
    BY <1>2, <1>11 DEF TrackerBack
  <2> QED BY <1>2, <2>1, Emptied
<1>12. CASE UNCHANGED vars
  <2>1. UNCHANGED <<conn, up, down, online, known, stopped, events>>
    BY <1>12 DEF vars, trackerVars
  <2> QED BY <1>2, <2>1, Emptied
<1>13. CASE Next
  <2>1. TrackerRestarts => IInv'
    BY <1>10 DEF TrackerRestarts
  <2>2. \A p \in Peer : TrackerLost(p) => IInv'
    BY <1>10 DEF TrackerLost
  <2> QED BY <1>3, <1>4, <1>5, <1>6, <1>7, <1>8, <1>9, <1>11, <1>13, <2>1, <2>2 DEF Next
<1> QED BY <1>12, <1>13

\* Connections, queues and the tracker's tables are what they should be.
THEOREM TypeCorrect == Spec => []TypeOK
<1>1. IInv => TypeOK
  BY DEF IInv
<1> QED BY <1>1, InitIsInOrder, StepIsInOrder, PTL DEF Spec

\* The description of a connection that exists is the last word of its peer to the
\* other: no offer, answer or request follows it, on the way to the tracker or
\* from it, and once the other has it nothing of the kind is under way.  This is
\* what the generations of connections and the order of messages amount to.
THEOREM SignallingInvariant == Spec => []IInv
BY InitIsInOrder, StepIsInOrder, PTL DEF Spec

-----------------------------------------------------------------------------
(***************************************************************************)
(* Open connections                                                        *)
(***************************************************************************)
\* Nothing is on the way to a connection that has the other's description, that
\* could replace it.
LEMMA NothingIsTold ==
    ASSUME IInv, NEW p \in Peer, Matched, NEW type \in {"offer", "answer", "connect"}
    PROVE  ~ Takes(p, type)
<1> DEFINE q == Other(p)
<1>1. q \in Peer /\ Other(q) = p
  BY Peers
<1>2. InOrder(q) /\ Exists(q) /\ conn[p].remote = conn[q].gen /\ TypeOK
  BY <1>1 DEF IInv, Matched
<1>3. ~ Tells(down[p])
  BY <1>1, <1>2 DEF InOrder
<1> SUFFICES ASSUME Takes(p, type) PROVE FALSE
  OBVIOUS
<1>4. /\ down[p] \in Seq(MessageType) /\ down[p] # <<>>
      /\ Head(down[p]).type = type
  BY <1>2, TakesFrom
<1> QED BY <1>3, <1>4, Taken DEF Telling

\* Only an event or an error closes a connection that is open at both ends.
LEMMA OpenStaysOpen ==
    ASSUME IInv, Next, BothOpen
    PROVE  BothOpen' \/ events' # events \/ \E p \in Peer : RtcError(p)
<1>1. Matched /\ \A p \in Peer : conn[p].state = "open"
  BY DEF BothOpen
<1>2. TypeOK /\ GenerationsOK /\ events + 1 # events
  BY DEF IInv, TypeOK
<1>3. conn' = conn => BothOpen'
  BY DEF BothOpen, Matched, Exists
<1>4. ~ RtcOffer /\ ~ RtcAnswer /\ ~ RtcConnect
  BY <1>1, NothingIsTold DEF RtcOffer, RtcAnswer, RtcConnect, Peer
<1>5. ASSUME NEW p \in Peer, RemoteCandidate(p) PROVE BothOpen'
  <2>1. /\ Other(p) \in Peer /\ Other(p) # p /\ Other(Other(p)) = p
        /\ \A r \in Peer : r = p \/ r = Other(p)
    BY Peers
  <2>2. conn[p].remote # 0
    <3>1. conn[p].remote = conn[Other(p)].gen /\ Exists(Other(p))
      BY <1>1, <2>1 DEF Matched
    <3>2. conn[Other(p)].gen # 0
      BY <1>2, <2>1, <3>1 DEF GenerationsOK, TypeOK, ConnectionType
    <3> QED BY <3>1, <3>2
  <2>3. /\ conn'[Other(p)] = conn[Other(p)]
        /\ conn'[p].gen = conn[p].gen /\ conn'[p].state = conn[p].state
        /\ conn'[p].remote = conn[p].remote
        /\ \/ conn'[p].candidate = conn[p].candidate
           \/ conn'[p].candidate = conn[p].remote
    BY <1>2, <1>5, <2>2, CandidateGiven
  <2>4. \A r \in Peer : conn'[r].state = "open" /\ Exists(r)'
    BY <1>1, <2>1, <2>3 DEF Exists
  <2>5. \A r \in Peer : conn'[r].remote = conn'[Other(r)].gen
    BY <1>1, <2>1, <2>3 DEF Matched
  <2>6. \E r \in Peer : conn'[r].candidate = conn'[r].remote
    BY <1>1, <2>1, <2>3 DEF Matched
  <2> QED BY <2>4, <2>5, <2>6 DEF BothOpen, Matched
<1>6. ASSUME NEW p \in Peer
      PROVE  /\ ~ Connect(p) /\ ~ LocalDescription(p) /\ ~ LocalCandidate(p)
             /\ ~ Opens(p) /\ ~ PeerIsGone(p) /\ ~ Timeout(p)
  BY <1>1 DEF Connect, Exists, LocalDescription, HasDescription, LocalCandidate,
              HasCandidate, Opens, PeerIsGone, Timeout
<1>7. ASSUME NEW p \in Peer, RelayMessage(p) \/ Ignores(p) \/ TrackerBack(p)
      PROVE  conn' = conn
  BY <1>7 DEF RelayMessage, Ignores, TrackerBack
<1>8. ASSUME NEW p \in Peer, Fails(p) \/ Stop(p) \/ TrackerLost(p)
      PROVE  events' # events
  BY <1>2, <1>8 DEF Fails, Stop, TrackerLost, Disconnected, Event
<1>9. TrackerRestarts => events' # events
  BY <1>2 DEF TrackerRestarts, Disconnected, Event
<1> QED BY <1>3, <1>4, <1>5, <1>6, <1>7, <1>8, <1>9 DEF Next, Receive

\* What earlier attempts left on the way never tears down a connection that is
\* open at both ends, for any number of failures and retries: only a failure does,
\* or an error of a tracker that was restarted.
THEOREM OpenAlwaysStays == Spec => OpenStays
<1>1. IInv /\ [Next]_vars =>
        [BothOpen => BothOpen' \/ events' # events \/ \E p \in Peer : RtcError(p)]_vars
  BY OpenStaysOpen
<1> QED BY <1>1, InitIsInOrder, StepIsInOrder, PTL DEF Spec, OpenStays
=============================================================================
