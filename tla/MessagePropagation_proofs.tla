----------------------- MODULE MessagePropagation_proofs -----------------------
(***************************************************************************)
(* Proofs about MessagePropagation: in any network, however it changes, a  *)
(* node propagates a message at most once while it stays subscribed, a     *)
(* message it could not propagate waits, and waits only for a neighbor;    *)
(* and in a network that does not change every message reaches everyone.   *)
(*                                                                         *)
(* The buffer is handled by recursion on its length.  What that leads to   *)
(* is proved by induction over a set of numbers: InductionSet follows from *)
(* the fact that < is well-founded.                                        *)
(***************************************************************************)
EXTENDS MessagePropagation, SequenceTheorems, WellFoundedInduction, TLAPS

-----------------------------------------------------------------------------
(***************************************************************************)
(* Numbers                                                                 *)
(***************************************************************************)
\* A set of numbers has a least one.
LEMMA LeastNumber ==
    ASSUME NEW T, T \subseteq Nat, T # {}
    PROVE  \E x \in T : \A y \in T : x <= y
<1> DEFINE R == {p \in Nat \X Nat : p[1] < p[2]}
<1>1. IsWellFoundedOn(R, Nat)
  BY NatLessThanWellFounded DEF OpToRel
<1> HIDE DEF R
<1>2. PICK x \in T : \A y \in T : ~ (<<y, x>> \in R)
  BY <1>1, WFMin
<1>3. ASSUME NEW y \in T PROVE x <= y
  <2>1. x \in Nat /\ y \in Nat
    OBVIOUS
  <2>2. y < x => <<y, x>> \in R
    BY <2>1 DEF R
  <2> QED BY <1>2, <2>1, <2>2
<1> QED BY <1>3

\* Induction over the numbers of a set
LEMMA InductionSet ==
    ASSUME NEW S, 0 \in S, \A n \in Nat : n \in S => n + 1 \in S
    PROVE  Nat \subseteq S
<1> SUFFICES ASSUME Nat \ S # {} PROVE FALSE
  OBVIOUS
<1>1. PICK x \in Nat \ S : \A y \in Nat \ S : x <= y
  BY LeastNumber
<1>2. x - 1 \in Nat /\ x - 1 \in S
  BY <1>1
<1> QED BY <1>1, <1>2

\* Min is the least number.
LEMMA MinIsLeast ==
    ASSUME NEW T, T \subseteq Nat, T # {}
    PROVE  Min(T) \in T /\ \A y \in T : Min(T) <= y
<1>1. \E x \in T : \A y \in T : x <= y
  BY LeastNumber
<1> QED BY <1>1 DEF Min

-----------------------------------------------------------------------------
(***************************************************************************)
(* What a node does with a message                                         *)
(***************************************************************************)
Source == Node \cup {Local}

Entry(p) == (1 .. p) \X Source

\* The states of a node when p messages were published
NodeStates(p) ==
    [seen : SUBSET (1 .. p), notPropagated : SUBSET (1 .. p),
     buffer : Seq(Entry(p)), flight : [Node -> Seq(1 .. p)],
     sent : [Message -> 0 .. 2], dropped : SUBSET (1 .. p)]

Waits(h, m) == \E i \in DOMAIN h.buffer : h.buffer[i][1] = m

\* What was sent, was sent once, and will neither be accepted nor sent again.
Once(h) ==
    \A m \in Message : /\ h.sent[m] <= 1
                       /\ h.sent[m] = 1 => /\ ~ IsUnseen(h.seen, m)
                                           /\ m \notin h.notPropagated

\* What was not propagated waits or was dropped, but for the messages of rest.
NothingForgotten(h, rest) ==
    \A m \in h.notPropagated : m \in rest \/ Waits(h, m) \/ m \in h.dropped

\* There is no other neighbor than the one a waiting message came from.
NobodyElse(h, neighbors) ==
    \A i \in DOMAIN h.buffer : neighbors \subseteq {h.buffer[i][2]}

Good(h, neighbors, rest, p) ==
    /\ h \in NodeStates(p)
    /\ Len(h.buffer) <= MaxSize
    /\ Once(h)
    /\ NothingForgotten(h, rest)
    /\ NobodyElse(h, neighbors)

\* What a detector refuses it goes on refusing.
LEMMA RefusedForGood ==
    ASSUME NEW S, S \subseteq Nat, NEW m \in Nat, IsUnseen(S, m),
           NEW q \in Nat, ~ IsUnseen(S, q)
    PROVE  ~ IsUnseen(S \cup {m}, q)
<1> DEFINE T == S \cup {m}
<1>1. S # {} /\ (q \in S \/ q <= Min(S)) /\ m > Min(S)
  <2>1. S # {} /\ Min(S) \in Nat
    BY MinIsLeast DEF IsUnseen
  <2> QED BY <2>1 DEF IsUnseen
<1>2. Min(S) \in S /\ \A y \in S : Min(S) <= y
  BY <1>1, MinIsLeast
<1>3. Min(T) \in T /\ \A y \in T : Min(T) <= y
  <2>1. T \subseteq Nat /\ T # {}
    OBVIOUS
  <2> HIDE DEF T
  <2> QED BY <2>1, MinIsLeast
<1>4. T \subseteq Nat /\ T # {} /\ m \in T /\ \A y \in T : y = m \/ y \in S
  OBVIOUS
<1>5. \A y \in S : y \in T
  OBVIOUS
<1> HIDE DEF T
<1>6. Min(S) \in Nat /\ Min(T) \in Nat
  BY <1>2, <1>3, <1>4
<1>7. Min(T) = Min(S)
  <2> DEFINE x == Min(S)
             z == Min(T)
  <2>1. x \in S /\ x \in T /\ x \in Nat /\ m > x
    BY <1>1, <1>2, <1>5, <1>6
  <2>2. z \in Nat /\ z <= x /\ (z = m \/ z \in S)
    BY <1>3, <1>4, <1>6, <2>1
  <2>3. z \in S => x <= z
    BY <1>2
  <2> HIDE DEF x, z
  <2>4. z = x
    BY <2>1, <2>2, <2>3
  <2> QED BY <2>4 DEF x, z
<1>8. q \in T \/ q <= Min(T)
  BY <1>1, <1>5, <1>7
<1>9. ~ (q > Min(T) /\ q \notin T)
  BY <1>6, <1>8
<1>10. ~ IsUnseen(T, q)
  BY <1>4, <1>9 DEF IsUnseen
<1> QED BY <1>10 DEF T

\* c is buffer b with entry e as its last, and at most without its first.
Takes(E, b, e, c) ==
    /\ c \in Seq(E)
    /\ Len(c) <= MaxSize
    /\ \E j \in DOMAIN c : c[j] = e
    /\ \A j \in DOMAIN c : c[j] = e \/ \E i \in DOMAIN b : c[j] = b[i]
    /\ \A i \in DOMAIN b : \/ Len(b) >= MaxSize /\ i = 1
                           \/ \E j \in DOMAIN c : c[j] = b[i]

\* A buffer takes an entry, and gives up at most its first for it.
LEMMA PutIs ==
    ASSUME NEW E, NEW b \in Seq(E), NEW e \in E, Len(b) <= MaxSize
    PROVE  Takes(E, b, e, Put(b, e))
<1> DEFINE c == Put(b, e)
<1>1. CASE Len(b) >= MaxSize
  <2>1. Len(b) = MaxSize /\ Len(b) > 0
    BY <1>1, MaxSizeAssumption
  <2>2. /\ Tail(b) \in Seq(E)
        /\ Len(Tail(b)) = Len(b) - 1
        /\ \A i \in 1 .. Len(b) - 1 : Tail(b)[i] = b[i + 1]
    BY <2>1
  <2>3. c = Append(Tail(b), e)
    BY <1>1 DEF Put
  <2> DEFINE t == Tail(b)
  <2> HIDE DEF c, t
  <2>4. /\ c \in Seq(E) /\ Len(c) = Len(b)
        /\ \A i \in 1 .. Len(b) - 1 : c[i] = b[i + 1]
        /\ c[Len(b)] = e
    BY <2>1, <2>2, <2>3 DEF t
  <2>5. DOMAIN c = 1 .. Len(b) /\ DOMAIN b = 1 .. Len(b)
    BY <2>4
  <2>6. \A i \in DOMAIN b : i = 1 \/ (i - 1 \in DOMAIN c /\ c[i - 1] = b[i])
    BY <2>4, <2>5
  <2>7. \A j \in DOMAIN c : c[j] = e \/ (j + 1 \in DOMAIN b /\ c[j] = b[j + 1])
    BY <2>4, <2>5
  <2> QED BY <1>1, <2>1, <2>4, <2>5, <2>6, <2>7 DEF c, Takes
<1>2. CASE Len(b) < MaxSize
  <2>1. c = Append(b, e)
    BY <1>2, MaxSizeAssumption DEF Put
  <2> HIDE DEF c
  <2>2. /\ c \in Seq(E) /\ Len(c) = Len(b) + 1
        /\ \A i \in 1 .. Len(b) : c[i] = b[i]
        /\ c[Len(b) + 1] = e
    BY <2>1
  <2>3. DOMAIN c = 1 .. Len(b) + 1 /\ DOMAIN b = 1 .. Len(b)
    BY <2>2
  <2> QED BY <1>2, <2>2, <2>3, MaxSizeAssumption DEF c, Takes
<1> QED BY <1>1, <1>2, MaxSizeAssumption

\* What holds of a node holds when more is published and it has fewer neighbors.
LEMMA GoodGrows ==
    ASSUME NEW p \in Nat, NEW q \in Nat, p <= q,
           NEW neighbors, NEW fewer, fewer \subseteq neighbors,
           NEW h, Good(h, neighbors, {}, p),
           NEW inFlight \in [Node -> Seq(1 .. q)],
           NEW g, g = [seen |-> h.seen, notPropagated |-> h.notPropagated,
                       buffer |-> h.buffer, flight |-> inFlight,
                       sent |-> h.sent, dropped |-> h.dropped]
    PROVE  Good(g, fewer, {}, q)
<1>1. h \in NodeStates(p)
  BY DEF Good
<1>2. 1 .. p \subseteq 1 .. q
  OBVIOUS
<1>3. Entry(p) \subseteq Entry(q)
  BY <1>2 DEF Entry
<1>4. h.buffer \in Seq(Entry(p))
  BY <1>1 DEF NodeStates
<1>5. h.buffer \in Seq(Entry(q))
  BY <1>3, <1>4, SeqMonotonic
<1>6. /\ g.seen = h.seen /\ g.notPropagated = h.notPropagated /\ g.buffer = h.buffer
      /\ g.sent = h.sent /\ g.dropped = h.dropped
  OBVIOUS
<1>7. g \in NodeStates(q)
  BY <1>1, <1>2, <1>5 DEF NodeStates
<1>8. Len(g.buffer) <= MaxSize /\ Once(g) /\ NothingForgotten(g, {})
  BY <1>6 DEF Good, Once, NothingForgotten, Waits
<1>9. NobodyElse(g, fewer)
  BY <1>6 DEF Good, NobodyElse
<1> QED BY <1>7, <1>8, <1>9 DEF Good

\* A message that was refused and never sent can be put back.
LEMMA PutBackKeeps ==
    ASSUME NEW p \in Nat, NEW neighbors, NEW rest, NEW h,
           Good(h, neighbors, rest, p),
           NEW m \in 1 .. p, NEW source \in Source, neighbors \subseteq {source},
           h.sent[m] # 1,
           NEW g, g = PutBack(h, m, source)
    PROVE  Good(g, neighbors, rest \ {m}, p)
<1>1. h \in NodeStates(p) /\ Len(h.buffer) <= MaxSize
  BY DEF Good
<1> DEFINE b == h.buffer
           e == <<m, source>>
           c == Put(b, e)
<1>2. b \in Seq(Entry(p)) /\ e \in Entry(p) /\ Len(b) <= MaxSize
  BY <1>1 DEF NodeStates, Entry
<1>3. /\ g.seen = h.seen /\ g.notPropagated = h.notPropagated \cup {m}
      /\ g.buffer = c /\ g.flight = h.flight /\ g.sent = h.sent
      /\ g.dropped = IF Len(b) >= MaxSize THEN h.dropped \cup {b[1][1]} ELSE h.dropped
      /\ g = [seen |-> g.seen, notPropagated |-> g.notPropagated, buffer |-> g.buffer,
              flight |-> g.flight, sent |-> g.sent, dropped |-> g.dropped]
  BY <1>1 DEF NodeStates, PutBack
<1> HIDE DEF b, e
<1>4. /\ c \in Seq(Entry(p)) /\ Len(c) <= MaxSize
      /\ \E j \in DOMAIN c : c[j] = e
      /\ \A j \in DOMAIN c : c[j] = e \/ \E i \in DOMAIN b : c[j] = b[i]
      /\ \A i \in DOMAIN b : \/ Len(b) >= MaxSize /\ i = 1
                             \/ \E j \in DOMAIN c : c[j] = b[i]
  <2>1. Takes(Entry(p), b, e, c)
    BY <1>2, PutIs DEF c
  <2> QED BY <2>1 DEF Takes
<1>5. e[1] = m /\ e[2] = source
  BY DEF e
<1>6. Len(b) >= MaxSize => b[1][1] \in 1 .. p
  <2> SUFFICES ASSUME Len(b) >= MaxSize PROVE b[1][1] \in 1 .. p
    OBVIOUS
  <2>1. 1 \in 1 .. Len(b) /\ b[1] \in Entry(p)
    BY <1>2, MaxSizeAssumption
  <2> QED BY <2>1 DEF Entry
<1> HIDE DEF c
<1>7. g \in NodeStates(p)
  <2>1. g.dropped \subseteq 1 .. p
    <3>1. h.dropped \subseteq 1 .. p
      BY <1>1 DEF NodeStates
    <3> QED BY <3>1, <1>3, <1>6
  <2>2. g.seen \subseteq 1 .. p /\ g.notPropagated \subseteq 1 .. p
    BY <1>1, <1>3 DEF NodeStates
  <2>3. g.flight \in [Node -> Seq(1 .. p)] /\ g.sent \in [Message -> 0 .. 2]
    BY <1>1, <1>3 DEF NodeStates
  <2> QED BY <1>3, <1>4, <2>1, <2>2, <2>3 DEF NodeStates
<1>8. Once(g)
  BY <1>3 DEF Good, Once
<1>9. NothingForgotten(g, rest \ {m})
  <2> SUFFICES ASSUME NEW x \in g.notPropagated
               PROVE  x \in rest \ {m} \/ Waits(g, x) \/ x \in g.dropped
    BY DEF NothingForgotten
  <2>1. CASE x = m
    BY <1>3, <1>4, <1>5, <2>1 DEF Waits
  <2>2. CASE x # m
    <3>1. x \in h.notPropagated
      BY <1>3, <2>2
    <3>2. x \in rest \/ Waits(h, x) \/ x \in h.dropped
      BY <3>1 DEF Good, NothingForgotten
    <3>3. CASE x \in rest
      BY <2>2, <3>3
    <3>4. CASE x \in h.dropped
      BY <1>3, <3>4
    <3>5. CASE Waits(h, x)
      <4>1. PICK i \in DOMAIN b : b[i][1] = x
        BY <3>5 DEF Waits, b
      <4>2. CASE Len(b) >= MaxSize /\ i = 1
        BY <1>3, <4>1, <4>2
      <4>3. CASE \E j \in DOMAIN c : c[j] = b[i]
        BY <1>3, <4>1, <4>3 DEF Waits
      <4> QED BY <1>4, <4>2, <4>3
    <3> QED BY <3>2, <3>3, <3>4, <3>5
  <2> QED BY <2>1, <2>2
<1>10. NobodyElse(g, neighbors)
  BY <1>3, <1>4, <1>5 DEF Good, NobodyElse, b
<1> QED BY <1>3, <1>4, <1>7, <1>8, <1>9, <1>10 DEF Good

\* So can it be propagated.
LEMMA PropagatedKeeps ==
    ASSUME NEW p \in 0 .. MaxMessages, NEW neighbors, NEW rest, NEW h,
           Good(h, neighbors, rest, p),
           NEW m \in 1 .. p, NEW subscribers,
           h.sent[m] # 1, ~ IsUnseen(h.seen, m),
           NEW g, g = Propagated(h, m, subscribers)
    PROVE  Good(g, neighbors, rest \ {m}, p)
<1>1. h \in NodeStates(p) /\ m \in Message
  BY MaxMessagesAssumption DEF Good, Message
<1>2. h.sent \in [Message -> 0 .. 2] /\ h.sent[m] = 0
  <2>1. h.sent \in [Message -> 0 .. 2] /\ h.sent[m] <= 1
    BY <1>1 DEF NodeStates, Good, Once
  <2>2. h.sent[m] \in 0 .. 2
    BY <1>1, <2>1
  <2> QED BY <2>1, <2>2
<1>3. /\ g.seen = h.seen /\ g.notPropagated = h.notPropagated \ {m}
      /\ g.buffer = h.buffer /\ g.flight = SentTo(h.flight, m, subscribers)
      /\ g.sent = [h.sent EXCEPT ![m] = IF @ = 0 THEN 1 ELSE 2]
      /\ g.dropped = h.dropped
      /\ g = [seen |-> g.seen, notPropagated |-> g.notPropagated, buffer |-> g.buffer,
              flight |-> g.flight, sent |-> g.sent, dropped |-> g.dropped]
  BY <1>1 DEF NodeStates, Propagated
<1>4. g.sent \in [Message -> 0 .. 2] /\ g.sent[m] = 1
      /\ \A x \in Message : x # m => g.sent[x] = h.sent[x]
  BY <1>1, <1>2, <1>3
<1>5. g.flight \in [Node -> Seq(1 .. p)]
  <2>1. h.flight \in [Node -> Seq(1 .. p)]
    BY <1>1 DEF NodeStates
  <2>2. \A k \in Node : h.flight[k] \in Seq(1 .. p) /\ Append(h.flight[k], m) \in Seq(1 .. p)
    BY <2>1
  <2> QED BY <1>3, <2>2 DEF SentTo
<1>6. g \in NodeStates(p)
  <2>1. g.seen \subseteq 1 .. p /\ g.notPropagated \subseteq 1 .. p
        /\ g.buffer \in Seq(Entry(p)) /\ g.dropped \subseteq 1 .. p
    BY <1>1, <1>3 DEF NodeStates
  <2> QED BY <1>3, <1>4, <1>5, <2>1 DEF NodeStates
<1>7. Once(g)
  <2> SUFFICES ASSUME NEW x \in Message
               PROVE  /\ g.sent[x] <= 1
                      /\ g.sent[x] = 1 => ~ IsUnseen(g.seen, x) /\ x \notin g.notPropagated
    BY DEF Once
  <2>1. CASE x = m
    BY <1>3, <1>4, <2>1
  <2>2. CASE x # m
    BY <1>3, <1>4, <2>2 DEF Good, Once
  <2> QED BY <2>1, <2>2
<1>8. NothingForgotten(g, rest \ {m})
  BY <1>3 DEF Good, NothingForgotten, Waits
<1>9. NobodyElse(g, neighbors) /\ Len(g.buffer) <= MaxSize
  BY <1>3 DEF Good, NobodyElse
<1> QED BY <1>6, <1>7, <1>8, <1>9 DEF Good

\* What a node has done with a message keeps it in order.
LEMMA PropagateMessageKeeps ==
    ASSUME NEW p \in 0 .. MaxMessages, NEW neighbors, NEW rest, NEW h,
           Good(h, neighbors, rest, p),
           NEW m \in 1 .. p, NEW source \in Source,
           h.sent[m] # 1, ~ IsUnseen(h.seen, m),
           NEW g, g = PropagateMessage(h, m, source, neighbors)
    PROVE  Good(g, neighbors, rest \ {m}, p)
<1>1. CASE neighbors \ {source} = {}
  <2>1. g = PutBack(h, m, source)
    BY <1>1 DEF PropagateMessage, Subscribers
  <2>2. neighbors \subseteq {source} /\ p \in Nat
    BY <1>1
  <2> QED BY <2>1, <2>2, PutBackKeeps
<1>2. CASE neighbors \ {source} # {}
  <2>1. g = Propagated(h, m, neighbors \ {source})
    BY <1>2 DEF PropagateMessage, Subscribers
  <2> QED BY <2>1, PropagatedKeeps
<1> QED BY <1>1, <1>2

\* onDataReceived keeps a node in order: a message of the buffer is handled.
LEMMA DataReceivedKeeps ==
    ASSUME NEW p \in 0 .. MaxMessages, NEW neighbors, NEW rest, NEW h,
           Good(h, neighbors, rest, p),
           NEW m \in 1 .. p, NEW source \in Source,
           NEW g, g = DataReceived(h, m, source, neighbors)
    PROVE  Good(g, neighbors, rest \ {m}, p)
<1>1. h \in NodeStates(p) /\ m \in Message
  BY MaxMessagesAssumption DEF Good, Message
<1>2. CASE IsUnseen(h.seen, m)
  <2>0. PICK a : a = [h EXCEPT !.seen = @ \cup {m}]
    OBVIOUS
  <2>1. /\ a.seen = h.seen \cup {m} /\ a.notPropagated = h.notPropagated
        /\ a.buffer = h.buffer /\ a.flight = h.flight
        /\ a.sent = h.sent /\ a.dropped = h.dropped
        /\ a = [seen |-> a.seen, notPropagated |-> a.notPropagated, buffer |-> a.buffer,
                flight |-> a.flight, sent |-> a.sent, dropped |-> a.dropped]
    BY <1>1, <2>0 DEF NodeStates
  <2>2. g = PropagateMessage(a, m, source, neighbors)
    BY <1>2, <2>0 DEF DataReceived
  <2>3. a \in NodeStates(p)
    BY <1>1, <2>1 DEF NodeStates
  <2>4. h.seen \subseteq Nat /\ a.seen \subseteq Nat
    BY <1>1, <2>3 DEF NodeStates
  <2>5. Once(a)
    <3> SUFFICES ASSUME NEW x \in Message
                 PROVE  /\ a.sent[x] <= 1
                        /\ a.sent[x] = 1 => ~ IsUnseen(a.seen, x) /\ x \notin a.notPropagated
      BY DEF Once
    <3>1. h.sent[x] <= 1 /\ (h.sent[x] = 1 => ~ IsUnseen(h.seen, x) /\ x \notin h.notPropagated)
      BY DEF Good, Once
    <3>2. x \in Nat /\ m \in Nat
      BY DEF Message
    <3>3. ~ IsUnseen(h.seen, x) => ~ IsUnseen(h.seen \cup {m}, x)
      BY <1>2, <2>4, <3>2, RefusedForGood
    <3> QED BY <2>1, <3>1, <3>3
  <2>6. Good(a, neighbors, rest, p)
    BY <2>1, <2>3, <2>5 DEF Good, NothingForgotten, NobodyElse, Waits
  <2>7. a.sent[m] # 1 /\ ~ IsUnseen(a.seen, m)
    <3>1. a.sent[m] # 1
      BY <1>1, <1>2, <2>1 DEF Good, Once
    <3>2. m \in a.seen
      BY <2>1
    <3> QED BY <3>1, <3>2 DEF IsUnseen
  <2> QED BY <2>2, <2>6, <2>7, PropagateMessageKeeps
<1>3. CASE ~ IsUnseen(h.seen, m) /\ m \in h.notPropagated
  <2>1. g = PropagateMessage(h, m, source, neighbors)
    BY <1>3 DEF DataReceived
  <2>2. h.sent[m] # 1
    BY <1>1, <1>3 DEF Good, Once
  <2> QED BY <1>3, <2>1, <2>2, PropagateMessageKeeps
<1>4. CASE ~ IsUnseen(h.seen, m) /\ m \notin h.notPropagated
  <2>1. g = h
    BY <1>4 DEF DataReceived
  <2> QED BY <1>4, <2>1 DEF Good, NothingForgotten
<1> QED BY <1>2, <1>3, <1>4

\* What handling the buffer comes to: one message after the other is received.
LEMMA BufferHandledIs ==
    ASSUME NEW h, NEW neighbors, Len(h.buffer) \in Nat
    PROVE  \E f : /\ f[0] = [h EXCEPT !.buffer = <<>>]
                  /\ \A i \in 1 .. Len(h.buffer) :
                        f[i] = DataReceived(f[i - 1], h.buffer[i][1], h.buffer[i][2],
                                            neighbors)
                  /\ BufferHandled(h, neighbors) = f[Len(h.buffer)]
<1> DEFINE N == Len(h.buffer)
           D(g, i) == DataReceived(g, h.buffer[i][1], h.buffer[i][2], neighbors)
           first == [h EXCEPT !.buffer = <<>>]
           handled[i \in 0 .. Len(h.buffer)] ==
             IF i = 0 THEN [h EXCEPT !.buffer = <<>>]
             ELSE DataReceived(handled[i - 1], h.buffer[i][1], h.buffer[i][2], neighbors)
           P(n, f) == f = [i \in 0 .. n |-> IF i = 0 THEN first ELSE D(f[i - 1], i)]
           S == {n \in Nat : \E f : P(n, f)}
<1>1. BufferHandled(h, neighbors) = handled[N]
  BY DEF BufferHandled
<1>2. 0 \in S
  <2> DEFINE f == [i \in 0 .. 0 |-> first]
  <2> HIDE DEF first, D
  <2>1. P(0, f)
    OBVIOUS
  <2> QED BY <2>1
<1>3. ASSUME NEW n \in Nat, n \in S PROVE n + 1 \in S
  <2>1. PICK f : P(n, f)
    BY <1>3
  <2> DEFINE g == [i \in 0 .. n + 1 |-> IF i = n + 1 THEN D(f[n], i) ELSE f[i]]
  <2> HIDE DEF first, D
  <2>2. /\ \A i \in 0 .. n : f[i] = IF i = 0 THEN first ELSE D(f[i - 1], i)
        /\ f = [i \in 0 .. n |-> f[i]]
    BY <2>1, Zenon
  <2>3. ASSUME NEW i \in 0 .. n + 1
        PROVE  g[i] = IF i = 0 THEN first ELSE D(g[i - 1], i)
    <3>1. CASE i = n + 1
      <4>1. i # 0 /\ i - 1 = n /\ n \in 0 .. n + 1 /\ n # n + 1
        BY <3>1
      <4>2. g[i - 1] = f[n]
        BY <4>1
      <4>3. g[i] = D(f[n], i)
        BY <3>1, Zenon
      <4> QED BY <4>1, <4>2, <4>3, Zenon
    <3>2. CASE i = 0
      <4>1. i \in 0 .. n /\ i # n + 1
        BY <3>2
      <4>2. g[i] = f[i]
        BY <4>1
      <4> QED BY <2>2, <3>2, <4>1, <4>2, Zenon
    <3>3. CASE i # n + 1 /\ i # 0
      <4>1. i \in 0 .. n /\ i - 1 \in 0 .. n /\ i - 1 \in 0 .. n + 1 /\ i - 1 # n + 1
        <5> HIDE DEF g, P, S
        <5> QED BY <3>3
      <4>2. g[i - 1] = f[i - 1] /\ g[i] = f[i]
        BY <3>3, <4>1
      <4> QED BY <2>2, <3>3, <4>1, <4>2, Zenon
    <3> QED BY <3>1, <3>2, <3>3
  <2> HIDE DEF g
  <2>4. g = [i \in 0 .. n + 1 |-> g[i]]
    BY DEF g
  <2>5. P(n + 1, g)
    BY <2>3, <2>4, Zenon
  <2> HIDE DEF P
  <2> QED BY <2>5
<1>4. N \in S
  BY <1>2, <1>3, InductionSet
<1>5. \E f : P(N, f)
  BY <1>4
<1>6. P(N, handled)
  BY <1>5
<1> HIDE DEF handled
<1>7. handled[0] = first
  BY <1>6
<1>8. ASSUME NEW i \in 1 .. N PROVE handled[i] = D(handled[i - 1], i)
  <2>1. i \in 0 .. N /\ i # 0
    OBVIOUS
  <2>2. handled[i] = IF i = 0 THEN first ELSE D(handled[i - 1], i)
    BY <1>6, <2>1, Zenon
  <2> QED BY <2>1, <2>2, Zenon
<1> QED BY <1>1, <1>7, <1>8, Zenon

\* Handling the buffer keeps a node in order, whatever neighbors it has now.
LEMMA BufferHandledKeeps ==
    ASSUME NEW p \in 0 .. MaxMessages, NEW before, NEW neighbors, NEW h,
           Good(h, before, {}, p),
           NEW g, g = BufferHandled(h, neighbors)
    PROVE  Good(g, neighbors, {}, p)
<1> DEFINE b == h.buffer
           N == Len(b)
           Rest(i) == {b[j][1] : j \in i + 1 .. N}
<1>1. h \in NodeStates(p) /\ b \in Seq(Entry(p)) /\ N \in Nat
  BY DEF Good, NodeStates
<1>2. \A i \in 1 .. N : b[i][1] \in 1 .. p /\ b[i][2] \in Source
  BY <1>1 DEF Entry
<1>3. PICK f : /\ f[0] = [h EXCEPT !.buffer = <<>>]
               /\ \A i \in 1 .. N : f[i] = DataReceived(f[i - 1], b[i][1], b[i][2], neighbors)
               /\ g = f[N]
  <2>1. \E f : /\ f[0] = [h EXCEPT !.buffer = <<>>]
               /\ \A i \in 1 .. N : f[i] = DataReceived(f[i - 1], b[i][1], b[i][2], neighbors)
               /\ BufferHandled(h, neighbors) = f[N]
    BY <1>1, BufferHandledIs, Zenon
  <2> QED BY <2>1
<1> DEFINE S == {i \in Nat : i <= N => Good(f[i], neighbors, Rest(i), p)}
<1>4. 0 \in S
  <2>0. PICK a : a = f[0]
    OBVIOUS
  <2>1. /\ a.seen = h.seen /\ a.notPropagated = h.notPropagated
        /\ a.buffer = <<>> /\ a.flight = h.flight
        /\ a.sent = h.sent /\ a.dropped = h.dropped
        /\ a = [seen |-> a.seen, notPropagated |-> a.notPropagated, buffer |-> a.buffer,
                flight |-> a.flight, sent |-> a.sent, dropped |-> a.dropped]
    BY <1>1, <1>3, <2>0 DEF NodeStates
  <2>2. a \in NodeStates(p)
    <3>1. <<>> \in Seq(Entry(p))
      OBVIOUS
    <3> QED BY <1>1, <2>1, <3>1 DEF NodeStates
  <2>3. Len(a.buffer) <= MaxSize /\ NobodyElse(a, neighbors)
    BY <2>1, MaxSizeAssumption DEF NobodyElse
  <2>4. Once(a)
    BY <2>1 DEF Good, Once
  <2>5. NothingForgotten(a, Rest(0))
    <3> SUFFICES ASSUME NEW x \in h.notPropagated
                 PROVE  x \in Rest(0) \/ x \in h.dropped
      BY <2>1 DEF NothingForgotten
    <3>1. CASE Waits(h, x)
      <4>1. PICK i \in DOMAIN b : b[i][1] = x
        BY <3>1 DEF Waits
      <4>2. i \in 0 + 1 .. N
        BY <1>1, <4>1
      <4> QED BY <4>1, <4>2
    <3> QED BY <3>1 DEF Good, NothingForgotten
  <2>6. Good(a, neighbors, Rest(0), p)
    BY <2>2, <2>3, <2>4, <2>5 DEF Good
  <2> HIDE DEF Rest
  <2> QED BY <2>0, <2>6
<1>5. ASSUME NEW i \in Nat, i \in S PROVE i + 1 \in S
  <2> SUFFICES ASSUME i + 1 <= N PROVE Good(f[i + 1], neighbors, Rest(i + 1), p)
    OBVIOUS
  <2> DEFINE m == b[i + 1][1]
             source == b[i + 1][2]
  <2>1. i + 1 \in 1 .. N /\ (i + 1) - 1 = i /\ i <= N
    BY <1>1
  <2>2. Good(f[i], neighbors, Rest(i), p)
    BY <1>5, <2>1
  <2>3. f[i + 1] = DataReceived(f[i], m, source, neighbors)
    BY <1>3, <2>1
  <2>4. m \in 1 .. p /\ source \in Source
    BY <1>2, <2>1
  <2>5. Rest(i) \ {m} \subseteq Rest(i + 1)
    <3> SUFFICES ASSUME NEW j \in i + 1 .. N, b[j][1] # m
                 PROVE  j \in (i + 1) + 1 .. N
      OBVIOUS
    <3> QED BY <1>1
  <2> HIDE DEF Rest, m, source
  <2>6. Good(f[i + 1], neighbors, Rest(i) \ {m}, p)
    BY <2>2, <2>3, <2>4, DataReceivedKeeps
  <2> QED BY <2>5, <2>6 DEF Good, NothingForgotten
<1>6. N \in S
  <2> HIDE DEF S
  <2> QED BY <1>1, <1>4, <1>5, InductionSet
<1>7. Rest(N) = {}
  BY <1>1
<1> HIDE DEF Rest
<1>8. N <= N
  BY <1>1
<1>9. Good(f[N], neighbors, Rest(N), p)
  BY <1>6, <1>8
<1> QED BY <1>3, <1>7, <1>9

-----------------------------------------------------------------------------
(***************************************************************************)
(* The nodes                                                               *)
(***************************************************************************)
NetworkTypes ==
    /\ published \in 0 .. MaxMessages
    /\ events \in Nat
    /\ subscribed \in [Node -> BOOLEAN]
    /\ outbound \in [Node -> SUBSET Node]
    /\ failures \in [Node -> [Node -> 0 .. FailureLimit - 1]]

PerNode ==
    /\ seen = [n \in Node |-> seen[n]]
    /\ notPropagated = [n \in Node |-> notPropagated[n]]
    /\ buffer = [n \in Node |-> buffer[n]]
    /\ flight = [n \in Node |-> flight[n]]
    /\ sent = [n \in Node |-> sent[n]]
    /\ dropped = [n \in Node |-> dropped[n]]

NodesInOrder == \A n \in Node : Good(StateOf(n), outbound[n], {}, published)

IInv == NetworkTypes /\ PerNode /\ NodesInOrder

\* The parts of a node's state
LEMMA StateOfIs ==
    ASSUME NEW n \in Node
    PROVE  /\ StateOf(n).seen = seen[n]
           /\ StateOf(n).notPropagated = notPropagated[n]
           /\ StateOf(n).buffer = buffer[n]
           /\ StateOf(n).flight = flight[n]
           /\ StateOf(n).sent = sent[n]
           /\ StateOf(n).dropped = dropped[n]
BY DEF StateOf

\* What the invariant says of one node
LEMMA NodeInOrder ==
    ASSUME IInv, NEW n \in Node
    PROVE  /\ Good(StateOf(n), outbound[n], {}, published)
           /\ seen[n] \subseteq 1 .. published
           /\ notPropagated[n] \subseteq 1 .. published
           /\ buffer[n] \in Seq(Entry(published)) /\ Len(buffer[n]) <= MaxSize
           /\ flight[n] \in [Node -> Seq(1 .. published)]
           /\ sent[n] \in [Message -> 0 .. 2]
           /\ dropped[n] \subseteq 1 .. published
           /\ outbound[n] \subseteq Node
           /\ published \in 0 .. MaxMessages /\ published \in Nat
<1>1. Good(StateOf(n), outbound[n], {}, published)
  BY DEF IInv, NodesInOrder
<1>2. outbound[n] \subseteq Node /\ published \in 0 .. MaxMessages /\ published \in Nat
  BY MaxMessagesAssumption DEF IInv, NetworkTypes
<1>3. StateOf(n) \in NodeStates(published) /\ Len(StateOf(n).buffer) <= MaxSize
  BY <1>1 DEF Good
<1> QED BY <1>1, <1>2, <1>3, StateOfIs DEF NodeStates

\* A node that does not act stays in order when it loses neighbors and
\* something else is in flight.
LEMMA OtherKeeps ==
    ASSUME IInv, published' \in Nat, published <= published', NEW k \in Node,
           outbound'[k] \subseteq outbound[k],
           seen'[k] = seen[k], notPropagated'[k] = notPropagated[k],
           buffer'[k] = buffer[k], sent'[k] = sent[k], dropped'[k] = dropped[k],
           flight'[k] \in [Node -> Seq(1 .. published')]
    PROVE  Good(StateOf(k)', outbound'[k], {}, published')
<1>1. Good(StateOf(k), outbound[k], {}, published) /\ published \in Nat
  BY NodeInOrder
<1> DEFINE h == StateOf(k)
<1>2. StateOf(k)' = [seen |-> h.seen, notPropagated |-> h.notPropagated,
                     buffer |-> h.buffer, flight |-> flight'[k],
                     sent |-> h.sent, dropped |-> h.dropped]
  BY StateOfIs DEF StateOf
<1> QED BY <1>1, <1>2, GoodGrows

\* A step in which one node acts
LEMMA BecomesKeeps ==
    ASSUME IInv, published' \in Nat, published <= published',
           NEW n \in Node, NEW h, Good(h, outbound'[n], {}, published'),
           \A k \in Node \ {n} : outbound'[k] \subseteq outbound[k],
           NEW inFlight \in [Node -> [Node -> Seq(1 .. published')]],
           Becomes(n, h, inFlight)
    PROVE  PerNode' /\ NodesInOrder'
<1>1. h \in NodeStates(published')
  BY DEF Good
<1>2. PerNode'
  BY DEF IInv, PerNode, Becomes
<1>3. StateOf(n)' = h
  BY <1>1 DEF IInv, PerNode, Becomes, StateOf, NodeStates
<1>4. ASSUME NEW k \in Node \ {n}
      PROVE  Good(StateOf(k)', outbound'[k], {}, published')
  <2>1. /\ seen'[k] = seen[k] /\ notPropagated'[k] = notPropagated[k]
        /\ buffer'[k] = buffer[k] /\ sent'[k] = sent[k] /\ dropped'[k] = dropped[k]
        /\ flight'[k] = inFlight[k]
    BY DEF IInv, PerNode, Becomes
  <2>2. outbound'[k] \subseteq outbound[k] /\ inFlight[k] \in [Node -> Seq(1 .. published')]
    OBVIOUS
  <2> QED BY <2>1, <2>2, OtherKeeps
<1>5. NodesInOrder'
  BY <1>3, <1>4 DEF NodesInOrder
<1> QED BY <1>2, <1>5

\* The nodes start in order.
LEMMA InitInOrder == Init => IInv
<1> SUFFICES ASSUME Init PROVE IInv
  OBVIOUS
<1>1. NetworkTypes
  BY MaxMessagesAssumption, FailureLimitAssumption DEF Init, NetworkTypes
<1>2. PerNode
  BY DEF Init, PerNode
<1>3. ASSUME NEW n \in Node PROVE Good(StateOf(n), outbound[n], {}, published)
  <2>1. /\ StateOf(n).seen = {} /\ StateOf(n).notPropagated = {}
        /\ StateOf(n).buffer = <<>> /\ StateOf(n).dropped = {}
        /\ StateOf(n).flight = [k \in Node |-> <<>>]
        /\ StateOf(n).sent = [m \in Message |-> 0]
        /\ published = 0
    BY StateOfIs DEF Init
  <2>2. <<>> \in Seq(Entry(0)) /\ <<>> \in Seq(1 .. 0)
    OBVIOUS
  <2>3. StateOf(n) \in NodeStates(published)
    <3>1. StateOf(n) = [seen |-> {}, notPropagated |-> {}, buffer |-> <<>>,
                        flight |-> [k \in Node |-> <<>>],
                        sent |-> [m \in Message |-> 0], dropped |-> {}]
      BY <2>1, StateOfIs DEF StateOf
    <3>2. /\ [k \in Node |-> <<>>] \in [Node -> Seq(1 .. 0)]
          /\ [m \in Message |-> 0] \in [Message -> 0 .. 2]
      BY <2>2
    <3> QED BY <2>1, <2>2, <3>1, <3>2 DEF NodeStates
  <2>4. Len(StateOf(n).buffer) <= MaxSize /\ NobodyElse(StateOf(n), outbound[n])
    BY <2>1, MaxSizeAssumption DEF NobodyElse
  <2>5. Once(StateOf(n)) /\ NothingForgotten(StateOf(n), {})
    BY <2>1 DEF Once, NothingForgotten
  <2> QED BY <2>3, <2>4, <2>5 DEF Good
<1> QED BY <1>1, <1>2, <1>3 DEF IInv, NodesInOrder

\* What is in flight, also after the first message to a neighbor has gone
LEMMA InFlightIs ==
    ASSUME IInv, NEW q \in Nat, published <= q, NEW n \in Node, NEW k \in Node
    PROVE  /\ flight \in [Node -> [Node -> Seq(1 .. q)]]
           /\ flight[n][k] # <<>> =>
                 /\ Head(flight[n][k]) \in 1 .. published
                 /\ [flight EXCEPT ![n][k] = Tail(@)] \in [Node -> [Node -> Seq(1 .. q)]]
<1>1. ASSUME NEW i \in Node PROVE flight[i] \in [Node -> Seq(1 .. q)]
  <2>1. flight[i] \in [Node -> Seq(1 .. published)] /\ published \in Nat
    BY NodeInOrder
  <2>2. 1 .. published \subseteq 1 .. q
    BY <2>1
  <2>3. \A j \in Node : flight[i][j] \in Seq(1 .. q)
    BY <2>1, <2>2, SeqMonotonic
  <2> QED BY <2>1, <2>3
<1>2. flight \in [Node -> [Node -> Seq(1 .. q)]]
  BY <1>1 DEF IInv, PerNode
<1>3. ASSUME flight[n][k] # <<>>
      PROVE  /\ Head(flight[n][k]) \in 1 .. published
             /\ [flight EXCEPT ![n][k] = Tail(@)] \in [Node -> [Node -> Seq(1 .. q)]]
  <2>0. PICK s : s = flight[n][k]
    OBVIOUS
  <2>1. s \in Seq(1 .. published) /\ s \in Seq(1 .. q) /\ s # <<>>
    <3>1. flight[n] \in [Node -> Seq(1 .. published)]
      BY NodeInOrder
    <3> QED BY <1>2, <1>3, <2>0, <3>1
  <2>2. Head(flight[n][k]) \in 1 .. published
    BY <2>0, <2>1, HeadTailProperties
  <2>3. Tail(flight[n][k]) \in Seq(1 .. q)
    BY <2>0, <2>1, HeadTailProperties
  <2> QED BY <1>2, <2>2, <2>3
<1> QED BY <1>2, <1>3

\* The publisher gives its node a message.
LEMMA PublishKeeps == IInv /\ Publish => IInv'
<1> SUFFICES ASSUME IInv, Publish PROVE IInv'
  OBVIOUS
<1> DEFINE n == Publisher
<1>0. n \in Node
  BY PublisherAssumption
<1>1. published' \in 0 .. MaxMessages /\ published' \in Nat /\ published <= published'
      /\ published' \in 1 .. published'
  BY MaxMessagesAssumption DEF IInv, NetworkTypes, Publish
<1>2. NetworkTypes'
  BY <1>0, <1>1 DEF IInv, NetworkTypes, Publish, SetUp
<1>3. Good(StateOf(n), outbound[n], {}, published')
  <2>1. Good(StateOf(n), outbound[n], {}, published) /\ published \in Nat
    BY <1>0, NodeInOrder
  <2>2. StateOf(n).flight \in [Node -> Seq(1 .. published')]
    BY <1>0, <1>1, InFlightIs, StateOfIs
  <2>3. StateOf(n) = [seen |-> StateOf(n).seen, notPropagated |-> StateOf(n).notPropagated,
                      buffer |-> StateOf(n).buffer, flight |-> StateOf(n).flight,
                      sent |-> StateOf(n).sent, dropped |-> StateOf(n).dropped]
    BY <1>0, StateOfIs DEF StateOf
  <2> QED BY <1>1, <2>1, <2>2, <2>3, GoodGrows
<1>4. PICK h : /\ h = DataReceived(StateOf(n), published', Local, outbound[n])
               /\ Becomes(n, h, flight)
  BY DEF Publish
<1>5. Good(h, outbound[n], {}, published')
  <2>1. Local \in Source
    BY DEF Source
  <2>2. Good(h, outbound[n], {} \ {published'}, published')
    BY <1>1, <1>3, <1>4, <2>1, DataReceivedKeeps
  <2> QED BY <2>2
<1>6. flight \in [Node -> [Node -> Seq(1 .. published')]]
  BY <1>0, <1>1, InFlightIs
<1>7. outbound' = outbound
  BY DEF Publish
<1>8. PerNode' /\ NodesInOrder'
  BY <1>0, <1>1, <1>4, <1>5, <1>6, <1>7, BecomesKeeps
<1> QED BY <1>2, <1>8 DEF IInv

\* A node gets a message of a neighbor.
LEMMA DeliverKeeps ==
    ASSUME IInv, NEW n \in Node, NEW k \in Node, Deliver(n, k)
    PROVE  IInv'
<1>1. published' = published /\ outbound' = outbound /\ events' = events
      /\ flight[n][k] # <<>>
  BY DEF Deliver
<1>2. published \in 0 .. MaxMessages /\ published \in Nat /\ published <= published
      /\ Good(StateOf(k), outbound[k], {}, published)
  BY NodeInOrder
<1>3. failures' \in [Node -> [Node -> 0 .. FailureLimit - 1]]
  BY FailureLimitAssumption DEF IInv, NetworkTypes, Deliver
<1>4. NetworkTypes'
  BY <1>1, <1>3 DEF IInv, NetworkTypes, Deliver, SetUp
<1>5. PICK h : /\ h = DataReceived(StateOf(k), Head(flight[n][k]), n, outbound[k])
               /\ Becomes(k, h, [flight EXCEPT ![n][k] = Tail(@)])
  BY DEF Deliver
<1>6. /\ Head(flight[n][k]) \in 1 .. published
      /\ [flight EXCEPT ![n][k] = Tail(@)] \in [Node -> [Node -> Seq(1 .. published)]]
  BY <1>1, <1>2, InFlightIs
<1>7. Good(h, outbound[k], {}, published)
  <2>1. n \in Source
    BY DEF Source
  <2>2. Good(h, outbound[k], {} \ {Head(flight[n][k])}, published)
    BY <1>2, <1>5, <1>6, <2>1, DataReceivedKeeps
  <2> QED BY <2>2
<1>8. PerNode' /\ NodesInOrder'
  BY <1>1, <1>2, <1>5, <1>6, <1>7, BecomesKeeps
<1> QED BY <1>4, <1>8 DEF IInv

\* A node is told to send to a neighbor, and handles its buffer.
LEMMA SubscribeKeeps ==
    ASSUME IInv, NEW n \in Node, NEW k \in Node, SubscribeToStreamOnNode(n, k)
    PROVE  IInv'
<1>1. published' = published /\ outbound' = [outbound EXCEPT ![n] = @ \cup {k}]
      /\ events' = events + 1 /\ subscribed' = subscribed /\ failures' = failures
  BY DEF SubscribeToStreamOnNode, Event
<1>2. published \in 0 .. MaxMessages /\ published \in Nat /\ published <= published
      /\ Good(StateOf(n), outbound[n], {}, published)
  BY NodeInOrder
<1>3. NetworkTypes'
  BY <1>1 DEF IInv, NetworkTypes
<1>4. PICK h : /\ h = BufferHandled(StateOf(n), outbound'[n])
               /\ Becomes(n, h, flight)
  BY DEF SubscribeToStreamOnNode
<1>5. Good(h, outbound'[n], {}, published)
  BY <1>2, <1>4, BufferHandledKeeps
<1>6. \A j \in Node \ {n} : outbound'[j] \subseteq outbound[j]
  BY <1>1 DEF IInv, NetworkTypes
<1>7. flight \in [Node -> [Node -> Seq(1 .. published)]]
  BY <1>2, InFlightIs
<1>8. PerNode' /\ NodesInOrder'
  BY <1>1, <1>2, <1>4, <1>5, <1>6, <1>7, BecomesKeeps
<1> QED BY <1>3, <1>8 DEF IInv

\* A send fails: the neighbor does not get the message.
LEMMA SendFailsKeeps ==
    ASSUME IInv, NEW n \in Node, NEW k \in Node, SendFails(n, k)
    PROVE  IInv'
<1>1. /\ published' = published /\ events' = events + 1 /\ subscribed' = subscribed
      /\ seen' = seen /\ notPropagated' = notPropagated /\ buffer' = buffer
      /\ sent' = sent /\ dropped' = dropped
      /\ flight[n][k] # <<>> /\ flight' = [flight EXCEPT ![n][k] = Tail(@)]
  BY DEF SendFails, Event
<1>2. published \in Nat /\ published <= published
  BY NodeInOrder
<1>3. PICK count : /\ count = failures[n][k] + 1
                   /\ IF IsLimit(count)
                      THEN /\ outbound' = [outbound EXCEPT ![n] = @ \ {k}]
                           /\ failures' = [failures EXCEPT ![n][k] = 0]
                      ELSE /\ failures' = [failures EXCEPT ![n][k] = count]
                           /\ outbound' = outbound
  BY DEF SendFails
<1>4. count \in Nat /\ (~ IsLimit(count) => count \in 0 .. FailureLimit - 1)
  <2>1. failures[n][k] \in 0 .. FailureLimit - 1
    BY DEF IInv, NetworkTypes
  <2> QED BY <1>3, <2>1, FailureLimitAssumption DEF IsLimit
<1>5. failures' \in [Node -> [Node -> 0 .. FailureLimit - 1]]
  <2>1. failures \in [Node -> [Node -> 0 .. FailureLimit - 1]] /\ 0 \in 0 .. FailureLimit - 1
    BY FailureLimitAssumption DEF IInv, NetworkTypes
  <2>2. CASE IsLimit(count)
    BY <1>3, <2>1, <2>2
  <2>3. CASE ~ IsLimit(count)
    BY <1>3, <1>4, <2>1, <2>3
  <2> QED BY <2>2, <2>3
<1>6. outbound' \in [Node -> SUBSET Node] /\ \A j \in Node : outbound'[j] \subseteq outbound[j]
  <2>1. outbound \in [Node -> SUBSET Node]
    BY DEF IInv, NetworkTypes
  <2>2. CASE outbound' = outbound
    BY <2>1, <2>2
  <2>3. CASE outbound' = [outbound EXCEPT ![n] = @ \ {k}]
    BY <2>1, <2>3
  <2> QED BY <1>3, <2>2, <2>3
<1>7. NetworkTypes'
  BY <1>1, <1>5, <1>6 DEF IInv, NetworkTypes
<1>8. flight' \in [Node -> [Node -> Seq(1 .. published')]]
  BY <1>1, <1>2, InFlightIs
<1>9. PerNode'
  BY <1>1, <1>8 DEF IInv, PerNode
<1>10. NodesInOrder'
  BY <1>1, <1>2, <1>6, <1>8, OtherKeeps DEF NodesInOrder
<1> QED BY <1>7, <1>9, <1>10 DEF IInv

\* A node loses a neighbor.
LEMMA RemoveNeighborKeeps ==
    ASSUME IInv, NEW n \in Node, NEW k \in Node, RemoveNeighbor(n, k)
    PROVE  IInv'
<1>1. /\ published' = published /\ events' = events + 1 /\ subscribed' = subscribed
      /\ failures' = failures /\ outbound' = [outbound EXCEPT ![n] = @ \ {k}]
      /\ seen' = seen /\ notPropagated' = notPropagated /\ buffer' = buffer
      /\ flight' = flight /\ sent' = sent /\ dropped' = dropped
  BY DEF RemoveNeighbor, Event, nodeVars
<1>2. published \in Nat /\ published <= published
  BY NodeInOrder
<1>3. outbound' \in [Node -> SUBSET Node] /\ \A j \in Node : outbound'[j] \subseteq outbound[j]
  BY <1>1 DEF IInv, NetworkTypes
<1>4. NetworkTypes'
  BY <1>1, <1>3 DEF IInv, NetworkTypes
<1>5. flight' \in [Node -> [Node -> Seq(1 .. published')]]
  BY <1>1, <1>2, InFlightIs
<1>6. PerNode'
  BY <1>1 DEF IInv, PerNode
<1>7. NodesInOrder'
  BY <1>1, <1>2, <1>3, <1>5, OtherKeeps DEF NodesInOrder
<1> QED BY <1>4, <1>6, <1>7 DEF IInv

\* A node leaves the stream and forgets its buffer.
LEMMA UnsubscribeKeeps ==
    ASSUME IInv, NEW n \in Node, Unsubscribe(n)
    PROVE  IInv'
<1>1. /\ published' = published /\ events' = events + 1
      /\ subscribed' = [subscribed EXCEPT ![n] = FALSE]
      /\ outbound' = [outbound EXCEPT ![n] = {}]
      /\ seen' = [seen EXCEPT ![n] = {}]
      /\ sent' = [sent EXCEPT ![n] = [m \in Message |-> 0]]
      /\ notPropagated' = notPropagated /\ buffer' = buffer
      /\ flight' = flight /\ failures' = failures /\ dropped' = dropped
  BY DEF Unsubscribe, Event
<1>2. published \in Nat /\ published <= published
  BY NodeInOrder
<1>3. outbound' \in [Node -> SUBSET Node] /\ \A j \in Node : outbound'[j] \subseteq outbound[j]
  BY <1>1 DEF IInv, NetworkTypes
<1>4. NetworkTypes'
  BY <1>1, <1>3 DEF IInv, NetworkTypes
<1>5. flight' \in [Node -> [Node -> Seq(1 .. published')]]
  BY <1>1, <1>2, InFlightIs
<1>6. PerNode'
  BY <1>1 DEF IInv, PerNode
<1>7. Good(StateOf(n)', outbound'[n], {}, published')
  <2>1. Good(StateOf(n), outbound[n], {}, published)
    BY NodeInOrder
  <2>2. PICK h : h = StateOf(n)'
    OBVIOUS
  <2>3. /\ h = [seen |-> h.seen, notPropagated |-> h.notPropagated, buffer |-> h.buffer,
                flight |-> h.flight, sent |-> h.sent, dropped |-> h.dropped]
        /\ h.seen = {} /\ h.sent = [m \in Message |-> 0]
        /\ h.notPropagated = StateOf(n).notPropagated /\ h.buffer = StateOf(n).buffer
        /\ h.flight = StateOf(n).flight /\ h.dropped = StateOf(n).dropped
        /\ outbound'[n] = {}
    BY <1>1, <2>2 DEF IInv, NetworkTypes, PerNode, StateOf
  <2>4. h \in NodeStates(published)
    <3>1. [m \in Message |-> 0] \in [Message -> 0 .. 2]
      OBVIOUS
    <3>2. h.sent \in [Message -> 0 .. 2] /\ h.seen \subseteq 1 .. published
      BY <2>3, <3>1
    <3> QED BY <2>1, <2>3, <3>2 DEF Good, NodeStates
  <2>5. Len(h.buffer) <= MaxSize /\ NothingForgotten(h, {}) /\ NobodyElse(h, {})
    BY <2>1, <2>3 DEF Good, NothingForgotten, Waits, NobodyElse
  <2>6. Once(h)
    BY <2>3 DEF Once
  <2>7. Good(h, {}, {}, published)
    BY <2>4, <2>5, <2>6 DEF Good
  <2> QED BY <1>1, <2>2, <2>3, <2>7
<1>8. ASSUME NEW k \in Node \ {n}
      PROVE  Good(StateOf(k)', outbound'[k], {}, published')
  <2>1. seen'[k] = seen[k] /\ sent'[k] = sent[k]
    BY <1>1 DEF IInv, PerNode
  <2> QED BY <1>1, <1>2, <1>3, <1>5, <2>1, OtherKeeps
<1>9. NodesInOrder'
  BY <1>7, <1>8 DEF NodesInOrder
<1> QED BY <1>4, <1>6, <1>9 DEF IInv

\* The oldest message of a buffer has waited too long.
LEMMA BufferTimesOutKeeps ==
    ASSUME IInv, NEW n \in Node, BufferTimesOut(n)
    PROVE  IInv'
<1>1. PICK m : /\ m = Head(buffer[n])[1]
               /\ buffer' = [buffer EXCEPT ![n] = Tail(@)]
               /\ notPropagated' \in {notPropagated, [notPropagated EXCEPT ![n] = @ \ {m}]}
               /\ dropped' = [dropped EXCEPT ![n] = @ \cup {m}]
  BY DEF BufferTimesOut
<1>2. /\ published' = published /\ events' = events + 1
      /\ subscribed' = subscribed /\ outbound' = outbound
      /\ seen' = seen /\ sent' = sent /\ flight' = flight /\ failures' = failures
      /\ buffer[n] # <<>>
  BY DEF BufferTimesOut, Event
<1>3. published \in Nat /\ published <= published
  BY NodeInOrder
<1>4. NetworkTypes'
  BY <1>2 DEF IInv, NetworkTypes
<1>5. flight' \in [Node -> [Node -> Seq(1 .. published')]]
  BY <1>2, <1>3, InFlightIs
<1>6. notPropagated' = [k \in Node |-> notPropagated'[k]]
  <2>1. CASE notPropagated' = notPropagated
    BY <2>1 DEF IInv, PerNode
  <2>2. CASE notPropagated' = [notPropagated EXCEPT ![n] = @ \ {m}]
    BY <2>2 DEF IInv, PerNode
  <2> QED BY <1>1, <2>1, <2>2
<1>7. PerNode'
  BY <1>1, <1>2, <1>6 DEF IInv, PerNode
<1>8. Good(StateOf(n)', outbound'[n], {}, published')
  <2>1. Good(StateOf(n), outbound[n], {}, published)
    BY NodeInOrder
  <2>2. PICK h : h = StateOf(n)'
    OBVIOUS
  <2>3. /\ h = [seen |-> h.seen, notPropagated |-> h.notPropagated, buffer |-> h.buffer,
                flight |-> h.flight, sent |-> h.sent, dropped |-> h.dropped]
        /\ h.seen = StateOf(n).seen /\ h.sent = StateOf(n).sent
        /\ h.flight = StateOf(n).flight
        /\ h.buffer = Tail(buffer[n])
        /\ h.dropped = StateOf(n).dropped \cup {m}
    BY <1>1, <1>2, <2>2 DEF IInv, PerNode, StateOf
  <2>4. h.notPropagated \subseteq notPropagated[n]
    <3>1. h.notPropagated = notPropagated'[n]
      BY <2>2 DEF StateOf
    <3>2. CASE notPropagated' = notPropagated
      BY <3>1, <3>2
    <3>3. CASE notPropagated' = [notPropagated EXCEPT ![n] = @ \ {m}]
      BY <3>1, <3>3 DEF IInv, PerNode
    <3> QED BY <1>1, <3>2, <3>3
  <2>5. PICK b : b = buffer[n]
    OBVIOUS
  <2>6. b \in Seq(Entry(published)) /\ b # <<>> /\ Len(b) <= MaxSize
    BY <1>2, <2>5, NodeInOrder
  <2>7. /\ Tail(b) \in Seq(Entry(published)) /\ Len(Tail(b)) = Len(b) - 1
        /\ \A i \in 1 .. Len(Tail(b)) : Tail(b)[i] = b[i + 1]
        /\ Head(b) \in Entry(published) /\ Head(b) = b[1] /\ Len(b) \in Nat
    BY <2>6, HeadTailProperties
  <2>8. DOMAIN b = 1 .. Len(b) /\ DOMAIN Tail(b) = 1 .. Len(b) - 1
    BY <2>6, <2>7
  <2>9. m \in 1 .. published /\ m = b[1][1]
    BY <1>1, <2>5, <2>7 DEF Entry
  <2>10. h \in NodeStates(published)
    <3>1. h.notPropagated \subseteq 1 .. published /\ h.dropped \subseteq 1 .. published
      BY <2>3, <2>4, <2>9, NodeInOrder, StateOfIs
    <3>2. h.buffer \in Seq(Entry(published))
      BY <2>3, <2>5, <2>7
    <3> QED BY <2>1, <2>3, <3>1, <3>2 DEF Good, NodeStates
  <2>11. Len(h.buffer) <= MaxSize
    BY <2>3, <2>5, <2>6, <2>7, MaxSizeAssumption
  <2>12. Once(h)
    BY <2>1, <2>3, <2>4, StateOfIs DEF Good, Once
  <2>13. NothingForgotten(h, {})
    <3> SUFFICES ASSUME NEW x \in h.notPropagated
                 PROVE  Waits(h, x) \/ x \in h.dropped
      BY DEF NothingForgotten
    <3>1. x \in notPropagated[n]
      BY <2>4
    <3>2. Waits(StateOf(n), x) \/ x \in StateOf(n).dropped
      BY <2>1, <3>1, StateOfIs DEF Good, NothingForgotten
    <3>3. CASE Waits(StateOf(n), x)
      <4>1. PICK i \in DOMAIN b : b[i][1] = x
        BY <2>5, <3>3, StateOfIs DEF Waits
      <4>2. CASE i = 1
        BY <2>3, <2>9, <4>1, <4>2
      <4>3. CASE i # 1
        <5>1. i - 1 \in DOMAIN Tail(b) /\ Tail(b)[i - 1] = b[i]
          BY <2>7, <2>8, <4>1, <4>3
        <5> QED BY <2>3, <2>5, <4>1, <5>1 DEF Waits
      <4> QED BY <4>2, <4>3
    <3> QED BY <2>3, <3>2, <3>3
  <2>14. NobodyElse(h, outbound[n])
    <3>1. \A i \in DOMAIN b : outbound[n] \subseteq {b[i][2]}
      BY <2>1, <2>5, StateOfIs DEF Good, NobodyElse
    <3>2. ASSUME NEW i \in DOMAIN Tail(b) PROVE outbound[n] \subseteq {Tail(b)[i][2]}
      <4>1. i + 1 \in DOMAIN b /\ Tail(b)[i] = b[i + 1]
        BY <2>7, <2>8
      <4> QED BY <3>1, <4>1
    <3> QED BY <2>3, <2>5, <3>2 DEF NobodyElse
  <2>15. Good(h, outbound[n], {}, published)
    BY <2>10, <2>11, <2>12, <2>13, <2>14 DEF Good
  <2> QED BY <1>2, <2>2, <2>15
<1>9. ASSUME NEW k \in Node \ {n}
      PROVE  Good(StateOf(k)', outbound'[k], {}, published')
  <2>1. buffer'[k] = buffer[k] /\ dropped'[k] = dropped[k]
    BY <1>1 DEF IInv, PerNode
  <2>2. notPropagated'[k] = notPropagated[k]
    <3>1. CASE notPropagated' = notPropagated
      BY <3>1
    <3>2. CASE notPropagated' = [notPropagated EXCEPT ![n] = @ \ {m}]
      BY <3>2 DEF IInv, PerNode
    <3> QED BY <1>1, <3>1, <3>2
  <2> QED BY <1>2, <1>3, <1>5, <2>1, <2>2, OtherKeeps
<1>10. NodesInOrder'
  BY <1>8, <1>9 DEF NodesInOrder
<1> QED BY <1>4, <1>7, <1>10 DEF IInv

\* A step that changes nothing
LEMMA StutterKeeps == IInv /\ UNCHANGED vars => IInv'
<1> SUFFICES ASSUME IInv, UNCHANGED vars PROVE IInv'
  OBVIOUS
<1>1. /\ published' = published /\ events' = events /\ subscribed' = subscribed
      /\ outbound' = outbound /\ failures' = failures
      /\ seen' = seen /\ notPropagated' = notPropagated /\ buffer' = buffer
      /\ flight' = flight /\ sent' = sent /\ dropped' = dropped
  BY DEF vars, nodeVars
<1> QED BY <1>1 DEF IInv, NetworkTypes, PerNode, NodesInOrder, StateOf

\* Every step keeps the nodes in order.
LEMMA NextKeeps == IInv /\ [Next]_vars => IInv'
<1> SUFFICES ASSUME IInv, [Next]_vars PROVE IInv'
  OBVIOUS
<1>1. CASE Publish
  BY <1>1, PublishKeeps
<1>2. ASSUME NEW n \in Node, NEW k \in Node,
             \/ Deliver(n, k) \/ SendFails(n, k)
             \/ SubscribeToStreamOnNode(n, k) \/ RemoveNeighbor(n, k)
      PROVE  IInv'
  BY <1>2, DeliverKeeps, SendFailsKeeps, SubscribeKeeps, RemoveNeighborKeeps
<1>3. ASSUME NEW n \in Node, Unsubscribe(n) \/ BufferTimesOut(n) PROVE IInv'
  BY <1>3, UnsubscribeKeeps, BufferTimesOutKeeps
<1>4. CASE UNCHANGED vars
  BY <1>4, StutterKeeps
<1> QED BY <1>1, <1>2, <1>3, <1>4 DEF Next

\* The nodes are always in order.
LEMMA NodesAlwaysInOrder == Spec => []IInv
BY InitInOrder, NextKeeps, PTL DEF Spec

\* Of nodes in order, four of the checked properties hold.
LEMMA InOrderMeans ==
    IInv => TypeOK /\ PropagatesOnce /\ UnpropagatedWait /\ WaitOnlyForNeighbors
<1> SUFFICES ASSUME IInv
             PROVE  TypeOK /\ PropagatesOnce /\ UnpropagatedWait /\ WaitOnlyForNeighbors
  OBVIOUS
<1>1. ASSUME NEW n \in Node
      PROVE  /\ seen[n] \in SUBSET (1 .. published)
             /\ notPropagated[n] \in SUBSET (1 .. published)
             /\ buffer[n] \in Seq((1 .. published) \X (Node \cup {Local}))
             /\ Len(buffer[n]) <= MaxSize
             /\ flight[n] \in [Node -> Seq(1 .. published)]
             /\ sent[n] \in [Message -> 0 .. 2]
             /\ dropped[n] \in SUBSET (1 .. published)
  BY NodeInOrder DEF Entry, Source
<1>2. TypeOK
  BY <1>1 DEF IInv, NetworkTypes, PerNode, TypeOK
<1>3. ASSUME NEW n \in Node
      PROVE  /\ \A m \in Message : sent[n][m] <= 1
             /\ notPropagated[n] \subseteq Buffered(n) \cup dropped[n]
             /\ \A i \in DOMAIN buffer[n] : outbound[n] \subseteq {buffer[n][i][2]}
  <2>1. Good(StateOf(n), outbound[n], {}, published)
    BY NodeInOrder
  <2>2. \A m \in Message : sent[n][m] <= 1
    BY <2>1, StateOfIs DEF Good, Once
  <2>3. \A i \in DOMAIN buffer[n] : outbound[n] \subseteq {buffer[n][i][2]}
    BY <2>1, StateOfIs DEF Good, NobodyElse
  <2>4. ASSUME NEW m \in notPropagated[n], m \notin dropped[n] PROVE m \in Buffered(n)
    <3>1. \E i \in DOMAIN buffer[n] : buffer[n][i][1] = m
      BY <2>1, <2>4, StateOfIs DEF Good, NothingForgotten, Waits
    <3> QED BY <3>1 DEF Buffered
  <2> QED BY <2>2, <2>3, <2>4
<1> QED BY <1>2, <1>3 DEF PropagatesOnce, UnpropagatedWait, WaitOnlyForNeighbors

\* The parts of the state have their types: messages that were published, buffers
\* no longer than bufferMaxSize, failures below the limit.
THEOREM TypeCorrect == Spec => []TypeOK
BY NodesAlwaysInOrder, InOrderMeans, PTL

\* In any network and however it changes, a node that stays subscribed propagates
\* a message at most once: propagateMessage deletes it from
\* seenButNotPropagatedSet, and the detector accepts no duplicate.
THEOREM AlwaysPropagatesOnce == Spec => []PropagatesOnce
BY NodesAlwaysInOrder, InOrderMeans, PTL

\* What seenButNotPropagatedSet holds is in the buffer of the node, so that the
\* next neighbor gets it, unless its timeout came or a full buffer gave it up:
\* handleBufferedMessages puts back what it still has nobody to send to.
THEOREM UnpropagatedAlwaysWait == Spec => []UnpropagatedWait
BY NodesAlwaysInOrder, InOrderMeans, PTL

\* A message waits only while the node has no neighbor but the one it came from:
\* subscribeToStreamOnNode handles the whole buffer.
THEOREM WaitsOnlyForNeighbors == Spec => []WaitOnlyForNeighbors
BY NodesAlwaysInOrder, InOrderMeans, PTL

-----------------------------------------------------------------------------
(***************************************************************************)
(* A network that does not change                                          *)
(***************************************************************************)
In(x, s) == \E i \in DOMAIN s : s[i] = x

Ascending(s) == \A i, j \in DOMAIN s : i < j => s[i] < s[j]

\* A larger number keeps a sequence ascending.
LEMMA AppendAscends ==
    ASSUME NEW s \in Seq(Nat), NEW m \in Nat, Ascending(s),
           \A x : In(x, s) => x < m
    PROVE  /\ Ascending(Append(s, m))
           /\ \A x : In(x, Append(s, m)) <=> In(x, s) \/ x = m
<1> DEFINE t == Append(s, m)
<1>1. /\ Len(s) \in Nat /\ DOMAIN s = 1 .. Len(s) /\ DOMAIN t = 1 .. Len(s) + 1
      /\ \A i \in 1 .. Len(s) : t[i] = s[i] /\ s[i] \in Nat
      /\ t[Len(s) + 1] = m
  BY AppendProperties
<1> HIDE DEF t
<1>2. Ascending(t)
  <2> SUFFICES ASSUME NEW i \in 1 .. Len(s) + 1, NEW j \in 1 .. Len(s) + 1, i < j
               PROVE  t[i] < t[j]
    BY <1>1 DEF Ascending
  <2>1. i \in 1 .. Len(s) /\ In(t[i], s)
    <3>1. i \in 1 .. Len(s)
      BY <1>1
    <3> QED BY <1>1, <3>1 DEF In
  <2>2. CASE j = Len(s) + 1
    BY <1>1, <2>1, <2>2
  <2>3. CASE j # Len(s) + 1
    <3>1. j \in 1 .. Len(s)
      BY <1>1, <2>3
    <3> QED BY <1>1, <2>1, <3>1 DEF Ascending
  <2> QED BY <2>2, <2>3
<1>3. ASSUME NEW x, In(x, t) PROVE In(x, s) \/ x = m
  <2>1. PICK i \in 1 .. Len(s) + 1 : t[i] = x
    BY <1>1, <1>3 DEF In
  <2>2. CASE i = Len(s) + 1
    BY <1>1, <2>1, <2>2
  <2>3. CASE i # Len(s) + 1
    <3>1. i \in 1 .. Len(s)
      BY <1>1, <2>3
    <3> QED BY <1>1, <2>1, <3>1 DEF In
  <2> QED BY <2>2, <2>3
<1>4. ASSUME NEW x, In(x, s) \/ x = m PROVE In(x, t)
  <2>1. CASE In(x, s)
    <3>1. PICK i \in 1 .. Len(s) : s[i] = x
      BY <1>1, <2>1 DEF In
    <3>2. i \in 1 .. Len(s) + 1
      BY <1>1
    <3> QED BY <1>1, <3>1, <3>2 DEF In
  <2>2. CASE x = m
    <3>1. Len(s) + 1 \in 1 .. Len(s) + 1
      BY <1>1
    <3> QED BY <1>1, <2>2, <3>1 DEF In
  <2> QED BY <1>4, <2>1, <2>2
<1>5. \A x : In(x, t) <=> In(x, s) \/ x = m
  BY <1>3, <1>4
<1> QED BY <1>2, <1>5 DEF t

\* The first number of an ascending sequence is its least.
LEMMA TailAscends ==
    ASSUME NEW s \in Seq(Nat), s # <<>>, Ascending(s)
    PROVE  /\ Ascending(Tail(s))
           /\ \A x : In(x, s) <=> In(x, Tail(s)) \/ x = Head(s)
           /\ \A x : In(x, s) => x \in Nat /\ Head(s) <= x
           /\ Head(s) \in Nat
<1> DEFINE t == Tail(s)
<1>1. /\ Len(s) \in Nat /\ Len(s) > 0
      /\ DOMAIN s = 1 .. Len(s) /\ DOMAIN t = 1 .. Len(s) - 1
      /\ \A i \in 1 .. Len(s) - 1 : t[i] = s[i + 1]
      /\ \A i \in 1 .. Len(s) : s[i] \in Nat
      /\ s[1] = Head(s)
  BY HeadTailProperties
<1> HIDE DEF t
<1>2. Ascending(t)
  <2> SUFFICES ASSUME NEW i \in 1 .. Len(s) - 1, NEW j \in 1 .. Len(s) - 1, i < j
               PROVE  t[i] < t[j]
    BY <1>1 DEF Ascending
  <2>1. i + 1 \in 1 .. Len(s) /\ j + 1 \in 1 .. Len(s) /\ i + 1 < j + 1
    BY <1>1
  <2> QED BY <1>1, <2>1 DEF Ascending
<1>3. ASSUME NEW x, In(x, s)
      PROVE  (In(x, t) \/ x = Head(s)) /\ x \in Nat /\ Head(s) <= x
  <2>1. PICK i \in 1 .. Len(s) : s[i] = x
    BY <1>1, <1>3 DEF In
  <2>2. CASE i = 1
    BY <1>1, <2>1, <2>2
  <2>3. CASE i # 1
    <3>1. i - 1 \in 1 .. Len(s) - 1 /\ (i - 1) + 1 = i
      BY <1>1, <2>3
    <3>2. In(x, t)
      BY <1>1, <2>1, <3>1 DEF In
    <3>3. 1 \in 1 .. Len(s) /\ 1 < i
      BY <1>1, <2>3
    <3>4. s[1] < s[i]
      BY <1>1, <3>3 DEF Ascending
    <3> QED BY <1>1, <2>1, <3>2, <3>3, <3>4
  <2> QED BY <2>2, <2>3
<1>4. ASSUME NEW x, In(x, t) PROVE In(x, s)
  <2>1. PICK i \in 1 .. Len(s) - 1 : t[i] = x
    BY <1>1, <1>4 DEF In
  <2>2. i + 1 \in 1 .. Len(s)
    BY <1>1
  <2> QED BY <1>1, <2>1, <2>2 DEF In
<1>5. In(Head(s), s) /\ Head(s) \in Nat
  <2>1. 1 \in 1 .. Len(s)
    BY <1>1
  <2> QED BY <1>1, <2>1 DEF In
<1>6. /\ \A x : In(x, s) <=> In(x, t) \/ x = Head(s)
      /\ \A x : In(x, s) => x \in Nat /\ Head(s) <= x
  BY <1>3, <1>4, <1>5
<1> QED BY <1>2, <1>5, <1>6 DEF t

\* Nothing was seen without all that was published before it.
AllBefore(S) == \A m \in S : 1 .. m \subseteq S

\* Such a detector refuses what it has seen and nothing else.
LEMMA UnseenIsNew ==
    ASSUME NEW S, S \subseteq Nat \ {0}, AllBefore(S), NEW m \in Nat \ {0}
    PROVE  IsUnseen(S, m) <=> m \notin S
<1>1. CASE S = {}
  BY <1>1 DEF IsUnseen
<1>2. CASE S # {}
  <2>1. Min(S) \in S /\ \A y \in S : Min(S) <= y
    BY <1>2, MinIsLeast
  <2>2. PICK x : x = Min(S)
    OBVIOUS
  <2>3. x \in Nat \ {0} /\ 1 .. x \subseteq S /\ \A y \in S : x <= y
    BY <2>1, <2>2 DEF AllBefore
  <2>4. x = 1
    <3>1. 1 \in 1 .. x
      BY <2>3
    <3> QED BY <2>3, <3>1
  <2>5. m # 1 => m > x
    BY <2>4
  <2>6. m = 1 => m \in S
    BY <2>1, <2>2, <2>4
  <2> QED BY <1>2, <2>2, <2>4, <2>5, <2>6 DEF IsUnseen
<1> QED BY <1>1, <1>2

\* h has become g: message m is new and was sent to all neighbors but the source,
\* or there was nobody else to send it to, or it was not new.
Received(h, g, m, source, neighbors) ==
    /\ g.seen = h.seen \cup {m}
    /\ g.notPropagated \subseteq h.notPropagated \/ neighbors \subseteq {source}
    /\ \/ g.flight = h.flight /\ (m \in h.seen \/ neighbors \subseteq {source})
       \/ g.flight = SentTo(h.flight, m, neighbors \ {source}) /\ m \notin h.seen

\* What a node does with a message when it has seen all before what it has seen.
LEMMA ReceivedIs ==
    ASSUME NEW p \in Nat, NEW h \in NodeStates(p), AllBefore(h.seen),
           NEW neighbors, NEW m \in 1 .. p, NEW source,
           m \in h.notPropagated => neighbors \subseteq {source},
           NEW g, g = DataReceived(h, m, source, neighbors)
    PROVE  Received(h, g, m, source, neighbors)
<1>1. h.seen \subseteq Nat \ {0} /\ m \in Nat \ {0}
  BY DEF NodeStates
<1>2. IsUnseen(h.seen, m) <=> m \notin h.seen
  BY <1>1, UnseenIsNew
<1>3. CASE m \notin h.seen
  <2>1. PICK a : a = [h EXCEPT !.seen = @ \cup {m}]
    OBVIOUS
  <2>2. g = PropagateMessage(a, m, source, neighbors)
    BY <1>2, <1>3, <2>1 DEF DataReceived
  <2>3. /\ a.seen = h.seen \cup {m} /\ a.notPropagated = h.notPropagated
        /\ a.buffer = h.buffer /\ a.flight = h.flight
        /\ a.sent = h.sent /\ a.dropped = h.dropped
        /\ a = [seen |-> a.seen, notPropagated |-> a.notPropagated, buffer |-> a.buffer,
                flight |-> a.flight, sent |-> a.sent, dropped |-> a.dropped]
    BY <2>1 DEF NodeStates
  <2>4. CASE neighbors \ {source} = {}
    <3>1. g = PutBack(a, m, source)
      BY <2>2, <2>4 DEF PropagateMessage, Subscribers
    <3>2. g.seen = a.seen /\ g.flight = a.flight
      BY <2>3, <3>1 DEF PutBack
    <3> QED BY <2>3, <2>4, <3>2 DEF Received
  <2>5. CASE neighbors \ {source} # {}
    <3>1. g = Propagated(a, m, neighbors \ {source})
      BY <2>2, <2>5 DEF PropagateMessage, Subscribers
    <3>2. /\ g.seen = a.seen /\ g.notPropagated = a.notPropagated \ {m}
          /\ g.flight = SentTo(a.flight, m, neighbors \ {source})
      BY <2>3, <3>1 DEF Propagated
    <3> QED BY <1>3, <2>3, <3>2 DEF Received
  <2> QED BY <2>4, <2>5
<1>4. CASE m \in h.seen /\ m \in h.notPropagated
  <2>1. g = PropagateMessage(h, m, source, neighbors)
    BY <1>2, <1>4 DEF DataReceived
  <2>2. g = PutBack(h, m, source)
    BY <1>4, <2>1 DEF PropagateMessage, Subscribers
  <2>3. g.seen = h.seen /\ g.flight = h.flight
    BY <2>2 DEF NodeStates, PutBack
  <2> QED BY <1>4, <2>3 DEF Received
<1>5. CASE m \in h.seen /\ m \notin h.notPropagated
  <2>1. g = h
    BY <1>2, <1>5 DEF DataReceived
  <2> QED BY <1>5, <2>1 DEF Received
<1> QED BY <1>3, <1>4, <1>5

\* The links go both ways, and messages are in flight along them, each once and
\* in order.
LinksAreMutual == \A n, k \in Node : n \notin outbound[n] /\ (n \in outbound[k] <=> k \in outbound[n])

FlightsInOrder ==
    \A n, k \in Node :
        /\ flight[n][k] # <<>> => k \in outbound[n]
        /\ Ascending(flight[n][k])
        /\ \A x : In(x, flight[n][k]) => x \in seen[n]

\* The publisher has seen what was published, every node all before what it has
\* seen, and what a neighbor has not seen is on its way to it.
FloodReaches ==
    /\ seen[Publisher] = 1 .. published
    /\ \A n \in Node : AllBefore(seen[n])
    /\ \A n \in Node : \A k \in outbound[n] : \A x \in seen[n] :
          x \in seen[k] \/ In(x, flight[n][k])

\* A message waits at most for a second neighbor.
WaitersHaveOne ==
    \A n \in Node : notPropagated[n] # {} => \A k, l \in outbound[n] : k = l

Flood == LinksAreMutual /\ FlightsInOrder /\ FloodReaches /\ WaitersHaveOne

FloodInv == events = 0 => Flood

\* Nothing has been published or sent.
LEMMA InitFlood == Init => FloodInv
<1> SUFFICES ASSUME Init PROVE Flood
  BY DEF FloodInv
<1>1. LinksAreMutual
  BY DEF Init, LinksAreMutual
<1>2. \A n, k \in Node : flight[n][k] = <<>> /\ seen[n] = {} /\ notPropagated[n] = {}
  BY DEF Init
<1>3. DOMAIN <<>> = {}
  OBVIOUS
<1>4. FlightsInOrder
  BY <1>2, <1>3 DEF FlightsInOrder, Ascending, In
<1>5. FloodReaches
  <2>1. seen[Publisher] = 1 .. published
    BY PublisherAssumption DEF Init
  <2> QED BY <1>2, <2>1 DEF FloodReaches, AllBefore
<1>6. WaitersHaveOne
  BY <1>2 DEF WaitersHaveOne
<1> QED BY <1>1, <1>4, <1>5, <1>6 DEF Flood

\* inFlight is what is in flight when message m arrives at node k.
Arrives(inFlight, m, k) ==
    /\ DOMAIN inFlight = Node
    /\ \A a, b \in Node :
          \/ inFlight[a][b] = flight[a][b]
          \/ /\ b = k /\ flight[a][b] # <<>> /\ Head(flight[a][b]) = m
             /\ inFlight[a][b] = Tail(flight[a][b])

\* A step in which node k receives message m, when it has seen all before it
\* and the node it came from, if any, has seen it too
LEMMA ReceiveKeepsFlood ==
    ASSUME IInv, Flood, published' \in Nat, outbound' = outbound,
           NEW k \in Node, NEW m \in 1 .. published', NEW source,
           \A j \in 1 .. m : j = m \/ j \in seen[k],
           source \in Node => m \in seen[source],
           NEW h, Received(StateOf(k), h, m, source, outbound[k]),
           NEW inFlight, Arrives(inFlight, m, k),
           Becomes(k, h, inFlight)
    PROVE  /\ LinksAreMutual' /\ FlightsInOrder' /\ WaitersHaveOne'
           /\ \A n \in Node : AllBefore(seen'[n])
           /\ \A n \in Node : \A l \in outbound'[n] : \A x \in seen'[n] :
                 x \in seen'[l] \/ In(x, flight'[n][l])
<1>0. /\ h.seen = seen[k] \cup {m}
      /\ h.notPropagated \subseteq notPropagated[k] \/ outbound[k] \subseteq {source}
      /\ \/ h.flight = flight[k] /\ (m \in seen[k] \/ outbound[k] \subseteq {source})
         \/ h.flight = SentTo(flight[k], m, outbound[k] \ {source}) /\ m \notin seen[k]
  BY StateOfIs DEF Received
<1>1. /\ seen'[k] = seen[k] \cup {m} /\ notPropagated'[k] = h.notPropagated
      /\ flight'[k] = h.flight
      /\ \A n \in Node \ {k} : /\ seen'[n] = seen[n]
                               /\ notPropagated'[n] = notPropagated[n]
                               /\ flight'[n] = inFlight[n]
  BY <1>0 DEF Arrives, IInv, PerNode, Becomes
<1>2. LinksAreMutual'
  BY DEF Flood, LinksAreMutual
<1>3. m \in Nat /\ \A n \in Node : seen[n] \subseteq Nat /\ seen[n] \subseteq seen'[n]
  <2>1. \A n \in Node : seen[n] \subseteq Nat
    BY NodeInOrder
  <2> QED BY <1>1, <2>1
<1>4. \A n, l \in Node : flight[n][l] \in Seq(Nat)
  <2> SUFFICES ASSUME NEW n \in Node, NEW l \in Node PROVE flight[n][l] \in Seq(Nat)
    OBVIOUS
  <2>1. flight[n][l] \in Seq(1 .. published) /\ 1 .. published \subseteq Nat
    BY NodeInOrder
  <2> QED BY <2>1, SeqMonotonic
<1>5. m \notin seen[k] => \A x \in seen[k] : x < m
  <2> SUFFICES ASSUME NEW x \in seen[k], ~ (x < m) PROVE m \in seen[k]
    OBVIOUS
  <2>1. 1 .. x \subseteq seen[k]
    BY DEF Flood, FloodReaches, AllBefore
  <2>2. x \in Nat /\ m \in 1 .. x
    BY <1>3
  <2> QED BY <2>1, <2>2
<1>6. ASSUME NEW n \in Node PROVE AllBefore(seen'[n])
  <2>1. CASE n # k
    BY <1>1, <2>1 DEF Flood, FloodReaches
  <2>2. CASE n = k
    <3>1. AllBefore(seen[k])
      BY DEF Flood, FloodReaches
    <3>2. 1 .. m \subseteq seen'[k]
      BY <1>1
    <3> QED BY <1>1, <2>2, <3>1, <3>2 DEF AllBefore
  <2> QED BY <2>1, <2>2
\* What is in flight from a node that does not act
<1>7. ASSUME NEW n \in Node \ {k}, NEW l \in Node
      PROVE  /\ flight'[n][l] # <<>> => l \in outbound[n]
             /\ Ascending(flight'[n][l])
             /\ \A x : In(x, flight'[n][l]) => In(x, flight[n][l])
             /\ \A x : In(x, flight[n][l]) => In(x, flight'[n][l]) \/ x \in seen'[l]
  <2>0. PICK s : s = flight[n][l]
    OBVIOUS
  <2>1. /\ s \in Seq(Nat) /\ Ascending(s)
        /\ s # <<>> => l \in outbound[n]
    BY <1>4, <2>0 DEF Flood, FlightsInOrder
  <2>2. CASE inFlight[n][l] = s
    BY <1>1, <2>0, <2>1, <2>2
  <2>3. CASE l = k /\ s # <<>> /\ Head(s) = m /\ inFlight[n][l] = Tail(s)
    <3>1. /\ Ascending(Tail(s))
          /\ \A x : In(x, s) <=> In(x, Tail(s)) \/ x = Head(s)
      BY <2>1, <2>3, TailAscends
    <3>2. flight'[n][l] = Tail(s) /\ m \in seen'[l]
      BY <1>1, <2>3
    <3> QED BY <2>0, <2>1, <2>3, <3>1, <3>2
  <2> QED BY <2>0, <2>2, <2>3 DEF Arrives
\* What is in flight from the node that acts
<1>8. ASSUME NEW l \in Node
      PROVE  \/ flight'[k][l] = flight[k][l]
             \/ /\ l \in outbound[k] /\ m \notin seen[k]
                /\ flight'[k][l] = Append(flight[k][l], m)
  BY <1>0, <1>1 DEF SentTo
<1>9. ASSUME NEW l \in Node
      PROVE  /\ flight'[k][l] # <<>> => l \in outbound[k]
             /\ Ascending(flight'[k][l])
             /\ \A x : In(x, flight'[k][l]) => x \in seen'[k]
             /\ \A x : In(x, flight[k][l]) => In(x, flight'[k][l])
  <2>0. PICK s : s = flight[k][l]
    OBVIOUS
  <2>1. /\ s \in Seq(Nat) /\ Ascending(s)
        /\ s # <<>> => l \in outbound[k]
        /\ \A x : In(x, s) => x \in seen[k]
    BY <1>4, <2>0 DEF Flood, FlightsInOrder
  <2>2. CASE flight'[k][l] = s
    BY <1>1, <2>0, <2>1, <2>2
  <2>3. CASE l \in outbound[k] /\ m \notin seen[k] /\ flight'[k][l] = Append(s, m)
    <3>1. \A x : In(x, s) => x < m
      BY <1>5, <2>1, <2>3
    <3>2. /\ Ascending(Append(s, m))
          /\ \A x : In(x, Append(s, m)) <=> In(x, s) \/ x = m
      BY <1>3, <2>1, <3>1, AppendAscends
    <3> QED BY <1>1, <2>0, <2>1, <2>3, <3>2
  <2> QED BY <1>8, <2>0, <2>2, <2>3
<1>10. FlightsInOrder'
  <2>1. ASSUME NEW n \in Node, NEW l \in Node
        PROVE  /\ flight'[n][l] # <<>> => l \in outbound'[n]
               /\ Ascending(flight'[n][l])
               /\ \A x : In(x, flight'[n][l]) => x \in seen'[n]
    <3>1. CASE n = k
      BY <1>9, <3>1
    <3>2. CASE n # k
      <4>1. \A x : In(x, flight[n][l]) => x \in seen[n]
        BY DEF Flood, FlightsInOrder
      <4>2. seen'[n] = seen[n]
        BY <1>1, <3>2
      <4> QED BY <1>7, <3>2, <4>1, <4>2
    <3> QED BY <3>1, <3>2
  <2> QED BY <2>1 DEF FlightsInOrder
<1>11. ASSUME NEW n \in Node, NEW l \in outbound[n], NEW x \in seen'[n]
       PROVE  x \in seen'[l] \/ In(x, flight'[n][l])
  <2>1. l \in Node
    BY NodeInOrder
  <2>2. ASSUME x \in seen[n] PROVE x \in seen[l] \/ In(x, flight[n][l])
    BY <2>2 DEF Flood, FloodReaches
  <2>3. CASE n # k
    <3>1. x \in seen[n]
      BY <1>1, <2>3
    <3> QED BY <1>3, <1>7, <2>1, <2>2, <2>3, <3>1
  <2>4. CASE n = k /\ x \in seen[k]
    BY <1>3, <1>9, <2>1, <2>2, <2>4
  <2>5. CASE n = k /\ x \notin seen[k]
    <3>1. x = m
      BY <1>1, <2>5
    <3>2. CASE l = source
      BY <1>3, <2>1, <3>1, <3>2
    <3>3. CASE l # source
      <4>1. flight'[k] = SentTo(flight[k], m, outbound[k] \ {source})
        BY <1>0, <1>1, <2>5, <3>1, <3>3
      <4>2. flight'[k][l] = Append(flight[k][l], m)
        BY <2>1, <2>5, <3>3, <4>1 DEF SentTo
      <4>3. flight[k][l] \in Seq(Nat)
        BY <1>4, <2>1
      <4>4. In(m, Append(flight[k][l], m))
        <5>1. PICK s \in Seq(Nat) : s = flight[k][l]
          BY <4>3
        <5>2. Len(s) + 1 \in DOMAIN Append(s, m) /\ Append(s, m)[Len(s) + 1] = m
          BY <1>3, AppendProperties
        <5> QED BY <5>1, <5>2 DEF In
      <4> QED BY <2>5, <3>1, <4>2, <4>4
    <3> QED BY <3>2, <3>3
  <2> QED BY <2>3, <2>4, <2>5
<1>12. WaitersHaveOne'
  <2>1. ASSUME NEW n \in Node, notPropagated'[n] # {},
               NEW a \in outbound'[n], NEW b \in outbound'[n]
        PROVE  a = b
    <3>1. CASE notPropagated[n] # {}
      BY <3>1 DEF Flood, WaitersHaveOne
    <3>2. CASE notPropagated[n] = {}
      <4>1. n = k /\ outbound[k] \subseteq {source}
        BY <1>0, <1>1, <2>1, <3>2
      <4> QED BY <4>1
    <3> QED BY <3>1, <3>2
  <2> QED BY <2>1 DEF WaitersHaveOne
<1> QED BY <1>2, <1>6, <1>10, <1>11, <1>12

\* A message that is published is sent to every neighbor.
LEMMA PublishKeepsFlood == IInv /\ Flood /\ Publish => Flood'
<1> SUFFICES ASSUME IInv, Flood, Publish PROVE Flood'
  OBVIOUS
<1>0. PICK k \in Node : k = Publisher
  BY PublisherAssumption
<1>1. /\ published' = published + 1 /\ published \in Nat /\ published' \in Nat
      /\ published' \in 1 .. published' /\ outbound' = outbound
      /\ published' \in 0 .. MaxMessages
  BY MaxMessagesAssumption DEF IInv, NetworkTypes, Publish
<1>2. PICK m : m = published'
  OBVIOUS
<1>3. PICK h : h = DataReceived(StateOf(k), m, Local, outbound[k]) /\ Becomes(k, h, flight)
  BY <1>0, <1>2 DEF Publish
<1>4. seen[k] = 1 .. published /\ AllBefore(seen[k])
  BY <1>0 DEF Flood, FloodReaches
<1>5. StateOf(k) \in NodeStates(m)
  <2>1. Good(StateOf(k), outbound[k], {}, published)
    BY NodeInOrder
  <2>2. StateOf(k).flight \in [Node -> Seq(1 .. m)]
    BY <1>1, <1>2, InFlightIs, StateOfIs
  <2>3. StateOf(k) = [seen |-> StateOf(k).seen, notPropagated |-> StateOf(k).notPropagated,
                      buffer |-> StateOf(k).buffer, flight |-> StateOf(k).flight,
                      sent |-> StateOf(k).sent, dropped |-> StateOf(k).dropped]
    BY StateOfIs DEF StateOf
  <2>4. Good(StateOf(k), outbound[k], {}, m)
    <3>1. PICK a : a = StateOf(k)
      OBVIOUS
    <3>2. published \in Nat /\ m \in Nat /\ published <= m
      BY <1>1, <1>2
    <3>3. /\ Good(a, outbound[k], {}, published)
          /\ a.flight \in [Node -> Seq(1 .. m)]
          /\ a = [seen |-> a.seen, notPropagated |-> a.notPropagated,
                  buffer |-> a.buffer, flight |-> a.flight,
                  sent |-> a.sent, dropped |-> a.dropped]
      BY <2>1, <2>2, <2>3, <3>1
    <3>4. Good(a, outbound[k], {}, m)
      BY <3>2, <3>3, GoodGrows
    <3> QED BY <3>1, <3>4
  <2> QED BY <2>4 DEF Good
<1>6. m \notin notPropagated[k]
  <2>1. notPropagated[k] \subseteq 1 .. published
    BY NodeInOrder
  <2> QED BY <1>1, <1>2, <2>1
<1>7. Received(StateOf(k), h, m, Local, outbound[k])
  <2>1. AllBefore(StateOf(k).seen) /\ m \notin StateOf(k).notPropagated
    BY <1>4, <1>6, StateOfIs
  <2>2. m \in Nat /\ m \in 1 .. m
    BY <1>1, <1>2
  <2> QED BY <1>3, <1>5, <2>1, <2>2, ReceivedIs
<1>8. \A j \in 1 .. m : j = m \/ j \in seen[k]
  BY <1>1, <1>2, <1>4
<1>9. Arrives(flight, m, k) /\ Local \notin Node
  BY PublisherAssumption DEF Arrives, IInv, PerNode
<1>10. m \in 1 .. published'
  BY <1>1, <1>2
<1>11. /\ LinksAreMutual' /\ FlightsInOrder' /\ WaitersHaveOne'
       /\ \A n \in Node : AllBefore(seen'[n])
       /\ \A n \in Node : \A l \in outbound'[n] : \A x \in seen'[n] :
             x \in seen'[l] \/ In(x, flight'[n][l])
  BY <1>1, <1>3, <1>7, <1>8, <1>9, <1>10, ReceiveKeepsFlood
<1>12. seen'[Publisher] = 1 .. published'
  <2>1. seen'[k] = h.seen /\ h.seen = seen[k] \cup {m}
    BY <1>3, <1>7, StateOfIs DEF IInv, PerNode, Becomes, Received
  <2> QED BY <1>0, <1>1, <1>2, <1>4, <2>1
<1>13. FloodReaches'
  BY <1>11, <1>12 DEF FloodReaches
<1> QED BY <1>11, <1>13 DEF Flood

\* A message that arrives is sent to every other neighbor.
LEMMA DeliverKeepsFlood ==
    ASSUME IInv, Flood, NEW n \in Node, NEW k \in Node, Deliver(n, k)
    PROVE  Flood'
<1>1. /\ published' = published /\ published \in Nat /\ outbound' = outbound
      /\ flight[n][k] # <<>>
  BY NodeInOrder DEF Deliver
<1>2. PICK s : s = flight[n][k]
  OBVIOUS
<1>3. PICK m : m = Head(s)
  OBVIOUS
<1>4. PICK inFlight : inFlight = [flight EXCEPT ![n][k] = Tail(@)]
  OBVIOUS
<1>5. PICK h : h = DataReceived(StateOf(k), m, n, outbound[k]) /\ Becomes(k, h, inFlight)
  BY <1>2, <1>3, <1>4 DEF Deliver
<1>6. /\ m \in Nat /\ m \in seen[n] /\ m \in 1 .. published
      /\ \A x : In(x, s) => x \in Nat /\ m <= x
  <2>1. s \in Seq(1 .. published) /\ Ascending(s) /\ 1 .. published \subseteq Nat
    BY <1>2, NodeInOrder DEF Flood, FlightsInOrder
  <2>2. s \in Seq(Nat) /\ s # <<>>
    BY <1>1, <1>2, <2>1, SeqMonotonic
  <2>3. /\ \A x : In(x, s) <=> In(x, Tail(s)) \/ x = Head(s)
        /\ \A x : In(x, s) => x \in Nat /\ Head(s) <= x
    BY <2>1, <2>2, TailAscends
  <2>4. m \in seen[n]
    BY <1>2, <1>3, <2>3 DEF Flood, FlightsInOrder
  <2>5. m \in 1 .. published
    BY <2>4, NodeInOrder
  <2> QED BY <1>3, <2>3, <2>4, <2>5
<1>7. k \in outbound[n] /\ n \in outbound[k]
  BY <1>1 DEF Flood, FlightsInOrder, LinksAreMutual
<1>8. \A j \in 1 .. m : j = m \/ j \in seen[k]
  <2> SUFFICES ASSUME NEW j \in 1 .. m, j # m PROVE j \in seen[k]
    OBVIOUS
  <2>1. j \in seen[n]
    BY <1>6 DEF Flood, FloodReaches, AllBefore
  <2>2. j \in seen[k] \/ In(j, s)
    BY <1>2, <1>7, <2>1 DEF Flood, FloodReaches
  <2>3. ~ In(j, s)
    <3>1. j \in Nat /\ j < m
      BY <1>6
    <3> QED BY <1>6, <3>1
  <2> QED BY <2>2, <2>3
<1>9. Received(StateOf(k), h, m, n, outbound[k])
  <2>1. AllBefore(StateOf(k).seen)
    BY StateOfIs DEF Flood, FloodReaches
  <2>2. m \in StateOf(k).notPropagated => outbound[k] \subseteq {n}
    BY <1>7, StateOfIs DEF Flood, WaitersHaveOne
  <2>3. StateOf(k) \in NodeStates(published)
    BY NodeInOrder DEF Good
  <2> QED BY <1>1, <1>5, <1>6, <2>1, <2>2, <2>3, ReceivedIs
<1>10. DOMAIN flight = Node /\ DOMAIN flight[n] = Node
  <2>1. flight[n] \in [Node -> Seq(1 .. published)]
    BY NodeInOrder
  <2> QED BY <2>1 DEF IInv, PerNode
<1>11. Arrives(inFlight, m, k)
  <2>1. ASSUME NEW a \in Node, NEW b \in Node
        PROVE  \/ inFlight[a][b] = flight[a][b]
               \/ /\ b = k /\ flight[a][b] # <<>> /\ Head(flight[a][b]) = m
                  /\ inFlight[a][b] = Tail(flight[a][b])
    BY <1>1, <1>2, <1>3, <1>4, <1>10
  <2>2. DOMAIN inFlight = Node
    BY <1>4, <1>10
  <2> QED BY <2>1, <2>2 DEF Arrives
<1>12. published' \in Nat /\ m \in 1 .. published' /\ (n \in Node => m \in seen[n])
  BY <1>1, <1>6
<1>13. /\ LinksAreMutual' /\ FlightsInOrder' /\ WaitersHaveOne'
       /\ \A i \in Node : AllBefore(seen'[i])
       /\ \A i \in Node : \A l \in outbound'[i] : \A x \in seen'[i] :
             x \in seen'[l] \/ In(x, flight'[i][l])
  BY <1>1, <1>5, <1>8, <1>9, <1>11, <1>12, ReceiveKeepsFlood
<1>14. seen'[Publisher] = 1 .. published'
  <2>1. seen[Publisher] = 1 .. published
    BY DEF Flood, FloodReaches
  <2>2. CASE k = Publisher
    <3>1. seen'[k] = h.seen /\ h.seen = seen[k] \cup {m}
      BY <1>5, <1>9, StateOfIs DEF IInv, PerNode, Becomes, Received
    <3> QED BY <1>1, <1>6, <2>1, <2>2, <3>1
  <2>3. CASE k # Publisher
    BY <1>1, <1>5, <2>1, <2>3, PublisherAssumption DEF IInv, PerNode, Becomes
  <2> QED BY <2>2, <2>3
<1>15. FloodReaches'
  BY <1>13, <1>14 DEF FloodReaches
<1> QED BY <1>13, <1>15 DEF Flood

\* Every other step changes the network.
LEMMA NextKeepsFlood == IInv /\ FloodInv /\ [Next]_vars => FloodInv'
<1> SUFFICES ASSUME IInv, FloodInv, [Next]_vars, events' = 0 PROVE Flood'
  BY DEF FloodInv
<1>0. events \in Nat
  BY DEF IInv, NetworkTypes
<1>1. CASE Publish
  <2>1. Flood
    BY <1>1 DEF FloodInv, Publish
  <2> QED BY <1>1, <2>1, PublishKeepsFlood
<1>2. ASSUME NEW n \in Node, NEW k \in Node, Deliver(n, k) PROVE Flood'
  <2>1. Flood
    BY <1>2 DEF FloodInv, Deliver
  <2> QED BY <1>2, <2>1, DeliverKeepsFlood
<1>3. ASSUME NEW n \in Node, NEW k \in Node,
             SendFails(n, k) \/ SubscribeToStreamOnNode(n, k) \/ RemoveNeighbor(n, k)
      PROVE  FALSE
  <2>1. CASE SendFails(n, k)
    BY <1>0, <2>1 DEF SendFails, Event
  <2>2. CASE SubscribeToStreamOnNode(n, k)
    BY <1>0, <2>2 DEF SubscribeToStreamOnNode, Event
  <2>3. CASE RemoveNeighbor(n, k)
    <3>1. events' = events + 1
      BY <2>3 DEF RemoveNeighbor, Event
    <3> QED BY <1>0, <3>1
  <2> QED BY <1>3, <2>1, <2>2, <2>3
<1>4. ASSUME NEW n \in Node, Unsubscribe(n) \/ BufferTimesOut(n) PROVE FALSE
  BY <1>0, <1>4 DEF Unsubscribe, BufferTimesOut, Event
<1>5. CASE UNCHANGED vars
  BY <1>5 DEF vars, nodeVars, FloodInv, Flood, LinksAreMutual, FlightsInOrder,
              FloodReaches, WaitersHaveOne
<1> QED BY <1>1, <1>2, <1>3, <1>4, <1>5 DEF Next

\* Without events, neighbors have seen the same when nothing is in flight.
LEMMA FloodMeans == IInv /\ FloodInv => NeighborsSeeTheSame
<1> SUFFICES ASSUME IInv, FloodInv, NothingInFlight, events = 0,
                    NEW n \in Node, NEW k \in outbound[n]
             PROVE  seen[n] = seen[k]
  BY DEF NeighborsSeeTheSame
<1>1. Flood
  BY DEF FloodInv
<1>2. k \in Node
  BY NodeInOrder
<1>3. n \in outbound[k]
  BY <1>1, <1>2 DEF Flood, LinksAreMutual
<1>4. \A x : ~ In(x, flight[n][k]) /\ ~ In(x, flight[k][n])
  <2>1. flight[n][k] = <<>> /\ flight[k][n] = <<>>
    BY <1>2 DEF NothingInFlight
  <2>2. DOMAIN <<>> = {}
    OBVIOUS
  <2> QED BY <2>1, <2>2 DEF In
<1>5. seen[n] \subseteq seen[k]
  BY <1>1, <1>4 DEF Flood, FloodReaches
<1>6. seen[k] \subseteq seen[n]
  BY <1>1, <1>2, <1>3, <1>4 DEF Flood, FloodReaches
<1> QED BY <1>5, <1>6

\* While the network stays as it is, every message gets everywhere: in a network
\* of any size and shape, nodes that are neighbors have seen the same messages
\* when nothing is in flight.  onDataReceived propagates to all neighbors but the
\* source, a detector refuses only what it has accepted as long as it accepts
\* from the first message on, and that it does because messages do not overtake
\* each other on a link.
THEOREM FloodReachesAll == Spec => []NeighborsSeeTheSame
<1>1. IInv /\ FloodInv /\ [Next]_vars => (IInv /\ FloodInv)'
  BY NextKeeps, NextKeepsFlood
<1> QED BY <1>1, InitInOrder, InitFlood, FloodMeans, PTL DEF Spec
=============================================================================
