------------------------ MODULE NodeInstructions_proofs ------------------------
(***************************************************************************)
(* Proofs about NodeInstructions: for any peers, streams and instructions, *)
(* and however many handlers overlap, the neighbors of a node are          *)
(* connected, none has a disconnection timer, and no instruction is        *)
(* forgotten in the throttler's queue.  Where the user does not            *)
(* unsubscribe the throttler's handlers come one at a time, where nothing  *)
(* is retried the tracker knows the neighbors, and with both, these are    *)
(* those of the last instruction.                                          *)
(***************************************************************************)
EXTENDS NodeInstructions, FiniteSetTheorems, TLAPS

Fields == {"streams", "connection", "timers", "accepted", "queue", "handling",
           "handlers", "retries", "reported"}

\* Both link properties, of the parts of a state
Links(t) ==
    \A s \in DOMAIN t.streams :
        /\ "neighbors" \in DOMAIN t.streams[s]
        /\ \A m \in t.streams[s].neighbors :
              m \in Peer /\ t.connection[m] \in Established /\ m \notin t.timers

IsHandler(h) == /\ {"instruction", "caller", "cancelled", "reattempt", "pending"}
                      \subseteq DOMAIN h
                /\ h.instruction \in Instruction

\* What is queued, handled and retried are instructions.
Known(t) ==
    /\ \A s \in DOMAIN t.queue : t.queue[s] \in Instruction /\ t.queue[s].stream = s
    /\ \A s \in DOMAIN t.retries : t.retries[s].instruction \in Instruction
    /\ \A k \in DOMAIN t.handlers : k \in 1 .. MaxHandlers /\ IsHandler(t.handlers[k])

Sound(t) == /\ DOMAIN t = Fields
            /\ DOMAIN t.connection = Peer
            /\ Links(t)
            /\ Known(t)

\* A handler will look at the queue of s when it ends.
Fetches(t, s) ==
    \E k \in DOMAIN t.handlers : /\ t.handlers[k].instruction.stream = s
                                 /\ t.handlers[k].caller = "throttler"
                                 /\ ~ t.handlers[k].cancelled

Waits(t, s) == s \in DOMAIN t.queue \/ s \in t.handling

Fetched(t) == \A s : Waits(t, s) => Fetches(t, s)

Free(t) == \E k \in 1 .. MaxHandlers : k \notin DOMAIN t.handlers

IInv == Sound(State) /\ Fetched(State)

\* u has the throttler's queue, its locks and the handlers of t.
SameHandling(t, u) ==
    u.queue = t.queue /\ u.handling = t.handling /\ u.handlers = t.handlers

-----------------------------------------------------------------------------
\* Reports change nothing at the node.
LEMMA ReportKeeps ==
    ASSUME NEW t, Sound(t), NEW about
    PROVE  Sound(Report(t, about)) /\ SameHandling(t, Report(t, about))
<1> DEFINE u == Report(t, about)
<1>1. /\ DOMAIN u = Fields
      /\ u.streams = t.streams /\ u.connection = t.connection /\ u.timers = t.timers
      /\ u.queue = t.queue /\ u.handling = t.handling /\ u.handlers = t.handlers
      /\ u.retries = t.retries
  BY DEF Report, Sound, Fields
<1> HIDE DEF u
<1> QED BY <1>1 DEF Sound, Links, Known, SameHandling, u

\* A handler begins.
LEMMA BeginKeeps ==
    ASSUME NEW t, Sound(t), Free(t), NEW i \in Instruction, NEW caller, NEW reattempt,
           NEW u, u = Begin(t, i, caller, reattempt)
    PROVE  /\ Sound(u)
           /\ u.queue = t.queue
           /\ u.handling = t.handling
           /\ \A s : Fetches(t, s) => Fetches(u, s)
           /\ caller = "throttler" => Fetches(u, i.stream)
<1> DEFINE s == i.stream
           old == IF s \in DOMAIN t.streams THEN t.streams[s] ELSE NewStream
           open == Connected(t, i.nodeIds)
           new == [neighbors |-> (old.neighbors \cap i.nodeIds) \cup open,
                   counter   |-> old.counter]
           streams1 == With(t.streams, s, new)
           slot == CHOOSE k \in 1 .. MaxHandlers : k \notin DOMAIN t.handlers
           handler == [instruction |-> i,
                       caller      |-> caller,
                       cancelled   |-> FALSE,
                       reattempt   |-> reattempt,
                       pending     |-> IF i.expected THEN i.nodeIds \ open ELSE {},
                       failed      |-> FALSE]
           handlers1 == With(t.handlers, slot, handler)
           retries1 == With(t.retries, s, [instruction |-> i, counter |-> 0])
           timers1 == (t.timers \ open) \cup Lonely(streams1, old.neighbors \ i.nodeIds)
           connection1 == [m \in Peer |->
                             IF m \in i.nodeIds /\ t.connection[m] = "none"
                             THEN "connecting" ELSE t.connection[m]]
<1>1. i.nodeIds \subseteq Peer
  BY InstructionAssumption
<1>2. slot \in 1 .. MaxHandlers /\ slot \notin DOMAIN t.handlers
  BY DEF Free
<1>3. /\ DOMAIN u = Fields
      /\ u.queue = t.queue
      /\ u.handling = t.handling
      /\ u.handlers = handlers1
      /\ u.retries = retries1
      /\ \/ /\ u.streams = t.streams /\ u.connection = t.connection
            /\ u.timers = t.timers
         \/ /\ u.streams = streams1 /\ u.connection = connection1
            /\ u.timers = timers1
  <2> DEFINE v == [t EXCEPT !.retries = retries1, !.handlers = handlers1]
  <2>1. u = IF i.expected
            THEN [v EXCEPT !.streams = streams1, !.timers = timers1,
                           !.connection = connection1]
            ELSE v
    BY DEF Begin
  <2> HIDE DEF streams1, timers1, connection1, retries1, handlers1
  <2> QED BY <2>1 DEF Sound, Fields
<1> HIDE DEF slot
<1>4. IsHandler(handler)
  BY DEF IsHandler
<1>5. Known(u)
  <2>1. \A k \in DOMAIN handlers1 : k \in 1 .. MaxHandlers /\ IsHandler(handlers1[k])
    <3> HIDE DEF handler
    <3> QED BY <1>2, <1>4 DEF With, Sound, Known
  <2>2. \A q \in DOMAIN retries1 : retries1[q].instruction \in Instruction
    BY DEF With, Sound, Known
  <2> HIDE DEF handlers1, retries1
  <2> QED BY <1>3, <2>1, <2>2 DEF Sound, Known
<1>6. Links(u)
  <2>1. CASE u.streams = t.streams /\ u.connection = t.connection /\ u.timers = t.timers
    BY <2>1 DEF Sound, Links
  <2>2. CASE u.streams = streams1 /\ u.connection = connection1 /\ u.timers = timers1
    <3>1. \A m \in old.neighbors : m \in Peer /\ t.connection[m] \in Established /\ m \notin t.timers
      BY DEF NewStream, Sound, Links
    <3>2. \A m \in open : m \in Peer /\ t.connection[m] \in Established
      BY <1>1 DEF Connected
    <3>3. /\ DOMAIN streams1 = DOMAIN t.streams \cup {s}
          /\ streams1[s] = new
          /\ \A q \in DOMAIN t.streams : q # s => streams1[q] = t.streams[q]
      BY DEF With
    <3>4. /\ "neighbors" \in DOMAIN new
          /\ \A m \in new.neighbors : m \in old.neighbors \/ m \in open
      OBVIOUS
    <3> HIDE DEF old, open, new, streams1
    <3>5. ASSUME NEW q \in DOMAIN streams1, NEW m \in streams1[q].neighbors
          PROVE  m \in Peer /\ t.connection[m] \in Established /\ (m \in open \/ m \notin t.timers)
      BY <3>1, <3>2, <3>3, <3>4 DEF Sound, Links
    <3>6. ASSUME NEW q \in DOMAIN streams1, NEW m \in streams1[q].neighbors
          PROVE  m \notin timers1 /\ connection1[m] \in Established
      BY <3>5 DEF Lonely, Present, Established
    <3>7. \A q \in DOMAIN streams1 : "neighbors" \in DOMAIN streams1[q]
      BY <3>3, <3>4 DEF Sound, Links
    <3> HIDE DEF timers1, connection1
    <3> QED BY <2>2, <3>5, <3>6, <3>7 DEF Links
  <2> QED BY <1>3, <2>1, <2>2
<1>7. DOMAIN u.connection = Peer
  BY <1>3 DEF Sound
<1>8. ASSUME NEW q, Fetches(t, q) PROVE Fetches(u, q)
  <2> HIDE DEF handler
  <2>1. \A k \in DOMAIN t.handlers : k \in DOMAIN u.handlers /\ u.handlers[k] = t.handlers[k]
    BY <1>2, <1>3 DEF With
  <2> QED BY <1>8, <2>1 DEF Fetches
<1>9. caller = "throttler" => Fetches(u, s)
  <2>1. slot \in DOMAIN u.handlers /\ u.handlers[slot] = handler
    BY <1>3 DEF With
  <2> QED BY <2>1 DEF Fetches
<1> QED BY <1>3, <1>5, <1>6, <1>7, <1>8, <1>9 DEF Sound

\* The throttler looks at its queue: s alone may have lost its handler.
LEMMA InvokeKeeps ==
    ASSUME NEW t, Sound(t), Free(t), NEW s,
           \A q : q # s /\ Waits(t, q) => Fetches(t, q)
    PROVE  Sound(InvokeHandleFnWithLock(t, s)) /\ Fetched(InvokeHandleFnWithLock(t, s))
<1> DEFINE u == InvokeHandleFnWithLock(t, s)
<1>1. CASE s \in DOMAIN t.queue
  <2> DEFINE v == [t EXCEPT !.queue = Without(t.queue, s),
                            !.handling = t.handling \cup {s}]
             i == t.queue[s]
  <2>1. /\ DOMAIN v = Fields
        /\ v.streams = t.streams /\ v.connection = t.connection /\ v.timers = t.timers
        /\ v.queue = Without(t.queue, s)
        /\ v.handling = t.handling \cup {s}
        /\ v.handlers = t.handlers /\ v.retries = t.retries
    BY DEF Sound, Fields
  <2>2. u = Begin(v, i, "throttler", FALSE)
    BY <1>1 DEF InvokeHandleFnWithLock
  <2>3. i \in Instruction /\ i.stream = s
    BY <1>1 DEF Sound, Known
  <2> HIDE DEF v, u, i
  <2>4. Sound(v)
    BY <2>1 DEF Sound, Links, Known, Without, Restrict
  <2>5. Free(v)
    BY <2>1 DEF Free
  <2>6. /\ Sound(u)
        /\ u.queue = v.queue
        /\ u.handling = v.handling
        /\ \A q : Fetches(v, q) => Fetches(u, q)
        /\ Fetches(u, s)
    <3>1. PICK caller, reattempt : /\ u = Begin(v, i, caller, reattempt)
                                   /\ caller = "throttler"
      BY <2>2
    <3> QED BY <2>3, <2>4, <2>5, <3>1, BeginKeeps
  <2>7. \A q : Waits(u, q) => q = s \/ Waits(t, q)
    BY <2>1, <2>6 DEF Waits, Without, Restrict
  <2>8. \A q : Fetches(t, q) => Fetches(v, q)
    BY <2>1 DEF Fetches
  <2>9. Fetched(u)
    BY <2>6, <2>7, <2>8 DEF Fetched
  <2> QED BY <2>6, <2>9 DEF u
<1>2. CASE s \notin DOMAIN t.queue
  <2>1. u = [t EXCEPT !.handling = t.handling \ {s}]
    BY <1>2 DEF InvokeHandleFnWithLock
  <2> HIDE DEF u
  <2>2. /\ DOMAIN u = Fields
        /\ u.streams = t.streams /\ u.connection = t.connection /\ u.timers = t.timers
        /\ u.queue = t.queue
        /\ u.handling = t.handling \ {s}
        /\ u.handlers = t.handlers /\ u.retries = t.retries
    BY <2>1 DEF Sound, Fields
  <2>3. Sound(u)
    BY <2>2 DEF Sound, Links, Known
  <2>4. Fetched(u)
    BY <1>2, <2>2 DEF Fetched, Waits, Fetches
  <2> QED BY <2>3, <2>4 DEF u
<1> QED BY <1>1, <1>2

\* A handler has its connections and finishes.
LEMMA CompleteKeeps ==
    ASSUME NEW t, Sound(t), NEW h
    PROVE  Sound(Complete(t, h)) /\ SameHandling(t, Complete(t, h))
<1> DEFINE s == h.instruction.stream
           streams1 == With(t.streams, s, [neighbors |-> t.streams[s].neighbors,
                                           counter   |-> h.instruction.counter])
           u == IF s \in DOMAIN t.streams THEN [t EXCEPT !.streams = streams1] ELSE t
<1>1. \/ Complete(t, h) = t
      \/ Complete(t, h) = u
      \/ Complete(t, h) = Report(u, {s})
  BY DEF Complete
<1>2. Sound(u) /\ SameHandling(t, u)
  <2>1. CASE s \in DOMAIN t.streams
    <3>1. /\ DOMAIN streams1 = DOMAIN t.streams
          /\ \A q \in DOMAIN streams1 :
                /\ streams1[q].neighbors = t.streams[q].neighbors
                /\ "neighbors" \in DOMAIN streams1[q]
      BY <2>1 DEF With, Sound, Links
    <3>2. u = [t EXCEPT !.streams = streams1]
      BY <2>1
    <3> HIDE DEF streams1, u
    <3>3. /\ DOMAIN u = Fields
          /\ u.streams = streams1 /\ u.connection = t.connection /\ u.timers = t.timers
          /\ u.queue = t.queue /\ u.handling = t.handling
          /\ u.handlers = t.handlers /\ u.retries = t.retries
      BY <3>2 DEF Sound, Fields
    <3> QED BY <3>1, <3>3 DEF Sound, Links, Known, SameHandling
  <2>2. CASE s \notin DOMAIN t.streams
    BY <2>2 DEF SameHandling
  <2> QED BY <2>1, <2>2
<1> HIDE DEF u
<1>3. Sound(Report(u, {s})) /\ SameHandling(u, Report(u, {s}))
  BY <1>2, ReportKeeps
<1> QED BY <1>1, <1>2, <1>3 DEF SameHandling

\* A retry timer is armed again.
LEMMA RearmKeeps ==
    ASSUME NEW t, Sound(t), NEW i \in Instruction
    PROVE  Sound(Rearm(t, i)) /\ SameHandling(t, Rearm(t, i))
<1> DEFINE s == i.stream
           c == t.retries[s].counter
           next == IF c >= StatusSendCounterLimit THEN 0 ELSE c + 1
           retries1 == With(t.retries, s, [instruction |-> i, counter |-> next])
           u == Rearm(t, i)
<1>1. u = [t EXCEPT !.retries = retries1] \/ u = t
  BY DEF Rearm
<1>2. \A q \in DOMAIN retries1 : retries1[q].instruction \in Instruction
  <2> HIDE DEF next
  <2> QED BY DEF With, Sound, Known
<1> HIDE DEF u, retries1
<1>3. CASE u = [t EXCEPT !.retries = retries1]
  <2>1. /\ DOMAIN u = Fields
        /\ u.streams = t.streams /\ u.connection = t.connection /\ u.timers = t.timers
        /\ u.queue = t.queue /\ u.handling = t.handling
        /\ u.handlers = t.handlers /\ u.retries = retries1
    BY <1>3 DEF Sound, Fields
  <2> QED BY <1>2, <2>1 DEF Sound, Links, Known, SameHandling, u
<1>4. CASE u = t
  BY <1>4 DEF SameHandling, u
<1> QED BY <1>1, <1>3, <1>4

\* A connection is gone.
LEMMA DisconnectedKeeps ==
    ASSUME NEW t, Sound(t), Fetched(t), NEW m
    PROVE  Sound(Disconnected(t, m)) /\ Fetched(Disconnected(t, m))
<1> DEFINE connection1 == [t.connection EXCEPT ![m] = "none"]
           handlers1 == [k \in DOMAIN t.handlers |->
                    LET h == t.handlers[k]
                    IN  [h EXCEPT !.pending = h.pending \ {m},
                                  !.failed = h.failed \/ m \in h.pending]]
           streams1 == [s \in DOMAIN t.streams |->
                    [neighbors |-> t.streams[s].neighbors \ {m},
                     counter   |-> t.streams[s].counter]]
           u == [t EXCEPT !.connection = connection1,
                          !.handlers = handlers1,
                          !.streams = streams1]
<1>1. Disconnected(t, m) = u \/ Disconnected(t, m) = Report(u, Stream)
  BY DEF Disconnected
<1>2. /\ DOMAIN handlers1 = DOMAIN t.handlers
      /\ \A k \in DOMAIN handlers1 :
            /\ IsHandler(handlers1[k])
            /\ handlers1[k].instruction = t.handlers[k].instruction
            /\ handlers1[k].caller = t.handlers[k].caller
            /\ handlers1[k].cancelled = t.handlers[k].cancelled
  BY DEF Sound, Known, IsHandler
<1>3. /\ DOMAIN streams1 = DOMAIN t.streams
      /\ \A s \in DOMAIN streams1 :
            /\ streams1[s].neighbors = t.streams[s].neighbors \ {m}
            /\ "neighbors" \in DOMAIN streams1[s]
  OBVIOUS
<1>4. DOMAIN connection1 = Peer /\ \A n \in Peer : n # m => connection1[n] = t.connection[n]
  BY DEF Sound
<1> HIDE DEF connection1, handlers1, streams1
<1>5. /\ DOMAIN u = Fields
      /\ u.streams = streams1 /\ u.connection = connection1 /\ u.timers = t.timers
      /\ u.queue = t.queue /\ u.handling = t.handling
      /\ u.handlers = handlers1 /\ u.retries = t.retries
  BY DEF Sound, Fields
<1> HIDE DEF u
<1>6. Links(u)
  BY <1>3, <1>4, <1>5 DEF Sound, Links
<1>7. Sound(u)
  BY <1>2, <1>4, <1>5, <1>6 DEF Sound, Known
<1>8. Fetched(u)
  BY <1>2, <1>5 DEF Fetched, Waits, Fetches
<1>9. Sound(Report(u, Stream)) /\ SameHandling(u, Report(u, Stream))
  BY <1>7, ReportKeeps
<1>10. Fetched(Report(u, Stream))
  BY <1>8, <1>9 DEF Fetched, Waits, Fetches, SameHandling
<1> QED BY <1>1, <1>7, <1>8, <1>9, <1>10

-----------------------------------------------------------------------------
\* The node's state is a record.
LEMMA StateIsRecord ==
    /\ DOMAIN State = Fields
    /\ State.streams = streams /\ State.connection = connection /\ State.timers = timers
    /\ State.accepted = accepted /\ State.queue = queue /\ State.handling = handling
    /\ State.handlers = handlers /\ State.retries = retries
    /\ State.reported = reported
BY DEF State, Fields

\* So is the next one.
LEMMA NextStateIsRecord ==
    /\ DOMAIN State' = Fields
    /\ State'.streams = streams' /\ State'.connection = connection'
    /\ State'.timers = timers' /\ State'.queue = queue' /\ State'.handling = handling'
    /\ State'.handlers = handlers' /\ State'.retries = retries'
    /\ State'.accepted = accepted' /\ State'.reported = reported'
BY DEF State, Fields

\* What keeps the queue, the locks and, as far as it matters, the handlers
LEMMA HandlersGoOn ==
    ASSUME IInv, UNCHANGED <<queue, handling, retries>>,
           DOMAIN handlers' = DOMAIN handlers,
           \A k \in DOMAIN handlers :
              /\ IsHandler(handlers'[k])
              /\ handlers'[k].instruction = handlers[k].instruction
              /\ handlers'[k].caller = handlers[k].caller
              /\ handlers'[k].cancelled = handlers[k].cancelled
    PROVE  Known(State') /\ Fetched(State')
<1>1. Known(State')
  BY StateIsRecord, NextStateIsRecord DEF IInv, Sound, Known
<1>2. ASSUME NEW s, Waits(State', s) PROVE Fetches(State', s)
  <2>1. Fetches(State, s)
    BY <1>2, StateIsRecord, NextStateIsRecord DEF IInv, Fetched, Waits
  <2> QED BY <2>1, StateIsRecord, NextStateIsRecord DEF Fetches
<1> QED BY <1>1, <1>2 DEF Fetched

\* Steps that are given as the record they lead to
LEMMA BecomesKeeps ==
    ASSUME NEW t, Sound(t), Fetched(t), Becomes(t)
    PROVE  IInv'
<1>1. /\ DOMAIN State' = Fields
      /\ State'.streams = t.streams /\ State'.connection = t.connection
      /\ State'.timers = t.timers /\ State'.queue = t.queue
      /\ State'.handling = t.handling /\ State'.handlers = t.handlers
      /\ State'.retries = t.retries
  BY DEF Becomes, State, Fields
<1>2. Sound(State')
  BY <1>1 DEF Sound, Links, Known
<1>3. Fetched(State')
  BY <1>1 DEF Fetched, Waits, Fetches
<1> QED BY <1>2, <1>3 DEF IInv

\* Nothing is set up yet.
LEMMA InitEstablishesIInv == Init => IInv
<1> SUFFICES ASSUME Init PROVE IInv
  OBVIOUS
<1>1. Sound(State)
  BY StateIsRecord DEF Init, Sound, Links, Known
<1>2. Fetched(State)
  BY StateIsRecord DEF Init, Fetched, Waits
<1> QED BY <1>1, <1>2 DEF IInv

\* A handler ends: only its own stream may have to look for another.
LEMMA HandlerEndsKeeps ==
    ASSUME IInv, NEW k \in 1 .. MaxHandlers, HandlerEnds(k)
    PROVE  IInv'
<1> DEFINE h == handlers[k]
           s == h.instruction.stream
           t0 == [State EXCEPT !.handlers = Without(handlers, k)]
           t == Complete(t0, h)
<1>1. /\ k \in DOMAIN handlers
      /\ Becomes(CASE h.caller = "throttler" /\ ~ h.cancelled -> InvokeHandleFnWithLock(t, s)
                   [] h.caller = "throttler" /\ h.cancelled -> t
                   [] OTHER -> Rearm(t, h.instruction))
  BY DEF HandlerEnds
<1>2. /\ DOMAIN t0 = Fields
      /\ t0.streams = streams /\ t0.connection = connection /\ t0.timers = timers
      /\ t0.queue = queue /\ t0.handling = handling /\ t0.retries = retries
      /\ t0.handlers = Without(handlers, k)
  BY DEF State, Fields
<1>3. h.instruction \in Instruction
  BY <1>1, StateIsRecord DEF IInv, Sound, Known, IsHandler
<1> HIDE DEF t0
<1>4. /\ DOMAIN t0.handlers = DOMAIN handlers \ {k}
      /\ \A j \in DOMAIN t0.handlers : t0.handlers[j] = handlers[j]
  BY <1>2 DEF Without, Restrict
<1>5. Sound(t0)
  BY <1>2, <1>4, StateIsRecord DEF IInv, Sound, Links, Known
<1>6. ASSUME NEW q, Waits(t0, q)
      PROVE  Fetches(t0, q) \/ (q = s /\ h.caller = "throttler" /\ ~ h.cancelled)
  <2>1. Fetches(State, q)
    BY <1>2, <1>6, StateIsRecord DEF IInv, Fetched, Waits
  <2> QED BY <1>4, <2>1, StateIsRecord DEF Fetches
<1> HIDE DEF t
<1>7. Sound(t) /\ SameHandling(t0, t)
  BY <1>5, CompleteKeeps DEF t
<1>8. /\ Free(t)
      /\ \A q : Waits(t, q) => Waits(t0, q)
      /\ \A q : Fetches(t0, q) => Fetches(t, q)
  BY <1>4, <1>7 DEF SameHandling, Free, Waits, Fetches
<1> HIDE DEF h, s
<1>9. ASSUME NEW q, Waits(t, q)
      PROVE  Fetches(t, q) \/ (q = s /\ h.caller = "throttler" /\ ~ h.cancelled)
  BY <1>6, <1>8, <1>9
<1>10. CASE h.caller = "throttler" /\ ~ h.cancelled
  <2>1. Becomes(InvokeHandleFnWithLock(t, s))
    BY <1>1, <1>10
  <2>2. \A q : q # s /\ Waits(t, q) => Fetches(t, q)
    BY <1>9
  <2> QED BY <1>7, <1>8, <2>1, <2>2, InvokeKeeps, BecomesKeeps
<1>11. CASE ~ (h.caller = "throttler" /\ ~ h.cancelled)
  <2>1. Fetched(t)
    BY <1>11, <1>9 DEF Fetched
  <2>2. Becomes(t) \/ Becomes(Rearm(t, h.instruction))
    BY <1>1, <1>11
  <2>3. Sound(Rearm(t, h.instruction)) /\ SameHandling(t, Rearm(t, h.instruction))
    BY <1>3, <1>7, RearmKeeps
  <2>4. Fetched(Rearm(t, h.instruction))
    BY <2>1, <2>3 DEF SameHandling, Fetched, Waits, Fetches
  <2> QED BY <1>7, <2>1, <2>2, <2>3, <2>4, BecomesKeeps
<1> QED BY <1>10, <1>11

\* There is a place for another handler.
LEMMA SlotFreeMeans == IInv /\ SlotFree => Free(State)
<1> SUFFICES ASSUME IInv, SlotFree, \A k \in 1 .. MaxHandlers : k \in DOMAIN handlers
             PROVE  FALSE
  BY StateIsRecord DEF Free
<1>1. DOMAIN handlers = 1 .. MaxHandlers
  BY StateIsRecord DEF IInv, Sound, Known
<1>2. Cardinality(1 .. MaxHandlers) = MaxHandlers
  BY MaxHandlersAssumption, FS_Interval
<1> QED BY <1>1, <1>2, MaxHandlersAssumption DEF SlotFree

\* An instruction arrives.
LEMMA InstructionReceivedKeeps ==
    ASSUME IInv, NEW i \in Instruction, InstructionReceived(i)
    PROVE  IInv'
<1> DEFINE s == i.stream
           t == [State EXCEPT !.accepted = With(accepted, s, i),
                              !.queue = With(queue, s, i)]
<1>1. /\ SlotFree
      /\ Becomes(IF s \in handling THEN t ELSE InvokeHandleFnWithLock(t, s))
  BY DEF InstructionReceived
<1>2. /\ DOMAIN t = Fields
      /\ t.streams = streams /\ t.connection = connection /\ t.timers = timers
      /\ t.queue = With(queue, s, i) /\ t.handling = handling
      /\ t.handlers = handlers /\ t.retries = retries
  BY DEF State, Fields
<1> HIDE DEF t
<1>3. Sound(t)
  BY <1>2, StateIsRecord DEF IInv, Sound, Links, Known, With
<1>4. Free(t)
  BY <1>1, <1>2, SlotFreeMeans, StateIsRecord DEF Free
<1>5. \A q : q # s /\ Waits(t, q) => Fetches(t, q)
  BY <1>2, StateIsRecord DEF IInv, Fetched, Waits, Fetches, With
<1>6. s \in handling => Fetched(t)
  BY <1>2, <1>5, StateIsRecord DEF IInv, Fetched, Waits, Fetches
<1> QED BY <1>1, <1>3, <1>4, <1>5, <1>6, InvokeKeeps, BecomesKeeps

\* A retry timer fires.
LEMMA RetryFiresKeeps ==
    ASSUME IInv, NEW s, RetryFires(s)
    PROVE  IInv'
<1> DEFINE i == retries[s].instruction
<1>1. PICK u, caller, reattempt : u = Begin(State, i, caller, reattempt) /\ Becomes(u)
  BY DEF RetryFires
<1>2. i \in Instruction
  BY StateIsRecord DEF RetryFires, IInv, Sound, Known
<1>3. Sound(State) /\ Free(State)
  BY SlotFreeMeans DEF RetryFires, IInv
<1>4. /\ Sound(u)
      /\ u.queue = State.queue
      /\ u.handling = State.handling
      /\ \A q : Fetches(State, q) => Fetches(u, q)
  <2> HIDE DEF i
  <2> QED BY <1>1, <1>2, <1>3, BeginKeeps
<1>5. Fetched(u)
  BY <1>4 DEF IInv, Fetched, Waits
<1> QED BY <1>1, <1>4, <1>5, BecomesKeeps
\* A stream is set up, without neighbors.
LEMMA SubscribeKeeps ==
    ASSUME IInv, NEW s, Subscribe(s)
    PROVE  IInv'
<1> DEFINE t == [State EXCEPT !.streams = With(streams, s, NewStream)]
<1>1. /\ DOMAIN t = Fields
      /\ t.streams = With(streams, s, NewStream) /\ t.connection = connection
      /\ t.timers = timers /\ t.queue = queue /\ t.handling = handling
      /\ t.handlers = handlers /\ t.retries = retries
  BY DEF State, Fields
<1>2. Becomes(Report(t, {s}))
  BY DEF Subscribe
<1> HIDE DEF t
<1>3. Links(t)
  BY <1>1, StateIsRecord DEF IInv, Sound, Links, With, NewStream
<1>4. Sound(t)
  BY <1>1, <1>3, StateIsRecord DEF IInv, Sound, Known
<1>5. Sound(Report(t, {s})) /\ SameHandling(t, Report(t, {s}))
  BY <1>4, ReportKeeps
<1>6. Fetched(Report(t, {s}))
  BY <1>1, <1>5, StateIsRecord DEF IInv, SameHandling, Fetched, Waits, Fetches
<1> QED BY <1>2, <1>5, <1>6, BecomesKeeps

\* Who leaves a stream takes what waits for its handlers, too.
LEMMA UnsubscribeKeeps ==
    ASSUME IInv, NEW s, Unsubscribe(s)
    PROVE  IInv'
<1> DEFINE t == [State EXCEPT !.streams = Without(streams, s)]
           handlers1 == [k \in DOMAIN handlers |->
               [handlers[k] EXCEPT !.cancelled = @ \/ k \in HandlersOf(s, "throttler")]]
           u == ThrottlerRemoves(t, s)
           v == RetryManagerRemoves(u, s)
<1>1. /\ DOMAIN t = Fields
      /\ t.streams = Without(streams, s) /\ t.connection = connection
      /\ t.timers = timers /\ t.queue = queue /\ t.handling = handling
      /\ t.handlers = handlers /\ t.retries = retries /\ t.accepted = accepted
  BY DEF State, Fields
<1>2. Becomes(Report(v, {s}))
  BY DEF Unsubscribe
<1> HIDE DEF t
<1>3. /\ DOMAIN u = Fields
      /\ u.streams = Without(streams, s) /\ u.connection = connection
      /\ u.timers = timers /\ u.queue = Without(queue, s) /\ u.handling = handling \ {s}
      /\ u.handlers = handlers1 /\ u.retries = retries
  <2>1. u = [t EXCEPT !.queue = Without(queue, s),
                      !.accepted = Without(accepted, s),
                      !.handling = handling \ {s},
                      !.handlers = handlers1]
    BY <1>1 DEF ThrottlerRemoves
  <2> HIDE DEF u, handlers1
  <2> QED BY <1>1, <2>1 DEF Fields
<1> HIDE DEF u, handlers1
<1>4. /\ DOMAIN v = Fields
      /\ v.streams = Without(streams, s) /\ v.connection = connection
      /\ v.timers = timers /\ v.queue = Without(queue, s) /\ v.handling = handling \ {s}
      /\ v.handlers = handlers1 /\ v.retries = Without(retries, s)
  BY <1>3 DEF RetryManagerRemoves, Fields
<1> HIDE DEF v
<1>5. /\ DOMAIN handlers1 = DOMAIN handlers
      /\ \A k \in DOMAIN handlers1 :
            /\ IsHandler(handlers1[k])
            /\ handlers1[k].instruction = handlers[k].instruction
            /\ handlers1[k].caller = handlers[k].caller
            /\ handlers[k].instruction.stream # s =>
                  (handlers1[k].cancelled <=> handlers[k].cancelled)
  BY StateIsRecord DEF IInv, Sound, Known, IsHandler, HandlersOf, handlers1
<1>6. Links(v)
  BY <1>4, StateIsRecord DEF IInv, Sound, Links, Without, Restrict
<1>7. Known(v)
  BY <1>4, <1>5, StateIsRecord DEF IInv, Sound, Known, Without, Restrict
<1>8. Sound(v)
  BY <1>4, <1>6, <1>7, StateIsRecord DEF IInv, Sound
<1>9. ASSUME NEW q, Waits(v, q) PROVE Fetches(v, q)
  <2>1. q # s /\ Fetches(State, q)
    BY <1>4, <1>9, StateIsRecord DEF IInv, Fetched, Waits, Without, Restrict
  <2> QED BY <1>4, <1>5, <2>1, StateIsRecord DEF Fetches
<1>10. Sound(Report(v, {s})) /\ SameHandling(v, Report(v, {s}))
  BY <1>8, ReportKeeps
<1>11. Fetched(Report(v, {s}))
  BY <1>9, <1>10 DEF SameHandling, Fetched, Waits, Fetches
<1> QED BY <1>2, <1>10, <1>11, BecomesKeeps

\* A data channel opens, for those who wait for it.
LEMMA ConnectionOpensKeeps ==
    ASSUME IInv, NEW m \in Peer, ConnectionOpens(m)
    PROVE  IInv'
<1> DEFINE waiting == {k \in DOMAIN handlers : m \in handlers[k].pending}
           waitedFor == {handlers[k].instruction.stream : k \in waiting}
<1>1. /\ connection' = [connection EXCEPT ![m] = "open"]
      /\ timers' = IF waiting = {} THEN timers ELSE timers \ {m}
      /\ streams' = [s \in DOMAIN streams |->
             IF s \in waitedFor
             THEN [streams[s] EXCEPT !.neighbors = @ \cup {m}]
             ELSE streams[s]]
      /\ UNCHANGED <<accepted, queue, handling, retries, reported>>
  BY DEF ConnectionOpens
<1>2. /\ DOMAIN handlers' = DOMAIN handlers
      /\ \A k \in DOMAIN handlers' :
            /\ IsHandler(handlers'[k])
            /\ handlers'[k].instruction = handlers[k].instruction
            /\ handlers'[k].caller = handlers[k].caller
            /\ handlers'[k].cancelled = handlers[k].cancelled
  <2>1. \A k \in DOMAIN handlers : IsHandler(handlers[k])
    BY StateIsRecord DEF IInv, Sound, Known
  <2>2. handlers' = [k \in DOMAIN handlers |->
             IF k \in waiting
             THEN [handlers[k] EXCEPT
                     !.pending = @ \ {m},
                     !.failed = @ \/ handlers[k].instruction.stream \notin DOMAIN streams]
             ELSE handlers[k]]
    BY DEF ConnectionOpens
  <2> HIDE DEF waiting
  <2> QED BY <2>1, <2>2 DEF IsHandler
<1>3. Known(State') /\ Fetched(State')
  BY <1>1, <1>2, HandlersGoOn
<1>4. DOMAIN connection = Peer /\ Links(State)
  BY StateIsRecord DEF IInv, Sound
<1>5. /\ DOMAIN connection' = Peer
      /\ connection'[m] = "open"
      /\ \A n \in Peer : n # m => connection'[n] = connection[n]
  BY <1>1, <1>4
<1>6. waiting = {} => waitedFor = {}
  OBVIOUS
<1> HIDE DEF waiting, waitedFor
<1>7. ASSUME NEW s \in DOMAIN streams'
      PROVE  /\ s \in DOMAIN streams
             /\ "neighbors" \in DOMAIN streams'[s]
             /\ \/ streams'[s].neighbors = streams[s].neighbors
                \/ waitedFor # {} /\ streams'[s].neighbors = streams[s].neighbors \cup {m}
  BY <1>1, <1>4, StateIsRecord DEF Links
<1>8. ASSUME NEW s \in DOMAIN streams', NEW n \in streams'[s].neighbors
      PROVE  n \in Peer /\ connection'[n] \in Established /\ n \notin timers'
  <2>1. CASE n = m /\ waitedFor # {}
    BY <1>1, <1>5, <1>6, <2>1 DEF Established
  <2>2. CASE n \in streams[s].neighbors
    <3>1. n \in Peer /\ connection[n] \in Established /\ n \notin timers
      BY <1>4, <1>7, <2>2, StateIsRecord DEF Links
    <3> QED BY <1>1, <1>5, <3>1 DEF Established
  <2> QED BY <1>7, <2>1, <2>2
<1>9. Links(State')
  BY <1>7, <1>8, NextStateIsRecord DEF Links
<1> QED BY <1>3, <1>5, <1>9, NextStateIsRecord DEF IInv, Sound

\* A handler gives up on a connection.
LEMMA ConnectTimesOutKeeps ==
    ASSUME IInv, NEW k, NEW m, ConnectTimesOut(k, m)
    PROVE  IInv'
<1>1. /\ handlers' = [handlers EXCEPT ![k].pending = @ \ {m}, ![k].failed = TRUE]
      /\ UNCHANGED <<streams, connection, timers, queue, handling, retries>>
  BY DEF ConnectTimesOut
<1>2. \A j \in DOMAIN handlers : IsHandler(handlers[j])
  BY StateIsRecord DEF IInv, Sound, Known
<1>3. /\ DOMAIN handlers' = DOMAIN handlers
      /\ \A j \in DOMAIN handlers :
            /\ IsHandler(handlers'[j])
            /\ handlers'[j].instruction = handlers[j].instruction
            /\ handlers'[j].caller = handlers[j].caller
            /\ handlers'[j].cancelled = handlers[j].cancelled
  BY <1>1, <1>2 DEF IsHandler
<1>4. Known(State') /\ Fetched(State')
  BY <1>1, <1>3, HandlersGoOn
<1> QED BY <1>1, <1>4, StateIsRecord, NextStateIsRecord DEF IInv, Sound, Links

\* The other side asks for a connection, or one is made.
LinkComes(m) == PeerConnects(m) \/ PeerConnectionConnects(m)

\* A connection comes or closes, or a disconnection timer fires.
LEMMA LinkStepsKeep ==
    ASSUME IInv, NEW m \in Peer,
           ConnectionCloses(m) \/ LinkComes(m) \/ DisconnectionTimerFires(m)
    PROVE  IInv'
<1>1. CASE ConnectionCloses(m)
  BY <1>1, DisconnectedKeeps, BecomesKeeps DEF ConnectionCloses, IInv
<1>2. CASE LinkComes(m)
  <2>1. /\ connection[m] \notin Established
        /\ connection' \in {[connection EXCEPT ![m] = "connecting"],
                           [connection EXCEPT ![m] = "connected"]}
        /\ UNCHANGED <<streams, timers, queue, handling, handlers, retries>>
    BY <1>2 DEF LinkComes, PeerConnects, PeerConnectionConnects, Established
  <2>2. Known(State') /\ Fetched(State')
    <3>1. \A j \in DOMAIN handlers : IsHandler(handlers[j])
      BY StateIsRecord DEF IInv, Sound, Known
    <3> QED BY <2>1, <3>1, HandlersGoOn
  <2>3. DOMAIN connection' = Peer /\ Links(State')
    <3>1. DOMAIN connection = Peer /\ DOMAIN connection' = Peer
      BY <2>1, StateIsRecord DEF IInv, Sound
    <3>2. \A n \in Peer : connection[n] \in Established => connection'[n] \in Established
      BY <2>1, <3>1
    <3> QED BY <2>1, <3>1, <3>2, StateIsRecord, NextStateIsRecord DEF IInv, Sound, Links
  <2> QED BY <2>2, <2>3, NextStateIsRecord DEF IInv, Sound
<1>3. CASE DisconnectionTimerFires(m)
  <2> DEFINE t == [State EXCEPT !.timers = timers \ {m}]
  <2>1. Becomes(t) \/ Becomes(Disconnected(t, m))
    BY <1>3 DEF DisconnectionTimerFires
  <2>2. /\ DOMAIN t = Fields
        /\ t.streams = streams /\ t.connection = connection
        /\ t.timers = timers \ {m} /\ t.queue = queue /\ t.handling = handling
        /\ t.handlers = handlers /\ t.retries = retries
    BY DEF State, Fields
  <2> HIDE DEF t
  <2>3. Sound(t)
    BY <2>2, StateIsRecord DEF IInv, Sound, Links, Known
  <2>4. Fetched(t)
    BY <2>2, StateIsRecord DEF IInv, Fetched, Waits, Fetches
  <2> QED BY <2>1, <2>3, <2>4, DisconnectedKeeps, BecomesKeeps
<1> QED BY <1>1, <1>2, <1>3

\* The inductive step
LEMMA NextKeepsIInv == IInv /\ [Next]_vars => IInv'
<1> SUFFICES ASSUME IInv, [Next]_vars PROVE IInv'
  OBVIOUS
<1>1. CASE UNCHANGED vars
  <2>1. State' = State
    BY <1>1 DEF vars, State
  <2> QED BY <2>1 DEF IInv
<1>2. CASE \E k \in 1 .. MaxHandlers :
              HandlerEnds(k) \/ \E m \in Peer : ConnectTimesOut(k, m)
  BY <1>2, HandlerEndsKeeps, ConnectTimesOutKeeps
<1>3. CASE \E i \in Instruction : InstructionReceived(i)
  BY <1>3, InstructionReceivedKeeps
<1>4. CASE \E s \in Stream : Subscribe(s) \/ Unsubscribe(s) \/ RetryFires(s)
  BY <1>4, SubscribeKeeps, UnsubscribeKeeps, RetryFiresKeeps
<1>5. CASE \E m \in Peer : \/ ConnectionOpens(m) \/ ConnectionCloses(m)
                          \/ LinkComes(m) \/ DisconnectionTimerFires(m)
  BY <1>5, ConnectionOpensKeeps, LinkStepsKeep
<1> QED BY <1>1, <1>2, <1>3, <1>4, <1>5 DEF Next, LinkComes

-----------------------------------------------------------------------------
\* The inductive invariant of the handler and its callers
THEOREM NodeInvariant == Spec => []IInv
<1> QED BY InitEstablishesIInv, NextKeepsIInv, PTL DEF Spec

\* Whatever connections do while handlers wait for them, a neighbor in any stream
\* is a peer with an established connection, whose data channel is open or about to
\* open: no connection that is still being made or that was lost counts.
THEOREM NeighborsAlwaysConnected == Spec => []NeighborsAreConnected
<1>1. IInv => NeighborsAreConnected
  BY StateIsRecord DEF IInv, Sound, Links, NeighborsAreConnected
<1> QED BY <1>1, NodeInvariant, PTL

\* No neighbor has a disconnection timer, in whatever streams and by whatever
\* overlapping handlers it was dropped and added again.
THEOREM NeverTimerForNeighbors == Spec => []NoTimerForNeighbors
<1>1. IInv => NoTimerForNeighbors
  BY StateIsRecord DEF IInv, Sound, Links, NoTimerForNeighbors, Present
<1> QED BY <1>1, NodeInvariant, PTL

\* An instruction in the throttler's queue always has a handler ahead of it that
\* will fetch it, also when its stream was left and joined while others ran.
THEOREM QueuedAlwaysFetched == Spec => []QueuedIsFetched
<1>1. IInv => QueuedIsFetched
  BY StateIsRecord DEF IInv, Fetched, Waits, Fetches, QueuedIsFetched, HandlersOf
<1> QED BY <1>1, NodeInvariant, PTL
-----------------------------------------------------------------------------
(***************************************************************************)
(* The throttler's order.  What follows depends on who else calls the      *)
(* handler: a user who unsubscribes makes the throttler forget the handler *)
(* it waits for, and a retry runs beside it.                               *)
(***************************************************************************)
NeverUnsubscribes == "unsubscribe" \notin Happens

NeverRetries == "retry" \notin Happens

\* h is the throttler's handler of s.
Serves(h, s) == h.caller = "throttler" /\ h.instruction.stream = s

\* The lock of a stream is held for one handler of the throttler.
Locked(t) ==
    \A k \in DOMAIN t.handlers : t.handlers[k].caller = "throttler" =>
        /\ ~ t.handlers[k].cancelled
        /\ t.handlers[k].instruction.stream \in t.handling
        /\ \A j \in DOMAIN t.handlers :
              Serves(t.handlers[j], t.handlers[k].instruction.stream) => j = k

IsStream(x) == x = [neighbors |-> x.neighbors, counter |-> x.counter]

\* The tracker knows s, or will hear of it from a handler in progress.
Told(t, s) ==
    \/ t.reported[s] = StreamState(t, s)
    \/ \E k \in DOMAIN t.handlers : /\ t.handlers[k].instruction.stream = s
                                    /\ t.handlers[k].instruction.expected

\* The call h will tell the tracker, if it may change anything.
Tells(h) == ~ h.reattempt /\ (~ h.instruction.expected => h.pending = {})

Telling(t) == /\ \A s \in DOMAIN t.streams : IsStream(t.streams[s])
              /\ \A k \in DOMAIN t.handlers : Tells(t.handlers[k])
              /\ \A s \in Stream : Told(t, s)

\* h handles the last instruction accepted for its stream, unless a newer one is
\* queued, and only its nodes are or become neighbors.
Follows(t, h) ==
    LET i == h.instruction
    IN  /\ h.caller = "throttler"
        /\ i.stream \in DOMAIN t.accepted
        /\ i.stream \in DOMAIN t.queue \/ t.accepted[i.stream] = i
        /\ h.pending \subseteq i.nodeIds
        /\ ~ i.expected => h.pending = {}
        /\ i.expected => /\ i.stream \in DOMAIN t.streams
                         /\ t.streams[i.stream].neighbors \subseteq i.nodeIds

Serving(t) ==
    /\ \A k \in DOMAIN t.handlers : Follows(t, t.handlers[k])
    /\ \A s \in DOMAIN t.queue : s \in DOMAIN t.accepted /\ t.queue[s] = t.accepted[s]

\* The neighbors and the counter of s are those of instruction i.
CarriedOut(t, s, i) ==
    i.expected => /\ s \in DOMAIN t.streams
                  /\ t.streams[s].neighbors \subseteq i.nodeIds
                  /\ t.streams[s].counter = i.counter

Settled(t, s) ==
    s \in DOMAIN t.accepted /\ s \notin t.handling => CarriedOut(t, s, t.accepted[s])

Ordered(t) == Locked(t) /\ Serving(t) /\ \A s : Settled(t, s)

-----------------------------------------------------------------------------
\* What operations lead to.  u has the calls of the handler that t has.
SameCalls(t, u) ==
    /\ DOMAIN u.handlers = DOMAIN t.handlers
    /\ \A k \in DOMAIN t.handlers :
          /\ u.handlers[k].instruction = t.handlers[k].instruction
          /\ u.handlers[k].caller = t.handlers[k].caller
          /\ u.handlers[k].cancelled = t.handlers[k].cancelled
          /\ u.handlers[k].reattempt = t.handlers[k].reattempt
          /\ u.handlers[k].pending \subseteq t.handlers[k].pending

SameInstructions(t, u) ==
    u.accepted = t.accepted /\ u.queue = t.queue /\ u.handling = t.handling

\* Other streams than s are left alone.
OnlyStream(before, after, s) ==
    /\ DOMAIN after \in {DOMAIN before, DOMAIN before \cup {s}}
    /\ \A q \in DOMAIN before : q # s => after[q] = before[q]

\* h is a call with instruction i that has not awaited anything yet.
Fresh(h, i, caller, reattempt) ==
    /\ h.instruction = i
    /\ h.caller = caller
    /\ ~ h.cancelled
    /\ h.reattempt = reattempt
    /\ h.pending \subseteq i.nodeIds
    /\ ~ i.expected => h.pending = {}

\* A handler is called with instruction i.
Called(before, after, i, caller, reattempt) ==
    \E k : /\ k \notin DOMAIN before
           /\ DOMAIN after = DOMAIN before \cup {k}
           /\ \A j \in DOMAIN before : after[j] = before[j]
           /\ Fresh(after[k], i, caller, reattempt)

\* Its stream has only neighbors it names.
SetUp(before, after, i) ==
    /\ ~ i.expected => after = before
    /\ i.expected => /\ OnlyStream(before, after, i.stream)
                     /\ i.stream \in DOMAIN after
                     /\ IsStream(after[i.stream])
                     /\ after[i.stream].neighbors \subseteq i.nodeIds

Started(t, u, i, caller, reattempt) ==
    /\ Called(t.handlers, u.handlers, i, caller, reattempt)
    /\ SetUp(t.streams, u.streams, i)

\* Begin
LEMMA BeginIs ==
    ASSUME NEW t, Sound(t), Free(t), NEW i, NEW caller, NEW reattempt,
           NEW u, u = Begin(t, i, caller, reattempt)
    PROVE  /\ SameInstructions(t, u)
           /\ u.reported = t.reported
           /\ Started(t, u, i, caller, reattempt)
<1> DEFINE s == i.stream
           old == IF s \in DOMAIN t.streams THEN t.streams[s] ELSE NewStream
           open == Connected(t, i.nodeIds)
           new == [neighbors |-> (old.neighbors \cap i.nodeIds) \cup open,
                   counter   |-> old.counter]
           streams1 == With(t.streams, s, new)
           slot == CHOOSE k \in 1 .. MaxHandlers : k \notin DOMAIN t.handlers
           handler == [instruction |-> i,
                       caller      |-> caller,
                       cancelled   |-> FALSE,
                       reattempt   |-> reattempt,
                       pending     |-> IF i.expected THEN i.nodeIds \ open ELSE {},
                       failed      |-> FALSE]
           handlers1 == With(t.handlers, slot, handler)
           retries1 == With(t.retries, s, [instruction |-> i, counter |-> 0])
           timers1 == (t.timers \ open) \cup Lonely(streams1, old.neighbors \ i.nodeIds)
           connection1 == [m \in Peer |->
                             IF m \in i.nodeIds /\ t.connection[m] = "none"
                             THEN "connecting" ELSE t.connection[m]]
<1>1. slot \in 1 .. MaxHandlers /\ slot \notin DOMAIN t.handlers
  BY DEF Free
<1>2. /\ SameInstructions(t, u)
      /\ u.reported = t.reported
      /\ u.handlers = handlers1
      /\ i.expected => u.streams = streams1
      /\ ~ i.expected => u.streams = t.streams
  <2> DEFINE v == [t EXCEPT !.retries = retries1, !.handlers = handlers1]
  <2>1. u = IF i.expected
            THEN [v EXCEPT !.streams = streams1, !.timers = timers1,
                           !.connection = connection1]
            ELSE v
    BY DEF Begin
  <2> HIDE DEF streams1, timers1, connection1, retries1, handlers1
  <2> QED BY <2>1 DEF Sound, Fields, SameInstructions
<1>3. Fresh(handler, i, caller, reattempt)
  BY DEF Fresh
<1>4. Called(t.handlers, u.handlers, i, caller, reattempt)
  <2> HIDE DEF slot, handler
  <2>1. /\ DOMAIN handlers1 = DOMAIN t.handlers \cup {slot}
        /\ \A j \in DOMAIN t.handlers : handlers1[j] = t.handlers[j]
        /\ handlers1[slot] = handler
    BY <1>1 DEF With
  <2> HIDE DEF handlers1
  <2> QED BY <1>1, <1>2, <1>3, <2>1 DEF Called
<1>5. /\ DOMAIN streams1 = DOMAIN t.streams \cup {s}
      /\ \A q \in DOMAIN t.streams : q # s => streams1[q] = t.streams[q]
      /\ streams1[s] = new
  BY DEF With
<1>6. IsStream(new) /\ new.neighbors \subseteq i.nodeIds
  BY DEF IsStream, Connected
<1> HIDE DEF new, streams1
<1>7. SetUp(t.streams, u.streams, i)
  BY <1>2, <1>5, <1>6 DEF SetUp, OnlyStream
<1> QED BY <1>2, <1>4, <1>7 DEF Started

\* The throttler lets go of s, or calls a handler with what is queued for s.
Invoked(t, u, s) ==
    /\ u.accepted = t.accepted
    /\ u.reported = t.reported
    /\ \/ /\ s \notin DOMAIN t.queue
          /\ u.queue = t.queue
          /\ u.handling = t.handling \ {s}
          /\ u.handlers = t.handlers
          /\ u.streams = t.streams
       \/ /\ s \in DOMAIN t.queue
          /\ u.queue = Without(t.queue, s)
          /\ u.handling = t.handling \cup {s}
          /\ Started(t, u, t.queue[s], "throttler", FALSE)

\* InvokeHandleFnWithLock
LEMMA InvokeIs ==
    ASSUME NEW t, Sound(t), Free(t), NEW s,
           NEW u, u = InvokeHandleFnWithLock(t, s)
    PROVE  Invoked(t, u, s)
<1>1. CASE s \in DOMAIN t.queue
  <2> DEFINE v == [t EXCEPT !.queue = Without(t.queue, s),
                            !.handling = t.handling \cup {s}]
             i == t.queue[s]
  <2>1. /\ DOMAIN v = Fields
        /\ v.streams = t.streams /\ v.connection = t.connection /\ v.timers = t.timers
        /\ v.queue = Without(t.queue, s)
        /\ v.handling = t.handling \cup {s}
        /\ v.accepted = t.accepted /\ v.reported = t.reported
        /\ v.handlers = t.handlers /\ v.retries = t.retries
    BY DEF Sound, Fields
  <2>2. u = Begin(v, i, "throttler", FALSE)
    BY <1>1 DEF InvokeHandleFnWithLock
  <2> HIDE DEF v, i
  <2>3. Sound(v) /\ Free(v)
    BY <2>1 DEF Sound, Links, Known, Without, Restrict, Free
  <2>4. ASSUME NEW caller, NEW reattempt, u = Begin(v, i, caller, reattempt)
        PROVE  /\ SameInstructions(v, u)
               /\ u.reported = v.reported
               /\ Started(v, u, i, caller, reattempt)
    BY <2>3, <2>4, BeginIs
  <2>5. /\ SameInstructions(v, u)
        /\ u.reported = v.reported
        /\ Started(v, u, i, "throttler", FALSE)
    BY <2>2, <2>4, Zenon
  <2>6. Started(t, u, i, "throttler", FALSE)
    BY <2>1, <2>5, Zenon DEF Started
  <2> QED BY <1>1, <2>1, <2>5, <2>6 DEF SameInstructions, Invoked, i
<1>2. CASE s \notin DOMAIN t.queue
  BY <1>2 DEF InvokeHandleFnWithLock, Sound, Fields, Invoked
<1> QED BY <1>1, <1>2

\* Report
LEMMA ReportIs ==
    ASSUME NEW t, DOMAIN t = Fields, NEW about, NEW u, u = Report(t, about)
    PROVE  /\ SameHandling(t, u) /\ SameInstructions(t, u)
           /\ u.streams = t.streams
           /\ \A s \in Stream : u.reported[s] = IF s \in about THEN StreamState(u, s)
                                                ELSE t.reported[s]
<1> DEFINE r == [s \in Stream |-> IF s \in about THEN StreamState(t, s)
                                  ELSE t.reported[s]]
<1>1. /\ SameHandling(t, u) /\ SameInstructions(t, u)
      /\ u.streams = t.streams
      /\ u.reported = r
  BY DEF Report, Fields, SameHandling, SameInstructions
<1>2. \A s : StreamState(u, s) = StreamState(t, s)
  BY <1>1 DEF StreamState
<1> QED BY <1>1, <1>2

\* Complete
LEMMA CompleteIs ==
    ASSUME NEW t, Sound(t), NEW h, NEW u, u = Complete(t, h),
           NEW s, s = h.instruction.stream
    PROVE  /\ SameHandling(t, u) /\ SameInstructions(t, u)
           /\ ~ h.instruction.expected => u = t
           /\ h.instruction.expected =>
                 /\ DOMAIN u.streams = DOMAIN t.streams
                 /\ OnlyStream(t.streams, u.streams, s)
                 /\ s \in DOMAIN t.streams =>
                       u.streams[s] = [neighbors |-> t.streams[s].neighbors,
                                       counter   |-> h.instruction.counter]
                 /\ ~ h.reattempt =>
                       \A q \in Stream : u.reported[q] = IF q = s THEN StreamState(u, q)
                                                         ELSE t.reported[q]
<1> DEFINE i == h.instruction
           after == [neighbors |-> t.streams[s].neighbors, counter |-> i.counter]
           streams1 == With(t.streams, s, after)
           v == IF s \in DOMAIN t.streams THEN [t EXCEPT !.streams = streams1] ELSE t
<1>1. /\ ~ i.expected => u = t
      /\ i.expected => u = v \/ u = Report(v, {s})
      /\ i.expected /\ ~ h.reattempt => u = Report(v, {s})
  <2> HIDE DEF streams1
  <2> QED BY DEF Complete, streams1
<1>2. s \in DOMAIN t.streams =>
         /\ DOMAIN streams1 = DOMAIN t.streams
         /\ \A q \in DOMAIN t.streams : q # s => streams1[q] = t.streams[q]
         /\ streams1[s] = after
  BY DEF With
<1> HIDE DEF streams1
<1>3. /\ DOMAIN v = Fields
      /\ SameHandling(t, v) /\ SameInstructions(t, v)
      /\ v.reported = t.reported
      /\ v.streams = IF s \in DOMAIN t.streams THEN streams1 ELSE t.streams
  BY DEF Sound, Fields, SameHandling, SameInstructions
<1> HIDE DEF v, after
<1>4. /\ DOMAIN v.streams = DOMAIN t.streams
      /\ OnlyStream(t.streams, v.streams, s)
      /\ s \in DOMAIN t.streams => v.streams[s] = after
  BY <1>2, <1>3 DEF OnlyStream
<1>5. CASE i.expected /\ u = v /\ h.reattempt
  BY <1>3, <1>4, <1>5 DEF after
<1>6. CASE i.expected /\ u = Report(v, {s})
  <2>1. /\ SameHandling(v, u) /\ SameInstructions(v, u)
        /\ u.streams = v.streams
        /\ \A q \in Stream : u.reported[q] = IF q \in {s} THEN StreamState(u, q)
                                             ELSE v.reported[q]
    BY <1>3, <1>6, ReportIs
  <2>2. SameHandling(t, u) /\ SameInstructions(t, u)
    BY <1>3, <2>1 DEF SameHandling, SameInstructions
  <2> QED BY <1>3, <1>4, <1>6, <2>1, <2>2 DEF after
<1>7. CASE ~ i.expected
  BY <1>1, <1>7 DEF SameHandling, SameInstructions
<1> QED BY <1>1, <1>5, <1>6, <1>7

\* Disconnected
LEMMA DisconnectedIs ==
    ASSUME NEW t, Sound(t), NEW m, NEW u, u = Disconnected(t, m)
    PROVE  /\ SameInstructions(t, u) /\ SameCalls(t, u)
           /\ DOMAIN u.streams = DOMAIN t.streams
           /\ \A s \in DOMAIN t.streams :
                 u.streams[s] = [neighbors |-> t.streams[s].neighbors \ {m},
                                 counter   |-> t.streams[s].counter]
           /\ \/ u.reported = t.reported /\ ~ Present(t.streams, m)
              \/ \A s \in Stream : u.reported[s] = StreamState(u, s)
<1> DEFINE connection1 == [t.connection EXCEPT ![m] = "none"]
           handlers1 == [k \in DOMAIN t.handlers |->
                    LET h == t.handlers[k]
                    IN  [h EXCEPT !.pending = h.pending \ {m},
                                  !.failed = h.failed \/ m \in h.pending]]
           streams1 == [s \in DOMAIN t.streams |->
                    [neighbors |-> t.streams[s].neighbors \ {m},
                     counter   |-> t.streams[s].counter]]
           v == [t EXCEPT !.connection = connection1,
                          !.handlers = handlers1,
                          !.streams = streams1]
<1>1. /\ DOMAIN handlers1 = DOMAIN t.handlers
      /\ \A k \in DOMAIN t.handlers :
            /\ handlers1[k].instruction = t.handlers[k].instruction
            /\ handlers1[k].caller = t.handlers[k].caller
            /\ handlers1[k].cancelled = t.handlers[k].cancelled
            /\ handlers1[k].reattempt = t.handlers[k].reattempt
            /\ handlers1[k].pending \subseteq t.handlers[k].pending
  BY DEF Sound, Known, IsHandler
<1>2. u = IF Present(t.streams, m) THEN Report(v, Stream) ELSE v
  BY DEF Disconnected
<1> HIDE DEF connection1, handlers1
<1>3. /\ DOMAIN v = Fields
      /\ v.streams = streams1 /\ v.handlers = handlers1
      /\ SameInstructions(t, v)
      /\ v.reported = t.reported
  <2> HIDE DEF streams1
  <2> QED BY DEF Sound, Fields, SameInstructions
<1> HIDE DEF v
<1>4. CASE ~ Present(t.streams, m)
  <2>1. u = v
    BY <1>2, <1>4
  <2>2. SameCalls(t, v)
    BY <1>1, <1>3 DEF SameCalls
  <2> QED BY <1>3, <1>4, <2>1, <2>2
<1>5. CASE Present(t.streams, m)
  <2>1. /\ SameHandling(v, u) /\ SameInstructions(v, u)
        /\ u.streams = v.streams
        /\ \A s \in Stream : u.reported[s] = IF s \in Stream THEN StreamState(u, s)
                                             ELSE v.reported[s]
    BY <1>2, <1>3, <1>5, ReportIs
  <2> QED BY <1>1, <1>3, <2>1 DEF SameHandling, SameInstructions, SameCalls
<1> QED BY <1>4, <1>5

\* Rearm
LEMMA RearmIs ==
    ASSUME NEW t, Sound(t), NEW i, NEW u, u = Rearm(t, i)
    PROVE  /\ SameHandling(t, u) /\ SameInstructions(t, u)
           /\ u.streams = t.streams /\ u.reported = t.reported
<1>1. \E r : u = [t EXCEPT !.retries = r] \/ u = t
  BY DEF Rearm
<1> QED BY <1>1 DEF Sound, Fields, SameHandling, SameInstructions

-----------------------------------------------------------------------------
\* What steps lead to.  The call k has finished, and its caller goes on from t.
Ended(k, t) ==
    LET i == handlers[k].instruction
    IN  /\ Sound(t) /\ Free(t)
        /\ SameInstructions(State, t)
        /\ DOMAIN t.handlers = DOMAIN handlers \ {k}
        /\ \A j \in DOMAIN t.handlers : t.handlers[j] = handlers[j]
        /\ ~ i.expected => t.streams = streams /\ t.reported = reported
        /\ i.expected =>
              /\ DOMAIN t.streams = DOMAIN streams
              /\ OnlyStream(streams, t.streams, i.stream)
              /\ i.stream \in DOMAIN streams =>
                    t.streams[i.stream] = [neighbors |-> streams[i.stream].neighbors,
                                           counter   |-> i.counter]
              /\ ~ handlers[k].reattempt =>
                    \A q \in Stream : t.reported[q] = IF q = i.stream
                                                      THEN StreamState(t, q)
                                                      ELSE reported[q]

\* HandlerEnds
LEMMA HandlerEndsIs ==
    ASSUME IInv, NEW k \in 1 .. MaxHandlers, HandlerEnds(k)
    PROVE  /\ k \in DOMAIN handlers
           /\ \E t : /\ Ended(k, t)
                     /\ \/ /\ handlers[k].caller = "throttler" /\ ~ handlers[k].cancelled
                           /\ Becomes(InvokeHandleFnWithLock(t, handlers[k].instruction.stream))
                        \/ /\ handlers[k].caller = "throttler" /\ handlers[k].cancelled
                           /\ Becomes(t)
                        \/ /\ handlers[k].caller # "throttler"
                           /\ Becomes(Rearm(t, handlers[k].instruction))
<1> DEFINE h == handlers[k]
           s == h.instruction.stream
           t0 == [State EXCEPT !.handlers = Without(handlers, k)]
           t == Complete(t0, h)
<1>1. /\ k \in DOMAIN handlers
      /\ Becomes(CASE h.caller = "throttler" /\ ~ h.cancelled -> InvokeHandleFnWithLock(t, s)
                   [] h.caller = "throttler" /\ h.cancelled -> t
                   [] OTHER -> Rearm(t, h.instruction))
  BY DEF HandlerEnds
<1>2. /\ DOMAIN t0 = Fields
      /\ t0.streams = streams /\ t0.connection = connection /\ t0.timers = timers
      /\ t0.queue = queue /\ t0.handling = handling /\ t0.retries = retries
      /\ t0.accepted = accepted /\ t0.reported = reported
      /\ DOMAIN t0.handlers = DOMAIN handlers \ {k}
      /\ \A j \in DOMAIN t0.handlers : t0.handlers[j] = handlers[j]
  BY DEF State, Fields, Without, Restrict
<1> HIDE DEF t0
<1>3. Sound(t0)
  BY <1>2, StateIsRecord DEF IInv, Sound, Links, Known
<1> HIDE DEF t
<1>4. Sound(t)
  BY <1>3, CompleteKeeps DEF t
<1>5. /\ SameHandling(t0, t) /\ SameInstructions(t0, t)
      /\ ~ h.instruction.expected => t = t0
      /\ h.instruction.expected =>
            /\ DOMAIN t.streams = DOMAIN t0.streams
            /\ OnlyStream(t0.streams, t.streams, s)
            /\ s \in DOMAIN t0.streams =>
                  t.streams[s] = [neighbors |-> t0.streams[s].neighbors,
                                  counter   |-> h.instruction.counter]
            /\ ~ h.reattempt =>
                  \A q \in Stream : t.reported[q] = IF q = s THEN StreamState(t, q)
                                                    ELSE t0.reported[q]
  BY <1>3, CompleteIs DEF t
<1>6. Free(t)
  BY <1>2, <1>5 DEF SameHandling, Free
<1>7. Ended(k, t)
  BY <1>2, <1>4, <1>5, <1>6, StateIsRecord DEF Ended, SameHandling, SameInstructions
<1> HIDE DEF h, s
<1>8. \/ /\ h.caller = "throttler" /\ ~ h.cancelled
         /\ Becomes(InvokeHandleFnWithLock(t, s))
      \/ /\ h.caller = "throttler" /\ h.cancelled
         /\ Becomes(t)
      \/ /\ h.caller # "throttler"
         /\ Becomes(Rearm(t, h.instruction))
  BY <1>1
<1> QED BY <1>1, <1>7, <1>8 DEF h, s

\* The instruction i has been put into the queue.
Queued(i, t) ==
    /\ Sound(t) /\ Free(t)
    /\ t.accepted = With(accepted, i.stream, i)
    /\ t.queue = With(queue, i.stream, i)
    /\ t.handling = handling
    /\ t.handlers = handlers
    /\ t.streams = streams
    /\ t.reported = reported

\* InstructionReceived
LEMMA InstructionReceivedIs ==
    ASSUME IInv, NEW i \in Instruction, InstructionReceived(i)
    PROVE  \E t : /\ Queued(i, t)
                  /\ IF i.stream \in handling THEN Becomes(t)
                     ELSE Becomes(InvokeHandleFnWithLock(t, i.stream))
<1> DEFINE s == i.stream
           t == [State EXCEPT !.accepted = With(accepted, s, i),
                              !.queue = With(queue, s, i)]
<1>1. /\ SlotFree
      /\ Becomes(IF s \in handling THEN t ELSE InvokeHandleFnWithLock(t, s))
  BY DEF InstructionReceived
<1>2. /\ DOMAIN t = Fields
      /\ t.streams = streams /\ t.connection = connection /\ t.timers = timers
      /\ t.queue = With(queue, s, i) /\ t.handling = handling
      /\ t.handlers = handlers /\ t.retries = retries
      /\ t.accepted = With(accepted, s, i) /\ t.reported = reported
  BY DEF State, Fields
<1> HIDE DEF t
<1>3. Sound(t)
  BY <1>2, StateIsRecord DEF IInv, Sound, Links, Known, With
<1>4. Free(t)
  BY <1>1, <1>2, SlotFreeMeans, StateIsRecord DEF Free
<1>5. Queued(i, t)
  BY <1>2, <1>3, <1>4 DEF Queued
<1>6. IF i.stream \in handling THEN Becomes(t)
      ELSE Becomes(InvokeHandleFnWithLock(t, i.stream))
  BY <1>1
<1> QED BY <1>5, <1>6

\* RetryFires
LEMMA RetryFiresIs ==
    ASSUME IInv, NEW s, RetryFires(s)
    PROVE  \E u, i, reattempt : /\ Started(State, u, i, "retry", reattempt)
                                /\ SameInstructions(State, u)
                                /\ Becomes(u)
<1>1. Sound(State) /\ Free(State)
  BY SlotFreeMeans DEF RetryFires, IInv
<1>2. PICK u, i, caller, reattempt : /\ u = Begin(State, i, caller, reattempt)
                                     /\ caller = "retry"
                                     /\ Becomes(u)
  BY DEF RetryFires
<1>3. SameInstructions(State, u) /\ Started(State, u, i, caller, reattempt)
  BY <1>1, <1>2, BeginIs
<1> QED BY <1>2, <1>3

\* What happens to the neighbors of a node when m is gone: the tracker hears of
\* all streams if m was a neighbor in any.
Lost(m) ==
    /\ DOMAIN streams' = DOMAIN streams
    /\ \A s \in DOMAIN streams :
          streams'[s] = [neighbors |-> streams[s].neighbors \ {m},
                         counter   |-> streams[s].counter]
    /\ \/ reported' = reported /\ ~ Present(streams, m)
       \/ \A s \in Stream : reported'[s] = StreamState(State', s)

\* ConnectionCloses, LinkComes, DisconnectionTimerFires
LEMMA LinkStepsAre ==
    ASSUME IInv, NEW m \in Peer,
           ConnectionCloses(m) \/ LinkComes(m) \/ DisconnectionTimerFires(m)
    PROVE  /\ SameInstructions(State, State') /\ SameCalls(State, State')
           /\ UNCHANGED <<streams, reported>> \/ Lost(m)
<1>1. ASSUME NEW t, Sound(t), NEW u, u = Disconnected(t, m), Becomes(u),
             t.streams = streams, t.reported = reported, t.handlers = handlers,
             SameInstructions(State, t)
      PROVE  SameInstructions(State, State') /\ SameCalls(State, State') /\ Lost(m)
  <2>1. /\ SameInstructions(t, u) /\ SameCalls(t, u)
        /\ DOMAIN u.streams = DOMAIN t.streams
        /\ \A s \in DOMAIN t.streams :
              u.streams[s] = [neighbors |-> t.streams[s].neighbors \ {m},
                              counter   |-> t.streams[s].counter]
        /\ \/ u.reported = t.reported /\ ~ Present(t.streams, m)
           \/ \A s \in Stream : u.reported[s] = StreamState(u, s)
    BY <1>1, DisconnectedIs
  <2>2. /\ State'.streams = u.streams /\ State'.reported = u.reported
        /\ State'.handlers = u.handlers /\ State'.accepted = u.accepted
        /\ State'.queue = u.queue /\ State'.handling = u.handling
    BY <1>1, NextStateIsRecord DEF Becomes
  <2>3. \A s : StreamState(u, s) = StreamState(State', s)
    BY <2>2 DEF StreamState
  <2>4. SameInstructions(State, State') /\ SameCalls(State, State')
    BY <1>1, <2>1, <2>2, StateIsRecord DEF SameInstructions, SameCalls
  <2>5. Lost(m)
    BY <1>1, <2>1, <2>2, <2>3, NextStateIsRecord DEF Lost
  <2> QED BY <2>4, <2>5
<1>2. CASE ConnectionCloses(m)
  BY <1>1, <1>2, StateIsRecord DEF ConnectionCloses, IInv, SameInstructions
<1>3. CASE LinkComes(m)
  BY <1>3, StateIsRecord, NextStateIsRecord
     DEF LinkComes, PeerConnects, PeerConnectionConnects, SameInstructions, SameCalls
<1>4. CASE DisconnectionTimerFires(m)
  <2> DEFINE t == [State EXCEPT !.timers = timers \ {m}]
  <2>1. Becomes(t) \/ Becomes(Disconnected(t, m))
    BY <1>4 DEF DisconnectionTimerFires
  <2>2. /\ DOMAIN t = Fields
        /\ t.streams = streams /\ t.connection = connection
        /\ t.timers = timers \ {m} /\ t.queue = queue /\ t.handling = handling
        /\ t.handlers = handlers /\ t.retries = retries
        /\ t.accepted = accepted /\ t.reported = reported
    BY DEF State, Fields
  <2> HIDE DEF t
  <2>3. Sound(t)
    BY <2>2, StateIsRecord DEF IInv, Sound, Links, Known
  <2>4. SameInstructions(State, t)
    BY <2>2, StateIsRecord DEF SameInstructions
  <2>5. CASE Becomes(t)
    BY <2>2, <2>5, StateIsRecord, NextStateIsRecord
       DEF Becomes, SameInstructions, SameCalls
  <2>6. CASE Becomes(Disconnected(t, m))
    BY <1>1, <2>2, <2>3, <2>4, <2>6
  <2> QED BY <2>1, <2>5, <2>6
<1> QED BY <1>2, <1>3, <1>4

\* ConnectTimesOut, ConnectionOpens
LEMMA CallsGoOn ==
    ASSUME IInv, NEW k, NEW m, ConnectTimesOut(k, m) \/ ConnectionOpens(m)
    PROVE  SameInstructions(State, State') /\ SameCalls(State, State')
<1>1. \A j \in DOMAIN handlers : IsHandler(handlers[j])
  BY StateIsRecord DEF IInv, Sound, Known
<1>2. CASE ConnectTimesOut(k, m)
  <2>1. /\ k \in DOMAIN handlers
        /\ handlers' = [handlers EXCEPT ![k].pending = @ \ {m}, ![k].failed = TRUE]
        /\ UNCHANGED <<accepted, queue, handling>>
    BY <1>2 DEF ConnectTimesOut
  <2>2. /\ DOMAIN handlers' = DOMAIN handlers
        /\ \A j \in DOMAIN handlers :
              /\ handlers'[j].instruction = handlers[j].instruction
              /\ handlers'[j].caller = handlers[j].caller
              /\ handlers'[j].cancelled = handlers[j].cancelled
              /\ handlers'[j].reattempt = handlers[j].reattempt
    BY <1>1, <2>1 DEF IsHandler
  <2>3. \A j \in DOMAIN handlers : j # k => handlers'[j] = handlers[j]
    BY <2>1
  <2>4. handlers'[k].pending = handlers[k].pending \ {m}
    BY <1>1, <2>1 DEF IsHandler
  <2>5. \A j \in DOMAIN handlers : handlers'[j].pending \subseteq handlers[j].pending
    BY <2>3, <2>4
  <2> QED BY <2>1, <2>2, <2>5, StateIsRecord, NextStateIsRecord
          DEF SameInstructions, SameCalls
<1>3. CASE ConnectionOpens(m)
  <2> DEFINE waiting == {j \in DOMAIN handlers : m \in handlers[j].pending}
  <2>1. /\ handlers' = [j \in DOMAIN handlers |->
             IF j \in waiting
             THEN [handlers[j] EXCEPT
                     !.pending = @ \ {m},
                     !.failed = @ \/ handlers[j].instruction.stream \notin DOMAIN streams]
             ELSE handlers[j]]
        /\ UNCHANGED <<accepted, queue, handling>>
    BY <1>3 DEF ConnectionOpens
  <2> HIDE DEF waiting
  <2>2. /\ DOMAIN handlers' = DOMAIN handlers
        /\ \A j \in DOMAIN handlers :
              /\ handlers'[j].instruction = handlers[j].instruction
              /\ handlers'[j].caller = handlers[j].caller
              /\ handlers'[j].cancelled = handlers[j].cancelled
              /\ handlers'[j].reattempt = handlers[j].reattempt
              /\ handlers'[j].pending \subseteq handlers[j].pending
    BY <1>1, <2>1 DEF IsHandler
  <2>3. SameInstructions(State, State')
    BY <2>1, StateIsRecord, NextStateIsRecord DEF SameInstructions
  <2>4. State.handlers = handlers /\ State'.handlers = handlers'
    BY StateIsRecord, NextStateIsRecord
  <2>5. SameCalls(State, State')
    BY <2>2, <2>4 DEF SameCalls
  <2> QED BY <2>3, <2>5
<1> QED BY <1>2, <1>3

-----------------------------------------------------------------------------
(***************************************************************************)
(* One handler at a time                                                   *)
(***************************************************************************)
\* While calls and locks go on, so does the lock's order.
LEMMA LockedGoesOn ==
    ASSUME NEW t, NEW u, Locked(t), SameCalls(t, u), u.handling = t.handling
    PROVE  Locked(u)
BY DEF Locked, SameCalls, Serves

\* The throttler looks at its queue when it has no handler for s.
LEMMA InvokeKeepsLocked ==
    ASSUME NEW t, Sound(t), Free(t), Locked(t), NEW s,
           \A k \in DOMAIN t.handlers : ~ Serves(t.handlers[k], s)
    PROVE  Locked(InvokeHandleFnWithLock(t, s))
<1> DEFINE u == InvokeHandleFnWithLock(t, s)
<1>1. \/ /\ u.handling = t.handling \ {s}
         /\ u.handlers = t.handlers
      \/ /\ s \in DOMAIN t.queue
         /\ u.handling = t.handling \cup {s}
         /\ Called(t.handlers, u.handlers, t.queue[s], "throttler", FALSE)
  <2>1. Invoked(t, u, s)
    BY InvokeIs
  <2> QED BY <2>1, Zenon DEF Invoked, Started
<1> HIDE DEF u
<1>2. CASE u.handling = t.handling \ {s} /\ u.handlers = t.handlers
  BY <1>2 DEF Locked, Serves, u
<1>3. CASE /\ s \in DOMAIN t.queue
           /\ u.handling = t.handling \cup {s}
           /\ Called(t.handlers, u.handlers, t.queue[s], "throttler", FALSE)
  <2>1. PICK k : /\ k \notin DOMAIN t.handlers
                 /\ DOMAIN u.handlers = DOMAIN t.handlers \cup {k}
                 /\ \A j \in DOMAIN t.handlers : u.handlers[j] = t.handlers[j]
                 /\ u.handlers[k].instruction = t.queue[s]
                 /\ ~ u.handlers[k].cancelled
    BY <1>3 DEF Called, Fresh
  <2>2. u.handlers[k].instruction.stream = s
    BY <1>3, <2>1 DEF Sound, Known
  <2>3. Locked(u)
    BY <1>3, <2>1, <2>2 DEF Locked, Serves
  <2> QED BY <2>3 DEF u
<1> QED BY <1>1, <1>2, <1>3

\* As long as nobody unsubscribes, every step keeps the order of the locks.
LEMMA NextKeepsLocked ==
    ASSUME NeverUnsubscribes, IInv, Locked(State), [Next]_vars
    PROVE  Locked(State')
<1>1. ASSUME NEW t, Locked(t), Becomes(t) PROVE Locked(State')
  BY <1>1, NextStateIsRecord DEF Becomes, Locked
<1>2. CASE UNCHANGED vars
  <2>1. State' = State
    BY <1>2 DEF vars, State
  <2> QED BY <2>1
<1>3. ASSUME NEW k \in 1 .. MaxHandlers, HandlerEnds(k) PROVE Locked(State')
  <2> DEFINE h == handlers[k]
             s == h.instruction.stream
  <2>1. PICK t : /\ Ended(k, t)
                 /\ \/ /\ h.caller = "throttler" /\ ~ h.cancelled
                       /\ Becomes(InvokeHandleFnWithLock(t, s))
                    \/ /\ h.caller = "throttler" /\ h.cancelled
                       /\ Becomes(t)
                    \/ /\ h.caller # "throttler"
                       /\ Becomes(Rearm(t, h.instruction))
    BY <1>3, HandlerEndsIs
  <2>2. k \in DOMAIN handlers
    BY <1>3, HandlerEndsIs
  <2>3. /\ Sound(t) /\ Free(t)
        /\ t.handling = handling
        /\ DOMAIN t.handlers = DOMAIN handlers \ {k}
        /\ \A j \in DOMAIN t.handlers : t.handlers[j] = handlers[j]
    BY <2>1, StateIsRecord DEF Ended, SameInstructions
  <2>4. Locked(t)
    BY <2>3, StateIsRecord DEF Locked, Serves
  <2>5. h.caller = "throttler" =>
           \A j \in DOMAIN t.handlers : ~ Serves(t.handlers[j], s)
    BY <2>2, <2>3, StateIsRecord DEF Locked
  <2>6. Locked(Rearm(t, h.instruction))
    <3>1. SameHandling(t, Rearm(t, h.instruction))
      BY <2>3, RearmIs
    <3> QED BY <2>4, <3>1 DEF SameHandling, Locked, Serves
  <2> HIDE DEF h, s
  <2> QED BY <1>1, <2>1, <2>3, <2>4, <2>5, <2>6, InvokeKeepsLocked
<1>4. ASSUME NEW i \in Instruction, InstructionReceived(i) PROVE Locked(State')
  <2>1. PICK t : /\ Queued(i, t)
                 /\ IF i.stream \in handling THEN Becomes(t)
                    ELSE Becomes(InvokeHandleFnWithLock(t, i.stream))
    BY <1>4, InstructionReceivedIs
  <2>2. Sound(t) /\ Free(t) /\ t.handling = handling /\ t.handlers = handlers
    BY <2>1 DEF Queued
  <2>3. Locked(t)
    BY <2>2, StateIsRecord DEF Locked, Serves
  <2>4. i.stream \notin handling =>
           \A j \in DOMAIN t.handlers : ~ Serves(t.handlers[j], i.stream)
    BY <2>2, StateIsRecord DEF Locked, Serves
  <2> QED BY <1>1, <2>1, <2>2, <2>3, <2>4, InvokeKeepsLocked
<1>5. ASSUME NEW s, Subscribe(s) PROVE Locked(State')
  <2> DEFINE t == [State EXCEPT !.streams = With(streams, s, NewStream)]
             u == Report(t, {s})
  <2>1. /\ DOMAIN t = Fields
        /\ t.handling = handling /\ t.handlers = handlers
    BY DEF State, Fields
  <2>2. Becomes(u)
    BY <1>5 DEF Subscribe
  <2> HIDE DEF t
  <2>3. SameHandling(t, u)
    BY <2>1, ReportIs
  <2>4. Locked(u)
    BY <2>1, <2>3, StateIsRecord DEF SameHandling, Locked, Serves
  <2> QED BY <1>1, <2>2, <2>4
<1>6. ASSUME NEW s PROVE ~ Unsubscribe(s)
  BY DEF NeverUnsubscribes, Unsubscribe, Quiet
<1>7. ASSUME NEW s, RetryFires(s) PROVE Locked(State')
  <2>1. PICK u, i, reattempt : /\ Started(State, u, i, "retry", reattempt)
                               /\ SameInstructions(State, u)
                               /\ Becomes(u)
    BY <1>7, RetryFiresIs
  <2>2. PICK k : /\ k \notin DOMAIN handlers
                 /\ DOMAIN u.handlers = DOMAIN handlers \cup {k}
                 /\ \A j \in DOMAIN handlers : u.handlers[j] = handlers[j]
                 /\ u.handlers[k].caller = "retry"
    BY <2>1, StateIsRecord DEF Started, Called, Fresh
  <2>3. u.handling = handling
    BY <2>1, StateIsRecord DEF SameInstructions
  <2>4. Locked(u)
    BY <2>2, <2>3, StateIsRecord DEF Locked, Serves
  <2> QED BY <1>1, <2>1, <2>4
<1>8. ASSUME NEW k, NEW m, ConnectTimesOut(k, m) \/ ConnectionOpens(m)
      PROVE  Locked(State')
  BY <1>8, CallsGoOn, LockedGoesOn DEF SameInstructions
<1>9. ASSUME NEW m \in Peer,
             ConnectionCloses(m) \/ LinkComes(m) \/ DisconnectionTimerFires(m)
      PROVE  Locked(State')
  BY <1>9, LinkStepsAre, LockedGoesOn DEF SameInstructions
<1> QED BY <1>2, <1>3, <1>4, <1>5, <1>6, <1>7, <1>8, <1>9 DEF Next, LinkComes

\* The throttler handles one instruction of a stream at a time, whatever arrives
\* while one is handled and whatever is retried beside it, as long as the user does
\* not unsubscribe: that makes it forget the handler it waits for.
THEOREM AlwaysOneAtATime == NeverUnsubscribes => (Spec => []OneAtATime)
<1> SUFFICES ASSUME NeverUnsubscribes PROVE Spec => []OneAtATime
  OBVIOUS
<1>1. Init => Locked(State)
  BY StateIsRecord DEF Init, Locked
<1>2. IInv /\ Locked(State) /\ [Next]_vars => Locked(State')
  BY NextKeepsLocked
<1>3. IInv /\ Locked(State) => OneAtATime
  <2> SUFFICES ASSUME Locked(State), NEW s \in Stream
               PROVE  Cardinality(HandlersOf(s, "throttler")) <= 1
    BY DEF OneAtATime
  <2>1. \A j, k \in HandlersOf(s, "throttler") : j = k
    BY StateIsRecord DEF HandlersOf, Locked, Serves
  <2>2. CASE HandlersOf(s, "throttler") = {}
    BY <2>2, FS_EmptySet
  <2>3. CASE HandlersOf(s, "throttler") # {}
    <3>1. PICK k : HandlersOf(s, "throttler") = {k}
      BY <2>1, <2>3
    <3>2. Cardinality({k}) = 1
      BY FS_Singleton
    <3> QED BY <3>1, <3>2
  <2> QED BY <2>2, <2>3
<1>4. Spec => [](IInv /\ Locked(State))
  <2>1. (Locked(State))' <=> Locked(State')
    OBVIOUS
  <2> QED BY <1>1, <1>2, <2>1, NodeInvariant, PTL DEF Spec
<1> QED BY <1>3, <1>4, PTL

-----------------------------------------------------------------------------
(***************************************************************************)
(* What the tracker is told                                                *)
(***************************************************************************)
\* Streams in which nothing changes stay known to the tracker.
LEMMA StillTold ==
    ASSUME NEW t, NEW u, NEW s, Told(t, s),
           u.reported[s] = t.reported[s],
           s \in DOMAIN t.streams <=> s \in DOMAIN u.streams,
           s \in DOMAIN t.streams => u.streams[s] = t.streams[s],
           \A k \in DOMAIN t.handlers :
              /\ k \in DOMAIN u.handlers
              /\ u.handlers[k].instruction = t.handlers[k].instruction
    PROVE  Told(u, s)
BY DEF Told, StreamState

\* The throttler looks at its queue.
LEMMA InvokeKeepsTelling ==
    ASSUME NEW t, Sound(t), Free(t), Telling(t), NEW s
    PROVE  Telling(InvokeHandleFnWithLock(t, s))
<1> DEFINE u == InvokeHandleFnWithLock(t, s)
<1>1. Invoked(t, u, s)
  BY InvokeIs
<1> HIDE DEF u
<1>2. CASE u.handlers = t.handlers /\ u.streams = t.streams
  <2>1. u.reported = t.reported
    BY <1>1 DEF Invoked
  <2> QED BY <1>2, <2>1 DEF Telling, Told, StreamState, u
<1>3. CASE s \in DOMAIN t.queue /\ Started(t, u, t.queue[s], "throttler", FALSE)
  <2> DEFINE i == t.queue[s]
  <2>1. i.stream = s
    BY <1>3 DEF Sound, Known
  <2> HIDE DEF i
  <2>2. PICK k : /\ k \notin DOMAIN t.handlers
                 /\ DOMAIN u.handlers = DOMAIN t.handlers \cup {k}
                 /\ \A j \in DOMAIN t.handlers : u.handlers[j] = t.handlers[j]
                 /\ u.handlers[k].instruction = i
                 /\ Tells(u.handlers[k])
    BY <1>3, Zenon DEF Started, Called, Fresh, Tells, i
  <2>3. /\ ~ i.expected => u.streams = t.streams
        /\ i.expected => /\ OnlyStream(t.streams, u.streams, s)
                         /\ s \in DOMAIN u.streams
                         /\ IsStream(u.streams[s])
    BY <1>3, <2>1 DEF Started, SetUp, i
  <2>4. u.reported = t.reported
    BY <1>1 DEF Invoked
  <2>5. \A q \in DOMAIN u.streams : IsStream(u.streams[q])
    BY <2>3 DEF Telling, OnlyStream
  <2>6. \A j \in DOMAIN u.handlers : Tells(u.handlers[j])
    BY <2>2 DEF Telling
  <2>7. ASSUME NEW q \in Stream PROVE Told(u, q)
    <3>1. CASE i.expected /\ q = s
      BY <2>1, <2>2, <3>1 DEF Told
    <3>2. CASE ~ i.expected \/ q # s
      <4>1. /\ q \in DOMAIN t.streams <=> q \in DOMAIN u.streams
            /\ q \in DOMAIN t.streams => u.streams[q] = t.streams[q]
        BY <2>3, <3>2 DEF OnlyStream
      <4>2. Told(t, q)
        BY DEF Telling
      <4> QED BY <2>2, <2>4, <4>1, <4>2, StillTold
    <3> QED BY <3>1, <3>2
  <2> QED BY <2>5, <2>6, <2>7 DEF Telling, u
<1> QED BY <1>1, <1>2, <1>3, Zenon DEF Invoked

\* A handler that ends has told of what it did.
LEMMA EndedKeepsTelling ==
    ASSUME IInv, Telling(State), NEW k \in DOMAIN handlers, NEW t, Ended(k, t)
    PROVE  Telling(t)
<1> DEFINE h == handlers[k]
           i == h.instruction
           s == i.stream
<1>1. /\ DOMAIN t.handlers = DOMAIN handlers \ {k}
      /\ \A j \in DOMAIN t.handlers : t.handlers[j] = handlers[j]
      /\ ~ i.expected => t.streams = streams /\ t.reported = reported
      /\ i.expected =>
            /\ DOMAIN t.streams = DOMAIN streams
            /\ OnlyStream(streams, t.streams, s)
            /\ s \in DOMAIN streams =>
                  t.streams[s] = [neighbors |-> streams[s].neighbors,
                                  counter   |-> i.counter]
            /\ ~ h.reattempt =>
                  \A q \in Stream : t.reported[q] = IF q = s
                                                    THEN StreamState(t, q)
                                                    ELSE reported[q]
  BY DEF Ended
<1>2. ~ h.reattempt
  BY StateIsRecord DEF Telling, Tells
<1>3. \A j \in DOMAIN t.handlers : Tells(t.handlers[j])
  BY <1>1, StateIsRecord DEF Telling
<1> HIDE DEF h, i, s
<1>4. \A q \in DOMAIN t.streams : IsStream(t.streams[q])
  <2>1. \A q \in DOMAIN streams : IsStream(streams[q])
    BY StateIsRecord DEF Telling
  <2>2. ASSUME NEW x, NEW y PROVE IsStream([neighbors |-> x, counter |-> y])
    BY DEF IsStream
  <2>3. CASE ~ i.expected
    BY <1>1, <2>1, <2>3
  <2>4. CASE i.expected
    BY <1>1, <2>1, <2>2, <2>4 DEF OnlyStream
  <2> QED BY <2>3, <2>4
<1>5. ASSUME NEW q \in Stream PROVE Told(t, q)
  <2>1. CASE i.expected /\ q = s
    BY <1>1, <1>2, <2>1 DEF Told
  <2>2. CASE ~ i.expected \/ q # s
    <3>1. /\ t.reported[q] = reported[q]
          /\ q \in DOMAIN t.streams <=> q \in DOMAIN streams
          /\ q \in DOMAIN t.streams => t.streams[q] = streams[q]
      BY <1>1, <1>2, <2>2 DEF OnlyStream
    <3>2. StreamState(t, q) = StreamState(State, q)
      BY <3>1, StateIsRecord DEF StreamState
    <3>3. \/ reported[q] = StreamState(State, q)
          \/ \E j \in DOMAIN handlers : /\ handlers[j].instruction.stream = q
                                        /\ handlers[j].instruction.expected
      BY StateIsRecord DEF Telling, Told
    <3>4. ASSUME NEW j \in DOMAIN handlers, handlers[j].instruction.stream = q,
                 handlers[j].instruction.expected
          PROVE  Told(t, q)
      <4>1. j # k
        BY <2>2, <3>4 DEF h, i, s
      <4> QED BY <1>1, <3>4, <4>1 DEF Told
    <3> QED BY <3>1, <3>2, <3>3, <3>4 DEF Told
  <2> QED BY <2>1, <2>2
<1> QED BY <1>3, <1>4, <1>5 DEF Telling

\* Without a peer that was a neighbor nowhere, the streams are what they were.
LEMMA LostKeepsTelling ==
    ASSUME Telling(State), NEW m, SameCalls(State, State'), Lost(m)
    PROVE  Telling(State')
<1>1. \A s \in DOMAIN streams' : IsStream(streams'[s])
  BY DEF Lost, IsStream
<1>2. \A k \in DOMAIN handlers' : Tells(handlers'[k])
  BY StateIsRecord, NextStateIsRecord DEF Telling, Tells, SameCalls
<1>3. CASE \A s \in Stream : reported'[s] = StreamState(State', s)
  BY <1>1, <1>2, <1>3, NextStateIsRecord DEF Telling, Told
<1>4. CASE reported' = reported /\ ~ Present(streams, m)
  <2>1. ASSUME NEW s \in DOMAIN streams PROVE streams'[s] = streams[s]
    <3>1. streams[s].neighbors \ {m} = streams[s].neighbors
      BY <1>4 DEF Present
    <3>2. streams[s] = [neighbors |-> streams[s].neighbors, counter |-> streams[s].counter]
      BY StateIsRecord DEF Telling, IsStream
    <3> QED BY <3>1, <3>2 DEF Lost
  <2>2. DOMAIN streams' = DOMAIN streams
    BY DEF Lost
  <2>3. ASSUME NEW s \in Stream PROVE Told(State', s)
    <3>1. Told(State, s)
      BY DEF Telling
    <3>2. /\ State'.reported[s] = State.reported[s]
          /\ s \in DOMAIN State.streams <=> s \in DOMAIN State'.streams
          /\ s \in DOMAIN State.streams => State'.streams[s] = State.streams[s]
          /\ \A k \in DOMAIN State.handlers :
                /\ k \in DOMAIN State'.handlers
                /\ State'.handlers[k].instruction = State.handlers[k].instruction
      BY <1>4, <2>1, <2>2, StateIsRecord, NextStateIsRecord DEF SameCalls
    <3> QED BY <3>1, <3>2, StillTold
  <2> QED BY <1>1, <1>2, <2>3, NextStateIsRecord DEF Telling
<1> QED BY <1>3, <1>4 DEF Lost

\* Unsubscribe
LEMMA UnsubscribeIs ==
    ASSUME IInv, NEW s, Unsubscribe(s)
    PROVE  /\ DOMAIN handlers' = DOMAIN handlers
           /\ \A k \in DOMAIN handlers :
                 /\ handlers'[k].instruction = handlers[k].instruction
                 /\ handlers'[k].reattempt = handlers[k].reattempt
                 /\ handlers'[k].pending = handlers[k].pending
           /\ DOMAIN streams' = DOMAIN streams \ {s}
           /\ \A q \in DOMAIN streams' : streams'[q] = streams[q]
           /\ \A q \in Stream : reported'[q] = IF q = s THEN StreamState(State', q)
                                               ELSE reported[q]
<1> DEFINE t == [State EXCEPT !.streams = Without(streams, s)]
           handlers1 == [k \in DOMAIN handlers |->
               [handlers[k] EXCEPT !.cancelled = @ \/ k \in HandlersOf(s, "throttler")]]
           u == ThrottlerRemoves(t, s)
           v == RetryManagerRemoves(u, s)
           w == Report(v, {s})
<1>1. /\ DOMAIN t = Fields
      /\ t.streams = Without(streams, s) /\ t.reported = reported
      /\ t.handlers = handlers
  BY DEF State, Fields
<1>2. Becomes(w)
  BY DEF Unsubscribe
<1> HIDE DEF t
<1>3. /\ DOMAIN u = Fields
      /\ u.streams = t.streams /\ u.handlers = handlers1 /\ u.reported = reported
  <2>1. u = [t EXCEPT !.queue = Without(t.queue, s),
                      !.accepted = Without(t.accepted, s),
                      !.handling = t.handling \ {s},
                      !.handlers = handlers1]
    BY <1>1 DEF ThrottlerRemoves
  <2> HIDE DEF u, handlers1
  <2> QED BY <1>1, <2>1 DEF Fields
<1> HIDE DEF u, handlers1
<1>4. /\ DOMAIN v = Fields
      /\ v.streams = t.streams /\ v.handlers = handlers1 /\ v.reported = reported
  BY <1>3 DEF RetryManagerRemoves, Fields
<1> HIDE DEF v
<1>5. /\ SameHandling(v, w) /\ w.streams = v.streams
      /\ \A q \in Stream : w.reported[q] = IF q \in {s} THEN StreamState(w, q)
                                           ELSE v.reported[q]
  BY <1>4, ReportIs
<1> HIDE DEF w
<1>6. /\ DOMAIN handlers1 = DOMAIN handlers
      /\ \A k \in DOMAIN handlers1 :
            /\ handlers1[k].instruction = handlers[k].instruction
            /\ handlers1[k].reattempt = handlers[k].reattempt
            /\ handlers1[k].pending = handlers[k].pending
  BY StateIsRecord DEF IInv, Sound, Known, IsHandler, handlers1
<1>7. handlers' = handlers1 /\ streams' = w.streams /\ reported' = w.reported
  BY <1>2, <1>4, <1>5 DEF Becomes, SameHandling
<1>8. \A q : StreamState(w, q) = StreamState(State', q)
  BY <1>7, NextStateIsRecord DEF StreamState
<1>9. /\ DOMAIN streams' = DOMAIN streams \ {s}
      /\ \A q \in DOMAIN streams' : streams'[q] = streams[q]
  BY <1>1, <1>4, <1>5, <1>7 DEF Without, Restrict
<1> QED BY <1>4, <1>5, <1>6, <1>7, <1>8, <1>9

\* A connection adds a neighbor where a handler has yet to tell the tracker.
LEMMA OpensKeepsTelling ==
    ASSUME IInv, Telling(State), NEW m, ConnectionOpens(m)
    PROVE  Telling(State')
<1> DEFINE waiting == {k \in DOMAIN handlers : m \in handlers[k].pending}
           waitedFor == {handlers[k].instruction.stream : k \in waiting}
<1>1. /\ reported' = reported
      /\ streams' = [s \in DOMAIN streams |->
             IF s \in waitedFor
             THEN [streams[s] EXCEPT !.neighbors = @ \cup {m}]
             ELSE streams[s]]
  BY DEF ConnectionOpens
<1>2. SameCalls(State, State')
  BY CallsGoOn
<1>3. \A k \in DOMAIN handlers' : Tells(handlers'[k])
  BY <1>2, StateIsRecord, NextStateIsRecord DEF Telling, Tells, SameCalls
<1>4. \A s \in waitedFor : \E k \in DOMAIN handlers :
         handlers[k].instruction.stream = s /\ handlers[k].instruction.expected
  BY StateIsRecord DEF Telling, Tells
<1> HIDE DEF waiting, waitedFor
<1>5. ASSUME NEW s \in DOMAIN streams' PROVE IsStream(streams'[s])
  <2>1. streams[s] = [neighbors |-> streams[s].neighbors, counter |-> streams[s].counter]
    BY <1>1, StateIsRecord DEF Telling, IsStream
  <2> DEFINE x == streams[s].neighbors
             c == streams[s].counter
  <2>2. [streams[s] EXCEPT !.neighbors = @ \cup {m}] =
            [neighbors |-> x \cup {m}, counter |-> c]
    BY <2>1
  <2>3. \/ streams'[s] = [neighbors |-> x \cup {m}, counter |-> c]
        \/ streams'[s] = [neighbors |-> x, counter |-> c]
    BY <1>1, <2>1, <2>2
  <2> HIDE DEF x, c
  <2> QED BY <2>3 DEF IsStream
<1>6. ASSUME NEW s \in Stream PROVE Told(State', s)
  <2>1. CASE s \in waitedFor
    BY <1>2, <1>4, <2>1, StateIsRecord, NextStateIsRecord DEF Told, SameCalls
  <2>2. CASE s \notin waitedFor
    <3>1. Told(State, s)
      BY DEF Telling
    <3>2. /\ State'.reported[s] = State.reported[s]
          /\ s \in DOMAIN State.streams <=> s \in DOMAIN State'.streams
          /\ s \in DOMAIN State.streams => State'.streams[s] = State.streams[s]
          /\ \A k \in DOMAIN State.handlers :
                /\ k \in DOMAIN State'.handlers
                /\ State'.handlers[k].instruction = State.handlers[k].instruction
      BY <1>1, <1>2, <2>2, StateIsRecord, NextStateIsRecord DEF SameCalls
    <3> QED BY <3>1, <3>2, StillTold
  <2> QED BY <2>1, <2>2
<1> QED BY <1>3, <1>5, <1>6, NextStateIsRecord DEF Telling

\* As long as nothing is retried, every step tells the tracker or will.
LEMMA NextKeepsTelling ==
    ASSUME NeverRetries, IInv, Telling(State), [Next]_vars
    PROVE  Telling(State')
<1>1. ASSUME NEW t, Telling(t), Becomes(t) PROVE Telling(State')
  BY <1>1, NextStateIsRecord DEF Becomes, Telling, Told, StreamState
<1>2. CASE UNCHANGED vars
  <2>1. State' = State
    BY <1>2 DEF vars, State
  <2> QED BY <2>1
<1>3. ASSUME NEW k \in 1 .. MaxHandlers, HandlerEnds(k) PROVE Telling(State')
  <2> DEFINE h == handlers[k]
             s == h.instruction.stream
  <2>1. PICK t : /\ Ended(k, t)
                 /\ \/ Becomes(InvokeHandleFnWithLock(t, s))
                    \/ Becomes(t)
                    \/ Becomes(Rearm(t, h.instruction))
    BY <1>3, HandlerEndsIs
  <2>2. Telling(t)
    BY <1>3, <2>1, HandlerEndsIs, EndedKeepsTelling
  <2>3. Sound(t) /\ Free(t)
    BY <2>1 DEF Ended
  <2>4. Telling(Rearm(t, h.instruction))
    <3>1. PICK u : u = Rearm(t, h.instruction)
      OBVIOUS
    <3>2. SameHandling(t, u) /\ u.streams = t.streams /\ u.reported = t.reported
      BY <2>3, <3>1, RearmIs
    <3>3. Telling(u)
      BY <2>2, <3>2 DEF SameHandling, Telling, Told, StreamState
    <3> QED BY <3>1, <3>3
  <2> QED BY <1>1, <2>1, <2>2, <2>3, <2>4, InvokeKeepsTelling
<1>4. ASSUME NEW i \in Instruction, InstructionReceived(i) PROVE Telling(State')
  <2>1. PICK t : /\ Queued(i, t)
                 /\ IF i.stream \in handling THEN Becomes(t)
                    ELSE Becomes(InvokeHandleFnWithLock(t, i.stream))
    BY <1>4, InstructionReceivedIs
  <2>2. /\ Sound(t) /\ Free(t)
        /\ t.streams = streams /\ t.reported = reported /\ t.handlers = handlers
    BY <2>1 DEF Queued
  <2>3. Telling(t)
    BY <2>2, StateIsRecord DEF Telling, Told, StreamState
  <2> QED BY <1>1, <2>1, <2>2, <2>3, InvokeKeepsTelling
<1>5. ASSUME NEW s, Subscribe(s) PROVE Telling(State')
  <2> DEFINE t == [State EXCEPT !.streams = With(streams, s, NewStream)]
             u == Report(t, {s})
  <2>1. /\ DOMAIN t = Fields
        /\ t.streams = With(streams, s, NewStream)
        /\ t.handlers = handlers /\ t.reported = reported
    BY DEF State, Fields
  <2>2. Becomes(u)
    BY <1>5 DEF Subscribe
  <2> HIDE DEF t
  <2>3. /\ SameHandling(t, u)
        /\ u.streams = t.streams
        /\ \A q \in Stream : u.reported[q] = IF q \in {s} THEN StreamState(u, q)
                                             ELSE t.reported[q]
    BY <2>1, ReportIs
  <2> HIDE DEF u
  <2>4. /\ u.handlers = handlers
        /\ DOMAIN u.streams = DOMAIN streams \cup {s}
        /\ \A q \in DOMAIN streams : q # s => u.streams[q] = streams[q]
        /\ IsStream(u.streams[s])
    BY <2>1, <2>3 DEF SameHandling, With, NewStream, IsStream
  <2>5. \A q \in DOMAIN u.streams : IsStream(u.streams[q])
    BY <2>4, StateIsRecord DEF Telling
  <2>6. ASSUME NEW q \in Stream PROVE Told(u, q)
    <3>1. CASE q = s
      BY <2>3, <3>1 DEF Told
    <3>2. CASE q # s
      <4>1. Told(State, q)
        BY DEF Telling
      <4> QED BY <2>1, <2>3, <2>4, <3>2, <4>1, StillTold, StateIsRecord
    <3> QED BY <3>1, <3>2
  <2>7. Telling(u)
    BY <2>4, <2>5, <2>6, StateIsRecord DEF Telling
  <2> QED BY <1>1, <2>2, <2>7 DEF u
<1>6. ASSUME NEW s, Unsubscribe(s) PROVE Telling(State')
  <2>1. /\ DOMAIN handlers' = DOMAIN handlers
        /\ \A k \in DOMAIN handlers :
              /\ handlers'[k].instruction = handlers[k].instruction
              /\ handlers'[k].reattempt = handlers[k].reattempt
              /\ handlers'[k].pending = handlers[k].pending
        /\ DOMAIN streams' = DOMAIN streams \ {s}
        /\ \A q \in DOMAIN streams' : streams'[q] = streams[q]
        /\ \A q \in Stream : reported'[q] = IF q = s THEN StreamState(State', q)
                                            ELSE reported[q]
    BY <1>6, UnsubscribeIs
  <2>2. \A k \in DOMAIN handlers' : Tells(handlers'[k])
    BY <2>1, StateIsRecord DEF Telling, Tells
  <2>3. \A q \in DOMAIN streams' : IsStream(streams'[q])
    BY <2>1, StateIsRecord DEF Telling
  <2>4. ASSUME NEW q \in Stream PROVE Told(State', q)
    <3>1. CASE q = s
      BY <2>1, <3>1, NextStateIsRecord DEF Told
    <3>2. CASE q # s
      <4>1. Told(State, q)
        BY DEF Telling
      <4>2. /\ State'.reported[q] = State.reported[q]
            /\ q \in DOMAIN State.streams <=> q \in DOMAIN State'.streams
            /\ q \in DOMAIN State.streams => State'.streams[q] = State.streams[q]
            /\ \A k \in DOMAIN State.handlers :
                  /\ k \in DOMAIN State'.handlers
                  /\ State'.handlers[k].instruction = State.handlers[k].instruction
        BY <2>1, <3>2, StateIsRecord, NextStateIsRecord
      <4> QED BY <4>1, <4>2, StillTold
    <3> QED BY <3>1, <3>2
  <2> QED BY <2>2, <2>3, <2>4, NextStateIsRecord DEF Telling
<1>7. ASSUME NEW s PROVE ~ RetryFires(s)
  BY DEF NeverRetries, RetryFires, Quiet
<1>8. ASSUME NEW k, NEW m, ConnectTimesOut(k, m) PROVE Telling(State')
  <2>1. UNCHANGED <<streams, reported>>
    BY <1>8 DEF ConnectTimesOut
  <2>2. SameCalls(State, State')
    BY <1>8, CallsGoOn
  <2> QED BY <2>1, <2>2, StateIsRecord, NextStateIsRecord
          DEF Telling, Tells, Told, StreamState, SameCalls
<1>9. ASSUME NEW m \in Peer,
             ConnectionCloses(m) \/ LinkComes(m) \/ DisconnectionTimerFires(m)
      PROVE  Telling(State')
  <2>1. SameCalls(State, State') /\ (UNCHANGED <<streams, reported>> \/ Lost(m))
    BY <1>9, LinkStepsAre
  <2>2. CASE UNCHANGED <<streams, reported>>
    BY <2>1, <2>2, StateIsRecord, NextStateIsRecord
       DEF Telling, Tells, Told, StreamState, SameCalls
  <2> QED BY <2>1, <2>2, LostKeepsTelling
<1> QED BY <1>2, <1>3, <1>4, <1>5, <1>6, <1>7, <1>8, <1>9, OpensKeepsTelling DEF Next, LinkComes

\* When nothing is handled for a stream, the tracker was told of its neighbors as
\* they are, whoever left, came or unsubscribed while handlers ran, as long as no
\* instruction is retried: a retry without failures tells nothing.
THEOREM AlwaysReported == NeverRetries => (Spec => []ReportedIsCurrent)
<1> SUFFICES ASSUME NeverRetries PROVE Spec => []ReportedIsCurrent
  OBVIOUS
<1>1. Init => Telling(State)
  BY StateIsRecord DEF Init, Telling, Told, StreamState
<1>2. IInv /\ Telling(State) /\ [Next]_vars => Telling(State')
  BY NextKeepsTelling
<1>3. IInv /\ Telling(State) => ReportedIsCurrent
  BY StateIsRecord DEF Telling, Told, Idle, ReportedIsCurrent
<1>4. Spec => [](IInv /\ Telling(State))
  <2>1. (Telling(State))' <=> Telling(State')
    OBVIOUS
  <2> QED BY <1>1, <1>2, <2>1, NodeInvariant, PTL DEF Spec
<1> QED BY <1>3, <1>4, PTL

-----------------------------------------------------------------------------
(***************************************************************************)
(* Which neighbors a node has                                              *)
(***************************************************************************)
\* The handlers of an ordered state are the throttler's, one per stream.
LEMMA OneHandler ==
    ASSUME NEW t, Locked(t), Serving(t),
           NEW j \in DOMAIN t.handlers, NEW k \in DOMAIN t.handlers,
           t.handlers[j].instruction.stream = t.handlers[k].instruction.stream
    PROVE  j = k
BY DEF Locked, Serving, Follows, Serves

\* The throttler looks at its queue when it has no handler for s; if nothing is
\* queued, the last instruction for s has been carried out.
LEMMA InvokeKeepsServing ==
    ASSUME NEW t, Sound(t), Free(t), Serving(t), NEW s,
           \A q : q # s => Settled(t, q),
           \A k \in DOMAIN t.handlers : t.handlers[k].instruction.stream # s,
           s \in DOMAIN t.accepted /\ s \notin DOMAIN t.queue =>
              CarriedOut(t, s, t.accepted[s])
    PROVE  /\ Serving(InvokeHandleFnWithLock(t, s))
           /\ \A q : Settled(InvokeHandleFnWithLock(t, s), q)
<1> DEFINE u == InvokeHandleFnWithLock(t, s)
<1>1. Invoked(t, u, s)
  BY InvokeIs
<1>2. u.accepted = t.accepted
  BY <1>1 DEF Invoked
<1> HIDE DEF u
<1>3. CASE /\ s \notin DOMAIN t.queue
           /\ u.queue = t.queue
           /\ u.handling = t.handling \ {s}
           /\ u.handlers = t.handlers
           /\ u.streams = t.streams
  <2>1. Serving(u)
    BY <1>2, <1>3 DEF Serving, Follows
  <2>2. \A q : Settled(u, q)
    BY <1>2, <1>3 DEF Settled, CarriedOut
  <2> QED BY <2>1, <2>2 DEF u
<1>4. CASE /\ s \in DOMAIN t.queue
           /\ u.queue = Without(t.queue, s)
           /\ u.handling = t.handling \cup {s}
           /\ Started(t, u, t.queue[s], "throttler", FALSE)
  <2> DEFINE i == t.queue[s]
  <2>1. i.stream = s
    BY <1>4 DEF Sound, Known
  <2>2. s \in DOMAIN t.accepted /\ t.accepted[s] = i
    BY <1>4 DEF Serving
  <2> HIDE DEF i
  <2>3. PICK k : /\ k \notin DOMAIN t.handlers
                 /\ DOMAIN u.handlers = DOMAIN t.handlers \cup {k}
                 /\ \A j \in DOMAIN t.handlers : u.handlers[j] = t.handlers[j]
                 /\ u.handlers[k].instruction = i
                 /\ u.handlers[k].caller = "throttler"
                 /\ u.handlers[k].pending \subseteq i.nodeIds
                 /\ ~ i.expected => u.handlers[k].pending = {}
    BY <1>4, Zenon DEF Started, Called, Fresh, i
  <2>4. /\ ~ i.expected => u.streams = t.streams
        /\ i.expected => /\ OnlyStream(t.streams, u.streams, s)
                         /\ s \in DOMAIN u.streams
                         /\ u.streams[s].neighbors \subseteq i.nodeIds
    BY <1>4, <2>1 DEF Started, SetUp, i
  <2>5. \A q : q # s => (q \in DOMAIN u.queue <=> q \in DOMAIN t.queue)
    BY <1>4 DEF Without, Restrict
  <2>6. ASSUME NEW q \in DOMAIN u.queue
        PROVE  q \in DOMAIN t.queue /\ q # s /\ u.queue[q] = t.queue[q]
    BY <1>4 DEF Without, Restrict
  <2>7. \A q \in DOMAIN t.streams :
           q # s => q \in DOMAIN u.streams /\ u.streams[q] = t.streams[q]
    BY <2>4 DEF OnlyStream
  <2>8. Follows(u, u.handlers[k])
    BY <1>2, <2>1, <2>2, <2>3, <2>4 DEF Follows
  <2>9. ASSUME NEW j \in DOMAIN t.handlers PROVE Follows(u, u.handlers[j])
    <3>1. t.handlers[j].instruction.stream # s /\ u.handlers[j] = t.handlers[j]
      BY <2>3
    <3>2. Follows(t, t.handlers[j])
      BY DEF Serving
    <3> QED BY <1>2, <2>5, <2>7, <3>1, <3>2 DEF Follows
  <2>10. Serving(u)
    BY <1>2, <2>3, <2>6, <2>8, <2>9 DEF Serving
  <2>11. ASSUME NEW q PROVE Settled(u, q)
    BY <1>2, <1>4, <2>7 DEF Settled, CarriedOut
  <2> QED BY <2>10, <2>11 DEF u
<1> QED BY <1>1, <1>3, <1>4, Zenon DEF Invoked

\* A connection that goes away takes no order with it.
LEMMA OrderGoesOn ==
    ASSUME NEW t, NEW u, Ordered(t), SameCalls(t, u), SameInstructions(t, u),
           DOMAIN u.streams = DOMAIN t.streams,
           \A s \in DOMAIN t.streams :
              /\ u.streams[s].neighbors \subseteq t.streams[s].neighbors
              /\ u.streams[s].counter = t.streams[s].counter
    PROVE  Ordered(u)
<1>1. Locked(u)
  BY LockedGoesOn DEF Ordered, SameInstructions
<1>2. ASSUME NEW k \in DOMAIN u.handlers PROVE Follows(u, u.handlers[k])
  <2>1. /\ k \in DOMAIN t.handlers
        /\ u.handlers[k].instruction = t.handlers[k].instruction
        /\ u.handlers[k].caller = t.handlers[k].caller
        /\ u.handlers[k].pending \subseteq t.handlers[k].pending
    BY DEF SameCalls
  <2>2. Follows(t, t.handlers[k])
    BY <2>1 DEF Ordered, Serving
  <2> HIDE DEF SameCalls
  <2> QED BY <2>1, <2>2 DEF Follows, SameInstructions
<1>3. Serving(u)
  BY <1>2 DEF Ordered, Serving, SameInstructions
<1>4. \A s : Settled(u, s)
  BY DEF Ordered, Settled, CarriedOut, SameInstructions
<1> QED BY <1>1, <1>3, <1>4 DEF Ordered

\* A connection opens for the handlers that named the peer.
LEMMA OpensKeepsOrder ==
    ASSUME IInv, Ordered(State), NEW m, ConnectionOpens(m)
    PROVE  Ordered(State')
<1> DEFINE waiting == {k \in DOMAIN handlers : m \in handlers[k].pending}
           waitedFor == {handlers[k].instruction.stream : k \in waiting}
<1>1. streams' = [s \in DOMAIN streams |->
             IF s \in waitedFor
             THEN [streams[s] EXCEPT !.neighbors = @ \cup {m}]
             ELSE streams[s]]
  BY DEF ConnectionOpens
<1>2. SameCalls(State, State') /\ SameInstructions(State, State')
  BY CallsGoOn
<1>3. Locked(State')
  BY <1>2, LockedGoesOn DEF Ordered, SameInstructions
<1>4. ASSUME NEW s \in waitedFor
      PROVE  \E k \in DOMAIN handlers : /\ handlers[k].instruction.stream = s
                                        /\ m \in handlers[k].instruction.nodeIds
                                        /\ s \in handling
  <2>1. PICK k \in waiting : handlers[k].instruction.stream = s
    OBVIOUS
  <2>2. Follows(State, handlers[k])
    BY <2>1, StateIsRecord DEF Ordered, Serving
  <2>3. s \in handling
    BY <2>1, <2>2, StateIsRecord DEF Ordered, Locked, Follows
  <2> QED BY <2>1, <2>2, <2>3 DEF Follows
<1> HIDE DEF waiting, waitedFor
<1>5. ASSUME NEW s \in DOMAIN streams
      PROVE  /\ s \in DOMAIN streams'
             /\ s \in waitedFor =>
                   streams'[s].neighbors \subseteq streams[s].neighbors \cup {m}
             /\ s \notin waitedFor => streams'[s] = streams[s]
  <2>1. "neighbors" \in DOMAIN streams[s]
    BY StateIsRecord DEF IInv, Sound, Links
  <2> QED BY <1>1, <2>1
<1>6. ASSUME NEW k \in DOMAIN handlers' PROVE Follows(State', handlers'[k])
  <2> DEFINE i == handlers[k].instruction
  <2>1. /\ k \in DOMAIN handlers
        /\ handlers'[k].instruction = i
        /\ handlers'[k].caller = handlers[k].caller
        /\ handlers'[k].pending \subseteq handlers[k].pending
    BY <1>2, StateIsRecord, NextStateIsRecord DEF SameCalls
  <2>2. Follows(State, handlers[k])
    BY <2>1, StateIsRecord DEF Ordered, Serving
  <2>3. i.stream \in waitedFor => m \in i.nodeIds
    <3>1. SUFFICES ASSUME i.stream \in waitedFor PROVE m \in i.nodeIds
      OBVIOUS
    <3>2. PICK j \in DOMAIN handlers : /\ handlers[j].instruction.stream = i.stream
                                       /\ m \in handlers[j].instruction.nodeIds
      BY <1>4, <3>1
    <3>3. j = k
      BY <2>1, <3>2, OneHandler, StateIsRecord DEF Ordered
    <3> QED BY <3>2, <3>3
  <2>4. i.expected => /\ i.stream \in DOMAIN streams'
                      /\ streams'[i.stream].neighbors \subseteq i.nodeIds
    BY <1>5, <2>2, <2>3, StateIsRecord DEF Follows
  <2>5. accepted' = accepted /\ queue' = queue
    BY <1>2, StateIsRecord, NextStateIsRecord DEF SameInstructions
  <2> QED BY <2>1, <2>2, <2>4, <2>5, StateIsRecord, NextStateIsRecord DEF Follows
<1>7. Serving(State')
  BY <1>2, <1>6, StateIsRecord, NextStateIsRecord DEF Ordered, Serving, SameInstructions
<1>8. ASSUME NEW s PROVE Settled(State', s)
  <2>1. s \in waitedFor => s \in handling
    BY <1>4
  <2>2. Settled(State, s)
    BY DEF Ordered
  <2> QED BY <1>2, <1>5, <2>1, <2>2, StateIsRecord, NextStateIsRecord
          DEF Settled, CarriedOut, SameInstructions
<1> QED BY <1>3, <1>7, <1>8 DEF Ordered

\* A handler of the throttler ends: its instruction has been carried out, which
\* is the last one accepted unless another is queued.
LEMMA EndedKeepsServing ==
    ASSUME IInv, Ordered(State), NEW k \in DOMAIN handlers, NEW t, Ended(k, t),
           NEW s, s = handlers[k].instruction.stream
    PROVE  /\ Serving(t)
           /\ \A q : q # s => Settled(t, q)
           /\ \A j \in DOMAIN t.handlers : t.handlers[j].instruction.stream # s
           /\ s \in DOMAIN t.accepted /\ s \notin DOMAIN t.queue =>
                 CarriedOut(t, s, t.accepted[s])
<1> DEFINE i == handlers[k].instruction
<1>1. /\ t.accepted = accepted /\ t.queue = queue /\ t.handling = handling
      /\ DOMAIN t.handlers = DOMAIN handlers \ {k}
      /\ \A j \in DOMAIN t.handlers : t.handlers[j] = handlers[j]
      /\ ~ i.expected => t.streams = streams
      /\ i.expected =>
            /\ DOMAIN t.streams = DOMAIN streams
            /\ OnlyStream(streams, t.streams, s)
            /\ s \in DOMAIN streams =>
                  t.streams[s] = [neighbors |-> streams[s].neighbors,
                                  counter   |-> i.counter]
  BY StateIsRecord DEF Ended, SameInstructions
<1>2. \A j \in DOMAIN handlers : Follows(State, handlers[j])
  BY StateIsRecord DEF Ordered, Serving
<1>3. ASSUME NEW j \in DOMAIN t.handlers PROVE t.handlers[j].instruction.stream # s
  <2>1. j \in DOMAIN handlers /\ j # k /\ t.handlers[j] = handlers[j]
    BY <1>1
  <2> QED BY <2>1, OneHandler, StateIsRecord DEF Ordered
<1>4. \A q \in DOMAIN streams :
         q # s => q \in DOMAIN t.streams /\ t.streams[q] = streams[q]
  BY <1>1 DEF OnlyStream
<1>5. ASSUME NEW j \in DOMAIN t.handlers PROVE Follows(t, t.handlers[j])
  <2>1. j \in DOMAIN handlers /\ t.handlers[j] = handlers[j]
    BY <1>1
  <2>2. Follows(State, handlers[j]) /\ handlers[j].instruction.stream # s
    BY <1>2, <1>3, <2>1
  <2> QED BY <1>1, <1>4, <2>1, <2>2, StateIsRecord DEF Follows
<1>6. Serving(t)
  BY <1>1, <1>5, StateIsRecord DEF Ordered, Serving
<1>7. ASSUME NEW q, q # s PROVE Settled(t, q)
  <2>1. Settled(State, q)
    BY DEF Ordered
  <2> QED BY <1>1, <1>4, <1>7, <2>1, StateIsRecord DEF Settled, CarriedOut
<1>8. ASSUME s \notin DOMAIN t.queue PROVE CarriedOut(t, s, t.accepted[s])
  <2>1. Follows(State, handlers[k])
    BY <1>2
  <2>2. t.accepted[s] = i
    BY <1>1, <1>8, <2>1, StateIsRecord DEF Follows
  <2>3. i.expected => s \in DOMAIN streams /\ streams[s].neighbors \subseteq i.nodeIds
    BY <2>1, StateIsRecord DEF Follows
  <2> HIDE DEF i
  <2> QED BY <1>1, <2>2, <2>3 DEF CarriedOut
<1> QED BY <1>3, <1>6, <1>7, <1>8

\* An instruction waits in the queue.
LEMMA QueuedKeepsServing ==
    ASSUME IInv, Ordered(State), NEW i \in Instruction, NEW t, Queued(i, t),
           NEW s, s = i.stream
    PROVE  /\ Locked(t)
           /\ Serving(t)
           /\ \A q : q # s => Settled(t, q)
           /\ s \in handling => Settled(t, s)
           /\ s \in DOMAIN t.queue
<1>1. /\ t.accepted = With(accepted, s, i) /\ t.queue = With(queue, s, i)
      /\ t.handling = handling /\ t.handlers = handlers /\ t.streams = streams
  BY DEF Queued
<1>2. /\ DOMAIN t.accepted = DOMAIN accepted \cup {s}
      /\ DOMAIN t.queue = DOMAIN queue \cup {s}
      /\ t.accepted[s] = i /\ t.queue[s] = i
      /\ \A q \in DOMAIN accepted : q # s => t.accepted[q] = accepted[q]
      /\ \A q \in DOMAIN queue : q # s => t.queue[q] = queue[q]
  BY <1>1 DEF With
<1>3. Locked(t)
  BY <1>1, StateIsRecord DEF Ordered, Locked, Serves
<1>4. ASSUME NEW k \in DOMAIN t.handlers PROVE Follows(t, t.handlers[k])
  <2>1. Follows(State, handlers[k])
    BY <1>1, StateIsRecord DEF Ordered, Serving
  <2> QED BY <1>1, <1>2, <2>1, StateIsRecord DEF Follows
<1>5. Serving(t)
  BY <1>2, <1>4, StateIsRecord DEF Ordered, Serving
<1>6. ASSUME NEW q, q # s PROVE Settled(t, q)
  <2>1. Settled(State, q)
    BY DEF Ordered
  <2> QED BY <1>1, <1>2, <1>6, <2>1, StateIsRecord DEF Settled, CarriedOut
<1>7. s \in handling => Settled(t, s)
  BY <1>1 DEF Settled
<1> QED BY <1>2, <1>3, <1>5, <1>6, <1>7

\* As long as nobody unsubscribes and nothing is retried, every step keeps the
\* order of instructions.
LEMMA NextKeepsOrdered ==
    ASSUME NeverUnsubscribes, NeverRetries, IInv, Ordered(State), [Next]_vars
    PROVE  Ordered(State')
<1>1. ASSUME NEW t, Serving(t), \A q : Settled(t, q), Becomes(t)
      PROVE  Serving(State') /\ \A q : Settled(State', q)
  <2>1. /\ State'.streams = t.streams /\ State'.accepted = t.accepted
        /\ State'.queue = t.queue /\ State'.handling = t.handling
        /\ State'.handlers = t.handlers
    BY <1>1, NextStateIsRecord DEF Becomes
  <2>2. Serving(State')
    BY <1>1, <2>1 DEF Serving, Follows
  <2>3. \A q : Settled(State', q)
    BY <1>1, <2>1 DEF Settled, CarriedOut
  <2> QED BY <2>2, <2>3
<1>2. Locked(State')
  BY NextKeepsLocked DEF Ordered
<1>3. CASE UNCHANGED vars
  <2>1. State' = State
    BY <1>3 DEF vars, State
  <2> QED BY <2>1
<1>4. ASSUME NEW k \in 1 .. MaxHandlers, HandlerEnds(k) PROVE Ordered(State')
  <2> DEFINE s == handlers[k].instruction.stream
  <2>1. k \in DOMAIN handlers
    BY <1>4, HandlerEndsIs
  <2>2. handlers[k].caller = "throttler" /\ ~ handlers[k].cancelled
    BY <2>1, StateIsRecord DEF Ordered, Serving, Follows, Locked
  <2>3. PICK t : Ended(k, t) /\ Becomes(InvokeHandleFnWithLock(t, s))
    BY <1>4, <2>2, HandlerEndsIs
  <2>4. Sound(t) /\ Free(t)
    BY <2>3 DEF Ended
  <2> HIDE DEF s
  <2>5. s = handlers[k].instruction.stream
    BY DEF s
  <2>6. /\ Serving(t)
        /\ \A q : q # s => Settled(t, q)
        /\ \A j \in DOMAIN t.handlers : t.handlers[j].instruction.stream # s
        /\ s \in DOMAIN t.accepted /\ s \notin DOMAIN t.queue =>
              CarriedOut(t, s, t.accepted[s])
    BY <2>1, <2>3, <2>5, EndedKeepsServing
  <2>7. /\ Serving(InvokeHandleFnWithLock(t, s))
        /\ \A q : Settled(InvokeHandleFnWithLock(t, s), q)
    BY <2>4, <2>6, InvokeKeepsServing
  <2> QED BY <1>1, <1>2, <2>3, <2>7 DEF Ordered
<1>5. ASSUME NEW i \in Instruction, InstructionReceived(i) PROVE Ordered(State')
  <2>1. PICK t : /\ Queued(i, t)
                 /\ IF i.stream \in handling THEN Becomes(t)
                    ELSE Becomes(InvokeHandleFnWithLock(t, i.stream))
    BY <1>5, InstructionReceivedIs
  <2>2. PICK s : s = i.stream
    OBVIOUS
  <2>3. /\ Locked(t)
        /\ Serving(t)
        /\ \A q : q # s => Settled(t, q)
        /\ s \in handling => Settled(t, s)
        /\ s \in DOMAIN t.queue
    BY <2>1, <2>2, QueuedKeepsServing
  <2>4. Sound(t) /\ Free(t) /\ t.handling = handling
    BY <2>1 DEF Queued
  <2>5. CASE s \in handling
    BY <1>1, <1>2, <2>1, <2>2, <2>3, <2>5 DEF Ordered
  <2>6. CASE s \notin handling
    <3>1. \A k \in DOMAIN t.handlers : t.handlers[k].instruction.stream # s
      BY <2>3, <2>4, <2>6 DEF Locked, Serving, Follows
    <3>2. /\ Serving(InvokeHandleFnWithLock(t, s))
          /\ \A q : Settled(InvokeHandleFnWithLock(t, s), q)
      BY <2>3, <2>4, <3>1, InvokeKeepsServing
    <3> QED BY <1>1, <1>2, <2>1, <2>2, <2>6, <3>2 DEF Ordered
  <2> QED BY <2>5, <2>6
<1>6. ASSUME NEW s, Subscribe(s) PROVE Ordered(State')
  <2> DEFINE t == [State EXCEPT !.streams = With(streams, s, NewStream)]
             u == Report(t, {s})
  <2>1. /\ DOMAIN t = Fields
        /\ t.streams = With(streams, s, NewStream)
        /\ t.handlers = handlers /\ t.accepted = accepted
        /\ t.queue = queue /\ t.handling = handling
    BY DEF State, Fields
  <2>2. Becomes(u) /\ s \notin DOMAIN streams
    BY <1>6 DEF Subscribe
  <2> HIDE DEF t
  <2>3. /\ SameHandling(t, u) /\ SameInstructions(t, u)
        /\ u.streams = t.streams
    BY <2>1, ReportIs
  <2> HIDE DEF u
  <2>4. /\ u.handlers = handlers /\ u.accepted = accepted
        /\ u.queue = queue /\ u.handling = handling
        /\ \A q \in DOMAIN streams : q \in DOMAIN u.streams /\ u.streams[q] = streams[q]
    BY <2>1, <2>2, <2>3 DEF SameHandling, SameInstructions, With
  <2>5. ASSUME NEW k \in DOMAIN u.handlers PROVE Follows(u, u.handlers[k])
    <3>1. Follows(State, handlers[k])
      BY <2>4, StateIsRecord DEF Ordered, Serving
    <3> QED BY <2>4, <3>1, StateIsRecord DEF Follows
  <2>6. Serving(u)
    BY <2>4, <2>5, StateIsRecord DEF Ordered, Serving
  <2>7. ASSUME NEW q PROVE Settled(u, q)
    <3>1. Settled(State, q)
      BY DEF Ordered
    <3> QED BY <2>4, <3>1, StateIsRecord DEF Settled, CarriedOut
  <2> QED BY <1>1, <1>2, <2>2, <2>6, <2>7 DEF u, Ordered
<1>7. ASSUME NEW s PROVE ~ Unsubscribe(s) /\ ~ RetryFires(s)
  BY DEF NeverUnsubscribes, NeverRetries, Unsubscribe, RetryFires, Quiet
<1>8. ASSUME NEW k, NEW m, ConnectTimesOut(k, m) PROVE Ordered(State')
  <2>1. SameCalls(State, State') /\ SameInstructions(State, State')
    BY <1>8, CallsGoOn
  <2>2. streams' = streams
    BY <1>8 DEF ConnectTimesOut
  <2> QED BY <2>1, <2>2, OrderGoesOn, StateIsRecord, NextStateIsRecord
<1>9. ASSUME NEW m \in Peer,
             ConnectionCloses(m) \/ LinkComes(m) \/ DisconnectionTimerFires(m)
      PROVE  Ordered(State')
  <2>1. /\ SameInstructions(State, State') /\ SameCalls(State, State')
        /\ UNCHANGED <<streams, reported>> \/ Lost(m)
    BY <1>9, LinkStepsAre
  <2>2. /\ DOMAIN streams' = DOMAIN streams
        /\ \A s \in DOMAIN streams :
              /\ streams'[s].neighbors \subseteq streams[s].neighbors
              /\ streams'[s].counter = streams[s].counter
    <3>1. CASE streams' = streams
      BY <3>1
    <3>2. CASE Lost(m)
      <4>1. /\ DOMAIN streams' = DOMAIN streams
            /\ \A s \in DOMAIN streams :
                  streams'[s] = [neighbors |-> streams[s].neighbors \ {m},
                                 counter   |-> streams[s].counter]
        BY <3>2 DEF Lost
      <4> QED BY <4>1
    <3> QED BY <2>1, <3>1, <3>2
  <2> QED BY <2>1, <2>2, OrderGoesOn, StateIsRecord, NextStateIsRecord
<1> QED BY <1>3, <1>4, <1>5, <1>6, <1>7, <1>8, <1>9, OpensKeepsOrder DEF Next, LinkComes

\* When nothing is handled for a stream, its neighbors are among those of the last
\* instruction the throttler accepted, and its counter is that instruction's: no
\* older instruction is carried out after a newer one, in whatever order handlers
\* get their connections.  Users who unsubscribe and retries break this, so it is
\* proved of runs without them.
THEOREM NeighborsAlwaysFollow ==
    NeverUnsubscribes /\ NeverRetries => (Spec => []NeighborsFollowLastAccepted)
<1> SUFFICES ASSUME NeverUnsubscribes, NeverRetries
             PROVE  Spec => []NeighborsFollowLastAccepted
  OBVIOUS
<1>1. Init => Ordered(State)
  BY StateIsRecord DEF Init, Ordered, Locked, Serving, Settled
<1>2. IInv /\ Ordered(State) /\ [Next]_vars => Ordered(State')
  BY NextKeepsOrdered
<1>3. Ordered(State) => NeighborsFollowLastAccepted
  BY StateIsRecord
     DEF Ordered, Settled, CarriedOut, Idle, NeighborsFollowLastAccepted
<1>4. Spec => [](IInv /\ Ordered(State))
  <2>1. (Ordered(State))' <=> Ordered(State')
    OBVIOUS
  <2> QED BY <1>1, <1>2, <2>1, NodeInvariant, PTL DEF Spec
<1> QED BY <1>3, <1>4, PTL
=============================================================================
