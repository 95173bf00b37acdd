---------------------------- MODULE Resends_proofs ----------------------------
(***************************************************************************)
(* Proofs about src/resend, for any requests, storage nodes and answers of *)
(* trackers: a connection that was made for resends is there only while    *)
(* one of them uses it, a stream that has ended says nothing more, if      *)
(* nothing fails, it has given all there is, and whatever fails, it gives  *)
(* what ResendStream lets it give.                                         *)
(***************************************************************************)
EXTENDS Resends, SequenceTheorems, FiniteSetTheorems, TLAPS

Place == [at : {"none", "asking", "pending", "dialing", "sending", "current", "done"},
          of : Node,
          rest : Seq(Storage)]

LoopType == [at : {"none", "local", "foreign", "over"}, seen : Nat, given : Seq(Nat)]

Message == [type : {"Unicast", "Resent", "NoResend"}, of : Request, no : Nat]

RequesterOK ==
    /\ holds \in Holdings
    /\ stream \in [Node -> [Request -> LoopType]]
    /\ place \in [Request -> Place]
    /\ neighbors \subseteq Contacts
    /\ linked \subseteq Storage
    /\ stopped \in BOOLEAN

StorageOK ==
    /\ attached \subseteq Storage
    /\ forwarded \in [Storage -> SUBSET Request]
    /\ answers \in [Storage -> Seq(Message)]
    /\ paused \in [Storage -> SUBSET Request]

FaultsOK == events \in Nat /\ disturbed \in BOOLEAN

TypeOK == RequesterOK /\ StorageOK /\ FaultsOK

\* A request has no place before its loop has come to the foreign strategy.
NotYetForeign ==
    \A r \in Request :
        stream[Requester][r].at \in {"none", "local"} => place[r].at = "none"

IInv == TypeOK /\ NotYetForeign /\ LinksAreNeeded

\* What is over stays as it is.
SilentWhenOver ==
    \A r \in Request :
        stream[Requester][r].at = "over" => stream'[Requester][r] = stream[Requester][r]

-----------------------------------------------------------------------------
(***************************************************************************)
(* Types                                                                   *)
(***************************************************************************)
\* The initial states have their types.
LEMMA InitEstablishesTypeOK == Init => TypeOK
<1> SUFFICES ASSUME Init PROVE TypeOK
  OBVIOUS
<1>1. RequesterOK
  <2>1. Nowhere("none") \in Place
    BY DEF Nowhere, At, Place, Node
  <2>2. NotAsked \in LoopType
    BY DEF NotAsked, Loop, LoopType
  <2>3. neighbors \subseteq Contacts /\ linked \subseteq Storage
    BY NodeAssumption DEF Init
  <2> QED BY <2>1, <2>2, <2>3 DEF Init, RequesterOK
<1>2. StorageOK
  <2>1. <<>> \in Seq(Message)
    OBVIOUS
  <2> QED BY <2>1, NodeAssumption DEF Init, StorageOK
<1> QED BY <1>1, <1>2 DEF Init, TypeOK, FaultsOK

\* A loop that goes on is a loop.
LEMMA LoopsHaveType ==
    ASSUME NEW loop \in LoopType
    PROVE  /\ Over(loop) \in LoopType
           /\ \A n : NextStrategy(n, loop) \in LoopType /\ Ends(n, loop) \in LoopType
           /\ \A i \in Nat : /\ Gives(loop, i) \in LoopType
                             /\ Gives(loop, i).at = loop.at
                             /\ Gives(loop, i).seen = loop.seen + 1
                             /\ Gives(loop, i).given = Append(loop.given, i)
<1>1. Over(loop) \in LoopType /\ \A n : NextStrategy(n, loop) \in LoopType
  BY DEF Over, NextStrategy, Loop, LoopType
<1>2. \A n : Ends(n, loop) \in LoopType
  BY <1>1 DEF Ends
<1>3. ASSUME NEW i \in Nat
      PROVE  /\ Gives(loop, i) \in LoopType
             /\ Gives(loop, i).at = loop.at
             /\ Gives(loop, i).seen = loop.seen + 1
             /\ Gives(loop, i).given = Append(loop.given, i)
  <2>1. Append(loop.given, i) \in Seq(Nat) /\ loop.seen + 1 \in Nat
    BY DEF LoopType
  <2> QED BY <2>1 DEF Gives, LoopType
<1> QED BY <1>1, <1>2, <1>3

\* Where a loop goes from the foreign strategy, and from any other.
LEMMA LoopsGoOn ==
    ASSUME NEW loop, NEW n
    PROVE  /\ Over(loop).at = "over" /\ Over(loop).given = loop.given
           /\ NextStrategy(n, loop).at \in {"foreign", "over"}
           /\ Ends(n, loop).at \in {"foreign", "over"}
           /\ NextStrategy(n, loop).at = "foreign" => n = Requester
           /\ Ends(n, loop).at = "foreign" => n = Requester
BY DEF Over, NextStrategy, Ends, Loop

\* What a storage node says of a loop that is over or has given a message.
LEMMA SaysMessages ==
    ASSUME NEW s, NEW r \in Request, NEW loop \in LoopType,
           loop.at = "over" \/ loop.given # <<>>
    PROVE  Says(s, r, loop) \in Seq(Message)
<1>1. FinalResponse(r, loop.given) \in Message
  BY DEF FinalResponse, Message
<1>2. CASE loop.at # "over"
  <2>1. loop.given \in Seq(Nat) /\ loop.given # <<>>
    BY <1>2 DEF LoopType
  <2>2. Last(loop.given) \in Nat
    BY <2>1, LenProperties, EmptySeq DEF Last
  <2>3. [type |-> "Unicast", of |-> r, no |-> Last(loop.given)] \in Message
    BY <2>2 DEF Message
  <2> QED BY <1>2, <2>3 DEF Says
<1>3. CASE loop.at = "over"
  BY <1>1, <1>3 DEF Says
<1> QED BY <1>2, <1>3

\* A step of a loop, the requester's or a storage node's.
LEMMA BecomesKeepsTypeOK ==
    ASSUME TypeOK, FaultsOK', NEW n \in Node, NEW r \in Request, NEW loop \in LoopType,
           Becomes(n, r, loop),
           n \in Storage => loop.at = "over" \/ loop.given # <<>>
    PROVE  TypeOK'
<1>1. Nowhere("asking") \in Place
  BY DEF Nowhere, At, Place, Node
<1>2. RequesterOK'
  BY <1>1 DEF TypeOK, RequesterOK, Becomes
<1>3. answers' \in [Storage -> Seq(Message)]
  <2>1. CASE n \in Storage
    <3>1. Says(n, r, loop) \in Seq(Message) /\ answers[n] \in Seq(Message)
      BY <2>1, SaysMessages DEF TypeOK, StorageOK
    <3>2. answers[n] \o Says(n, r, loop) \in Seq(Message)
      BY <3>1, ConcatProperties
    <3> QED BY <2>1, <3>2 DEF TypeOK, StorageOK, Becomes
  <2>2. CASE n \notin Storage
    BY <2>2 DEF TypeOK, StorageOK, Becomes
  <2> QED BY <2>1, <2>2
<1>4. StorageOK'
  BY <1>3 DEF TypeOK, StorageOK, Becomes
<1> QED BY <1>2, <1>4 DEF TypeOK

\* Requests that are done end the streams that wait for them, and no others.
LEMMA StreamAfterKeeps ==
    ASSUME RequesterOK, NEW p, stream' = StreamAfter(p)
    PROVE  /\ stream' \in [Node -> [Request -> LoopType]]
           /\ \A n \in Node : n # Requester => stream'[n] = stream[n]
           /\ \A r \in Request :
                 \/ stream'[Requester][r] = stream[Requester][r]
                 \/ /\ p[r].at = "done" /\ place[r].at # "done"
                    /\ stream[Requester][r].at = "foreign"
                    /\ stream'[Requester][r] = Ends(Requester, stream[Requester][r])
           /\ \A r \in Request :
                 p[r].at = "done" /\ place[r].at # "done" /\ stream[Requester][r].at = "foreign"
                 => stream'[Requester][r] = Ends(Requester, stream[Requester][r])
<1>1. Requester \in Node
  BY DEF Node
<1> DEFINE next == [r \in Request |->
        IF /\ p[r].at = "done" /\ place[r].at # "done"
           /\ stream[Requester][r].at = "foreign"
        THEN Ends(Requester, stream[Requester][r])
        ELSE stream[Requester][r]]
<1>2. stream' = [stream EXCEPT ![Requester] = next]
  BY DEF StreamAfter
<1>3. \A r \in Request : stream[Requester][r] \in LoopType
  BY <1>1 DEF RequesterOK
<1>4. \A r \in Request :
          \/ next[r] = stream[Requester][r]
          \/ /\ p[r].at = "done" /\ place[r].at # "done"
             /\ stream[Requester][r].at = "foreign"
             /\ next[r] = Ends(Requester, stream[Requester][r])
  OBVIOUS
<1>8. \A r \in Request :
          p[r].at = "done" /\ place[r].at # "done" /\ stream[Requester][r].at = "foreign"
          => next[r] = Ends(Requester, stream[Requester][r])
  OBVIOUS
<1>5. next \in [Request -> LoopType]
  BY <1>3, LoopsHaveType
<1> HIDE DEF next
<1>6. stream' \in [Node -> [Request -> LoopType]] /\ stream'[Requester] = next
  BY <1>1, <1>2, <1>5 DEF RequesterOK
<1>7. \A n \in Node : n # Requester => stream'[n] = stream[n]
  BY <1>2 DEF RequesterOK
<1> QED BY <1>4, <1>6, <1>7, <1>8

\* Connections that are closed, and requests that are done or go on.
LEMMA CutKeepsTypeOK ==
    ASSUME TypeOK, FaultsOK', StorageOK', NEW p \in [Request -> Place], NEW gone,
           Cut(p, gone), neighbors' \subseteq neighbors, stopped' \in BOOLEAN
    PROVE  TypeOK'
<1>1. \A r \in Request : [p[r] EXCEPT !.at = "done"] \in Place
  BY DEF Place
<1>2. place' \in [Request -> Place]
  BY <1>1 DEF Cut
<1>3. stream' \in [Node -> [Request -> LoopType]]
  BY StreamAfterKeeps DEF Cut, TypeOK
<1> QED BY <1>2, <1>3 DEF Cut, TypeOK, RequesterOK

\* The same, for Moves.
LEMMA MovesKeepsTypeOK ==
    ASSUME TypeOK, FaultsOK', StorageOK', NEW p \in [Request -> Place], Moves(p)
    PROVE  TypeOK'
BY CutKeepsTypeOK DEF Moves, TypeOK, RequesterOK

\* What requests become when they are done or try a list of storage nodes.
LEMMA PlacesHaveType ==
    ASSUME RequesterOK
    PROVE  /\ \A rs : Done(rs) \in [Request -> Place]
           /\ \A list \in Seq(Storage) : Tries(list) \in Place /\ Tries(list).at # "none"
<1>1. \A r \in Request : [place[r] EXCEPT !.at = "done"] \in Place
  BY DEF RequesterOK, Place
<1>2. ASSUME NEW rs
      PROVE  Done(rs) \in [Request -> Place]
  BY <1>1 DEF Done, Placed, RequesterOK
<1>3. ASSUME NEW list \in Seq(Storage)
      PROVE  Tries(list) \in Place /\ Tries(list).at # "none"
  <2>1. CASE list = <<>>
    BY <2>1 DEF Tries, Nowhere, At, Place, Node
  <2>2. CASE list # <<>>
    <3>1. Head(list) \in Storage /\ Tail(list) \in Seq(Storage)
      BY <2>2
    <3> QED BY <2>2, <3>1 DEF Tries, At, Place, Node
  <2> QED BY <2>1, <2>2
<1> QED BY <1>2, <1>3

\* Streams that are cancelled are over; those of other nodes stay.
LEMMA CancelledKeeps ==
    ASSUME RequesterOK, NEW s \in Storage
    PROVE  /\ Cancelled(s) \in [Node -> [Request -> LoopType]]
           /\ \A n \in Node : n # s => Cancelled(s)[n] = stream[n]
<1> DEFINE next == [r \in Request |->
                       IF Runs(s, r) THEN Over(stream[s][r]) ELSE stream[s][r]]
<1>1. \A r \in Request : stream[s][r] \in LoopType
  BY DEF RequesterOK, Node
<1>2. next \in [Request -> LoopType]
  BY <1>1, LoopsHaveType
<1>3. Cancelled(s) = [stream EXCEPT ![s] = next]
  BY DEF Cancelled
<1> HIDE DEF next
<1> QED BY <1>2, <1>3 DEF RequesterOK

\* The sequence that is left when an element of it is removed
LEMMA RemovedHasType ==
    ASSUME NEW S, NEW seq \in Seq(S), NEW k \in DOMAIN seq
    PROVE  RemoveAt(seq, k) \in Seq(S)
<1>1. k \in 1 .. Len(seq) /\ Len(seq) \in Nat
  BY LenProperties
<1>2. SubSeq(seq, 1, k - 1) \in Seq(S) /\ SubSeq(seq, k + 1, Len(seq)) \in Seq(S)
  BY <1>1
<1> QED BY <1>2, ConcatProperties DEF RemoveAt

\* What is counted
LEMMA FaultsHaveType == TypeOK /\ [Next]_vars => FaultsOK'
<1> SUFFICES ASSUME TypeOK, [Next]_vars PROVE FaultsOK'
  OBVIOUS
<1>1. Event => FaultsOK'
  BY DEF Event, TypeOK, FaultsOK
<1>2. TimerFires => FaultsOK'
  BY DEF TimerFires, TypeOK, FaultsOK
<1>3. UNCHANGED faultVars => FaultsOK'
  BY DEF faultVars, TypeOK, FaultsOK
<1>4. CASE \/ \E r \in Request :
                 \/ Ask(r) \/ Cancel(r)
                 \/ AskTracker(r) \/ AskTrackerFails(r) \/ TrackerTimeout(r)
                 \/ Forward(r) \/ ForwardFails(r) \/ Timeout(r)
                 \/ \E n \in Node : Reads(n, r) \/ StorageEnds(n, r) \/ InactivityCheck(n, r)
                 \/ \E s \in Storage : Requested(s, r)
  BY <1>1, <1>2, <1>3, <1>4
     DEF Ask, Cancel, AskTracker, AskTrackerFails, TrackerTimeout, Forward, ForwardFails,
         Timeout, Reads, StorageEnds, InactivityCheck, Requested, faultVars
<1>5. CASE \E s \in Storage :
              \/ Connected(s) \/ ConnectFails(s) \/ Receive(s)
              \/ LinkLost(s) \/ RequesterLost(s) \/ AnswerFails(s)
              \/ Pause(s) \/ Resume(s)
  BY <1>1, <1>2, <1>3, <1>5
     DEF Connected, ConnectFails, Receive, LinkLost, RequesterLost, AnswerFails, Pause,
         Resume, faultVars
<1>6. CASE (\E list \in NodeLists : StorageNodesResponse(list)) \/ Stop
  BY <1>1, <1>3, <1>6 DEF StorageNodesResponse, Stop, faultVars
<1>7. CASE UNCHANGED vars
  BY <1>3, <1>7 DEF vars
<1> QED BY <1>4, <1>5, <1>6, <1>7 DEF Next

\* The steps of the loops
LEMMA LoopStepsKeepTypeOK ==
    ASSUME TypeOK, FaultsOK', NEW r \in Request, NEW n \in Node,
           Ask(r) \/ Cancel(r) \/ Reads(n, r) \/ StorageEnds(n, r) \/ InactivityCheck(n, r)
    PROVE  TypeOK'
<1>1. Requester \in Node /\ Requester \notin Storage
  BY NodeAssumption DEF Node
<1>2. \A m \in Node : stream[m][r] \in LoopType
  BY DEF TypeOK, RequesterOK
<1>3. CASE Ask(r)
  <2>1. Loop("local", <<>>) \in LoopType
    BY DEF Loop, LoopType
  <2> QED BY <1>1, <1>3, <2>1, BecomesKeepsTypeOK DEF Ask
<1>4. CASE Cancel(r)
  BY <1>1, <1>2, <1>4, LoopsHaveType, BecomesKeepsTypeOK DEF Cancel
<1>5. CASE Reads(n, r)
  <2> DEFINE loop == Gives(stream[n][r], stream[n][r].seen + 1)
  <2>1. stream[n][r].seen + 1 \in Nat
    BY <1>2 DEF LoopType
  <2>2. loop \in LoopType /\ loop.given = Append(stream[n][r].given, stream[n][r].seen + 1)
    BY <1>2, <2>1, LoopsHaveType
  <2>3. loop.given # <<>>
    <3>1. PICK given, x : given = stream[n][r].given /\ x = stream[n][r].seen + 1
      OBVIOUS
    <3>2. given \in Seq(Nat) /\ x \in Nat
      BY <1>2, <2>1, <3>1 DEF LoopType
    <3>3. Append(given, x) # <<>>
      BY <3>2
    <3> QED BY <2>2, <3>1, <3>3
  <2>4. Becomes(n, r, loop)
    BY <1>5 DEF Reads
  <2> HIDE DEF loop
  <2> QED BY <2>2, <2>3, <2>4, BecomesKeepsTypeOK
<1>6. CASE StorageEnds(n, r)
  <2>1. Becomes(n, r, Ends(n, stream[n][r]))
    BY <1>6 DEF StorageEnds
  <2>2. n \in Storage => Ends(n, stream[n][r]).at = "over"
    BY <1>1, LoopsGoOn
  <2> QED BY <1>2, <2>1, <2>2, LoopsHaveType, BecomesKeepsTypeOK
<1>7. CASE InactivityCheck(n, r)
  <2>1. Becomes(n, r, NextStrategy(n, stream[n][r]))
    BY <1>7 DEF InactivityCheck
  <2>2. n \in Storage => NextStrategy(n, stream[n][r]).at = "over"
    BY <1>1, LoopsGoOn
  <2> QED BY <1>2, <2>1, <2>2, LoopsHaveType, BecomesKeepsTypeOK
<1> QED BY <1>3, <1>4, <1>5, <1>6, <1>7

\* The steps at storage nodes
LEMMA StorageStepsKeepTypeOK ==
    ASSUME TypeOK, FaultsOK', NEW s \in Storage,
           \/ \E r \in Request : Requested(s, r)
           \/ RequesterLost(s) \/ AnswerFails(s) \/ Pause(s) \/ Resume(s)
    PROVE  TypeOK'
<1>1. s \in Node /\ answers[s] \in Seq(Message)
  BY DEF Node, TypeOK, StorageOK
<1>2. stream' \in [Node -> [Request -> LoopType]]
  <2>1. Loop("local", <<>>) \in LoopType
    BY DEF Loop, LoopType
  <2>2. CASE \E r \in Request : Requested(s, r)
    BY <1>1, <2>1, <2>2 DEF Requested, TypeOK, RequesterOK
  <2>3. CASE RequesterLost(s) \/ AnswerFails(s)
    BY <2>3, CancelledKeeps DEF RequesterLost, AnswerFails, TypeOK
  <2>4. CASE Pause(s) \/ Resume(s)
    BY <2>4 DEF Pause, Resume, TypeOK, RequesterOK
  <2> QED BY <2>2, <2>3, <2>4
<1>3. RequesterOK'
  BY <1>2 DEF Requested, RequesterLost, AnswerFails, Pause, Resume, requesterVars,
              TypeOK, RequesterOK
<1>4. StorageOK'
  <2>1. CASE \E r \in Request : Requested(s, r)
    BY <2>1 DEF Requested, TypeOK, StorageOK
  <2>2. CASE Pause(s) \/ Resume(s)
    BY <2>2 DEF Pause, Resume, TypeOK, StorageOK
  <2>3. CASE RequesterLost(s)
    <3>1. \A k \in 1 .. Len(answers[s]) + 1 :
              SubSeq(answers[s], k, Len(answers[s])) \in Seq(Message)
      <4>1. Len(answers[s]) \in Nat
        BY <1>1
      <4> TAKE k \in 1 .. Len(answers[s]) + 1
      <4> QED BY <1>1, <4>1, SubSeqProperties
    <3>2. answers' \in [Storage -> Seq(Message)]
      BY <2>3, <3>1 DEF RequesterLost, TypeOK, StorageOK
    <3> QED BY <2>3, <3>2 DEF RequesterLost, TypeOK, StorageOK
  <2>4. CASE AnswerFails(s)
    <3> DEFINE ending == {q \in Request : Runs(s, q)} \ paused[s]
               said == {FinalResponse(r, stream[s][r].given) : r \in ending}
    <3>1. said \subseteq Message
      BY DEF FinalResponse, Message
    <3>2. PICK k \in DOMAIN answers[s], finals \in SetToSeqs(said) :
              answers' = [answers EXCEPT ![s] = RemoveAt(@, k) \o finals]
      BY <2>4 DEF AnswerFails
    <3>3. finals \in Seq(said)
      <4>1. IsFiniteSet(said) /\ Cardinality(said) \in Nat
        <5> DEFINE final == [r \in ending |-> FinalResponse(r, stream[s][r].given)]
        <5>1. IsFiniteSet(ending)
          BY RequestAssumption, FS_Subset
        <5>2. final \in Surjection(ending, said)
          BY DEF Surjection
        <5> QED BY <5>1, <5>2, FS_Surjection, FS_CardinalityType
      <4>2. finals \in [1 .. Cardinality(said) -> said]
        BY <3>2 DEF SetToSeqs
      <4> HIDE DEF said
      <4> QED BY <4>1, <4>2, IsASeq
    <3> HIDE DEF said
    <3>4. finals \in Seq(Message)
      BY <3>1, <3>3, SeqMonotonic
    <3>5. RemoveAt(answers[s], k) \o finals \in Seq(Message)
      BY <1>1, <3>4, RemovedHasType, ConcatProperties
    <3>6. answers' \in [Storage -> Seq(Message)]
      BY <3>2, <3>5 DEF TypeOK, StorageOK
    <3> QED BY <2>4, <3>6 DEF AnswerFails, TypeOK, StorageOK
  <2> QED BY <2>1, <2>2, <2>3, <2>4
<1> QED BY <1>3, <1>4 DEF TypeOK

\* The steps of requests on their way
LEMMA RequestStepsKeepTypeOK ==
    ASSUME TypeOK, FaultsOK', NEW r \in Request,
           \/ AskTracker(r) \/ AskTrackerFails(r) \/ TrackerTimeout(r)
           \/ Forward(r) \/ ForwardFails(r) \/ Timeout(r)
    PROVE  TypeOK'
<1>1. CASE AskTrackerFails(r) \/ TrackerTimeout(r) \/ ForwardFails(r) \/ Timeout(r)
  <2>1. Moves(Done({r})) /\ UNCHANGED storageVars
    BY <1>1 DEF AskTrackerFails, TrackerTimeout, ForwardFails, Timeout
  <2>2. StorageOK'
    BY <2>1 DEF storageVars, TypeOK, StorageOK
  <2> QED BY <2>1, <2>2, PlacesHaveType, MovesKeepsTypeOK DEF TypeOK
<1>2. CASE AskTracker(r)
  <2>1. Nowhere("pending") \in Place
    BY DEF Nowhere, At, Place, Node
  <2> QED BY <1>2, <2>1 DEF AskTracker, storageVars, TypeOK, RequesterOK, StorageOK
<1>3. CASE Forward(r)
  <2>1. [place[r] EXCEPT !.at = "current"] \in Place
    BY DEF TypeOK, RequesterOK, Place
  <2>2. RequesterOK'
    BY <1>3, <2>1 DEF Forward, TypeOK, RequesterOK
  <2>3. StorageOK'
    BY <1>3 DEF Forward, TypeOK, StorageOK
  <2> QED BY <2>2, <2>3 DEF TypeOK
<1> QED BY <1>1, <1>2, <1>3

\* What a storage node answers
LEMMA ReceiveKeepsTypeOK ==
    ASSUME TypeOK, FaultsOK', NEW s \in Storage, Receive(s)
    PROVE  TypeOK'
<1>1. answers[s] \in Seq(Message) /\ answers[s] # <<>>
  BY DEF TypeOK, StorageOK, Receive
<1>2. Head(answers[s]) \in Message /\ Tail(answers[s]) \in Seq(Message)
  BY <1>1, HeadTailProperties
<1>3. StorageOK'
  BY <1>2 DEF Receive, TypeOK, StorageOK
<1> DEFINE message == Head(answers[s])
           r == message.of
<1>4. CASE IsFor(message, s) /\ message.type \in {"Resent", "NoResend"}
  <2>1. Moves(Done({r}))
    BY <1>4 DEF Receive
  <2> QED BY <1>3, <2>1, PlacesHaveType, MovesKeepsTypeOK DEF TypeOK
<1>5. CASE ~ (IsFor(message, s) /\ message.type \in {"Resent", "NoResend"})
  <2>1. /\ UNCHANGED <<holds, requesterVars>>
        /\ \/ UNCHANGED stream
           \/ stream' = [stream EXCEPT ![Requester][r] = Gives(@, message.no)]
    BY <1>5 DEF Receive
  <2> HIDE DEF message, r
  <2>2. r \in Request /\ message.no \in Nat
    BY <1>2 DEF message, r, Message
  <2>3. Gives(stream[Requester][r], message.no) \in LoopType
    <3>1. stream[Requester][r] \in LoopType
      BY <2>2 DEF TypeOK, RequesterOK, Node
    <3> QED BY <2>2, <3>1, LoopsHaveType
  <2>4. stream' \in [Node -> [Request -> LoopType]]
    <3> DEFINE loop == Gives(stream[Requester][r], message.no)
    <3>1. UNCHANGED stream \/ stream' = [stream EXCEPT ![Requester][r] = loop]
      BY <2>1
    <3>2. loop \in LoopType
      BY <2>3
    <3> HIDE DEF loop
    <3> QED BY <2>2, <3>1, <3>2 DEF TypeOK, RequesterOK, Node
  <2>5. RequesterOK'
    BY <2>1, <2>4 DEF requesterVars, TypeOK, RequesterOK
  <2> QED BY <1>3, <2>5 DEF TypeOK
<1> QED BY <1>4, <1>5

\* Connections, the answer of the tracker, and the end of the node
LEMMA NodeStepsKeepTypeOK ==
    ASSUME TypeOK, FaultsOK',
           \/ \E s \in Storage : Connected(s) \/ ConnectFails(s) \/ LinkLost(s)
           \/ \E list \in NodeLists : StorageNodesResponse(list)
           \/ Stop
    PROVE  TypeOK'
<1>1. CASE \E s \in Storage : Connected(s)
  <2> PICK s \in Storage : Connected(s)
    BY <1>1
  <2>1. At("sending", s, <<>>) \in Place
    BY DEF At, Place, Node
  <2>2. Placed(Dialing(s), [r \in Dialing(s) |-> At("sending", s, <<>>)]) \in [Request -> Place]
    BY <2>1 DEF Placed, TypeOK, RequesterOK
  <2> QED BY <2>2 DEF Connected, TypeOK, RequesterOK, StorageOK
<1>2. CASE \E s \in Storage : ConnectFails(s)
  <2> PICK s \in Storage : ConnectFails(s)
    BY <1>2
  <2> DEFINE p == Placed(Dialing(s), [r \in Dialing(s) |-> Tries(place[r].rest)])
  <2>1. \A r \in Request : Tries(place[r].rest) \in Place
    BY PlacesHaveType DEF TypeOK, RequesterOK, Place
  <2>2. p \in [Request -> Place]
    BY <2>1 DEF Placed, TypeOK, RequesterOK
  <2>3. Moves(p) /\ UNCHANGED storageVars
    BY DEF ConnectFails
  <2> HIDE DEF p
  <2>4. StorageOK'
    BY <2>3 DEF storageVars, TypeOK, StorageOK
  <2> QED BY <2>2, <2>3, <2>4, MovesKeepsTypeOK
<1>3. CASE \E s \in Storage : LinkLost(s)
  <2> PICK s \in Storage : LinkLost(s)
    BY <1>3
  <2>1. /\ Cut(place, {s}) /\ neighbors' \subseteq neighbors
        /\ UNCHANGED <<stopped, storageVars>>
    BY DEF LinkLost
  <2>2. StorageOK' /\ stopped' \in BOOLEAN
    BY <2>1 DEF storageVars, TypeOK, RequesterOK, StorageOK
  <2> QED BY <2>1, <2>2, CutKeepsTypeOK DEF TypeOK, RequesterOK
<1>4. CASE \E list \in NodeLists : StorageNodesResponse(list)
  <2> PICK list \in NodeLists : StorageNodesResponse(list)
    BY <1>4
  <2> DEFINE rs == {r \in Request : place[r].at = "pending"}
             p == Placed(rs, [r \in rs |-> Tries(list)])
  <2>1. Tries(list) \in Place
    BY NodeListsAssumption, PlacesHaveType DEF TypeOK
  <2>2. p \in [Request -> Place]
    BY <2>1 DEF Placed, TypeOK, RequesterOK
  <2>3. Moves(p) /\ UNCHANGED storageVars
    BY DEF StorageNodesResponse
  <2> HIDE DEF p
  <2>4. StorageOK'
    BY <2>3 DEF storageVars, TypeOK, StorageOK
  <2> QED BY <2>2, <2>3, <2>4, MovesKeepsTypeOK
<1>5. CASE Stop
  <2> DEFINE rs == {r \in Request : place[r].at \notin {"none", "asking", "done"}}
  <2>1. Cut(Done(rs), linked) /\ neighbors' \subseteq neighbors /\ stopped' \in BOOLEAN
    BY <1>5 DEF Stop
  <2> HIDE DEF rs
  <2>2. StorageOK'
    BY <1>5 DEF Stop, storageVars, TypeOK, StorageOK
  <2> QED BY <2>1, <2>2, PlacesHaveType, CutKeepsTypeOK DEF TypeOK
<1> QED BY <1>1, <1>2, <1>3, <1>4, <1>5

\* The inductive step
LEMMA NextKeepsTypeOK == TypeOK /\ [Next]_vars => TypeOK'
<1> SUFFICES ASSUME TypeOK, [Next]_vars PROVE TypeOK'
  OBVIOUS
<1>1. FaultsOK'
  BY FaultsHaveType
<1>2. CASE UNCHANGED vars
  BY <1>2 DEF TypeOK, RequesterOK, StorageOK, FaultsOK, vars, requesterVars, storageVars,
              faultVars
<1>3. CASE Next
  <2>1. \A r \in Request, n \in Node :
            \/ Ask(r) \/ Cancel(r) \/ Reads(n, r) \/ StorageEnds(n, r) \/ InactivityCheck(n, r)
            => TypeOK'
    BY <1>1, LoopStepsKeepTypeOK
  <2>2. \A r \in Request : Ask(r) \/ Cancel(r) => TypeOK'
    BY <2>1 DEF Node
  <2>3. \A r \in Request :
            \/ AskTracker(r) \/ AskTrackerFails(r) \/ TrackerTimeout(r)
            \/ Forward(r) \/ ForwardFails(r) \/ Timeout(r)
            => TypeOK'
    BY <1>1, RequestStepsKeepTypeOK
  <2>4. \A s \in Storage :
            \/ \E r \in Request : Requested(s, r)
            \/ RequesterLost(s) \/ AnswerFails(s) \/ Pause(s) \/ Resume(s)
            => TypeOK'
    BY <1>1, StorageStepsKeepTypeOK
  <2>5. \A s \in Storage : Receive(s) => TypeOK'
    BY <1>1, ReceiveKeepsTypeOK
  <2>6. \/ \E s \in Storage : Connected(s) \/ ConnectFails(s) \/ LinkLost(s)
        \/ \E list \in NodeLists : StorageNodesResponse(list)
        \/ Stop
        => TypeOK'
    BY <1>1, NodeStepsKeepTypeOK
  <2> QED BY <1>3, <2>1, <2>2, <2>3, <2>4, <2>5, <2>6 DEF Next
<1> QED BY <1>2, <1>3

\* Every request has a loop at every node and a place at the requester, and
\* what storage nodes answer are messages, however the parties fail.
THEOREM TypeCorrect == Spec => []TypeOK
<1> QED BY InitEstablishesTypeOK, NextKeepsTypeOK, PTL DEF Spec

-----------------------------------------------------------------------------
\* Nothing is asked yet, and connections are to neighbors.
LEMMA InitEstablishesIInv == Init => IInv
<1> SUFFICES ASSUME Init PROVE IInv
  OBVIOUS
<1>1. Requester \in Node
  BY DEF Node
<1>2. TypeOK
  BY InitEstablishesTypeOK
<1>3. NotYetForeign
  BY <1>1 DEF Init, NotYetForeign, NotAsked, Nowhere, At, Loop
<1>4. LinksAreNeeded
  BY DEF Init, LinksAreNeeded
<1> QED BY <1>2, <1>3, <1>4 DEF IInv

\* A step of a loop, the requester's or a storage node's.
LEMMA BecomesKeepsIInv ==
    ASSUME IInv, TypeOK', NEW n \in Node, NEW r \in Request, NEW loop,
           Becomes(n, r, loop),
           loop.at = "foreign" => n = Requester,
           n = Requester /\ loop.at \in {"none", "local"} =>
               stream[n][r].at \in {"none", "local"}
    PROVE  IInv'
<1>1. Requester \in Node
  BY DEF Node
<1>3. \A q \in Request : \/ place'[q] = place[q]
                         \/ /\ q = r /\ n = Requester /\ loop.at = "foreign"
                            /\ place[q].at = "none"
                            /\ place'[q].at = "asking"
  <2> SUFFICES ASSUME NEW q \in Request, place'[q] # place[q]
               PROVE  /\ q = r /\ n = Requester /\ loop.at = "foreign"
                      /\ place[q].at = "none"
                      /\ place'[q].at = "asking"
    OBVIOUS
  <2>1. /\ loop.at = "foreign" /\ stream[n][r].at = "local"
        /\ place' = [place EXCEPT ![r] = Nowhere("asking")]
    BY DEF Becomes
  <2>2. q = r
    BY <2>1 DEF IInv, TypeOK, RequesterOK
  <2>3. place[r].at = "none"
    BY <2>1 DEF IInv, NotYetForeign
  <2>4. place'[r].at = "asking"
    BY <2>1 DEF IInv, TypeOK, RequesterOK, Nowhere, At
  <2> QED BY <2>1, <2>2, <2>3, <2>4
<1>4. NotYetForeign'
  <2> SUFFICES ASSUME NEW q \in Request, stream'[Requester][q].at \in {"none", "local"}
               PROVE  place'[q].at = "none"
    BY DEF NotYetForeign
  <2>1. CASE n = Requester /\ q = r
    <3>1. stream'[Requester][q] = loop
      BY <1>1, <2>1 DEF Becomes, IInv, TypeOK, RequesterOK
    <3> QED BY <1>3, <2>1, <3>1 DEF IInv, NotYetForeign
  <2>2. CASE ~ (n = Requester /\ q = r)
    <3>1. stream'[Requester][q] = stream[Requester][q]
      BY <1>1, <2>2 DEF Becomes, IInv, TypeOK, RequesterOK
    <3> QED BY <1>3, <2>2, <3>1 DEF IInv, NotYetForeign
  <2> QED BY <2>1, <2>2
<1>5. \A s : Using(place', s) = Using(place, s)
  BY <1>3 DEF Using
<1>6. LinksAreNeeded'
  BY <1>5 DEF IInv, LinksAreNeeded, Becomes
<1> QED BY <1>4, <1>6 DEF IInv

\* Places p that differ from the present ones only where there was a place, and
\* after which every connection that stays is in use.
LEMMA CutKeepsIInv ==
    ASSUME IInv, TypeOK', NEW p \in [Request -> Place], NEW gone,
           Cut(p, gone),
           \A r \in Request : place[r].at = "none" => p[r].at = "none",
           \A s \in linked' \ neighbors' : Using(p, s) # {}
    PROVE  IInv'
<1>1. /\ place' = [r \in Request |->
                     IF p[r].at = "current" /\ p[r].of \in gone
                     THEN [p[r] EXCEPT !.at = "done"]
                     ELSE p[r]]
      /\ stream' = StreamAfter(place')
      /\ linked' = linked \ gone
  BY DEF Cut
<1>5. NotYetForeign'
  <2> SUFFICES ASSUME NEW r \in Request, stream'[Requester][r].at \in {"none", "local"}
               PROVE  place'[r].at = "none"
    BY DEF NotYetForeign
  <2>1. stream'[Requester][r] = stream[Requester][r]
    <3>1. Ends(Requester, stream[Requester][r]).at \in {"foreign", "over"}
      BY LoopsGoOn
    <3> QED BY <1>1, <3>1, StreamAfterKeeps DEF IInv, TypeOK
  <2>2. p[r].at = "none"
    BY <2>1 DEF IInv, NotYetForeign
  <2> QED BY <1>1, <2>2
<1>6. LinksAreNeeded'
  <2> SUFFICES ASSUME NEW s \in linked' \ neighbors'
               PROVE  Using(place', s) # {}
    BY DEF LinksAreNeeded
  <2>1. PICK r \in Request : p[r].at \in {"sending", "current"} /\ p[r].of = s
    BY DEF Using
  <2>2. s \notin gone
    BY <1>1
  <2>3. place'[r] = p[r]
    BY <1>1, <2>1, <2>2
  <2> QED BY <2>1, <2>3 DEF Using
<1> QED BY <1>5, <1>6 DEF IInv

\* Moves closes the connections that are not needed any more.
LEMMA MovesKeepsIInv ==
    ASSUME IInv, TypeOK', NEW p \in [Request -> Place], Moves(p),
           \A r \in Request : place[r].at = "none" => p[r].at = "none"
    PROVE  IInv'
<1>1. Cut(p, Unneeded(p)) /\ neighbors' = neighbors
  BY DEF Moves
<1>2. \A s \in linked' \ neighbors' : Using(p, s) # {}
  <2> SUFFICES ASSUME NEW s \in linked' \ neighbors' PROVE Using(p, s) # {}
    OBVIOUS
  <2>1. s \in linked \ neighbors /\ s \notin Unneeded(p)
    BY <1>1 DEF Cut
  <2> QED BY <2>1 DEF Unneeded, IInv, LinksAreNeeded
<1> QED BY <1>1, <1>2, CutKeepsIInv

\* Only requests that have a place get done.
LEMMA DoneKeepsNone ==
    ASSUME NEW rs \in SUBSET Request, \A r \in rs : place[r].at # "none"
    PROVE  \A r \in Request : place[r].at = "none" => Done(rs)[r].at = "none"
BY DEF Done, Placed

-----------------------------------------------------------------------------
\* The steps of the loops
LEMMA LoopStepsKeepIInv ==
    ASSUME IInv, TypeOK', NEW r \in Request, NEW n \in Node,
           Ask(r) \/ Cancel(r) \/ Reads(n, r) \/ StorageEnds(n, r) \/ InactivityCheck(n, r)
    PROVE  IInv'
<1>1. Requester \in Node
  BY DEF Node
<1>2. stream[n][r] \in LoopType
  BY DEF IInv, TypeOK, RequesterOK
<1>3. CASE Ask(r)
  BY <1>1, <1>3, BecomesKeepsIInv DEF Ask, Loop
<1>4. CASE Cancel(r)
  BY <1>1, <1>4, LoopsGoOn, BecomesKeepsIInv DEF Cancel
<1>5. CASE Reads(n, r)
  <2> DEFINE loop == Gives(stream[n][r], stream[n][r].seen + 1)
  <2>1. loop.at = stream[n][r].at
    <3>1. stream[n][r].seen + 1 \in Nat
      BY <1>2 DEF LoopType
    <3> QED BY <1>2, <3>1, LoopsHaveType
  <2>2. stream[n][r].at = "local" /\ Becomes(n, r, loop)
    BY <1>5 DEF Reads
  <2> HIDE DEF loop
  <2> QED BY <2>1, <2>2, BecomesKeepsIInv
<1>6. CASE StorageEnds(n, r)
  BY <1>6, LoopsGoOn, BecomesKeepsIInv DEF StorageEnds
<1>7. CASE InactivityCheck(n, r)
  BY <1>7, LoopsGoOn, BecomesKeepsIInv DEF InactivityCheck
<1> QED BY <1>3, <1>4, <1>5, <1>6, <1>7

\* Steps at storage nodes leave the requester alone.
LEMMA StorageStepsKeepIInv ==
    ASSUME IInv, TypeOK', NEW s \in Storage,
           \/ \E r \in Request : Requested(s, r)
           \/ RequesterLost(s) \/ AnswerFails(s) \/ Pause(s) \/ Resume(s)
    PROVE  IInv'
<1>1. Requester \in Node /\ s # Requester
  BY NodeAssumption DEF Node
<1>2. stream'[Requester] = stream[Requester]
  <2>1. CASE \E r \in Request : Requested(s, r)
    BY <1>1, <2>1 DEF Requested, IInv, TypeOK, RequesterOK
  <2>2. CASE RequesterLost(s) \/ AnswerFails(s)
    BY <1>1, <2>2, CancelledKeeps DEF RequesterLost, AnswerFails, IInv, TypeOK
  <2>3. CASE Pause(s) \/ Resume(s)
    BY <2>3 DEF Pause, Resume
  <2> QED BY <2>1, <2>2, <2>3
<1>3. UNCHANGED <<place, linked, neighbors>>
  BY DEF Requested, RequesterLost, AnswerFails, Pause, Resume, requesterVars
<1>4. \A t : Using(place', t) = Using(place, t)
  BY <1>3 DEF Using
<1> QED BY <1>2, <1>3, <1>4 DEF IInv, NotYetForeign, LinksAreNeeded

\* The requests on their way through the tracker to a storage node
LEMMA RequestStepsKeepIInv ==
    ASSUME IInv, TypeOK', NEW r \in Request,
           \/ AskTracker(r) \/ AskTrackerFails(r) \/ TrackerTimeout(r)
           \/ Forward(r) \/ ForwardFails(r) \/ Timeout(r)
    PROVE  IInv'
<1>1. CASE AskTrackerFails(r) \/ TrackerTimeout(r) \/ ForwardFails(r) \/ Timeout(r)
  <2>1. Moves(Done({r})) /\ place[r].at # "none"
    BY <1>1 DEF AskTrackerFails, TrackerTimeout, ForwardFails, Timeout
  <2>2. Done({r}) \in [Request -> Place]
    BY PlacesHaveType DEF IInv, TypeOK
  <2>3. \A q \in Request : place[q].at = "none" => Done({r})[q].at = "none"
    BY <2>1, DoneKeepsNone
  <2> QED BY <2>1, <2>2, <2>3, MovesKeepsIInv
<1>2. CASE AskTracker(r)
  <2>1. Nowhere("pending").at = "pending"
    BY DEF Nowhere, At
  <2>2. /\ place' = [place EXCEPT ![r] = Nowhere("pending")]
        /\ place[r].at = "asking"
        /\ UNCHANGED <<stream, linked, neighbors>>
    BY <1>2 DEF AskTracker
  <2>3. \A q \in Request : place'[q] = place[q] \/ (q = r /\ place'[q].at = "pending")
    BY <2>1, <2>2 DEF IInv, TypeOK, RequesterOK
  <2>4. \A s : Using(place', s) = Using(place, s)
    BY <2>2, <2>3 DEF Using
  <2> QED BY <2>2, <2>3, <2>4 DEF IInv, NotYetForeign, LinksAreNeeded
<1>3. CASE Forward(r)
  <2>1. /\ place' = [place EXCEPT ![r].at = "current"]
        /\ place[r].at = "sending"
        /\ UNCHANGED <<stream, linked, neighbors>>
    BY <1>3 DEF Forward
  <2>2. \A q \in Request : \/ place'[q] = place[q]
                           \/ q = r /\ place'[q].at = "current" /\ place'[q].of = place[q].of
    BY <2>1 DEF IInv, TypeOK, RequesterOK, Place
  <2>3. \A s : Using(place', s) = Using(place, s)
    BY <2>1, <2>2 DEF Using
  <2> QED BY <2>1, <2>2, <2>3 DEF IInv, NotYetForeign, LinksAreNeeded
<1> QED BY <1>1, <1>2, <1>3

\* What a storage node answers, whatever request it names
LEMMA ReceiveKeepsIInv ==
    ASSUME IInv, TypeOK', NEW s \in Storage, Receive(s)
    PROVE  IInv'
<1> DEFINE message == Head(answers[s])
           r == message.of
<1>1. r \in Request /\ message.no \in Nat
  <2>1. answers[s] \in Seq(Message) /\ answers[s] # <<>>
    BY DEF IInv, TypeOK, StorageOK, Receive
  <2>2. message \in Message
    BY <2>1
  <2> QED BY <2>2 DEF Message
<1>2. CASE IsFor(message, s) /\ message.type \in {"Resent", "NoResend"}
  <2>1. Moves(Done({r})) /\ place[r].at # "none"
    BY <1>2 DEF Receive, IsFor
  <2> HIDE DEF message, r
  <2>2. Done({r}) \in [Request -> Place]
    BY PlacesHaveType DEF IInv, TypeOK
  <2>3. \A q \in Request : place[q].at = "none" => Done({r})[q].at = "none"
    BY <1>1, <2>1, DoneKeepsNone
  <2> QED BY <2>1, <2>2, <2>3, MovesKeepsIInv
<1>3. CASE ~ (IsFor(message, s) /\ message.type \in {"Resent", "NoResend"})
  <2>1. /\ UNCHANGED <<place, linked, neighbors>>
        /\ \/ UNCHANGED stream
           \/ stream' = [stream EXCEPT ![Requester][r] = Gives(@, message.no)]
    BY <1>3 DEF Receive, requesterVars
  <2> HIDE DEF message, r
  <2>2. Requester \in Node /\ stream[Requester][r] \in LoopType
    BY <1>1 DEF IInv, TypeOK, RequesterOK, Node
  <2>3. Gives(stream[Requester][r], message.no).at = stream[Requester][r].at
    BY <1>1, <2>2, LoopsHaveType
  <2>4. \A q \in Request : stream'[Requester][q].at = stream[Requester][q].at
    <3> DEFINE loop == Gives(stream[Requester][r], message.no)
    <3>1. UNCHANGED stream \/ stream' = [stream EXCEPT ![Requester][r] = loop]
      BY <2>1
    <3>2. loop.at = stream[Requester][r].at
      BY <2>3
    <3> HIDE DEF loop
    <3> QED BY <2>2, <3>1, <3>2 DEF IInv, TypeOK, RequesterOK
  <2>5. \A t : Using(place', t) = Using(place, t)
    BY <2>1 DEF Using
  <2> QED BY <2>1, <2>4, <2>5 DEF IInv, NotYetForeign, LinksAreNeeded
<1> QED BY <1>2, <1>3

\* The answer of the tracker, and the end of the node
LEMMA NodeStepsKeepIInv ==
    ASSUME IInv, TypeOK', (\E list \in NodeLists : StorageNodesResponse(list)) \/ Stop
    PROVE  IInv'
<1>1. CASE \E list \in NodeLists : StorageNodesResponse(list)
  <2> PICK list \in NodeLists : StorageNodesResponse(list)
    BY <1>1
  <2> DEFINE rs == {r \in Request : place[r].at = "pending"}
             p == Placed(rs, [r \in rs |-> Tries(list)])
  <2>1. Tries(list) \in Place
    BY NodeListsAssumption, PlacesHaveType DEF IInv, TypeOK
  <2>2. p \in [Request -> Place]
    BY <2>1 DEF Placed, IInv, TypeOK, RequesterOK
  <2>3. Moves(p)
    BY DEF StorageNodesResponse
  <2>4. \A r \in Request : place[r].at = "none" => p[r] = place[r]
    BY DEF Placed
  <2> HIDE DEF p
  <2> QED BY <2>2, <2>3, <2>4, MovesKeepsIInv
<1>2. CASE Stop
  <2> DEFINE rs == {r \in Request : place[r].at \notin {"none", "asking", "done"}}
  <2>1. Cut(Done(rs), linked) /\ linked' = {}
    BY <1>2 DEF Stop, Cut
  <2>2. Done(rs) \in [Request -> Place]
    BY PlacesHaveType DEF IInv, TypeOK
  <2>3. \A r \in Request : place[r].at = "none" => Done(rs)[r].at = "none"
    BY DoneKeepsNone
  <2> HIDE DEF rs
  <2> QED BY <2>1, <2>2, <2>3, CutKeepsIInv
<1> QED BY <1>1, <1>2

\* Connections that are made, refused and lost
LEMMA LinkStepsKeepIInv ==
    ASSUME IInv, TypeOK', NEW s \in Storage, Connected(s) \/ ConnectFails(s) \/ LinkLost(s)
    PROVE  IInv'
<1>1. CASE ConnectFails(s)
  <2> DEFINE p == Placed(Dialing(s), [r \in Dialing(s) |-> Tries(place[r].rest)])
  <2>1. \A r \in Request : Tries(place[r].rest) \in Place
    BY PlacesHaveType DEF IInv, TypeOK, RequesterOK, Place
  <2>2. p \in [Request -> Place]
    BY <2>1 DEF Placed, IInv, TypeOK, RequesterOK
  <2>3. Moves(p)
    BY <1>1 DEF ConnectFails
  <2>4. \A r \in Request : place[r].at = "none" => p[r].at = "none"
    BY DEF Placed, Dialing
  <2> HIDE DEF p
  <2> QED BY <2>2, <2>3, <2>4, MovesKeepsIInv
<1>2. CASE Connected(s)
  <2>1. /\ UNCHANGED <<stream, neighbors>>
        /\ linked' = linked \cup {s}
        /\ place' = Placed(Dialing(s), [r \in Dialing(s) |-> At("sending", s, <<>>)])
        /\ Dialing(s) # {}
    BY <1>2 DEF Connected
  <2>2. \A r \in Request : \/ r \notin Dialing(s) /\ place'[r] = place[r]
                           \/ r \in Dialing(s) /\ place'[r] = At("sending", s, <<>>)
    BY <2>1 DEF Placed
  <2>3. NotYetForeign'
    BY <2>1, <2>2 DEF IInv, NotYetForeign, Dialing
  <2>4. Using(place', s) # {}
    <3>1. PICK r \in Request : r \in Dialing(s)
      BY <2>1 DEF Dialing
    <3>2. place'[r].at = "sending" /\ place'[r].of = s
      BY <2>2, <3>1 DEF At
    <3> QED BY <3>2 DEF Using
  <2>5. \A t \in linked \ neighbors : Using(place, t) \subseteq Using(place', t)
    BY <2>2 DEF Using, Dialing
  <2>6. LinksAreNeeded'
    BY <2>1, <2>4, <2>5 DEF IInv, LinksAreNeeded
  <2> QED BY <2>3, <2>6 DEF IInv
<1>3. CASE LinkLost(s)
  <2>1. Cut(place, {s}) /\ neighbors' = neighbors \ {s} /\ linked' = linked \ {s}
    BY <1>3 DEF LinkLost, Cut
  <2>2. \A t \in linked' \ neighbors' : Using(place, t) # {}
    BY <2>1 DEF IInv, LinksAreNeeded
  <2> QED BY <2>1, <2>2, CutKeepsIInv DEF IInv, TypeOK, RequesterOK
<1> QED BY <1>1, <1>2, <1>3

\* The inductive step
LEMMA NextKeepsIInv == IInv /\ [Next]_vars => IInv'
<1> SUFFICES ASSUME IInv, [Next]_vars PROVE IInv'
  OBVIOUS
<1>1. TypeOK'
  BY NextKeepsTypeOK DEF IInv
<1>2. CASE UNCHANGED vars
  BY <1>1, <1>2 DEF IInv, NotYetForeign, LinksAreNeeded, Using, vars, requesterVars
<1>3. CASE Next
  <2>1. \A r \in Request, n \in Node :
            \/ Ask(r) \/ Cancel(r) \/ Reads(n, r) \/ StorageEnds(n, r) \/ InactivityCheck(n, r)
            => IInv'
    BY <1>1, LoopStepsKeepIInv
  <2>2. \A r \in Request : Ask(r) \/ Cancel(r) => IInv'
    BY <2>1 DEF Node
  <2>3. \A r \in Request :
            \/ AskTracker(r) \/ AskTrackerFails(r) \/ TrackerTimeout(r)
            \/ Forward(r) \/ ForwardFails(r) \/ Timeout(r)
            => IInv'
    BY <1>1, RequestStepsKeepIInv
  <2>4. \A s \in Storage :
            \/ \E r \in Request : Requested(s, r)
            \/ RequesterLost(s) \/ AnswerFails(s) \/ Pause(s) \/ Resume(s)
            => IInv'
    BY <1>1, StorageStepsKeepIInv
  <2>5. \A s \in Storage : Connected(s) \/ ConnectFails(s) \/ LinkLost(s) => IInv'
    BY <1>1, LinkStepsKeepIInv
  <2>6. \A s \in Storage : Receive(s) => IInv'
    BY <1>1, ReceiveKeepsIInv
  <2>7. (\E list \in NodeLists : StorageNodesResponse(list)) \/ Stop => IInv'
    BY <1>1, NodeStepsKeepIInv
  <2> QED BY <1>3, <2>1, <2>2, <2>3, <2>4, <2>5, <2>6, <2>7 DEF Next
<1> QED BY <1>2, <1>3

-----------------------------------------------------------------------------
\* No step touches what is over.
LEMMA NextIsSilentWhenOver == IInv /\ [Next]_vars => SilentWhenOver
<1> SUFFICES ASSUME IInv, [Next]_vars,
                    NEW q \in Request, stream[Requester][q].at = "over"
             PROVE  stream'[Requester][q] = stream[Requester][q]
  BY DEF SilentWhenOver
<1>1. RequesterOK /\ Requester \in Node /\ Requester \notin Storage
  BY NodeAssumption DEF IInv, TypeOK, Node
<1>2. ASSUME NEW n \in Node, NEW r \in Request, NEW loop, Becomes(n, r, loop),
             stream[n][r].at # "over"
      PROVE  stream'[Requester][q] = stream[Requester][q]
  BY <1>1, <1>2 DEF Becomes, RequesterOK
<1>3. ASSUME NEW p, stream' = StreamAfter(p)
      PROVE  stream'[Requester][q] = stream[Requester][q]
  BY <1>1, <1>3, StreamAfterKeeps
<1>4. CASE UNCHANGED vars
  BY <1>4 DEF vars
<1>5. CASE \E r \in Request :
              \/ Ask(r) \/ Cancel(r)
              \/ \E n \in Node : Reads(n, r) \/ StorageEnds(n, r) \/ InactivityCheck(n, r)
  BY <1>1, <1>2, <1>5 DEF Ask, Cancel, Reads, StorageEnds, InactivityCheck, Runs
<1>6. CASE \E r \in Request : \E s \in Storage : Requested(s, r)
  BY <1>1, <1>6 DEF Requested, RequesterOK
<1>7. CASE \E s \in Storage : RequesterLost(s) \/ AnswerFails(s)
  BY <1>1, <1>7, CancelledKeeps DEF RequesterLost, AnswerFails
<1>8. CASE \/ \E r \in Request : AskTracker(r) \/ Forward(r)
           \/ \E s \in Storage : Connected(s) \/ Pause(s) \/ Resume(s)
  BY <1>8 DEF AskTracker, Forward, Connected, Pause, Resume
<1>9. CASE \E s \in Storage : Receive(s)
  <2> PICK s \in Storage : Receive(s)
    BY <1>9
  <2>1. CASE stream' = StreamAfter(place')
    BY <1>3, <2>1
  <2>2. CASE stream' # StreamAfter(place')
    <3> DEFINE message == Head(answers[s])
               r == message.of
    <3>1. \/ UNCHANGED stream
          \/ /\ stream' = [stream EXCEPT ![Requester][r] = Gives(@, message.no)]
             /\ stream[Requester][r].at = "foreign"
      BY <2>2 DEF Receive, Moves, Cut
    <3> HIDE DEF message, r
    <3> QED BY <1>1, <3>1 DEF RequesterOK
  <2> QED BY <2>1, <2>2
<1>10. CASE \/ \E r \in Request : \/ AskTrackerFails(r) \/ TrackerTimeout(r)
                                 \/ ForwardFails(r) \/ Timeout(r)
            \/ \E s \in Storage : ConnectFails(s) \/ LinkLost(s)
            \/ \E list \in NodeLists : StorageNodesResponse(list)
            \/ Stop
  <2>1. stream' = StreamAfter(place')
    BY <1>10 DEF AskTrackerFails, TrackerTimeout, ForwardFails, Timeout, ConnectFails,
                 LinkLost, StorageNodesResponse, Stop, Moves, Cut
  <2> QED BY <1>3, <2>1
<1> QED BY <1>4, <1>5, <1>6, <1>7, <1>8, <1>9, <1>10 DEF Next

-----------------------------------------------------------------------------
\* The inductive invariant: a connection made for resends is in use, and no
\* request is on its way before the requester's own storage has been asked.
THEOREM ResendsInvariant == Spec => []IInv
<1> QED BY InitEstablishesIInv, NextKeepsIInv, PTL DEF Spec

\* However many requests share a storage node, and in whatever order they end,
\* fail, time out or lose it, the last of them closes the connection (onDoneCb).
THEOREM LinksAlwaysNeeded == Spec => []LinksAreNeeded
<1>1. IInv => LinksAreNeeded
  BY DEF IInv
<1> QED BY <1>1, ResendsInvariant, PTL

\* A stream the application has seen end, or has destroyed, gives nothing more
\* and is not started again, although its request goes on and is answered.
THEOREM OverIsSilent == Spec => [][SilentWhenOver]_vars
<1>1. IInv /\ [Next]_vars => [SilentWhenOver]_vars
  BY NextIsSilentWhenOver
<1> QED BY <1>1, ResendsInvariant, PTL DEF Spec
-----------------------------------------------------------------------------
(***************************************************************************)
(* While nothing fails and no timer fires                                  *)
(***************************************************************************)
Numbers(k) == [i \in 1 .. k |-> i]

Unicasts(queue, r) == {i \in DOMAIN queue : queue[i].of = r /\ queue[i].type = "Unicast"}

Finals(queue, r) == {i \in DOMAIN queue : queue[i].of = r /\ queue[i].type # "Unicast"}

Silent(queue, r) == \A i \in DOMAIN queue : queue[i].of # r

\* The queue brings the requester, in order, what it has not seen of the k
\* messages that a storage node's loop has given, and then the end, if it is over.
Delivers(queue, r, seen, k, at) ==
    /\ \A x \in seen + 1 .. k : \E i \in Unicasts(queue, r) : queue[i].no = x
    /\ \A i \in Unicasts(queue, r) : queue[i].no \in seen + 1 .. k
    /\ \A i, j \in Unicasts(queue, r) : i < j => queue[i].no < queue[j].no
    /\ \A i \in Unicasts(queue, r), j \in Finals(queue, r) : i < j
    /\ at = "over" <=> Finals(queue, r) # {}

\* A request that no storage node has got
Untouched(r) ==
    \A s \in Storage :
        /\ stream[s][r] = NotAsked
        /\ r \notin forwarded[s]
        /\ Silent(answers[s], r)

\* The loop of a storage node for the request it has got, or is about to get
LoopAhead(s, r) ==
    LET loop == stream[s][r]
        k == Len(loop.given)
    IN  /\ loop.at \in {"none", "local", "over"}
        /\ loop.given = Numbers(k)
        /\ k <= holds[s][r]
        /\ loop.at = "none" <=> r \in forwarded[s]
        /\ loop.at = "none" => k = 0
        /\ loop.at = "local" => loop.seen = k
        /\ loop.at = "over" => k = holds[s][r]

\* A request that waits for the answers of a storage node
Answered(r) ==
    LET s == place[r].of
        seen == stream[Requester][r].seen
        k == Len(stream[s][r].given)
    IN  /\ s \in linked
        /\ LoopAhead(s, r)
        /\ seen <= k
        /\ Delivers(answers[s], r, seen, k, stream[s][r].at)

\* The requester's own loop has given what its strategy has given, all of it
\* when it is over.
OwnLoop(r) ==
    LET loop == stream[Requester][r]
    IN  /\ loop.at # "over" => loop.given = Numbers(loop.seen)
        /\ loop.at \in {"none", "local"} => loop.seen <= holds[Requester][r]
        /\ loop.at = "foreign" => holds[Requester][r] = 0
        /\ loop.at = "over" => loop.given = Numbers(holds[place[r].of][r])

Places(r) ==
    LET loop == stream[Requester][r]
        p == place[r]
    IN  /\ loop.at \in {"none", "local"} => p.at = "none"
        /\ loop.at = "foreign" => p.at \notin {"none", "done"}
        /\ loop.at = "over" => p.at \in {"none", "done"}
        /\ p.at \in {"none", "asking", "pending"} => p.of = Requester
        /\ p.at = "sending" => p.of \in linked
        /\ loop.at = "foreign" /\ p.at # "current" => loop.seen = 0

RequestOK(r) ==
    /\ OwnLoop(r)
    /\ Places(r)
    /\ place[r].at \notin {"current", "done"} => Untouched(r)
    /\ place[r].at = "current" => Answered(r)

Calm == /\ linked \subseteq attached
        /\ \A s \in Storage : paused[s] = {}
        /\ \A r \in Request : RequestOK(r)

CalmUnlessDisturbed == ~ disturbed => Calm

\* One more number
LEMMA NumbersGrow ==
    ASSUME NEW k \in Nat
    PROVE  /\ Append(Numbers(k), k + 1) = Numbers(k + 1)
           /\ Numbers(k) \in Seq(Nat) /\ Len(Numbers(k)) = k
<1>1. Numbers(k) \in Seq(Nat) /\ Len(Numbers(k)) = k
  BY DEF Numbers
<1>2. Append(Numbers(k), k + 1) = Numbers(k + 1)
  BY <1>1 DEF Numbers
<1> QED BY <1>1, <1>2

\* Queues that differ in nothing that is said of r
SameFor(queue, next, r) ==
    \/ next = queue
    \/ \E m \in Message : m.of # r /\ next = Append(queue, m)
    \/ queue # <<>> /\ Head(queue).of # r /\ next = Tail(queue)
    \/ Silent(queue, r) /\ Silent(next, r)

\* Positions in a queue that grows
LEMMA Appended ==
    ASSUME NEW queue \in Seq(Message), NEW m \in Message
    PROVE  /\ Append(queue, m) \in Seq(Message)
           /\ DOMAIN queue = 1 .. Len(queue) /\ Len(queue) \in Nat
           /\ DOMAIN Append(queue, m) = 1 .. Len(queue) + 1
           /\ \A i \in DOMAIN queue : Append(queue, m)[i] = queue[i]
           /\ Append(queue, m)[Len(queue) + 1] = m
<1>1. Len(queue) \in Nat /\ DOMAIN queue = 1 .. Len(queue)
  BY LenProperties
<1>2. /\ Append(queue, m) \in Seq(Message)
      /\ Len(Append(queue, m)) = Len(queue) + 1
      /\ \A i \in 1 .. Len(queue) : Append(queue, m)[i] = queue[i]
      /\ Append(queue, m)[Len(queue) + 1] = m
  BY AppendProperties
<1>3. DOMAIN Append(queue, m) = 1 .. Len(queue) + 1
  BY <1>2, LenProperties
<1> QED BY <1>1, <1>2, <1>3

\* Positions in a queue that is served
LEMMA Served ==
    ASSUME NEW queue \in Seq(Message), queue # <<>>
    PROVE  /\ Tail(queue) \in Seq(Message)
           /\ DOMAIN queue = 1 .. Len(queue) /\ Len(queue) \in Nat \ {0}
           /\ DOMAIN Tail(queue) = 1 .. Len(queue) - 1
           /\ \A i \in DOMAIN Tail(queue) : i + 1 \in DOMAIN queue /\ Tail(queue)[i] = queue[i + 1]
           /\ \A i \in DOMAIN queue : i # 1 => i - 1 \in DOMAIN Tail(queue)
           /\ Head(queue) = queue[1]
<1>1. Len(queue) \in Nat /\ DOMAIN queue = 1 .. Len(queue)
  BY LenProperties
<1>2. Len(queue) # 0
  BY EmptySeq
<1>3. /\ Tail(queue) \in Seq(Message)
      /\ Len(Tail(queue)) = Len(queue) - 1
      /\ \A i \in 1 .. Len(Tail(queue)) : Tail(queue)[i] = queue[i + 1]
      /\ Head(queue) = queue[1]
  BY HeadTailProperties
<1>4. DOMAIN Tail(queue) = 1 .. Len(queue) - 1
  BY <1>3, LenProperties
<1> QED BY <1>1, <1>2, <1>3, <1>4

\* What is said of others changes nothing.
LEMMA SameForKeeps ==
    ASSUME NEW queue \in Seq(Message), NEW next \in Seq(Message), NEW r,
           SameFor(queue, next, r)
    PROVE  /\ Silent(queue, r) => Silent(next, r)
           /\ \A seen, k \in Nat : \A at :
                 Delivers(queue, r, seen, k, at) => Delivers(next, r, seen, k, at)
<1>1. CASE next = queue
  BY <1>1
<1>2. ASSUME NEW m \in Message, m.of # r, next = Append(queue, m)
      PROVE  /\ Unicasts(next, r) = Unicasts(queue, r)
             /\ Finals(next, r) = Finals(queue, r)
             /\ \A i \in DOMAIN queue : next[i] = queue[i]
             /\ Silent(queue, r) => Silent(next, r)
  BY <1>2, Appended DEF Unicasts, Finals, Silent
<1>3. ASSUME NEW m \in Message, m.of # r, next = Append(queue, m),
             NEW seen \in Nat, NEW k \in Nat, NEW at,
             Delivers(queue, r, seen, k, at)
      PROVE  Delivers(next, r, seen, k, at)
  <2>1. /\ Unicasts(next, r) = Unicasts(queue, r)
        /\ Finals(next, r) = Finals(queue, r)
        /\ \A i \in Unicasts(queue, r) : next[i] = queue[i]
    BY <1>2, <1>3 DEF Unicasts
  <2> QED BY <1>3, <2>1 DEF Delivers
<1>4. CASE queue # <<>> /\ Head(queue).of # r /\ next = Tail(queue)
  <2>1. /\ DOMAIN queue = 1 .. Len(queue) /\ Len(queue) \in Nat \ {0}
        /\ DOMAIN next = 1 .. Len(queue) - 1
        /\ \A i \in DOMAIN next : next[i] = queue[i + 1]
        /\ queue[1].of # r
    BY <1>4, Served
  <2>2. /\ \A i \in Unicasts(next, r) : i \in Nat /\ i + 1 \in Unicasts(queue, r) /\ next[i] = queue[i + 1]
        /\ \A i \in Finals(next, r) : i \in Nat /\ i + 1 \in Finals(queue, r)
    BY <2>1 DEF Unicasts, Finals
  <2>3. /\ \A i \in Unicasts(queue, r) : i - 1 \in Unicasts(next, r) /\ next[i - 1] = queue[i]
        /\ \A i \in Finals(queue, r) : i - 1 \in Finals(next, r)
    <3>1. ASSUME NEW i \in DOMAIN queue, queue[i].of = r
          PROVE  i - 1 \in DOMAIN next /\ next[i - 1] = queue[i]
      <4>1. i \in 1 .. Len(queue) /\ i # 1
        BY <2>1, <3>1
      <4>2. i - 1 \in 1 .. Len(queue) - 1 /\ (i - 1) + 1 = i
        BY <2>1, <4>1
      <4> QED BY <2>1, <4>2
    <3>2. ASSUME NEW i \in Unicasts(queue, r)
          PROVE  i - 1 \in Unicasts(next, r) /\ next[i - 1] = queue[i]
      BY <3>1 DEF Unicasts
    <3>3. ASSUME NEW i \in Finals(queue, r) PROVE i - 1 \in Finals(next, r)
      BY <3>1 DEF Finals
    <3> QED BY <3>2, <3>3
  <2>4. Silent(queue, r) => Silent(next, r)
    BY <2>1 DEF Silent
  <2>5. ASSUME NEW seen \in Nat, NEW k \in Nat, NEW at,
               Delivers(queue, r, seen, k, at)
        PROVE  Delivers(next, r, seen, k, at)
    <3>1. \A x \in seen + 1 .. k : \E i \in Unicasts(next, r) : next[i].no = x
      BY <2>3, <2>5 DEF Delivers
    <3>2. \A i \in Unicasts(next, r) : next[i].no \in seen + 1 .. k
      BY <2>2, <2>5 DEF Delivers
    <3>3. ASSUME NEW i \in Unicasts(next, r), NEW j \in Unicasts(next, r), i < j
          PROVE  next[i].no < next[j].no
      <4>1. /\ i + 1 \in Unicasts(queue, r) /\ next[i] = queue[i + 1]
            /\ j + 1 \in Unicasts(queue, r) /\ next[j] = queue[j + 1]
            /\ i \in Nat /\ j \in Nat
        BY <2>2
      <4>2. i + 1 < j + 1
        BY <3>3, <4>1
      <4>3. queue[i + 1].no < queue[j + 1].no
        BY <2>5, <4>1, <4>2 DEF Delivers
      <4> QED BY <4>1, <4>3
    <3>4. ASSUME NEW i \in Unicasts(next, r), NEW j \in Finals(next, r)
          PROVE  i < j
      <4>1. /\ i + 1 \in Unicasts(queue, r) /\ j + 1 \in Finals(queue, r)
            /\ i \in Nat /\ j \in Nat
        BY <2>2
      <4>2. i + 1 < j + 1
        BY <2>5, <4>1 DEF Delivers
      <4> QED BY <4>1, <4>2
    <3>5. at = "over" <=> Finals(next, r) # {}
      <4>1. Finals(queue, r) # {} <=> Finals(next, r) # {}
        BY <2>2, <2>3
      <4> QED BY <2>5, <4>1 DEF Delivers
    <3> QED BY <3>1, <3>2, <3>3, <3>4, <3>5 DEF Delivers
  <2> QED BY <2>4, <2>5
<1>5. CASE Silent(queue, r) /\ Silent(next, r)
  <2>1. /\ Unicasts(queue, r) = {} /\ Finals(queue, r) = {}
        /\ Unicasts(next, r) = {} /\ Finals(next, r) = {}
    BY <1>5 DEF Silent, Unicasts, Finals
  <2> QED BY <1>5, <2>1 DEF Delivers
<1> QED BY <1>1, <1>2, <1>3, <1>4, <1>5 DEF SameFor

\* A queue that is silent delivers nothing yet.
LEMMA SilentDelivers ==
    ASSUME NEW queue, NEW r, Silent(queue, r)
    PROVE  Delivers(queue, r, 0, 0, "none")
<1>1. Unicasts(queue, r) = {} /\ Finals(queue, r) = {}
  BY DEF Silent, Unicasts, Finals
<1> QED BY <1>1 DEF Delivers

\* A storage node sends the next message.
LEMMA NextDelivers ==
    ASSUME NEW queue \in Seq(Message), NEW m \in Message, NEW seen \in Nat, NEW k \in Nat,
           seen <= k, NEW at, at # "over", Delivers(queue, m.of, seen, k, at),
           m.type = "Unicast", m.no = k + 1
    PROVE  Delivers(Append(queue, m), m.of, seen, k + 1, at)
<1> DEFINE next == Append(queue, m)
           r == m.of
           n == Len(queue)
<1>1. /\ DOMAIN queue = 1 .. n /\ n \in Nat
      /\ DOMAIN next = 1 .. n + 1
      /\ \A i \in DOMAIN queue : next[i] = queue[i]
      /\ next[n + 1] = m
  BY Appended
<1> HIDE DEF next, n
<1>2. Unicasts(next, r) = Unicasts(queue, r) \cup {n + 1}
  BY <1>1 DEF Unicasts
<1>3. Finals(next, r) = Finals(queue, r)
  BY <1>1 DEF Finals
<1>4. \A i \in Unicasts(queue, r) : i \in 1 .. n /\ next[i] = queue[i]
  BY <1>1 DEF Unicasts
<1>5. Finals(next, r) = {}
  BY <1>3 DEF Delivers
<1>6. \A x \in seen + 1 .. k + 1 : \E i \in Unicasts(next, r) : next[i].no = x
  <2> TAKE x \in seen + 1 .. k + 1
  <2>1. CASE x = k + 1
    BY <1>1, <1>2, <2>1
  <2>2. CASE x # k + 1
    <3>1. x \in seen + 1 .. k
      BY <2>2
    <3> QED BY <1>2, <1>4, <3>1 DEF Delivers
  <2> QED BY <2>1, <2>2
<1>7. \A i \in Unicasts(next, r) : next[i].no \in seen + 1 .. k + 1
  <2> TAKE i \in Unicasts(next, r)
  <2>1. CASE i = n + 1
    BY <1>1, <2>1
  <2>2. CASE i # n + 1
    <3>1. next[i].no \in seen + 1 .. k
      BY <1>2, <1>4, <2>2 DEF Delivers
    <3> QED BY <3>1
  <2> QED BY <2>1, <2>2
<1>8. \A i, j \in Unicasts(next, r) : i < j => next[i].no < next[j].no
  <2> SUFFICES ASSUME NEW i \in Unicasts(next, r), NEW j \in Unicasts(next, r), i < j
               PROVE  next[i].no < next[j].no
    OBVIOUS
  <2>1. i \in Unicasts(queue, r) /\ i \in 1 .. n
    BY <1>1, <1>2, <1>4
  <2>2. next[i] = queue[i] /\ queue[i].no \in seen + 1 .. k
    BY <1>4, <2>1 DEF Delivers
  <2>3. CASE j = n + 1
    BY <1>1, <2>2, <2>3
  <2>4. CASE j # n + 1
    BY <1>2, <1>4, <2>1, <2>4 DEF Delivers
  <2> QED BY <2>3, <2>4
<1> QED BY <1>5, <1>6, <1>7, <1>8 DEF Delivers, next

\* A storage node sends the end.
LEMMA EndDelivers ==
    ASSUME NEW queue \in Seq(Message), NEW m \in Message, NEW seen \in Nat, NEW k \in Nat,
           NEW at, at # "over", Delivers(queue, m.of, seen, k, at), m.type # "Unicast"
    PROVE  Delivers(Append(queue, m), m.of, seen, k, "over")
<1> DEFINE next == Append(queue, m)
           r == m.of
           n == Len(queue)
<1>1. /\ DOMAIN queue = 1 .. n /\ n \in Nat
      /\ DOMAIN next = 1 .. n + 1
      /\ \A i \in DOMAIN queue : next[i] = queue[i]
      /\ next[n + 1] = m
  BY Appended
<1> HIDE DEF next, n
<1>2. Unicasts(next, r) = Unicasts(queue, r)
  BY <1>1 DEF Unicasts
<1>3. Finals(next, r) = Finals(queue, r) \cup {n + 1}
  BY <1>1 DEF Finals
<1>4. \A i \in Unicasts(queue, r) : i \in 1 .. n /\ next[i] = queue[i]
  BY <1>1 DEF Unicasts
<1>5. Finals(next, r) = {n + 1}
  BY <1>3 DEF Delivers
<1>6. \A i \in Unicasts(next, r), j \in Finals(next, r) : i < j
  BY <1>1, <1>2, <1>4, <1>5
<1> QED BY <1>2, <1>4, <1>5, <1>6 DEF Delivers, next

\* The requester gets the next message that it has not seen, ...
LEMMA HeadIsNext ==
    ASSUME NEW queue \in Seq(Message), queue # <<>>, NEW r, Head(queue).of = r,
           NEW seen \in Nat, NEW k \in Nat, NEW at,
           Delivers(queue, r, seen, k, at),
           Head(queue).type = "Unicast"
    PROVE  /\ Head(queue).no = seen + 1
           /\ seen + 1 <= k
           /\ Delivers(Tail(queue), r, seen + 1, k, at)
<1> DEFINE next == Tail(queue)
<1>1. /\ DOMAIN queue = 1 .. Len(queue) /\ Len(queue) \in Nat \ {0}
      /\ DOMAIN next = 1 .. Len(queue) - 1
      /\ \A i \in DOMAIN next : next[i] = queue[i + 1]
      /\ Head(queue) = queue[1]
  BY Served
<1>2. 1 \in Unicasts(queue, r) /\ 1 \notin Finals(queue, r)
  BY <1>1 DEF Unicasts, Finals
<1>3. queue[1].no \in seen + 1 .. k
  BY <1>2 DEF Delivers
<1>4. PICK i \in Unicasts(queue, r) : queue[i].no = seen + 1
  BY <1>3 DEF Delivers
<1>5. i = 1
  <2>1. i \in 1 .. Len(queue)
    BY <1>1 DEF Unicasts
  <2>2. SUFFICES ASSUME 1 < i PROVE FALSE
    BY <2>1
  <2>3. queue[1].no < seen + 1
    BY <1>2, <1>4, <2>2 DEF Delivers
  <2> QED BY <1>3, <2>3
<1>6. queue[1].no = seen + 1
  BY <1>4, <1>5
<1> HIDE DEF next
<1>7. /\ \A a \in Unicasts(next, r) : /\ a \in Nat \ {0} /\ a + 1 \in Unicasts(queue, r)
                                       /\ next[a] = queue[a + 1]
      /\ \A a \in Finals(next, r) : a \in Nat /\ a + 1 \in Finals(queue, r)
  <2>1. ASSUME NEW a \in DOMAIN next
        PROVE  a \in Nat \ {0} /\ a + 1 \in DOMAIN queue /\ next[a] = queue[a + 1]
    BY <1>1
  <2> QED BY <2>1 DEF Unicasts, Finals
<1>8. /\ \A a \in Unicasts(queue, r) : a # 1 => /\ a - 1 \in Unicasts(next, r)
                                                 /\ next[a - 1] = queue[a]
      /\ \A a \in Finals(queue, r) : a - 1 \in Finals(next, r)
  <2>1. ASSUME NEW a \in DOMAIN queue, a # 1
        PROVE  a - 1 \in DOMAIN next /\ next[a - 1] = queue[a]
    <3>1. a - 1 \in 1 .. Len(queue) - 1 /\ (a - 1) + 1 = a
      BY <1>1, <2>1
    <3> QED BY <1>1, <3>1
  <2>2. ASSUME NEW a \in Unicasts(queue, r), a # 1
        PROVE  a - 1 \in Unicasts(next, r) /\ next[a - 1] = queue[a]
    BY <2>1, <2>2 DEF Unicasts
  <2>3. ASSUME NEW a \in Finals(queue, r) PROVE a - 1 \in Finals(next, r)
    <3>1. a # 1
      BY <1>2
    <3> QED BY <2>1, <3>1 DEF Finals
  <2> QED BY <2>2, <2>3
<1>9. \A x \in seen + 2 .. k : \E a \in Unicasts(next, r) : next[a].no = x
  <2> TAKE x \in seen + 2 .. k
  <2>1. x \in seen + 1 .. k /\ x # seen + 1
    OBVIOUS
  <2>2. PICK a \in Unicasts(queue, r) : queue[a].no = x
    BY <2>1 DEF Delivers
  <2> QED BY <1>6, <1>8, <2>1, <2>2
<1>10. \A a \in Unicasts(next, r) : next[a].no \in seen + 2 .. k
  <2> TAKE a \in Unicasts(next, r)
  <2>1. a + 1 \in Unicasts(queue, r) /\ next[a] = queue[a + 1] /\ 1 < a + 1
    BY <1>7
  <2>2. queue[1].no < queue[a + 1].no /\ queue[a + 1].no \in seen + 1 .. k
    BY <1>2, <2>1 DEF Delivers
  <2> QED BY <1>6, <2>1, <2>2
<1>11. \A a, b \in Unicasts(next, r) : a < b => next[a].no < next[b].no
  BY <1>7 DEF Delivers
<1>12. \A a \in Unicasts(next, r), b \in Finals(next, r) : a < b
  BY <1>7 DEF Delivers
<1>13. at = "over" <=> Finals(next, r) # {}
  BY <1>7, <1>8 DEF Delivers
<1>14. seen + 1 + 1 = seen + 2
  OBVIOUS
<1>15. Delivers(next, r, seen + 1, k, at)
  BY <1>9, <1>10, <1>11, <1>12, <1>13, <1>14 DEF Delivers
<1>16. Head(queue).no = seen + 1 /\ seen + 1 <= k
  BY <1>1, <1>3, <1>6
<1> QED BY <1>15, <1>16 DEF next

\* ... or the end, when it has seen all.
LEMMA HeadIsEnd ==
    ASSUME NEW queue \in Seq(Message), queue # <<>>, NEW r, Head(queue).of = r,
           NEW seen \in Nat, NEW k \in Nat, NEW at, seen <= k,
           Delivers(queue, r, seen, k, at),
           Head(queue).type # "Unicast"
    PROVE  at = "over" /\ seen = k
<1>1. /\ DOMAIN queue = 1 .. Len(queue) /\ Len(queue) \in Nat \ {0}
      /\ Head(queue) = queue[1]
  BY Served
<1>2. 1 \in Finals(queue, r)
  BY <1>1 DEF Finals
<1>3. Unicasts(queue, r) = {}
  <2> SUFFICES ASSUME NEW i \in Unicasts(queue, r) PROVE FALSE
    OBVIOUS
  <2>1. i \in 1 .. Len(queue) /\ i < 1
    BY <1>1, <1>2 DEF Delivers, Unicasts
  <2> QED BY <2>1
<1>4. seen + 1 .. k = {}
  BY <1>3 DEF Delivers
<1> QED BY <1>2, <1>4 DEF Delivers

\* Storage nodes that have something to do with a request, or may get it
Concerns(s, r) == place[r].at # "done" /\ (place[r].at = "current" => place[r].of = s)

\* A step that is not about r
LeavesAlone(r) ==
    /\ holds' = holds
    /\ place'[r] = place[r]
    /\ stream'[Requester][r] = stream[Requester][r]
    /\ place[r].at \in {"sending", "current"} /\ place[r].of \in linked => place[r].of \in linked'
    /\ \A s \in Storage : Concerns(s, r) =>
          /\ stream'[s][r] = stream[s][r]
          /\ r \in forwarded'[s] <=> r \in forwarded[s]
          /\ SameFor(answers[s], answers'[s], r)

\* What all requests and loops are made of
LEMMA PartsHaveType ==
    ASSUME TypeOK, NEW r \in Request
    PROVE  /\ place[r] \in Place
           /\ Requester \in Node /\ Requester \notin Storage
           /\ stream[Requester][r] \in LoopType /\ holds[Requester][r] \in Nat
           /\ \A s \in Storage : /\ s \in Node
                                 /\ stream[s][r] \in LoopType /\ holds[s][r] \in Nat
                                 /\ Len(stream[s][r].given) \in Nat
                                 /\ answers[s] \in Seq(Message)
<1>1. Requester \in Node /\ \A s \in Storage : s \in Node
  BY DEF Node
<1>2. holds \in [Node -> [Request -> Nat]]
  BY HoldingsAssumption DEF TypeOK, RequesterOK
<1>3. \A loop \in LoopType : Len(loop.given) \in Nat
  BY LenProperties DEF LoopType
<1> QED BY <1>1, <1>2, <1>3, NodeAssumption DEF TypeOK, RequesterOK, StorageOK

\* Such a step leaves the request as it is.
LEMMA LeftAloneIsOK ==
    ASSUME TypeOK, TypeOK', NEW r \in Request, RequestOK(r), LeavesAlone(r)
    PROVE  RequestOK(r)'
<1>1. OwnLoop(r)'
  BY DEF RequestOK, LeavesAlone, OwnLoop
<1>2. Places(r)'
  BY DEF RequestOK, LeavesAlone, Places
<1>3. ASSUME place[r].at \notin {"current", "done"}
      PROVE  Untouched(r)'
  <2> SUFFICES ASSUME NEW s \in Storage
               PROVE  /\ stream'[s][r] = NotAsked
                      /\ r \notin forwarded'[s]
                      /\ Silent(answers'[s], r)
    BY DEF Untouched
  <2>1. /\ stream'[s][r] = stream[s][r]
        /\ r \in forwarded'[s] <=> r \in forwarded[s]
        /\ SameFor(answers[s], answers'[s], r)
    BY <1>3 DEF LeavesAlone, Concerns
  <2>2. answers[s] \in Seq(Message) /\ answers'[s] \in Seq(Message)
    BY DEF TypeOK, StorageOK
  <2> QED BY <1>3, <2>1, <2>2, SameForKeeps DEF RequestOK, Untouched
<1>4. ASSUME place[r].at = "current"
      PROVE  Answered(r)'
  <2>1. Answered(r) /\ place'[r] = place[r]
    BY <1>4 DEF RequestOK, LeavesAlone
  <2>2. PICK s : s = place[r].of
    OBVIOUS
  <2>3. s \in linked /\ s \in linked' /\ s \in Storage
    BY <1>4, <2>1, <2>2 DEF Answered, LeavesAlone, TypeOK, RequesterOK
  <2>4. /\ stream'[s][r] = stream[s][r]
        /\ r \in forwarded'[s] <=> r \in forwarded[s]
        /\ SameFor(answers[s], answers'[s], r)
        /\ stream'[Requester][r] = stream[Requester][r]
        /\ holds' = holds
    BY <1>4, <2>2, <2>3 DEF LeavesAlone, Concerns
  <2>5. LoopAhead(s, r)'
    BY <2>1, <2>2, <2>4 DEF Answered, LoopAhead
  <2>6. /\ stream[Requester][r].seen <= Len(stream[s][r].given)
        /\ Delivers(answers[s], r, stream[Requester][r].seen, Len(stream[s][r].given),
                    stream[s][r].at)
    BY <2>1, <2>2 DEF Answered
  <2>7. /\ stream[Requester][r].seen \in Nat /\ Len(stream[s][r].given) \in Nat
        /\ answers[s] \in Seq(Message) /\ answers'[s] \in Seq(Message)
    <3>1. answers'[s] \in Seq(Message)
      BY <2>3 DEF TypeOK, StorageOK
    <3> QED BY <2>3, <3>1, PartsHaveType DEF LoopType
  <2>8. Delivers(answers'[s], r, stream[Requester][r].seen, Len(stream[s][r].given),
                 stream[s][r].at)
    BY <2>4, <2>6, <2>7, SameForKeeps
  <2> QED BY <2>1, <2>2, <2>3, <2>4, <2>5, <2>6, <2>8 DEF Answered
<1> QED BY <1>1, <1>2, <1>3, <1>4 DEF RequestOK, LeavesAlone

\* No connection is closed that a request uses, so that no other is cut off.
LEMMA MovesCutsNothing ==
    ASSUME TypeOK, NEW p \in [Request -> Place], Moves(p)
    PROVE  /\ place' = p
           /\ stream' = StreamAfter(p)
           /\ holds' = holds
           /\ linked' \subseteq linked
           /\ \A r \in Request : p[r].at \in {"sending", "current"} /\ p[r].of \in linked
                                   => p[r].of \in linked'
<1>1. Cut(p, Unneeded(p))
  BY DEF Moves
<1>2. \A r \in Request : p[r].at \in {"sending", "current"} => p[r].of \notin Unneeded(p)
  BY DEF Unneeded, Using
<1>3. \A r \in Request : place'[r] = p[r]
  BY <1>1, <1>2 DEF Cut
<1>4. place' = p
  <2>1. DOMAIN place' = Request /\ DOMAIN p = Request
    BY <1>1 DEF Cut
  <2>2. place' = [r \in Request |-> place'[r]] /\ p = [r \in Request |-> p[r]]
    BY <1>1, <2>1 DEF Cut
  <2> QED BY <1>3, <2>2
<1> QED BY <1>1, <1>2, <1>4 DEF Cut

-----------------------------------------------------------------------------
\* Nothing is asked yet.
LEMMA InitIsCalm == Init => Calm
<1> SUFFICES ASSUME Init PROVE Calm
  OBVIOUS
<1>1. linked \subseteq attached /\ \A s \in Storage : paused[s] = {}
  BY DEF Init
<1>2. TypeOK
  BY InitEstablishesTypeOK
<1>3. ASSUME NEW r \in Request
      PROVE  RequestOK(r)
  <2>1. Requester \in Node /\ Storage \subseteq Node /\ holds[Requester][r] \in Nat
    BY <1>2, PartsHaveType DEF Node
  <2>2. /\ stream[Requester][r] = NotAsked
        /\ place[r] = Nowhere("none")
    BY <2>1 DEF Init
  <2>3. OwnLoop(r)
    <3>1. Numbers(0) = <<>>
      BY DEF Numbers
    <3> QED BY <2>1, <2>2, <3>1 DEF OwnLoop, NotAsked, Loop
  <2>4. Places(r)
    BY <2>2 DEF Places, NotAsked, Loop, Nowhere, At
  <2>5. Untouched(r)
    BY <2>1 DEF Init, Untouched, Silent
  <2> QED BY <2>2, <2>3, <2>4, <2>5 DEF RequestOK, Nowhere, At
<1> QED BY <1>1, <1>3 DEF Calm

\* The requester's own loop goes on.
LEMMA OwnStepsAreCalm ==
    ASSUME IInv, TypeOK', Calm, NEW r \in Request,
           Ask(r) \/ Reads(Requester, r) \/ StorageEnds(Requester, r)
    PROVE  Calm'
<1> DEFINE loop == stream[Requester][r]
           next == stream'[Requester][r]
<1>1. /\ TypeOK /\ Requester \in Node /\ Requester \notin Storage /\ RequestOK(r)
      /\ loop \in LoopType /\ holds[Requester][r] \in Nat
  BY PartsHaveType DEF IInv, Calm
<1>2. PICK becomes : Becomes(Requester, r, becomes) /\ loop.at \in {"none", "local"}
  BY DEF Ask, Reads, StorageEnds
<1>3. place[r].at = "none" /\ Untouched(r)
  BY <1>1, <1>2 DEF RequestOK, Places
<1>4. /\ \A n \in Node, q \in Request :
             n # Requester \/ q # r => stream'[n][q] = stream[n][q]
      /\ next = becomes
      /\ UNCHANGED <<holds, linked, attached, forwarded, paused>>
      /\ answers' = answers
  BY <1>1, <1>2 DEF Becomes, IInv, TypeOK, RequesterOK
<1>5. \A q \in Request : q # r => place'[q] = place[q]
  BY <1>2 DEF Becomes, IInv, TypeOK, RequesterOK
<1>6. ASSUME NEW q \in Request, q # r
      PROVE  RequestOK(q)'
  <2>1. LeavesAlone(q)
    BY <1>1, <1>4, <1>5, <1>6 DEF LeavesAlone, SameFor, Node
  <2> QED BY <1>1, <2>1, LeftAloneIsOK DEF Calm
<1>7. Untouched(r)'
  BY <1>1, <1>3, <1>4 DEF Untouched, Node
<1>8. OwnLoop(r)' /\ Places(r)' /\ place'[r].at \in {"none", "asking"}
  <2>1. OwnLoop(r) /\ Places(r)
    BY <1>1 DEF RequestOK
  <2> HIDE DEF loop, next
  <2>2. CASE Ask(r)
    <3>1. becomes = Loop("local", <<>>) /\ place' = place
      <4>1. Becomes(Requester, r, Loop("local", <<>>))
        BY <2>2 DEF Ask
      <4>2. stream'[Requester][r] = Loop("local", <<>>) /\ place' = place
        BY <1>1, <4>1 DEF Becomes, Loop, TypeOK, RequesterOK
      <4> QED BY <1>4, <4>2 DEF next
    <3>2. Numbers(0) = <<>>
      BY DEF Numbers
    <3>3. next.at = "local" /\ next.seen = 0 /\ next.given = <<>>
      BY <1>4, <3>1 DEF Loop
    <3> QED BY <1>1, <1>3, <1>4, <2>1, <3>1, <3>2, <3>3 DEF OwnLoop, Places, loop, next
  <2>3. CASE Reads(Requester, r)
    <3>1. /\ Becomes(Requester, r, Gives(loop, loop.seen + 1))
          /\ loop.at = "local" /\ loop.seen < holds[Requester][r]
      BY <2>3 DEF Reads, loop
    <3>2. loop.seen \in Nat /\ loop.given = Numbers(loop.seen)
      BY <1>1, <2>1, <3>1 DEF LoopType, OwnLoop, loop
    <3>3. /\ Gives(loop, loop.seen + 1).at = "local"
          /\ Gives(loop, loop.seen + 1).seen = loop.seen + 1
          /\ Gives(loop, loop.seen + 1).given = Append(loop.given, loop.seen + 1)
      <4>1. loop.seen + 1 \in Nat
        BY <3>2
      <4> QED BY <1>1, <3>1, <4>1, LoopsHaveType
    <3>4. next = Gives(loop, loop.seen + 1) /\ place' = place
      BY <1>1, <3>1, <3>3 DEF Becomes, TypeOK, RequesterOK, next, loop
    <3>5. Append(Numbers(loop.seen), loop.seen + 1) = Numbers(loop.seen + 1)
      BY <3>2, NumbersGrow
    <3>6. next.at = "local" /\ next.seen = loop.seen + 1 /\ next.given = Numbers(next.seen)
      BY <3>1, <3>2, <3>3, <3>4, <3>5
    <3>7. next.seen <= holds'[Requester][r]
      BY <1>1, <1>4, <3>1, <3>2, <3>6
    <3>8. OwnLoop(r)'
      BY <3>6, <3>7 DEF OwnLoop, next
    <3>9. Places(r)'
      BY <1>3, <2>1, <3>4, <3>6 DEF Places, next
    <3> QED BY <1>3, <3>4, <3>8, <3>9
  <2>4. CASE StorageEnds(Requester, r)
    <3>1. /\ Becomes(Requester, r, Ends(Requester, loop))
          /\ loop.at = "local" /\ loop.seen = holds[Requester][r]
      BY <2>4 DEF StorageEnds, loop
    <3>2. loop.given = Numbers(holds[Requester][r])
      BY <2>1, <3>1 DEF OwnLoop, loop
    <3>3. CASE loop.seen > 0
      <4>1. Ends(Requester, loop) = Over(loop)
        BY <3>3 DEF Ends
      <4>2. next = Over(loop) /\ place' = place
        BY <1>1, <3>1, <4>1, LoopsGoOn DEF Becomes, TypeOK, RequesterOK, next
      <4>3. place[r].of = Requester
        BY <1>3, <2>1 DEF Places
      <4> QED BY <1>1, <1>3, <1>4, <2>1, <3>2, <4>2, <4>3, LoopsGoOn
              DEF OwnLoop, Places, next
    <3>4. CASE ~ (loop.seen > 0)
      <4>1. holds[Requester][r] = 0
        BY <1>1, <3>1, <3>4
      <4>2. Ends(Requester, loop) = Loop("foreign", loop.given)
        BY <3>1, <3>4 DEF Ends, NextStrategy
      <4>3. /\ next = Loop("foreign", loop.given)
            /\ place'[r] = Nowhere("asking")
        BY <1>1, <3>1, <4>2 DEF Becomes, TypeOK, RequesterOK, next, loop, Loop
      <4> QED BY <1>1, <1>4, <2>1, <3>2, <4>1, <4>3
              DEF OwnLoop, Places, next, Loop, Nowhere, At
    <3> QED BY <3>3, <3>4
  <2> QED BY <2>2, <2>3, <2>4
<1>9. RequestOK(r)'
  BY <1>7, <1>8 DEF RequestOK
<1> QED BY <1>4, <1>6, <1>9 DEF Calm

\* A storage node's loop goes on, and says so.
LEMMA StorageLoopSays ==
    ASSUME TypeOK, Calm, NEW s \in Storage, NEW r \in Request,
           NEW next \in LoopType, Becomes(s, r, next), stream[s][r].at = "local",
           next.at \in {"local", "over"}, next.at = "local" => next.given # <<>>
    PROVE  \E m \in Message :
              /\ m.of = r
              /\ next.at = "local" => m.type = "Unicast" /\ m.no = Last(next.given)
              /\ next.at = "over" => m.type # "Unicast"
              /\ place' = place
              /\ stream' = [stream EXCEPT ![s][r] = next]
              /\ answers' = [answers EXCEPT ![s] = Append(@, m)]
              /\ UNCHANGED <<holds, linked, attached, forwarded, paused>>
<1>1. /\ place' = place
      /\ stream' = [stream EXCEPT ![s][r] = next]
      /\ answers' = [answers EXCEPT ![s] = @ \o Says(s, r, next)]
      /\ UNCHANGED <<holds, linked, attached, forwarded, paused>>
  BY DEF Becomes
<1>2. r \notin paused[s]
  BY DEF Calm
<1>3. PICK m : Says(s, r, next) = <<m>> /\ m = (IF next.at = "local"
                                THEN [type |-> "Unicast", of |-> r, no |-> Last(next.given)]
                                ELSE FinalResponse(r, next.given))
  BY <1>2 DEF Says
<1>4. CASE next.at = "local"
  <2>1. next.given \in Seq(Nat) /\ next.given # <<>>
    BY <1>4 DEF LoopType
  <2>2. Last(next.given) \in Nat
    BY <2>1, LenProperties, EmptySeq DEF Last
  <2>3. m \in Message /\ m.of = r /\ m.type = "Unicast" /\ m.no = Last(next.given)
    BY <1>3, <1>4, <2>2 DEF Message
  <2>4. answers[s] \o <<m>> = Append(answers[s], m)
    BY <2>3, AppendIsConcat DEF TypeOK, StorageOK
  <2> QED BY <1>1, <1>3, <1>4, <2>3, <2>4
<1>5. CASE next.at = "over"
  <2>1. m \in Message /\ m.of = r /\ m.type # "Unicast"
    BY <1>3, <1>5 DEF Message, FinalResponse
  <2>2. answers[s] \o <<m>> = Append(answers[s], m)
    BY <2>1, AppendIsConcat DEF TypeOK, StorageOK
  <2> QED BY <1>1, <1>3, <1>5, <2>1, <2>2
<1> QED BY <1>4, <1>5

\* What it says is the next message, or the end, for the request that waits for
\* it, and nothing for others.
LEMMA StorageLoopsAreCalm ==
    ASSUME IInv, TypeOK', Calm, NEW s \in Storage, NEW r \in Request,
           Reads(s, r) \/ StorageEnds(s, r)
    PROVE  Calm'
<1> DEFINE loop == stream[s][r]
           k == Len(loop.given)
<1>1. /\ TypeOK /\ Requester \in Node /\ Requester # s /\ s \in Node
      /\ loop \in LoopType /\ holds[s][r] \in Nat /\ k \in Nat
      /\ answers[s] \in Seq(Message)
  BY PartsHaveType DEF IInv
<1>2. loop.at = "local"
  BY DEF Reads, StorageEnds
<1> HIDE DEF loop, k
<1>3. PICK next \in LoopType :
          /\ Becomes(s, r, next)
          /\ next.at \in {"local", "over"}
          /\ next.at = "local" => /\ loop.seen < holds[s][r]
                                  /\ next.seen = loop.seen + 1
                                  /\ next.given = Append(loop.given, loop.seen + 1)
          /\ next.at = "over" => loop.seen = holds[s][r] /\ next.given = loop.given
  <2>1. CASE Reads(s, r)
    <3>1. loop.seen + 1 \in Nat
      BY <1>1 DEF LoopType
    <3>2. PICK next : next = Gives(loop, loop.seen + 1)
      OBVIOUS
    <3>3. /\ next \in LoopType /\ next.at = "local" /\ next.seen = loop.seen + 1
          /\ next.given = Append(loop.given, loop.seen + 1)
      BY <1>1, <1>2, <3>1, <3>2, LoopsHaveType
    <3>4. Becomes(s, r, next) /\ loop.seen < holds[s][r]
      BY <2>1, <3>2 DEF Reads, loop
    <3> QED BY <3>3, <3>4
  <2>2. CASE StorageEnds(s, r)
    <3>1. Ends(s, loop) = Over(loop)
      BY <1>1 DEF Ends, NextStrategy
    <3> QED BY <1>1, <2>2, <3>1, LoopsHaveType, LoopsGoOn DEF StorageEnds, loop
  <2> QED BY <2>1, <2>2
<1>4. next.at = "local" => next.given # <<>>
  <2>1. loop.seen + 1 \in Nat /\ loop.given \in Seq(Nat)
    BY <1>1 DEF LoopType
  <2>2. Append(loop.given, loop.seen + 1) # <<>>
    BY <2>1
  <2> QED BY <1>3, <2>2
<1>5. PICK m \in Message :
          /\ m.of = r
          /\ next.at = "local" => m.type = "Unicast" /\ m.no = Last(next.given)
          /\ next.at = "over" => m.type # "Unicast"
          /\ place' = place
          /\ stream' = [stream EXCEPT ![s][r] = next]
          /\ answers' = [answers EXCEPT ![s] = Append(@, m)]
          /\ UNCHANGED <<holds, linked, attached, forwarded, paused>>
  BY <1>1, <1>2, <1>3, <1>4, StorageLoopSays DEF loop
<1>6. /\ \A n \in Node, q \in Request : n # s \/ q # r => stream'[n][q] = stream[n][q]
      /\ stream'[s][r] = next
      /\ \A t \in Storage : t # s => answers'[t] = answers[t]
      /\ answers'[s] = Append(answers[s], m)
  BY <1>1, <1>5 DEF TypeOK, RequesterOK, StorageOK
<1>7. ASSUME NEW q \in Request, q # r
      PROVE  RequestOK(q)'
  <2>1. \A t \in Storage : SameFor(answers[t], answers'[t], q)
    BY <1>5, <1>6, <1>7 DEF SameFor
  <2>2. \A n \in Node : stream'[n][q] = stream[n][q]
    BY <1>6, <1>7
  <2>3. LeavesAlone(q)
    BY <1>1, <1>5, <2>1, <2>2 DEF LeavesAlone, Node
  <2> QED BY <1>1, <2>3, LeftAloneIsOK DEF Calm
<1>8. RequestOK(r) /\ stream'[Requester][r] = stream[Requester][r]
  BY <1>1, <1>6 DEF Calm
<1>9. RequestOK(r)'
  <2>1. place[r].at \in {"current", "done"}
    <3>1. loop.at # "none"
      BY <1>2
    <3> QED BY <1>8, <3>1 DEF RequestOK, Untouched, NotAsked, Loop, loop
  <2>2. CASE ~ (place[r].at = "current" /\ place[r].of = s)
    <3>1. \A t \in Storage : Concerns(t, r) => t # s
      BY <2>1, <2>2 DEF Concerns
    <3>2. LeavesAlone(r)
      BY <1>1, <1>5, <1>6, <1>8, <3>1 DEF LeavesAlone, SameFor, Node
    <3> QED BY <1>1, <1>8, <3>2, LeftAloneIsOK
  <2>3. CASE place[r].at = "current" /\ place[r].of = s
    <3> DEFINE seen == stream[Requester][r].seen
    <3>1. /\ s \in linked /\ LoopAhead(s, r) /\ seen <= k
          /\ Delivers(answers[s], r, seen, k, loop.at)
          /\ seen \in Nat
      BY <1>1, <1>8, <2>3, PartsHaveType DEF RequestOK, Answered, LoopType, loop, k
    <3>2. /\ loop.given = Numbers(k) /\ loop.seen = k /\ r \notin forwarded[s]
          /\ k <= holds[s][r]
      BY <1>2, <3>1 DEF LoopAhead, loop, k
    <3> HIDE DEF seen
    <3>3. CASE next.at = "local"
      <4>1. next.given = Numbers(k + 1) /\ next.seen = k + 1 /\ k + 1 <= holds[s][r]
        <5>1. /\ next.given = Append(loop.given, loop.seen + 1)
              /\ next.seen = loop.seen + 1 /\ loop.seen < holds[s][r]
          BY <1>3, <3>3
        <5>2. Append(Numbers(k), k + 1) = Numbers(k + 1)
          BY <1>1, NumbersGrow
        <5> QED BY <1>1, <3>2, <5>1, <5>2
      <4>2. Len(next.given) = k + 1 /\ Last(next.given) = k + 1
        <5>1. k + 1 \in Nat
          BY <1>1
        <5>2. Len(Numbers(k + 1)) = k + 1
          BY <5>1, NumbersGrow
        <5>3. Numbers(k + 1)[k + 1] = k + 1
          BY <1>1 DEF Numbers
        <5> QED BY <4>1, <5>2, <5>3 DEF Last
      <4>3. Delivers(Append(answers[s], m), r, seen, k + 1, next.at)
        BY <1>1, <1>2, <1>5, <3>1, <3>3, <4>2, NextDelivers
      <4>4. LoopAhead(s, r)'
        BY <1>5, <1>6, <3>2, <3>3, <4>1, <4>2 DEF LoopAhead
      <4>5. seen <= k + 1
        BY <1>1, <3>1
      <4>6. Answered(r)'
        BY <1>5, <1>6, <1>8, <2>3, <3>1, <4>2, <4>3, <4>4, <4>5 DEF Answered, seen
      <4> QED BY <1>5, <1>8, <2>3, <4>6 DEF RequestOK, OwnLoop, Places
    <3>4. CASE next.at = "over"
      <4>1. next.given = loop.given /\ k = holds[s][r]
        BY <1>3, <3>2, <3>4
      <4>2. Len(next.given) = k
        BY <4>1 DEF k
      <4>3. Delivers(Append(answers[s], m), r, seen, k, next.at)
        BY <1>1, <1>2, <1>5, <3>1, <3>4, EndDelivers
      <4>4. LoopAhead(s, r)'
        BY <1>5, <1>6, <3>2, <3>4, <4>1, <4>2 DEF LoopAhead
      <4>5. Answered(r)'
        BY <1>5, <1>6, <1>8, <2>3, <3>1, <4>2, <4>3, <4>4 DEF Answered, seen
      <4> QED BY <1>5, <1>8, <2>3, <4>5 DEF RequestOK, OwnLoop, Places
    <3> QED BY <1>3, <3>3, <3>4
  <2> QED BY <2>2, <2>3
<1> QED BY <1>5, <1>7, <1>9 DEF Calm

\* A request gets to the storage node that has been asked.
LEMMA RequestedIsCalm ==
    ASSUME IInv, TypeOK', Calm, NEW s \in Storage, NEW r \in Request, Requested(s, r)
    PROVE  Calm'
<1>1. /\ TypeOK /\ Requester \in Node /\ Requester # s /\ s \in Node
  BY PartsHaveType DEF IInv
<1>2. /\ r \in forwarded[s]
      /\ stream' = [stream EXCEPT ![s][r] = Loop("local", <<>>)]
      /\ forwarded' = [forwarded EXCEPT ![s] = @ \ {r}]
      /\ UNCHANGED <<holds, place, linked, attached, answers, paused>>
  BY DEF Requested, requesterVars
<1>3. /\ \A n \in Node, q \in Request : n # s \/ q # r => stream'[n][q] = stream[n][q]
      /\ stream'[s][r] = Loop("local", <<>>)
      /\ \A t \in Storage, q \in Request :
             t # s \/ q # r => (q \in forwarded'[t] <=> q \in forwarded[t])
      /\ r \notin forwarded'[s]
  BY <1>1, <1>2 DEF TypeOK, RequesterOK, StorageOK
<1>4. ASSUME NEW q \in Request, q # r
      PROVE  RequestOK(q)'
  <2>1. LeavesAlone(q)
    BY <1>1, <1>2, <1>3, <1>4 DEF LeavesAlone, SameFor, Node
  <2> QED BY <1>1, <2>1, LeftAloneIsOK DEF Calm
<1>5. RequestOK(r) /\ stream'[Requester][r] = stream[Requester][r]
  BY <1>1, <1>3 DEF Calm
<1>6. RequestOK(r)'
  <2>1. place[r].at \in {"current", "done"}
    BY <1>2, <1>5 DEF RequestOK, Untouched
  <2>2. CASE ~ (place[r].at = "current" /\ place[r].of = s)
    <3>1. \A t \in Storage : Concerns(t, r) => t # s
      BY <2>1, <2>2 DEF Concerns
    <3>2. LeavesAlone(r)
      BY <1>1, <1>2, <1>3, <1>5, <3>1 DEF LeavesAlone, SameFor, Node
    <3> QED BY <1>1, <1>5, <3>2, LeftAloneIsOK
  <2>3. CASE place[r].at = "current" /\ place[r].of = s
    <3>1. /\ Answered(r) /\ LoopAhead(s, r) /\ stream[s][r].at = "none"
          /\ Len(stream[s][r].given) = 0
      BY <1>2, <1>5, <2>3 DEF RequestOK, Answered, LoopAhead
    <3>2. /\ stream'[s][r].at = "local" /\ stream'[s][r].seen = 0
          /\ stream'[s][r].given = <<>> /\ Len(stream'[s][r].given) = 0
      BY <1>3 DEF Loop
    <3>3. LoopAhead(s, r)'
      <4>1. Numbers(0) = <<>>
        BY DEF Numbers
      <4>2. holds'[s][r] = holds[s][r] /\ 0 <= holds[s][r]
        BY <1>2, <3>1 DEF LoopAhead
      <4> QED BY <1>3, <3>2, <4>1, <4>2 DEF LoopAhead
    <3>4. Delivers(answers[s], r, stream[Requester][r].seen, 0, "local")
      <4>1. Delivers(answers[s], r, stream[Requester][r].seen, 0, "none")
        BY <2>3, <3>1 DEF Answered
      <4> QED BY <4>1 DEF Delivers
    <3>5. Answered(r)'
      BY <1>2, <1>5, <2>3, <3>1, <3>2, <3>3, <3>4 DEF Answered
    <3> QED BY <1>2, <1>5, <2>3, <3>5 DEF RequestOK, OwnLoop, Places
  <2> QED BY <2>2, <2>3
<1> QED BY <1>2, <1>4, <1>6 DEF Calm

\* The tracker is asked.
LEMMA AskTrackerIsCalm ==
    ASSUME IInv, TypeOK', Calm, NEW r \in Request, AskTracker(r)
    PROVE  Calm'
<1>1. /\ TypeOK /\ RequestOK(r) /\ place[r].at = "asking"
      /\ place' = [place EXCEPT ![r] = Nowhere("pending")]
      /\ UNCHANGED <<holds, stream, linked, attached, forwarded, answers, paused>>
  BY DEF AskTracker, storageVars, IInv, Calm
<1>2. /\ \A q \in Request : q # r => place'[q] = place[q]
      /\ place'[r] = Nowhere("pending")
  BY <1>1 DEF TypeOK, RequesterOK
<1>3. ASSUME NEW q \in Request, q # r
      PROVE  RequestOK(q)'
  <2>1. LeavesAlone(q)
    BY <1>1, <1>2, <1>3 DEF LeavesAlone, SameFor
  <2> QED BY <1>1, <2>1, LeftAloneIsOK DEF Calm
<1>4. /\ Untouched(r) /\ OwnLoop(r) /\ stream[Requester][r].seen = 0
      /\ stream[Requester][r].at = "foreign"
  <2>1. stream[Requester][r].at \in {"none", "local", "foreign", "over"}
    BY <1>1, PartsHaveType DEF LoopType
  <2> QED BY <1>1, <2>1 DEF RequestOK, Places
<1>5. Untouched(r)'
  BY <1>1, <1>4 DEF Untouched
<1>6. OwnLoop(r)' /\ Places(r)'
  BY <1>1, <1>2, <1>4 DEF OwnLoop, Places, Nowhere, At
<1>7. RequestOK(r)'
  BY <1>2, <1>5, <1>6 DEF RequestOK, Nowhere, At
<1> QED BY <1>1, <1>3, <1>7 DEF Calm

\* Its answer is the first node to be tried, or that there is none.
LEMMA StorageNodesResponseIsCalm ==
    ASSUME IInv, TypeOK', Calm, NEW list \in NodeLists, StorageNodesResponse(list)
    PROVE  Calm'
<1> DEFINE rs == {r \in Request : place[r].at = "pending"}
           p == Placed(rs, [r \in rs |-> Tries(list)])
<1>1. /\ TypeOK /\ Requester \in Node /\ Requester \notin Storage
      /\ UNCHANGED storageVars
  BY NodeAssumption DEF IInv, StorageNodesResponse, Node
<1>2. list \in Seq(Storage)
  BY NodeListsAssumption
<1>3. p \in [Request -> Place]
  BY <1>1, <1>2, PlacesHaveType DEF Placed, TypeOK, RequesterOK
<1>4. Moves(p)
  BY DEF StorageNodesResponse
<1>5. \A r \in Request : IF place[r].at = "pending" THEN p[r] = Tries(list) ELSE p[r] = place[r]
  BY DEF Placed
<1> HIDE DEF p, rs
<1>6. /\ place' = p
      /\ stream' = StreamAfter(p)
      /\ holds' = holds
      /\ linked' \subseteq linked
      /\ \A r \in Request : p[r].at \in {"sending", "current"} /\ p[r].of \in linked
                              => p[r].of \in linked'
  BY <1>1, <1>3, <1>4, MovesCutsNothing
<1>7. /\ \A n \in Node : n # Requester => stream'[n] = stream[n]
      /\ \A r \in Request : p[r].at # "done" \/ place[r].at = "done" =>
             stream'[Requester][r] = stream[Requester][r]
      /\ \A r \in Request :
             p[r].at = "done" /\ place[r].at # "done" /\ stream[Requester][r].at = "foreign"
             => stream'[Requester][r] = Ends(Requester, stream[Requester][r])
  BY <1>1, <1>6, StreamAfterKeeps DEF TypeOK
<1>8. UNCHANGED <<attached, forwarded, answers, paused>>
  BY <1>1 DEF storageVars
<1>9. \A s \in Storage, r \in Request : stream'[s][r] = stream[s][r]
  BY <1>1, <1>7 DEF Node
<1>10. ASSUME NEW r \in Request, place[r].at # "pending"
       PROVE  RequestOK(r)'
  <2>1. p[r] = place[r]
    BY <1>5, <1>10
  <2>2. LeavesAlone(r)
    BY <1>6, <1>7, <1>8, <1>9, <2>1 DEF LeavesAlone, SameFor
  <2> QED BY <1>1, <2>2, LeftAloneIsOK DEF Calm
<1>11. ASSUME NEW r \in Request, place[r].at = "pending"
       PROVE  RequestOK(r)'
  <2> DEFINE loop == stream[Requester][r]
  <2>1. RequestOK(r) /\ p[r] = Tries(list) /\ loop \in LoopType
    BY <1>1, <1>5, <1>11, PartsHaveType DEF Calm
  <2>2. Untouched(r) /\ OwnLoop(r) /\ Places(r)
    BY <1>11, <2>1 DEF RequestOK
  <2>3. loop.at = "foreign" /\ loop.seen = 0
    BY <1>11, <2>1, <2>2 DEF Places, LoopType
  <2>4. Untouched(r)'
    BY <1>8, <1>9, <2>2 DEF Untouched
  <2>5. CASE list = <<>>
    <3>1. p[r].at = "done" /\ p[r].of = Requester
      BY <2>1, <2>5 DEF Tries, Nowhere, At
    <3>2. stream'[Requester][r] = Ends(Requester, loop)
      BY <1>7, <1>11, <2>3, <3>1
    <3>3. Ends(Requester, loop) = Over(loop)
      BY <2>3 DEF Ends, NextStrategy
    <3>4. loop.given = Numbers(holds[Requester][r])
      BY <2>2, <2>3 DEF OwnLoop
    <3>5. OwnLoop(r)'
      BY <1>6, <3>1, <3>2, <3>3, <3>4, LoopsGoOn DEF OwnLoop
    <3>6. Places(r)'
      BY <1>6, <3>1, <3>2, <3>3, LoopsGoOn DEF Places
    <3> QED BY <1>6, <3>1, <3>5, <3>6 DEF RequestOK
  <2>6. CASE list # <<>>
    <3>1. \/ p[r].at = "sending" /\ p[r].of \in linked
          \/ p[r].at = "dialing"
      BY <2>1, <2>6 DEF Tries, At
    <3>2. p[r].at = "sending" => p[r].of \in linked'
      BY <1>6, <3>1
    <3>3. stream'[Requester][r] = loop
      BY <1>7, <3>1
    <3>4. OwnLoop(r)'
      BY <1>6, <2>2, <2>3, <3>3 DEF OwnLoop
    <3>5. Places(r)'
      BY <1>6, <2>3, <3>1, <3>2, <3>3 DEF Places
    <3> QED BY <1>6, <2>4, <3>1, <3>4, <3>5 DEF RequestOK
  <2> QED BY <2>5, <2>6
<1>12. linked' \subseteq attached' /\ \A s \in Storage : paused'[s] = {}
  BY <1>6, <1>8 DEF Calm
<1> QED BY <1>10, <1>11, <1>12 DEF Calm

\* A connection is there for all that dial it.
LEMMA ConnectedIsCalm ==
    ASSUME IInv, TypeOK', Calm, NEW s \in Storage, Connected(s)
    PROVE  Calm'
<1>1. /\ TypeOK
      /\ UNCHANGED <<holds, stream, forwarded, answers, paused>>
      /\ linked' = linked \cup {s}
      /\ attached' = attached \cup {s}
      /\ \A r \in Request : IF place[r].at = "dialing" /\ place[r].of = s
                            THEN place'[r] = At("sending", s, <<>>)
                            ELSE place'[r] = place[r]
  BY DEF Connected, Placed, Dialing, IInv
<1>2. ASSUME NEW r \in Request
      PROVE  RequestOK(r)'
  <2>1. CASE ~ (place[r].at = "dialing" /\ place[r].of = s)
    <3>1. LeavesAlone(r)
      BY <1>1, <2>1 DEF LeavesAlone, SameFor
    <3> QED BY <1>1, <3>1, LeftAloneIsOK DEF Calm
  <2>2. CASE place[r].at = "dialing" /\ place[r].of = s
    <3>1. RequestOK(r) /\ stream[Requester][r].at \in {"none", "local", "foreign", "over"}
      BY <1>1, PartsHaveType DEF Calm, LoopType
    <3>2. /\ Untouched(r) /\ OwnLoop(r) /\ stream[Requester][r].seen = 0
          /\ stream[Requester][r].at = "foreign"
      BY <2>2, <3>1 DEF RequestOK, Places
    <3>3. place'[r].at = "sending" /\ place'[r].of = s /\ s \in linked'
      BY <1>1, <2>2 DEF At
    <3>4. OwnLoop(r)' /\ Places(r)' /\ Untouched(r)'
      BY <1>1, <3>2, <3>3 DEF OwnLoop, Places, Untouched
    <3> QED BY <3>3, <3>4 DEF RequestOK
  <2> QED BY <2>1, <2>2
<1>3. linked' \subseteq attached' /\ \A t \in Storage : paused'[t] = {}
  BY <1>1 DEF Calm
<1> QED BY <1>2, <1>3 DEF Calm

\* A request leaves for a storage node that knows nothing of it.
LEMMA ForwardIsCalm ==
    ASSUME IInv, TypeOK', Calm, NEW r \in Request, Forward(r)
    PROVE  Calm'
<1>1. PICK s : s = place[r].of
  OBVIOUS
<1>2. TypeOK /\ s \in linked /\ s \in attached /\ s \in Storage /\ place[r].at = "sending"
  BY <1>1 DEF IInv, TypeOK, RequesterOK, Calm, Forward
<1>3. /\ place' = [place EXCEPT ![r].at = "current"]
      /\ forwarded' = [forwarded EXCEPT ![s] = @ \cup {r}]
      /\ UNCHANGED <<holds, stream, linked, attached, answers, paused>>
  BY <1>1, <1>2 DEF Forward
<1>4. /\ \A q \in Request : q # r => place'[q] = place[q]
      /\ place'[r].at = "current" /\ place'[r].of = s
      /\ \A q \in Request, t \in Storage :
             q # r => (q \in forwarded'[t] <=> q \in forwarded[t])
      /\ r \in forwarded'[s]
  BY <1>1, <1>2, <1>3 DEF TypeOK, RequesterOK, StorageOK, Place
<1>5. ASSUME NEW q \in Request, q # r
      PROVE  RequestOK(q)'
  <2>1. LeavesAlone(q)
    BY <1>3, <1>4, <1>5 DEF LeavesAlone, SameFor
  <2> QED BY <1>2, <2>1, LeftAloneIsOK DEF Calm
<1>6. RequestOK(r) /\ stream[Requester][r].at \in {"none", "local", "foreign", "over"}
  BY <1>2, PartsHaveType DEF Calm, LoopType
<1>7. /\ Untouched(r) /\ OwnLoop(r) /\ stream[Requester][r].seen = 0
      /\ stream[Requester][r].at = "foreign"
  BY <1>2, <1>6 DEF RequestOK, Places
<1>8. /\ stream[s][r].at = "none" /\ stream[s][r].given = <<>>
      /\ Silent(answers[s], r) /\ holds[s][r] \in Nat
  BY <1>2, <1>7, PartsHaveType DEF Untouched, NotAsked, Loop
<1>9. LoopAhead(s, r)'
  <2>1. Numbers(0) = <<>>
    BY DEF Numbers
  <2> QED BY <1>3, <1>4, <1>8, <2>1 DEF LoopAhead
<1>10. Delivers(answers[s], r, 0, 0, "none")
  BY <1>8, SilentDelivers
<1>11. Answered(r)'
  <2>1. Len(stream[s][r].given) = 0
    BY <1>8
  <2> QED BY <1>2, <1>3, <1>4, <1>7, <1>8, <1>9, <1>10, <2>1 DEF Answered
<1>12. OwnLoop(r)' /\ Places(r)'
  BY <1>3, <1>4, <1>7 DEF OwnLoop, Places
<1>13. RequestOK(r)'
  BY <1>4, <1>11, <1>12 DEF RequestOK
<1> QED BY <1>3, <1>5, <1>13 DEF Calm

\* A storage node that has nothing to do with the requester any more loses it.
LEMMA RequesterLostIsCalm ==
    ASSUME IInv, TypeOK', Calm, NEW s \in Storage, RequesterLost(s), s \notin linked
    PROVE  Calm'
<1>1. /\ TypeOK /\ Requester \in Node /\ Requester # s /\ s \in Node
      /\ answers[s] \in Seq(Message)
  BY NodeAssumption DEF IInv, TypeOK, StorageOK, Node
<1>2. /\ UNCHANGED <<holds, place, linked>>
      /\ attached' = attached \ {s}
      /\ paused' = [paused EXCEPT ![s] = {}]
      /\ forwarded' = [forwarded EXCEPT ![s] = {}]
      /\ stream' = Cancelled(s)
  BY DEF RequesterLost, requesterVars
<1>3. PICK k \in 1 .. Len(answers[s]) + 1 :
          answers' = [answers EXCEPT ![s] = SubSeq(@, k, Len(@))]
  BY DEF RequesterLost
<1>4. \A n \in Node : n # s => stream'[n] = stream[n]
  BY <1>1, <1>2, CancelledKeeps DEF TypeOK
<1>5. \A r \in Request : Silent(answers[s], r) => Silent(answers'[s], r)
  <2>1. answers'[s] = SubSeq(answers[s], k, Len(answers[s])) /\ Len(answers[s]) \in Nat
    BY <1>1, <1>3 DEF TypeOK, StorageOK
  <2>2. /\ DOMAIN answers[s] = 1 .. Len(answers[s])
        /\ DOMAIN answers'[s] = 1 .. Len(answers[s]) - k + 1
        /\ \A i \in DOMAIN answers'[s] : answers'[s][i] = answers[s][k + i - 1]
    BY <1>1, <2>1
  <2>3. \A i \in 1 .. Len(answers[s]) - k + 1 : k + i - 1 \in 1 .. Len(answers[s])
    BY <2>1
  <2>4. \A i \in DOMAIN answers'[s] :
            \E j \in DOMAIN answers[s] : answers'[s][i] = answers[s][j]
    BY <2>2, <2>3
  <2> TAKE r \in Request
  <2>5. Silent(answers[s], r) => \A i \in DOMAIN answers'[s] : answers'[s][i].of # r
    BY <2>4 DEF Silent
  <2> QED BY <2>5 DEF Silent
<1>6. ASSUME NEW r \in Request
      PROVE  LeavesAlone(r)
  <2>1. RequestOK(r)
    BY DEF Calm
  <2>2. ASSUME NEW t \in Storage, Concerns(t, r)
        PROVE  /\ stream'[t][r] = stream[t][r]
               /\ r \in forwarded'[t] <=> r \in forwarded[t]
               /\ SameFor(answers[t], answers'[t], r)
    <3>1. CASE t # s
      BY <1>2, <1>3, <1>4, <3>1 DEF SameFor, TypeOK, StorageOK, Node
    <3>2. CASE t = s
      <4>1. Untouched(r)
        BY <2>1, <2>2, <3>2 DEF RequestOK, Answered, Concerns
      <4>2. /\ stream[s][r] = NotAsked
            /\ r \notin forwarded[s] /\ Silent(answers[s], r)
        BY <4>1 DEF Untouched
      <4>3. stream'[s][r] = stream[s][r]
        <5>1. ~ Runs(s, r)
          BY <4>2 DEF Runs, NotAsked, Loop
        <5> QED BY <1>1, <1>2, <5>1 DEF Cancelled, TypeOK, RequesterOK
      <4>4. r \notin forwarded'[s]
        BY <1>1, <1>2 DEF TypeOK, StorageOK
      <4> QED BY <1>5, <3>2, <4>2, <4>3, <4>4 DEF SameFor
    <3> QED BY <3>1, <3>2
  <2>3. stream'[Requester][r] = stream[Requester][r]
    BY <1>1, <1>4
  <2> QED BY <1>2, <2>2, <2>3 DEF LeavesAlone
<1>7. \A r \in Request : RequestOK(r)'
  BY <1>1, <1>6, LeftAloneIsOK DEF Calm
<1>8. linked' \subseteq attached' /\ \A t \in Storage : paused'[t] = {}
  BY <1>1, <1>2 DEF Calm, TypeOK, StorageOK
<1> QED BY <1>7, <1>8 DEF Calm

\* The requester gets an answer.
LEMMA ReceiveIsCalm ==
    ASSUME IInv, TypeOK', Calm, NEW s \in Storage, Receive(s)
    PROVE  Calm'
<1>1. /\ TypeOK /\ Requester \in Node /\ Requester # s
      /\ answers[s] \in Seq(Message) /\ answers[s] # <<>>
  BY NodeAssumption DEF IInv, TypeOK, StorageOK, Node, Receive
<1>2. PICK m \in Message, r \in Request : m = Head(answers[s]) /\ r = m.of
  <2>1. Head(answers[s]) \in Message
    BY <1>1
  <2> QED BY <2>1 DEF Message
<1>3. /\ answers'[s] = Tail(answers[s])
      /\ \A t \in Storage : t # s => answers'[t] = answers[t]
      /\ UNCHANGED <<attached, forwarded, paused>>
  BY <1>1 DEF Receive, TypeOK, StorageOK
<1>4. RequestOK(r)
  BY <1>2 DEF Calm
<1>5. /\ IF IsFor(m, s) /\ m.type \in {"Resent", "NoResend"}
         THEN Moves(Done({r}))
         ELSE /\ IF IsFor(m, s) /\ m.type = "Unicast" /\ stream[Requester][r].at = "foreign"
                 THEN stream' = [stream EXCEPT ![Requester][r] = Gives(@, m.no)]
                 ELSE UNCHANGED stream
              /\ UNCHANGED <<holds, requesterVars>>
  BY <1>2 DEF Receive
<1>6. \A q \in Request : q # r => \A t \in Storage : SameFor(answers[t], answers'[t], q)
  BY <1>1, <1>2, <1>3 DEF SameFor
<1>7. ASSUME NEW q \in Request, q # r,
             holds' = holds, place'[q] = place[q], stream'[Requester][q] = stream[Requester][q],
             \A t \in Storage : stream'[t][q] = stream[t][q],
             place[q].at \in {"sending", "current"} /\ place[q].of \in linked
                 => place[q].of \in linked'
      PROVE  RequestOK(q)'
  <2>1. LeavesAlone(q)
    BY <1>3, <1>6, <1>7 DEF LeavesAlone
  <2> QED BY <1>1, <1>7, <2>1, LeftAloneIsOK DEF Calm
<1>8. m.of = r /\ (IsFor(m, s) <=> place[r].at = "current" /\ place[r].of = s)
  BY <1>2 DEF IsFor
<1>9. ASSUME IsFor(m, s)
      PROVE  /\ LoopAhead(s, r)
             /\ stream[Requester][r].seen <= Len(stream[s][r].given)
             /\ Delivers(answers[s], r, stream[Requester][r].seen, Len(stream[s][r].given),
                         stream[s][r].at)
             /\ stream[Requester][r].seen \in Nat /\ Len(stream[s][r].given) \in Nat
             /\ stream[Requester][r].at = "foreign"
             /\ stream[Requester][r].given = Numbers(stream[Requester][r].seen)
             /\ holds[Requester][r] = 0 /\ s \in linked
  <2>1. /\ stream[Requester][r] \in LoopType
        /\ Len(stream[s][r].given) \in Nat
    BY <1>1, <1>2, PartsHaveType
  <2>2. Answered(r) /\ Places(r) /\ OwnLoop(r)
    BY <1>4, <1>8, <1>9 DEF RequestOK
  <2>3. stream[Requester][r].at = "foreign"
    BY <1>8, <1>9, <2>1, <2>2 DEF Places, LoopType
  <2> QED BY <1>8, <1>9, <2>1, <2>2, <2>3 DEF Answered, OwnLoop, LoopType
<1>10. CASE IsFor(m, s) /\ m.type \in {"Resent", "NoResend"}
  <2>1. Moves(Done({r})) /\ Done({r}) \in [Request -> Place]
    BY <1>1, <1>5, <1>10, PlacesHaveType DEF TypeOK
  <2> DEFINE p == Done({r})
  <2>2. /\ \A q \in Request : q # r => p[q] = place[q]
        /\ p[r].at = "done" /\ p[r].of = s
    BY <1>1, <1>2, <1>8, <1>10 DEF Done, Placed, TypeOK, RequesterOK, Place
  <2> HIDE DEF p
  <2>3. /\ place' = p
        /\ stream' = StreamAfter(p)
        /\ holds' = holds
        /\ linked' \subseteq linked
        /\ \A q \in Request : p[q].at \in {"sending", "current"} /\ p[q].of \in linked
                                => p[q].of \in linked'
    BY <1>1, <2>1, MovesCutsNothing DEF p
  <2>4. /\ \A n \in Node : n # Requester => stream'[n] = stream[n]
        /\ \A q \in Request : q # r => stream'[Requester][q] = stream[Requester][q]
        /\ stream'[Requester][r] = Ends(Requester, stream[Requester][r])
    <3>1. RequesterOK /\ stream' = StreamAfter(p)
      BY <1>1, <2>3 DEF TypeOK
    <3>2. \A n \in Node : n # Requester => stream'[n] = stream[n]
      BY <3>1, StreamAfterKeeps
    <3>3. ASSUME NEW q \in Request, q # r
          PROVE  stream'[Requester][q] = stream[Requester][q]
      <4>1. p[q] = place[q]
        BY <2>2, <3>3
      <4>2. \/ stream'[Requester][q] = stream[Requester][q]
            \/ p[q].at = "done" /\ place[q].at # "done"
        BY <3>1, StreamAfterKeeps
      <4> QED BY <4>1, <4>2
    <3>4. stream'[Requester][r] = Ends(Requester, stream[Requester][r])
      <4>1. p[r].at = "done" /\ place[r].at # "done" /\ stream[Requester][r].at = "foreign"
        BY <1>8, <1>9, <1>10, <2>2
      <4> QED BY <3>1, <4>1, StreamAfterKeeps
    <3> QED BY <3>2, <3>3, <3>4
  <2>5. \A t \in Storage, q \in Request : stream'[t][q] = stream[t][q]
    BY <1>1, <2>4, NodeAssumption DEF Node
  <2>6. \A q \in Request : q # r => RequestOK(q)'
    BY <1>7, <2>2, <2>3, <2>4, <2>5
  <2>7. Ends(Requester, stream[Requester][r]) = Over(stream[Requester][r])
    BY <1>9, <1>10 DEF Ends, NextStrategy
  <2>8. stream[Requester][r].given = Numbers(holds[s][r])
    <3>1. m.type # "Unicast" /\ Head(answers[s]) = m
      BY <1>2, <1>10
    <3>2. /\ stream[s][r].at = "over"
          /\ stream[Requester][r].seen = Len(stream[s][r].given)
      BY <1>1, <1>8, <1>9, <1>10, <3>1, HeadIsEnd
    <3> QED BY <1>9, <1>10, <3>2 DEF LoopAhead
  <2>9. OwnLoop(r)' /\ Places(r)'
    BY <2>2, <2>3, <2>4, <2>7, <2>8, LoopsGoOn DEF OwnLoop, Places
  <2>10. RequestOK(r)'
    BY <2>2, <2>3, <2>9 DEF RequestOK
  <2> QED BY <1>3, <2>3, <2>6, <2>10 DEF Calm
<1>11. CASE IsFor(m, s) /\ m.type = "Unicast"
  <2> DEFINE loop == stream[Requester][r]
             k == Len(stream[s][r].given)
  <2>1. /\ stream' = [stream EXCEPT ![Requester][r] = Gives(@, m.no)]
        /\ UNCHANGED <<holds, place, linked>>
    BY <1>5, <1>9, <1>11 DEF requesterVars
  <2>2. m.no \in Nat
    BY <1>2 DEF Message
  <2>3. loop \in LoopType
    BY <1>1, <1>2, PartsHaveType
  <2> DEFINE next == Gives(loop, m.no)
  <2>4. stream' = [stream EXCEPT ![Requester][r] = next]
    BY <2>1
  <2>5. /\ next.at = loop.at /\ next.seen = loop.seen + 1
        /\ next.given = Append(loop.given, m.no)
    BY <2>2, <2>3, LoopsHaveType
  <2> HIDE DEF next
  <2>6. /\ \A n \in Node, q \in Request : n # Requester \/ q # r => stream'[n][q] = stream[n][q]
        /\ stream'[Requester][r] = next
    BY <1>1, <1>2, <2>4 DEF TypeOK, RequesterOK
  <2>7. \A t \in Storage, q \in Request : stream'[t][q] = stream[t][q]
    BY <2>6, NodeAssumption DEF Node
  <2>8. \A q \in Request : q # r => RequestOK(q)'
    BY <1>1, <1>7, <2>1, <2>6, <2>7
  <2>9. /\ m.no = loop.seen + 1
        /\ loop.seen + 1 <= k
        /\ Delivers(Tail(answers[s]), r, loop.seen + 1, k, stream[s][r].at)
    BY <1>1, <1>2, <1>8, <1>9, <1>11, HeadIsNext
  <2>10. next.given = Numbers(next.seen)
    BY <1>9, <1>11, <2>5, <2>9, NumbersGrow
  <2>11. OwnLoop(r)' /\ Places(r)'
    <3>1. next.at = "foreign" /\ place[r].at = "current"
      BY <1>8, <1>9, <1>11, <2>5
    <3> QED BY <1>9, <1>11, <2>1, <2>6, <2>10, <3>1 DEF OwnLoop, Places
  <2>12. Answered(r)'
    <3>1. LoopAhead(s, r)'
      BY <1>3, <1>9, <1>11, <2>1, <2>7, <1>2 DEF LoopAhead
    <3>2. stream'[s][r] = stream[s][r] /\ stream'[Requester][r].seen = loop.seen + 1
      BY <1>2, <2>5, <2>6, <2>7
    <3> QED BY <1>3, <1>8, <1>9, <1>11, <2>1, <2>9, <3>1, <3>2 DEF Answered
  <2>13. RequestOK(r)'
    BY <1>8, <1>11, <2>1, <2>11, <2>12 DEF RequestOK
  <2> QED BY <1>3, <2>1, <2>8, <2>13 DEF Calm
<1>12. CASE ~ IsFor(m, s)
  <2>1. UNCHANGED <<holds, stream, place, linked>>
    BY <1>5, <1>12 DEF requesterVars
  <2>2. \A q \in Request : q # r => RequestOK(q)'
    BY <1>7, <2>1
  <2>3. ~ Concerns(s, r)
    <3>1. ~ Silent(answers[s], r)
      BY <1>1, <1>2, Served DEF Silent
    <3>2. place[r].at \in {"current", "done"}
      BY <1>4, <3>1 DEF RequestOK, Untouched
    <3> QED BY <1>8, <1>12, <3>2 DEF Concerns
  <2>4. LeavesAlone(r)
    BY <1>3, <2>1, <2>3 DEF LeavesAlone, SameFor
  <2>5. RequestOK(r)'
    BY <1>1, <1>2, <1>4, <2>4, LeftAloneIsOK
  <2> QED BY <1>3, <2>1, <2>2, <2>5 DEF Calm
<1> QED BY <1>10, <1>11, <1>12 DEF Message

\* The inductive step.  The steps that are left out are failures and timers, or
\* cannot happen before there was one.
LEMMA NextIsCalm ==
    ASSUME IInv, CalmUnlessDisturbed, [Next]_vars
    PROVE  CalmUnlessDisturbed'
<1> SUFFICES ASSUME ~ disturbed' PROVE Calm'
  BY DEF CalmUnlessDisturbed
<1>1. TypeOK'
  BY NextKeepsTypeOK DEF IInv
<1>2. ~ Event /\ ~ TimerFires
  BY DEF Event, TimerFires
<1>3. ~ disturbed => Calm
  BY DEF CalmUnlessDisturbed
<1>4. CASE UNCHANGED vars
  <2>1. ~ disturbed /\ Calm /\ linked' \subseteq attached' /\ paused' = paused
    BY <1>3, <1>4 DEF vars, requesterVars, storageVars, faultVars, Calm
  <2>2. \A r \in Request : LeavesAlone(r)
    BY <1>4 DEF vars, requesterVars, storageVars, LeavesAlone, SameFor
  <2> QED BY <1>1, <2>1, <2>2, LeftAloneIsOK DEF Calm, IInv
<1>5. ASSUME NEW r \in Request, Ask(r)
      PROVE  Calm'
  BY <1>1, <1>3, <1>5, OwnStepsAreCalm DEF Ask, faultVars
<1>6. ASSUME NEW r \in Request, NEW n \in Node, Reads(n, r) \/ StorageEnds(n, r)
      PROVE  Calm'
  <2>1. Calm
    BY <1>3, <1>6 DEF Reads, StorageEnds, faultVars
  <2>2. n = Requester \/ n \in Storage
    BY DEF Node
  <2> QED BY <1>1, <1>6, <2>1, <2>2, OwnStepsAreCalm, StorageLoopsAreCalm
<1>7. ASSUME NEW r \in Request, NEW s \in Storage, Requested(s, r)
      PROVE  Calm'
  BY <1>1, <1>3, <1>7, RequestedIsCalm DEF Requested, faultVars
<1>8. ASSUME NEW r \in Request, AskTracker(r)
      PROVE  Calm'
  BY <1>1, <1>3, <1>8, AskTrackerIsCalm DEF AskTracker, faultVars
<1>9. ASSUME NEW r \in Request, Forward(r)
      PROVE  Calm'
  BY <1>1, <1>3, <1>9, ForwardIsCalm DEF Forward, faultVars
<1>10. ASSUME NEW s \in Storage, Connected(s)
       PROVE  Calm'
  BY <1>1, <1>3, <1>10, ConnectedIsCalm DEF Connected, faultVars
<1>11. ASSUME NEW s \in Storage, Receive(s)
       PROVE  Calm'
  BY <1>1, <1>3, <1>11, ReceiveIsCalm DEF Receive, faultVars
<1>12. ASSUME NEW s \in Storage, LinkLost(s)
       PROVE  FALSE
  <2>1. s \in linked /\ s \notin attached /\ UNCHANGED faultVars
    BY <1>2, <1>12 DEF LinkLost
  <2> QED BY <1>3, <2>1 DEF faultVars, Calm
<1>13. ASSUME NEW s \in Storage, RequesterLost(s)
       PROVE  Calm'
  <2>1. s \notin linked /\ UNCHANGED faultVars
    BY <1>2, <1>13 DEF RequesterLost
  <2> QED BY <1>1, <1>3, <1>13, <2>1, RequesterLostIsCalm DEF faultVars
<1>14. ASSUME NEW s \in Storage, Resume(s)
       PROVE  FALSE
  BY <1>3, <1>14 DEF Resume, faultVars, Calm
<1>15. ASSUME NEW list \in NodeLists, StorageNodesResponse(list)
       PROVE  Calm'
  BY <1>1, <1>3, <1>15, StorageNodesResponseIsCalm DEF StorageNodesResponse, faultVars
<1>16. /\ ~ Stop
       /\ \A r \in Request :
              ~ (\/ Cancel(r) \/ AskTrackerFails(r) \/ TrackerTimeout(r) \/ ForwardFails(r)
                 \/ Timeout(r) \/ \E n \in Node : InactivityCheck(n, r))
       /\ \A s \in Storage : ~ (ConnectFails(s) \/ AnswerFails(s) \/ Pause(s))
  BY <1>2 DEF Stop, Cancel, AskTrackerFails, TrackerTimeout, ForwardFails, Timeout,
              InactivityCheck, ConnectFails, AnswerFails, Pause
<1>17. CASE Next
  BY <1>5, <1>6, <1>7, <1>8, <1>9, <1>10, <1>11, <1>12, <1>13, <1>14, <1>15, <1>16, <1>17
     DEF Next
<1> QED BY <1>4, <1>17

\* As long as nothing fails and no timer fires, the answers of a storage node
\* come in order and are for requests that wait for them.
THEOREM CalmInvariant == Spec => [](IInv /\ CalmUnlessDisturbed)
<1>1. Init => IInv /\ CalmUnlessDisturbed
  BY InitEstablishesIInv, InitIsCalm DEF CalmUnlessDisturbed
<1>2. IInv /\ CalmUnlessDisturbed /\ [Next]_vars => IInv' /\ CalmUnlessDisturbed'
  BY NextKeepsIInv, NextIsCalm
<1> QED BY <1>1, <1>2, PTL DEF Spec

\* However many requests there are, through which nodes they go, and in whatever
\* order they are asked, answered and done: if nothing fails and no timer fires,
\* every stream that is over has given all that its storage has, in order.
THEOREM AlwaysWholeUnlessDisturbed == Spec => []WholeUnlessDisturbed
<1>1. CalmUnlessDisturbed => WholeUnlessDisturbed
  BY DEF CalmUnlessDisturbed, Calm, RequestOK, OwnLoop, Numbers, WholeUnlessDisturbed
<1> QED BY <1>1, CalmInvariant, PTL

-----------------------------------------------------------------------------
(***************************************************************************)
(* The streams of the application: StartsOverOnce is an invariant whatever *)
(* fails, and the loop implements ResendStream.  Every step is described   *)
(* by what it does to a request at a storage node (StorageMove), on its    *)
(* way (PlaceMove), and at the requester (Turns).                          *)
(***************************************************************************)
\* The messages of r in the queue are in order, newer than `low`, not than `high`.
Rises(queue, r, low, high) ==
    /\ \A i \in Unicasts(queue, r) : queue[i].no \in low + 1 .. high
    /\ \A i, j \in Unicasts(queue, r) : i < j => queue[i].no < queue[j].no

\* The last number that the strategy which runs has given
Newest(loop) == IF loop.seen = 0 THEN 0 ELSE loop.given[Len(loop.given)]

Fresh(s, r) == stream[s][r] = NotAsked /\ r \notin forwarded[s]

\* A storage node gives what it has, once.
AtStorage(s, r) ==
    LET loop == stream[s][r]
    IN  /\ loop.at # "foreign"
        /\ loop.given = Numbers(Len(loop.given))
        /\ Len(loop.given) <= holds[s][r]
        /\ loop.at = "local" => loop.seen = Len(loop.given)
        /\ loop.at = "none" \/ r \in forwarded[s] => loop = NotAsked
        /\ place[r].at \notin {"current", "done"} => Fresh(s, r)
        /\ Rises(answers[s], r, 0, Len(loop.given))

\* What is on the way to the requester is newer than what it got.
OnTheWay(s, r) ==
    LET loop == stream[Requester][r]
        k == Len(stream[s][r].given)
    IN  loop.at = "foreign" /\ place[r].at = "current" /\ place[r].of = s
        => Newest(loop) <= k /\ Rises(answers[s], r, Newest(loop), k)

\* The strategy that runs may have started over, once.
AtRequester(r) ==
    LET loop == stream[Requester][r]
    IN  /\ loop.at = "none" => loop.given = <<>>
        /\ loop.at = "local" => loop.given = Numbers(loop.seen)
        /\ loop.at = "foreign" =>
              /\ loop.seen <= Len(loop.given)
              /\ loop.seen > 0 => place[r].at \in {"current", "done"}
              /\ Streams!StartsOver(loop.given) \subseteq {Len(loop.given) - loop.seen + 1}

StartsOverOnce ==
    \A r \in Request : /\ AtRequester(r)
                       /\ \A s \in Storage : AtStorage(s, r) /\ OnTheWay(s, r)

\* A queue that says no more of r than before, in the same order
QueueKept(queue, next, r) ==
    \A low, high \in Nat : Rises(queue, r, low, high) => Rises(next, r, low, high)

\* What is left of a queue is in order.
LEMMA PartsRise ==
    ASSUME NEW queue, NEW next, NEW r, NEW f,
           \A i \in Unicasts(next, r) : f[i] \in DOMAIN queue /\ queue[f[i]] = next[i],
           \A i, j \in Unicasts(next, r) : i < j => f[i] < f[j]
    PROVE  QueueKept(queue, next, r)
<1>1. \A i \in Unicasts(next, r) : f[i] \in Unicasts(queue, r)
  BY DEF Unicasts
<1> QED BY <1>1 DEF QueueKept, Rises

\* A queue whose head, or some of whose first messages, are gone
LEMMA SuffixesRise ==
    ASSUME NEW queue \in Seq(Message), NEW r, NEW k \in 1 .. Len(queue) + 1
    PROVE  /\ QueueKept(queue, SubSeq(queue, k, Len(queue)), r)
           /\ queue # <<>> => QueueKept(queue, Tail(queue), r)
<1>1. Len(queue) \in Nat /\ DOMAIN queue = 1 .. Len(queue)
  BY LenProperties
<1>2. QueueKept(queue, SubSeq(queue, k, Len(queue)), r)
  <2> DEFINE next == SubSeq(queue, k, Len(queue))
             f == [i \in 1 .. Len(queue) - k + 1 |-> k + i - 1]
  <2>1. /\ DOMAIN next = 1 .. Len(queue) - k + 1
        /\ \A i \in DOMAIN next : next[i] = queue[k + i - 1] /\ k + i - 1 \in DOMAIN queue
    BY <1>1
  <2>2. Unicasts(next, r) \subseteq 1 .. Len(queue) - k + 1
    BY <2>1 DEF Unicasts
  <2>3. \A i \in Unicasts(next, r) : f[i] \in DOMAIN queue /\ queue[f[i]] = next[i]
    BY <2>1, <2>2
  <2>4. \A i, j \in Unicasts(next, r) : i < j => f[i] < f[j]
    BY <1>1, <2>2
  <2> HIDE DEF next, f
  <2>5. QueueKept(queue, next, r)
    BY <2>3, <2>4, PartsRise
  <2> QED BY <2>5 DEF next
<1>3. ASSUME queue # <<>>
      PROVE  QueueKept(queue, Tail(queue), r)
  <2> DEFINE next == Tail(queue)
             f == [i \in 1 .. Len(queue) - 1 |-> i + 1]
  <2>1. /\ DOMAIN next = 1 .. Len(queue) - 1
        /\ \A i \in DOMAIN next : next[i] = queue[i + 1] /\ i + 1 \in DOMAIN queue
    BY <1>3, Served
  <2>2. Unicasts(next, r) \subseteq 1 .. Len(queue) - 1
    BY <2>1 DEF Unicasts
  <2>3. \A i \in Unicasts(next, r) : f[i] \in DOMAIN queue /\ queue[f[i]] = next[i]
    BY <2>1, <2>2
  <2>4. \A i, j \in Unicasts(next, r) : i < j => f[i] < f[j]
    BY <1>1, <2>2
  <2> HIDE DEF next, f
  <2>5. QueueKept(queue, next, r)
    BY <2>3, <2>4, PartsRise
  <2> QED BY <2>5 DEF next
<1> QED BY <1>2, <1>3

\* A queue to which nothing is added that gives a message to r
LEMMA AddedToRises ==
    ASSUME NEW queue \in Seq(Message), NEW more \in Seq(Message), NEW r,
           \A i \in DOMAIN more : more[i].of # r \/ more[i].type # "Unicast"
    PROVE  QueueKept(queue, queue \o more, r)
<1> DEFINE next == queue \o more
           f == [i \in 1 .. Len(queue) |-> i]
<1>1. /\ Len(queue) \in Nat /\ DOMAIN queue = 1 .. Len(queue)
      /\ Len(more) \in Nat /\ DOMAIN more = 1 .. Len(more)
  BY LenProperties
<1>2. /\ DOMAIN next = 1 .. Len(queue) + Len(more)
      /\ \A i \in 1 .. Len(queue) + Len(more) :
            next[i] = IF i <= Len(queue) THEN queue[i] ELSE more[i - Len(queue)]
  BY ConcatProperties, LenProperties
<1> HIDE DEF next
<1>3. Unicasts(next, r) \subseteq 1 .. Len(queue)
  <2> SUFFICES ASSUME NEW i \in Unicasts(next, r), i > Len(queue) PROVE FALSE
    BY <1>1, <1>2 DEF Unicasts
  <2>1. i \in 1 .. Len(queue) + Len(more) /\ next[i].of = r /\ next[i].type = "Unicast"
    BY <1>2 DEF Unicasts
  <2>2. i - Len(queue) \in DOMAIN more /\ next[i] = more[i - Len(queue)]
    BY <1>1, <1>2, <2>1
  <2> QED BY <2>1, <2>2
<1>4. \A i \in Unicasts(next, r) : f[i] \in DOMAIN queue /\ queue[f[i]] = next[i]
  BY <1>1, <1>2, <1>3
<1>5. \A i, j \in Unicasts(next, r) : i < j => f[i] < f[j]
  BY <1>3
<1> HIDE DEF f
<1>6. QueueKept(queue, next, r)
  BY <1>4, <1>5, PartsRise
<1> QED BY <1>6 DEF next

\* A queue from which one message is removed
LEMMA RemovedRises ==
    ASSUME NEW queue \in Seq(Message), NEW r, NEW k \in DOMAIN queue
    PROVE  QueueKept(queue, RemoveAt(queue, k), r)
<1>1. /\ Len(queue) \in Nat /\ DOMAIN queue = 1 .. Len(queue) /\ k \in 1 .. Len(queue)
      /\ \A i \in 1 .. Len(queue) : queue[i] \in Message
  BY LenProperties, ElementOfSeq
<1> DEFINE next == RemoveAt(queue, k)
           before == SubSeq(queue, 1, k - 1)
           after == SubSeq(queue, k + 1, Len(queue))
           f == [i \in 1 .. Len(queue) - 1 |-> IF i < k THEN i ELSE i + 1]
<1>2. /\ before \in Seq(Message) /\ Len(before) = k - 1
      /\ \A i \in 1 .. k - 1 : before[i] = queue[i]
  BY <1>1
<1>3. /\ after \in Seq(Message) /\ Len(after) = Len(queue) - k
      /\ \A i \in 1 .. Len(queue) - k : after[i] = queue[k + i]
  <2>1. /\ k + 1 \in Int /\ Len(queue) \in Int
        /\ \A i \in k + 1 .. Len(queue) : i \in 1 .. Len(queue)
    BY <1>1
  <2>2. \A i \in k + 1 .. Len(queue) : queue[i] \in Message
    BY <1>1, <2>1
  <2>3. after \in Seq(Message)
    BY <2>1, <2>2, SubSeqProperties
  <2>4. Len(after) = Len(queue) - k
    BY <1>1, <2>1
  <2>5. \A i \in 1 .. Len(queue) - k : after[i] = queue[k + i]
    BY <1>1, <2>1
  <2> QED BY <2>3, <2>4, <2>5
<1>4. next = before \o after
  BY DEF RemoveAt
<1> HIDE DEF next, before, after
<1>5. /\ DOMAIN next = 1 .. Len(queue) - 1
      /\ \A i \in 1 .. Len(queue) - 1 :
            next[i] = IF i <= k - 1 THEN before[i] ELSE after[i - (k - 1)]
  <2>1. Len(before) + Len(after) = Len(queue) - 1
    BY <1>1, <1>2, <1>3
  <2>2. /\ next \in Seq(Message) /\ Len(next) = Len(before) + Len(after)
        /\ \A i \in 1 .. Len(before) + Len(after) :
              next[i] = IF i <= Len(before) THEN before[i] ELSE after[i - Len(before)]
    BY <1>2, <1>3, <1>4, ConcatProperties
  <2>3. DOMAIN next = 1 .. Len(next)
    BY <2>2, LenProperties
  <2> QED BY <1>2, <2>1, <2>2, <2>3
<1>6. \A i \in 1 .. Len(queue) - 1 : next[i] = queue[f[i]] /\ f[i] \in 1 .. Len(queue)
  <2> TAKE i \in 1 .. Len(queue) - 1
  <2>1. CASE i < k
    <3>1. i \in 1 .. k - 1 /\ i <= k - 1
      BY <1>1, <2>1
    <3> QED BY <1>1, <1>2, <1>5, <2>1, <3>1
  <2>2. CASE ~ (i < k)
    <3>1. /\ ~ (i <= k - 1) /\ i - (k - 1) \in 1 .. Len(queue) - k
          /\ k + (i - (k - 1)) = i + 1 /\ i + 1 \in 1 .. Len(queue)
      BY <1>1, <2>2
    <3>2. next[i] = after[i - (k - 1)] /\ after[i - (k - 1)] = queue[i + 1]
      BY <1>3, <1>5, <3>1
    <3> QED BY <2>2, <3>1, <3>2
  <2> QED BY <2>1, <2>2
<1>7. Unicasts(next, r) \subseteq 1 .. Len(queue) - 1
  BY <1>5 DEF Unicasts
<1>8. \A i \in Unicasts(next, r) : f[i] \in DOMAIN queue /\ queue[f[i]] = next[i]
  BY <1>1, <1>6, <1>7
<1>9. \A i, j \in Unicasts(next, r) : i < j => f[i] < f[j]
  BY <1>1, <1>7
<1> HIDE DEF f
<1>10. QueueKept(queue, next, r)
  BY <1>8, <1>9, PartsRise
<1> QED BY <1>10 DEF next

\* A storage node sends its next message.
LEMMA NextRises ==
    ASSUME NEW queue \in Seq(Message), NEW m \in Message, NEW low \in Nat, NEW k \in Nat,
           low <= k, Rises(queue, m.of, low, k), m.type = "Unicast", m.no = k + 1
    PROVE  Rises(Append(queue, m), m.of, low, k + 1)
<1> DEFINE next == Append(queue, m)
           r == m.of
           n == Len(queue)
<1>1. /\ DOMAIN queue = 1 .. n /\ n \in Nat
      /\ DOMAIN next = 1 .. n + 1
      /\ \A i \in DOMAIN queue : next[i] = queue[i]
      /\ next[n + 1] = m
  BY Appended
<1> HIDE DEF next, n
<1>2. \A i \in Unicasts(next, r) : i = n + 1 \/ (i \in Unicasts(queue, r) /\ i \in 1 .. n)
  BY <1>1 DEF Unicasts
<1>3. \A i \in Unicasts(queue, r) : next[i] = queue[i] /\ queue[i].no \in low + 1 .. k
  BY <1>1 DEF Unicasts, Rises
<1>4. \A i \in Unicasts(next, r) : next[i].no \in low + 1 .. k + 1
  BY <1>1, <1>2, <1>3
<1>5. \A i, j \in Unicasts(next, r) : i < j => next[i].no < next[j].no
  <2> SUFFICES ASSUME NEW i \in Unicasts(next, r), NEW j \in Unicasts(next, r), i < j
               PROVE  next[i].no < next[j].no
    OBVIOUS
  <2>1. i \in Unicasts(queue, r) /\ i \in 1 .. n
    BY <1>1, <1>2
  <2>2. CASE j = n + 1
    BY <1>1, <1>3, <2>1, <2>2
  <2>3. CASE j # n + 1
    BY <1>2, <1>3, <2>1, <2>3 DEF Rises
  <2> QED BY <2>2, <2>3
<1> QED BY <1>4, <1>5 DEF Rises, next

\* The requester gets its next message, and the others are newer still.
LEMMA HeadRises ==
    ASSUME NEW queue \in Seq(Message), queue # <<>>, NEW r, Head(queue).of = r,
           Head(queue).type = "Unicast", NEW low \in Nat, NEW k \in Nat,
           Rises(queue, r, low, k)
    PROVE  /\ Head(queue).no \in low + 1 .. k
           /\ Rises(Tail(queue), r, Head(queue).no, k)
<1> DEFINE next == Tail(queue)
<1>1. /\ DOMAIN queue = 1 .. Len(queue) /\ Len(queue) \in Nat \ {0}
      /\ DOMAIN next = 1 .. Len(queue) - 1
      /\ \A i \in DOMAIN next : next[i] = queue[i + 1]
      /\ Head(queue) = queue[1]
  BY Served
<1> HIDE DEF next
<1>2. 1 \in Unicasts(queue, r)
  BY <1>1 DEF Unicasts
<1>3. queue[1].no \in low + 1 .. k
  BY <1>2 DEF Rises
<1>4. \A i \in Unicasts(next, r) : i \in Nat /\ i > 0 /\ i + 1 \in Unicasts(queue, r)
                                    /\ next[i] = queue[i + 1]
  BY <1>1 DEF Unicasts
<1>5. \A i \in Unicasts(next, r) : next[i].no \in queue[1].no + 1 .. k
  <2> TAKE i \in Unicasts(next, r)
  <2>1. queue[i + 1].no \in low + 1 .. k
    BY <1>4 DEF Rises
  <2>2. 1 < i + 1
    BY <1>4
  <2>3. queue[1].no < queue[i + 1].no
    BY <1>2, <1>4, <2>2 DEF Rises
  <2> QED BY <1>3, <1>4, <2>1, <2>3
<1>6. \A i, j \in Unicasts(next, r) : i < j => next[i].no < next[j].no
  <2> SUFFICES ASSUME NEW i \in Unicasts(next, r), NEW j \in Unicasts(next, r), i < j
               PROVE  next[i].no < next[j].no
    OBVIOUS
  <2>1. /\ i + 1 \in Unicasts(queue, r) /\ j + 1 \in Unicasts(queue, r) /\ i + 1 < j + 1
        /\ next[i] = queue[i + 1] /\ next[j] = queue[j + 1]
    BY <1>4
  <2>2. queue[i + 1].no < queue[j + 1].no
    BY <2>1 DEF Rises
  <2> QED BY <2>1, <2>2
<1> QED BY <1>1, <1>3, <1>5, <1>6 DEF Rises, next

\* What a step may do to a request at a storage node: nothing, or its loop ends
\* and some of what was said of it is lost; ...
Kept(s, r) ==
    /\ \/ stream'[s][r] = stream[s][r]
       \/ Runs(s, r) /\ stream'[s][r] = Over(stream[s][r])
    /\ QueueKept(answers[s], answers'[s], r)
    /\ r \in forwarded'[s] => r \in forwarded[s]

\* ... the loop gives its next message; ...
SendsNext(s, r) ==
    /\ stream[s][r].at = "local"
    /\ stream[s][r].seen < holds[s][r]
    /\ stream'[s][r] = Gives(stream[s][r], stream[s][r].seen + 1)
    /\ answers'[s] = Append(answers[s],
                            [type |-> "Unicast", of |-> r, no |-> stream[s][r].seen + 1])
    /\ forwarded'[s] = forwarded[s]

\* ... it begins; ...
Begins(s, r) ==
    /\ r \in forwarded[s] /\ r \notin forwarded'[s]
    /\ stream'[s][r] = Loop("local", <<>>)
    /\ answers'[s] = answers[s]

\* ... or the request is sent to it.
Arrives(s, r) ==
    /\ place[r].at = "sending" /\ place'[r].at = "current"
    /\ stream'[s][r] = stream[s][r]
    /\ answers'[s] = answers[s]

StorageMove(s, r) == Kept(s, r) \/ SendsNext(s, r) \/ Begins(s, r) \/ Arrives(s, r)

\* What it may do to a request on its way
PlaceMove(r) ==
    /\ place[r].at \in {"current", "done"} => place'[r].at \in {"current", "done"}
    /\ place'[r].at = "current" => place'[r] = place[r] \/ place[r].at = "sending"

\* What it may do to a stream of the application: any number of them end or
\* start over, ...
Turn(r) ==
    LET loop == stream[Requester][r]
    IN  \/ stream'[Requester][r] = loop
        \/ Runs(Requester, r) /\ stream'[Requester][r] = Over(loop)
        \/ loop.at = "local" /\ stream'[Requester][r] = Loop("foreign", loop.given)

Alone(r) == \A q \in Request : q # r => stream'[Requester][q] = stream[Requester][q]

\* ... or one of them begins, ...
Opens(r) ==
    /\ stream[Requester][r].at = "none"
    /\ stream'[Requester][r] = Loop("local", <<>>)
    /\ Alone(r)

\* ... gives the next message of the requester's storage, ...
GivesLocal(r) ==
    LET loop == stream[Requester][r]
    IN  /\ loop.at = "local" /\ loop.seen < holds[Requester][r]
        /\ stream'[Requester][r] = Gives(loop, loop.seen + 1)
        /\ Alone(r)

\* ... or the one that a storage node sent.
GivesForeign(s, r) ==
    /\ stream[Requester][r].at = "foreign"
    /\ place[r].at = "current" /\ place[r].of = s /\ place'[r] = place[r]
    /\ answers[s] # <<>> /\ answers'[s] = Tail(answers[s])
    /\ Head(answers[s]).of = r /\ Head(answers[s]).type = "Unicast"
    /\ stream'[s][r] = stream[s][r]
    /\ stream'[Requester][r] = Gives(stream[Requester][r], Head(answers[s]).no)
    /\ Alone(r)

Turns == \/ \A r \in Request : Turn(r)
         \/ \E r \in Request : \/ Opens(r) \/ GivesLocal(r)
                               \/ \E s \in Storage : GivesForeign(s, r)

Moved == /\ holds' = holds
         /\ Turns
         /\ \A r \in Request : PlaceMove(r) /\ \A s \in Storage : StorageMove(s, r)

\* A queue that stays as it is
LEMMA SameIsKept == \A queue, r : QueueKept(queue, queue, r)
BY DEF QueueKept

\* Where nothing is said, or asked, all is kept.
LEMMA SameStorage ==
    ASSUME NEW s, NEW r, stream'[s][r] = stream[s][r], answers'[s] = answers[s],
           forwarded'[s] = forwarded[s]
    PROVE  StorageMove(s, r)
BY SameIsKept DEF StorageMove, Kept

\* A step of one of the loops of the requester
LEMMA RequesterLoopsMove ==
    ASSUME IInv, NEW r \in Request,
           \/ Ask(r) \/ Cancel(r) \/ Reads(Requester, r)
           \/ StorageEnds(Requester, r) \/ InactivityCheck(Requester, r)
    PROVE  Moved
<1>1. /\ TypeOK /\ Requester \in Node /\ Requester \notin Storage
      /\ \A s \in Storage : s \in Node /\ s # Requester
  BY NodeAssumption DEF IInv, Node
<1>2. ASSUME NEW loop \in LoopType, Becomes(Requester, r, loop)
      PROVE  /\ holds' = holds
             /\ stream'[Requester][r] = loop /\ Alone(r)
             /\ \A q \in Request : PlaceMove(q) /\ \A s \in Storage : StorageMove(s, q)
  <2>1. /\ stream' = [stream EXCEPT ![Requester][r] = loop]
        /\ UNCHANGED <<holds, answers, forwarded>>
    BY <1>1, <1>2 DEF Becomes
  <2>2. stream'[Requester][r] = loop /\ Alone(r)
    BY <1>1, <2>1 DEF Alone, TypeOK, RequesterOK
  <2>3. \A s \in Storage, q \in Request : StorageMove(s, q)
    BY <1>1, <2>1, SameStorage DEF TypeOK, RequesterOK
  <2>4. \A q \in Request : PlaceMove(q)
    <3>1. \/ place' = place
          \/ place' = [place EXCEPT ![r] = Nowhere("asking")] /\ stream[Requester][r].at = "local"
      BY <1>2 DEF Becomes
    <3>2. stream[Requester][r].at = "local" => place[r].at = "none"
      BY DEF IInv, NotYetForeign
    <3> QED BY <1>1, <3>1, <3>2 DEF PlaceMove, Nowhere, At, TypeOK, RequesterOK
  <2> QED BY <2>1, <2>2, <2>3, <2>4
<1> DEFINE loop == stream[Requester][r]
<1>3. loop \in LoopType /\ loop.seen + 1 \in Nat
  BY <1>1, PartsHaveType DEF LoopType
<1>4. ASSUME \/ stream'[Requester][r] = Over(loop)
             \/ stream'[Requester][r] = Loop("foreign", loop.given),
             loop.at = "local" \/ (loop.at = "foreign" /\ stream'[Requester][r] = Over(loop)),
             Alone(r)
      PROVE  Turns
  <2>1. Turn(r)
    BY <1>4 DEF Turn, Runs
  <2> QED BY <1>4, <2>1 DEF Turns, Turn, Alone
<1>5. CASE Ask(r)
  <2>1. Loop("local", <<>>) \in LoopType
    BY DEF Loop, LoopType
  <2>2. Becomes(Requester, r, Loop("local", <<>>)) /\ loop.at = "none"
    BY <1>5 DEF Ask
  <2>3. Opens(r)
    BY <1>2, <2>1, <2>2 DEF Opens
  <2> QED BY <1>2, <2>1, <2>2, <2>3 DEF Moved, Turns
<1>6. CASE Cancel(r)
  <2>1. Becomes(Requester, r, Over(loop)) /\ loop.at \in {"local", "foreign"}
    BY <1>6 DEF Cancel, Runs
  <2>2. Over(loop) \in LoopType
    BY <1>3, LoopsHaveType
  <2> HIDE DEF loop
  <2>3. Turns
    BY <1>2, <1>4, <2>1, <2>2
  <2> QED BY <1>2, <2>1, <2>2, <2>3 DEF Moved
<1>7. CASE Reads(Requester, r)
  <2>1. /\ Becomes(Requester, r, Gives(loop, loop.seen + 1))
        /\ loop.at = "local" /\ loop.seen < holds[Requester][r]
    BY <1>7 DEF Reads
  <2>2. Gives(loop, loop.seen + 1) \in LoopType
    BY <1>3, LoopsHaveType
  <2>3. GivesLocal(r)
    BY <1>2, <2>1, <2>2 DEF GivesLocal
  <2> QED BY <1>2, <2>1, <2>2, <2>3 DEF Moved, Turns
<1>8. CASE StorageEnds(Requester, r) \/ InactivityCheck(Requester, r)
  <2>1. PICK next : /\ Becomes(Requester, r, next)
                    /\ \/ next = Over(loop) /\ loop.at \in {"local", "foreign"}
                       \/ next = Loop("foreign", loop.given) /\ loop.at = "local"
    BY <1>8 DEF StorageEnds, InactivityCheck, Ends, NextStrategy, Runs
  <2>2. next \in LoopType
    BY <1>3, <2>1 DEF Over, Loop, LoopType
  <2> HIDE DEF loop
  <2>3. Turns
    BY <1>2, <1>4, <2>1, <2>2
  <2> QED BY <1>2, <2>1, <2>2, <2>3 DEF Moved
<1> QED BY <1>5, <1>6, <1>7, <1>8

\* A step of one of the loops of a storage node
LEMMA StorageLoopsMove ==
    ASSUME IInv, NEW s \in Storage, NEW r \in Request,
           Reads(s, r) \/ StorageEnds(s, r) \/ InactivityCheck(s, r)
    PROVE  Moved
<1>1. /\ TypeOK /\ Requester \in Node /\ s \in Node /\ s # Requester
      /\ answers[s] \in Seq(Message)
      /\ \A t \in Storage : t \in Node
  BY NodeAssumption DEF IInv, Node, TypeOK, StorageOK
<1> DEFINE loop == stream[s][r]
<1>2. loop \in LoopType /\ loop.seen + 1 \in Nat
  BY <1>1, PartsHaveType DEF LoopType
<1>3. PICK next \in LoopType :
          /\ Becomes(s, r, next)
          /\ \/ next = Over(loop) /\ Runs(s, r)
             \/ next = Gives(loop, loop.seen + 1) /\ loop.at = "local" /\ loop.seen < holds[s][r]
  <2>1. CASE Reads(s, r)
    BY <1>2, <2>1, LoopsHaveType DEF Reads
  <2>2. CASE StorageEnds(s, r) \/ InactivityCheck(s, r)
    BY <1>1, <1>2, <2>2, LoopsHaveType DEF StorageEnds, InactivityCheck, Ends, NextStrategy, Runs
  <2> QED BY <2>1, <2>2
<1> HIDE DEF loop
<1>4. next.at # "foreign" \/ loop.at = "foreign"
  BY <1>2, <1>3, LoopsHaveType, LoopsGoOn
<1>5. /\ stream' = [stream EXCEPT ![s][r] = next]
      /\ answers' = [answers EXCEPT ![s] = @ \o Says(s, r, next)]
      /\ UNCHANGED <<holds, place, forwarded>>
  BY <1>3, <1>4 DEF Becomes, loop
<1>6. /\ stream'[Requester] = stream[Requester]
      /\ stream'[s][r] = next
      /\ \A t \in Storage, q \in Request : t # s \/ q # r => stream'[t][q] = stream[t][q]
      /\ \A t \in Storage : t # s => answers'[t] = answers[t]
      /\ answers'[s] = answers[s] \o Says(s, r, next)
  BY <1>1, <1>5 DEF TypeOK, RequesterOK, StorageOK
<1>7. \A t \in Storage, q \in Request : t # s => StorageMove(t, q)
  BY <1>5, <1>6, SameStorage
<1>8. ASSUME NEW more \in Seq(Message), Says(s, r, next) = more,
             NEW q \in Request, \A i \in DOMAIN more : more[i].of # q \/ more[i].type # "Unicast",
             stream'[s][q] = stream[s][q] \/ (q = r /\ next = Over(loop) /\ Runs(s, r))
      PROVE  StorageMove(s, q)
  BY <1>1, <1>5, <1>6, <1>8, AddedToRises DEF StorageMove, Kept, loop
<1>9. \A q \in Request : StorageMove(s, q)
  <2>1. CASE next = Over(loop) /\ Runs(s, r)
    <3>1. /\ Says(s, r, next) \in Seq(Message)
          /\ \A i \in DOMAIN Says(s, r, next) : Says(s, r, next)[i].type # "Unicast"
      <4>1. next.at = "over"
        BY <2>1, LoopsGoOn
      <4>2. Says(s, r, next) = <<>> \/ Says(s, r, next) = <<FinalResponse(r, next.given)>>
        BY <4>1 DEF Says
      <4>3. FinalResponse(r, next.given).type # "Unicast"
        BY DEF FinalResponse
      <4>4. Says(s, r, next) \in Seq(Message)
        BY <4>1, SaysMessages
      <4> QED BY <4>2, <4>3, <4>4
    <3> QED BY <1>6, <1>8, <2>1, <3>1
  <2>2. CASE next = Gives(loop, loop.seen + 1) /\ loop.at = "local" /\ loop.seen < holds[s][r]
    <3> DEFINE m == [type |-> "Unicast", of |-> r, no |-> loop.seen + 1]
    <3>1. next.at = "local" /\ next.given = Append(loop.given, loop.seen + 1)
      BY <1>2, <2>2, LoopsHaveType
    <3>2. Last(next.given) = loop.seen + 1
      <4>1. loop.given \in Seq(Nat)
        BY <1>2 DEF LoopType
      <4> QED BY <1>2, <3>1, <4>1, AppendProperties DEF Last
    <3>3. Says(s, r, next) = <<m>> /\ m \in Message /\ m.of = r
      BY <1>2, <3>1, <3>2 DEF Says, Message
    <3> HIDE DEF m
    <3>4. answers'[s] = Append(answers[s], m)
      BY <1>1, <1>6, <3>3, AppendIsConcat
    <3>5. SendsNext(s, r)
      BY <1>5, <1>6, <2>2, <3>4 DEF SendsNext, loop, m
    <3>6. ASSUME NEW q \in Request, q # r
          PROVE  StorageMove(s, q)
      <4>1. \A i \in DOMAIN <<m>> : <<m>>[i].of # q
        BY <3>3, <3>6
      <4>2. <<m>> \in Seq(Message) /\ stream'[s][q] = stream[s][q]
        BY <1>6, <3>3, <3>6
      <4> QED BY <1>8, <3>3, <4>1, <4>2
    <3> QED BY <3>5, <3>6 DEF StorageMove
  <2> QED BY <1>3, <2>1, <2>2
<1>10. Turns /\ holds' = holds /\ \A q \in Request : PlaceMove(q)
  BY <1>5, <1>6 DEF Turns, Turn, PlaceMove
<1> QED BY <1>7, <1>9, <1>10 DEF Moved

\* The other steps at a storage node
LEMMA StorageStepsMove ==
    ASSUME IInv, NEW s \in Storage,
           \/ \E r \in Request : Requested(s, r)
           \/ RequesterLost(s) \/ AnswerFails(s) \/ Pause(s) \/ Resume(s)
    PROVE  Moved
<1>1. /\ TypeOK /\ Requester \in Node /\ s \in Node /\ s # Requester
      /\ answers[s] \in Seq(Message)
      /\ \A t \in Storage : t \in Node
  BY NodeAssumption DEF IInv, Node, TypeOK, StorageOK
<1>2. UNCHANGED <<holds, place>>
  BY DEF Requested, RequesterLost, AnswerFails, Pause, Resume, requesterVars
<1>3. \A r \in Request : PlaceMove(r)
  BY <1>2 DEF PlaceMove
<1>4. ASSUME \A r \in Request : stream'[Requester][r] = stream[Requester][r]
      PROVE  Turns
  BY <1>4 DEF Turns, Turn
<1>5. CASE Pause(s) \/ Resume(s)
  <2>1. UNCHANGED <<stream, answers, forwarded>>
    BY <1>5 DEF Pause, Resume
  <2> QED BY <1>2, <1>3, <1>4, <2>1, SameStorage DEF Moved
<1>6. ASSUME NEW r \in Request, Requested(s, r)
      PROVE  Moved
  <2>1. /\ r \in forwarded[s]
        /\ forwarded' = [forwarded EXCEPT ![s] = @ \ {r}]
        /\ stream' = [stream EXCEPT ![s][r] = Loop("local", <<>>)]
        /\ answers' = answers
    BY <1>6 DEF Requested
  <2>2. /\ stream'[s][r] = Loop("local", <<>>)
        /\ \A n \in Node, q \in Request : n # s \/ q # r => stream'[n][q] = stream[n][q]
        /\ r \notin forwarded'[s]
        /\ \A t \in Storage : forwarded'[t] \subseteq forwarded[t]
    BY <1>1, <2>1 DEF TypeOK, RequesterOK, StorageOK
  <2>3. Begins(s, r)
    BY <2>1, <2>2 DEF Begins
  <2>4. \A t \in Storage, q \in Request : t # s \/ q # r => Kept(t, q)
    BY <1>1, <2>1, <2>2, SameIsKept DEF Kept
  <2>5. Turns
    BY <1>1, <1>4, <2>2
  <2> QED BY <1>2, <1>3, <2>3, <2>4, <2>5 DEF Moved, StorageMove
<1>7. CASE RequesterLost(s) \/ AnswerFails(s)
  <2>1. stream' = Cancelled(s) /\ \A t \in Storage : forwarded'[t] \subseteq forwarded[t]
    BY <1>1, <1>7 DEF RequesterLost, AnswerFails, TypeOK, StorageOK
  <2>2. \A n \in Node : n # s => stream'[n] = stream[n]
    BY <1>1, <2>1, CancelledKeeps DEF TypeOK
  <2>3. \A r \in Request : \/ stream'[s][r] = stream[s][r]
                           \/ Runs(s, r) /\ stream'[s][r] = Over(stream[s][r])
    <3> DEFINE next == [r \in Request |->
                           IF Runs(s, r) THEN Over(stream[s][r]) ELSE stream[s][r]]
    <3>1. stream'[s] = next
      BY <1>1, <2>1 DEF Cancelled, TypeOK, RequesterOK
    <3> QED BY <3>1
  <2>4. \A t \in Storage : t # s => answers'[t] = answers[t]
    <3>1. \E queue : answers' = [answers EXCEPT ![s] = queue]
      BY <1>7 DEF RequesterLost, AnswerFails
    <3> QED BY <1>1, <3>1 DEF TypeOK, StorageOK
  <2>5. \A r \in Request : QueueKept(answers[s], answers'[s], r)
    <3>1. CASE RequesterLost(s)
      <4>1. PICK k \in 1 .. Len(answers[s]) + 1 :
                answers'[s] = SubSeq(answers[s], k, Len(answers[s]))
        BY <3>1 DEF RequesterLost, TypeOK, StorageOK, IInv
      <4> QED BY <1>1, <4>1, SuffixesRise
    <3>2. CASE AnswerFails(s)
      <4> DEFINE ending == {q \in Request : Runs(s, q)} \ paused[s]
                 said == {FinalResponse(r, stream[s][r].given) : r \in ending}
      <4>1. PICK k \in DOMAIN answers[s], finals \in SetToSeqs(said) :
                answers' = [answers EXCEPT ![s] = RemoveAt(@, k) \o finals]
        BY <3>2 DEF AnswerFails
      <4>2. said \subseteq Message /\ \A m \in said : m.type # "Unicast"
        BY DEF FinalResponse, Message
      <4>3. finals \in Seq(said)
        <5>1. IsFiniteSet(said) /\ Cardinality(said) \in Nat
          <6> DEFINE final == [r \in ending |-> FinalResponse(r, stream[s][r].given)]
          <6>1. IsFiniteSet(ending)
            BY RequestAssumption, FS_Subset
          <6>2. final \in Surjection(ending, said)
            BY DEF Surjection
          <6> QED BY <6>1, <6>2, FS_Surjection, FS_CardinalityType
        <5>2. finals \in [1 .. Cardinality(said) -> said]
          BY <4>1 DEF SetToSeqs
        <5> HIDE DEF said
        <5> QED BY <5>1, <5>2, IsASeq
      <4> HIDE DEF said
      <4>4. finals \in Seq(Message)
        BY <4>2, <4>3, SeqMonotonic
      <4>5. \A i \in DOMAIN finals : finals[i].type # "Unicast"
        BY <4>2, <4>3, LenProperties, ElementOfSeq
      <4>6. answers'[s] = RemoveAt(answers[s], k) \o finals
        BY <1>1, <4>1 DEF TypeOK, StorageOK
      <4>7. RemoveAt(answers[s], k) \in Seq(Message)
        BY <1>1, RemovedHasType
      <4> TAKE r \in Request
      <4>8. QueueKept(answers[s], RemoveAt(answers[s], k), r)
        BY <1>1, RemovedRises
      <4>9. QueueKept(RemoveAt(answers[s], k), answers'[s], r)
        BY <4>4, <4>5, <4>6, <4>7, AddedToRises
      <4> QED BY <4>8, <4>9 DEF QueueKept
    <3> QED BY <1>7, <3>1, <3>2
  <2>6. \A r \in Request : Kept(s, r)
    BY <2>1, <2>3, <2>5 DEF Kept
  <2>7. \A t \in Storage, r \in Request : t # s => Kept(t, r)
    BY <1>1, <2>1, <2>2, <2>4, SameIsKept DEF Kept
  <2>8. Turns
    BY <1>1, <1>4, <2>2
  <2> QED BY <1>2, <1>3, <2>6, <2>7, <2>8 DEF Moved, StorageMove
<1> QED BY <1>5, <1>6, <1>7

\* Places to which requests go on, none of them to a node that answers
GoesOn(p) ==
    \A r \in Request :
        /\ place[r].at \in {"current", "done"} => p[r].at \in {"current", "done"}
        /\ p[r].at = "current" => p[r] = place[r]

\* Requests that are done, or go on, at the requester
LEMMA CutMoves ==
    ASSUME TypeOK, NEW p \in [Request -> Place], NEW gone, Cut(p, gone), GoesOn(p)
    PROVE  /\ holds' = holds
           /\ \A r \in Request : Turn(r) /\ PlaceMove(r)
           /\ \A s \in Storage : stream'[s] = stream[s]
<1>1. \A r \in Request : \/ place'[r] = p[r]
                         \/ p[r].at = "current" /\ place'[r] = [p[r] EXCEPT !.at = "done"]
  BY DEF Cut
<1>2. \A r \in Request : [p[r] EXCEPT !.at = "done"].at = "done"
  BY DEF Place
<1>3. \A r \in Request : PlaceMove(r)
  BY <1>1, <1>2 DEF PlaceMove, GoesOn
<1>4. /\ \A n \in Node : n # Requester => stream'[n] = stream[n]
      /\ \A r \in Request :
            \/ stream'[Requester][r] = stream[Requester][r]
            \/ /\ stream[Requester][r].at = "foreign"
               /\ stream'[Requester][r] = Ends(Requester, stream[Requester][r])
  BY StreamAfterKeeps DEF Cut, TypeOK
<1>5. ASSUME NEW r \in Request, stream[Requester][r].at = "foreign"
      PROVE  Ends(Requester, stream[Requester][r]) = Over(stream[Requester][r])
  BY <1>5 DEF Ends, NextStrategy
<1>6. \A r \in Request : Turn(r)
  BY <1>4, <1>5 DEF Turn, Runs
<1>7. \A s \in Storage : stream'[s] = stream[s]
  BY <1>4, NodeAssumption DEF Node
<1> QED BY <1>3, <1>6, <1>7 DEF Cut

\* Requests that get done
LEMMA DoneGoesOn ==
    ASSUME TypeOK, NEW rs
    PROVE  Done(rs) \in [Request -> Place] /\ GoesOn(Done(rs))
<1>1. Done(rs) \in [Request -> Place]
  BY PlacesHaveType DEF TypeOK
<1>2. \A r \in Request :
          Done(rs)[r] = IF r \in rs THEN [place[r] EXCEPT !.at = "done"] ELSE place[r]
  BY DEF Done, Placed
<1>3. \A r \in Request : [place[r] EXCEPT !.at = "done"].at = "done"
  BY DEF TypeOK, RequesterOK, Place
<1> QED BY <1>1, <1>2, <1>3 DEF GoesOn

\* Requests that try storage nodes
LEMMA TryingGoesOn ==
    ASSUME TypeOK, NEW rs \in SUBSET Request, NEW to,
           \A r \in rs : /\ place[r].at \in {"pending", "dialing"}
                         /\ to[r] \in Place /\ to[r].at # "current"
    PROVE  Placed(rs, to) \in [Request -> Place] /\ GoesOn(Placed(rs, to))
<1>1. \A r \in Request : Placed(rs, to)[r] = IF r \in rs THEN to[r] ELSE place[r]
  BY DEF Placed
<1>2. Placed(rs, to) \in [Request -> Place]
  BY DEF Placed, TypeOK, RequesterOK
<1> QED BY <1>1, <1>2 DEF GoesOn

\* The steps that end, fail or move requests on their way
LEMMA PlacesMove ==
    ASSUME IInv,
           \/ \E r \in Request : \/ AskTrackerFails(r) \/ TrackerTimeout(r)
                                 \/ ForwardFails(r) \/ Timeout(r)
           \/ \E s \in Storage : ConnectFails(s) \/ LinkLost(s)
           \/ \E list \in NodeLists : StorageNodesResponse(list)
           \/ Stop
    PROVE  Moved
<1>1. TypeOK
  BY DEF IInv
<1>2. UNCHANGED <<answers, forwarded>>
  BY DEF AskTrackerFails, TrackerTimeout, ForwardFails, Timeout, ConnectFails, LinkLost,
         StorageNodesResponse, Stop, storageVars
<1>3. SUFFICES \E p \in [Request -> Place] : \E gone : Cut(p, gone) /\ GoesOn(p)
  <2>1. /\ holds' = holds
        /\ \A r \in Request : Turn(r) /\ PlaceMove(r)
        /\ \A s \in Storage : stream'[s] = stream[s]
    BY <1>1, <1>3, CutMoves
  <2> QED BY <1>2, <2>1, SameStorage DEF Moved, Turns
<1>4. \A rs : Done(rs) \in [Request -> Place] /\ GoesOn(Done(rs))
  BY <1>1, DoneGoesOn
<1>5. CASE \E r \in Request : \/ AskTrackerFails(r) \/ TrackerTimeout(r)
                              \/ ForwardFails(r) \/ Timeout(r)
  <2>1. PICK r \in Request : Cut(Done({r}), Unneeded(Done({r})))
    BY <1>5 DEF AskTrackerFails, TrackerTimeout, ForwardFails, Timeout, Moves
  <2> QED BY <1>4, <2>1
<1>6. CASE Stop
  <2>1. PICK rs : Cut(Done(rs), linked)
    BY <1>6 DEF Stop
  <2> QED BY <1>4, <2>1
<1>7. CASE \E s \in Storage : LinkLost(s)
  <2>1. PICK s \in Storage : Cut(place, {s})
    BY <1>7 DEF LinkLost
  <2> QED BY <1>1, <2>1 DEF TypeOK, RequesterOK, GoesOn
<1>8. \A list \in Seq(Storage) : Tries(list) \in Place /\ Tries(list).at # "current"
  <2>1. \A list \in Seq(Storage) : Tries(list) \in Place
    BY <1>1, PlacesHaveType DEF TypeOK
  <2> QED BY <2>1 DEF Tries, Nowhere, At
<1>9. CASE \E s \in Storage : ConnectFails(s)
  <2> PICK s \in Storage : ConnectFails(s)
    BY <1>9
  <2> DEFINE to == [r \in Dialing(s) |-> Tries(place[r].rest)]
             p == Placed(Dialing(s), to)
  <2>1. /\ Dialing(s) \in SUBSET Request
        /\ \A r \in Dialing(s) : /\ place[r].at \in {"pending", "dialing"}
                                 /\ to[r] \in Place /\ to[r].at # "current"
    BY <1>1, <1>8 DEF Dialing, TypeOK, RequesterOK, Place
  <2>2. Cut(p, Unneeded(p))
    BY DEF ConnectFails, Moves
  <2> HIDE DEF to
  <2>3. p \in [Request -> Place] /\ GoesOn(p)
    BY <1>1, <2>1, TryingGoesOn
  <2> HIDE DEF p
  <2> QED BY <2>2, <2>3
<1>10. CASE \E list \in NodeLists : StorageNodesResponse(list)
  <2> PICK list \in NodeLists : StorageNodesResponse(list)
    BY <1>10
  <2> DEFINE rs == {r \in Request : place[r].at = "pending"}
             to == [r \in rs |-> Tries(list)]
             p == Placed(rs, to)
  <2>1. \A r \in rs : /\ place[r].at \in {"pending", "dialing"}
                      /\ to[r] \in Place /\ to[r].at # "current"
    BY <1>8, NodeListsAssumption
  <2>2. Cut(p, Unneeded(p)) /\ rs \in SUBSET Request
    BY DEF StorageNodesResponse, Moves
  <2> HIDE DEF to, rs
  <2>3. p \in [Request -> Place] /\ GoesOn(p)
    BY <1>1, <2>1, <2>2, TryingGoesOn
  <2> HIDE DEF p
  <2> QED BY <2>2, <2>3
<1> QED BY <1>5, <1>6, <1>7, <1>9, <1>10

\* The other steps of requests on their way
LEMMA RequestsMove ==
    ASSUME IInv,
           \/ \E r \in Request : AskTracker(r) \/ Forward(r)
           \/ \E s \in Storage : Connected(s)
    PROVE  Moved
<1>1. TypeOK
  BY DEF IInv
<1>2. UNCHANGED <<holds, stream, answers>>
  BY DEF AskTracker, Forward, Connected, storageVars
<1>3. Turns
  BY <1>2 DEF Turns, Turn
<1>4. CASE \E r \in Request : AskTracker(r)
  <2>1. forwarded' = forwarded /\ \A r \in Request : PlaceMove(r)
    BY <1>1, <1>4 DEF AskTracker, storageVars, PlaceMove, Nowhere, At, TypeOK, RequesterOK
  <2> QED BY <1>2, <1>3, <2>1, SameStorage DEF Moved
<1>5. CASE \E s \in Storage : Connected(s)
  <2> PICK s \in Storage : Connected(s)
    BY <1>5
  <2>1. /\ forwarded' = forwarded
        /\ \A r \in Request :
              place'[r] = IF r \in Dialing(s) THEN At("sending", s, <<>>) ELSE place[r]
    BY DEF Connected, Placed
  <2>2. \A r \in Request : PlaceMove(r)
    BY <2>1 DEF PlaceMove, Dialing, At
  <2> QED BY <1>2, <1>3, <2>1, <2>2, SameStorage DEF Moved
<1>6. CASE \E r \in Request : Forward(r)
  <2> PICK r \in Request : Forward(r)
    BY <1>6
  <2>1. /\ place[r].at = "sending" /\ place'[r].at = "current"
        /\ \A q \in Request : q # r => place'[q] = place[q]
    BY <1>1 DEF Forward, TypeOK, RequesterOK, Place
  <2>2. \A q \in Request : PlaceMove(q)
    BY <2>1 DEF PlaceMove
  <2>3. \A s \in Storage : forwarded'[s] \subseteq forwarded[s] \cup {r}
    BY <1>1 DEF Forward, TypeOK, StorageOK
  <2>4. \A s \in Storage, q \in Request : q # r => Kept(s, q)
    BY <1>2, <2>3, SameIsKept DEF Kept
  <2>5. \A s \in Storage : Arrives(s, r)
    BY <1>2, <2>1 DEF Arrives
  <2> QED BY <1>2, <1>3, <2>2, <2>4, <2>5 DEF Moved, StorageMove
<1> QED BY <1>4, <1>5, <1>6

\* The requester gets an answer.
LEMMA ReceiveMoves ==
    ASSUME IInv, NEW s \in Storage, Receive(s)
    PROVE  Moved
<1>1. /\ TypeOK /\ Requester \in Node /\ Requester \notin Storage
      /\ answers[s] \in Seq(Message) /\ answers[s] # <<>>
      /\ \A t \in Storage : t \in Node
  BY NodeAssumption DEF IInv, TypeOK, StorageOK, Node, Receive
<1>2. PICK m \in Message, r \in Request : m = Head(answers[s]) /\ r = m.of
  <2>1. Head(answers[s]) \in Message
    BY <1>1
  <2> QED BY <2>1 DEF Message
<1>3. /\ answers'[s] = Tail(answers[s])
      /\ \A t \in Storage : t # s => answers'[t] = answers[t]
      /\ forwarded' = forwarded
  BY <1>1 DEF Receive, TypeOK, StorageOK
<1>4. \A q \in Request : QueueKept(answers[s], answers'[s], q)
  <2>1. 1 \in 1 .. Len(answers[s]) + 1
    BY <1>1, LenProperties
  <2> QED BY <1>1, <1>3, <2>1, SuffixesRise
<1>5. ASSUME \A t \in Storage : stream'[t] = stream[t]
      PROVE  \A t \in Storage, q \in Request : StorageMove(t, q)
  BY <1>3, <1>4, <1>5, SameIsKept DEF StorageMove, Kept
<1>6. \/ IsFor(m, s) /\ Moves(Done({r}))
      \/ /\ IsFor(m, s) /\ m.type = "Unicast" /\ stream[Requester][r].at = "foreign"
         /\ stream' = [stream EXCEPT ![Requester][r] = Gives(@, m.no)]
         /\ UNCHANGED <<holds, requesterVars>>
      \/ UNCHANGED stream /\ UNCHANGED <<holds, requesterVars>>
  BY <1>2 DEF Receive
<1>7. CASE IsFor(m, s) /\ Moves(Done({r}))
  <2>1. Cut(Done({r}), Unneeded(Done({r})))
    BY <1>7 DEF Moves
  <2>2. /\ holds' = holds
        /\ \A q \in Request : Turn(q) /\ PlaceMove(q)
        /\ \A t \in Storage : stream'[t] = stream[t]
    <3> HIDE DEF Done
    <3> QED BY <1>1, <2>1, DoneGoesOn, CutMoves
  <2> QED BY <1>5, <2>2 DEF Moved, Turns
<1>8. CASE UNCHANGED stream /\ UNCHANGED <<holds, requesterVars>>
  BY <1>5, <1>8 DEF requesterVars, Moved, Turns, Turn, PlaceMove
<1>9. CASE /\ IsFor(m, s) /\ m.type = "Unicast" /\ stream[Requester][r].at = "foreign"
           /\ stream' = [stream EXCEPT ![Requester][r] = Gives(@, m.no)]
           /\ UNCHANGED <<holds, requesterVars>>
  <2> DEFINE next == Gives(stream[Requester][r], m.no)
  <2>1. stream' = [stream EXCEPT ![Requester][r] = next] /\ place' = place
    BY <1>9 DEF requesterVars
  <2> HIDE DEF next
  <2>2. stream'[Requester][r] = next /\ Alone(r) /\ \A t \in Storage : stream'[t] = stream[t]
    BY <1>1, <2>1 DEF Alone, TypeOK, RequesterOK
  <2>3. GivesForeign(s, r)
    BY <1>1, <1>2, <1>3, <1>9, <2>1, <2>2 DEF GivesForeign, IsFor, next
  <2> QED BY <1>5, <1>9, <2>1, <2>2, <2>3 DEF Moved, Turns, PlaceMove
<1> QED BY <1>6, <1>7, <1>8, <1>9

\* Whatever happens
LEMMA NextMoves == IInv /\ [Next]_vars => Moved
<1> SUFFICES ASSUME IInv, [Next]_vars PROVE Moved
  OBVIOUS
<1>1. CASE UNCHANGED vars
  BY <1>1, SameStorage DEF vars, requesterVars, storageVars, Moved, Turns, Turn, PlaceMove
<1>2. \A n \in Node : n = Requester \/ n \in Storage
  BY DEF Node
<1>3. CASE \E r \in Request :
              \/ Ask(r) \/ Cancel(r)
              \/ \E n \in Node : Reads(n, r) \/ StorageEnds(n, r) \/ InactivityCheck(n, r)
  BY <1>2, <1>3, RequesterLoopsMove, StorageLoopsMove
<1>4. CASE \E s \in Storage :
              \/ \E r \in Request : Requested(s, r)
              \/ RequesterLost(s) \/ AnswerFails(s) \/ Pause(s) \/ Resume(s)
  BY <1>4, StorageStepsMove
<1>5. CASE \/ \E r \in Request : \/ AskTrackerFails(r) \/ TrackerTimeout(r)
                                 \/ ForwardFails(r) \/ Timeout(r)
           \/ \E s \in Storage : ConnectFails(s) \/ LinkLost(s)
           \/ \E list \in NodeLists : StorageNodesResponse(list)
           \/ Stop
  BY <1>5, PlacesMove
<1>6. CASE \/ \E r \in Request : AskTracker(r) \/ Forward(r)
           \/ \E s \in Storage : Connected(s)
  BY <1>6, RequestsMove
<1>7. CASE \E s \in Storage : Receive(s)
  BY <1>7, ReceiveMoves
<1> QED BY <1>1, <1>3, <1>4, <1>5, <1>6, <1>7 DEF Next

-----------------------------------------------------------------------------
\* What is ahead of the requester stays ahead of it.
StillAhead(s, r) ==
    \A low \in Nat :
        low <= Len(stream[s][r].given) /\ Rises(answers[s], r, low, Len(stream[s][r].given))
        => /\ low <= Len(stream'[s][r].given)
           /\ Rises(answers'[s], r, low, Len(stream'[s][r].given))

\* What a storage node has said to a request stays in order.
LEMMA StorageMovesRise ==
    ASSUME TypeOK, TypeOK', Moved, NEW s \in Storage, NEW r \in Request, AtStorage(s, r)
    PROVE  AtStorage(s, r)' /\ StillAhead(s, r)
<1> DEFINE loop == stream[s][r]
           next == stream'[s][r]
           k == Len(loop.given)
<1>1. /\ loop \in LoopType /\ next \in LoopType
      /\ k \in Nat /\ Len(next.given) \in Nat
      /\ answers[s] \in Seq(Message)
      /\ holds' = holds /\ PlaceMove(r) /\ StorageMove(s, r)
  BY PartsHaveType, LenProperties DEF Moved, TypeOK, RequesterOK, Node, LoopType
<1>2. /\ loop.at # "foreign"
      /\ loop.given = Numbers(k)
      /\ k <= holds[s][r]
      /\ loop.at = "local" => loop.seen = k
      /\ loop.at = "none" \/ r \in forwarded[s] => loop = NotAsked
      /\ place[r].at \notin {"current", "done"} => loop = NotAsked /\ r \notin forwarded[s]
      /\ Rises(answers[s], r, 0, k)
  BY DEF AtStorage, Fresh
<1>3. /\ NotAsked.at = "none" /\ NotAsked.given = <<>>
      /\ Over(loop).at = "over" /\ Over(loop).given = loop.given
      /\ Numbers(0) = <<>> /\ Len(<<>>) = 0
      /\ Loop("local", <<>>).at = "local" /\ Loop("local", <<>>).seen = 0
      /\ Loop("local", <<>>).given = <<>>
  BY DEF NotAsked, Loop, Over, Numbers
<1>4. place'[r].at \notin {"current", "done"} => place[r].at \notin {"current", "done"}
  BY <1>1 DEF PlaceMove
<1>5. SUFFICES
        /\ next.at # "foreign"
        /\ next.given = Numbers(Len(next.given))
        /\ Len(next.given) <= holds[s][r]
        /\ next.at = "local" => next.seen = Len(next.given)
        /\ next.at = "none" \/ r \in forwarded'[s] => next = NotAsked
        /\ place'[r].at \notin {"current", "done"} => next = NotAsked /\ r \notin forwarded'[s]
        /\ \A low \in Nat : low <= k /\ Rises(answers[s], r, low, k)
              => low <= Len(next.given) /\ Rises(answers'[s], r, low, Len(next.given))
  <2>1. Rises(answers'[s], r, 0, Len(next.given))
    BY <1>1, <1>2, <1>5
  <2> QED BY <1>1, <1>5, <2>1 DEF AtStorage, Fresh, StillAhead
<1> HIDE DEF loop, next, k
<1>6. CASE Kept(s, r)
  <2>1. /\ next = loop \/ (loop.at \in {"local", "foreign"} /\ next = Over(loop))
        /\ QueueKept(answers[s], answers'[s], r)
        /\ r \in forwarded'[s] => r \in forwarded[s]
    BY <1>6 DEF Kept, Runs, loop, next
  <2>2. next.given = loop.given
    BY <1>3, <2>1
  <2>3. next = loop \/ (next.at = "over" /\ loop # NotAsked)
    BY <1>3, <2>1
  <2>4. \A low \in Nat : Rises(answers[s], r, low, k) => Rises(answers'[s], r, low, k)
    BY <1>1, <2>1 DEF QueueKept
  <2> QED BY <1>2, <1>3, <1>4, <2>1, <2>2, <2>3, <2>4 DEF k
<1>7. CASE SendsNext(s, r)
  <2> DEFINE m == [type |-> "Unicast", of |-> r, no |-> loop.seen + 1]
  <2>1. /\ loop.at = "local" /\ loop.seen < holds[s][r]
        /\ next = Gives(loop, loop.seen + 1)
        /\ answers'[s] = Append(answers[s], m)
        /\ forwarded'[s] = forwarded[s]
    BY <1>7 DEF SendsNext, loop, next
  <2>2. /\ loop.seen = k /\ m \in Message /\ m.of = r /\ m.type = "Unicast" /\ m.no = k + 1
    BY <1>1, <1>2, <2>1 DEF Message
  <2> HIDE DEF m
  <2>3. /\ next.at = "local" /\ next.seen = k + 1
        /\ next.given = Append(loop.given, k + 1)
    <3>1. k + 1 \in Nat
      BY <1>1
    <3> QED BY <1>1, <2>1, <2>2, <3>1, LoopsHaveType
  <2>4. next.given = Numbers(k + 1) /\ Len(next.given) = k + 1
    BY <1>1, <1>2, <2>3, NumbersGrow
  <2>5. holds[s][r] \in Nat
    BY PartsHaveType
  <2>6. \A low \in Nat : low <= k /\ Rises(answers[s], r, low, k)
           => low <= k + 1 /\ Rises(answers'[s], r, low, k + 1)
    BY <1>1, <2>1, <2>2, NextRises
  <2>7. loop # NotAsked
    BY <1>3, <2>1
  <2> QED BY <1>1, <1>2, <1>4, <2>1, <2>2, <2>3, <2>4, <2>5, <2>6, <2>7
<1>8. CASE Begins(s, r)
  <2>1. /\ r \in forwarded[s] /\ r \notin forwarded'[s]
        /\ next = Loop("local", <<>>)
        /\ answers'[s] = answers[s]
    BY <1>8 DEF Begins, loop, next
  <2>2. loop = NotAsked /\ k = 0 /\ place'[r].at \in {"current", "done"}
    BY <1>2, <1>3, <1>4, <2>1 DEF k
  <2> QED BY <1>2, <1>3, <2>1, <2>2
<1>9. CASE Arrives(s, r)
  <2>1. /\ place[r].at = "sending" /\ place'[r].at = "current"
        /\ next = loop /\ answers'[s] = answers[s]
    BY <1>9 DEF Arrives, loop, next
  <2>2. loop = NotAsked
    BY <1>2, <2>1
  <2> QED BY <1>2, <1>3, <2>1, <2>2 DEF k
<1> QED BY <1>1, <1>6, <1>7, <1>8, <1>9 DEF StorageMove

\* Where a sequence of numbers starts over when it grows
LEMMA StartsOverGrows ==
    ASSUME NEW seq \in Seq(Nat), NEW i \in Nat
    PROVE  /\ Streams!StartsOver(Append(seq, i)) \subseteq
                  Streams!StartsOver(seq) \cup {Len(seq) + 1}
           /\ Len(seq) > 0 /\ seq[Len(seq)] < i
              => Streams!StartsOver(Append(seq, i)) \subseteq Streams!StartsOver(seq)
           /\ Len(seq) = 0 => Streams!StartsOver(Append(seq, i)) = {}
<1> DEFINE next == Append(seq, i)
           n == Len(seq)
<1>1. /\ n \in Nat /\ DOMAIN seq = 1 .. n /\ DOMAIN next = 1 .. n + 1
      /\ \A j \in 1 .. n : next[j] = seq[j]
      /\ next[n + 1] = i
      /\ \A j \in 1 .. n : seq[j] \in Nat
  BY LenProperties, AppendProperties, ElementOfSeq
<1> HIDE DEF next, n
<1>2. ASSUME NEW j \in Streams!StartsOver(next)
      PROVE  /\ j \in 2 .. n + 1 /\ next[j] <= next[j - 1]
             /\ j # n + 1 => j \in Streams!StartsOver(seq)
  <2>1. j \in 2 .. n + 1 /\ next[j] <= next[j - 1]
    BY <1>1 DEF Streams!StartsOver
  <2>2. ASSUME j # n + 1
        PROVE  j \in Streams!StartsOver(seq)
    <3>1. j \in 1 .. n /\ j - 1 \in 1 .. n /\ j # 1
      BY <1>1, <2>1, <2>2
    <3> QED BY <1>1, <2>1, <3>1 DEF Streams!StartsOver
  <2> QED BY <2>1, <2>2
<1>3. ASSUME n > 0, seq[n] < i
      PROVE  n + 1 \notin Streams!StartsOver(next)
  <2>1. n \in 1 .. n /\ (n + 1) - 1 = n /\ next[n] = seq[n] /\ seq[n] \in Nat
    BY <1>1, <1>3
  <2>2. ~ (next[n + 1] <= next[(n + 1) - 1])
    BY <1>1, <1>3, <2>1
  <2> QED BY <1>2, <2>2
<1>4. ASSUME n = 0
      PROVE  Streams!StartsOver(next) = {}
  <2>1. 2 .. n + 1 = {}
    BY <1>4
  <2> QED BY <1>2, <2>1
<1> QED BY <1>2, <1>3, <1>4 DEF next, n

\* Numbers that count up do not start over.
LEMMA NumbersDoNotStartOver ==
    ASSUME NEW k \in Nat
    PROVE  Streams!StartsOver(Numbers(k)) = {}
<1> SUFFICES ASSUME NEW j \in Streams!StartsOver(Numbers(k)) PROVE FALSE
  OBVIOUS
<1>1. j \in 1 .. k /\ j # 1 /\ Numbers(k)[j] <= Numbers(k)[j - 1]
  BY DEF Streams!StartsOver, Numbers
<1>2. j - 1 \in 1 .. k
  BY <1>1
<1>3. Numbers(k)[j] = j /\ Numbers(k)[j - 1] = j - 1
  BY <1>1, <1>2 DEF Numbers
<1> QED BY <1>1, <1>3

\* What a storage node sends is newer than what its strategy gave before.
LEMMA ForeignIsNewer ==
    ASSUME TypeOK, NEW r \in Request, NEW s \in Storage, GivesForeign(s, r),
           AtRequester(r), AtStorage(s, r), OnTheWay(s, r)
    PROVE  LET loop == stream[Requester][r]
               i == Head(answers[s]).no
           IN  /\ i \in Nat /\ i \in 1 .. holds[s][r]
               /\ Newest(loop) < i /\ i <= Len(stream[s][r].given)
               /\ Rises(Tail(answers[s]), r, i, Len(stream[s][r].given))
               /\ Streams!StartsOver(Append(loop.given, i)) \subseteq
                      {Len(loop.given) - loop.seen + 1}
<1> DEFINE loop == stream[Requester][r]
           i == Head(answers[s]).no
           k == Len(stream[s][r].given)
<1>1. /\ loop \in LoopType /\ loop.seen \in Nat /\ loop.given \in Seq(Nat)
      /\ Len(loop.given) \in Nat /\ k \in Nat /\ holds[s][r] \in Nat
      /\ \A j \in 1 .. Len(loop.given) : loop.given[j] \in Nat
      /\ answers[s] \in Seq(Message)
  <2>1. /\ loop \in LoopType /\ k \in Nat /\ holds[s][r] \in Nat
        /\ answers[s] \in Seq(Message)
    BY PartsHaveType
  <2> HIDE DEF loop, k
  <2>2. loop.seen \in Nat /\ loop.given \in Seq(Nat)
    BY <2>1 DEF LoopType
  <2>3. /\ Len(loop.given) \in Nat
        /\ \A j \in 1 .. Len(loop.given) : loop.given[j] \in Nat
    BY <2>2, LenProperties, ElementOfSeq
  <2> QED BY <2>1, <2>2, <2>3
<1>2. /\ answers[s] # <<>> /\ Head(answers[s]).of = r /\ Head(answers[s]).type = "Unicast"
      /\ loop.at = "foreign" /\ place[r].at = "current" /\ place[r].of = s
  BY DEF GivesForeign
<1>3. /\ loop.seen <= Len(loop.given)
      /\ Streams!StartsOver(loop.given) \subseteq {Len(loop.given) - loop.seen + 1}
      /\ k <= holds[s][r]
      /\ Newest(loop) <= k /\ Rises(answers[s], r, Newest(loop), k)
  BY <1>2 DEF AtRequester, AtStorage, OnTheWay
<1>4. Newest(loop) \in Nat
  <2> HIDE DEF loop
  <2>1. CASE loop.seen = 0
    BY <2>1 DEF Newest
  <2>2. CASE loop.seen # 0
    <3>1. Len(loop.given) \in 1 .. Len(loop.given)
      BY <1>1, <1>3, <2>2
    <3> QED BY <1>1, <2>2, <3>1 DEF Newest
  <2> QED BY <2>1, <2>2
<1>5. i \in Newest(loop) + 1 .. k /\ Rises(Tail(answers[s]), r, i, k)
  BY <1>1, <1>2, <1>3, <1>4, HeadRises
<1> HIDE DEF loop, i, k
<1>6. i \in Nat /\ i \in 1 .. holds[s][r] /\ Newest(loop) < i /\ i <= k
  <2> DEFINE n == Newest(loop)
             h == holds[s][r]
  <2>1. n \in Nat /\ k \in Nat /\ h \in Nat /\ k <= h /\ i \in n + 1 .. k
    BY <1>1, <1>3, <1>4, <1>5
  <2> HIDE DEF n, h
  <2>2. i \in Nat /\ i \in 1 .. h /\ n < i /\ i <= k
    BY <2>1
  <2> QED BY <2>2 DEF n, h
<1>7. Streams!StartsOver(Append(loop.given, i)) \subseteq {Len(loop.given) - loop.seen + 1}
  <2>1. CASE loop.seen = 0
    <3>1. Streams!StartsOver(loop.given) = {}
      <4> SUFFICES ASSUME NEW j \in Streams!StartsOver(loop.given) PROVE FALSE
        OBVIOUS
      <4>1. j \in 1 .. Len(loop.given) /\ j = Len(loop.given) - loop.seen + 1
        BY <1>1, <1>3, LenProperties DEF Streams!StartsOver
      <4> QED BY <1>1, <2>1, <4>1
    <3>2. Len(loop.given) - loop.seen + 1 = Len(loop.given) + 1
      BY <1>1, <2>1
    <3> QED BY <1>1, <1>6, <3>1, <3>2, StartsOverGrows
  <2>2. CASE loop.seen > 0
    <3>1. Len(loop.given) > 0 /\ loop.given[Len(loop.given)] < i
      BY <1>1, <1>3, <1>6, <2>2 DEF Newest
    <3> QED BY <1>1, <1>3, <1>6, <3>1, StartsOverGrows
  <2> QED BY <1>1, <2>1, <2>2
<1> QED BY <1>5, <1>6, <1>7 DEF loop, i, k

\* The streams of the application start over as before.
LEMMA RequesterMovesRise ==
    ASSUME TypeOK, TypeOK', Moved, StartsOverOnce,
           NEW r \in Request, \A s \in Storage : AtStorage(s, r)' /\ StillAhead(s, r)
    PROVE  AtRequester(r)' /\ \A s \in Storage : OnTheWay(s, r)'
<1> DEFINE loop == stream[Requester][r]
           next == stream'[Requester][r]
<1>1. /\ loop \in LoopType /\ loop.seen \in Nat /\ loop.given \in Seq(Nat)
      /\ Len(loop.given) \in Nat
      /\ next \in LoopType
      /\ \A s \in Storage : /\ Len(stream[s][r].given) \in Nat
                            /\ Len(stream'[s][r].given) \in Nat
      /\ AtRequester(r) /\ PlaceMove(r)
  BY PartsHaveType, LenProperties DEF LoopType, Moved, StartsOverOnce, TypeOK, RequesterOK, Node
<1>2. ASSUME next.at = "foreign" => next.seen = 0
      PROVE  \A s \in Storage : OnTheWay(s, r)'
  <2> TAKE s \in Storage
  <2>1. Rises(answers'[s], r, 0, Len(stream'[s][r].given))
    BY DEF AtStorage
  <2> QED BY <1>1, <1>2, <2>1 DEF OnTheWay, Newest
<1>3. CASE next = loop
  <2>1. AtRequester(r)'
    BY <1>1, <1>3 DEF AtRequester, PlaceMove
  <2>2. ASSUME NEW s \in Storage, next.at = "foreign", place'[r].at = "current", place'[r].of = s
        PROVE  OnTheWay(s, r)'
    <3>1. CASE place'[r] = place[r]
      <4>1. OnTheWay(s, r)
        BY DEF StartsOverOnce
      <4>2. Newest(loop) \in Nat
        <5>1. loop.seen <= Len(loop.given)
          BY <1>1, <1>3, <2>2 DEF AtRequester
        <5>2. CASE loop.seen = 0
          BY <5>2 DEF Newest
        <5>3. CASE loop.seen # 0
          <6>1. Len(loop.given) \in 1 .. Len(loop.given)
            BY <1>1, <5>1, <5>3
          <6>2. loop.given[Len(loop.given)] \in Nat
            BY <1>1, <6>1, ElementOfSeq
          <6> QED BY <5>3, <6>2 DEF Newest
        <5> QED BY <5>2, <5>3
      <4>3. /\ Newest(loop) <= Len(stream[s][r].given)
            /\ Rises(answers[s], r, Newest(loop), Len(stream[s][r].given))
        BY <1>3, <2>2, <3>1, <4>1 DEF OnTheWay
      <4> QED BY <1>3, <4>2, <4>3 DEF OnTheWay, StillAhead
    <3>2. CASE place[r].at = "sending"
      <4>1. next.seen = 0
        BY <1>1, <1>3, <2>2, <3>2 DEF AtRequester
      <4> QED BY <1>2, <4>1
    <3> QED BY <1>1, <2>2, <3>1, <3>2 DEF PlaceMove
  <2>3. \A s \in Storage : OnTheWay(s, r)'
    BY <2>2 DEF OnTheWay
  <2> QED BY <2>1, <2>3
<1>4. CASE next = Over(loop) \/ next = Loop("local", <<>>)
  <2>1. next.at # "foreign"
    BY <1>4 DEF Over, Loop
  <2>2. AtRequester(r)'
    BY <1>4 DEF AtRequester, Over, Loop, Numbers
  <2> QED BY <1>2, <2>1, <2>2
<1>5. CASE loop.at = "local" /\ next = Loop("foreign", loop.given)
  <2>1. next.at = "foreign" /\ next.seen = 0 /\ next.given = Numbers(loop.seen)
    BY <1>1, <1>5 DEF AtRequester, Loop
  <2>2. Len(next.given) = loop.seen /\ Streams!StartsOver(next.given) = {}
    BY <1>1, <2>1, NumbersGrow, NumbersDoNotStartOver
  <2>3. AtRequester(r)'
    BY <1>1, <2>1, <2>2 DEF AtRequester
  <2> QED BY <1>2, <2>1, <2>3
<1>6. CASE GivesLocal(r)
  <2>1. /\ loop.at = "local" /\ next = Gives(loop, loop.seen + 1) /\ loop.seen + 1 \in Nat
    BY <1>1, <1>6 DEF GivesLocal
  <2>2. /\ next.at = "local" /\ next.seen = loop.seen + 1
        /\ next.given = Append(loop.given, loop.seen + 1)
    <3> HIDE DEF loop, next
    <3> QED BY <1>1, <2>1, LoopsHaveType
  <2>3. loop.given = Numbers(loop.seen)
    BY <1>1, <2>1 DEF AtRequester
  <2>4. next.given = Numbers(next.seen)
    BY <1>1, <2>2, <2>3, NumbersGrow
  <2>5. AtRequester(r)'
    BY <2>2, <2>4 DEF AtRequester
  <2> QED BY <1>2, <2>2, <2>5
<1>7. ASSUME NEW s \in Storage, GivesForeign(s, r)
      PROVE  AtRequester(r)' /\ \A t \in Storage : OnTheWay(t, r)'
  <2> DEFINE i == Head(answers[s]).no
             k == Len(stream[s][r].given)
  <2>1. /\ i \in Nat /\ Newest(loop) < i /\ i <= k
        /\ Rises(Tail(answers[s]), r, i, k)
        /\ Streams!StartsOver(Append(loop.given, i)) \subseteq {Len(loop.given) - loop.seen + 1}
    BY <1>1, <1>7, ForeignIsNewer DEF StartsOverOnce
  <2>2. /\ loop.at = "foreign" /\ place'[r] = place[r]
        /\ place[r].at = "current" /\ place[r].of = s
        /\ answers'[s] = Tail(answers[s])
        /\ stream'[s][r] = stream[s][r]
        /\ next = Gives(loop, i)
    BY <1>7 DEF GivesForeign
  <2> HIDE DEF i, loop
  <2>3. /\ next.at = "foreign" /\ next.seen = loop.seen + 1
        /\ next.given = Append(loop.given, i)
    <3> HIDE DEF next
    <3> QED BY <1>1, <2>1, <2>2, LoopsHaveType
  <2>4. Len(next.given) = Len(loop.given) + 1 /\ next.given[Len(next.given)] = i
    <3>1. PICK given \in Seq(Nat) : given = loop.given
      BY <1>1
    <3>2. Len(Append(given, i)) = Len(given) + 1 /\ Append(given, i)[Len(given) + 1] = i
      BY <2>1, AppendProperties
    <3> QED BY <2>3, <3>1, <3>2
  <2>5. loop.seen <= Len(loop.given)
    BY <1>1, <2>2 DEF AtRequester, loop
  <2>6. /\ Len(next.given) - next.seen + 1 = Len(loop.given) - loop.seen + 1
        /\ next.seen <= Len(next.given)
    <3>1. PICK seen \in Nat, length \in Nat : seen = loop.seen /\ length = Len(loop.given)
      BY <1>1
    <3>2. next.seen = seen + 1 /\ Len(next.given) = length + 1 /\ seen <= length
      BY <2>3, <2>4, <2>5, <3>1
    <3>3. /\ (length + 1) - (seen + 1) + 1 = length - seen + 1
          /\ seen + 1 <= length + 1
      BY <3>2
    <3> QED BY <3>1, <3>2, <3>3
  <2>7. AtRequester(r)'
    BY <2>1, <2>2, <2>3, <2>6 DEF AtRequester
  <2>8. Newest(next) = i
    BY <1>1, <2>3, <2>4 DEF Newest
  <2>9. \A t \in Storage : OnTheWay(t, r)'
    BY <2>1, <2>2, <2>8 DEF OnTheWay
  <2> QED BY <2>7, <2>9
<1>8. \/ next = loop
      \/ next = Over(loop) \/ next = Loop("local", <<>>)
      \/ loop.at = "local" /\ next = Loop("foreign", loop.given)
      \/ GivesLocal(r)
      \/ \E s \in Storage : GivesForeign(s, r)
  <2>1. CASE \A q \in Request : Turn(q)
    BY <2>1 DEF Turn
  <2>2. CASE \E q \in Request : Opens(q) \/ GivesLocal(q) \/ \E s \in Storage : GivesForeign(s, q)
    <3> PICK q \in Request : Opens(q) \/ GivesLocal(q) \/ \E s \in Storage : GivesForeign(s, q)
      BY <2>2
    <3>1. CASE q = r
      BY <3>1 DEF Opens
    <3>2. CASE q # r
      BY <3>2 DEF Opens, GivesLocal, GivesForeign, Alone
    <3> QED BY <3>1, <3>2
  <2> QED BY <2>1, <2>2 DEF Moved, Turns
<1> QED BY <1>3, <1>4, <1>5, <1>6, <1>7, <1>8

\* Nothing has been given yet.
LEMMA InitStartsOverOnce == Init => StartsOverOnce
<1> SUFFICES ASSUME Init, NEW r \in Request
             PROVE  AtRequester(r) /\ \A s \in Storage : AtStorage(s, r) /\ OnTheWay(s, r)
  BY DEF StartsOverOnce
<1>1. /\ \A n \in Node : stream[n][r] = NotAsked
      /\ place[r].at = "none"
      /\ \A s \in Storage : s \in Node /\ answers[s] = <<>> /\ forwarded[s] = {}
      /\ Requester \in Node
  BY DEF Init, Nowhere, At, Node
<1>2. NotAsked.at = "none" /\ NotAsked.given = <<>> /\ Len(<<>>) = 0 /\ Numbers(0) = <<>>
  BY DEF NotAsked, Loop, Numbers
<1>3. AtRequester(r)
  BY <1>1, <1>2 DEF AtRequester
<1>4. \A s \in Storage : OnTheWay(s, r)
  BY <1>1, <1>2 DEF OnTheWay
<1>5. ASSUME NEW s \in Storage
      PROVE  AtStorage(s, r)
  <2>1. Rises(answers[s], r, 0, 0)
    BY <1>1 DEF Rises, Unicasts
  <2>2. holds[s][r] \in Nat
    BY <1>1, HoldingsAssumption DEF Init
  <2> QED BY <1>1, <1>2, <2>1, <2>2 DEF AtStorage, Fresh
<1> QED BY <1>3, <1>4, <1>5

\* The inductive step
LEMMA NextStartsOverOnce == IInv /\ StartsOverOnce /\ [Next]_vars => StartsOverOnce'
<1> SUFFICES ASSUME IInv, StartsOverOnce, [Next]_vars PROVE StartsOverOnce'
  OBVIOUS
<1>1. TypeOK /\ TypeOK' /\ Moved
  BY NextMoves, NextKeepsTypeOK DEF IInv
<1>2. \A r \in Request, s \in Storage : AtStorage(s, r)' /\ StillAhead(s, r)
  BY <1>1, StorageMovesRise DEF StartsOverOnce
<1>3. \A r \in Request : AtRequester(r)' /\ \A s \in Storage : OnTheWay(s, r)'
  BY <1>1, <1>2, RequesterMovesRise
<1> QED BY <1>2, <1>3 DEF StartsOverOnce

\* The invariant of the streams: whatever fails, stalls or is stopped, what a
\* storage node says to a request is in order, said once, and newer than what the
\* requester has of it, so that a stream starts over at most where its second
\* strategy begins.
THEOREM StreamInvariant == Spec => [](IInv /\ StartsOverOnce)
<1>1. Init => IInv /\ StartsOverOnce
  BY InitEstablishesIInv, InitStartsOverOnce
<1>2. IInv /\ StartsOverOnce /\ [Next]_vars => IInv' /\ StartsOverOnce'
  BY NextKeepsIInv, NextStartsOverOnce
<1> QED BY <1>1, <1>2, PTL DEF Spec

-----------------------------------------------------------------------------
\* The state of the stream that a loop is, in ResendStream
StateOf(at) == IF at = "none" THEN "none"
               ELSE IF at \in {"local", "foreign"} THEN "open"
               ELSE "ended"

Given == [r \in Request |-> stream[Requester][r].given]

State == [r \in Request |-> StateOf(stream[Requester][r].at)]

\* The variables of ResendStream
LEMMA StreamVariables ==
    /\ State = [r \in Request |->
                  CASE stream[Requester][r].at = "none" -> "none"
                    [] Runs(Requester, r) -> "open"
                    [] OTHER -> "ended"]
    /\ State' = [r \in Request |->
                  CASE stream[Requester][r].at = "none" -> "none"
                    [] Runs(Requester, r) -> "open"
                    [] OTHER -> "ended"]'
    /\ Given = [r \in Request |-> stream[Requester][r].given]
    /\ Given' = [r \in Request |-> stream[Requester][r].given]'
BY DEF State, StateOf, Given, Runs

\* The streams at the beginning of ResendStream, and its steps
LEMMA StreamsBegin ==
    Given = [r \in Request |-> <<>>] /\ State = [r \in Request |-> "none"] => Streams!Init
BY StreamVariables DEF Streams!Init

\* They may stay as they are.
LEMMA StreamsStay == Given' = Given /\ State' = State => UNCHANGED Streams!streamVars
BY StreamVariables DEF Streams!streamVars

\* A request's stream opens, ...
LEMMA StreamIsAsked ==
    ASSUME NEW r \in Request,
           State[r] = "none", State' = [State EXCEPT ![r] = "open"], Given' = Given
    PROVE  Streams!Next
<1>1. Streams!Ask(r)
  BY StreamVariables DEF Streams!Ask
<1> QED BY <1>1 DEF Streams!Next

\* ... gives a message that may be stored, ...
LEMMA StreamGives ==
    ASSUME NEW r \in Request, State[r] = "open", State' = State,
           NEW i \in Numbered, Given' = [Given EXCEPT ![r] = Append(@, i)],
           Cardinality(Streams!StartsOver(Given'[r])) < 2
    PROVE  Streams!Next
<1>1. Streams!Cardinality(Streams!StartsOver(Given'[r])) < 2
  BY DEF Streams!Cardinality, Cardinality
<1>2. Streams!Give(r)
  BY <1>1, StreamVariables DEF Streams!Give
<1> QED BY <1>2 DEF Streams!Next

\* ... and ends, perhaps with others.
LEMMA StreamsAreEnded ==
    ASSUME NEW rs \in SUBSET Request, rs # {}, \A r \in rs : State[r] = "open",
           State' = [r \in Request |-> IF r \in rs THEN "ended" ELSE State[r]],
           Given' = Given
    PROVE  Streams!Next
<1>1. Streams!End(rs)
  BY StreamVariables DEF Streams!End
<1> QED BY <1>1 DEF Streams!Next

\* Streams that end, or go on to the next strategy
LEMMA TurnsAreStreamSteps ==
    ASSUME TypeOK, TypeOK', \A r \in Request : Turn(r)
    PROVE  [Streams!Next]_(Streams!streamVars)
<1> DEFINE rs == {r \in Request : /\ Runs(Requester, r)
                                  /\ stream'[Requester][r] = Over(stream[Requester][r])}
<1>1. \A r \in Request :
          /\ stream'[Requester][r].given = stream[Requester][r].given
          /\ r \in rs => /\ StateOf(stream[Requester][r].at) = "open"
                         /\ StateOf(stream'[Requester][r].at) = "ended"
          /\ r \notin rs => StateOf(stream'[Requester][r].at) = StateOf(stream[Requester][r].at)
  <2> TAKE r \in Request
  <2>1. stream[Requester][r] = stream'[Requester][r]
        \/ (Runs(Requester, r) /\ stream'[Requester][r] = Over(stream[Requester][r]))
        \/ (/\ stream[Requester][r].at = "local"
            /\ stream'[Requester][r] = Loop("foreign", stream[Requester][r].given))
    BY DEF Turn
  <2>2. CASE r \in rs
    BY <2>2 DEF Over, Loop, StateOf, Runs
  <2>3. CASE r \notin rs /\ stream'[Requester][r] = stream[Requester][r]
    BY <2>3
  <2>4. CASE /\ r \notin rs /\ stream[Requester][r].at = "local"
             /\ stream'[Requester][r] = Loop("foreign", stream[Requester][r].given)
    BY <2>4 DEF Loop, StateOf
  <2> QED BY <2>1, <2>2, <2>3, <2>4
<1> HIDE DEF rs
<1>2. Given' = Given
  BY <1>1 DEF Given
<1>3. State' = [r \in Request |-> IF r \in rs THEN "ended" ELSE State[r]]
  BY <1>1 DEF State
<1>4. \A r \in rs : State[r] = "open"
  BY <1>1 DEF State, rs
<1>5. CASE rs = {}
  <2>1. State' = State
    BY <1>3, <1>5 DEF State
  <2> QED BY <1>2, <2>1, StreamsStay
<1>6. CASE rs # {}
  <2>1. rs \in SUBSET Request
    BY DEF rs
  <2> QED BY <1>2, <1>3, <1>4, <1>6, <2>1, StreamsAreEnded
<1> QED BY <1>5, <1>6

\* A stream that gives a message
LEMMA GivingIsAStreamStep ==
    ASSUME TypeOK, TypeOK', NEW r \in Request, Alone(r), NEW i \in Numbered, i \in Nat,
           Runs(Requester, r),
           stream'[Requester][r] = Gives(stream[Requester][r], i),
           NEW j, Streams!StartsOver(Append(stream[Requester][r].given, i)) \subseteq {j}
    PROVE  [Streams!Next]_(Streams!streamVars)
<1> DEFINE loop == stream[Requester][r]
           next == stream'[Requester][r]
<1>1. loop \in LoopType /\ next = Gives(loop, i) /\ loop.at \in {"local", "foreign"}
  BY PartsHaveType DEF Runs
<1> HIDE DEF loop, next
<1>2. next.at = loop.at /\ next.given = Append(loop.given, i)
  BY <1>1, LoopsHaveType
<1>3. Given' = [Given EXCEPT ![r] = Append(@, i)]
  BY <1>2 DEF Given, Alone, loop, next
<1>4. State' = State /\ State[r] = "open"
  BY <1>1, <1>2 DEF State, StateOf, Alone, loop, next
<1>5. Given'[r] = Append(loop.given, i)
  BY <1>2 DEF Given, next
<1>6. Cardinality(Streams!StartsOver(Given'[r])) < 2
  <2> DEFINE starts == Streams!StartsOver(Given'[r])
  <2>1. starts \in SUBSET {j}
    BY <1>5 DEF loop
  <2>2. IsFiniteSet({j}) /\ Cardinality({j}) = 1
    BY FS_Singleton
  <2> HIDE DEF starts
  <2>3. Cardinality(starts) <= 1 /\ IsFiniteSet(starts)
    BY <2>1, <2>2, FS_Subset
  <2>4. Cardinality(starts) \in Nat
    BY <2>3, FS_CardinalityType
  <2>5. Cardinality(starts) < 2
    BY <2>3, <2>4
  <2> QED BY <2>5 DEF starts
<1> QED BY <1>3, <1>4, <1>6, StreamGives

\* Every step is a step of the streams, or they stay as they are.
LEMMA NextIsAStreamStep ==
    IInv /\ StartsOverOnce /\ [Next]_vars => [Streams!Next]_(Streams!streamVars)
<1> SUFFICES ASSUME IInv, StartsOverOnce, [Next]_vars
             PROVE  [Streams!Next]_(Streams!streamVars)
  OBVIOUS
<1>1. TypeOK /\ TypeOK' /\ Moved
  BY NextMoves, NextKeepsTypeOK DEF IInv
<1>2. CASE \A r \in Request : Turn(r)
  BY <1>1, <1>2, TurnsAreStreamSteps
<1>3. ASSUME NEW r \in Request, Opens(r)
      PROVE  [Streams!Next]_(Streams!streamVars)
  <2>1. /\ stream[Requester][r].at = "none" /\ stream[Requester][r].given = <<>>
        /\ stream'[Requester][r].at = "local" /\ stream'[Requester][r].given = <<>>
    BY <1>3 DEF Opens, StartsOverOnce, AtRequester, Loop
  <2>2. Given' = Given
    BY <1>3, <2>1 DEF Given, Opens, Alone
  <2>3. State[r] = "none" /\ State' = [State EXCEPT ![r] = "open"]
    BY <1>3, <2>1 DEF State, StateOf, Opens, Alone
  <2> QED BY <2>2, <2>3, StreamIsAsked
<1>4. \A n \in Node, r \in Request : \A i \in 1 .. holds[n][r] : i \in Numbered
  <2> TAKE n \in Node, r \in Request
  <2>1. holds \in Holdings
    BY <1>1 DEF TypeOK, RequesterOK
  <2> DEFINE ranges == {1 .. h[m][q] : h \in Holdings, m \in Node, q \in Request}
  <2>2. 1 .. holds[n][r] \in ranges
    BY <2>1
  <2>3. Numbered = UNION ranges
    BY DEF Numbered
  <2> HIDE DEF ranges
  <2> QED BY <2>2, <2>3
<1>5. ASSUME NEW r \in Request, GivesLocal(r)
      PROVE  [Streams!Next]_(Streams!streamVars)
  <2> DEFINE loop == stream[Requester][r]
             i == loop.seen + 1
  <2>1. /\ loop.seen \in Nat /\ holds[Requester][r] \in Nat /\ i \in Nat
        /\ loop.at = "local" /\ loop.seen < holds[Requester][r]
        /\ stream'[Requester][r] = Gives(loop, i) /\ Alone(r)
    BY <1>1, <1>5, PartsHaveType DEF GivesLocal, LoopType
  <2>2. i \in 1 .. holds[Requester][r]
    BY <2>1
  <2>3. i \in Numbered
    BY <1>4, <2>2 DEF Node
  <2>4. Append(loop.given, i) = Numbers(i)
    BY <2>1, NumbersGrow DEF StartsOverOnce, AtRequester
  <2>5. Streams!StartsOver(Append(loop.given, i)) \subseteq {1}
    BY <2>1, <2>4, NumbersDoNotStartOver
  <2>6. Runs(Requester, r)
    BY <2>1 DEF Runs
  <2> QED BY <1>1, <2>1, <2>3, <2>5, <2>6, GivingIsAStreamStep
<1>6. ASSUME NEW r \in Request, NEW s \in Storage, GivesForeign(s, r)
      PROVE  [Streams!Next]_(Streams!streamVars)
  <2> DEFINE loop == stream[Requester][r]
             i == Head(answers[s]).no
  <2>1. /\ i \in Nat /\ i \in 1 .. holds[s][r]
        /\ Streams!StartsOver(Append(loop.given, i)) \subseteq {Len(loop.given) - loop.seen + 1}
    BY <1>1, <1>6, ForeignIsNewer DEF StartsOverOnce
  <2>2. /\ Runs(Requester, r) /\ Alone(r)
        /\ stream'[Requester][r] = Gives(loop, i)
    BY <1>6 DEF GivesForeign, Runs
  <2>3. i \in Numbered
    BY <1>4, <2>1 DEF Node
  <2> QED BY <1>1, <2>1, <2>2, <2>3, GivingIsAStreamStep
<1> QED BY <1>1, <1>2, <1>3, <1>5, <1>6 DEF Moved, Turns

\* The loop through the strategies implements what whoever requests a resend can
\* rely on: the safety part of ImplementsStream.
THEOREM StreamIsImplemented ==
    Spec => Streams!Init /\ [][Streams!Next]_(Streams!streamVars)
<1>1. Init => Streams!Init
  <2> SUFFICES ASSUME Init PROVE Streams!Init
    OBVIOUS
  <2>1. \A r \in Request : stream[Requester][r] = NotAsked
    BY DEF Init, Node
  <2>2. Given = [r \in Request |-> <<>>] /\ State = [r \in Request |-> "none"]
    BY <2>1 DEF Given, State, StateOf, NotAsked, Loop
  <2> QED BY <2>2, StreamsBegin
<1>2. IInv /\ StartsOverOnce /\ [Next]_vars => [Streams!Next]_(Streams!streamVars)
  BY NextIsAStreamStep
<1> QED BY <1>1, <1>2, StreamInvariant, PTL DEF Spec
=============================================================================
