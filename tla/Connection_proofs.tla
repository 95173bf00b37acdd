-------------------------- MODULE Connection_proofs --------------------------
(***************************************************************************)
(* Proofs about src/connection/MessageQueue.ts and Connection.ts.  The     *)
(* queue keeps the inductive invariant QueueIInv and implements            *)
(* OrderedDelivery; what a connection does to its queue is what the queue  *)
(* offers, so that the theorems about the queue hold for it; it never      *)
(* strands a message; and a closed connection is quiet.                    *)
(***************************************************************************)
EXTENDS Connection, SequenceTheorems, TLAPS

-----------------------------------------------------------------------------
(***************************************************************************)
(* The queue                                                               *)
(***************************************************************************)
\* A message is pending just when it is one of the last Len(queue) messages, so
\* that the head of the queue is the oldest pending message.
LEMMA HeadIsOldest ==
    ASSUME QueueTypeOK, QueueIsTail, QueueHoldsPending, queue # <<>>
    PROVE  /\ Head(queue) = Len(outcome) - Len(queue) + 1
           /\ Head(queue) \in DOMAIN outcome
           /\ Delivery!Oldest(Head(queue))
<1>1. /\ Len(queue) \in Nat \ {0} /\ Head(queue) = queue[1]
      /\ Len(outcome) \in Nat
  BY DEF QueueTypeOK
<1>2. Head(queue) = Len(outcome) - Len(queue) + 1
  BY <1>1 DEF QueueIsTail, QueueTypeOK
<1>3. queue[1] \in 1 .. Len(outcome) /\ DOMAIN outcome = 1 .. Len(outcome)
  BY <1>1 DEF QueueTypeOK
<1>4. Head(queue) \in DOMAIN outcome
  BY <1>1, <1>3
<1>5. outcome[Head(queue)] = "pending"
  BY <1>1, <1>2, <1>4 DEF QueueHoldsPending
<1>6. \A j \in 1 .. Head(queue) - 1 : outcome[j] # "pending"
  <2> SUFFICES ASSUME NEW j \in 1 .. Head(queue) - 1 PROVE outcome[j] # "pending"
    OBVIOUS
  <2>1. j \in DOMAIN outcome /\ ~(j > Len(outcome) - Len(queue))
    BY <1>1, <1>2, <1>3
  <2> QED BY <2>1 DEF QueueHoldsPending
<1> QED BY <1>2, <1>4, <1>5, <1>6 DEF Delivery!Oldest

\* The tail of a non-empty queue, as a function.
LEMMA TailOfQueue ==
    ASSUME QueueTypeOK, queue # <<>>
    PROVE  /\ Tail(queue) \in Seq(1 .. Len(outcome))
           /\ Len(Tail(queue)) = Len(queue) - 1
           /\ \A k \in 1 .. Len(queue) - 1 : Tail(queue)[k] = queue[k + 1]
  BY HeadTailProperties DEF QueueTypeOK

-----------------------------------------------------------------------------
\* The invariant survives when the head leaves the queue with an outcome,
\* whatever becomes of its tries.
LEMMA SettlingHead ==
    ASSUME QueueIInv, queue # <<>>,
           NEW o \in {"delivered", "failed"},
           queue' = Tail(queue),
           outcome' = [outcome EXCEPT ![Head(queue)] = o],
           tries' \in Seq(0 .. MaxTries),
           Len(tries') = Len(tries),
           \A i \in DOMAIN tries : i # Head(queue) => tries'[i] = tries[i]
    PROVE  QueueIInv'
<1>1. QueueTypeOK /\ QueueIsTail /\ QueueHoldsPending /\ TriesLeft
  BY DEF QueueIInv
<1>2. /\ Head(queue) = Len(outcome) - Len(queue) + 1
      /\ Head(queue) \in DOMAIN outcome
  BY <1>1, HeadIsOldest
<1>3. /\ queue' \in Seq(1 .. Len(outcome))
      /\ Len(queue') = Len(queue) - 1
      /\ \A k \in 1 .. Len(queue) - 1 : queue'[k] = queue[k + 1]
  BY <1>1, TailOfQueue
<1>4. /\ Len(queue) \in Nat \ {0} /\ Len(outcome) \in Nat /\ Len(tries) \in Nat
      /\ DOMAIN queue = 1 .. Len(queue) /\ DOMAIN outcome = 1 .. Len(outcome)
      /\ DOMAIN tries = 1 .. Len(tries)
      /\ Len(tries) = Len(outcome)
  BY <1>1 DEF QueueTypeOK
<1>5. /\ outcome' \in Seq({"pending", "delivered", "failed"})
      /\ Len(outcome') = Len(outcome)
      /\ \A i \in DOMAIN outcome :
             outcome'[i] = IF i = Head(queue) THEN o ELSE outcome[i]
  BY <1>1, <1>2, ExceptSeq DEF QueueTypeOK
<1>6. /\ DOMAIN queue' = 1 .. Len(queue) - 1
      /\ DOMAIN outcome' = DOMAIN outcome
      /\ DOMAIN tries' = DOMAIN tries
  BY <1>3, <1>4, <1>5
<1>7. QueueTypeOK'
  BY <1>1, <1>3, <1>4, <1>5, MaxSizeAssumption DEF QueueTypeOK
<1>8. QueueIsTail'
  <2> SUFFICES ASSUME NEW k \in 1 .. Len(queue) - 1
               PROVE  queue'[k] = Len(outcome) - (Len(queue) - 1) + k
    BY <1>3, <1>5, <1>6 DEF QueueIsTail
  <2>1. queue'[k] = queue[k + 1] /\ k + 1 \in DOMAIN queue
    BY <1>3, <1>4
  <2>2. queue[k + 1] = Len(outcome) - Len(queue) + (k + 1)
    BY <2>1, <1>1 DEF QueueIsTail
  <2> QED BY <2>1, <2>2, <1>4
<1>9. QueueHoldsPending'
  <2> SUFFICES ASSUME NEW i \in DOMAIN outcome
               PROVE  outcome'[i] = "pending" <=> i > Len(outcome) - (Len(queue) - 1)
    BY <1>3, <1>5, <1>6 DEF QueueHoldsPending
  <2>1. outcome[i] = "pending" <=> i > Len(outcome) - Len(queue)
    BY <1>1 DEF QueueHoldsPending
  <2>2. CASE i = Head(queue)
    BY <2>2, <1>2, <1>4, <1>5
  <2>3. CASE i # Head(queue)
    BY <2>1, <2>3, <1>2, <1>4, <1>5
  <2> QED BY <2>2, <2>3
<1>10. TriesLeft'
  <2> SUFFICES ASSUME NEW k \in 1 .. Len(queue) - 1
               PROVE  tries'[queue'[k]] < MaxTries
    BY <1>6 DEF TriesLeft
  <2>1. queue'[k] = queue[k + 1] /\ k + 1 \in DOMAIN queue
    BY <1>3, <1>4
  <2>2. queue[k + 1] = Len(outcome) - Len(queue) + (k + 1)
    BY <2>1, <1>1 DEF QueueIsTail
  <2>3. queue[k + 1] \in DOMAIN tries /\ queue[k + 1] # Head(queue)
    BY <2>2, <1>2, <1>4
  <2>4. tries'[queue[k + 1]] = tries[queue[k + 1]]
    BY <2>3
  <2> QED BY <2>1, <2>4, <1>1 DEF TriesLeft
<1> QED BY <1>7, <1>8, <1>9, <1>10 DEF QueueIInv

\* The invariant survives a message that was sent (pop and delivered).
LEMMA DeliveredKeeps == ASSUME QueueIInv, Delivered PROVE QueueIInv'
<1>1. tries' \in Seq(0 .. MaxTries)
  BY DEF QueueIInv, QueueTypeOK, Delivered
<1> QED BY <1>1, SettlingHead DEF Delivered

\* The invariant survives a message that is dropped at the head (immediateFail
\* and pop).
LEMMA ImmediateFailKeeps == ASSUME QueueIInv, ImmediateFail PROVE QueueIInv'
<1>1. tries' \in Seq(0 .. MaxTries)
  BY DEF QueueIInv, QueueTypeOK, ImmediateFail
<1> QED BY <1>1, SettlingHead DEF ImmediateFail

\* A failed attempt: the head leaves or has a try less left.
LEMMA IncrementTriesKeeps == ASSUME QueueIInv, IncrementTries PROVE QueueIInv'
<1>1. QueueTypeOK /\ QueueIsTail /\ QueueHoldsPending /\ TriesLeft /\ queue # <<>>
  BY DEF QueueIInv, IncrementTries
<1>2. Head(queue) \in DOMAIN outcome /\ Head(queue) = queue[1] /\ 1 \in DOMAIN queue
  BY <1>1, HeadIsOldest DEF QueueTypeOK
<1>3. Head(queue) \in DOMAIN tries
  BY <1>1, <1>2 DEF QueueTypeOK
<1>4. tries[Head(queue)] \in 0 .. MaxTries /\ tries[Head(queue)] < MaxTries
  <2>1. tries \in Seq(0 .. MaxTries)
    BY <1>1 DEF QueueTypeOK
  <2>2. tries[Head(queue)] \in 0 .. MaxTries
    <3>1. Head(queue) \in 1 .. Len(tries)
      BY <2>1, <1>3, LenProperties
    <3> QED BY <2>1, <3>1, ElementOfSeq
  <2>3. tries[queue[1]] < MaxTries
    BY <1>1, <1>2 DEF TriesLeft
  <2> QED BY <2>2, <2>3, <1>2
<1>5. tries' = [tries EXCEPT ![Head(queue)] = tries[Head(queue)] + 1]
  BY DEF IncrementTries
<1>6. tries[Head(queue)] + 1 \in 0 .. MaxTries
  BY <1>4, MaxTriesAssumption
<1>7. /\ tries' \in Seq(0 .. MaxTries)
      /\ Len(tries') = Len(tries)
      /\ \A i \in DOMAIN tries :
             tries'[i] = IF i = Head(queue) THEN tries[Head(queue)] + 1 ELSE tries[i]
  BY <1>1, <1>3, <1>5, <1>6, ExceptSeq DEF QueueTypeOK
<1>8. CASE tries'[Head(queue)] >= MaxTries
  <2>1. /\ queue' = Tail(queue)
        /\ outcome' = [outcome EXCEPT ![Head(queue)] = "failed"]
    BY <1>8 DEF IncrementTries
  <2> QED BY <2>1, <1>1, <1>7, SettlingHead
<1>9. CASE ~(tries'[Head(queue)] >= MaxTries)
  <2>1. queue' = queue /\ outcome' = outcome
    BY <1>9 DEF IncrementTries
  <2>2. QueueTypeOK'
    BY <2>1, <1>1, <1>7 DEF QueueTypeOK
  <2>3. QueueIsTail' /\ QueueHoldsPending'
    BY <2>1, <1>1 DEF QueueIsTail, QueueHoldsPending
  <2>4. ASSUME NEW k \in DOMAIN queue PROVE tries'[queue[k]] < MaxTries
    <3>1. queue[k] \in DOMAIN tries
      BY <1>1 DEF QueueTypeOK
    <3>2. CASE queue[k] = Head(queue)
      BY <3>2, <1>4, <1>7, <1>9, <1>3, MaxTriesAssumption
    <3>3. CASE queue[k] # Head(queue)
      BY <3>1, <3>3, <1>1, <1>7 DEF TriesLeft
    <3> QED BY <3>2, <3>3
  <2> QED BY <2>1, <2>2, <2>3, <2>4 DEF QueueIInv, TriesLeft
<1> QED BY <1>8, <1>9

\* The invariant survives when a message is added to a queue with room for it.
LEMMA AddingWithRoom ==
    ASSUME QueueIInv, Len(queue) < MaxSize,
           queue' = Append(queue, Len(outcome) + 1),
           tries' = Append(tries, 0),
           outcome' = Append(outcome, "pending")
    PROVE  QueueIInv'
<1>1. QueueTypeOK /\ QueueIsTail /\ QueueHoldsPending /\ TriesLeft
  BY DEF QueueIInv
<1>2. /\ Len(queue) \in Nat /\ Len(outcome) \in Nat /\ Len(tries) = Len(outcome)
      /\ DOMAIN queue = 1 .. Len(queue) /\ DOMAIN outcome = 1 .. Len(outcome)
      /\ DOMAIN tries = 1 .. Len(tries)
      /\ queue \in Seq(1 .. Len(outcome) + 1)
  <2>1. queue \in Seq(1 .. Len(outcome)) /\ Len(outcome) \in Nat
    BY <1>1 DEF QueueTypeOK
  <2>2. queue \in Seq(1 .. Len(outcome) + 1)
    BY <2>1
  <2> QED BY <2>2, <1>1 DEF QueueTypeOK
<1>3. /\ queue' \in Seq(1 .. Len(outcome) + 1)
      /\ Len(queue') = Len(queue) + 1
      /\ DOMAIN queue' = 1 .. Len(queue) + 1
      /\ \A k \in 1 .. Len(queue) : queue'[k] = queue[k]
      /\ queue'[Len(queue) + 1] = Len(outcome) + 1
  BY <1>2, AppendProperties
<1>4. /\ outcome' \in Seq({"pending", "delivered", "failed"})
      /\ Len(outcome') = Len(outcome) + 1
      /\ DOMAIN outcome' = 1 .. Len(outcome) + 1
      /\ \A i \in 1 .. Len(outcome) : outcome'[i] = outcome[i]
      /\ outcome'[Len(outcome) + 1] = "pending"
  BY <1>1, AppendProperties DEF QueueTypeOK
<1>5. /\ tries' \in Seq(0 .. MaxTries)
      /\ Len(tries') = Len(outcome) + 1
      /\ \A i \in 1 .. Len(outcome) : tries'[i] = tries[i]
      /\ tries'[Len(outcome) + 1] = 0
  <2>1. tries \in Seq(0 .. MaxTries) /\ 0 \in 0 .. MaxTries
    BY <1>1, MaxTriesAssumption DEF QueueTypeOK
  <2> QED BY <2>1, <1>2, AppendProperties
<1>6. QueueTypeOK'
  BY <1>2, <1>3, <1>4, <1>5, MaxSizeAssumption DEF QueueTypeOK
<1>7. QueueIsTail'
  <2> SUFFICES ASSUME NEW k \in 1 .. Len(queue) + 1
               PROVE  queue'[k] = (Len(outcome) + 1) - (Len(queue) + 1) + k
    BY <1>3, <1>4 DEF QueueIsTail
  <2>1. CASE k \in 1 .. Len(queue)
    <3>1. queue[k] = Len(outcome) - Len(queue) + k
      BY <2>1, <1>1, <1>2 DEF QueueIsTail
    <3> QED BY <3>1, <2>1, <1>2, <1>3
  <2>2. CASE k = Len(queue) + 1
    BY <2>2, <1>2, <1>3
  <2> QED BY <2>1, <2>2, <1>2
<1>8. QueueHoldsPending'
  <2> SUFFICES ASSUME NEW i \in 1 .. Len(outcome) + 1
               PROVE  outcome'[i] = "pending"
                        <=> i > (Len(outcome) + 1) - (Len(queue) + 1)
    BY <1>3, <1>4 DEF QueueHoldsPending
  <2>1. CASE i \in 1 .. Len(outcome)
    <3>1. outcome[i] = "pending" <=> i > Len(outcome) - Len(queue)
      BY <2>1, <1>1, <1>2 DEF QueueHoldsPending
    <3> QED BY <3>1, <2>1, <1>2, <1>4
  <2>2. CASE i = Len(outcome) + 1
    BY <2>2, <1>2, <1>4
  <2> QED BY <2>1, <2>2, <1>2
<1>9. TriesLeft'
  <2> SUFFICES ASSUME NEW k \in 1 .. Len(queue) + 1
               PROVE  tries'[queue'[k]] < MaxTries
    BY <1>3 DEF TriesLeft
  <2>1. CASE k \in 1 .. Len(queue)
    <3>1. queue[k] \in 1 .. Len(outcome)
      BY <2>1, <1>1, ElementOfSeq DEF QueueTypeOK
    <3>2. tries[queue[k]] < MaxTries
      BY <2>1, <1>1, <1>2 DEF TriesLeft
    <3> QED BY <3>1, <3>2, <2>1, <1>3, <1>5
  <2>2. CASE k = Len(queue) + 1
    BY <2>2, <1>3, <1>5, MaxTriesAssumption
  <2> QED BY <2>1, <2>2, <1>2
<1> QED BY <1>6, <1>7, <1>8, <1>9 DEF QueueIInv

\* The invariant survives when a message is added to a full queue, whose head
\* fails.
LEMMA AddingToFullQueue ==
    ASSUME QueueIInv, Len(queue) = MaxSize,
           queue' = Append(Tail(queue), Len(outcome) + 1),
           tries' = Append(tries, 0),
           NEW STATE settled,
           settled = [outcome EXCEPT ![Head(queue)] = "failed"],
           outcome' = Append(settled, "pending")
    PROVE  QueueIInv'
<1> DEFINE n == Len(outcome)
           l == Len(queue)
<1>1. QueueTypeOK /\ QueueIsTail /\ QueueHoldsPending /\ TriesLeft
  BY DEF QueueIInv
<1>2. queue # <<>> /\ l \in Nat \ {0} /\ n \in Nat
  BY <1>1, MaxSizeAssumption DEF QueueTypeOK
<1>3. Head(queue) = n - l + 1 /\ Head(queue) \in DOMAIN outcome
  BY <1>1, <1>2, HeadIsOldest
<1>4. /\ DOMAIN queue = 1 .. l /\ DOMAIN outcome = 1 .. n
      /\ DOMAIN tries = 1 .. n /\ Len(tries) = n
  BY <1>1 DEF QueueTypeOK
<1>5. /\ settled \in Seq({"pending", "delivered", "failed"})
      /\ Len(settled) = n
      /\ \A i \in 1 .. n : settled[i] = IF i = Head(queue) THEN "failed" ELSE outcome[i]
  BY <1>1, <1>3, <1>4, ExceptSeq DEF QueueTypeOK
<1>6. /\ outcome' \in Seq({"pending", "delivered", "failed"})
      /\ Len(outcome') = n + 1
      /\ DOMAIN outcome' = 1 .. n + 1
      /\ \A i \in 1 .. n : outcome'[i] = settled[i]
      /\ outcome'[n + 1] = "pending"
  <2>1. /\ outcome' \in Seq({"pending", "delivered", "failed"})
        /\ Len(outcome') = Len(settled) + 1
        /\ \A i \in 1 .. Len(settled) : outcome'[i] = settled[i]
        /\ outcome'[Len(settled) + 1] = "pending"
    BY <1>5, AppendProperties
  <2>2. DOMAIN outcome' = 1 .. Len(outcome')
    BY <2>1, LenProperties
  <2> QED BY <1>5, <2>1, <2>2
<1>7. /\ Tail(queue) \in Seq(1 .. n + 1)
      /\ Len(Tail(queue)) = l - 1
      /\ \A k \in 1 .. l - 1 : Tail(queue)[k] = queue[k + 1]
  <2>1. /\ Tail(queue) \in Seq(1 .. n)
        /\ Len(Tail(queue)) = l - 1
        /\ \A k \in 1 .. l - 1 : Tail(queue)[k] = queue[k + 1]
    BY <1>1, <1>2, TailOfQueue
  <2>2. 1 .. n \subseteq 1 .. n + 1
    BY <1>2
  <2> QED BY <2>1, <2>2
<1>8. /\ queue' \in Seq(1 .. n + 1)
      /\ Len(queue') = l
      /\ DOMAIN queue' = 1 .. l
      /\ \A k \in 1 .. l - 1 : queue'[k] = queue[k + 1]
      /\ queue'[l] = n + 1
  BY <1>2, <1>7, AppendProperties
<1>9. /\ tries' \in Seq(0 .. MaxTries)
      /\ Len(tries') = n + 1
      /\ \A i \in 1 .. n : tries'[i] = tries[i]
      /\ tries'[n + 1] = 0
  <2>1. tries \in Seq(0 .. MaxTries) /\ 0 \in 0 .. MaxTries
    BY <1>1, MaxTriesAssumption DEF QueueTypeOK
  <2> QED BY <2>1, <1>4, AppendProperties
<1>10. QueueTypeOK'
  BY <1>6, <1>8, <1>9, <1>2, MaxSizeAssumption DEF QueueTypeOK
<1>11. QueueIsTail'
  <2> SUFFICES ASSUME NEW k \in 1 .. l PROVE queue'[k] = (n + 1) - l + k
    BY <1>6, <1>8 DEF QueueIsTail
  <2>1. CASE k \in 1 .. l - 1
    <3>1. k + 1 \in DOMAIN queue
      BY <2>1, <1>2, <1>4
    <3>2. queue[k + 1] = n - l + (k + 1)
      BY <3>1, <1>1 DEF QueueIsTail
    <3> QED BY <3>2, <2>1, <1>2, <1>8
  <2>2. CASE k = l
    BY <2>2, <1>2, <1>8
  <2> QED BY <2>1, <2>2, <1>2
<1>12. QueueHoldsPending'
  <2> SUFFICES ASSUME NEW i \in 1 .. n + 1
               PROVE  outcome'[i] = "pending" <=> i > (n + 1) - l
    BY <1>6, <1>8 DEF QueueHoldsPending
  <2>1. CASE i \in 1 .. n
    <3>1. outcome[i] = "pending" <=> i > n - l
      BY <2>1, <1>1, <1>4 DEF QueueHoldsPending
    <3>2. outcome'[i] = IF i = Head(queue) THEN "failed" ELSE outcome[i]
      BY <2>1, <1>5, <1>6
    <3> QED BY <3>1, <3>2, <2>1, <1>2, <1>3
  <2>2. CASE i = n + 1
    BY <2>2, <1>2, <1>6
  <2> QED BY <2>1, <2>2, <1>2
<1>13. TriesLeft'
  <2> SUFFICES ASSUME NEW k \in 1 .. l PROVE tries'[queue'[k]] < MaxTries
    BY <1>8 DEF TriesLeft
  <2>1. CASE k \in 1 .. l - 1
    <3>1. k + 1 \in DOMAIN queue
      BY <2>1, <1>2, <1>4
    <3>2. queue[k + 1] \in 1 .. n
      BY <3>1, <1>1, <1>4, ElementOfSeq DEF QueueTypeOK
    <3>3. tries[queue[k + 1]] < MaxTries
      BY <3>1, <1>1 DEF TriesLeft
    <3> QED BY <3>2, <3>3, <2>1, <1>8, <1>9
  <2>2. CASE k = l
    BY <2>2, <1>8, <1>9, MaxTriesAssumption
  <2>3. k \in 1 .. l - 1 \/ k = l
    BY <1>2
  <2> QED BY <2>1, <2>2, <2>3
<1> QED BY <1>10, <1>11, <1>12, <1>13 DEF QueueIInv

\* The invariant survives add, whether there is room or not.
LEMMA AddKeeps == ASSUME QueueIInv, Add PROVE QueueIInv'
<1>1. CASE Len(queue) = MaxSize
  <2>1. /\ queue' = Append(Tail(queue), Len(outcome) + 1)
        /\ tries' = Append(tries, 0)
        /\ outcome' = Append([outcome EXCEPT ![Head(queue)] = "failed"], "pending")
    BY <1>1 DEF Add
  <2> QED BY <2>1, <1>1, AddingToFullQueue
<1>2. CASE Len(queue) # MaxSize
  <2>1. Len(queue) < MaxSize
    BY <1>2, MaxSizeAssumption DEF QueueIInv, QueueTypeOK
  <2>2. /\ queue' = Append(queue, Len(outcome) + 1)
        /\ tries' = Append(tries, 0)
        /\ outcome' = Append(outcome, "pending")
    BY <1>2 DEF Add
  <2> QED BY <2>1, <2>2, AddingWithRoom
<1> QED BY <1>1, <1>2

\* An empty queue satisfies the invariant (the constructor).
LEMMA QueueStartsWell == ASSUME QueueInit PROVE QueueIInv
  BY MaxSizeAssumption
  DEF QueueInit, QueueIInv, QueueTypeOK, QueueIsTail, QueueHoldsPending, TriesLeft

\* The invariant survives every operation of the queue.
LEMMA QueueStepKeeps == ASSUME QueueIInv, [QueueNext]_queueVars PROVE QueueIInv'
<1>1. CASE Add
  BY <1>1, AddKeeps
<1>2. CASE Delivered
  BY <1>2, DeliveredKeeps
<1>3. CASE ImmediateFail
  BY <1>3, ImmediateFailKeeps
<1>4. CASE IncrementTries
  BY <1>4, IncrementTriesKeeps
<1>5. CASE UNCHANGED queueVars
  BY <1>5
  DEF queueVars, QueueIInv, QueueTypeOK, QueueIsTail, QueueHoldsPending, TriesLeft
<1> QED BY <1>1, <1>2, <1>3, <1>4, <1>5 DEF QueueNext

\* The inductive invariant: what waits in the queue are the latest messages in
\* their order, exactly they are pending, and each has tries left.
THEOREM QueueInvariant == QueueSpec => []QueueIInv
<1>1. QueueInit => QueueIInv
  BY QueueStartsWell
<1>2. QueueIInv /\ [QueueNext]_queueVars => QueueIInv'
  BY QueueStepKeeps
<1> QED BY <1>1, <1>2, PTL DEF QueueSpec

\* No promise of send() is forgotten or settled early: exactly the queued
\* messages are without an outcome.
THEOREM QueuedArePending == QueueSpec => []QueueHoldsPending
<1>1. QueueIInv => QueueHoldsPending
  BY DEF QueueIInv
<1> QED BY <1>1, QueueInvariant, PTL

-----------------------------------------------------------------------------
\* A step of the queue is a step of the abstract specification.
LEMMA QueueStepDelivers ==
    ASSUME QueueIInv, [QueueNext]_queueVars
    PROVE  [Delivery!Next]_outcome
<1>1. QueueTypeOK /\ QueueIsTail /\ QueueHoldsPending
  BY DEF QueueIInv
<1>2. ASSUME queue # <<>>
      PROVE  Head(queue) \in DOMAIN outcome /\ Delivery!Oldest(Head(queue))
  BY <1>1, <1>2, HeadIsOldest
<1>3. ASSUME queue # <<>>, NEW o \in {"delivered", "failed"},
             outcome' = [outcome EXCEPT ![Head(queue)] = o]
      PROVE  Delivery!Settle
  BY <1>2, <1>3 DEF Delivery!Settle, Delivery!Outcomes
<1>4. CASE Add
  <2>1. CASE Len(queue) = MaxSize
    <3>1. queue # <<>>
      BY <2>1, MaxSizeAssumption
    <3>2. outcome' = Append([outcome EXCEPT ![Head(queue)] = "failed"], "pending")
      BY <1>4, <2>1 DEF Add
    <3>3. Delivery!SendDroppingOldest
      BY <3>1, <3>2, <1>2 DEF Delivery!SendDroppingOldest
    <3> QED BY <3>3 DEF Delivery!Next
  <2>2. CASE Len(queue) # MaxSize
    BY <1>4, <2>2 DEF Add, Delivery!Send, Delivery!Next
  <2> QED BY <2>1, <2>2
<1>5. CASE Delivered
  BY <1>5, <1>3 DEF Delivered, Delivery!Next
<1>6. CASE ImmediateFail
  BY <1>6, <1>3 DEF ImmediateFail, Delivery!Next
<1>7. CASE IncrementTries
  <2>1. queue # <<>>
    BY <1>7 DEF IncrementTries
  <2>2. outcome' = [outcome EXCEPT ![Head(queue)] = "failed"] \/ outcome' = outcome
    BY <1>7 DEF IncrementTries
  <2> QED BY <2>1, <2>2, <1>3 DEF Delivery!Next
<1>8. CASE UNCHANGED queueVars
  BY <1>8 DEF queueVars
<1> QED BY <1>4, <1>5, <1>6, <1>7, <1>8 DEF QueueNext

\* The queue implements OrderedDelivery: a message has at most one outcome, and
\* messages get theirs in the order in which they were sent.
THEOREM QueueImplementsDelivery == QueueSpec => ImplementsDelivery
<1>1. QueueInit => Delivery!Init
  BY DEF QueueInit, Delivery!Init
<1>2. QueueIInv /\ [QueueNext]_queueVars => [Delivery!Next]_outcome
  BY QueueStepDelivers
<1> QED BY <1>1, <1>2, QueueInvariant, PTL DEF QueueSpec, ImplementsDelivery, Delivery!Spec

-----------------------------------------------------------------------------
(***************************************************************************)
(* The connection                                                          *)
(***************************************************************************)
\* A step of the connection is a step of its queue or leaves it alone.
LEMMA ConnectionStepsQueue == [Next]_vars => [QueueNext]_queueVars
<1> SUFFICES ASSUME [Next]_vars PROVE [QueueNext]_queueVars
  OBVIOUS
<1>1. CASE NewConnection
  BY <1>1 DEF NewConnection
<1>2. CASE Send
  BY <1>2 DEF Send, QueueNext
<1>3. CASE EndpointCloses \/ ConnectionTimesOut \/ PingFires \/ OnClosed
  BY <1>3 DEF EndpointCloses, ConnectionTimesOut, PingFires, OnClosed
<1>4. CASE OnOpen \/ OnBufferedAmountLow \/ OnPong
  BY <1>4 DEF OnOpen, OnBufferedAmountLow, OnPong
<1>5. CASE \E timer \in {"flush", "flushTimeout"} : FlushStarts(timer)
  BY <1>5 DEF FlushStarts
<1>6. CASE LoopStep
  <2>1. CASE LoopEnds \/ Relinquish \/ PauseFlush
    BY <2>1 DEF LoopEnds, Relinquish, PauseFlush
  <2>2. CASE DropTooLarge
    BY <2>2 DEF DropTooLarge, QueueNext
  <2>3. CASE SendSucceeds
    BY <2>3 DEF SendSucceeds, QueueNext
  <2>4. CASE SendRefused \/ SendThrows
    BY <2>4 DEF SendRefused, SendThrows, ProcessFailedMessage, QueueNext
  <2> QED BY <1>6, <2>1, <2>2, <2>3, <2>4 DEF LoopStep
<1>7. CASE ChannelOpens \/ ChannelCloses \/ Drain \/ PeerPongs \/ PeerDies
  BY <1>7 DEF ChannelOpens, ChannelCloses, Drain, PeerPongs, PeerDies, Native
<1>8. CASE UNCHANGED vars
  BY <1>8 DEF vars
<1> QED BY <1>1, <1>2, <1>3, <1>4, <1>5, <1>6, <1>7, <1>8 DEF Next

\* The connection uses its queue as QueueSpec allows.
THEOREM ConnectionUsesQueue == Spec => QueueSpec
<1>1. Init => QueueInit
  BY DEF Init
<1> QED BY <1>1, ConnectionStepsQueue, PTL DEF Spec, QueueSpec

\* Whatever happens to the connections to a peer, the messages sent to it get
\* their outcomes one by one in the order in which they were sent.
THEOREM ConnectionImplementsDelivery == Spec => ImplementsDelivery
  BY ConnectionUsesQueue, QueueImplementsDelivery, PTL

\* A promise of send() is settled just when the message leaves the queue.
THEOREM ConnectionQueuesPending == Spec => []QueueHoldsPending
  BY ConnectionUsesQueue, QueuedArePending, PTL

-----------------------------------------------------------------------------
(***************************************************************************)
(* The inductive invariant                                                 *)
(***************************************************************************)
\* A connection that has just been made satisfies the invariant (constructor and
\* connect).
LEMMA ConnectionStartsWell == ASSUME Init PROVE ConnectionIInv
<1>1. QueueTypeOK
  BY QueueStartsWell DEF Init, QueueIInv
<1>2. FlagsOK
  BY Zenon DEF Init, FlagsOK
<1>3. ValuesOK
  BY ThresholdsAssumption, BurstAssumption, PingAssumption, BoundsAssumption
  DEF Init, ValuesOK
<1>4. FinishedIsClosed /\ PausedIsWatched /\ NoLostWakeup
  BY DEF Init, FinishedIsClosed, PausedIsWatched, NoLostWakeup
<1> QED BY <1>1, <1>2, <1>3, <1>4 DEF ConnectionIInv, TypeOK

\* No callback and no timer takes a flag out of its type.
LEMMA FlagsStay == ASSUME FlagsOK, [Next]_vars PROVE FlagsOK'
<1>1. CASE NewConnection
  BY <1>1, Zenon
  DEF NewConnection, Turn, queueVars, jsVars, loopVars, nativeVars, FlagsOK
<1>2. CASE Send
  BY <1>2, Zenon
  DEF Send, Arm, Turn, queueVars, jsVars, loopVars, nativeVars, FlagsOK
<1>3. CASE EndpointCloses \/ ConnectionTimesOut \/ OnClosed
  BY <1>3, Zenon
  DEF EndpointCloses, ConnectionTimesOut, OnClosed, Close, CloseLeaving, Turn,
      queueVars, jsVars, loopVars, nativeVars, FlagsOK
<1>4. CASE PingFires
  BY <1>4, Zenon
  DEF PingFires, CloseLeaving, IsOpen, Turn, queueVars, jsVars, loopVars,
      nativeVars, FlagsOK
<1>5. CASE OnOpen
  BY <1>5, Zenon
  DEF OnOpen, Consume, Turn, queueVars, jsVars, loopVars, nativeVars, FlagsOK
<1>6. CASE OnBufferedAmountLow
  BY <1>6, Zenon
  DEF OnBufferedAmountLow, Consume, Arm, Turn, queueVars, jsVars, loopVars,
      nativeVars, FlagsOK
<1>7. CASE OnPong
  BY <1>7, Zenon
  DEF OnPong, Consume, Turn, queueVars, jsVars, loopVars, nativeVars, FlagsOK
<1>8. CASE \E timer \in {"flush", "flushTimeout"} : FlushStarts(timer)
  BY <1>8, Zenon
  DEF FlushStarts, queueVars, jsVars, loopVars, nativeVars, FlagsOK
<1>9. CASE LoopEnds
  BY <1>9, Zenon
  DEF LoopEnds, HasWork, Returns, queueVars, jsVars, loopVars, nativeVars,
      FlagsOK
<1>10. CASE Relinquish
  BY <1>10, Zenon
  DEF Relinquish, HasWork, Arm, Returns, queueVars, jsVars, loopVars,
      nativeVars, FlagsOK
<1>11. CASE DropTooLarge
  BY <1>11, Zenon
  DEF DropTooLarge, AtHead, HasWork, Continues, queueVars, jsVars, loopVars,
      nativeVars, FlagsOK
<1>12. CASE PauseFlush
  BY <1>12, Zenon
  DEF PauseFlush, BufferIsHigh, AtHead, HasWork, Returns, queueVars, jsVars,
      loopVars, nativeVars, FlagsOK
<1>13. CASE SendSucceeds
  BY <1>13, Zenon
  DEF SendSucceeds, Sends, BufferIsHigh, AtHead, HasWork, Continues,
      queueVars, jsVars, loopVars, nativeVars, FlagsOK
<1>14. CASE SendRefused \/ SendThrows
  BY <1>14, Zenon
  DEF SendRefused, SendThrows, ProcessFailedMessage, Arm, Sends, AtHead,
      HasWork, Continues, Returns, queueVars, jsVars, loopVars, nativeVars,
      FlagsOK
<1>15. CASE ChannelOpens \/ ChannelCloses
  BY <1>15, Zenon
  DEF ChannelOpens, ChannelCloses, Native, queueVars, jsVars, loopVars,
      nativeVars, FlagsOK
<1>16. CASE Drain
  BY <1>16, Zenon
  DEF Drain, Open, Native, queueVars, jsVars, loopVars, nativeVars, FlagsOK
<1>17. CASE PeerPongs \/ PeerDies
  BY <1>17, Zenon
  DEF PeerPongs, PeerDies, Open, Native, queueVars, jsVars, loopVars,
      nativeVars, FlagsOK
<1>18. CASE UNCHANGED vars
  BY <1>18, Zenon
  DEF vars, queueVars, jsVars, loopVars, nativeVars, FlagsOK
<1> QED BY <1>1, <1>2, <1>3, <1>4, <1>5, <1>6, <1>7, <1>8, <1>9, <1>10, <1>11,
           <1>12, <1>13, <1>14, <1>15, <1>16, <1>17, <1>18 DEF Next, LoopStep

\* The counters stay within their limits: the pings without a pong, what is
\* sent in one run of the loop, what is buffered.
LEMMA ValuesStay == ASSUME ValuesOK, [Next]_vars PROVE ValuesOK'
<1> USE ThresholdsAssumption, BurstAssumption, PingAssumption, BoundsAssumption
<1>1. CASE NewConnection
  BY <1>1
  DEF NewConnection, Turn, queueVars, jsVars, loopVars, nativeVars, ValuesOK
<1>2. CASE Send
  BY <1>2
  DEF Send, Arm, Turn, queueVars, jsVars, loopVars, nativeVars, ValuesOK
<1>3. CASE EndpointCloses \/ ConnectionTimesOut \/ OnClosed
  BY <1>3
  DEF EndpointCloses, ConnectionTimesOut, OnClosed, Close, CloseLeaving, Turn,
      queueVars, jsVars, loopVars, nativeVars, ValuesOK
<1>4. CASE PingFires
  <2>1. CASE IsOpen /\ pingAttempts >= MaxPingPongAttempts
    <3>1. CloseLeaving({"ping"}) /\ UNCHANGED <<successes, connections>>
      BY <1>4, <2>1 DEF PingFires, Turn, loopVars
    <3> QED BY <3>1 DEF CloseLeaving, ValuesOK
  <2>2. CASE ~(IsOpen /\ pingAttempts >= MaxPingPongAttempts)
    <3>1. /\ pingAttempts' = IF IsOpen THEN pingAttempts + 1 ELSE pingAttempts
          /\ UNCHANGED <<armed, nativeVars, successes, connections>>
      BY <1>4, <2>2 DEF PingFires, Turn, loopVars
    <3>2. CASE IsOpen
      BY <2>2, <3>1, <3>2 DEF nativeVars, ValuesOK
    <3>3. CASE ~IsOpen
      BY <3>1, <3>3 DEF nativeVars, ValuesOK
    <3> QED BY <3>2, <3>3
  <2> QED BY <2>1, <2>2
<1>5. CASE OnOpen
  BY <1>5
  DEF OnOpen, Consume, Turn, queueVars, jsVars, loopVars, nativeVars, ValuesOK
<1>6. CASE OnBufferedAmountLow
  BY <1>6
  DEF OnBufferedAmountLow, Consume, Arm, Turn, queueVars, jsVars, loopVars,
      nativeVars, ValuesOK
<1>7. CASE OnPong
  BY <1>7
  DEF OnPong, Consume, Turn, queueVars, jsVars, loopVars, nativeVars, ValuesOK
<1>8. CASE \E timer \in {"flush", "flushTimeout"} : FlushStarts(timer)
  BY <1>8
  DEF FlushStarts, queueVars, jsVars, loopVars, nativeVars, ValuesOK
<1>9. CASE LoopEnds
  BY <1>9
  DEF LoopEnds, HasWork, Returns, queueVars, jsVars, loopVars, nativeVars,
      ValuesOK
<1>10. CASE Relinquish
  BY <1>10
  DEF Relinquish, HasWork, Arm, Returns, queueVars, jsVars, loopVars,
      nativeVars, ValuesOK
<1>11. CASE DropTooLarge
  BY <1>11
  DEF DropTooLarge, AtHead, HasWork, Continues, queueVars, jsVars, loopVars,
      nativeVars, ValuesOK
<1>12. CASE PauseFlush
  BY <1>12
  DEF PauseFlush, BufferIsHigh, AtHead, HasWork, Returns, queueVars, jsVars,
      loopVars, nativeVars, ValuesOK
<1>13. CASE SendSucceeds
  BY <1>13
  DEF SendSucceeds, Sends, BufferIsHigh, AtHead, HasWork, Continues,
      queueVars, jsVars, loopVars, nativeVars, ValuesOK
<1>14. CASE SendRefused \/ SendThrows
  BY <1>14
  DEF SendRefused, SendThrows, ProcessFailedMessage, Arm, Sends, AtHead,
      HasWork, Continues, Returns, queueVars, jsVars, loopVars, nativeVars,
      ValuesOK
<1>15. CASE ChannelOpens \/ ChannelCloses
  <2>1. CASE ChannelOpens
    BY <2>1 DEF ChannelOpens, Native, jsVars, loopVars, ValuesOK
  <2>2. CASE ChannelCloses
    BY <2>2 DEF ChannelCloses, Native, jsVars, loopVars, ValuesOK
  <2> QED BY <1>15, <2>1, <2>2
<1>16. CASE Drain
  BY <1>16
  DEF Drain, Open, Native, queueVars, jsVars, loopVars, nativeVars, ValuesOK
<1>17. CASE PeerPongs \/ PeerDies
  BY <1>17
  DEF PeerPongs, PeerDies, Open, Native, queueVars, jsVars, loopVars,
      nativeVars, ValuesOK
<1>18. CASE UNCHANGED vars
  BY <1>18
  DEF vars, queueVars, jsVars, loopVars, nativeVars, ValuesOK
<1> QED BY <1>1, <1>2, <1>3, <1>4, <1>5, <1>6, <1>7, <1>8, <1>9, <1>10, <1>11,
           <1>12, <1>13, <1>14, <1>15, <1>16, <1>17, <1>18 DEF Next, LoopStep

\* What close leaves behind stays so until the endpoint makes a new connection.
LEMMA ClosedStays == ASSUME FinishedIsClosed, [Next]_vars PROVE FinishedIsClosed'
<1>1. CASE NewConnection
  BY <1>1
  DEF NewConnection, Turn, queueVars, jsVars, loopVars, nativeVars,
      FinishedIsClosed
<1>2. CASE Send
  BY <1>2
  DEF Send, Arm, Turn, queueVars, jsVars, loopVars, nativeVars,
      FinishedIsClosed
<1>3. CASE EndpointCloses \/ ConnectionTimesOut \/ OnClosed
  BY <1>3
  DEF EndpointCloses, ConnectionTimesOut, OnClosed, Close, CloseLeaving, Turn,
      queueVars, jsVars, loopVars, nativeVars, FinishedIsClosed
<1>4. CASE PingFires
  BY <1>4
  DEF PingFires, CloseLeaving, IsOpen, Turn, queueVars, jsVars, loopVars,
      nativeVars, FinishedIsClosed
<1>5. CASE OnOpen
  BY <1>5
  DEF OnOpen, Consume, Turn, queueVars, jsVars, loopVars, nativeVars,
      FinishedIsClosed
<1>6. CASE OnBufferedAmountLow
  BY <1>6
  DEF OnBufferedAmountLow, Consume, Arm, Turn, queueVars, jsVars, loopVars,
      nativeVars, FinishedIsClosed
<1>7. CASE OnPong
  BY <1>7
  DEF OnPong, Consume, Turn, queueVars, jsVars, loopVars, nativeVars,
      FinishedIsClosed
<1>8. CASE \E timer \in {"flush", "flushTimeout"} : FlushStarts(timer)
  BY <1>8
  DEF FlushStarts, queueVars, jsVars, loopVars, nativeVars, FinishedIsClosed
<1>9. CASE LoopEnds
  BY <1>9
  DEF LoopEnds, HasWork, Returns, queueVars, jsVars, loopVars, nativeVars,
      FinishedIsClosed
<1>10. CASE Relinquish
  BY <1>10
  DEF Relinquish, HasWork, Arm, Returns, queueVars, jsVars, loopVars,
      nativeVars, FinishedIsClosed
<1>11. CASE DropTooLarge
  BY <1>11
  DEF DropTooLarge, AtHead, HasWork, Continues, queueVars, jsVars, loopVars,
      nativeVars, FinishedIsClosed
<1>12. CASE PauseFlush
  BY <1>12
  DEF PauseFlush, BufferIsHigh, AtHead, HasWork, Returns, queueVars, jsVars,
      loopVars, nativeVars, FinishedIsClosed
<1>13. CASE SendSucceeds
  BY <1>13
  DEF SendSucceeds, Sends, BufferIsHigh, AtHead, HasWork, Continues,
      queueVars, jsVars, loopVars, nativeVars, FinishedIsClosed
<1>14. CASE SendRefused \/ SendThrows
  BY <1>14
  DEF SendRefused, SendThrows, ProcessFailedMessage, Arm, Sends, AtHead,
      HasWork, Continues, Returns, queueVars, jsVars, loopVars, nativeVars,
      FinishedIsClosed
<1>15. CASE ChannelOpens \/ ChannelCloses
  BY <1>15
  DEF ChannelOpens, ChannelCloses, Native, queueVars, jsVars, loopVars,
      nativeVars, FinishedIsClosed
<1>16. CASE Drain
  BY <1>16
  DEF Drain, Open, Native, queueVars, jsVars, loopVars, nativeVars,
      FinishedIsClosed
<1>17. CASE PeerPongs \/ PeerDies
  BY <1>17
  DEF PeerPongs, PeerDies, Open, Native, queueVars, jsVars, loopVars,
      nativeVars, FinishedIsClosed
<1>18. CASE UNCHANGED vars
  BY <1>18
  DEF vars, queueVars, jsVars, loopVars, nativeVars, FinishedIsClosed
<1> QED BY <1>1, <1>2, <1>3, <1>4, <1>5, <1>6, <1>7, <1>8, <1>9, <1>10, <1>11,
           <1>12, <1>13, <1>14, <1>15, <1>16, <1>17, <1>18 DEF Next, LoopStep

\* A paused connection goes on having a callback to come: it pauses only above
\* the low threshold, and what falls to it makes the callback.
LEMMA WatchStays ==
    ASSUME ValuesOK, PausedIsWatched, [Next]_vars PROVE PausedIsWatched'
<1> USE ThresholdsAssumption
<1>1. CASE NewConnection
  BY <1>1
  DEF NewConnection, Turn, queueVars, jsVars, loopVars, nativeVars, ValuesOK,
      PausedIsWatched
<1>2. CASE Send
  BY <1>2
  DEF Send, Arm, Turn, queueVars, jsVars, loopVars, nativeVars, ValuesOK,
      PausedIsWatched
<1>3. CASE EndpointCloses \/ ConnectionTimesOut \/ OnClosed
  BY <1>3
  DEF EndpointCloses, ConnectionTimesOut, OnClosed, Close, CloseLeaving, Turn,
      queueVars, jsVars, loopVars, nativeVars, ValuesOK, PausedIsWatched
<1>4. CASE PingFires
  BY <1>4
  DEF PingFires, CloseLeaving, IsOpen, Turn, queueVars, jsVars, loopVars,
      nativeVars, ValuesOK, PausedIsWatched
<1>5. CASE OnOpen
  BY <1>5
  DEF OnOpen, Consume, Turn, queueVars, jsVars, loopVars, nativeVars,
      ValuesOK, PausedIsWatched
<1>6. CASE OnBufferedAmountLow
  BY <1>6
  DEF OnBufferedAmountLow, Consume, Arm, Turn, queueVars, jsVars, loopVars,
      nativeVars, ValuesOK, PausedIsWatched
<1>7. CASE OnPong
  BY <1>7
  DEF OnPong, Consume, Turn, queueVars, jsVars, loopVars, nativeVars,
      ValuesOK, PausedIsWatched
<1>8. CASE \E timer \in {"flush", "flushTimeout"} : FlushStarts(timer)
  BY <1>8
  DEF FlushStarts, queueVars, jsVars, loopVars, nativeVars, ValuesOK,
      PausedIsWatched
<1>9. CASE LoopEnds
  BY <1>9
  DEF LoopEnds, HasWork, Returns, queueVars, jsVars, loopVars, nativeVars,
      ValuesOK, PausedIsWatched
<1>10. CASE Relinquish
  BY <1>10
  DEF Relinquish, HasWork, Arm, Returns, queueVars, jsVars, loopVars,
      nativeVars, ValuesOK, PausedIsWatched
<1>11. CASE DropTooLarge
  BY <1>11
  DEF DropTooLarge, AtHead, HasWork, Continues, queueVars, jsVars, loopVars,
      nativeVars, ValuesOK, PausedIsWatched
<1>12. CASE PauseFlush
  BY <1>12
  DEF PauseFlush, BufferIsHigh, AtHead, HasWork, Returns, queueVars, jsVars,
      loopVars, nativeVars, ValuesOK, PausedIsWatched
<1>13. CASE SendSucceeds
  BY <1>13
  DEF SendSucceeds, Sends, BufferIsHigh, AtHead, HasWork, Continues,
      queueVars, jsVars, loopVars, nativeVars, ValuesOK, PausedIsWatched
<1>14. CASE SendRefused \/ SendThrows
  BY <1>14
  DEF SendRefused, SendThrows, ProcessFailedMessage, Arm, Sends, AtHead,
      HasWork, Continues, Returns, queueVars, jsVars, loopVars, nativeVars,
      ValuesOK, PausedIsWatched
<1>15. CASE ChannelOpens \/ ChannelCloses
  BY <1>15
  DEF ChannelOpens, ChannelCloses, Native, queueVars, jsVars, loopVars,
      nativeVars, ValuesOK, PausedIsWatched
<1>16. CASE Drain
  BY <1>16
  DEF Drain, Open, Native, queueVars, jsVars, loopVars, nativeVars, ValuesOK,
      PausedIsWatched
<1>17. CASE PeerPongs \/ PeerDies
  BY <1>17
  DEF PeerPongs, PeerDies, Open, Native, queueVars, jsVars, loopVars,
      nativeVars, ValuesOK, PausedIsWatched
<1>18. CASE UNCHANGED vars
  BY <1>18
  DEF vars, queueVars, jsVars, loopVars, nativeVars, ValuesOK, PausedIsWatched
<1> QED BY <1>1, <1>2, <1>3, <1>4, <1>5, <1>6, <1>7, <1>8, <1>9, <1>10, <1>11,
           <1>12, <1>13, <1>14, <1>15, <1>16, <1>17, <1>18 DEF Next, LoopStep

\* Every callback and every iteration of attemptToFlushMessages leaves somebody
\* who will flush the rest.
LEMMA WakeupStays ==
    ASSUME ValuesOK, FinishedIsClosed, PausedIsWatched, NoLostWakeup, [Next]_vars
    PROVE  NoLostWakeup'
<1> USE ThresholdsAssumption
<1>1. CASE NewConnection
  BY <1>1
  DEF NewConnection, Turn, queueVars, jsVars, loopVars, nativeVars, ValuesOK,
      FinishedIsClosed, PausedIsWatched, NoLostWakeup
<1>2. CASE Send
  BY <1>2
  DEF Send, Arm, Turn, queueVars, jsVars, loopVars, nativeVars, ValuesOK,
      FinishedIsClosed, PausedIsWatched, NoLostWakeup
<1>3. CASE EndpointCloses \/ ConnectionTimesOut \/ OnClosed
  BY <1>3
  DEF EndpointCloses, ConnectionTimesOut, OnClosed, Close, CloseLeaving, Turn,
      queueVars, jsVars, loopVars, nativeVars, ValuesOK, FinishedIsClosed,
      PausedIsWatched, NoLostWakeup
<1>4. CASE PingFires
  BY <1>4
  DEF PingFires, CloseLeaving, IsOpen, Turn, queueVars, jsVars, loopVars,
      nativeVars, ValuesOK, FinishedIsClosed, PausedIsWatched, NoLostWakeup
<1>5. CASE OnOpen
  BY <1>5
  DEF OnOpen, Consume, Turn, queueVars, jsVars, loopVars, nativeVars,
      ValuesOK, FinishedIsClosed, PausedIsWatched, NoLostWakeup
<1>6. CASE OnBufferedAmountLow
  BY <1>6
  DEF OnBufferedAmountLow, Consume, Arm, Turn, queueVars, jsVars, loopVars,
      nativeVars, ValuesOK, FinishedIsClosed, PausedIsWatched, NoLostWakeup
<1>7. CASE OnPong
  BY <1>7
  DEF OnPong, Consume, Turn, queueVars, jsVars, loopVars, nativeVars,
      ValuesOK, FinishedIsClosed, PausedIsWatched, NoLostWakeup
<1>8. CASE \E timer \in {"flush", "flushTimeout"} : FlushStarts(timer)
  BY <1>8
  DEF FlushStarts, queueVars, jsVars, loopVars, nativeVars, ValuesOK,
      FinishedIsClosed, PausedIsWatched, NoLostWakeup
<1>9. CASE LoopEnds
  BY <1>9
  DEF LoopEnds, HasWork, Returns, queueVars, jsVars, loopVars, nativeVars,
      ValuesOK, FinishedIsClosed, PausedIsWatched, NoLostWakeup
<1>10. CASE Relinquish
  BY <1>10
  DEF Relinquish, HasWork, Arm, Returns, queueVars, jsVars, loopVars,
      nativeVars, ValuesOK, FinishedIsClosed, PausedIsWatched, NoLostWakeup
<1>11. CASE DropTooLarge
  BY <1>11
  DEF DropTooLarge, AtHead, HasWork, Continues, queueVars, jsVars, loopVars,
      nativeVars, ValuesOK, FinishedIsClosed, PausedIsWatched, NoLostWakeup
<1>12. CASE PauseFlush
  BY <1>12
  DEF PauseFlush, BufferIsHigh, AtHead, HasWork, Returns, queueVars, jsVars,
      loopVars, nativeVars, ValuesOK, FinishedIsClosed, PausedIsWatched,
      NoLostWakeup
<1>13. CASE SendSucceeds
  BY <1>13
  DEF SendSucceeds, Sends, BufferIsHigh, AtHead, HasWork, Continues,
      queueVars, jsVars, loopVars, nativeVars, ValuesOK, FinishedIsClosed,
      PausedIsWatched, NoLostWakeup
<1>14. CASE SendRefused \/ SendThrows
  BY <1>14
  DEF SendRefused, SendThrows, ProcessFailedMessage, Arm, Sends, AtHead,
      HasWork, Continues, Returns, queueVars, jsVars, loopVars, nativeVars,
      ValuesOK, FinishedIsClosed, PausedIsWatched, NoLostWakeup
<1>15. CASE ChannelOpens \/ ChannelCloses
  BY <1>15
  DEF ChannelOpens, ChannelCloses, Native, queueVars, jsVars, loopVars,
      nativeVars, ValuesOK, FinishedIsClosed, PausedIsWatched, NoLostWakeup
<1>16. CASE Drain
  BY <1>16
  DEF Drain, Open, Native, queueVars, jsVars, loopVars, nativeVars, ValuesOK,
      FinishedIsClosed, PausedIsWatched, NoLostWakeup
<1>17. CASE PeerPongs \/ PeerDies
  BY <1>17
  DEF PeerPongs, PeerDies, Open, Native, queueVars, jsVars, loopVars,
      nativeVars, ValuesOK, FinishedIsClosed, PausedIsWatched, NoLostWakeup
<1>18. CASE UNCHANGED vars
  BY <1>18
  DEF vars, queueVars, jsVars, loopVars, nativeVars, ValuesOK,
      FinishedIsClosed, PausedIsWatched, NoLostWakeup
<1> QED BY <1>1, <1>2, <1>3, <1>4, <1>5, <1>6, <1>7, <1>8, <1>9, <1>10, <1>11,
           <1>12, <1>13, <1>14, <1>15, <1>16, <1>17, <1>18 DEF Next, LoopStep

\* The inductive invariant of the connection and the queue it sends from.
THEOREM ConnectionInvariant == Spec => []ConnectionIInv
<1>1. Init => ConnectionIInv
  BY ConnectionStartsWell
<1>2. Spec => []QueueTypeOK
  <2>1. QueueIInv => QueueTypeOK
    BY DEF QueueIInv
  <2> QED BY <2>1, ConnectionUsesQueue, QueueInvariant, PTL
<1>3. ConnectionIInv /\ QueueTypeOK' /\ [Next]_vars => ConnectionIInv'
  BY FlagsStay, ValuesStay, ClosedStays, WatchStays, WakeupStays
  DEF ConnectionIInv, TypeOK
<1> QED BY <1>1, <1>2, <1>3, PTL DEF Spec

\* No message on an open channel waits without a timer that is set, a native
\* callback that has been made or will be made, or the loop that runs: it never
\* depends on the next send to be flushed.
THEOREM WakeupsAreNotLost == Spec => []NoLostWakeup
<1>1. ConnectionIInv => NoLostWakeup
  BY DEF ConnectionIInv
<1> QED BY <1>1, ConnectionInvariant, PTL

\* A connection that is closed takes no message from the queue it shares with
\* the connection that replaces it.
THEOREM ClosedConnectionIsQuiet == Spec => []ClosedStaysQuiet
<1>1. ConnectionIInv => ClosedStaysQuiet
  BY DEF ConnectionIInv, FinishedIsClosed, ClosedStaysQuiet
<1> QED BY <1>1, ConnectionInvariant, PTL

\* The variables of the connection and of its queue have their types.
THEOREM ConnectionTypeCorrect == Spec => []TypeOK
<1>1. ConnectionIInv => TypeOK
  BY DEF ConnectionIInv
<1> QED BY <1>1, ConnectionInvariant, PTL
=============================================================================
