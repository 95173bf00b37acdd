----------------------------- MODULE MessageQueue -----------------------------
(***************************************************************************)
(* src/connection/MessageQueue.ts: the messages that wait to be sent to a  *)
(* peer, and what became of those that do not wait any more.               *)
(*                                                                         *)
(* Messages are numbered as they come (QueueItem.no), and the heap orders  *)
(* them by number: the queue is a sequence whose head is peek().  The      *)
(* outcome of message i is what its promise does: onSuccess or onError.    *)
(***************************************************************************)
EXTENDS Naturals, Sequences

CONSTANTS MaxSize,    \* maxSize
          MaxTries    \* MAX_TRIES

ASSUME MaxSizeAssumption == MaxSize \in Nat \ {0}
ASSUME MaxTriesAssumption == MaxTries \in Nat \ {0}

VARIABLES queue,     \* the numbers of the messages in the heap
          tries,     \* per message, QueueItem.tries
          outcome    \* per message, "pending", "delivered" or "failed"

queueVars == <<queue, tries, outcome>>

QueueInit == /\ queue = <<>>
             /\ tries = <<>>
             /\ outcome = <<>>

\* Mutant of Add: the newest message makes room.
AddDroppingNewest ==
    LET new == Len(outcome) + 1
    IN  /\ tries' = Append(tries, 0)
        /\ IF Len(queue) = MaxSize
           THEN /\ queue' = Append(SubSeq(queue, 1, MaxSize - 1), new)
                /\ outcome' = Append([outcome EXCEPT ![queue[MaxSize]] = "failed"],
                                     "pending")
           ELSE /\ queue' = Append(queue, new)
                /\ outcome' = Append(outcome, "pending")

\* add: a full queue drops its oldest message.
Add ==
    LET new == Len(outcome) + 1
    IN  /\ tries' = Append(tries, 0)
        /\ IF Len(queue) = MaxSize
           THEN /\ queue' = Append(Tail(queue), new)
                /\ outcome' = Append([outcome EXCEPT ![Head(queue)] = "failed"],
                                     "pending")
           ELSE /\ queue' = Append(queue, new)
                /\ outcome' = Append(outcome, "pending")

\* pop and delivered
Delivered ==
    /\ queue # <<>>
    /\ queue' = Tail(queue)
    /\ outcome' = [outcome EXCEPT ![Head(queue)] = "delivered"]
    /\ UNCHANGED tries

\* immediateFail and pop
ImmediateFail ==
    /\ queue # <<>>
    /\ queue' = Tail(queue)
    /\ outcome' = [outcome EXCEPT ![Head(queue)] = "failed"]
    /\ UNCHANGED tries

\* incrementTries, and pop if the message failed by that
IncrementTries ==
    /\ queue # <<>>
    /\ LET i == Head(queue)
       IN  /\ tries' = [tries EXCEPT ![i] = @ + 1]
           /\ IF tries'[i] >= MaxTries
              THEN /\ queue' = Tail(queue)
                   /\ outcome' = [outcome EXCEPT ![i] = "failed"]
              ELSE UNCHANGED <<queue, outcome>>

QueueNext == Add \/ Delivered \/ ImmediateFail \/ IncrementTries

QueueSpec == QueueInit /\ [][QueueNext]_queueVars

-----------------------------------------------------------------------------
QueueTypeOK ==
    /\ outcome \in Seq({"pending", "delivered", "failed"})
    /\ tries \in Seq(0 .. MaxTries)
    /\ Len(tries) = Len(outcome)
    /\ queue \in Seq(1 .. Len(outcome))
    /\ Len(queue) <= MaxSize

\* What waits in the queue are the latest messages, in the order they came.
QueueIsTail ==
    \A k \in DOMAIN queue : queue[k] = Len(outcome) - Len(queue) + k

\* Exactly the messages in the queue have no outcome: no promise is forgotten,
\* none is settled that will be sent again, and the branch for failed messages
\* at the head of the queue (Connection.ts:524) is never needed.
QueueHoldsPending ==
    \A i \in DOMAIN outcome :
        outcome[i] = "pending" <=> i > Len(outcome) - Len(queue)

\* A queued message has tries left.
TriesLeft == \A k \in DOMAIN queue : tries[queue[k]] < MaxTries

QueueIInv == QueueTypeOK /\ QueueIsTail /\ QueueHoldsPending /\ TriesLeft

\* The queue implements the abstract specification, whatever is done with it.
Delivery == INSTANCE OrderedDelivery WITH outcome <- outcome

ImplementsDelivery == Delivery!Spec
=============================================================================
