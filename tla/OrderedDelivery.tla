--------------------------- MODULE OrderedDelivery ---------------------------
(***************************************************************************)
(* What the connection to a peer promises about the messages sent to it,   *)
(* whatever queues, retries and reconnections are behind it: a message     *)
(* gets at most one outcome (the promise of send() resolves or rejects),   *)
(* and it is always the oldest message without an outcome that gets one.   *)
(* So messages leave in the order in which they were sent, and none        *)
(* overtakes another.                                                      *)
(***************************************************************************)
EXTENDS Naturals, Sequences

VARIABLE outcome   \* per message sent, in order: "pending" or how it ended

Outcomes == {"delivered", "failed"}

Oldest(i) == /\ i \in DOMAIN outcome
             /\ outcome[i] = "pending"
             /\ \A j \in 1 .. i - 1 : outcome[j] # "pending"

Init == outcome = <<>>

Send == outcome' = Append(outcome, "pending")

\* A message comes when there is no room for it.
SendDroppingOldest ==
    \E i \in DOMAIN outcome :
        /\ Oldest(i)
        /\ outcome' = Append([outcome EXCEPT ![i] = "failed"], "pending")

Settle == \E i \in DOMAIN outcome, o \in Outcomes :
             /\ Oldest(i)
             /\ outcome' = [outcome EXCEPT ![i] = o]

Next == Send \/ SendDroppingOldest \/ Settle

Spec == Init /\ [][Next]_outcome
=============================================================================
