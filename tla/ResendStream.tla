----------------------------- MODULE ResendStream -----------------------------
(***************************************************************************)
(* What whoever requests a resend can rely on, whatever strategies,        *)
(* storage nodes, timeouts and lost connections are behind the stream it   *)
(* gets: the stream gives stored messages, in their order as far as one    *)
(* strategy goes, every further strategy may start over (up to Strategies  *)
(* of them), it ends, and it gives nothing after that.                     *)
(***************************************************************************)
EXTENDS Naturals, Sequences, FiniteSets

CONSTANTS Request,
          Stored,      \* the numbers of the messages that may be stored
          Strategies

VARIABLES given,   \* per request, the messages its stream gave, by number
          state    \* per request, "none", "open" or "ended"

streamVars == <<given, state>>

\* Where a message is not newer than the one before it.
StartsOver(seq) == {i \in DOMAIN seq \ {1} : seq[i] <= seq[i - 1]}

Init == /\ given = [r \in Request |-> <<>>]
        /\ state = [r \in Request |-> "none"]

Ask(r) == /\ state[r] = "none"
          /\ state' = [state EXCEPT ![r] = "open"]
          /\ UNCHANGED given

Give(r) == /\ state[r] = "open"
           /\ \E i \in Stored : given' = [given EXCEPT ![r] = Append(@, i)]
           /\ Cardinality(StartsOver(given'[r])) < Strategies
           /\ UNCHANGED state

\* A lost connection may end several streams.
End(rs) == /\ rs # {}
           /\ \A r \in rs : state[r] = "open"
           /\ state' = [r \in Request |-> IF r \in rs THEN "ended" ELSE state[r]]
           /\ UNCHANGED given

Next == \/ \E r \in Request : Ask(r) \/ Give(r)
        \/ \E rs \in SUBSET Request : End(rs)

StreamsEnd == \A r \in Request : state[r] = "open" ~> state[r] = "ended"

Spec == Init /\ [][Next]_streamVars /\ StreamsEnd
=============================================================================
