------------------------------ MODULE MCResends ------------------------------
\* Resends for TLC.
EXTENDS Resends, TLC

CONSTANTS r1, r2, s1, s2

SomeLists == {<<s1, s2>>}

\* There are two messages for r1 in every storage but the requester's, which has
\* at most one of them, and one for r2.
SomeHoldings ==
    {[n \in Node |-> IF n = Requester THEN (r1 :> cached) @@ (r2 :> 0)
                     ELSE (r1 :> 2) @@ (r2 :> 1)] : cached \in 0 .. 1}
=============================================================================
