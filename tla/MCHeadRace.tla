----------------------------- MODULE MCHeadRace -----------------------------
(* Three candidates, two of one priority, in one round; two candidates,    *)
(* the second preferred, with one retry.                                   *)
EXTENDS HeadRace

MCCalls == {[rank |-> <<2, 1, 1>>, retries |-> 0],
            [rank |-> <<2, 1>>, retries |-> 1]}
=============================================================================
