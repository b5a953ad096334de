------------------------------ MODULE KeyMutex ------------------------------
(***************************************************************************)
(* What Cache.Acquire promises to compiledRoute.serve: requests for the    *)
(* same cache key take turns.  How the turns are arranged (a table of      *)
(* reference-counted mutexes, see Flights) is left open.                   *)
(***************************************************************************)
CONSTANTS Requests,  \* the handler goroutines
          Keys       \* the cache keys they ask for

VARIABLES asking,    \* asking[k]: requests that want the turn of key k
          inside     \* inside[k]: requests that have it

vars == <<asking, inside>>

Init == /\ asking = [k \in Keys |-> {}]
        /\ inside = [k \in Keys |-> {}]

Idle(r) == \A k \in Keys : r \notin asking[k] \cup inside[k]

Ask(r, k) == /\ Idle(r)
             /\ asking' = [asking EXCEPT ![k] = @ \cup {r}]
             /\ UNCHANGED inside

Enter(r, k) == /\ r \in asking[k]
               /\ inside[k] = {}
               /\ asking' = [asking EXCEPT ![k] = @ \ {r}]
               /\ inside' = [inside EXCEPT ![k] = {r}]

Leave(r, k) == /\ r \in inside[k]
               /\ inside' = [inside EXCEPT ![k] = @ \ {r}]
               /\ UNCHANGED asking

\* The process dies: nobody asks and nobody is inside any more.
Reset == /\ asking' = [k \in Keys |-> {}]
         /\ inside' = [k \in Keys |-> {}]

Next == \/ \E r \in Requests, k \in Keys :
             Ask(r, k) \/ Enter(r, k) \/ Leave(r, k)
        \/ Reset

Spec == Init /\ [][Next]_vars
=============================================================================
