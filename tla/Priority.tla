------------------------------ MODULE Priority ------------------------------
(***************************************************************************)
(* sortByPriority, and what raceHead may return to compiledRoute.serve.    *)
(* A candidate is its position in the route's list of upstreams, which may *)
(* name an upstream twice; rank[c] is its configured priority.             *)
(***************************************************************************)
EXTENDS Lists

\* Element i of s comes before element j: by priority, then as it was (stable).
Before(s, rank, i, j) == \/ rank[s[i]] < rank[s[j]]
                         \/ rank[s[i]] = rank[s[j]] /\ i < j

\* Fault: ties are broken in favour of the later element.
ByPriorityUnstable(s, rank) ==
  LET place(i) == Cardinality({j \in DOMAIN s : \/ rank[s[j]] < rank[s[i]]
                                                \/ rank[s[j]] = rank[s[i]] /\ j >= i})
  IN [k \in DOMAIN s |-> s[CHOOSE i \in DOMAIN s : place(i) = k]]

\* Fault: the higher number is preferred.
ByPriorityReversed(s, rank) ==
  LET place(i) == 1 + Cardinality({j \in DOMAIN s : Before(s, rank, i, j)})
  IN [k \in DOMAIN s |-> s[CHOOSE i \in DOMAIN s : place(i) = k]]

ByPriority(s, rank) ==
  LET place(i) == 1 + Cardinality({j \in DOMAIN s : Before(s, rank, j, i)})
  IN [k \in DOMAIN s |-> s[CHOOSE i \in DOMAIN s : place(i) = k]]

\* raceHead returns some candidates, each once, preferred first; those of one
\* priority in any order, since they come as their probes answered.
RaceOutcomes(candidates, rank) ==
  {ByPriority(s, rank) : s \in SetToAllKPermutations(candidates)}
=============================================================================
