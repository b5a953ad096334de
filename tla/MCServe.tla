------------------------------ MODULE MCServe ------------------------------
(* Two handlers.  Tarball k1 is nowhere at first, k2 is in the read-only   *)
(* directory; one request has no cache key and one is not a GET.           *)
EXTENDS Serve

CONSTANTS k1, k2, f1, f2, ro, rw

MCReadDirs == <<ro, rw>>

MCFileOf == (k1 :> f1) @@ (k2 :> f2)

\* Candidate 1 is the least preferred; 2 and 3 have one priority.
MCRank == <<2, 1, 1>>

MCKinds == {[method |-> "GET", key |-> k1, candidates |-> 2],
            [method |-> "GET", key |-> k2, candidates |-> 1],
            [method |-> "GET", key |-> NoKey, candidates |-> 3],
            [method |-> "other", key |-> NoKey, candidates |-> 2]}

Full == [size |-> 2, declared |-> 2, part |-> FALSE]
MCReplies == {Full, [size |-> 2, declared |-> NoLength, part |-> FALSE]}

\* A disk that never fails, and one that cannot always store.
MCFaultSets == {{}, {"create", "write", "rename"}}

MCSeed == [d \in {ro, rw} |-> [f \in Files |->
             IF d = ro /\ f = f2 THEN [len |-> 2, reply |-> Full] ELSE Absent]]

Symmetric == Permutations(Requests) \cup Permutations(Temps)
=============================================================================
