---------------------------- MODULE MCServeLive ----------------------------
(* Two handlers and one tarball that is nowhere at first, on a disk that   *)
(* may be full; a second request has no cache key.                         *)
EXTENDS Serve

CONSTANTS k1, f1, rw

MCReadDirs == <<rw>>

MCFileOf == (k1 :> f1)

MCRank == <<2, 1>>

MCKinds == {[method |-> "GET", key |-> k1, candidates |-> 2],
            [method |-> "other", key |-> NoKey, candidates |-> 2]}

MCReplies == {[size |-> 2, declared |-> 2, part |-> FALSE]}

MCFaultSets == {{}, {"write"}}

MCSeed == (rw :> (f1 :> Absent))
=============================================================================
