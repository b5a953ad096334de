--------------------------- MODULE MCTarballCache ---------------------------
(* Two handlers store or look up one tarball; a read-only directory comes  *)
(* first, a write directory that others delete from second.                *)
EXTENDS TarballCache, TLC

CONSTANTS ro, rw

MCReadDirs == <<ro, rw>>

\* A disk that fails but can be cleaned up, and one on which anything fails.
MCFaultSets == {{"create", "write", "rename", "open"}, DiskOps}

\* A disk that never fails.
MCNoFaults == {{}}

\* A full reply of two chunks with and without a length, and a range of it.
MCReplies == {[size |-> 2, declared |-> 2, part |-> FALSE],
              [size |-> 2, declared |-> NoLength, part |-> FALSE],
              [size |-> 1, declared |-> 1, part |-> TRUE]}

MCSeed == [d \in Dirs |-> [f \in Files |-> Absent]]

Symmetric == Permutations(Requests) \cup Permutations(Temps)
=============================================================================
