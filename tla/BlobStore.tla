----------------------------- MODULE BlobStore -----------------------------
(***************************************************************************)
(* What the cache directories promise to whoever reads them: a file        *)
(* appears, or is replaced, in one step and only in the write directory,   *)
(* with every byte its reply declared; it goes only when somebody deletes  *)
(* it.  TarballCache implements this with staging files and a rename.      *)
(***************************************************************************)
CONSTANTS Dirs, Files,
          WriteDir,   \* the only directory that is written to
          Volatile,   \* the directories files are deleted from
          Complete,   \* the bodies with every byte their reply declared
          Absent,     \* no such file
          Seed        \* what the directories hold at first

VARIABLE blobs

Init == blobs = Seed

\* Some complete body appears at f.
Put(f) ==
  LET b == blobs'[WriteDir][f]
  IN /\ WriteDir \in Dirs
     /\ b \in Complete
     /\ blobs' = [blobs EXCEPT ![WriteDir][f] = b]

Drop(d, f) ==
  /\ d \in Volatile
  /\ blobs' = [blobs EXCEPT ![d][f] = Absent]

Next == \/ \E f \in Files : Put(f)
        \/ \E d \in Dirs, f \in Files : Drop(d, f)

Spec == Init /\ [][Next]_blobs
=============================================================================
