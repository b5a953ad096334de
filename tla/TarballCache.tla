---------------------------- MODULE TarballCache ----------------------------
(***************************************************************************)
(* The disk side of internal/cache: cache directories that are searched in *)
(* order (ServeHit), and the tee that copies a streamed reply into a       *)
(* staging file and renames it into the write directory (Capture,          *)
(* teeResponseWriter).  A file is abstracted to the reply it came from and *)
(* the number of bytes of it; a path to its cache-relative name.  Each     *)
(* file-system call that another goroutine, another process or a crash can *)
(* come between is a step.                                                 *)
(***************************************************************************)
EXTENDS Naturals, Sequences, FiniteSets

CONSTANTS Requests,   \* the handler goroutines
          Files,      \* cache-relative paths
          ReadDirs,   \* Cache.readDirs, in search order
          WriteDir,   \* Cache.writeDir, NoDir when there is none
          NoDir,
          Temps,      \* names CreateTemp can choose
          NoTemp,     \* teeResponseWriter.tmp = ""
          Replies,    \* what upstreams may answer (see ReplyType)
          NoLength,   \* a reply without a Content-Length
          Absent,     \* no such file, no such reply, no lookup
          FaultSets,  \* the choices of disk operations that may fail
          Volatile,   \* directories something else may delete files from
          Seed        \* what the directories hold at first

DiskOps == {"readdir", "create", "write", "mkdir", "rename", "remove", "open"}

Dirs == {ReadDirs[i] : i \in 1..Len(ReadDirs)}

\* The bytes of the body if it arrives in full, the Content-Length, and whether
\* it is a 206 with a range of the tarball only.
ReplyType == [size : Nat, declared : Nat \cup {NoLength}, part : BOOLEAN]

Body == [len : Nat, reply : Replies]

ASSUME TarballCacheAssumption ==
  /\ ReadDirs \in Seq(Dirs)
  /\ WriteDir \in Dirs \cup {NoDir} /\ NoDir \notin Dirs
  /\ NoTemp \notin Temps
  /\ NoLength \notin Nat
  /\ Replies \subseteq ReplyType
  /\ \A p \in Replies : p.declared \in {p.size, NoLength}
  /\ Absent \notin Files \cup Replies \cup Body
  /\ FaultSets \subseteq SUBSET DiskOps
  /\ Seed \in [Dirs -> [Files -> Body \cup {Absent}]]
  /\ \A d \in Dirs, f \in Files :
       Seed[d][f] # Absent => Seed[d][f].len = Seed[d][f].reply.size

VARIABLES faults,  \* the operations that may fail on this machine
          up,      \* the process runs
          disk,    \* disk[d][f]: the file at path f of directory d
          temps,   \* the staging files in WriteDir/.tmp
          tee,     \* each request's teeResponseWriter
          look     \* each request's search through ReadDirs

vars == <<faults, up, disk, temps, tee, look>>

\* rel is Absent when Capture returned the plain writer; staged counts the bytes
\* in the staging file; reply is the one whose headers Forward copied into w.
NoTee == [rel |-> Absent, open |-> FALSE, tmp |-> NoTemp, staged |-> 0,
          written |-> 0, writeErr |-> FALSE, teeFailed |-> FALSE, reply |-> Absent]

Tees == [rel : Files \cup {Absent}, open : BOOLEAN, tmp : Temps \cup {NoTemp},
         staged : Nat, written : Nat, writeErr : BOOLEAN, teeFailed : BOOLEAN,
         reply : Replies \cup {Absent}]

\* size is what Stat said of the file at ReadDirs[at]; got is the body served.
NoLook == [file |-> Absent, at |-> 1, size |-> NoLength, got |-> Absent]

Looks == [file : Files \cup {Absent}, at : Nat \ {0}, size : Nat \cup {NoLength},
          got : Body \cup {Absent}]

\* The process is yet to start.
Init ==
  /\ faults \in FaultSets
  /\ up = FALSE
  /\ disk = Seed
  /\ temps = {}
  /\ tee = [r \in Requests |-> NoTee]
  /\ look = [r \in Requests |-> NoLook]

TypeOK ==
  /\ faults \in FaultSets
  /\ up \in BOOLEAN
  /\ disk \in [Dirs -> [Files -> Body \cup {Absent}]]
  /\ temps \subseteq Temps
  /\ tee \in [Requests -> Tees]
  /\ look \in [Requests -> Looks]

-----------------------------------------------------------------------------
(* Start, crash, and other processes.                                      *)

\* What cleanupStaleTmp can leave: everything when the directory cannot be read.
Survivors == CASE "readdir" \in faults -> SUBSET temps
               [] "remove" \in faults  -> SUBSET temps
               [] OTHER                -> {{}}

\* Fault: the staging directory is not cleaned.
NewWithoutCleanup ==
  /\ ~up
  /\ up' = TRUE
  /\ UNCHANGED <<disk, temps, tee, look>>

New ==
  /\ ~up
  /\ up' = TRUE
  /\ IF WriteDir = NoDir THEN UNCHANGED temps ELSE temps' \in Survivors
  /\ UNCHANGED <<disk, tee, look>>

\* The check command builds a Router, and with it a Cache, in a process of its
\* own: its cleanupStaleTmp finds the staging files of the running server.
Check ==
  /\ up
  /\ WriteDir # NoDir
  /\ temps' \in Survivors
  /\ UNCHANGED <<up, disk, tee, look>>

\* The process dies; files outlive it.
Crash ==
  /\ up
  /\ up' = FALSE
  /\ tee' = [r \in Requests |-> NoTee]
  /\ look' = [r \in Requests |-> NoLook]
  /\ UNCHANGED <<disk, temps>>

\* Someone makes room on a cache volume.
Delete(d, f) ==
  /\ d \in Volatile
  /\ disk[d][f] # Absent
  /\ disk' = [disk EXCEPT ![d][f] = Absent]
  /\ UNCHANGED <<up, temps, tee, look>>

-----------------------------------------------------------------------------
(* Capture and the writes of a reply.                                      *)

Capture(r, f) ==
  /\ up
  /\ tee[r] = NoTee /\ look[r] = NoLook
  /\ WriteDir # NoDir
  /\ tee' = [tee EXCEPT ![r].rel = f]
  /\ UNCHANGED <<up, disk, temps, look>>

\* Forward copies the reply's headers, Content-Length among them, into w.
CopyHeaders(r, p) ==
  /\ up
  /\ tee[r].rel # Absent
  /\ tee[r].reply = Absent
  /\ tee' = [tee EXCEPT ![r].reply = p]
  /\ UNCHANGED <<up, disk, temps, look>>

\* Forward's io.Copy hands over n more bytes, and stops after a failed Write.
Streaming(r, n) ==
  /\ up
  /\ tee[r].reply # Absent
  /\ ~tee[r].writeErr
  /\ n > 0
  /\ tee[r].written + n <= tee[r].reply.size

\* The names still in use by a tee of this process are not drawn again.
FreshTemps == Temps \ (temps \cup {tee[s].tmp : s \in Requests})

\* The client is gone: m of the n bytes went out, none is staged.
WriteToClientFails(r, n, m) ==
  /\ Streaming(r, n)
  /\ m < n
  /\ tee' = [tee EXCEPT ![r].written = @ + m, ![r].writeErr = TRUE]
  /\ UNCHANGED <<up, disk, temps, look>>

\* Staging was given up: the client is served all the same.
WriteUnteed(r, n) ==
  /\ Streaming(r, n)
  /\ tee[r].teeFailed
  /\ tee' = [tee EXCEPT ![r].written = @ + n]
  /\ UNCHANGED <<up, disk, temps, look>>

\* The first Write creates the staging file.
WriteFirst(r, n) ==
  /\ Streaming(r, n)
  /\ ~tee[r].teeFailed /\ ~tee[r].open
  /\ \E t \in FreshTemps :
       /\ temps' = temps \cup {t}
       /\ tee' = [tee EXCEPT ![r].open = TRUE, ![r].tmp = t,
                             ![r].staged = n, ![r].written = @ + n]
  /\ UNCHANGED <<up, disk, look>>

WriteMore(r, n) ==
  /\ Streaming(r, n)
  /\ ~tee[r].teeFailed /\ tee[r].open
  /\ tee' = [tee EXCEPT ![r].staged = @ + n, ![r].written = @ + n]
  /\ UNCHANGED <<up, disk, temps, look>>

\* CreateTemp fails.
CreateFails(r, n) ==
  /\ Streaming(r, n)
  /\ "create" \in faults
  /\ ~tee[r].teeFailed /\ ~tee[r].open
  /\ tee' = [tee EXCEPT ![r].teeFailed = TRUE, ![r].written = @ + n]
  /\ UNCHANGED <<up, disk, temps, look>>

\* Removing a staging file may fail, and fails silently.
Remove(t) == \/ temps' = temps \ {t}
             \/ "remove" \in faults /\ UNCHANGED temps

\* Fault: the failed tee is not remembered, so later bytes are staged again.
TeeFailsUnnoticed(r, n) ==
  /\ Streaming(r, n)
  /\ "write" \in faults
  /\ ~tee[r].teeFailed
  /\ tee[r].open /\ UNCHANGED temps
  /\ tee' = [tee EXCEPT ![r].written = @ + n]
  /\ UNCHANGED <<up, disk, look>>

\* The disk is full in the first or a later Write: staging is given up (abort).
TeeFails(r, n) ==
  /\ Streaming(r, n)
  /\ "write" \in faults
  /\ ~tee[r].teeFailed
  /\ \/ tee[r].open /\ Remove(tee[r].tmp)
     \/ ~tee[r].open /\ \/ UNCHANGED temps
                        \/ /\ "remove" \in faults
                           /\ \E t \in FreshTemps : temps' = temps \cup {t}
  /\ tee' = [tee EXCEPT ![r].open = TRUE, ![r].teeFailed = TRUE,
                        ![r].tmp = NoTemp, ![r].written = @ + n]
  /\ UNCHANGED <<up, disk, look>>

-----------------------------------------------------------------------------
(* finalize.                                                               *)

\* Fewer bytes went out than the reply declared.
Truncated(t) == t.reply # Absent /\ t.reply.declared \notin {NoLength, t.written}

\* Fault: what was staged is stored whatever happened to the client or the disk.
DiscardsOnlyFailed(t, ok) == ~ok \/ t.written = 0

Discards(t, ok) ==
  \/ ~ok
  \/ t.writeErr
  \/ t.teeFailed
  \/ t.written = 0
  \/ Truncated(t)

\* Nothing was staged.
FinalizeNothing(r) ==
  /\ ~tee[r].open
  /\ UNCHANGED <<disk, temps>>

\* abort: the staging file goes, if it has not gone already.
FinalizeAbort(r, ok) ==
  /\ tee[r].open
  /\ Discards(tee[r], ok)
  /\ IF tee[r].tmp = NoTemp THEN UNCHANGED temps ELSE Remove(tee[r].tmp)
  /\ UNCHANGED disk

\* Fault: a rename that failed leaves the staging file behind.
StoreFailsAndLeaves(r, ok) ==
  /\ tee[r].open
  /\ ~Discards(tee[r], ok)
  /\ faults \cap {"mkdir", "rename"} # {} \/ tee[r].tmp \notin temps
  /\ UNCHANGED <<temps, disk>>

\* The directory cannot be made or the file cannot be moved, which is certain
\* when it is no longer there.
StoreFails(r, ok) ==
  /\ tee[r].open
  /\ ~Discards(tee[r], ok)
  /\ faults \cap {"mkdir", "rename"} # {} \/ tee[r].tmp \notin temps
  /\ Remove(tee[r].tmp)
  /\ UNCHANGED disk

Store(r, ok) ==
  /\ tee[r].open
  /\ ~Discards(tee[r], ok)
  /\ tee[r].tmp \in temps
  /\ temps' = temps \ {tee[r].tmp}
  /\ disk' = [disk EXCEPT ![WriteDir][tee[r].rel] =
                            [len |-> tee[r].staged, reply |-> tee[r].reply]]

Finalize(r, ok) ==
  /\ up
  /\ tee[r].rel # Absent
  /\ \/ FinalizeNothing(r)
     \/ FinalizeAbort(r, ok)
     \/ StoreFails(r, ok)
     \/ Store(r, ok)
  /\ tee' = [tee EXCEPT ![r] = NoTee]
  /\ UNCHANGED <<up, look>>

-----------------------------------------------------------------------------
(* ServeHit.                                                               *)

Look(r, f) ==
  /\ up
  /\ tee[r] = NoTee /\ look[r] = NoLook
  /\ look' = [look EXCEPT ![r] = [NoLook EXCEPT !.file = f]]
  /\ UNCHANGED <<up, disk, temps, tee>>

Searching(r) == /\ look[r].file # Absent
                /\ look[r].got = Absent
                /\ look[r].at <= Len(ReadDirs)

\* os.Stat: on to the next directory when there is no such file.
Stat(r) ==
  /\ Searching(r) /\ look[r].size = NoLength
  /\ LET b == disk[ReadDirs[look[r].at]][look[r].file]
     IN look' = IF b = Absent
                THEN [look EXCEPT ![r].at = @ + 1]
                ELSE [look EXCEPT ![r].size = b.len]
  /\ UNCHANGED <<up, disk, temps, tee>>

\* os.Open: the file may have gone, or been replaced, since the Stat.
Open(r) ==
  /\ Searching(r) /\ look[r].size # NoLength
  /\ LET b == disk[ReadDirs[look[r].at]][look[r].file]
     IN \/ /\ b = Absent \/ "open" \in faults
           /\ look' = [look EXCEPT ![r].at = @ + 1, ![r].size = NoLength]
        \/ /\ b # Absent
           /\ look' = [look EXCEPT ![r].got = b]
  /\ UNCHANGED <<up, disk, temps, tee>>

Hit(r) == look[r].got # Absent
Miss(r) == look[r].file # Absent /\ look[r].at > Len(ReadDirs)

EndLook(r) ==
  /\ Hit(r) \/ Miss(r)
  /\ look' = [look EXCEPT ![r] = NoLook]
  /\ UNCHANGED <<up, disk, temps, tee>>

-----------------------------------------------------------------------------
Write(r) ==
  \E n \in 1..(IF tee[r].reply = Absent THEN 0 ELSE tee[r].reply.size) :
    \/ \E m \in 0..(n - 1) : WriteToClientFails(r, n, m)
    \/ WriteUnteed(r, n)
    \/ WriteFirst(r, n)
    \/ WriteMore(r, n)
    \/ CreateFails(r, n)
    \/ TeeFails(r, n)

Next ==
  /\ UNCHANGED faults
  /\ \/ New \/ Check \/ Crash
     \/ \E d \in Dirs, f \in Files : Delete(d, f)
     \/ \E r \in Requests :
          \/ \E f \in Files : Capture(r, f) \/ Look(r, f)
          \/ \E p \in Replies : CopyHeaders(r, p)
          \/ Write(r)
          \/ \E ok \in BOOLEAN : Finalize(r, ok)
          \/ Stat(r) \/ Open(r) \/ EndLook(r)

Spec == Init /\ [][Next]_vars

-----------------------------------------------------------------------------
CompleteAsDeclared(b) == b.reply.declared \in {NoLength, b.len}

(* Whatever the disk, the client and the process do, a file under a cache  *)
(* directory is exactly as long as its reply declared: "guards against     *)
(* caching a tarball whose upstream stream was cut" (tee.go, truncated).   *)
StoredAsDeclared ==
  \A d \in Dirs, f \in Files : disk[d][f] # Absent => CompleteAsDeclared(disk[d][f])

(* While the process runs, every staging file belongs to a download in     *)
(* progress: failures clean up after themselves and a start cleans up      *)
(* after a crash (New, abort), provided that files can be removed.         *)
NoOrphans ==
  up /\ faults \cap {"readdir", "remove"} = {}
     => temps \subseteq {tee[r].tmp : r \in Requests}

\* The tee of a download in progress: what is staged is what went out, as long
\* as neither the client nor the disk failed.
Coherent(t) ==
  /\ t.rel = Absent => t = NoTee
  /\ t.reply = Absent => ~t.open /\ ~t.writeErr /\ ~t.teeFailed /\ t.written = 0
  /\ ~t.open => t.tmp = NoTemp
  /\ t.open /\ ~t.teeFailed => t.tmp # NoTemp
  /\ ~t.writeErr /\ ~t.teeFailed =>
       t.written = IF t.open THEN t.staged ELSE 0

\* Two downloads never share a staging file.
OwnStaging ==
  \A r, s \in Requests : tee[r].tmp = tee[s].tmp /\ tee[r].tmp # NoTemp => r = s

ReadOnly ==
  WriteDir = NoDir => temps = {} /\ \A r \in Requests : tee[r].rel = Absent

(* What Init and every step keep, and what StoredAsDeclared follows from.  *)
IInv == /\ TypeOK
        /\ \A r \in Requests : Coherent(tee[r])
        /\ OwnStaging
        /\ ReadOnly
        /\ NoOrphans
        /\ StoredAsDeclared

(* Readers of the directories see a BlobStore.                             *)
Blobs == INSTANCE BlobStore
         WITH blobs <- disk, Complete <- {b \in Body : CompleteAsDeclared(b)}
Publishes == Blobs!Spec

(* "promoted to its final cache location only by finalize(true) once the   *)
(* full body has streamed successfully" (tee.go 12-14): a stored file has  *)
(* every byte of the body it came from.                                    *)
WholeBodiesOnly ==
  \A d \in Dirs, f \in Files :
    disk[d][f] # Absent => disk[d][f].len = disk[d][f].reply.size

(* ServeHit "serves the requested tarball" (cache.go 94), so what is       *)
(* stored is a tarball and not the range of one that some client asked for. *)
NoRangeStored ==
  \A d \in Dirs, f \in Files : disk[d][f] # Absent => ~disk[d][f].reply.part

(* cleanupStaleTmp removes files "left in the staging directory by a       *)
(* previous process that died mid-download" (cache.go 78-80): a download   *)
(* in progress keeps its staging file.                                     *)
StagingKept ==
  \A r \in Requests : tee[r].open /\ ~tee[r].teeFailed => tee[r].tmp \in temps
=============================================================================
