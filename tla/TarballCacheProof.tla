------------------------- MODULE TarballCacheProof -------------------------
(* The disk cache, for any directories, replies, failures and number of    *)
(* requests: the inductive invariant, what follows from it, and the        *)
(* refinement of BlobStore.                                                *)
EXTENDS TarballCache, TLAPS

\* What the invariant says of the tees and the staging files together.
TeesInv == /\ tee \in [Requests -> Tees]
           /\ temps \subseteq Temps
           /\ \A r \in Requests : Coherent(tee[r])
           /\ OwnStaging /\ ReadOnly /\ NoOrphans

LEMMA NoTeeOK == NoTee \in Tees /\ Coherent(NoTee) /\ NoTee.tmp = NoTemp /\ NoTee.rel = Absent
BY TarballCacheAssumption DEF NoTee, Tees, Coherent

\* Field by field, an updated tee is a tee.
LEMMA OneUpdate ==
  ASSUME NEW t \in Tees, NEW n \in Nat, NEW x \in Temps \cup {NoTemp}
  PROVE  /\ [t EXCEPT !.written = n] \in Tees
         /\ [t EXCEPT !.staged = n] \in Tees
         /\ [t EXCEPT !.open = TRUE] \in Tees
         /\ [t EXCEPT !.writeErr = TRUE] \in Tees
         /\ [t EXCEPT !.teeFailed = TRUE] \in Tees
         /\ [t EXCEPT !.tmp = x] \in Tees
<1>1. [t EXCEPT !.written = n] \in Tees
  BY DEF Tees
<1>2. [t EXCEPT !.staged = n] \in Tees
  BY DEF Tees
<1>3. [t EXCEPT !.open = TRUE] \in Tees
  BY DEF Tees
<1>4. [t EXCEPT !.writeErr = TRUE] \in Tees
  BY DEF Tees
<1>5. [t EXCEPT !.teeFailed = TRUE] \in Tees
  BY DEF Tees
<1>6. [t EXCEPT !.tmp = x] \in Tees
  BY DEF Tees
<1> QED BY <1>1, <1>2, <1>3, <1>4, <1>5, <1>6

LEMMA Updates ==
  ASSUME NEW t \in Tees, NEW w \in Nat, NEW s \in Nat, NEW x \in Temps \cup {NoTemp}
  PROVE  /\ [t EXCEPT !.written = w, !.writeErr = TRUE] \in Tees
         /\ [t EXCEPT !.staged = s, !.written = w] \in Tees
         /\ [t EXCEPT !.open = TRUE, !.tmp = x, !.staged = s, !.written = w] \in Tees
         /\ [t EXCEPT !.teeFailed = TRUE, !.written = w] \in Tees
         /\ [t EXCEPT !.open = TRUE, !.teeFailed = TRUE, !.tmp = x, !.written = w] \in Tees
<1>1. PICK a \in Tees : a = [t EXCEPT !.written = w]
  BY OneUpdate
<1>2. PICK b \in Tees : b = [a EXCEPT !.writeErr = TRUE]
  BY OneUpdate
<1>3. PICK c \in Tees : c = [a EXCEPT !.staged = s]
  BY OneUpdate
<1>4. PICK d \in Tees : d = [c EXCEPT !.tmp = x]
  BY OneUpdate
<1>5. PICK e \in Tees : e = [d EXCEPT !.open = TRUE]
  BY OneUpdate
<1>6. PICK f \in Tees : f = [a EXCEPT !.teeFailed = TRUE]
  BY OneUpdate
<1>7. PICK g \in Tees : g = [f EXCEPT !.open = TRUE]
  BY OneUpdate
<1>8. PICK h \in Tees : h = [g EXCEPT !.tmp = x]
  BY OneUpdate
<1>9. /\ b = [t EXCEPT !.written = w, !.writeErr = TRUE]
      /\ c = [t EXCEPT !.staged = s, !.written = w]
      /\ f = [t EXCEPT !.teeFailed = TRUE, !.written = w]
  BY <1>1, <1>2, <1>3, <1>6
<1>10. e = [t EXCEPT !.open = TRUE, !.tmp = x, !.staged = s, !.written = w]
  BY <1>1, <1>3, <1>4, <1>5
<1>11. h = [t EXCEPT !.open = TRUE, !.teeFailed = TRUE, !.tmp = x, !.written = w]
  BY <1>1, <1>6, <1>7, <1>8
<1> QED BY <1>9, <1>10, <1>11
LEMMA InitInv == Init => IInv
<1> SUFFICES ASSUME Init PROVE IInv
  OBVIOUS
<1>0. NoLook \in Looks
  BY DEF NoLook, Looks
<1>1. TypeOK
  BY <1>0, NoTeeOK, TarballCacheAssumption DEF Init, TypeOK
<1>2. (\A r \in Requests : Coherent(tee[r])) /\ OwnStaging /\ ReadOnly /\ NoOrphans
  BY NoTeeOK DEF Init, OwnStaging, ReadOnly, NoOrphans
<1>3. StoredAsDeclared
  <2> SUFFICES ASSUME NEW d \in Dirs, NEW f \in Files, Seed[d][f] # Absent
               PROVE  CompleteAsDeclared(Seed[d][f])
    BY DEF Init, StoredAsDeclared
  <2>1. Seed[d][f] \in Body
    BY TarballCacheAssumption
  <2> QED BY <2>1, TarballCacheAssumption DEF CompleteAsDeclared, Body
<1> QED BY <1>1, <1>2, <1>3 DEF IInv

\* A step that gives one request another tee, and its staging file with it.
LEMMA OneTeeChanges ==
  ASSUME TeesInv, NEW r \in Requests, NEW t \in Tees, Coherent(t),
         UNCHANGED <<faults, up>>,
         tee' = [tee EXCEPT ![r] = t],
         temps' \subseteq Temps,
         t.rel # Absent => WriteDir # NoDir,
         WriteDir = NoDir => temps' = {},
         t.tmp \in FreshTemps \cup {tee[r].tmp, NoTemp},
         faults \cap {"readdir", "remove"} = {}
           => temps' \subseteq (temps \ {tee[r].tmp}) \cup {t.tmp}
  PROVE  TeesInv'
<1>1. tee'[r] = t /\ \A s \in Requests \ {r} : tee'[s] = tee[s]
  BY DEF TeesInv
<1>2. tee' \in [Requests -> Tees] /\ \A s \in Requests : Coherent(tee[s])'
  BY <1>1 DEF TeesInv, Coherent
<1>3. OwnStaging'
  BY <1>1 DEF TeesInv, OwnStaging, FreshTemps
<1>4. ReadOnly'
  BY <1>1 DEF TeesInv, ReadOnly
<1>5. NoOrphans'
  <2> SUFFICES ASSUME up, faults \cap {"readdir", "remove"} = {}, NEW x \in temps'
               PROVE  \E s \in Requests : x = tee'[s].tmp
    BY DEF NoOrphans
  <2>1. CASE x = t.tmp
    BY <1>1, <2>1
  <2>2. CASE x # t.tmp
    <3>1. x \in temps /\ x # tee[r].tmp
      BY <2>2
    <3>2. PICK s \in Requests : x = tee[s].tmp
      BY <3>1 DEF TeesInv, NoOrphans
    <3> QED BY <1>1, <3>1, <3>2
  <2> QED BY <2>1, <2>2
<1> QED BY <1>2, <1>3, <1>4, <1>5 DEF TeesInv

-----------------------------------------------------------------------------
\* The steps of a request that end with its tee being t.
LEMMA CaptureTees ==
  ASSUME TeesInv, UNCHANGED faults, NEW r \in Requests, NEW f \in Files, Capture(r, f)
  PROVE  TeesInv'
<1> DEFINE t == [tee[r] EXCEPT !.rel = f]
<1>1. t \in Tees /\ t.tmp = NoTemp /\ tee[r].tmp = NoTemp
  BY NoTeeOK DEF Capture, Tees
<1>2. Coherent(t)
  BY TarballCacheAssumption DEF Capture, Coherent, NoTee
<1>3. tee' = [tee EXCEPT ![r] = t]
  BY DEF Capture
<1> QED
  BY <1>1, <1>2, <1>3, OneTeeChanges DEF Capture, TeesInv, NoOrphans, ReadOnly

LEMMA HeadersTees ==
  ASSUME TeesInv, UNCHANGED faults, NEW r \in Requests, NEW p \in Replies, CopyHeaders(r, p)
  PROVE  TeesInv'
<1> DEFINE t == [tee[r] EXCEPT !.reply = p]
<1>0. tee[r] \in Tees /\ Coherent(tee[r])
  BY DEF TeesInv
<1>1. t \in Tees /\ t.tmp = tee[r].tmp /\ t.tmp = NoTemp
  BY <1>0 DEF Tees, CopyHeaders, Coherent
<1>2. Coherent(t)
  BY <1>0, TarballCacheAssumption DEF CopyHeaders, Coherent, NoTee, Tees
<1>3. tee' = [tee EXCEPT ![r] = t]
  BY DEF CopyHeaders
<1> QED
  BY <1>0, <1>1, <1>2, <1>3, OneTeeChanges DEF CopyHeaders, TeesInv, ReadOnly

LEMMA WriteTees ==
  ASSUME TeesInv, UNCHANGED faults, NEW r \in Requests, Write(r)
  PROVE  TeesInv'
<1>0. tee[r] \in Tees /\ Coherent(tee[r]) /\ tee[r].written \in Nat /\ tee[r].staged \in Nat
  BY DEF TeesInv, Tees
<1>a. ASSUME NEW n \in Nat, Streaming(r, n)
      PROVE  tee[r].reply # Absent /\ tee[r].rel # Absent /\ WriteDir # NoDir /\ ~tee[r].writeErr
  BY <1>0, <1>a DEF Streaming, Coherent, NoTee, TeesInv, ReadOnly
<1>1. ASSUME NEW n \in Nat, NEW m \in Nat, WriteToClientFails(r, n, m)
      PROVE  TeesInv'
  <2>0. PICK w \in Nat : w = tee[r].written + m
    BY <1>0
  <2> DEFINE t == [tee[r] EXCEPT !.written = w, !.writeErr = TRUE]
  <2>1. t \in Tees
    BY <1>0, Updates
  <2>2. Coherent(t)
    BY <1>0, <1>1, <1>a DEF WriteToClientFails, Coherent, Tees
  <2>3. tee' = [tee EXCEPT ![r] = t]
    BY <1>1, <2>0 DEF WriteToClientFails
  <2> QED
    BY <1>0, <1>1, <1>a, <2>1, <2>2, <2>3, OneTeeChanges DEF WriteToClientFails, TeesInv, Tees
<1>2. ASSUME NEW n \in Nat, WriteUnteed(r, n)
      PROVE  TeesInv'
  <2>0. PICK w \in Nat : w = tee[r].written + n
    BY <1>0
  <2> DEFINE t == [tee[r] EXCEPT !.written = w]
  <2>1. t \in Tees
    BY <1>0, OneUpdate
  <2>2. Coherent(t)
    BY <1>0, <1>2, <1>a DEF WriteUnteed, Coherent, Tees
  <2>3. tee' = [tee EXCEPT ![r] = t]
    BY <1>2, <2>0 DEF WriteUnteed
  <2> QED
    BY <1>0, <1>2, <1>a, <2>1, <2>2, <2>3, OneTeeChanges DEF WriteUnteed, TeesInv, Tees
<1>3. ASSUME NEW n \in Nat, WriteFirst(r, n)
      PROVE  TeesInv'
  <2>0. PICK x \in FreshTemps :
          /\ temps' = temps \cup {x}
          /\ tee' = [tee EXCEPT ![r].open = TRUE, ![r].tmp = x,
                                ![r].staged = n, ![r].written = @ + n]
    BY <1>3 DEF WriteFirst
  <2>a. PICK w \in Nat : w = tee[r].written + n
    BY <1>0
  <2> DEFINE t == [tee[r] EXCEPT !.open = TRUE, !.tmp = x, !.staged = n, !.written = w]
  <2>b. x \in Temps /\ x # NoTemp
    BY TarballCacheAssumption DEF FreshTemps
  <2>c. t \in Tees
    BY <1>0, <2>b, Updates
  <2>1. t \in Tees /\ t.tmp = x
    BY <1>0, <2>c DEF Tees
  <2>2. Coherent(t) /\ tee[r].tmp = NoTemp
    BY <1>0, <1>3, <1>a, <2>a, <2>b, <2>1 DEF WriteFirst, Coherent, Tees
  <2>3. tee' = [tee EXCEPT ![r] = t]
    BY <2>0, <2>a
  <2>4. NoTemp \notin temps
    BY TarballCacheAssumption DEF TeesInv
  <2> QED
    BY <1>0, <1>3, <1>a, <2>0, <2>b, <2>1, <2>2, <2>3, <2>4, OneTeeChanges DEF WriteFirst, TeesInv, Tees
<1>4. ASSUME NEW n \in Nat, WriteMore(r, n)
      PROVE  TeesInv'
  <2>0. PICK s \in Nat, w \in Nat : s = tee[r].staged + n /\ w = tee[r].written + n
    BY <1>0
  <2> DEFINE t == [tee[r] EXCEPT !.staged = s, !.written = w]
  <2>1. t \in Tees
    BY <1>0, Updates
  <2>2. Coherent(t)
    BY <1>0, <1>4, <1>a, <2>0 DEF WriteMore, Coherent, Tees
  <2>3. tee' = [tee EXCEPT ![r] = t]
    BY <1>4, <2>0 DEF WriteMore
  <2> QED
    BY <1>0, <1>4, <1>a, <2>1, <2>2, <2>3, OneTeeChanges DEF WriteMore, TeesInv, Tees
<1>5. ASSUME NEW n \in Nat, CreateFails(r, n)
      PROVE  TeesInv'
  <2>0. PICK w \in Nat : w = tee[r].written + n
    BY <1>0
  <2> DEFINE t == [tee[r] EXCEPT !.teeFailed = TRUE, !.written = w]
  <2>1. t \in Tees
    BY <1>0, Updates
  <2>2. Coherent(t)
    BY <1>0, <1>5, <1>a DEF CreateFails, Coherent, Tees
  <2>3. tee' = [tee EXCEPT ![r] = t]
    BY <1>5, <2>0 DEF CreateFails
  <2> QED
    BY <1>0, <1>5, <1>a, <2>1, <2>2, <2>3, OneTeeChanges DEF CreateFails, TeesInv, Tees
<1>6. ASSUME NEW n \in Nat, TeeFails(r, n)
      PROVE  TeesInv'
  <2>0. PICK w \in Nat : w = tee[r].written + n
    BY <1>0
  <2> DEFINE t == [tee[r] EXCEPT !.open = TRUE, !.teeFailed = TRUE,
                                 !.tmp = NoTemp, !.written = w]
  <2>a. t \in Tees
    BY <1>0, Updates
  <2>1. t \in Tees /\ t.tmp = NoTemp
    BY <1>0, <2>a DEF Tees
  <2>2. Coherent(t)
    BY <1>0, <1>6, <1>a DEF TeeFails, Coherent, Tees
  <2>3. tee' = [tee EXCEPT ![r] = t]
    BY <1>6, <2>0 DEF TeeFails
  <2>4. /\ temps' \subseteq Temps
        /\ faults \cap {"readdir", "remove"} = {} => temps' \subseteq temps \ {tee[r].tmp}
    <3>1. CASE tee[r].open /\ Remove(tee[r].tmp)
      BY <3>1 DEF Remove, TeesInv
    <3>2. CASE ~tee[r].open
      <4>1. tee[r].tmp = NoTemp /\ NoTemp \notin temps
        BY <1>0, <3>2, TarballCacheAssumption DEF Coherent, TeesInv
      <4> QED BY <1>6, <3>2, <4>1 DEF TeeFails, TeesInv, FreshTemps
    <3> QED BY <1>6, <3>1, <3>2 DEF TeeFails
  <2> QED
    BY <1>0, <1>6, <1>a, <2>1, <2>2, <2>3, <2>4, OneTeeChanges DEF TeeFails, TeesInv, Tees
<1> QED
  <2>1. PICK n \in Nat :
          \/ \E m \in Nat : WriteToClientFails(r, n, m)
          \/ WriteUnteed(r, n) \/ WriteFirst(r, n) \/ WriteMore(r, n)
          \/ CreateFails(r, n) \/ TeeFails(r, n)
    <3>1. tee[r].reply # Absent => tee[r].reply.size \in Nat
      BY <1>0, TarballCacheAssumption DEF Tees, ReplyType
    <3> QED BY <3>1 DEF Write
  <2> QED BY <1>1, <1>2, <1>3, <1>4, <1>5, <1>6, <2>1

LEMMA FinalizeTees ==
  ASSUME TeesInv, UNCHANGED faults, NEW r \in Requests, NEW ok \in BOOLEAN, Finalize(r, ok)
  PROVE  TeesInv'
<1>0. tee[r] \in Tees /\ Coherent(tee[r])
  BY DEF TeesInv
<1>1. tee' = [tee EXCEPT ![r] = NoTee] /\ UNCHANGED up
  BY DEF Finalize
<1>2. NoTemp \notin temps /\ (~tee[r].open => tee[r].tmp = NoTemp)
  BY <1>0, TarballCacheAssumption DEF TeesInv, Coherent
<1>3. /\ temps' \subseteq temps
      /\ faults \cap {"readdir", "remove"} = {} => temps' \subseteq temps \ {tee[r].tmp}
  BY <1>2 DEF Finalize, FinalizeNothing, FinalizeAbort, StoreFails, Store, Remove
<1> QED
  BY <1>1, <1>3, NoTeeOK, OneTeeChanges DEF TeesInv, ReadOnly

-----------------------------------------------------------------------------
\* Steps that leave the tees alone.
LEMMA OthersTees ==
  ASSUME TeesInv, UNCHANGED <<faults, tee>>,
         \/ New \/ Check \/ UNCHANGED <<up, temps>>
  PROVE  TeesInv'
<1>1. temps' \subseteq temps /\ (WriteDir = NoDir => temps' = temps)
  BY DEF New, Check, Survivors
<1>2. NoOrphans'
  <2>1. CASE New
    <3>1. faults \cap {"readdir", "remove"} = {} /\ WriteDir # NoDir => temps' = {}
      BY <2>1 DEF New, Survivors
    <3>2. WriteDir = NoDir => temps' = {}
      BY <1>1 DEF TeesInv, ReadOnly
    <3> QED BY <3>1, <3>2 DEF NoOrphans
  <2>2. CASE Check \/ UNCHANGED <<up, temps>>
    BY <1>1, <2>2 DEF Check, TeesInv, NoOrphans
  <2> QED BY <2>1, <2>2
<1>3. OwnStaging'
  BY DEF TeesInv, OwnStaging
<1>4. ReadOnly'
  BY <1>1 DEF TeesInv, ReadOnly
<1>5. \A r \in Requests : Coherent(tee[r])'
  BY DEF TeesInv, Coherent
<1> QED BY <1>1, <1>2, <1>3, <1>4, <1>5 DEF TeesInv

LEMMA CrashTees == ASSUME TeesInv, UNCHANGED faults, Crash PROVE TeesInv'
<1>1. tee' = [r \in Requests |-> NoTee] /\ ~up' /\ temps' = temps
  BY DEF Crash
<1>2. (\A r \in Requests : Coherent(tee[r])') /\ tee' \in [Requests -> Tees]
  BY <1>1, NoTeeOK DEF Coherent
<1> QED
  BY <1>1, <1>2, NoTeeOK DEF TeesInv, OwnStaging, ReadOnly, NoOrphans

LEMMA TeesStep == ASSUME IInv, [Next]_vars PROVE TeesInv'
<1>0. TeesInv
  BY DEF IInv, TypeOK, TeesInv
<1>1. CASE New \/ Check \/ \E d \in Dirs, f \in Files : Delete(d, f)
  BY <1>0, <1>1, OthersTees DEF Next, vars, New, Check, Delete
<1>2. CASE Crash /\ UNCHANGED faults
  BY <1>0, <1>2, CrashTees
<1>3. ASSUME UNCHANGED faults, NEW r \in Requests, NEW f \in Files, Capture(r, f) PROVE TeesInv'
  BY <1>0, <1>3, CaptureTees
<1>4. ASSUME UNCHANGED faults, NEW r \in Requests, NEW p \in Replies, CopyHeaders(r, p)
      PROVE  TeesInv'
  BY <1>0, <1>4, HeadersTees
<1>5. ASSUME UNCHANGED faults, NEW r \in Requests, Write(r) PROVE TeesInv'
  BY <1>0, <1>5, WriteTees
<1>6. ASSUME UNCHANGED faults, NEW r \in Requests, NEW ok \in BOOLEAN, Finalize(r, ok)
      PROVE  TeesInv'
  BY <1>0, <1>6, FinalizeTees
<1>7. ASSUME UNCHANGED faults, NEW r \in Requests,
             (\E f \in Files : Look(r, f)) \/ Stat(r) \/ Open(r) \/ EndLook(r)
      PROVE  TeesInv'
  BY <1>0, <1>7, OthersTees DEF Look, Stat, Open, EndLook
<1>8. CASE UNCHANGED vars
  BY <1>0, <1>8, OthersTees DEF vars
<1> QED BY <1>1, <1>2, <1>3, <1>4, <1>5, <1>6, <1>7, <1>8 DEF Next

-----------------------------------------------------------------------------
\* Only Store and Delete touch the directories, and Store completes a file.
LEMMA DiskStep ==
  ASSUME IInv, [Next]_vars
  PROVE  \/ UNCHANGED disk
         \/ \E d \in Volatile \cap Dirs, f \in Files : disk' = [disk EXCEPT ![d][f] = Absent]
         \/ \E f \in Files, b \in Body :
              /\ WriteDir \in Dirs
              /\ CompleteAsDeclared(b)
              /\ disk' = [disk EXCEPT ![WriteDir][f] = b]
<1>1. ASSUME NEW r \in Requests, NEW ok \in BOOLEAN, Finalize(r, ok), disk' # disk
      PROVE  \E f \in Files, b \in Body :
               /\ WriteDir \in Dirs
               /\ CompleteAsDeclared(b)
               /\ disk' = [disk EXCEPT ![WriteDir][f] = b]
  <2> DEFINE t == tee[r]
             b == [len |-> t.staged, reply |-> t.reply]
  <2>0. t \in Tees /\ Coherent(t)
    BY DEF IInv, TypeOK
  <2>1. Store(r, ok) /\ t.rel # Absent
    BY <1>1 DEF Finalize, FinalizeNothing, FinalizeAbort, StoreFails
  <2>2. t.open /\ ~t.writeErr /\ ~t.teeFailed /\ ~Truncated(t)
    BY <2>1 DEF Store, Discards
  <2>3. t.staged = t.written /\ t.reply # Absent /\ t.rel \in Files /\ WriteDir \in Dirs
    BY <2>0, <2>1, <2>2, TarballCacheAssumption DEF Coherent, Tees, IInv, ReadOnly
  <2>4. b \in Body
    BY <2>0, <2>3 DEF Body, Tees
  <2>5. CompleteAsDeclared(b)
    BY <2>2, <2>3 DEF CompleteAsDeclared, Truncated
  <2> QED BY <2>1, <2>3, <2>4, <2>5 DEF Store
<1>2. ASSUME NEW d \in Dirs, NEW f \in Files, Delete(d, f)
      PROVE  d \in Volatile \cap Dirs /\ disk' = [disk EXCEPT ![d][f] = Absent]
  BY <1>2 DEF Delete
<1>3. ASSUME NEW r \in Requests, Write(r) PROVE UNCHANGED disk
  BY <1>3 DEF Write, WriteToClientFails, WriteUnteed, WriteFirst, WriteMore,
              CreateFails, TeeFails
<1> QED
  BY <1>1, <1>2, <1>3 DEF Next, vars, New, Check, Crash, Capture, CopyHeaders,
                          Look, Stat, Open, EndLook

LEMMA DiskInv ==
  ASSUME IInv, [Next]_vars
  PROVE  disk' \in [Dirs -> [Files -> Body \cup {Absent}]] /\ StoredAsDeclared'
<1> USE DEF IInv, TypeOK, StoredAsDeclared
<1>1. CASE UNCHANGED disk
  BY <1>1 DEF CompleteAsDeclared
<1>2. ASSUME NEW d \in Dirs, NEW f \in Files, NEW b \in Body \cup {Absent},
             b # Absent => CompleteAsDeclared(b), disk' = [disk EXCEPT ![d][f] = b]
      PROVE  disk' \in [Dirs -> [Files -> Body \cup {Absent}]] /\ StoredAsDeclared'
  BY <1>2 DEF CompleteAsDeclared
<1> QED BY <1>1, <1>2, DiskStep

LEMMA LooksInv ==
  ASSUME IInv, [Next]_vars
  PROVE  look' \in [Requests -> Looks]
<1>0. look \in [Requests -> Looks] /\ NoLook \in Looks
  BY DEF IInv, TypeOK, NoLook, Looks
<1>1. ASSUME NEW r \in Requests, NEW f \in Files, Look(r, f) PROVE look' \in [Requests -> Looks]
  BY <1>0, <1>1 DEF Look, NoLook, Looks
<1>2. ASSUME NEW r \in Requests, Stat(r) \/ Open(r) PROVE look' \in [Requests -> Looks]
  <2> DEFINE b == disk[ReadDirs[look[r].at]][look[r].file]
  <2>1. look[r].at \in Nat \ {0} /\ look[r] \in Looks
    BY <1>0 DEF Looks
  <2>2. b \in Body \cup {Absent}
    <3>1. look[r].file \in Files
      BY <1>2, <2>1 DEF Stat, Open, Searching, Looks
    <3>2. ReadDirs[look[r].at] \in Dirs
      BY <1>2, <2>1 DEF Stat, Open, Searching, Dirs
    <3> QED BY <3>1, <3>2 DEF IInv, TypeOK
  <2> QED BY <1>0, <1>2, <2>1, <2>2 DEF Stat, Open, Looks, Body
<1>3. ASSUME NEW r \in Requests, EndLook(r) PROVE look' \in [Requests -> Looks]
  BY <1>0, <1>3 DEF EndLook
<1>4. ASSUME NEW r \in Requests, Write(r) PROVE UNCHANGED look
  BY <1>4 DEF Write, WriteToClientFails, WriteUnteed, WriteFirst, WriteMore,
              CreateFails, TeeFails
<1> QED
  BY <1>0, <1>1, <1>2, <1>3, <1>4
  DEF Next, vars, New, Check, Crash, Delete, Capture, CopyHeaders, Finalize

LEMMA NextInv == IInv /\ [Next]_vars => IInv'
<1> SUFFICES ASSUME IInv, [Next]_vars PROVE IInv'
  OBVIOUS
<1>1. TeesInv' /\ StoredAsDeclared' /\ disk' \in [Dirs -> [Files -> Body \cup {Absent}]]
  BY TeesStep, DiskInv
<1>2. look' \in [Requests -> Looks]
  BY LooksInv
<1>3. faults' \in FaultSets
  BY DEF IInv, TypeOK, Next, vars
<1>4. up' \in BOOLEAN
  <2>1. up \in BOOLEAN
    BY DEF IInv, TypeOK
  <2>2. ASSUME NEW r \in Requests, Write(r) PROVE UNCHANGED up
    BY <2>2 DEF Write, WriteToClientFails, WriteUnteed, WriteFirst, WriteMore,
                CreateFails, TeeFails
  <2>3. UNCHANGED up \/ up' = TRUE \/ up' = FALSE
    BY <2>2 DEF Next, vars, New, Check, Crash, Delete, Capture, CopyHeaders,
                Finalize, Look, Stat, Open, EndLook
  <2> QED BY <2>1, <2>3
<1> QED BY <1>1, <1>2, <1>3, <1>4 DEF IInv, TypeOK, TeesInv

(* The tees and the directories satisfy the inductive invariant in every   *)
(* reachable state: what is staged is what the client was sent, for as     *)
(* long as nothing failed.                                                 *)
THEOREM Invariance == Spec => []IInv
BY InitInv, NextInv, PTL DEF Spec

(* A cached file is as long as its reply declared (finalize, truncated),   *)
(* under every combination of disk failures, disconnections and crashes.   *)
THEOREM DeclaredLengthStored == Spec => []StoredAsDeclared
<1>1. IInv => StoredAsDeclared
  BY DEF IInv
<1> QED BY Invariance, <1>1, PTL

(* No path through Write, abort and finalize leaves a staging file behind  *)
(* on a disk from which files can be removed, and a start removes those    *)
(* of a crash.                                                             *)
THEOREM NoStagingLeft == Spec => []NoOrphans
<1>1. IInv => NoOrphans
  BY DEF IInv
<1> QED BY Invariance, <1>1, PTL

(* Readers see files appear whole, and only in the write directory.        *)
THEOREM PublishesAtomically == Spec => Publishes
<1>1. Init => Blobs!Init
  BY DEF Init, Blobs!Init
<1>2. IInv /\ [Next]_vars => [Blobs!Next]_disk
  <2> SUFFICES ASSUME IInv, [Next]_vars, disk' # disk PROVE Blobs!Next
    OBVIOUS
  <2>1. ASSUME NEW d \in Volatile \cap Dirs, NEW f \in Files,
               disk' = [disk EXCEPT ![d][f] = Absent]
        PROVE  Blobs!Next
    BY <2>1 DEF Blobs!Next, Blobs!Drop
  <2>2. ASSUME NEW f \in Files, NEW b \in Body, WriteDir \in Dirs, CompleteAsDeclared(b),
               disk' = [disk EXCEPT ![WriteDir][f] = b]
        PROVE  Blobs!Next
    <3>1. disk'[WriteDir][f] = b
      BY <2>2 DEF IInv, TypeOK
    <3> QED BY <2>2, <3>1 DEF Blobs!Next, Blobs!Put
  <2> QED BY <2>1, <2>2, DiskStep
<1> QED BY Invariance, <1>1, <1>2, PTL DEF Spec, Publishes, Blobs!Spec
=============================================================================
