----------------------------- MODULE ServeProof -----------------------------
(* For any number of handlers, paths and upstreams: serve keeps to the     *)
(* protocol of the lock table, so that what FlightsProof proves of the     *)
(* table holds in the whole, and at most one fetch per path follows.       *)
EXTENDS Serve, TLAPS

Locks == INSTANCE FlightsProof
Disk == INSTANCE TarballCacheProof

LEMMA LocksAssumption == Locks!FlightsAssumption
BY LockAssumption DEF IsFiniteSet, Locks!IsFiniteSet, FL!IsFiniteSet, FL!FlightsAssumption

LEMMA InitCoupled == Init => CouplingInv
BY LockAssumption
   DEF Init, CouplingInv, ControlOK, Coupled, Fetching, Points, FL!Init, FL!Stages

\* The steps that leave the lock table alone.
Elsewhere(r) ==
  \/ \E q \in Kinds : Arrive(r, q)
  \/ Search(r) \/ ServeHit(r) \/ RecheckMisses(r) \/ Capture(r)
  \/ ForwardFails(r) \/ ForwardPlain(r) \/ ForwardTeed(r) \/ Copy(r) \/ CopyEnds(r)
  \/ Exhausted(r) \/ Relay(r) \/ Leave(r)

LEMMA NextCases ==
  ASSUME Next
  PROVE  \/ \E r \in Requests : \/ Elsewhere(r)
                                \/ Acquire(r) \/ Lock(r) \/ Unlock(r) \/ Release(r)
         \/ Crash
         \/ World
BY DEF Next, Step, Elsewhere

\* An arrival: a request with a key goes to the first look.
LEMMA ArriveCoupled ==
  ASSUME CouplingInv, NEW r \in Requests, NEW q \in Kinds, Arrive(r, q)
  PROVE  CouplingInv'
<1> USE DEF CouplingInv, ControlOK
<1>1. q.key \in Keys \cup {NoKey}
  BY ServeAssumption DEF RequestType
<1>2. /\ pc[r] = "idle" /\ stage[r] = "out"
      /\ req' = [req EXCEPT ![r] = q]
      /\ pc' = [pc EXCEPT ![r] = IF q.key = NoKey THEN "capture" ELSE "fast"]
      /\ UNCHANGED <<stage, key>>
  BY DEF Arrive, Goto, lockVars, Coupled
<1>3. ControlOK'
  BY <1>2 DEF Points
<1>4. Coupled'
  <2> SUFFICES ASSUME NEW s \in Requests
               PROVE  /\ pc'[s] \in {"idle", "fast"} => stage'[s] = "out"
                      /\ pc'[s] = "fast" => req'[s].key \in Keys
                      /\ pc'[s] = "waiting" => stage'[s] = "waiting"
                      /\ pc'[s] = "recheck" \/ Fetching(s)' => stage'[s] = "locked"
                      /\ pc'[s] = "releasing" => stage'[s] = "unlocked"
                      /\ stage'[s] # "out" => key'[s] = req'[s].key /\ req'[s].key \in Keys
    BY DEF Coupled
  <2>1. CASE s = r
    BY <1>1, <1>2, <2>1 DEF Fetching
  <2>2. CASE s # r
    BY <1>2, <2>2 DEF Fetching, Coupled
  <2> QED BY <2>1, <2>2
<1> QED BY <1>3, <1>4

\* A step that moves r on without touching the lock table, its request kept:
\* from the second look, or a fetch, to a fetch; or to "leaving".
LEMMA MoveCoupled ==
  ASSUME CouplingInv, NEW r \in Requests, NEW p \in Points,
         pc' = [pc EXCEPT ![r] = p],
         UNCHANGED <<stage, key, req>>,
         \/ p = pc[r]
         \/ p = "leaving"
         \/ /\ pc[r] \in {"recheck", "capture", "try", "stream", "relay"}
            /\ p \in {"capture", "try", "stream", "relay"}
  PROVE  CouplingInv'
<1> USE DEF CouplingInv, ControlOK
<1>1. ControlOK'
  OBVIOUS
<1>2. pc[r] \in {"capture", "try", "stream", "relay"} /\ req[r].key # NoKey
        => stage[r] = "locked"
  BY DEF Coupled, Fetching
<1>3. pc[r] = "recheck" => stage[r] = "locked"
  BY DEF Coupled
<1>4. Coupled'
  BY <1>2, <1>3 DEF Coupled, Fetching
<1> QED BY <1>1, <1>4

LEMMA ElsewhereCoupled ==
  ASSUME CouplingInv, NEW r \in Requests, Elsewhere(r)
  PROVE  CouplingInv' /\ UNCHANGED lockVars
<1> USE DEF lockVars
<1>1. CASE \E q \in Kinds : Arrive(r, q)
  BY <1>1, ArriveCoupled DEF Arrive
<1>2. CASE Search(r) \/ ForwardFails(r) \/ Copy(r)
  <2>1. pc' = [pc EXCEPT ![r] = pc[r]] /\ pc[r] \in Points
    BY <1>2 DEF Search, ForwardFails, Copy, CouplingInv, ControlOK
  <2>2. UNCHANGED <<lockVars, req>>
    BY <1>2 DEF Search, ForwardFails, Copy
  <2> QED BY <2>1, <2>2, MoveCoupled
<1>3. CASE ServeHit(r) \/ ForwardPlain(r) \/ CopyEnds(r) \/ Relay(r)
  <2>1. pc' = [pc EXCEPT ![r] = "leaving"] /\ "leaving" \in Points
    BY <1>3 DEF ServeHit, ForwardPlain, CopyEnds, Relay, Goto, Points
  <2>2. UNCHANGED <<lockVars, req>>
    BY <1>3 DEF ServeHit, ForwardPlain, CopyEnds, Relay
  <2> QED BY <2>1, <2>2, MoveCoupled
<1>4. CASE RecheckMisses(r) \/ Capture(r) \/ ForwardTeed(r) \/ Exhausted(r)
  <2>1. PICK p \in {"capture", "try", "stream", "relay", "leaving"} :
          /\ pc' = [pc EXCEPT ![r] = p]
          /\ pc[r] \in {"recheck", "capture", "try", "stream", "relay"}
    BY <1>4 DEF RecheckMisses, Capture, ForwardTeed, Exhausted, Goto
  <2>2. UNCHANGED <<lockVars, req>>
    BY <1>4 DEF RecheckMisses, Capture, ForwardTeed, Exhausted
  <2>3. p \in Points
    BY DEF Points
  <2> QED BY <2>1, <2>2, <2>3, MoveCoupled
<1>5. CASE Leave(r)
  <2>1. /\ stage[r] = "out"
        /\ pc' = [pc EXCEPT ![r] = "idle"]
        /\ req' = [req EXCEPT ![r] = Absent]
        /\ UNCHANGED lockVars
    BY <1>5 DEF Leave, Forget, Goto
  <2>2. ControlOK'
    BY <2>1 DEF CouplingInv, ControlOK, Points
  <2>3. Coupled'
    BY <2>1 DEF CouplingInv, ControlOK, Coupled, Fetching
  <2> QED BY <2>1, <2>2, <2>3 DEF CouplingInv
<1> QED BY <1>1, <1>2, <1>3, <1>4, <1>5 DEF Elsewhere

\* The steps of r on the lock table, and a crash.
LEMMA LockStepCoupled ==
  ASSUME CouplingInv, NEW r \in Requests,
         Acquire(r) \/ Lock(r) \/ Unlock(r) \/ Release(r)
  PROVE  CouplingInv'
<1> USE DEF CouplingInv, ControlOK
<1>1. CASE Acquire(r)
  <2>1. /\ pc[r] = "fast" /\ req[r].key \in Keys
        /\ pc' = [pc EXCEPT ![r] = "waiting"]
        /\ stage' = [stage EXCEPT ![r] = "waiting"]
        /\ key' = [key EXCEPT ![r] = req[r].key]
        /\ req' = req
    BY <1>1 DEF Acquire, Goto, FL!Acquire, Coupled
  <2>2. ControlOK'
    BY <2>1 DEF Points, FL!Stages
  <2>3. Coupled'
    BY <2>1 DEF Coupled, Fetching
  <2> QED BY <2>2, <2>3
<1>2. CASE Lock(r)
  <2>1. /\ pc[r] = "waiting" /\ stage[r] = "waiting"
        /\ pc' = [pc EXCEPT ![r] = "recheck"]
        /\ stage' = [stage EXCEPT ![r] = "locked"]
        /\ UNCHANGED <<key, req>>
    BY <1>2 DEF Lock, Goto, FL!Lock
  <2>2. ControlOK'
    BY <2>1 DEF Points, FL!Stages
  <2>3. Coupled'
    BY <2>1 DEF Coupled, Fetching
  <2> QED BY <2>2, <2>3
<1>3. CASE Unlock(r)
  <2>1. /\ pc[r] = "leaving" /\ stage[r] = "locked"
        /\ pc' = [pc EXCEPT ![r] = "releasing"]
        /\ stage' = [stage EXCEPT ![r] = "unlocked"]
        /\ UNCHANGED <<key, req>>
    BY <1>3 DEF Unlock, Goto, FL!Unlock
  <2>2. ControlOK'
    BY <2>1 DEF Points, FL!Stages
  <2>3. Coupled'
    BY <2>1 DEF Coupled, Fetching
  <2> QED BY <2>2, <2>3
<1>4. CASE Release(r)
  <2>1. /\ pc' = [pc EXCEPT ![r] = "idle"]
        /\ stage' = [stage EXCEPT ![r] = "out"]
        /\ key' = [key EXCEPT ![r] = NoKey]
        /\ req' = [req EXCEPT ![r] = Absent]
    BY <1>4 DEF Release, Forget, Goto, FL!Release, FL!Forget
  <2>2. ControlOK'
    BY <2>1 DEF Points, FL!Stages
  <2>3. Coupled'
    BY <2>1 DEF Coupled, Fetching
  <2> QED BY <2>2, <2>3
<1> QED BY <1>1, <1>2, <1>3, <1>4

LEMMA CrashCoupled == ASSUME Crash PROVE CouplingInv'
BY DEF Crash, FL!Die, CouplingInv, ControlOK, Coupled, Fetching, Points, FL!Stages

LEMMA NextCoupled == CouplingInv /\ [Next]_vars => CouplingInv'
<1> SUFFICES ASSUME CouplingInv, [Next]_vars PROVE CouplingInv'
  OBVIOUS
<1>1. CASE World \/ UNCHANGED vars
  <2>1. UNCHANGED <<pc, req, stage, key>>
    BY <1>1 DEF World, vars, lockVars
  <2> QED BY <2>1 DEF CouplingInv, ControlOK, Coupled, Fetching
<1>2. CASE Next
  BY <1>1, <1>2, NextCases, ElsewhereCoupled, LockStepCoupled, CrashCoupled
<1> QED BY <1>1, <1>2

(* Where a handler is in serve tells what it holds of the lock table, on   *)
(* every path through serve.                                               *)
THEOREM CouplingInvariance == Spec => []CouplingInv
BY InitCoupled, NextCoupled, PTL DEF Spec

-----------------------------------------------------------------------------
\* Every step is one of the lock table's, or leaves it alone.
LEMMA StepOfLocks ==
  CouplingInv /\ [Next]_vars => [Locks!Next]_(Locks!vars)
<1> SUFFICES ASSUME CouplingInv, [Next]_vars PROVE [Locks!Next]_(Locks!vars)
  OBVIOUS
<1> USE DEF Locks!vars, lockVars
<1>1. ASSUME NEW r \in Requests, Elsewhere(r) PROVE UNCHANGED Locks!vars
  BY <1>1, ElsewhereCoupled
<1>2. ASSUME NEW r \in Requests, Acquire(r) PROVE Locks!Next
  <2>1. PICK k \in Keys : k = req[r].key
    BY <1>2 DEF Acquire, CouplingInv, Coupled
  <2>2. Locks!Acquire(r, k)
    BY <1>2, <2>1
       DEF Acquire, FL!Acquire, FL!AcquireFound, FL!AcquireNew, FL!Reachable, FL!Holders,
           Locks!Acquire, Locks!AcquireFound, Locks!AcquireNew, Locks!Reachable, Locks!Holders
  <2> QED BY <2>2 DEF Locks!Next
<1>3. ASSUME NEW r \in Requests, Lock(r) PROVE Locks!Next
  <2>1. Locks!Lock(r)
    BY <1>3 DEF Lock, FL!Lock, Locks!Lock
  <2> QED BY <2>1 DEF Locks!Next
<1>4. ASSUME NEW r \in Requests, Unlock(r) PROVE Locks!Next
  <2>1. Locks!Unlock(r)
    BY <1>4 DEF Unlock, FL!Unlock, Locks!Unlock
  <2> QED BY <2>1 DEF Locks!Next
<1>5. ASSUME NEW r \in Requests, Release(r) PROVE Locks!Next
  <2>1. Locks!Release(r)
    BY <1>5 DEF Release, FL!Release, FL!Forget, Locks!Release, Locks!Forget
  <2> QED BY <2>1 DEF Locks!Next
<1>6. ASSUME Crash PROVE Locks!Next
  <2>1. Locks!Die
    BY <1>6 DEF Crash, FL!Die, Locks!Die
  <2> QED BY <2>1 DEF Locks!Next
<1>7. ASSUME World \/ UNCHANGED vars PROVE UNCHANGED Locks!vars
  BY <1>7 DEF World, vars
<1>8. CASE Next
  BY <1>1, <1>2, <1>3, <1>4, <1>5, <1>6, <1>7, <1>8, NextCases
<1> QED BY <1>7, <1>8

\* So all that is proved of the lock table holds when serve uses it.
LEMMA ImplementsLocks == Spec => Locks!Spec
<1>1. Init => Locks!Init
  BY DEF Init, FL!Init, Locks!Init
<1> QED BY CouplingInvariance, <1>1, StepOfLocks, PTL DEF Spec, Locks!Spec

(* "at most one upstream fetch runs at a time per path" (cache.go 134-135): *)
(* of the requests for one key that are past their second look and not     *)
(* done with the upstreams, there is never more than one.                  *)
THEOREM OneFetch == Spec => []OneFetchPerPath
<1>1. CouplingInv /\ Locks!MutualExclusion => OneFetchPerPath
  BY DEF CouplingInv, Coupled, Fetching, OneFetchPerPath, Locks!MutualExclusion
<1>2. Locks!FlightsAssumption
  BY LocksAssumption
<1>3. Locks!Spec => []Locks!MutualExclusion
  BY <1>2, Locks!OneAtATime
<1> QED BY CouplingInvariance, ImplementsLocks, <1>1, <1>3, PTL

-----------------------------------------------------------------------------
LEMMA DiskAssumption == Disk!TarballCacheAssumption
BY CacheAssumption
   DEF TC!TarballCacheAssumption, TC!Dirs, TC!ReplyType, TC!Body, TC!DiskOps,
       Disk!Dirs, Disk!ReplyType, Disk!Body, Disk!DiskOps

\* The two instances of TarballCache, Serve's and the proof's, are one.
LEMMA SameLookup ==
  ASSUME NEW r \in Requests
  PROVE  /\ \A f \in Files : TC!Look(r, f) => Disk!Look(r, f)
         /\ TC!Stat(r) => Disk!Stat(r)
         /\ TC!Open(r) => Disk!Open(r)
         /\ TC!EndLook(r) => Disk!EndLook(r)
BY DEF TC!Look, TC!Stat, TC!Open, TC!EndLook, TC!Searching, TC!Hit, TC!Miss, TC!NoLook, TC!NoTee,
       Disk!Look, Disk!Stat, Disk!Open, Disk!EndLook, Disk!Searching, Disk!Hit, Disk!Miss,
       Disk!NoLook, Disk!NoTee

LEMMA SameCapture ==
  ASSUME NEW r \in Requests
  PROVE  /\ \A f \in Files : TC!Capture(r, f) => Disk!Capture(r, f)
         /\ \A p \in Replies : TC!CopyHeaders(r, p) => Disk!CopyHeaders(r, p)
BY DEF TC!Capture, TC!CopyHeaders, TC!NoLook, TC!NoTee,
       Disk!Capture, Disk!CopyHeaders, Disk!NoLook, Disk!NoTee

LEMMA SameWrite == ASSUME NEW r \in Requests, TC!Write(r) PROVE Disk!Write(r)
<1> USE DEF TC!Streaming, TC!FreshTemps, TC!Remove,
            Disk!Streaming, Disk!FreshTemps, Disk!Remove
<1>1. PICK n \in 1..(IF tee[r].reply = Absent THEN 0 ELSE tee[r].reply.size) :
        \/ \E m \in 0..(n - 1) : TC!WriteToClientFails(r, n, m)
        \/ TC!WriteUnteed(r, n)
        \/ TC!WriteFirst(r, n)
        \/ TC!WriteMore(r, n)
        \/ TC!CreateFails(r, n)
        \/ TC!TeeFails(r, n)
  BY DEF TC!Write
<1>2. \A m \in 0..(n - 1) : TC!WriteToClientFails(r, n, m) => Disk!WriteToClientFails(r, n, m)
  BY DEF TC!WriteToClientFails, Disk!WriteToClientFails
<1>3. TC!WriteUnteed(r, n) => Disk!WriteUnteed(r, n)
  BY DEF TC!WriteUnteed, Disk!WriteUnteed
<1>4. TC!WriteFirst(r, n) => Disk!WriteFirst(r, n)
  BY DEF TC!WriteFirst, Disk!WriteFirst
<1>5. TC!WriteMore(r, n) => Disk!WriteMore(r, n)
  BY DEF TC!WriteMore, Disk!WriteMore
<1>6. TC!CreateFails(r, n) => Disk!CreateFails(r, n)
  BY DEF TC!CreateFails, Disk!CreateFails
<1>7. TC!TeeFails(r, n) => Disk!TeeFails(r, n)
  BY DEF TC!TeeFails, Disk!TeeFails
<1> QED BY <1>1, <1>2, <1>3, <1>4, <1>5, <1>6, <1>7 DEF Disk!Write

LEMMA SameFinalize ==
  ASSUME NEW r \in Requests, NEW ok \in BOOLEAN, TC!Finalize(r, ok)
  PROVE  Disk!Finalize(r, ok)
<1>1. TC!Discards(tee[r], ok) <=> Disk!Discards(tee[r], ok)
  BY DEF TC!Discards, TC!Truncated, Disk!Discards, Disk!Truncated
<1> USE DEF TC!Remove, Disk!Remove
<1>2. TC!FinalizeNothing(r) => Disk!FinalizeNothing(r)
  BY DEF TC!FinalizeNothing, Disk!FinalizeNothing
<1>3. TC!FinalizeAbort(r, ok) => Disk!FinalizeAbort(r, ok)
  BY <1>1 DEF TC!FinalizeAbort, Disk!FinalizeAbort
<1>4. TC!StoreFails(r, ok) => Disk!StoreFails(r, ok)
  BY <1>1 DEF TC!StoreFails, Disk!StoreFails
<1>5. TC!Store(r, ok) => Disk!Store(r, ok)
  BY <1>1 DEF TC!Store, Disk!Store
<1> QED BY <1>2, <1>3, <1>4, <1>5 DEF TC!Finalize, Disk!Finalize, TC!NoTee, Disk!NoTee

LEMMA SameWorld ==
  /\ TC!New => Disk!New
  /\ TC!Check => Disk!Check
  /\ TC!Crash => Disk!Crash
  /\ \A d \in TC!Dirs, f \in Files : d \in Disk!Dirs /\ (TC!Delete(d, f) => Disk!Delete(d, f))
BY DEF TC!New, TC!Check, TC!Crash, TC!Delete, TC!Survivors, TC!NoTee, TC!NoLook, TC!Dirs,
       Disk!New, Disk!Check, Disk!Crash, Disk!Delete, Disk!Survivors, Disk!NoTee, Disk!NoLook,
       Disk!Dirs

\* Every step is one of the disk cache's, or leaves it alone.
LEMMA StepOfDisk ==
  CouplingInv /\ [Next]_vars => [Disk!Next]_(Disk!vars)
<1> SUFFICES ASSUME CouplingInv, [Next]_vars PROVE [Disk!Next]_(Disk!vars)
  OBVIOUS
<1> USE DEF Disk!vars, cacheVars
<1>1. ASSUME NEW r \in Requests, NEW q \in Kinds, Arrive(r, q) PROVE [Disk!Next]_(Disk!vars)
  <2>1. CASE q.key = NoKey
    BY <1>1, <2>1 DEF Arrive
  <2>2. CASE q.key # NoKey
    <3>1. FileOf[q.key] \in Files
      BY <2>2, ServeAssumption DEF RequestType
    <3>2. Disk!Look(r, FileOf[q.key]) /\ UNCHANGED faults
      BY <1>1, <2>2, <3>1, SameLookup DEF Arrive
    <3> QED BY <3>1, <3>2 DEF Disk!Next
  <2> QED BY <2>1, <2>2
<1>2. ASSUME NEW r \in Requests, Search(r) \/ ServeHit(r) \/ Acquire(r) \/ RecheckMisses(r)
      PROVE  Disk!Next
  <2>1. UNCHANGED faults /\ (TC!Stat(r) \/ TC!Open(r) \/ TC!EndLook(r))
    BY <1>2 DEF Search, ServeHit, Acquire, RecheckMisses
  <2>2. Disk!Stat(r) \/ Disk!Open(r) \/ Disk!EndLook(r)
    BY <2>1, SameLookup
  <2> QED BY <2>1, <2>2 DEF Disk!Next
<1>3. ASSUME NEW r \in Requests, Lock(r) PROVE Disk!Next
  <2>1. req[r].key \in Keys
    BY <1>3 DEF Lock, FL!Lock, CouplingInv, Coupled
  <2>2. FileOf[req[r].key] \in Files
    BY <2>1, ServeAssumption
  <2>3. Disk!Look(r, FileOf[req[r].key]) /\ UNCHANGED faults
    BY <1>3, <2>2, SameLookup DEF Lock
  <2> QED BY <2>2, <2>3 DEF Disk!Next
<1>4. ASSUME NEW r \in Requests, Capture(r) PROVE [Disk!Next]_(Disk!vars)
  <2>1. CASE req[r].key # NoKey /\ WriteDir # NoDir
    <3>1. req[r].key \in Keys
      BY <1>4, <2>1 DEF Capture, CouplingInv, Coupled, Fetching
    <3>2. FileOf[req[r].key] \in Files
      BY <3>1, ServeAssumption
    <3>3. Disk!Capture(r, FileOf[req[r].key]) /\ UNCHANGED faults
      BY <1>4, <2>1, <3>2, SameCapture DEF Capture
    <3> QED BY <3>2, <3>3 DEF Disk!Next
  <2>2. CASE ~(req[r].key # NoKey /\ WriteDir # NoDir)
    BY <1>4, <2>2 DEF Capture
  <2> QED BY <2>1, <2>2
<1>5. ASSUME NEW r \in Requests,
             ForwardFails(r) \/ ForwardPlain(r) \/ Relay(r) \/ Leave(r) \/ Unlock(r) \/ Release(r)
      PROVE  UNCHANGED Disk!vars
  BY <1>5 DEF ForwardFails, ForwardPlain, Relay, Leave, Unlock, Release
<1>6. ASSUME NEW r \in Requests, ForwardTeed(r) PROVE Disk!Next
  <2>1. PICK p \in Replies : TC!CopyHeaders(r, p) /\ UNCHANGED faults
    BY <1>6 DEF ForwardTeed
  <2>2. Disk!CopyHeaders(r, p)
    BY <2>1, SameCapture
  <2> QED BY <2>1, <2>2 DEF Disk!Next
<1>7. ASSUME NEW r \in Requests, Copy(r) PROVE Disk!Next
  <2>1. Disk!Write(r) /\ UNCHANGED faults
    BY <1>7, SameWrite DEF Copy
  <2> QED BY <2>1 DEF Disk!Next
<1>8. ASSUME NEW r \in Requests, CopyEnds(r) \/ Exhausted(r) PROVE [Disk!Next]_(Disk!vars)
  <2>1. \/ UNCHANGED Disk!vars
        \/ UNCHANGED faults /\ (TC!Finalize(r, TRUE) \/ TC!Finalize(r, FALSE))
    BY <1>8 DEF CopyEnds, Exhausted
  <2>2. \/ UNCHANGED Disk!vars
        \/ UNCHANGED faults /\ (Disk!Finalize(r, TRUE) \/ Disk!Finalize(r, FALSE))
    BY <2>1, SameFinalize
  <2> QED BY <2>2 DEF Disk!Next
<1>9. ASSUME Crash \/ World PROVE Disk!Next
  <2>1. UNCHANGED faults /\ (\/ TC!New \/ TC!Check \/ TC!Crash
                            \/ \E d \in TC!Dirs, f \in Files : TC!Delete(d, f))
    BY <1>9 DEF Crash, World
  <2> QED BY <2>1, SameWorld DEF Disk!Next
<1>10. CASE UNCHANGED vars
  BY <1>10 DEF vars
<1>11. CASE Next
  BY <1>1, <1>2, <1>3, <1>4, <1>5, <1>6, <1>7, <1>8, <1>9, <1>11, NextCases DEF Elsewhere
<1> QED BY <1>10, <1>11

LEMMA ImplementsDisk == Spec => Disk!Spec
<1>1. Init => Disk!Init
  BY DEF Init, TC!Init, TC!NoTee, TC!NoLook, Disk!Init, Disk!NoTee, Disk!NoLook
<1> QED BY CouplingInvariance, <1>1, StepOfDisk, PTL DEF Spec, Disk!Spec

(* Whatever the handlers, the upstreams, the clients and the disk do, a    *)
(* crash included, a file in a cache directory has the length its reply    *)
(* declared (tee.go, finalize and truncated).                              *)
THEOREM CacheKeepsDeclaredLength == Spec => []Disk!StoredAsDeclared
<1>1. Disk!TarballCacheAssumption
  BY DiskAssumption
<1>2. Disk!Spec => []Disk!StoredAsDeclared
  BY <1>1, Disk!DeclaredLengthStored
<1> QED BY ImplementsDisk, <1>2, PTL

-----------------------------------------------------------------------------
(* What a handler looks up and what it stages.                             *)

LEMMA LockTypes == Spec => [](FL!TypeOK /\ FL!MutualExclusion)
<1>1. Locks!FlightsAssumption
  BY LocksAssumption
<1>2. Locks!Spec => []Locks!IInv /\ []Locks!MutualExclusion
  BY <1>1, Locks!Invariance, Locks!OneAtATime
<1>3. Locks!IInv /\ Locks!MutualExclusion => FL!TypeOK /\ FL!MutualExclusion
  BY DEF Locks!IInv, Locks!TypeOK, Locks!MutualExclusion, Locks!Stages,
         FL!TypeOK, FL!MutualExclusion, FL!Stages
<1> QED BY ImplementsLocks, <1>2, <1>3, PTL

LEMMA DiskTypes == Spec => []TC!TypeOK
<1>1. Disk!TarballCacheAssumption
  BY DiskAssumption
<1>2. Disk!Spec => []Disk!IInv
  BY <1>1, Disk!Invariance
<1>3. Disk!IInv => TC!TypeOK
  BY DEF Disk!IInv, Disk!TypeOK, Disk!Tees, Disk!Looks, Disk!Body, Disk!Dirs,
         TC!TypeOK, TC!Tees, TC!Looks, TC!Body, TC!Dirs
<1> QED BY ImplementsDisk, <1>2, <1>3, PTL

\* A search is for the file of the request's key, and so is a staging file; nothing
\* is searched or staged at any other point of serve.
FilesOK ==
  \A r \in Requests :
    /\ IF pc[r] \in {"fast", "recheck"}
       THEN req[r].key \in Keys /\ look[r].file = FileOf[req[r].key]
       ELSE look[r] = TC!NoLook
    /\ tee[r].rel # Absent => /\ pc[r] \in {"try", "stream"}
                              /\ req[r].key \in Keys
                              /\ tee[r].rel = FileOf[req[r].key]

LEMMA WriteKeeps ==
  ASSUME TC!TypeOK, NEW r \in Requests, TC!Write(r)
  PROVE  UNCHANGED <<disk, look>> /\ \A s \in Requests : tee'[s].rel = tee[s].rel
<1>1. tee \in [Requests -> TC!Tees]
  BY DEF TC!TypeOK
<1>2. ASSUME NEW n, NEW m, TC!WriteToClientFails(r, n, m)
      PROVE  UNCHANGED <<disk, look>> /\ \A s \in Requests : tee'[s].rel = tee[s].rel
  BY <1>1, <1>2 DEF TC!WriteToClientFails, TC!Tees
<1>3. ASSUME NEW n, TC!WriteUnteed(r, n)
      PROVE  UNCHANGED <<disk, look>> /\ \A s \in Requests : tee'[s].rel = tee[s].rel
  BY <1>1, <1>3 DEF TC!WriteUnteed, TC!Tees
<1>4. ASSUME NEW n, TC!WriteFirst(r, n)
      PROVE  UNCHANGED <<disk, look>> /\ \A s \in Requests : tee'[s].rel = tee[s].rel
  BY <1>1, <1>4 DEF TC!WriteFirst, TC!Tees
<1>5. ASSUME NEW n, TC!WriteMore(r, n)
      PROVE  UNCHANGED <<disk, look>> /\ \A s \in Requests : tee'[s].rel = tee[s].rel
  BY <1>1, <1>5 DEF TC!WriteMore, TC!Tees
<1>6. ASSUME NEW n, TC!CreateFails(r, n)
      PROVE  UNCHANGED <<disk, look>> /\ \A s \in Requests : tee'[s].rel = tee[s].rel
  BY <1>1, <1>6 DEF TC!CreateFails, TC!Tees
<1>7. ASSUME NEW n, TC!TeeFails(r, n)
      PROVE  UNCHANGED <<disk, look>> /\ \A s \in Requests : tee'[s].rel = tee[s].rel
  BY <1>1, <1>7 DEF TC!TeeFails, TC!Tees
<1> QED BY <1>2, <1>3, <1>4, <1>5, <1>6, <1>7 DEF TC!Write

\* Only finalize(true) touches the directories, and only at the path that was captured.
LEMMA FinalizeKeeps ==
  ASSUME TC!TypeOK, NEW r \in Requests, NEW ok \in BOOLEAN, TC!Finalize(r, ok)
  PROVE  /\ tee[r].rel # Absent /\ look' = look
         /\ tee' = [tee EXCEPT ![r] = TC!NoTee]
         /\ \/ disk' = disk
            \/ ok /\ \E b : disk' = [disk EXCEPT ![WriteDir][tee[r].rel] = b]
<1>1. tee[r].rel # Absent /\ look' = look /\ tee' = [tee EXCEPT ![r] = TC!NoTee]
  BY DEF TC!Finalize
<1>2. CASE TC!FinalizeNothing(r) \/ TC!FinalizeAbort(r, ok) \/ TC!StoreFails(r, ok)
  BY <1>1, <1>2 DEF TC!FinalizeNothing, TC!FinalizeAbort, TC!StoreFails
<1>3. CASE TC!Store(r, ok)
  BY <1>1, <1>3 DEF TC!Store, TC!Discards
<1> QED BY <1>2, <1>3 DEF TC!Finalize

\* One handler moves; the rest of it is about that handler alone.
LEMMA OneMoves ==
  ASSUME FilesOK, NEW r \in Requests,
         \A s \in Requests \ {r} :
           /\ pc'[s] = pc[s] /\ req'[s] = req[s]
           /\ look'[s] = look[s] /\ tee'[s].rel = tee[s].rel,
         IF pc'[r] \in {"fast", "recheck"}
         THEN req'[r].key \in Keys /\ look'[r].file = FileOf[req'[r].key]
         ELSE look'[r] = TC!NoLook,
         tee'[r].rel # Absent => /\ pc'[r] \in {"try", "stream"}
                                 /\ req'[r].key \in Keys
                                 /\ tee'[r].rel = FileOf[req'[r].key]
  PROVE  FilesOK'
BY DEF FilesOK, TC!NoLook

LEMMA NothingHeld ==
  /\ TC!NoLook.file = Absent /\ TC!NoLook.got = Absent /\ TC!NoLook.at = 1
  /\ TC!NoLook.size = NoLength /\ TC!NoTee.rel = Absent
BY DEF TC!NoLook, TC!NoTee

Safe == CouplingInv /\ TC!TypeOK /\ FL!MutualExclusion

LEMMA SafeTypes ==
  ASSUME Safe
  PROVE  /\ pc \in [Requests -> Points] /\ req \in [Requests -> Kinds \cup {Absent}]
         /\ look \in [Requests -> TC!Looks] /\ tee \in [Requests -> TC!Tees]
         /\ disk \in [TC!Dirs -> [Files -> TC!Body \cup {Absent}]]
BY DEF Safe, CouplingInv, ControlOK, TC!TypeOK

LEMMA LookFiles ==
  ASSUME Safe, FilesOK, NEW r \in Requests,
         \/ \E q \in Kinds : Arrive(r, q)
         \/ Search(r) \/ ServeHit(r) \/ Acquire(r) \/ Lock(r) \/ RecheckMisses(r)
  PROVE  FilesOK' /\ disk' = disk
<1>1. /\ pc \in [Requests -> Points] /\ req \in [Requests -> Kinds \cup {Absent}]
      /\ look \in [Requests -> TC!Looks]
  BY SafeTypes
<1>2. ASSUME NEW q \in Kinds, Arrive(r, q)
      PROVE  FilesOK' /\ disk' = disk
  <2>1. /\ req' = [req EXCEPT ![r] = q] /\ disk' = disk /\ tee' = tee /\ pc[r] = "idle"
    BY <1>2 DEF Arrive, TC!Look, cacheVars
  <2>2. CASE q.key = NoKey
    <3>1. pc' = [pc EXCEPT ![r] = "capture"] /\ look' = look
      BY <1>2, <2>2 DEF Arrive, Goto, cacheVars
    <3>2. look[r] = TC!NoLook /\ tee[r].rel = Absent
      BY <2>1 DEF FilesOK
    <3> QED BY <1>1, <2>1, <3>1, <3>2, OneMoves
  <2>3. CASE q.key # NoKey
    <3> DEFINE l == [TC!NoLook EXCEPT !.file = FileOf[q.key]]
    <3>1. pc' = [pc EXCEPT ![r] = "fast"] /\ look' = [look EXCEPT ![r] = l]
      BY <1>2, <2>3 DEF Arrive, Goto, TC!Look
    <3>2. q.key \in Keys /\ l.file = FileOf[q.key]
      BY <2>3, ServeAssumption DEF RequestType, TC!NoLook
    <3> HIDE DEF l
    <3>3. tee[r].rel = Absent
      BY <2>1 DEF FilesOK
    <3> QED BY <1>1, <2>1, <3>1, <3>2, <3>3, OneMoves
  <2> QED BY <2>2, <2>3
<1>3. CASE Search(r)
  <2>1. /\ UNCHANGED <<pc, req, tee, disk>> /\ pc[r] \in {"fast", "recheck"}
        /\ TC!Stat(r) \/ TC!Open(r)
    BY <1>3 DEF Search, TC!Stat, TC!Open
  <2>2. look'[r].file = look[r].file /\ \A s \in Requests \ {r} : look'[s] = look[s]
    BY <1>1, <2>1 DEF TC!Stat, TC!Open, TC!Looks
  <2>3. /\ req[r].key \in Keys /\ look[r].file = FileOf[req[r].key] /\ tee[r].rel = Absent
    BY <2>1 DEF FilesOK
  <2> QED BY <2>1, <2>2, <2>3, OneMoves
<1>4. CASE ServeHit(r) \/ Acquire(r) \/ RecheckMisses(r)
  <2>1. /\ UNCHANGED <<req, tee, disk>> /\ look' = [look EXCEPT ![r] = TC!NoLook]
        /\ pc[r] \in {"fast", "recheck"}
        /\ \E p \in {"leaving", "waiting", "capture"} : pc' = [pc EXCEPT ![r] = p]
    BY <1>4 DEF ServeHit, Acquire, RecheckMisses, TC!EndLook, Goto
  <2>2. tee[r].rel = Absent
    BY <2>1 DEF FilesOK
  <2> QED BY <1>1, <2>1, <2>2, OneMoves
<1>5. CASE Lock(r)
  <2> DEFINE l == [TC!NoLook EXCEPT !.file = FileOf[req[r].key]]
  <2>1. /\ UNCHANGED <<req, tee, disk>> /\ look' = [look EXCEPT ![r] = l]
        /\ pc[r] = "waiting" /\ pc' = [pc EXCEPT ![r] = "recheck"]
    BY <1>5 DEF Lock, TC!Look, Goto
  <2>2. l.file = FileOf[req[r].key]
    BY DEF TC!NoLook
  <2> HIDE DEF l
  <2>3. tee[r].rel = Absent /\ req[r].key \in Keys
    BY <2>1 DEF FilesOK, Safe, CouplingInv, Coupled
  <2> QED BY <1>1, <2>1, <2>2, <2>3, OneMoves
<1> QED BY <1>2, <1>3, <1>4, <1>5

LEMMA FetchFiles ==
  ASSUME Safe, FilesOK, NEW r \in Requests,
         \/ Capture(r) \/ ForwardFails(r) \/ ForwardPlain(r) \/ ForwardTeed(r) \/ Copy(r)
         \/ Relay(r)
  PROVE  /\ FilesOK' /\ UNCHANGED <<disk, look, req>>
         /\ pc[r] \in {"capture", "try", "stream", "relay"}
         /\ \E p \in {"try", "stream", "leaving"} : pc' = [pc EXCEPT ![r] = p]
<1>1. /\ pc \in [Requests -> Points] /\ req \in [Requests -> Kinds \cup {Absent}]
      /\ look \in [Requests -> TC!Looks] /\ tee \in [Requests -> TC!Tees]
  BY SafeTypes
<1>2. /\ req' = req /\ pc[r] \in {"capture", "try", "stream", "relay"} /\ look[r] = TC!NoLook
  BY DEF Capture, ForwardFails, ForwardPlain, ForwardTeed, Copy, Relay, FilesOK
<1>3. CASE Capture(r)
  <2>1. pc' = [pc EXCEPT ![r] = "try"] /\ pc[r] = "capture" /\ tee[r].rel = Absent
    BY <1>3 DEF Capture, Goto, FilesOK
  <2>2. CASE req[r].key # NoKey /\ WriteDir # NoDir
    <3>1. UNCHANGED <<disk, look>> /\ tee' = [tee EXCEPT ![r].rel = FileOf[req[r].key]]
      BY <1>3, <2>2 DEF Capture, TC!Capture
    <3>2. tee'[r].rel = FileOf[req[r].key] /\ \A s \in Requests \ {r} : tee'[s] = tee[s]
      BY <1>1, <3>1 DEF TC!Tees
    <3>3. req[r].key \in Keys
      BY <2>1, <2>2 DEF Safe, CouplingInv, Coupled, Fetching
    <3> QED BY <1>1, <1>2, <2>1, <3>1, <3>2, <3>3, OneMoves
  <2>3. CASE ~(req[r].key # NoKey /\ WriteDir # NoDir)
    <3>1. UNCHANGED <<disk, look, tee>>
      BY <1>3, <2>3 DEF Capture, cacheVars
    <3> QED BY <1>1, <1>2, <2>1, <3>1, OneMoves
  <2> QED BY <2>2, <2>3
<1>4. CASE ForwardFails(r) \/ ForwardPlain(r) \/ Relay(r)
  <2>1. UNCHANGED <<disk, look, tee>>
    BY <1>4 DEF ForwardFails, ForwardPlain, Relay, cacheVars
  <2>2. \/ pc' = [pc EXCEPT ![r] = "try"] /\ pc[r] = "try"
        \/ pc' = [pc EXCEPT ![r] = "leaving"] /\ tee[r].rel = Absent
    BY <1>1, <1>4 DEF ForwardFails, ForwardPlain, Relay, Goto, FilesOK
  <2> QED BY <1>1, <1>2, <2>1, <2>2, OneMoves DEF FilesOK
<1>5. CASE ForwardTeed(r) \/ Copy(r)
  <2>1. /\ pc' = [pc EXCEPT ![r] = "stream"] /\ pc[r] \in {"try", "stream"}
    BY <1>1, <1>5 DEF ForwardTeed, Copy, Goto
  <2>2. UNCHANGED <<disk, look>> /\ \A s \in Requests : tee'[s].rel = tee[s].rel
    <3>1. CASE ForwardTeed(r)
      <4>1. PICK p \in Replies : TC!CopyHeaders(r, p)
        BY <3>1 DEF ForwardTeed
      <4> QED BY <1>1, <4>1 DEF TC!CopyHeaders, TC!Tees
    <3>2. CASE Copy(r)
      BY <3>2, WriteKeeps DEF Copy, Safe
    <3> QED BY <1>5, <3>1, <3>2
  <2> QED BY <1>1, <1>2, <2>1, <2>2, OneMoves DEF FilesOK
<1> QED BY <1>3, <1>4, <1>5

LEMMA EndFiles ==
  ASSUME Safe, FilesOK, NEW r \in Requests, CopyEnds(r) \/ Exhausted(r)
  PROVE  /\ FilesOK' /\ UNCHANGED <<look, req>> /\ pc[r] \in {"try", "stream"}
         /\ \E p \in {"relay", "leaving"} : pc' = [pc EXCEPT ![r] = p]
         /\ \/ disk' = disk
            \/ /\ pc'[r] = "leaving" /\ Fetching(r) /\ req[r].key \in Keys
               /\ \E b : disk' = [disk EXCEPT ![WriteDir][FileOf[req[r].key]] = b]
<1>1. /\ pc \in [Requests -> Points] /\ req \in [Requests -> Kinds \cup {Absent}]
      /\ tee \in [Requests -> TC!Tees]
  BY SafeTypes
<1>2. req' = req /\ pc[r] \in {"try", "stream"} /\ look[r] = TC!NoLook
  BY DEF CopyEnds, Exhausted, FilesOK
<1>3. CASE CopyEnds(r)
  <2>1. pc' = [pc EXCEPT ![r] = "leaving"] /\ TC!Finalize(r, TRUE)
    BY <1>3 DEF CopyEnds, Goto
  <2>2. /\ tee[r].rel # Absent /\ look' = look /\ tee' = [tee EXCEPT ![r] = TC!NoTee]
        /\ disk' = disk \/ \E b : disk' = [disk EXCEPT ![WriteDir][tee[r].rel] = b]
    BY <2>1, FinalizeKeeps DEF Safe
  <2>3. tee[r].rel = FileOf[req[r].key] /\ req[r].key \in Keys /\ Fetching(r)
    BY <1>2, <2>2, LockAssumption DEF FilesOK, Fetching, FL!FlightsAssumption
  <2>4. FilesOK'
    BY <1>1, <1>2, <2>1, <2>2, NothingHeld, OneMoves
  <2> QED BY <1>1, <1>2, <2>1, <2>2, <2>3, <2>4
<1>4. CASE Exhausted(r)
  <2>1. PICK p \in {"relay", "leaving"} : pc' = [pc EXCEPT ![r] = p]
    BY <1>4 DEF Exhausted, Goto
  <2>2. /\ UNCHANGED <<disk, look>> /\ tee'[r].rel = Absent
        /\ \A s \in Requests \ {r} : tee'[s] = tee[s]
    <3>1. CASE tee[r].rel = Absent
      BY <1>4, <3>1 DEF Exhausted, cacheVars
    <3>2. CASE tee[r].rel # Absent
      <4>1. TC!Finalize(r, FALSE)
        BY <1>4, <3>2 DEF Exhausted
      <4>2. UNCHANGED <<disk, look>> /\ tee' = [tee EXCEPT ![r] = TC!NoTee]
        BY <4>1, FinalizeKeeps DEF Safe
      <4> QED BY <1>1, <4>2, NothingHeld
    <3> QED BY <3>1, <3>2
  <2>3. FilesOK'
    BY <1>1, <1>2, <2>1, <2>2, OneMoves
  <2> QED BY <1>2, <2>1, <2>2, <2>3
<1> QED BY <1>3, <1>4

\* The steps in which a handler has nothing to do with the cache.
LEMMA LeaveFiles ==
  ASSUME Safe, FilesOK, NEW r \in Requests, Leave(r) \/ Unlock(r) \/ Release(r)
  PROVE  /\ FilesOK' /\ UNCHANGED <<disk, look>>
         /\ \E p \in {"idle", "releasing"} : pc' = [pc EXCEPT ![r] = p]
         /\ \A s \in Requests \ {r} : req'[s] = req[s]
<1>1. /\ pc \in [Requests -> Points] /\ req \in [Requests -> Kinds \cup {Absent}]
  BY SafeTypes
<1>2. /\ UNCHANGED <<disk, look, tee>> /\ pc[r] \in {"leaving", "releasing"}
      /\ \E p \in {"idle", "releasing"} : pc' = [pc EXCEPT ![r] = p]
      /\ req' = req \/ req' = [req EXCEPT ![r] = Absent]
  <2>1. UNCHANGED <<disk, look, tee>>
    BY DEF Leave, Unlock, Release, cacheVars
  <2>2. CASE Leave(r)
    BY <2>1, <2>2 DEF Leave, Forget, Goto
  <2>3. CASE Unlock(r)
    BY <2>1, <2>3 DEF Unlock, Goto
  <2>4. CASE Release(r)
    <3>1. pc[r] = "releasing"
      BY <2>4 DEF Release
    <3> QED BY <2>1, <2>4, <3>1 DEF Release, Forget, Goto
  <2> QED BY <2>2, <2>3, <2>4
<1>3. look[r] = TC!NoLook /\ tee[r].rel = Absent
  BY <1>2 DEF FilesOK
<1>4. \A s \in Requests \ {r} : pc'[s] = pc[s] /\ req'[s] = req[s]
  BY <1>1, <1>2
<1>5. pc'[r] \in {"idle", "releasing"}
  BY <1>1, <1>2
<1>6. FilesOK'
  BY <1>2, <1>3, <1>4, <1>5, OneMoves
<1> QED BY <1>2, <1>4, <1>6

LEMMA CrashFiles ==
  ASSUME Crash
  PROVE  /\ FilesOK' /\ disk' = disk
         /\ \A r \in Requests : look'[r] = TC!NoLook /\ pc'[r] = "idle"
BY NothingHeld DEF Crash, TC!Crash, FilesOK

LEMMA WorldFiles ==
  ASSUME FilesOK, World \/ UNCHANGED vars
  PROVE  /\ FilesOK' /\ UNCHANGED <<look, pc, req>>
         /\ \/ disk' = disk
            \/ \E d \in Volatile, f \in Files : disk' = [disk EXCEPT ![d][f] = Absent]
<1>1. UNCHANGED <<look, tee, pc, req>>
  BY DEF World, vars, cacheVars, TC!New, TC!Check, TC!Delete
<1>2. \/ disk' = disk
      \/ \E d \in Volatile, f \in Files : disk' = [disk EXCEPT ![d][f] = Absent]
  BY DEF World, vars, cacheVars, TC!New, TC!Check, TC!Delete
<1> QED BY <1>1, <1>2 DEF FilesOK

-----------------------------------------------------------------------------
(* Where a file is, and who may have seen that.                            *)

\* What a search has found is still there.  One that holds the lock has not passed
\* over the file, and a path that is being fetched is in no directory.
SearchOK(r) ==
  /\ look[r].size # NoLength =>
       /\ look[r].at <= Len(ReadDirs)
       /\ disk[ReadDirs[look[r].at]][look[r].file] # Absent
       /\ disk[ReadDirs[look[r].at]][look[r].file].len = look[r].size
  /\ look[r].got # Absent => look[r].got.len = look[r].size
  /\ pc[r] = "recheck" =>
       \A i \in 1..Len(ReadDirs) :
         i < look[r].at => disk[ReadDirs[i]][look[r].file] = Absent
  /\ Fetching(r) => \A d \in TC!Dirs : disk[d][FileOf[req[r].key]] = Absent

CacheOK == Undisturbed => \A r \in Requests : SearchOK(r)

LEMMA FaultsStay == CouplingInv /\ [Next]_vars => faults' = faults
BY StepOfDisk DEF Disk!Next, Disk!vars

LEMMA DirectoriesRead ==
  ASSUME NEW i \in 1..Len(ReadDirs)
  PROVE  ReadDirs[i] \in TC!Dirs
BY DEF TC!Dirs

\* r stores the file of its path.
Stores(r) == /\ Fetching(r) /\ req[r].key \in Keys
             /\ \E b : disk' = [disk EXCEPT ![WriteDir][FileOf[req[r].key]] = b]

\* A handler that others' steps, a store included, go past.
LEMMA BystanderOK ==
  ASSUME Safe, FilesOK, Undisturbed, \A r \in Requests : SearchOK(r),
         NEW s \in Requests, pc'[s] = pc[s], req'[s] = req[s], look'[s] = look[s],
         disk' = disk \/ \E r \in Requests \ {s} : Stores(r)
  PROVE  SearchOK(s)'
<1>1. CASE disk' = disk
  BY <1>1 DEF SearchOK, Fetching
<1>2. ASSUME NEW r \in Requests \ {s}, Stores(r)
      PROVE  SearchOK(s)'
  <2> DEFINE f == FileOf[req[r].key]
             g == FileOf[req[s].key]
  <2>1. /\ f \in Files /\ \A d \in TC!Dirs : disk[d][f] = Absent
        /\ \A d \in TC!Dirs, h \in Files : h # f => disk'[d][h] = disk[d][h]
    <3>1. f \in Files
      BY <1>2, ServeAssumption DEF Stores
    <3>2. \A d \in TC!Dirs : disk[d][f] = Absent
      BY <1>2 DEF Stores, SearchOK
    <3>3. PICK b : disk' = [disk EXCEPT ![WriteDir][f] = b]
      BY <1>2 DEF Stores
    <3>4. disk \in [TC!Dirs -> [Files -> TC!Body \cup {Absent}]]
      BY SafeTypes
    <3> QED BY <3>1, <3>2, <3>3, <3>4
  <2>2. pc[s] = "recheck" \/ Fetching(s) => g \in Files /\ g # f
    <3> SUFFICES ASSUME pc[s] = "recheck" \/ Fetching(s)
                 PROVE  g \in Files /\ g # f
      OBVIOUS
    <3>1. /\ stage[s] = "locked" /\ key[s] = req[s].key /\ req[s].key \in Keys
          /\ stage[r] = "locked" /\ key[r] = req[r].key /\ req[r].key \in Keys
      BY <1>2 DEF Safe, CouplingInv, Coupled, Stores
    <3>2. req[s].key # req[r].key
      BY <3>1 DEF Safe, FL!MutualExclusion
    <3> QED BY <3>1, <3>2, ServeAssumption DEF Undisturbed
  <2>3. pc[s] = "recheck" => look[s].file = g
    BY DEF FilesOK
  <2>4. look[s].size # NoLength => look[s].file \in Files /\ look[s].at \in 1..Len(ReadDirs)
    <3> SUFFICES ASSUME look[s].size # NoLength
                 PROVE  look[s].file \in Files /\ look[s].at \in 1..Len(ReadDirs)
      OBVIOUS
    <3>1. look[s] # TC!NoLook
      BY NothingHeld
    <3>2. look[s].file \in Files
      BY <3>1, ServeAssumption DEF FilesOK
    <3>3. look[s].at \in Nat \ {0} /\ look[s].at <= Len(ReadDirs) /\ Len(ReadDirs) \in Nat
      <4>1. look[s] \in TC!Looks /\ Len(ReadDirs) \in Nat
        BY SafeTypes, CacheAssumption DEF TC!TarballCacheAssumption
      <4> QED BY <4>1 DEF TC!Looks, SearchOK
    <3> QED BY <3>2, <3>3
  <2> HIDE DEF f, g
  <2>5. look[s].size # NoLength =>
          /\ look[s].at <= Len(ReadDirs)
          /\ disk'[ReadDirs[look[s].at]][look[s].file] # Absent
          /\ disk'[ReadDirs[look[s].at]][look[s].file].len = look[s].size
    <3> SUFFICES ASSUME look[s].size # NoLength
                 PROVE  /\ look[s].at <= Len(ReadDirs)
                        /\ disk'[ReadDirs[look[s].at]][look[s].file] # Absent
                        /\ disk'[ReadDirs[look[s].at]][look[s].file].len = look[s].size
      OBVIOUS
    <3> DEFINE d == ReadDirs[look[s].at]
               h == look[s].file
    <3>1. d \in TC!Dirs /\ h \in Files
      BY <2>4, DirectoriesRead
    <3>2. /\ look[s].at <= Len(ReadDirs) /\ disk[d][h] # Absent /\ disk[d][h].len = look[s].size
      BY DEF SearchOK
    <3> HIDE DEF d, h
    <3>3. disk'[d][h] = disk[d][h]
      BY <2>1, <3>1, <3>2
    <3> QED BY <3>2, <3>3 DEF d, h
  <2>6. pc[s] = "recheck" =>
          \A i \in 1..Len(ReadDirs) :
            i < look[s].at => disk'[ReadDirs[i]][look[s].file] = Absent
    <3> SUFFICES ASSUME pc[s] = "recheck", NEW i \in 1..Len(ReadDirs), i < look[s].at
                 PROVE  disk'[ReadDirs[i]][look[s].file] = Absent
      OBVIOUS
    <3>1. disk[ReadDirs[i]][look[s].file] = Absent
      BY DEF SearchOK
    <3> QED BY <2>1, <2>2, <2>3, <3>1, DirectoriesRead
  <2>7. Fetching(s) => \A d \in TC!Dirs : disk'[d][g] = Absent
    <3>1. Fetching(s) => \A d \in TC!Dirs : disk[d][g] = Absent
      BY DEF SearchOK, g
    <3> QED BY <2>1, <2>2, <3>1
  <2> QED BY <2>5, <2>6, <2>7 DEF SearchOK, Fetching, g
<1> QED BY <1>1, <1>2

\* The steps of a handler that searches.
LEMMA SearcherOK ==
  ASSUME Safe, FilesOK, Undisturbed, NEW r \in Requests, SearchOK(r),
         \/ \E q \in Kinds : Arrive(r, q)
         \/ Search(r) \/ ServeHit(r) \/ Acquire(r) \/ Lock(r) \/ RecheckMisses(r)
  PROVE  SearchOK(r)'
<1>1. /\ pc \in [Requests -> Points] /\ req \in [Requests -> Kinds \cup {Absent}]
      /\ look \in [Requests -> TC!Looks]
  BY SafeTypes
<1>2. FilesOK' /\ disk' = disk
  BY LookFiles
<1>3. look[r].at \in Nat \ {0} /\ Len(ReadDirs) \in Nat
  BY <1>1, CacheAssumption DEF TC!Looks, TC!TarballCacheAssumption
<1>4. ASSUME look'[r] = TC!NoLook, pc'[r] # "recheck", ~Fetching(r)'
      PROVE  SearchOK(r)'
  BY <1>4, NothingHeld DEF SearchOK
<1>5. ASSUME NEW q \in Kinds, Arrive(r, q)
      PROVE  SearchOK(r)'
  <2>1. req'[r] = q
    BY <1>1, <1>5 DEF Arrive
  <2>2. CASE q.key = NoKey
    <3>1. pc'[r] = "capture"
      BY <1>1, <1>5, <2>2 DEF Arrive, Goto
    <3> QED BY <1>2, <1>4, <2>1, <2>2, <3>1 DEF Fetching, FilesOK
  <2>3. CASE q.key # NoKey
    <3>1. pc'[r] = "fast" /\ look'[r] = [TC!NoLook EXCEPT !.file = FileOf[q.key]]
      BY <1>1, <1>5, <2>3 DEF Arrive, Goto, TC!Look
    <3>2. look'[r].size = NoLength /\ look'[r].got = Absent
      BY <3>1 DEF TC!NoLook
    <3> QED BY <3>1, <3>2 DEF SearchOK, Fetching
  <2> QED BY <2>2, <2>3
<1>6. CASE Search(r)
  <2> DEFINE b == disk[ReadDirs[look[r].at]][look[r].file]
             l == look'[r]
  <2>1. /\ pc' = pc /\ req' = req /\ pc[r] \in {"fast", "recheck"}
        /\ look[r].got = Absent /\ look[r].at <= Len(ReadDirs)
        /\ look[r].at \in 1..Len(ReadDirs)
    BY <1>3, <1>6 DEF Search, TC!Stat, TC!Open, TC!Searching
  <2>2. b \in TC!Body \cup {Absent}
    <3>1. ReadDirs[look[r].at] \in TC!Dirs
      BY <2>1, DirectoriesRead
    <3>2. look[r].file \in Files
      BY <2>1, ServeAssumption DEF FilesOK
    <3> QED BY <3>1, <3>2, SafeTypes
  <2>3. \/ /\ b = Absent /\ look[r].size = NoLength
           /\ l = [look[r] EXCEPT !.at = look[r].at + 1]
        \/ /\ b # Absent /\ look[r].size = NoLength /\ l = [look[r] EXCEPT !.size = b.len]
        \/ /\ b # Absent /\ look[r].size # NoLength /\ l = [look[r] EXCEPT !.got = b]
    <3>1. CASE TC!Stat(r)
      BY <1>1, <3>1 DEF TC!Stat
    <3>2. CASE TC!Open(r)
      <4>1. look[r].size # NoLength /\ b # Absent /\ "open" \notin faults
        BY <3>2 DEF TC!Open, SearchOK, Undisturbed
      <4> QED BY <1>1, <3>2, <4>1 DEF TC!Open
    <3> QED BY <1>6, <3>1, <3>2 DEF Search
  <2>4. ~Fetching(r)'
    BY <2>1 DEF Fetching
  <2>5. CASE b = Absent /\ look[r].size = NoLength /\ l = [look[r] EXCEPT !.at = look[r].at + 1]
    <3>1. /\ l.at = look[r].at + 1 /\ l.size = NoLength /\ l.got = Absent
          /\ l.file = look[r].file
      BY <1>1, <2>1, <2>5 DEF TC!Looks
    <3>2. ASSUME pc[r] = "recheck", NEW i \in 1..Len(ReadDirs), i < l.at
          PROVE  disk[ReadDirs[i]][look[r].file] = Absent
      <4>1. i < look[r].at \/ i = look[r].at
        BY <1>3, <3>1, <3>2
      <4> QED BY <2>5, <3>2, <4>1 DEF SearchOK
    <3> QED BY <1>2, <2>1, <2>4, <3>1, <3>2 DEF SearchOK
  <2>6. CASE b # Absent /\ look[r].size = NoLength /\ l = [look[r] EXCEPT !.size = b.len]
    <3>1. /\ l.at = look[r].at /\ l.size = b.len /\ l.got = Absent
          /\ l.file = look[r].file
      BY <1>1, <2>1, <2>6 DEF TC!Looks
    <3>2. pc[r] = "recheck" => \A i \in 1..Len(ReadDirs) :
            i < l.at => disk[ReadDirs[i]][l.file] = Absent
      BY <3>1 DEF SearchOK
    <3> QED BY <1>2, <2>1, <2>4, <2>6, <3>1, <3>2 DEF SearchOK
  <2>7. CASE b # Absent /\ look[r].size # NoLength /\ l = [look[r] EXCEPT !.got = b]
    <3>1. /\ l.at = look[r].at /\ l.size = look[r].size /\ l.got = b
          /\ l.file = look[r].file
      BY <1>1, <2>1, <2>7 DEF TC!Looks
    <3>2. b.len = look[r].size
      BY <2>7 DEF SearchOK
    <3>3. pc[r] = "recheck" => \A i \in 1..Len(ReadDirs) :
            i < l.at => disk[ReadDirs[i]][l.file] = Absent
      BY <3>1 DEF SearchOK
    <3> QED BY <1>2, <2>1, <2>4, <2>7, <3>1, <3>2, <3>3 DEF SearchOK
  <2> QED BY <2>3, <2>5, <2>6, <2>7
<1>7. CASE ServeHit(r) \/ Acquire(r)
  <2>1. look'[r] = TC!NoLook /\ pc'[r] \in {"leaving", "waiting"}
    BY <1>1, <1>7 DEF ServeHit, Acquire, TC!EndLook, Goto
  <2> QED BY <1>4, <2>1 DEF Fetching
<1>8. CASE Lock(r)
  <2>1. pc'[r] = "recheck" /\ look'[r] = [TC!NoLook EXCEPT !.file = FileOf[req[r].key]]
    BY <1>1, <1>8 DEF Lock, Goto, TC!Look
  <2>2. look'[r].size = NoLength /\ look'[r].got = Absent /\ look'[r].at = 1
    BY <2>1 DEF TC!NoLook
  <2>3. \A i \in 1..Len(ReadDirs) : ~(i < 1)
    BY <1>3
  <2> QED BY <2>1, <2>2, <2>3 DEF SearchOK, Fetching
<1>9. CASE RecheckMisses(r)
  <2>1. /\ look'[r] = TC!NoLook /\ pc'[r] = "capture" /\ pc[r] = "recheck" /\ req' = req
        /\ TC!Miss(r)
    BY <1>1, <1>9 DEF RecheckMisses, TC!EndLook, Goto
  <2>2. \A i \in 1..Len(ReadDirs) : i < look[r].at
    BY <1>3, <2>1 DEF TC!Miss
  <2>3. \A i \in 1..Len(ReadDirs) : disk[ReadDirs[i]][FileOf[req[r].key]] = Absent
    BY <2>1, <2>2 DEF SearchOK, FilesOK
  <2>4. \A d \in TC!Dirs : disk[d][FileOf[req[r].key]] = Absent
    BY <2>3 DEF TC!Dirs
  <2> QED BY <1>2, <2>1, <2>4, NothingHeld DEF SearchOK
<1> QED BY <1>5, <1>6, <1>7, <1>8, <1>9

LEMMA NextCache ==
  Safe /\ FilesOK /\ CacheOK /\ [Next]_vars => FilesOK' /\ CacheOK'
<1> SUFFICES ASSUME Safe, FilesOK, CacheOK, [Next]_vars
             PROVE  FilesOK' /\ CacheOK'
  OBVIOUS
<1>1. /\ pc \in [Requests -> Points] /\ req \in [Requests -> Kinds \cup {Absent}]
      /\ look \in [Requests -> TC!Looks]
  BY SafeTypes
<1>2. Undisturbed' => Undisturbed
  BY FaultsStay DEF Undisturbed, Safe
<1>3. Undisturbed => \A r \in Requests : SearchOK(r)
  BY DEF CacheOK
<1>4. ASSUME NEW r \in Requests,
             \/ \E q \in Kinds : Arrive(r, q)
             \/ Search(r) \/ ServeHit(r) \/ Acquire(r) \/ Lock(r) \/ RecheckMisses(r)
      PROVE  FilesOK' /\ CacheOK'
  <2>1. FilesOK' /\ disk' = disk
    BY <1>4, LookFiles
  <2>2. \A s \in Requests \ {r} : pc'[s] = pc[s] /\ req'[s] = req[s] /\ look'[s] = look[s]
    BY <1>1, <1>4 DEF Arrive, Search, ServeHit, Acquire, Lock, RecheckMisses, Goto,
                      TC!Look, TC!Stat, TC!Open, TC!EndLook, cacheVars
  <2>3. ASSUME Undisturbed, NEW s \in Requests
        PROVE  SearchOK(s)'
    <3>1. CASE s = r
      BY <1>3, <1>4, <2>3, <3>1, SearcherOK
    <3>2. CASE s # r
      BY <1>3, <2>1, <2>2, <2>3, <3>2, BystanderOK
    <3> QED BY <3>1, <3>2
  <2> QED BY <1>2, <2>1, <2>3 DEF CacheOK
<1>5. ASSUME NEW r \in Requests, UNCHANGED <<disk, look, req>>,
             pc[r] \in {"capture", "try", "stream", "relay"},
             \E p \in {"try", "stream", "relay", "leaving"} : pc' = [pc EXCEPT ![r] = p]
      PROVE  CacheOK'
  <2>1. \A s \in Requests \ {r} : pc'[s] = pc[s]
    BY <1>1, <1>5
  <2>2. pc'[r] \in {"try", "stream", "relay", "leaving"}
    BY <1>1, <1>5
  <2>3. ASSUME Undisturbed, NEW s \in Requests
        PROVE  SearchOK(s)'
    <3>1. CASE s = r
      <4>1. Fetching(r)' => Fetching(r)
        BY <1>5 DEF Fetching
      <4> QED BY <1>3, <1>5, <2>2, <2>3, <3>1, <4>1 DEF SearchOK
    <3>2. CASE s # r
      BY <1>3, <1>5, <2>1, <2>3, <3>2, BystanderOK
    <3> QED BY <3>1, <3>2
  <2> QED BY <1>2, <2>3 DEF CacheOK
<1>6. ASSUME NEW r \in Requests, CopyEnds(r) \/ Exhausted(r)
      PROVE  FilesOK' /\ CacheOK'
  <2>1. /\ FilesOK' /\ UNCHANGED <<look, req>> /\ pc[r] \in {"try", "stream"}
        /\ \E p \in {"relay", "leaving"} : pc' = [pc EXCEPT ![r] = p]
        /\ disk' = disk \/ (pc'[r] = "leaving" /\ Stores(r))
    BY <1>6, EndFiles DEF Stores
  <2>2. CASE disk' = disk
    BY <1>5, <2>1, <2>2
  <2>3. CASE pc'[r] = "leaving" /\ Stores(r)
    <3>1. \A s \in Requests \ {r} : pc'[s] = pc[s]
      BY <1>1, <2>1
    <3>2. look'[r] = TC!NoLook
      BY <2>1, <2>3 DEF FilesOK
    <3>3. ASSUME Undisturbed, NEW s \in Requests
          PROVE  SearchOK(s)'
      <4>1. CASE s = r
        BY <2>3, <3>2, <4>1, NothingHeld DEF SearchOK, Fetching
      <4>2. CASE s # r
        BY <1>3, <2>1, <2>3, <3>1, <3>3, <4>2, BystanderOK
      <4> QED BY <4>1, <4>2
    <3> QED BY <1>2, <2>1, <3>3 DEF CacheOK
  <2> QED BY <2>1, <2>2, <2>3
<1>7. ASSUME NEW r \in Requests,
             \/ Capture(r) \/ ForwardFails(r) \/ ForwardPlain(r) \/ ForwardTeed(r) \/ Copy(r)
             \/ Relay(r)
      PROVE  FilesOK' /\ CacheOK'
  BY <1>5, <1>7, FetchFiles
<1>8. ASSUME NEW r \in Requests, Leave(r) \/ Unlock(r) \/ Release(r)
      PROVE  FilesOK' /\ CacheOK'
  <2>1. /\ FilesOK' /\ UNCHANGED <<disk, look>>
        /\ \E p \in {"idle", "releasing"} : pc' = [pc EXCEPT ![r] = p]
        /\ \A s \in Requests \ {r} : req'[s] = req[s]
    BY <1>8, LeaveFiles
  <2>2. pc'[r] \in {"idle", "releasing"} /\ \A s \in Requests \ {r} : pc'[s] = pc[s]
    BY <1>1, <2>1
  <2>3. look'[r] = TC!NoLook
    BY <2>1, <2>2 DEF FilesOK
  <2>4. ASSUME Undisturbed, NEW s \in Requests
        PROVE  SearchOK(s)'
    <3>1. CASE s = r
      BY <2>2, <2>3, <3>1, NothingHeld DEF SearchOK, Fetching
    <3>2. CASE s # r
      BY <1>3, <2>1, <2>2, <2>4, <3>2, BystanderOK
    <3> QED BY <3>1, <3>2
  <2> QED BY <1>2, <2>1, <2>4 DEF CacheOK
<1>9. CASE Crash
  BY <1>9, CrashFiles, NothingHeld DEF CacheOK, SearchOK, Fetching
<1>10. CASE World \/ UNCHANGED vars
  <2>1. /\ FilesOK' /\ UNCHANGED <<look, pc, req>>
        /\ \/ disk' = disk
           \/ \E d \in Volatile, f \in Files : disk' = [disk EXCEPT ![d][f] = Absent]
    BY <1>10, WorldFiles
  <2>2. Undisturbed => disk' = disk
    BY <2>1 DEF Undisturbed
  <2> QED BY <1>2, <1>3, <2>1, <2>2 DEF CacheOK, SearchOK, Fetching
<1> QED BY <1>4, <1>6, <1>7, <1>8, <1>9, <1>10, NextCases DEF Elsewhere

LEMMA InitCache == Init => FilesOK /\ CacheOK
BY NothingHeld DEF Init, TC!Init, FilesOK, CacheOK, SearchOK, Fetching

LEMMA CacheInvariance == Spec => [](FilesOK /\ CacheOK)
<1>1. CouplingInv /\ TC!TypeOK /\ FL!TypeOK /\ FL!MutualExclusion => Safe
  BY DEF Safe
<1> QED BY CouplingInvariance, DiskTypes, LockTypes, InitCache, NextCache, <1>1, PTL DEF Spec

(* "concurrent followers wait, then re-check the cache" (cache.go 134-137, *)
(* router.go 179-191): as long as nobody else removes files, no path that  *)
(* is in a cache directory is fetched, in whatever order handlers look,    *)
(* wait, look again, download and store.                                   *)
THEOREM NothingIsRefetched == Spec => []NeverRefetched
<1>1. CacheOK => NeverRefetched
  BY DEF CacheOK, SearchOK, NeverRefetched
<1> QED BY CacheInvariance, <1>1, PTL

(* ServeHit announces the length that Stat reported, and the file that     *)
(* Open then finds has it (cache.go 94-131): nothing replaces a cached     *)
(* file, since only a path that is in no directory is fetched and stored.  *)
THEOREM HitsHaveAnnouncedLength == Spec => []HitAsAnnounced
<1>1. CacheOK => HitAsAnnounced
  BY DEF CacheOK, SearchOK, HitAsAnnounced
<1> QED BY CacheInvariance, <1>1, PTL
=============================================================================
