------------------------------- MODULE Serve -------------------------------
(***************************************************************************)
(* compiledRoute.serve, one goroutine per request, over the lock table     *)
(* (Flights) and the disk cache (TarballCache): look, wait for the path's  *)
(* turn, look again, try the candidates, tee what one of them answers, and *)
(* otherwise relay a definitive answer or report a bad gateway.  The HEAD  *)
(* race touches nothing that is shared, so its contract (RaceOutcomes,     *)
(* which HeadRace meets) stands for it.  Upstream.Forward and Upstream.    *)
(* Relay are here with their outcomes.                                     *)
(***************************************************************************)
EXTENDS Priority

CONSTANTS Requests,                                  \* the handler goroutines
          Keys, Entries, NoEntry, NoKey,             \* see Flights
          Files, ReadDirs, WriteDir, NoDir, Temps,   \* see TarballCache
          NoTemp, Replies, NoLength, Absent,
          FaultSets, Volatile, Seed,
          FileOf,     \* the file a key names, once the path is cleaned
          Rank,       \* the priority of each candidate
          Kinds       \* the requests that clients send

VARIABLES flights, refs, mu, stage, key, entry,      \* see Flights
          faults, up, disk, temps, tee, look,        \* see TarballCache
          pc,      \* where each handler is
          req,     \* the request it handles
          alive,   \* the candidates it has yet to try, preferred first
          best,    \* bestDefinitive, 0 for nil
          seen,    \* the candidates that answered definitively
          sent,    \* the times the request, with its body, was sent upstream
          resp,    \* what the client was sent
          heads    \* the times a status line was written

FL == INSTANCE Flights
TC == INSTANCE TarballCache

lockVars == <<flights, refs, mu, stage, key, entry>>
cacheVars == <<faults, up, disk, temps, tee, look>>
raceVars == <<alive, best, seen, sent>>
respVars == <<resp, heads>>
vars == <<lockVars, cacheVars, pc, req, raceVars, respVars>>

RequestType == [method : {"GET", "other"}, key : Keys \cup {NoKey}, candidates : Nat \ {0}]

ASSUME LockAssumption == FL!FlightsAssumption

ASSUME CacheAssumption == TC!TarballCacheAssumption

ASSUME ServeAssumption ==
  /\ Kinds \subseteq RequestType /\ Absent \notin Kinds
  /\ \A q \in Kinds : q.key # NoKey => q.method = "GET"
  /\ FileOf \in [Keys -> Files]
  /\ Rank \in Seq(Int)
  /\ \A q \in Kinds : q.candidates <= Len(Rank)

Points == {"idle", "fast", "waiting", "recheck", "capture", "try", "stream",
           "relay", "leaving", "releasing"}

Init ==
  /\ FL!Init
  /\ TC!Init
  /\ pc = [r \in Requests |-> "idle"]
  /\ req = [r \in Requests |-> Absent]
  /\ alive = [r \in Requests |-> <<>>]
  /\ best = [r \in Requests |-> 0]
  /\ seen = [r \in Requests |-> {}]
  /\ sent = [r \in Requests |-> 0]
  /\ resp = [r \in Requests |-> "nothing"]
  /\ heads = [r \in Requests |-> 0]

TypeOK ==
  /\ FL!TypeOK
  /\ TC!TypeOK
  /\ pc \in [Requests -> Points]
  /\ req \in [Requests -> Kinds \cup {Absent}]
  /\ \A r \in Requests :
       /\ req[r] = Absent <=> pc[r] = "idle"
       /\ pc[r] # "idle" =>
            {best[r]} \cup seen[r] \cup ToSet(alive[r]) \subseteq 0..req[r].candidates
  /\ resp \in [Requests -> {"nothing", "hit", "reply", "relayed", "unreachable", "relay failed"}]
  /\ sent \in [Requests -> Nat]
  /\ heads \in [Requests -> Nat]

-----------------------------------------------------------------------------
Goto(r, point) == pc' = [pc EXCEPT ![r] = point]

\* A status line and headers go out to the client.
Respond(r, what) ==
  /\ resp' = [resp EXCEPT ![r] = what]
  /\ heads' = [heads EXCEPT ![r] = @ + 1]

\* The request, and whatever body it has, goes to a candidate.
Send(r) == sent' = [sent EXCEPT ![r] = @ + 1]

\* A request arrives; a GET that has a cache key is looked up first.
Arrive(r, q) ==
  /\ up
  /\ pc[r] = "idle"
  /\ req' = [req EXCEPT ![r] = q]
  /\ IF q.key = NoKey
     THEN Goto(r, "capture") /\ UNCHANGED cacheVars
     ELSE Goto(r, "fast") /\ TC!Look(r, FileOf[q.key]) /\ UNCHANGED faults
  /\ UNCHANGED <<lockVars, raceVars, respVars>>

\* ServeHit's way through the directories.
Search(r) ==
  /\ pc[r] \in {"fast", "recheck"}
  /\ TC!Stat(r) \/ TC!Open(r)
  /\ UNCHANGED <<lockVars, faults, pc, req, raceVars, respVars>>

\* ServeHit found the file and served it.
ServeHit(r) ==
  /\ pc[r] \in {"fast", "recheck"}
  /\ TC!Hit(r) /\ TC!EndLook(r)
  /\ Respond(r, "hit")
  /\ Goto(r, "leaving")
  /\ UNCHANGED <<lockVars, faults, req, raceVars>>

Acquire(r) ==
  /\ pc[r] = "fast"
  /\ TC!Miss(r) /\ TC!EndLook(r)
  /\ FL!Acquire(r, req[r].key)
  /\ Goto(r, "waiting")
  /\ UNCHANGED <<faults, req, raceVars, respVars>>

\* Fault: having waited, a request downloads without looking again.
LockWithoutRecheck(r) ==
  /\ pc[r] = "waiting"
  /\ FL!Lock(r)
  /\ Goto(r, "capture")
  /\ UNCHANGED <<cacheVars, req, raceVars, respVars>>

Lock(r) ==
  /\ pc[r] = "waiting"
  /\ FL!Lock(r)
  /\ TC!Look(r, FileOf[req[r].key])
  /\ Goto(r, "recheck")
  /\ UNCHANGED <<faults, req, raceVars, respVars>>

\* Fault: the mutex is only held for the second look.
RecheckUnlocks(r) ==
  /\ pc[r] = "recheck"
  /\ TC!Miss(r) /\ TC!EndLook(r)
  /\ FL!Unlock(r)
  /\ Goto(r, "capture")
  /\ UNCHANGED <<faults, req, raceVars, respVars>>

RecheckMisses(r) ==
  /\ pc[r] = "recheck"
  /\ TC!Miss(r) /\ TC!EndLook(r)
  /\ Goto(r, "capture")
  /\ UNCHANGED <<lockVars, faults, req, raceVars, respVars>>

\* Fault: the best effort after a failed race goes to all configured upstreams,
\* the route's and the others.
PlansOverall(q) ==
  LET all == ByPriority([i \in DOMAIN Rank |-> i], Rank)
  IN CASE q.candidates = 1 -> {<<1>>}
       [] q.candidates > 1 /\ q.method = "GET" ->
            {IF s = <<>> THEN all ELSE s : s \in RaceOutcomes(1..q.candidates, Rank)}
       [] OTHER -> {<<all[1]>>}

\* The candidates to try: the only one; for a GET those that the race found
\* alive, or all of them if it found none; otherwise just the preferred one.
Plans(q) ==
  LET all == ByPriority([i \in 1..q.candidates |-> i], Rank)
  IN CASE q.candidates = 1 -> {<<1>>}
       [] q.candidates > 1 /\ q.method = "GET" ->
            {IF s = <<>> THEN all ELSE s : s \in RaceOutcomes(1..q.candidates, Rank)}
       [] OTHER -> {<<all[1]>>}

Capture(r) ==
  /\ pc[r] = "capture"
  /\ IF req[r].key # NoKey /\ WriteDir # NoDir
     THEN TC!Capture(r, FileOf[req[r].key]) /\ UNCHANGED faults
     ELSE UNCHANGED cacheVars
  /\ \E plan \in Plans(req[r]) : alive' = [alive EXCEPT ![r] = plan]
  /\ Goto(r, "try")
  /\ UNCHANGED <<lockVars, req, best, seen, sent, respVars>>

-----------------------------------------------------------------------------
(* Forward.                                                                *)

\* Fault: the last definitive answer is remembered, not the first.
ForwardFailsKeepingLast(r) ==
  /\ pc[r] = "try"
  /\ alive[r] # <<>>
  /\ \E definitive \in BOOLEAN :
       LET u == Head(alive[r])
       IN /\ best' = IF definitive THEN [best EXCEPT ![r] = u] ELSE best
          /\ seen' = IF definitive THEN [seen EXCEPT ![r] = @ \cup {u}] ELSE seen
  /\ alive' = [alive EXCEPT ![r] = Tail(@)]
  /\ Send(r)
  /\ UNCHANGED <<lockVars, cacheVars, pc, req, respVars>>

\* Forward returns false: no answer, or a definitive 4xx or 5xx.
ForwardFails(r) ==
  /\ pc[r] = "try"
  /\ alive[r] # <<>>
  /\ \E definitive \in BOOLEAN :
       LET u == Head(alive[r])
       IN /\ best' = IF definitive /\ best[r] = 0 THEN [best EXCEPT ![r] = u] ELSE best
          /\ seen' = IF definitive THEN [seen EXCEPT ![r] = @ \cup {u}] ELSE seen
  /\ alive' = [alive EXCEPT ![r] = Tail(@)]
  /\ Send(r)
  /\ UNCHANGED <<lockVars, cacheVars, pc, req, respVars>>

\* Forward commits a reply that nothing tees (buffered metadata included).
ForwardPlain(r) ==
  /\ pc[r] = "try"
  /\ alive[r] # <<>>
  /\ tee[r].rel = Absent
  /\ Send(r)
  /\ Respond(r, "reply")
  /\ Goto(r, "leaving")
  /\ UNCHANGED <<lockVars, cacheVars, req, alive, best, seen>>

\* Forward commits a reply to the tee and starts to copy it.
ForwardTeed(r) ==
  /\ pc[r] = "try"
  /\ alive[r] # <<>>
  /\ \E p \in Replies : TC!CopyHeaders(r, p)
  /\ Send(r)
  /\ Respond(r, "reply")
  /\ Goto(r, "stream")
  /\ UNCHANGED <<lockVars, faults, req, alive, best, seen>>

Copy(r) ==
  /\ pc[r] = "stream"
  /\ TC!Write(r)
  /\ UNCHANGED <<lockVars, faults, pc, req, raceVars, respVars>>

\* Fault: a download that was cut is retried with the next candidate.
CopyEndsFallingBack(r) ==
  /\ pc[r] = "stream"
  /\ IF tee[r].written = tee[r].reply.size
     THEN TC!Finalize(r, TRUE) /\ Goto(r, "leaving")
     ELSE TC!Finalize(r, FALSE) /\ Goto(r, "try")
  /\ alive' = [alive EXCEPT ![r] = Tail(@)]
  /\ UNCHANGED <<lockVars, faults, req, best, seen, sent, respVars>>

\* The copy ends: with the last byte, or because the upstream, the client or a
\* timeout cut it.  Forward returns true all the same.
CopyEnds(r) ==
  /\ pc[r] = "stream"
  /\ TC!Finalize(r, TRUE)
  /\ Goto(r, "leaving")
  /\ UNCHANGED <<lockVars, faults, req, raceVars, respVars>>

\* Fault: a definitive answer is relayed whatever the method.
ExhaustedRelaysAny(r) ==
  /\ pc[r] = "try"
  /\ alive[r] = <<>>
  /\ IF tee[r].rel = Absent THEN UNCHANGED cacheVars
     ELSE TC!Finalize(r, FALSE) /\ UNCHANGED faults
  /\ IF best[r] # 0
     THEN Goto(r, "relay") /\ UNCHANGED respVars
     ELSE Goto(r, "leaving") /\ Respond(r, "unreachable")
  /\ UNCHANGED <<lockVars, req, raceVars>>

\* Nobody committed a reply.
Exhausted(r) ==
  /\ pc[r] = "try"
  /\ alive[r] = <<>>
  /\ IF tee[r].rel = Absent THEN UNCHANGED cacheVars
     ELSE TC!Finalize(r, FALSE) /\ UNCHANGED faults
  /\ IF req[r].method = "GET" /\ best[r] # 0
     THEN Goto(r, "relay") /\ UNCHANGED respVars
     ELSE Goto(r, "leaving") /\ Respond(r, "unreachable")
  /\ UNCHANGED <<lockVars, req, raceVars>>

\* Fault: an answer that cannot be relayed leaves the client without one.
RelaySilently(r) ==
  /\ pc[r] = "relay"
  /\ Send(r)
  /\ Respond(r, "relayed") \/ UNCHANGED respVars
  /\ Goto(r, "leaving")
  /\ UNCHANGED <<lockVars, cacheVars, req, alive, best, seen>>

\* Relay asks best again and passes on whatever it answers now.
Relay(r) ==
  /\ pc[r] = "relay"
  /\ Send(r)
  /\ Respond(r, "relayed") \/ Respond(r, "relay failed")
  /\ Goto(r, "leaving")
  /\ UNCHANGED <<lockVars, cacheVars, req, alive, best, seen>>

-----------------------------------------------------------------------------
(* The deferred unlock and release.                                        *)

Forget(r) ==
  /\ Goto(r, "idle")
  /\ req' = [req EXCEPT ![r] = Absent]
  /\ alive' = [alive EXCEPT ![r] = <<>>]
  /\ best' = [best EXCEPT ![r] = 0]
  /\ seen' = [seen EXCEPT ![r] = {}]
  /\ sent' = [sent EXCEPT ![r] = 0]
  /\ resp' = [resp EXCEPT ![r] = "nothing"]
  /\ heads' = [heads EXCEPT ![r] = 0]

\* serve returns without having acquired anything.
Leave(r) ==
  /\ pc[r] = "leaving"
  /\ stage[r] = "out"
  /\ Forget(r)
  /\ UNCHANGED <<lockVars, cacheVars>>

\* Fault: the deferred function forgets mu.Unlock.
UnlockForgotten(r) ==
  /\ pc[r] = "leaving"
  /\ stage[r] = "locked"
  /\ stage' = [stage EXCEPT ![r] = "unlocked"]
  /\ Goto(r, "releasing")
  /\ UNCHANGED <<flights, refs, mu, key, entry, cacheVars, req, raceVars, respVars>>

Unlock(r) ==
  /\ pc[r] = "leaving"
  /\ FL!Unlock(r)
  /\ Goto(r, "releasing")
  /\ UNCHANGED <<cacheVars, req, raceVars, respVars>>

Release(r) ==
  /\ pc[r] = "releasing"
  /\ FL!Release(r)
  /\ Forget(r)
  /\ UNCHANGED cacheVars

-----------------------------------------------------------------------------
(* The world around the handlers.                                          *)

Crash ==
  /\ TC!Crash
  /\ FL!Die
  /\ pc' = [r \in Requests |-> "idle"]
  /\ req' = [r \in Requests |-> Absent]
  /\ alive' = [r \in Requests |-> <<>>]
  /\ best' = [r \in Requests |-> 0]
  /\ seen' = [r \in Requests |-> {}]
  /\ sent' = [r \in Requests |-> 0]
  /\ resp' = [r \in Requests |-> "nothing"]
  /\ heads' = [r \in Requests |-> 0]
  /\ UNCHANGED faults

World ==
  /\ \/ TC!New \/ TC!Check
     \/ \E d \in TC!Dirs, f \in Files : TC!Delete(d, f)
  /\ UNCHANGED <<lockVars, faults, pc, req, raceVars, respVars>>

\* A handler goes on by itself; Lock depends on the others.
Step(r) ==
  \/ Search(r) \/ ServeHit(r) \/ Acquire(r) \/ RecheckMisses(r) \/ Capture(r)
  \/ ForwardFails(r) \/ ForwardPlain(r) \/ ForwardTeed(r) \/ Copy(r) \/ CopyEnds(r)
  \/ Exhausted(r) \/ Relay(r) \/ Leave(r) \/ Unlock(r) \/ Release(r)

Next ==
  \/ \E r \in Requests :
       \/ \E q \in Kinds : Arrive(r, q)
       \/ Lock(r)
       \/ Step(r)
  \/ Crash
  \/ World

Spec == Init /\ [][Next]_vars

\* A handler goes on.  For the steps that wait for an upstream or a client this
\* takes the bounds of download.timeout and http.writeTimeout, where they are set.
Fairness == \A r \in Requests : WF_vars(Step(r)) /\ SF_vars(Lock(r))

FairSpec == Spec /\ Fairness

-----------------------------------------------------------------------------
\* A request that is past its last look and not done with the upstreams.
Fetching(r) == /\ pc[r] \in {"capture", "try", "stream", "relay"}
               /\ req[r].key # NoKey

(* "at most one upstream fetch runs at a time per path" (cache.go,         *)
(* Acquire), although handlers come and go and lock entries with them.     *)
OneFetchPerPath ==
  \A r, s \in Requests :
    Fetching(r) /\ Fetching(s) /\ req[r].key = req[s].key => r = s

\* Nothing but this process removes cached files, they can be read, and no two
\* request paths come down to one file.
Undisturbed ==
  /\ Volatile = {} /\ "open" \notin faults
  /\ \A k, l \in Keys : FileOf[k] = FileOf[l] => k = l

(* "concurrent followers wait, then re-check the cache (serving the        *)
(* just-cached file)": a path that is in any cache directory is not        *)
(* fetched, however the lookups, the wait and a download interleave.       *)
NeverRefetched ==
  Undisturbed => \A r \in Requests : Fetching(r) =>
    \A d \in TC!Dirs : disk[d][FileOf[req[r].key]] = Absent

(* The Content-Length of a hit, taken from Stat, is the length of the file *)
(* that Open then found: nothing replaces a file in between.               *)
HitAsAnnounced ==
  Undisturbed => \A r \in Requests :
    look[r].got # Absent => look[r].got.len = look[r].size

(* A request is answered exactly once: a committed reply, even one that is *)
(* cut, is never followed by another candidate's, a relayed answer or a    *)
(* bad gateway, and no path through serve is silent.                       *)
AnsweredOnce ==
  \A r \in Requests :
    /\ heads[r] <= 1
    /\ heads[r] = 0 <=> resp[r] = "nothing"
    /\ pc[r] \in {"leaving", "releasing"} => heads[r] = 1

(* "every reachable upstream agreeing on not found is an answer, not a     *)
(* gateway failure": what is relayed is the answer of the most preferred   *)
(* candidate that had one, and a GET that any candidate answered           *)
(* definitively is not reported as unreachable.                            *)
RelaysPreferred ==
  \A r \in Requests :
    /\ pc[r] = "relay" => /\ best[r] \in seen[r]
                          /\ \A u \in seen[r] : Rank[best[r]] <= Rank[u]
    /\ resp[r] = "unreachable" /\ req[r].method = "GET" => seen[r] = {}

(* "the request body can be consumed only once" (router.go 234-237): a     *)
(* request that is not a GET is sent to one upstream, once, on every path  *)
(* through serve; a GET is sent to each candidate at most once, and once   *)
(* more to relay an answer.                                                *)
SentOnce ==
  \A r \in Requests : pc[r] # "idle" =>
    sent[r] <= IF req[r].method = "GET" THEN req[r].candidates + 1 ELSE 1

(* Where a handler is in serve tells what it holds of the lock table; with *)
(* Flights' invariant, OneFetchPerPath follows.                            *)
Coupled ==
  \A r \in Requests :
    /\ pc[r] \in {"idle", "fast"} => stage[r] = "out"
    /\ pc[r] = "fast" => req[r].key \in Keys
    /\ pc[r] = "waiting" => stage[r] = "waiting"
    /\ pc[r] = "recheck" \/ Fetching(r) => stage[r] = "locked"
    /\ pc[r] = "releasing" => stage[r] = "unlocked"
    /\ stage[r] # "out" => key[r] = req[r].key /\ req[r].key \in Keys

ControlOK ==
  /\ pc \in [Requests -> Points]
  /\ req \in [Requests -> Kinds \cup {Absent}]
  /\ stage \in [Requests -> FL!Stages]
  /\ key \in [Requests -> Keys \cup {NoKey}]

CouplingInv == ControlOK /\ Coupled

(* Every request that arrives is finished with.                            *)
Finishes == \A r \in Requests : pc[r] # "idle" ~> pc[r] = "idle"
=============================================================================
