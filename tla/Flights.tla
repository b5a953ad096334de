------------------------------ MODULE Flights ------------------------------
(***************************************************************************)
(* The per-path download lock of internal/cache: the table                 *)
(* Cache.flights of reference-counted flightEntry mutexes, and the way     *)
(* compiledRoute.serve uses it (Acquire, mu.Lock, deferred mu.Unlock and   *)
(* release).  Acquire and the release closure each run inside fmu, so each *)
(* is one step; locking and unlocking the entry's own mutex are steps of   *)
(* their own, and other requests run between all four.                     *)
(***************************************************************************)
EXTENDS Naturals, FiniteSets

CONSTANTS Requests,  \* the handler goroutines
          Keys,      \* the cache keys
          Entries,   \* the addresses a flightEntry can live at
          NoEntry,   \* no entry: absent from the table, or a nil pointer
          NoKey      \* the closure captured no key

ASSUME FlightsAssumption ==
  /\ IsFiniteSet(Requests)
  /\ NoEntry \notin Entries
  /\ NoKey \notin Keys

VARIABLES flights,   \* Cache.flights, as a function that is NoEntry where absent
          refs,      \* flightEntry.refs
          mu,        \* flightEntry.mu
          stage,     \* where a request is between Acquire and release
          key,       \* the key the release closure captured
          entry      \* the entry the release closure captured

vars == <<flights, refs, mu, stage, key, entry>>

Stages == {"out", "waiting", "locked", "unlocked"}

Init ==
  /\ flights = [k \in Keys |-> NoEntry]
  /\ refs = [e \in Entries |-> 0]
  /\ mu = [e \in Entries |-> "free"]
  /\ stage = [r \in Requests |-> "out"]
  /\ key = [r \in Requests |-> NoKey]
  /\ entry = [r \in Requests |-> NoEntry]

TypeOK ==
  /\ flights \in [Keys -> Entries \cup {NoEntry}]
  /\ refs \in [Entries -> Nat]
  /\ mu \in [Entries -> {"free", "held"}]
  /\ stage \in [Requests -> Stages]
  /\ key \in [Requests -> Keys \cup {NoKey}]
  /\ entry \in [Requests -> Entries \cup {NoEntry}]

-----------------------------------------------------------------------------
\* The requests whose closure holds entry e.
Holders(e) == {r \in Requests : entry[r] = e}

\* Go allocates a new flightEntry at an address nothing refers to.
Reachable(e) == (\E k \in Keys : flights[k] = e) \/ Holders(e) # {}

\* The key's entry is in the table: take a reference to it.
AcquireFound(r, k) ==
  /\ flights[k] # NoEntry
  /\ refs' = [refs EXCEPT ![flights[k]] = @ + 1]
  /\ entry' = [entry EXCEPT ![r] = flights[k]]
  /\ UNCHANGED <<flights, mu>>

\* It is not: put a zero flightEntry there and take the first reference.
AcquireNew(r, k) ==
  /\ flights[k] = NoEntry
  /\ \E e \in Entries :
       /\ ~Reachable(e)
       /\ flights' = [flights EXCEPT ![k] = e]
       /\ refs' = [refs EXCEPT ![e] = 1]
       /\ mu' = [mu EXCEPT ![e] = "free"]
       /\ entry' = [entry EXCEPT ![r] = e]

\* Fault: the key is not looked up, every request gets an entry of its own.
AcquireAlwaysNew(r, k) ==
  /\ stage[r] = "out"
  /\ \E e \in Entries :
       /\ ~Reachable(e)
       /\ flights' = [flights EXCEPT ![k] = e]
       /\ refs' = [refs EXCEPT ![e] = 1]
       /\ mu' = [mu EXCEPT ![e] = "free"]
       /\ entry' = [entry EXCEPT ![r] = e]
  /\ stage' = [stage EXCEPT ![r] = "waiting"]
  /\ key' = [key EXCEPT ![r] = k]

Acquire(r, k) ==
  /\ stage[r] = "out"
  /\ AcquireFound(r, k) \/ AcquireNew(r, k)
  /\ stage' = [stage EXCEPT ![r] = "waiting"]
  /\ key' = [key EXCEPT ![r] = k]

Lock(r) ==
  /\ stage[r] = "waiting"
  /\ mu[entry[r]] = "free"
  /\ mu' = [mu EXCEPT ![entry[r]] = "held"]
  /\ stage' = [stage EXCEPT ![r] = "locked"]
  /\ UNCHANGED <<flights, refs, key, entry>>

\* Fault: a return path that skips mu.Unlock.
UnlockForgotten(r) ==
  /\ stage[r] = "locked"
  /\ stage' = [stage EXCEPT ![r] = "unlocked"]
  /\ UNCHANGED <<flights, refs, mu, key, entry>>

Unlock(r) ==
  /\ stage[r] = "locked"
  /\ mu' = [mu EXCEPT ![entry[r]] = "free"]
  /\ stage' = [stage EXCEPT ![r] = "unlocked"]
  /\ UNCHANGED <<flights, refs, key, entry>>

Forget(r) ==
  /\ stage' = [stage EXCEPT ![r] = "out"]
  /\ key' = [key EXCEPT ![r] = NoKey]
  /\ entry' = [entry EXCEPT ![r] = NoEntry]

\* Fault: the entry is deleted although other requests refer to it.
ReleaseAlwaysDeletes(r) ==
  /\ stage[r] = "unlocked"
  /\ refs' = [refs EXCEPT ![entry[r]] = @ - 1]
  /\ flights' = [flights EXCEPT ![key[r]] = NoEntry]
  /\ Forget(r)
  /\ UNCHANGED mu

\* Fault: the reference count is off by one, so the last release keeps the entry.
ReleaseKeepsLast(r) ==
  /\ stage[r] = "unlocked"
  /\ refs' = [refs EXCEPT ![entry[r]] = @ - 1]
  /\ flights' = IF refs[entry[r]] = 0
                THEN [flights EXCEPT ![key[r]] = NoEntry] ELSE flights
  /\ Forget(r)
  /\ UNCHANGED mu

\* Fault: release() runs twice for one Acquire.
ReleaseTwice(r) ==
  /\ stage[r] = "unlocked"
  /\ refs' = [refs EXCEPT ![entry[r]] = @ - 2]
  /\ flights' = IF refs[entry[r]] = 1
                THEN [flights EXCEPT ![key[r]] = NoEntry] ELSE flights
  /\ Forget(r)
  /\ UNCHANGED mu

Release(r) ==
  /\ stage[r] = "unlocked"
  /\ refs' = [refs EXCEPT ![entry[r]] = @ - 1]
  /\ flights' = IF refs[entry[r]] = 1
                THEN [flights EXCEPT ![key[r]] = NoEntry] ELSE flights
  /\ Forget(r)
  /\ UNCHANGED mu

\* The process dies with every goroutine; the next one starts with no flights.
Die ==
  /\ flights' = [k \in Keys |-> NoEntry]
  /\ refs' = [e \in Entries |-> 0]
  /\ mu' = [e \in Entries |-> "free"]
  /\ stage' = [r \in Requests |-> "out"]
  /\ key' = [r \in Requests |-> NoKey]
  /\ entry' = [r \in Requests |-> NoEntry]

Next ==
  \/ \E r \in Requests :
       \/ \E k \in Keys : Acquire(r, k)
       \/ Lock(r)
       \/ Unlock(r)
       \/ Release(r)
  \/ Die

Spec == Init /\ [][Next]_vars

\* A holder finishes its download and returns.  Go's sync.Mutex hands the lock
\* to a waiter that has starved for a millisecond, so a waiter is not overtaken
\* for ever: strong fairness for Lock.
Fairness == \A r \in Requests :
              /\ WF_vars(Unlock(r))
              /\ WF_vars(Release(r))
              /\ SF_vars(Lock(r))

FairSpec == Spec /\ Fairness

-----------------------------------------------------------------------------
(* At most one request per key is between mu.Lock and mu.Unlock: "at most  *)
(* one upstream fetch runs at a time per path" (cache.go, Acquire).        *)
MutualExclusion ==
  \A r, s \in Requests :
    stage[r] = "locked" /\ stage[s] = "locked" /\ key[r] = key[s] => r = s

(* "No unbounded growth" (cache.go, flightEntry): the table holds an entry *)
(* for a key exactly while some request has acquired that key, and it is   *)
(* the entry that every such request holds.                                *)
TableIsInterest ==
  \A k \in Keys :
    LET interested == {r \in Requests : key[r] = k}
    IN /\ flights[k] = NoEntry <=> interested = {}
       /\ \A r \in interested : entry[r] = flights[k]

(* The reference count of an entry is the number of requests holding it.   *)
RefsAreHolders == \A e \in Entries : refs[e] = Cardinality(Holders(e))

(* Every request that waits for a path's turn stops waiting.               *)
EveryWaiterServed ==
  \A r \in Requests : stage[r] = "waiting" ~> stage[r] # "waiting"

Asking == [k \in Keys |-> {r \in Requests : stage[r] = "waiting" /\ key[r] = k}]
Inside == [k \in Keys |-> {r \in Requests : stage[r] = "locked" /\ key[r] = k}]

(* The table implements the turns that KeyMutex specifies.                 *)
Mutex == INSTANCE KeyMutex WITH asking <- Asking, inside <- Inside
TakesTurns == Mutex!Spec

-----------------------------------------------------------------------------
(* What Init and every step keep, and what MutualExclusion follows from.   *)

\* A request between Acquire and release has a key, and holds that key's entry.
Coherent ==
  \A r \in Requests :
    IF stage[r] = "out"
    THEN entry[r] = NoEntry /\ key[r] = NoKey
    ELSE /\ key[r] \in Keys
         /\ entry[r] \in Entries
         /\ flights[key[r]] = entry[r]

\* Two keys never share an entry.
Injective ==
  \A k, l \in Keys : flights[k] # NoEntry /\ flights[k] = flights[l] => k = l

\* An entry in the table is held by some request.
Interest ==
  \A k \in Keys : flights[k] # NoEntry => Holders(flights[k]) # {}

\* A locked request holds its entry's mutex, alone.
Exclusive ==
  /\ \A r \in Requests : stage[r] = "locked" => mu[entry[r]] = "held"
  /\ \A r, s \in Requests :
       stage[r] = "locked" /\ stage[s] = "locked" /\ entry[r] = entry[s] => r = s

IInv == TypeOK /\ Coherent /\ Injective /\ Interest /\ RefsAreHolders /\ Exclusive
=============================================================================
