---------------------------- MODULE FlightsProof ----------------------------
(* The download lock is a mutex per key, for any number of requests, keys  *)
(* and addresses: the inductive invariant IInv, what follows from it, and  *)
(* the refinement of KeyMutex.                                             *)
EXTENDS Flights, FiniteSetTheorems, TLAPS

LEMMA HoldersFinite ==
  ASSUME NEW e
  PROVE  IsFiniteSet(Holders(e)) /\ IsFiniteSet(Holders(e)')
BY FlightsAssumption, FS_Subset DEF Holders

\* A request that holds no entry comes to hold e: e has one holder more.
LEMMA HoldersGrow ==
  ASSUME TypeOK, NEW r \in Requests, NEW e \in Entries,
         entry[r] = NoEntry, entry' = [entry EXCEPT ![r] = e]
  PROVE  /\ Cardinality(Holders(e)') = Cardinality(Holders(e)) + 1
         /\ r \in Holders(e)'
         /\ \A f \in Entries \ {e} : Holders(f)' = Holders(f)
<1>1. r \notin Holders(e) /\ Holders(e)' = Holders(e) \cup {r}
  BY FlightsAssumption DEF Holders, TypeOK
<1>2. \A f \in Entries \ {e} : Holders(f)' = Holders(f)
  BY FlightsAssumption DEF Holders, TypeOK
<1>3. Cardinality(Holders(e) \cup {r}) = Cardinality(Holders(e)) + 1
  BY <1>1, HoldersFinite, FS_AddElement
<1> QED BY <1>1, <1>2, <1>3

\* A holder of e gives it up: e has one holder less.
LEMMA HoldersShrink ==
  ASSUME TypeOK, NEW r \in Requests, NEW e \in Entries,
         entry[r] = e, entry' = [entry EXCEPT ![r] = NoEntry]
  PROVE  /\ Holders(e)' = Holders(e) \ {r}
         /\ Cardinality(Holders(e)') = Cardinality(Holders(e)) - 1
         /\ Cardinality(Holders(e)) \in Nat \ {0}
         /\ \A f \in Entries \ {e} : Holders(f)' = Holders(f)
<1>1. r \in Holders(e) /\ Holders(e)' = Holders(e) \ {r}
  BY FlightsAssumption DEF Holders, TypeOK
<1>2. \A f \in Entries \ {e} : Holders(f)' = Holders(f)
  BY FlightsAssumption DEF Holders, TypeOK
<1>3. Cardinality(Holders(e) \ {r}) = Cardinality(Holders(e)) - 1
  BY <1>1, HoldersFinite, FS_RemoveElement
<1>4. Cardinality(Holders(e)) \in Nat \ {0}
  BY <1>1, HoldersFinite, FS_CardinalityType, FS_EmptySet
<1> QED BY <1>1, <1>2, <1>3, <1>4

\* The reference a request gives up was the last one exactly when nobody else
\* holds the entry.
LEMMA LastReference ==
  ASSUME IInv, NEW r \in Requests, stage[r] # "out"
  PROVE  /\ entry[r] \in Entries
         /\ r \in Holders(entry[r])
         /\ refs[entry[r]] = 1 <=> Holders(entry[r]) = {r}
<1>1. entry[r] \in Entries /\ r \in Holders(entry[r])
  BY DEF IInv, Coherent, Holders
<1>2. refs[entry[r]] = Cardinality(Holders(entry[r]))
  BY <1>1 DEF IInv, RefsAreHolders
<1>3. Cardinality(Holders(entry[r])) = 1 <=> \E x : Holders(entry[r]) = {x}
  BY HoldersFinite, FS_Singleton
<1> QED BY <1>1, <1>2, <1>3

-----------------------------------------------------------------------------
LEMMA InitInv == Init => IInv
<1> SUFFICES ASSUME Init PROVE IInv
  OBVIOUS
<1>1. \A e \in Entries : Holders(e) = {}
  BY FlightsAssumption DEF Init, Holders
<1>2. TypeOK /\ Coherent /\ Injective /\ Interest /\ Exclusive
  BY DEF Init, TypeOK, Coherent, Injective, Interest, Exclusive, Stages
<1>3. RefsAreHolders
  BY <1>1, FS_EmptySet DEF Init, RefsAreHolders
<1> QED BY <1>2, <1>3 DEF IInv

LEMMA AcquireInv ==
  ASSUME IInv, NEW r \in Requests, NEW k \in Keys, Acquire(r, k)
  PROVE  IInv'
<1> USE DEF IInv
<1>0. entry[r] = NoEntry /\ key[r] = NoKey
  BY DEF Acquire, Coherent
<1>1. CASE AcquireFound(r, k)
  <2> DEFINE e == flights[k]
  <2>1. e \in Entries
    BY <1>1 DEF AcquireFound, TypeOK
  <2>2. entry' = [entry EXCEPT ![r] = e] /\ UNCHANGED <<flights, mu>>
    BY <1>1 DEF AcquireFound
  <2>3. TypeOK'
    BY <1>1, <2>1 DEF AcquireFound, Acquire, TypeOK, Stages
  <2>4. /\ Cardinality(Holders(e)') = Cardinality(Holders(e)) + 1
        /\ r \in Holders(e)'
        /\ \A f \in Entries \ {e} : Holders(f)' = Holders(f)
    BY <1>0, <2>1, <2>2, HoldersGrow
  <2>5. Coherent'
    BY <1>0, <1>1, <2>1, <2>2, FlightsAssumption DEF Acquire, Coherent, TypeOK
  <2>6. Injective'
    BY <2>2 DEF Injective
  <2>7. Interest'
    <3> SUFFICES ASSUME NEW l \in Keys, flights[l] # NoEntry
                 PROVE  Holders(flights[l])' # {}
      BY <2>2 DEF Interest, Holders
    <3>1. CASE flights[l] = e
      BY <2>2, <2>4, <3>1 DEF Holders
    <3>2. CASE flights[l] # e
      <4>1. flights[l] \in Entries \ {e}
        BY <3>2 DEF TypeOK
      <4>2. Holders(flights[l]) # {}
        BY DEF Interest
      <4> QED BY <2>2, <2>4, <4>1, <4>2 DEF Holders
    <3> QED BY <3>1, <3>2
  <2>8. RefsAreHolders'
    BY <1>1, <2>1, <2>4 DEF AcquireFound, RefsAreHolders, TypeOK
  <2>9. Exclusive'
    BY <2>2, <2>3, FlightsAssumption DEF Acquire, Exclusive, TypeOK
  <2> QED BY <2>3, <2>5, <2>6, <2>7, <2>8, <2>9
<1>2. CASE AcquireNew(r, k)
  <2>0. PICK e \in Entries :
          /\ ~Reachable(e)
          /\ flights' = [flights EXCEPT ![k] = e]
          /\ refs' = [refs EXCEPT ![e] = 1]
          /\ mu' = [mu EXCEPT ![e] = "free"]
          /\ entry' = [entry EXCEPT ![r] = e]
    BY <1>2 DEF AcquireNew
  <2>1. Holders(e) = {} /\ \A l \in Keys : flights[l] # e
    BY <2>0 DEF Reachable
  <2>2. Cardinality(Holders(e)) = 0
    BY <2>1, FS_EmptySet
  <2>3. TypeOK'
    BY <2>0 DEF Acquire, TypeOK, Stages
  <2>4. /\ Cardinality(Holders(e)') = Cardinality(Holders(e)) + 1
        /\ r \in Holders(e)'
        /\ \A f \in Entries \ {e} : Holders(f)' = Holders(f)
    BY <1>0, <2>0, HoldersGrow
  <2>5. Coherent'
    <3> SUFFICES ASSUME NEW s \in Requests, s # r, stage[s] # "out"
                 PROVE  key[s] # k
      BY <1>0, <2>0, <2>3 DEF Acquire, Coherent, TypeOK
    <3> QED BY <1>2, FlightsAssumption DEF AcquireNew, Coherent
  <2>6. Injective'
    BY <2>0, <2>1 DEF Injective, TypeOK
  <2>7. Interest'
    <3> SUFFICES ASSUME NEW l \in Keys, flights'[l] # NoEntry
                 PROVE  Holders(flights[l])' # {}
      BY DEF Interest
    <3>1. CASE l = k
      BY <2>0, <2>4, <3>1 DEF Holders, TypeOK
    <3>2. CASE l # k
      <4>1. flights'[l] = flights[l] /\ flights[l] \in Entries \ {e}
        BY <2>0, <2>1, <3>2 DEF TypeOK
      <4>2. Holders(flights[l]) # {}
        BY <4>1, FlightsAssumption DEF Interest
      <4> QED BY <2>4, <4>1, <4>2 DEF Holders
    <3> QED BY <3>1, <3>2
  <2>8. RefsAreHolders'
    BY <2>0, <2>2, <2>4 DEF RefsAreHolders, TypeOK
  <2>9. Exclusive'
    <3>1. \A s \in Requests : entry[s] # e
      BY <2>1 DEF Holders
    <3> QED BY <2>0, <3>1 DEF Acquire, Exclusive, TypeOK, Coherent
  <2> QED BY <2>3, <2>5, <2>6, <2>7, <2>8, <2>9
<1> QED BY <1>1, <1>2 DEF Acquire

LEMMA LockInv ==
  ASSUME IInv, NEW r \in Requests, Lock(r) \/ Unlock(r)
  PROVE  IInv'
<1> USE DEF IInv
<1>1. /\ stage[r] \in {"waiting", "locked"}
      /\ UNCHANGED <<flights, refs, key, entry>>
      /\ stage' \in {[stage EXCEPT ![r] = "locked"], [stage EXCEPT ![r] = "unlocked"]}
  BY DEF Lock, Unlock
<1>2. TypeOK'
  BY DEF Lock, Unlock, TypeOK, Stages
<1>3. Coherent' /\ Injective'
  BY <1>1 DEF Coherent, Injective, TypeOK
<1>4. Interest' /\ RefsAreHolders'
  BY <1>1 DEF Interest, RefsAreHolders, Holders
<1>5. entry[r] \in Entries
  BY <1>1 DEF Coherent
<1>6. CASE Lock(r)
  <2>1. \A s \in Requests : stage[s] = "locked" => entry[s] # entry[r]
    BY <1>6 DEF Lock, Exclusive
  <2> QED BY <1>2, <1>3, <1>4, <1>5, <1>6, <2>1 DEF Lock, Exclusive, TypeOK, Coherent
<1>7. CASE Unlock(r)
  <2>1. \A s \in Requests : stage[s] = "locked" /\ s # r => entry[s] # entry[r]
    BY <1>7 DEF Unlock, Exclusive
  <2> QED BY <1>2, <1>3, <1>4, <1>5, <1>7, <2>1 DEF Unlock, Exclusive, TypeOK, Coherent
<1> QED BY <1>6, <1>7

LEMMA ReleaseInv ==
  ASSUME IInv, NEW r \in Requests, Release(r)
  PROVE  IInv'
<1> USE DEF IInv
<1>0. PICK e \in Entries : e = entry[r]
  BY LastReference DEF Release
<1>1. /\ key[r] \in Keys /\ flights[key[r]] = e
      /\ r \in Holders(e)
      /\ refs[e] = 1 <=> Holders(e) = {r}
  BY <1>0, LastReference DEF Release, Coherent
<1>2. /\ Holders(e)' = Holders(e) \ {r}
      /\ Cardinality(Holders(e)') = Cardinality(Holders(e)) - 1
      /\ Cardinality(Holders(e)) \in Nat \ {0}
      /\ \A f \in Entries \ {e} : Holders(f)' = Holders(f)
  BY IInv, <1>0, HoldersShrink DEF Release, Forget
<1>3. TypeOK'
  BY <1>0, <1>1, <1>2 DEF Release, Forget, TypeOK, Stages, RefsAreHolders
<1>4. Coherent'
  <2> SUFFICES ASSUME NEW s \in Requests, s # r, stage[s] # "out"
               PROVE  flights'[key[s]] = flights[key[s]]
    BY <1>3 DEF Release, Forget, Coherent, TypeOK
  <2>1. key[s] \in Keys /\ flights[key[s]] = entry[s]
    BY DEF Coherent
  <2>2. refs[e] = 1 => key[s] # key[r]
    BY <1>0, <1>1, <2>1 DEF Holders
  <2> QED BY <1>0, <1>1, <2>1, <2>2 DEF Release, TypeOK
<1>5. Injective'
  BY <1>0, <1>1 DEF Release, Injective, TypeOK
<1>6. Interest'
  <2> SUFFICES ASSUME NEW l \in Keys, flights'[l] # NoEntry
               PROVE  Holders(flights[l])' # {}
    BY DEF Interest
  <2>1. flights'[l] = flights[l] /\ flights[l] \in Entries
    BY <1>0, <1>1 DEF Release, TypeOK
  <2>2. CASE flights[l] = e
    <3>1. l = key[r]
      BY <1>0, <1>1, <2>2, FlightsAssumption DEF Injective
    <3>2. Holders(e) # {r}
      BY <1>0, <1>1, <2>1, <2>2, <3>1, FlightsAssumption DEF Release, TypeOK
    <3> QED BY <1>0, <1>1, <1>2, <2>1, <2>2, <3>2 DEF Holders
  <2>3. CASE flights[l] # e
    <3>1. Holders(flights[l]) # {}
      BY <2>1, FlightsAssumption DEF Interest
    <3> QED BY <1>2, <2>1, <2>3, <3>1 DEF Holders
  <2> QED BY <2>2, <2>3
<1>7. RefsAreHolders'
  BY <1>0, <1>1, <1>2 DEF Release, RefsAreHolders, TypeOK
<1>8. Exclusive'
  BY DEF Release, Forget, Exclusive, TypeOK, Stages
<1> QED BY <1>3, <1>4, <1>5, <1>6, <1>7, <1>8

LEMMA DieInv == ASSUME Die PROVE IInv'
<1>1. \A e \in Entries : Holders(e)' = {}
  BY FlightsAssumption DEF Die, Holders
<1>2. (TypeOK /\ Coherent /\ Injective /\ Interest /\ Exclusive)'
  BY DEF Die, TypeOK, Coherent, Injective, Interest, Exclusive, Stages
<1>3. RefsAreHolders'
  BY <1>1, FS_EmptySet DEF Die, RefsAreHolders
<1> QED BY <1>2, <1>3 DEF IInv

LEMMA NextInv == IInv /\ [Next]_vars => IInv'
<1> SUFFICES ASSUME IInv, [Next]_vars PROVE IInv'
  OBVIOUS
<1>1. ASSUME NEW r \in Requests, NEW k \in Keys, Acquire(r, k) PROVE IInv'
  BY <1>1, AcquireInv
<1>2. ASSUME NEW r \in Requests, Lock(r) \/ Unlock(r) PROVE IInv'
  BY <1>2, LockInv
<1>3. ASSUME NEW r \in Requests, Release(r) PROVE IInv'
  BY <1>3, ReleaseInv
<1>4. ASSUME Die PROVE IInv'
  BY <1>4, DieInv
<1>5. ASSUME UNCHANGED vars PROVE IInv'
  BY <1>5 DEF vars, IInv, TypeOK, Coherent, Injective, Interest,
              RefsAreHolders, Exclusive, Holders
<1> QED BY <1>1, <1>2, <1>3, <1>4, <1>5 DEF Next

(* Every reachable state of the lock table satisfies the inductive         *)
(* invariant: entries are shared by exactly the requests of one key.       *)
THEOREM Invariance == Spec => []IInv
BY InitInv, NextInv, PTL DEF Spec

(* The variables keep their types; in particular Release (cache.go         *)
(* 163-170) never drives a reference count below zero.                     *)
THEOREM TypeCorrect == Spec => []TypeOK
<1>1. IInv => TypeOK
  BY DEF IInv
<1> QED BY Invariance, <1>1, PTL

(* At most one request at a time holds the lock of a key, although entries *)
(* come, go and are allocated again.                                       *)
THEOREM OneAtATime == Spec => []MutualExclusion
<1>1. IInv => MutualExclusion
  BY DEF IInv, MutualExclusion, Coherent, Exclusive
<1> QED BY Invariance, <1>1, PTL

(* The table has an entry for a key exactly while a request refers to it:  *)
(* it neither grows without bound nor loses an entry that is in use.       *)
THEOREM NoUnboundedGrowth == Spec => []TableIsInterest
<1> SUFFICES IInv => TableIsInterest
  BY Invariance, PTL
<1> SUFFICES ASSUME IInv, NEW k \in Keys
             PROVE  LET interested == {r \in Requests : key[r] = k}
                    IN /\ flights[k] = NoEntry <=> interested = {}
                       /\ \A r \in interested : entry[r] = flights[k]
  BY DEF TableIsInterest
<1>1. \A r \in Requests : key[r] = k => entry[r] = flights[k] /\ entry[r] \in Entries
  BY FlightsAssumption DEF IInv, Coherent
<1>2. ASSUME flights[k] # NoEntry PROVE \E r \in Requests : key[r] = k
  <2>1. PICK r \in Requests : entry[r] = flights[k]
    BY <1>2 DEF IInv, Interest, Holders
  <2>2. key[r] = k
    BY <1>2, <2>1 DEF IInv, Coherent, Injective
  <2> QED BY <2>2
<1> QED BY <1>1, <1>2, FlightsAssumption

-----------------------------------------------------------------------------
LEMMA TurnTaken ==
  ASSUME IInv, NEW r \in Requests, NEW k \in Keys, k = key[r], Lock(r)
  PROVE  Mutex!Enter(r, k)
<1>1. /\ k = key[r] /\ entry[r] = flights[k]
      /\ mu[entry[r]] = "free"
  BY DEF IInv, Coherent, Lock
<1>2. Inside[k] = {}
  <2> SUFFICES ASSUME NEW s \in Requests, stage[s] = "locked", key[s] = k
               PROVE  FALSE
    BY <1>1 DEF Inside
  <2>1. entry[s] = entry[r] /\ mu[entry[s]] = "held"
    BY <1>1 DEF IInv, Coherent, Exclusive
  <2> QED BY <1>1, <2>1
<1>3. r \in Asking[k]
  BY <1>1 DEF Lock, Asking
<1>4. Asking' = [Asking EXCEPT ![k] = @ \ {r}]
  BY <1>1 DEF Lock, Asking, IInv, TypeOK, Stages
<1>5. Inside' = [Inside EXCEPT ![k] = {r}]
  <2> DEFINE locked(l) == {s \in Requests : stage[s] = "locked" /\ key[s] = l}
  <2>1. \A l \in Keys : locked(l)' = IF l = k THEN {r} ELSE locked(l)
    BY <1>1, <1>2 DEF Lock, Inside, IInv, TypeOK, Stages
  <2> QED BY <1>1, <2>1 DEF Inside
<1> QED BY <1>2, <1>3, <1>4, <1>5 DEF Mutex!Enter

LEMMA StepRefines == IInv /\ [Next]_vars => [Mutex!Next]_(Mutex!vars)
<1> SUFFICES ASSUME IInv, [Next]_vars PROVE [Mutex!Next]_(Mutex!vars)
  OBVIOUS
<1> USE DEF Asking, Inside
<1>1. ASSUME NEW r \in Requests, NEW k \in Keys, Acquire(r, k)
      PROVE  Mutex!Ask(r, k)
  <2>1. stage[r] = "out" /\ Mutex!Idle(r)
    BY <1>1 DEF Acquire, Mutex!Idle
  <2>2. Asking' = [Asking EXCEPT ![k] = @ \cup {r}] /\ Inside' = Inside
    BY <1>1 DEF Acquire, IInv, TypeOK, Stages
  <2> QED BY <2>1, <2>2 DEF Mutex!Ask
<1>2. ASSUME NEW r \in Requests, Lock(r)
      PROVE  \E k \in Keys : Mutex!Enter(r, k)
  <2>1. PICK k \in Keys : k = key[r]
    BY <1>2 DEF IInv, Coherent, Lock
  <2> QED BY <1>2, <2>1, TurnTaken
<1>3. ASSUME NEW r \in Requests, Unlock(r)
      PROVE  \E k \in Keys : Mutex!Leave(r, k)
  <2>1. PICK k \in Keys : k = key[r] /\ stage[r] = "locked"
    BY <1>3 DEF IInv, Coherent, Unlock
  <2>2. Asking' = Asking /\ Inside' = [Inside EXCEPT ![k] = @ \ {r}]
    BY <1>3, <2>1 DEF Unlock, IInv, TypeOK, Stages
  <2> QED BY <2>1, <2>2 DEF Mutex!Leave
<1>4. ASSUME NEW r \in Requests, Release(r)
      PROVE  UNCHANGED Mutex!vars
  <2>1. \A s \in Requests : /\ stage'[s] = "waiting" <=> stage[s] = "waiting"
                            /\ stage'[s] = "locked" <=> stage[s] = "locked"
                            /\ stage[s] \in {"waiting", "locked"} => key'[s] = key[s]
    BY <1>4 DEF Release, Forget, IInv, TypeOK, Stages
  <2> QED BY <2>1 DEF Mutex!vars
<1>5. ASSUME Die PROVE Mutex!Reset
  BY <1>5 DEF Die, Mutex!Reset
<1>6. ASSUME UNCHANGED vars PROVE UNCHANGED Mutex!vars
  BY <1>6 DEF vars, Mutex!vars
<1>7. ASSUME Next PROVE Mutex!Next \/ UNCHANGED Mutex!vars
  <2>1. CASE \E r \in Requests, k \in Keys : Acquire(r, k)
    BY <1>1, <2>1 DEF Mutex!Next
  <2>2. CASE \E r \in Requests : Lock(r)
    BY <1>2, <2>2 DEF Mutex!Next
  <2>3. CASE \E r \in Requests : Unlock(r)
    BY <1>3, <2>3 DEF Mutex!Next
  <2>4. CASE \E r \in Requests : Release(r)
    BY <1>4, <2>4
  <2>5. CASE Die
    BY <1>5, <2>5 DEF Mutex!Next
  <2> QED BY <1>7, <2>1, <2>2, <2>3, <2>4, <2>5 DEF Next
<1> QED BY <1>6, <1>7

(* The reference-counted table implements the turns of KeyMutex, so a      *)
(* caller of Acquire may reason with KeyMutex alone.                       *)
THEOREM Refinement == Spec => TakesTurns
<1>1. Init => Mutex!Init
  BY DEF Init, Mutex!Init, Asking, Inside
<1> QED BY Invariance, <1>1, StepRefines, PTL DEF Spec, TakesTurns, Mutex!Spec
=============================================================================
