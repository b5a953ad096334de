----------------------------- MODULE AnswerProof -----------------------------
(* What a client and the upstreams see of one request, for any number of   *)
(* handlers and candidates: one status line, the request sent no oftener   *)
(* than its body can be read, and the preferred answer relayed.            *)
EXTENDS ServeProof, PriorityProof

\* How often a request may be sent before an answer is relayed.
Bound(q) == IF q.method = "GET" THEN q.candidates ELSE 1

Unsent == {"idle", "fast", "waiting", "recheck", "capture"}
Answered == {"stream", "leaving", "releasing"}

\* Where a handler is in serve tells whether a status line was written.
HeadsOK(r) == IF pc[r] \in Answered THEN heads[r] = 1 /\ resp[r] # "nothing"
              ELSE heads[r] = 0 /\ resp[r] = "nothing"

\* bestDefinitive is the preferred one of the candidates that answered so.
BestOK(r) ==
  /\ seen[r] \subseteq 1..req[r].candidates
  /\ best[r] = 0 => seen[r] = {}
  /\ best[r] # 0 => best[r] \in seen[r] /\ \A u \in seen[r] : Rank[best[r]] <= Rank[u]

\* The candidates to come are not preferred to those that were tried, and there
\* are no more of them than the request may be sent.
AliveOK(r) ==
  /\ alive[r] \in Seq(1..req[r].candidates)
  /\ \A i, j \in DOMAIN alive[r] : i < j => Rank[alive[r][i]] <= Rank[alive[r][j]]
  /\ \A u \in seen[r] : \A i \in DOMAIN alive[r] : Rank[u] <= Rank[alive[r][i]]
  /\ sent[r] + Len(alive[r]) <= Bound(req[r])

HandlerOK(r) ==
  /\ pc[r] \in Points
  /\ pc[r] # "idle" => req[r] \in Kinds
  /\ sent[r] \in Nat
  /\ HeadsOK(r)
  /\ pc[r] \in Unsent => sent[r] = 0 /\ best[r] = 0 /\ seen[r] = {}
  /\ pc[r] = "try" => BestOK(r) /\ AliveOK(r)
  /\ pc[r] = "relay" => BestOK(r) /\ best[r] # 0 /\ req[r].method = "GET"
  /\ pc[r] \in {"stream", "relay"} => sent[r] <= Bound(req[r])
  /\ pc[r] \in {"leaving", "releasing"} =>
       sent[r] <= IF req[r].method = "GET" THEN req[r].candidates + 1 ELSE 1
  /\ resp[r] = "unreachable" /\ req[r].method = "GET" => seen[r] = {}

\* Every variable has a value for each handler.
Shape == /\ DOMAIN pc = Requests /\ DOMAIN req = Requests /\ DOMAIN alive = Requests
         /\ DOMAIN best = Requests /\ DOMAIN seen = Requests /\ DOMAIN sent = Requests
         /\ DOMAIN resp = Requests /\ DOMAIN heads = Requests

HandlersOK == Shape /\ \A r \in Requests : HandlerOK(r)

LEMMA InitHandlersOK == Init => HandlersOK
BY DEF Init, HandlersOK, Shape, HandlerOK, HeadsOK, Points, Unsent, Answered

-----------------------------------------------------------------------------
(* Requests and what Plans gives for them.                                 *)

LEMMA KindsAreTyped ==
  ASSUME NEW q \in Kinds
  PROVE  /\ q.candidates \in Nat \ {0} /\ Bound(q) \in Nat \ {0} /\ Bound(q) <= q.candidates
         /\ \A u \in 1..q.candidates : Rank[u] \in Int
<1>1. q.candidates \in Nat \ {0} /\ Rank \in Seq(Int) /\ q.candidates <= Len(Rank)
  BY ServeAssumption DEF RequestType
<1>2. Len(Rank) \in Nat
  BY <1>1, LenProperties
<1>3. \A u \in 1..q.candidates : Rank[u] \in Int
  BY <1>1, <1>2, ElementOfSeq
<1> QED BY <1>1, <1>3 DEF Bound

\* The candidates to try are sorted, and as many as the request may be sent.
LEMMA PlansAreSorted ==
  ASSUME NEW q \in Kinds, NEW plan \in Plans(q)
  PROVE  /\ plan \in Seq(1..q.candidates) /\ Len(plan) <= Bound(q)
         /\ \A i, j \in DOMAIN plan : i < j => Rank[plan[i]] <= Rank[plan[j]]
<1> DEFINE S == 1..q.candidates
           whole == [i \in S |-> i]
           all == ByPriority(whole, Rank)
<1>1. q.candidates \in Nat \ {0} /\ \A u \in S : Rank[u] \in Int
  BY KindsAreTyped
<1>2. IsFiniteSet(S) /\ Cardinality(S) = q.candidates
  BY <1>1, FS_Interval
<1>3. /\ whole \in Seq(S) /\ Len(whole) = q.candidates
      /\ \A i, j \in DOMAIN whole : i # j => whole[i] # whole[j]
  BY <1>1
<1> HIDE DEF whole
<1>4. /\ all \in Seq(S) /\ Len(all) = q.candidates
      /\ \A i, j \in DOMAIN all : i < j => Rank[all[i]] <= Rank[all[j]]
  BY <1>1, <1>3, SortedList
<1>5. DOMAIN all = S
  BY <1>4, LenProperties
<1> HIDE DEF all
<1>6. CASE q.candidates = 1
  <2>1. plan = <<1>>
    BY <1>6 DEF Plans
  <2> QED BY <2>1, <1>6 DEF Bound
<1>7. CASE q.candidates > 1 /\ q.method = "GET"
  <2>1. plan = all \/ plan \in RaceOutcomes(S, Rank)
    BY <1>7 DEF Plans, all, whole
  <2>2. CASE plan = all
    BY <1>4, <1>7, <2>2 DEF Bound
  <2>3. CASE plan \in RaceOutcomes(S, Rank)
    <3>1. /\ plan \in Seq(S) /\ Len(plan) <= Cardinality(S)
          /\ \A i, j \in DOMAIN plan : i < j => Rank[plan[i]] <= Rank[plan[j]]
      BY <1>1, <1>2, <2>3, OutcomesAreSorted
    <3> QED BY <1>2, <1>7, <3>1 DEF Bound
  <2> QED BY <2>1, <2>2, <2>3
<1>8. CASE q.candidates > 1 /\ q.method # "GET"
  <2>1. plan = <<all[1]>>
    BY <1>8 DEF Plans, all, whole
  <2>2. all[1] \in S
    BY <1>1, <1>4, <1>5, ElementOfSeq
  <2> QED BY <2>1, <2>2, <1>8 DEF Bound
<1> QED BY <1>1, <1>6, <1>7, <1>8

-----------------------------------------------------------------------------
(* A step of one handler leaves the others alone.                          *)

Same(r) == /\ pc'[r] = pc[r] /\ req'[r] = req[r] /\ alive'[r] = alive[r]
           /\ best'[r] = best[r] /\ seen'[r] = seen[r] /\ sent'[r] = sent[r]
           /\ resp'[r] = resp[r] /\ heads'[r] = heads[r]

LEMMA SameHandlerOK ==
  ASSUME NEW r \in Requests, HandlerOK(r), Same(r)
  PROVE  HandlerOK(r)'
BY DEF HandlerOK, Same, HeadsOK, BestOK, AliveOK

LEMMA StepIsLocal ==
  ASSUME Shape, NEW r \in Requests,
         Step(r) \/ Lock(r) \/ \E q \in Kinds : Arrive(r, q)
  PROVE  Shape' /\ \A s \in Requests : s # r => Same(s)
<1> USE DEF Shape, Same, Goto, raceVars, respVars
<1>1. CASE \E q \in Kinds : Arrive(r, q)
  BY <1>1 DEF Arrive
<1>2. CASE Search(r) \/ Copy(r)
  BY <1>2 DEF Search, Copy
<1>3. CASE ServeHit(r)
  BY <1>3 DEF ServeHit, Respond
<1>4. CASE Acquire(r)
  BY <1>4 DEF Acquire
<1>5. CASE Lock(r)
  BY <1>5 DEF Lock
<1>6. CASE RecheckMisses(r)
  BY <1>6 DEF RecheckMisses
<1>7. CASE Capture(r)
  BY <1>7 DEF Capture
<1>8. CASE ForwardFails(r)
  BY <1>8 DEF ForwardFails, Send
<1>9. CASE ForwardPlain(r)
  BY <1>9 DEF ForwardPlain, Send, Respond
<1>10. CASE ForwardTeed(r)
  BY <1>10 DEF ForwardTeed, Send, Respond
<1>11. CASE CopyEnds(r)
  BY <1>11 DEF CopyEnds
<1>12. CASE Exhausted(r)
  BY <1>12 DEF Exhausted, Respond
<1>13. CASE Relay(r)
  BY <1>13 DEF Relay, Send, Respond
<1>14. CASE Unlock(r)
  BY <1>14 DEF Unlock
<1>15. CASE Leave(r)
  BY <1>15 DEF Leave, Forget
<1>16. CASE Release(r)
  BY <1>16 DEF Release, Forget
<1> QED
  BY <1>1, <1>2, <1>3, <1>4, <1>5, <1>6, <1>7, <1>8, <1>9, <1>10, <1>11, <1>12, <1>13,
     <1>14, <1>15, <1>16 DEF Step

-----------------------------------------------------------------------------
(* The steps of a handler.                                                 *)

\* Nothing is sent, answered or tried yet, before and after the step.
LEMMA BeforeSending ==
  ASSUME Shape, NEW r \in Requests, HandlerOK(r), pc[r] \in Unsent, NEW p \in Unsent,
         pc'[r] = p, req'[r] \in Kinds,
         UNCHANGED <<best, seen, sent, resp, heads>>
  PROVE  HandlerOK(r)'
BY DEF HandlerOK, HeadsOK, Unsent, Answered, Points

LEMMA ArriveOK ==
  ASSUME Shape, NEW r \in Requests, HandlerOK(r), NEW q \in Kinds, Arrive(r, q)
  PROVE  HandlerOK(r)'
<1>1. pc[r] \in Unsent /\ pc'[r] \in Unsent /\ req'[r] = q /\ UNCHANGED <<raceVars, respVars>>
  BY DEF Arrive, Goto, Shape, Unsent
<1> QED BY <1>1, BeforeSending DEF raceVars, respVars

LEMMA WaitOK ==
  ASSUME Shape, NEW r \in Requests, HandlerOK(r), Acquire(r) \/ Lock(r) \/ RecheckMisses(r)
  PROVE  HandlerOK(r)'
<1>1. pc[r] \in Unsent /\ pc[r] # "idle" /\ pc'[r] \in Unsent
      /\ UNCHANGED <<req, raceVars, respVars>>
  BY DEF Acquire, Lock, RecheckMisses, Goto, Shape, Unsent
<1>2. req'[r] \in Kinds
  BY <1>1 DEF HandlerOK
<1> QED BY <1>1, <1>2, BeforeSending DEF raceVars, respVars

LEMMA ServeHitOK ==
  ASSUME Shape, NEW r \in Requests, HandlerOK(r), ServeHit(r)
  PROVE  HandlerOK(r)'
<1>1. /\ pc[r] \in Unsent /\ pc[r] # "idle" /\ pc'[r] = "leaving"
      /\ resp'[r] = "hit" /\ heads'[r] = heads[r] + 1 /\ UNCHANGED <<req, raceVars>>
  BY DEF ServeHit, Goto, Respond, Shape, Unsent
<1>2. heads[r] = 0 /\ sent[r] = 0 /\ req[r] \in Kinds
  BY <1>1 DEF HandlerOK, HeadsOK, Unsent, Answered
<1>3. req[r].candidates \in Nat
  BY <1>2, KindsAreTyped
<1> QED BY <1>1, <1>2, <1>3 DEF HandlerOK, HeadsOK, raceVars, Answered, Unsent, Points

LEMMA CaptureOK ==
  ASSUME Shape, NEW r \in Requests, HandlerOK(r), Capture(r)
  PROVE  HandlerOK(r)'
<1>1. PICK plan \in Plans(req[r]) : alive' = [alive EXCEPT ![r] = plan]
  BY DEF Capture
<1>2. /\ pc[r] = "capture" /\ pc'[r] = "try" /\ alive'[r] = plan
      /\ UNCHANGED <<req, best, seen, sent, resp, heads>>
  BY <1>1 DEF Capture, Goto, Shape, respVars
<1>3. /\ req[r] \in Kinds /\ sent[r] = 0 /\ best[r] = 0 /\ seen[r] = {}
      /\ heads[r] = 0 /\ resp[r] = "nothing"
  BY <1>2 DEF HandlerOK, HeadsOK, Unsent, Answered
<1>4. /\ plan \in Seq(1..req[r].candidates) /\ Len(plan) <= Bound(req[r])
      /\ \A i, j \in DOMAIN plan : i < j => Rank[plan[i]] <= Rank[plan[j]]
  BY <1>3, PlansAreSorted
<1>5. Len(plan) \in Nat
  BY <1>4, LenProperties
<1>6. AliveOK(r)'
  BY <1>2, <1>3, <1>4, <1>5 DEF AliveOK
<1>7. BestOK(r)'
  BY <1>2, <1>3 DEF BestOK
<1> QED BY <1>2, <1>3, <1>6, <1>7 DEF HandlerOK, HeadsOK, Unsent, Answered, Points

\* What a handler that has a candidate to try knows of it.
LEMMA HeadOfAlive ==
  ASSUME NEW r \in Requests, HandlerOK(r), pc[r] = "try", alive[r] # <<>>
  PROVE  /\ req[r] \in Kinds /\ BestOK(r)
         /\ Head(alive[r]) \in 1..req[r].candidates
         /\ Tail(alive[r]) \in Seq(1..req[r].candidates)
         /\ Len(alive[r]) \in Nat /\ Len(alive[r]) > 0 /\ Len(Tail(alive[r])) = Len(alive[r]) - 1
         /\ sent[r] \in Nat /\ sent[r] + Len(alive[r]) <= Bound(req[r]) /\ Bound(req[r]) \in Nat
         /\ \A u \in seen[r] : Rank[u] <= Rank[Head(alive[r])]
         /\ \A i \in DOMAIN Tail(alive[r]) : Rank[Head(alive[r])] <= Rank[Tail(alive[r])[i]]
         /\ \A u \in seen[r] : \A i \in DOMAIN Tail(alive[r]) : Rank[u] <= Rank[Tail(alive[r])[i]]
         /\ \A i, j \in DOMAIN Tail(alive[r]) :
              i < j => Rank[Tail(alive[r])[i]] <= Rank[Tail(alive[r])[j]]
<1> DEFINE s == alive[r]
           t == Tail(alive[r])
<1>1. req[r] \in Kinds /\ BestOK(r) /\ AliveOK(r) /\ sent[r] \in Nat
  BY DEF HandlerOK
<1>2. /\ s \in Seq(1..req[r].candidates) /\ sent[r] + Len(s) <= Bound(req[r])
      /\ \A i, j \in DOMAIN s : i < j => Rank[s[i]] <= Rank[s[j]]
      /\ \A u \in seen[r] : \A i \in DOMAIN s : Rank[u] <= Rank[s[i]]
  BY <1>1 DEF AliveOK
<1>3. Bound(req[r]) \in Nat
  BY <1>1, KindsAreTyped
<1>4. DOMAIN s = 1..Len(s) /\ Len(s) \in Nat /\ Len(s) > 0 /\ Head(s) = s[1]
  BY <1>2, LenProperties, EmptySeq
<1>5. /\ Head(s) \in 1..req[r].candidates /\ t \in Seq(1..req[r].candidates)
      /\ Len(t) = Len(s) - 1 /\ \A i \in 1..Len(t) : t[i] = s[i + 1]
  BY <1>2, HeadTailProperties
<1>6. DOMAIN t = 1..Len(t)
  BY <1>5, LenProperties
<1> HIDE DEF s, t
<1>7. \A i \in DOMAIN t : i + 1 \in DOMAIN s /\ t[i] = s[i + 1] /\ 1 < i + 1
  BY <1>4, <1>5, <1>6
<1>8. \A u \in seen[r] : Rank[u] <= Rank[Head(s)]
  BY <1>2, <1>4
<1>9. \A i \in DOMAIN t : Rank[Head(s)] <= Rank[t[i]]
  BY <1>2, <1>4, <1>7
<1>10. \A u \in seen[r] : \A i \in DOMAIN t : Rank[u] <= Rank[t[i]]
  BY <1>2, <1>7
<1>11. \A i, j \in DOMAIN t : i < j => Rank[t[i]] <= Rank[t[j]]
  <2> SUFFICES ASSUME NEW i \in DOMAIN t, NEW j \in DOMAIN t, i < j
               PROVE  Rank[t[i]] <= Rank[t[j]]
    OBVIOUS
  <2>1. i + 1 < j + 1
    BY <1>4, <1>5, <1>6
  <2> QED BY <1>2, <1>7, <2>1
<1> QED BY <1>1, <1>2, <1>3, <1>4, <1>5, <1>8, <1>9, <1>10, <1>11 DEF s, t

LEMMA ForwardFailsOK ==
  ASSUME Shape, NEW r \in Requests, HandlerOK(r), ForwardFails(r)
  PROVE  HandlerOK(r)'
<1> DEFINE u == Head(alive[r])
<1>1. /\ pc[r] = "try" /\ alive[r] # <<>> /\ pc'[r] = "try"
      /\ alive'[r] = Tail(alive[r]) /\ sent'[r] = sent[r] + 1
      /\ UNCHANGED <<req, resp, heads>>
  BY DEF ForwardFails, Shape, Send, respVars
<1>2. \/ /\ best'[r] = IF best[r] = 0 THEN u ELSE best[r]
         /\ seen'[r] = seen[r] \cup {u}
      \/ best'[r] = best[r] /\ seen'[r] = seen[r]
  BY DEF ForwardFails, Shape
<1>3. /\ req[r] \in Kinds /\ BestOK(r)
      /\ u \in 1..req[r].candidates
      /\ Tail(alive[r]) \in Seq(1..req[r].candidates)
      /\ Len(alive[r]) \in Nat /\ Len(Tail(alive[r])) = Len(alive[r]) - 1
      /\ sent[r] \in Nat /\ sent[r] + Len(alive[r]) <= Bound(req[r]) /\ Bound(req[r]) \in Nat
      /\ \A v \in seen[r] : Rank[v] <= Rank[u]
      /\ \A i \in DOMAIN Tail(alive[r]) : Rank[u] <= Rank[Tail(alive[r])[i]]
      /\ \A v \in seen[r] : \A i \in DOMAIN Tail(alive[r]) : Rank[v] <= Rank[Tail(alive[r])[i]]
      /\ \A i, j \in DOMAIN Tail(alive[r]) :
           i < j => Rank[Tail(alive[r])[i]] <= Rank[Tail(alive[r])[j]]
  BY <1>1, HeadOfAlive
<1> HIDE DEF u
<1>4. AliveOK(r)'
  <2> DEFINE t == Tail(alive[r])
  <2>1. /\ t \in Seq(1..req'[r].candidates) /\ alive'[r] = t
        /\ \A i, j \in DOMAIN t : i < j => Rank[t[i]] <= Rank[t[j]]
    BY <1>1, <1>3
  <2>2. sent'[r] + Len(t) <= Bound(req[r])
    BY <1>1, <1>3
  <2>3. \A v \in seen'[r] : \A i \in DOMAIN t : Rank[v] <= Rank[t[i]]
    BY <1>2, <1>3
  <2>4. Bound(req[r])' = Bound(req[r])
    BY <1>1 DEF Bound
  <2> HIDE DEF t
  <2> QED BY <2>1, <2>2, <2>3, <2>4 DEF AliveOK
<1>5. BestOK(r)'
  <2>1. u # 0 /\ Rank[u] \in Int
    BY <1>3, KindsAreTyped
  <2>2. CASE best'[r] = best[r] /\ seen'[r] = seen[r]
    BY <1>1, <1>3, <2>2 DEF BestOK
  <2>3. CASE best[r] = 0 /\ best'[r] = u /\ seen'[r] = seen[r] \cup {u}
    BY <1>1, <1>3, <2>1, <2>3 DEF BestOK
  <2>4. CASE best[r] # 0 /\ best'[r] = best[r] /\ seen'[r] = seen[r] \cup {u}
    BY <1>1, <1>3, <2>1, <2>4 DEF BestOK
  <2> QED BY <1>2, <2>2, <2>3, <2>4
<1>6. HeadsOK(r)' /\ resp'[r] = "nothing"
  BY <1>1 DEF HandlerOK, HeadsOK, Answered
<1> QED BY <1>1, <1>3, <1>4, <1>5, <1>6 DEF HandlerOK, Unsent, Points

LEMMA ForwardOK ==
  ASSUME Shape, NEW r \in Requests, HandlerOK(r), ForwardPlain(r) \/ ForwardTeed(r)
  PROVE  HandlerOK(r)'
<1>1. /\ pc[r] = "try" /\ alive[r] # <<>> /\ pc'[r] \in {"leaving", "stream"}
      /\ sent'[r] = sent[r] + 1 /\ resp'[r] = "reply" /\ heads'[r] = heads[r] + 1
      /\ UNCHANGED <<req, best, seen>>
  BY DEF ForwardPlain, ForwardTeed, Shape, Send, Respond, Goto
<1>2. /\ req[r] \in Kinds /\ Len(alive[r]) \in Nat /\ Len(alive[r]) > 0
      /\ sent[r] \in Nat /\ sent[r] + Len(alive[r]) <= Bound(req[r])
  BY <1>1, HeadOfAlive
<1>3. req[r].candidates \in Nat /\ Bound(req[r]) \in Nat
  BY <1>2, KindsAreTyped
<1>4. sent'[r] \in Nat /\ sent'[r] <= Bound(req[r])
  BY <1>1, <1>2, <1>3
<1>5. HeadsOK(r)'
  BY <1>1 DEF HandlerOK, HeadsOK, Answered
<1>6. sent'[r] <= IF req[r].method = "GET" THEN req[r].candidates + 1 ELSE 1
  BY <1>3, <1>4 DEF Bound
<1>7. Bound(req[r])' = Bound(req[r])
  BY <1>1 DEF Bound
<1> QED BY <1>1, <1>2, <1>4, <1>5, <1>6, <1>7 DEF HandlerOK, Unsent, Points

LEMMA CopyEndsOK ==
  ASSUME Shape, NEW r \in Requests, HandlerOK(r), CopyEnds(r)
  PROVE  HandlerOK(r)'
<1>1. pc[r] = "stream" /\ pc'[r] = "leaving" /\ UNCHANGED <<req, raceVars, respVars>>
  BY DEF CopyEnds, Goto, Shape
<1>2. req[r] \in Kinds /\ sent[r] \in Nat /\ sent[r] <= Bound(req[r])
  BY <1>1 DEF HandlerOK
<1>3. req[r].candidates \in Nat
  BY <1>2, KindsAreTyped
<1>4. sent[r] <= IF req[r].method = "GET" THEN req[r].candidates + 1 ELSE 1
  BY <1>2, <1>3 DEF Bound
<1> QED BY <1>1, <1>2, <1>4
        DEF HandlerOK, HeadsOK, Unsent, Answered, Points, raceVars, respVars

LEMMA ExhaustedOK ==
  ASSUME Shape, NEW r \in Requests, HandlerOK(r), Exhausted(r)
  PROVE  HandlerOK(r)'
<1>1. pc[r] = "try" /\ UNCHANGED <<req, best, seen, sent>>
  BY DEF Exhausted, raceVars
<1>2. /\ req[r] \in Kinds /\ BestOK(r) /\ sent[r] \in Nat
      /\ alive[r] \in Seq(1..req[r].candidates) /\ sent[r] + Len(alive[r]) <= Bound(req[r])
  BY <1>1 DEF HandlerOK, AliveOK
<1>3. Len(alive[r]) \in Nat /\ req[r].candidates \in Nat /\ Bound(req[r]) \in Nat
  BY <1>2, KindsAreTyped, LenProperties
<1>4. sent[r] <= Bound(req[r])
  BY <1>2, <1>3
<1>5. sent[r] <= IF req[r].method = "GET" THEN req[r].candidates + 1 ELSE 1
  BY <1>2, <1>3, <1>4 DEF Bound
<1>6. heads[r] = 0 /\ resp[r] = "nothing"
  BY <1>1 DEF HandlerOK, HeadsOK, Answered
<1>7. CASE req[r].method = "GET" /\ best[r] # 0
  <2>1. pc'[r] = "relay" /\ UNCHANGED <<resp, heads>>
    BY <1>7 DEF Exhausted, Goto, Shape, respVars
  <2>2. BestOK(r)'
    BY <1>1, <1>2 DEF BestOK
  <2>3. Bound(req[r])' = Bound(req[r])
    BY <1>1 DEF Bound
  <2> QED BY <1>1, <1>2, <1>4, <1>6, <1>7, <2>1, <2>2, <2>3
          DEF HandlerOK, HeadsOK, Unsent, Answered, Points
<1>8. CASE ~(req[r].method = "GET" /\ best[r] # 0)
  <2>1. pc'[r] = "leaving" /\ resp'[r] = "unreachable" /\ heads'[r] = 1
    BY <1>6, <1>8 DEF Exhausted, Goto, Shape, Respond
  <2>2. req[r].method = "GET" => seen[r] = {}
    BY <1>2, <1>8 DEF BestOK
  <2> QED BY <1>1, <1>2, <1>5, <2>1, <2>2 DEF HandlerOK, HeadsOK, Unsent, Answered, Points
<1> QED BY <1>7, <1>8

LEMMA RelayOK ==
  ASSUME Shape, NEW r \in Requests, HandlerOK(r), Relay(r)
  PROVE  HandlerOK(r)'
<1>1. /\ pc[r] = "relay" /\ pc'[r] = "leaving" /\ sent'[r] = sent[r] + 1
      /\ resp'[r] \in {"relayed", "relay failed"} /\ heads'[r] = heads[r] + 1
      /\ UNCHANGED <<req, best, seen>>
  BY DEF Relay, Goto, Send, Respond, Shape
<1>2. /\ req[r] \in Kinds /\ req[r].method = "GET" /\ sent[r] \in Nat
      /\ sent[r] <= Bound(req[r]) /\ heads[r] = 0
  BY <1>1 DEF HandlerOK, HeadsOK, Answered
<1>3. req[r].candidates \in Nat
  BY <1>2, KindsAreTyped
<1>4. sent'[r] \in Nat /\ sent'[r] <= req[r].candidates + 1 /\ heads'[r] = 1
  <2>1. sent[r] <= req[r].candidates
    BY <1>2 DEF Bound
  <2>2. heads'[r] = 1
    <3>1. heads'[r] = heads[r] + 1
      BY <1>1
    <3>2. heads[r] = 0
      BY <1>2
    <3> QED BY <3>1, <3>2
  <2>3. \A m, n \in Nat : m <= n => m + 1 \in Nat /\ m + 1 <= n + 1
    OBVIOUS
  <2>4. sent[r] + 1 \in Nat /\ sent[r] + 1 <= req[r].candidates + 1
    BY <1>2, <1>3, <2>1, <2>3
  <2> QED BY <1>1, <2>2, <2>4
<1>5. HeadsOK(r)'
  BY <1>1, <1>4 DEF HeadsOK, Answered
<1>6. req'[r] \in Kinds /\ req'[r] = req[r] /\ resp'[r] # "unreachable"
  BY <1>1, <1>2
<1>7. sent'[r] <= IF req'[r].method = "GET" THEN req'[r].candidates + 1 ELSE 1
  BY <1>2, <1>4, <1>6
<1> QED BY <1>1, <1>4, <1>5, <1>6, <1>7 DEF HandlerOK, Unsent, Points

LEMMA UnlockOK ==
  ASSUME Shape, NEW r \in Requests, HandlerOK(r), Unlock(r)
  PROVE  HandlerOK(r)'
<1>1. pc[r] = "leaving" /\ pc'[r] = "releasing" /\ UNCHANGED <<req, raceVars, respVars>>
  BY DEF Unlock, Goto, Shape
<1> QED BY <1>1 DEF HandlerOK, HeadsOK, Unsent, Answered, Points, raceVars, respVars

LEMMA ForgetOK ==
  ASSUME Shape, NEW r \in Requests, Forget(r)
  PROVE  HandlerOK(r)'
BY DEF Forget, Goto, Shape, HandlerOK, HeadsOK, Unsent, Answered, Points

LEMMA CrashOK ==
  ASSUME Crash
  PROVE  HandlersOK'
BY DEF Crash, HandlersOK, Shape, HandlerOK, HeadsOK, Unsent, Answered, Points

LEMMA StepOK ==
  ASSUME Shape, NEW r \in Requests, HandlerOK(r),
         Step(r) \/ Lock(r) \/ \E q \in Kinds : Arrive(r, q)
  PROVE  HandlerOK(r)'
<1>1. CASE Search(r) \/ Copy(r)
  <2>1. Same(r)
    BY <1>1 DEF Search, Copy, Same, raceVars, respVars
  <2> QED BY <2>1, SameHandlerOK
<1>2. CASE Leave(r) \/ Release(r)
  BY <1>2, ForgetOK DEF Leave, Release
<1> QED
  BY <1>1, <1>2, ArriveOK, WaitOK, ServeHitOK, CaptureOK, ForwardFailsOK, ForwardOK, CopyEndsOK,
     ExhaustedOK, RelayOK, UnlockOK DEF Step

LEMMA NextHandlersOK == HandlersOK /\ [Next]_vars => HandlersOK'
<1> SUFFICES ASSUME HandlersOK, [Next]_vars
             PROVE  HandlersOK'
  OBVIOUS
<1>1. ASSUME NEW r \in Requests, Step(r) \/ Lock(r) \/ \E q \in Kinds : Arrive(r, q)
      PROVE  HandlersOK'
  <2>1. Shape' /\ \A s \in Requests : s # r => Same(s)
    BY <1>1, StepIsLocal DEF HandlersOK
  <2>2. HandlerOK(r)'
    BY <1>1, StepOK DEF HandlersOK
  <2>3. ASSUME NEW s \in Requests, s # r
        PROVE  HandlerOK(s)'
    BY <2>1, <2>3, SameHandlerOK DEF HandlersOK
  <2> QED BY <2>1, <2>2, <2>3 DEF HandlersOK
<1>2. CASE UNCHANGED <<pc, req, raceVars, respVars>>
  <2>1. Shape' /\ \A s \in Requests : Same(s)
    BY <1>2 DEF HandlersOK, Shape, Same, raceVars, respVars
  <2> QED BY <2>1, SameHandlerOK DEF HandlersOK
<1>3. CASE World \/ UNCHANGED vars
  BY <1>2, <1>3 DEF World, vars
<1> QED BY <1>1, <1>3, CrashOK DEF Next

LEMMA HandlersStayOK == Spec => []HandlersOK
BY InitHandlersOK, NextHandlersOK, PTL DEF Spec

-----------------------------------------------------------------------------
(* Consequences.                                                           *)

\* However the candidates answer, fail and are cut, a request gets one status line:
\* none before serve commits or gives up, and none after (router.go:166-252,
\* upstream.go:171-186).
THEOREM OneAnswer == Spec => []AnsweredOnce
<1>1. HandlersOK => AnsweredOnce
  BY DEF HandlersOK, HandlerOK, HeadsOK, AnsweredOnce, Answered
<1> QED BY <1>1, HandlersStayOK, PTL

\* Whatever the race returns and whoever fails, a request that is not a GET, whose
\* body can be read once, goes to one candidate, and a GET to each once and once
\* more to be relayed (router.go:234-242,207-231).
THEOREM NeverSentTwice == Spec => []SentOnce
<1>1. ASSUME HandlersOK, NEW r \in Requests, pc[r] # "idle"
      PROVE  sent[r] <= IF req[r].method = "GET" THEN req[r].candidates + 1 ELSE 1
  <2>1. HandlerOK(r) /\ req[r] \in Kinds /\ sent[r] \in Nat /\ pc[r] \in Points
    BY <1>1 DEF HandlersOK, HandlerOK
  <2>2. req[r].candidates \in Nat /\ Bound(req[r]) \in Nat
    BY <2>1, KindsAreTyped
  <2>3. CASE pc[r] \in Unsent
    BY <2>1, <2>2, <2>3 DEF HandlerOK
  <2>4. CASE pc[r] = "try"
    <3>1. alive[r] \in Seq(1..req[r].candidates) /\ sent[r] + Len(alive[r]) <= Bound(req[r])
      BY <2>1, <2>4 DEF HandlerOK, AliveOK
    <3>2. Len(alive[r]) \in Nat
      BY <3>1, LenProperties
    <3>3. sent[r] <= Bound(req[r])
      BY <2>1, <2>2, <3>1, <3>2
    <3> QED BY <2>1, <2>2, <3>3 DEF Bound
  <2>5. CASE pc[r] \in {"stream", "relay"}
    <3>1. sent[r] <= Bound(req[r])
      BY <2>1, <2>5 DEF HandlerOK
    <3> QED BY <2>1, <2>2, <3>1 DEF Bound
  <2>6. CASE pc[r] \in {"leaving", "releasing"}
    BY <2>1, <2>6 DEF HandlerOK
  <2> QED BY <2>1, <2>3, <2>4, <2>5, <2>6 DEF Points, Unsent
<1>2. HandlersOK => SentOnce
  BY <1>1 DEF SentOnce
<1> QED BY <1>2, HandlersStayOK, PTL

\* However many candidates answered definitively, and in whatever order, the answer
\* relayed is a preferred one's, and a GET that anybody answered is not reported as
\* unreachable (router.go:197-231).
THEOREM PreferredIsRelayed == Spec => []RelaysPreferred
<1>1. HandlersOK => RelaysPreferred
  BY DEF HandlersOK, HandlerOK, BestOK, RelaysPreferred
<1> QED BY <1>1, HandlersStayOK, PTL

-----------------------------------------------------------------------------
(* What a handler keeps has its type: the candidates it remembers or has   *)
(* yet to try are its request's.                                           *)

Texts == {"nothing", "hit", "reply", "relayed", "unreachable", "relay failed"}

Candidates(r) ==
  IF pc[r] = "idle"
  THEN req[r] = Absent /\ best[r] = 0 /\ seen[r] = {} /\ alive[r] = <<>>
  ELSE /\ req[r] \in Kinds
       /\ best[r] \in 0..req[r].candidates
       /\ seen[r] \subseteq 0..req[r].candidates
       /\ alive[r] \in Seq(0..req[r].candidates)

Kept == /\ resp \in [Requests -> Texts]
        /\ sent \in [Requests -> Nat]
        /\ heads \in [Requests -> Nat]
        /\ \A r \in Requests : Candidates(r)

LEMMA InitKept == Init => Kept
BY DEF Init, Kept, Candidates, Texts

\* What Respond and Send write.
LEMMA KeptCounts ==
  ASSUME Kept, NEW r \in Requests,
         \/ UNCHANGED <<sent, resp, heads>>
         \/ sent' = [sent EXCEPT ![r] = 0] /\ resp' = [resp EXCEPT ![r] = "nothing"]
              /\ heads' = [heads EXCEPT ![r] = 0]
         \/ Send(r) /\ UNCHANGED respVars
         \/ sent' = sent /\ \E what \in Texts : Respond(r, what)
         \/ Send(r) /\ \E what \in Texts : Respond(r, what)
  PROVE  /\ resp' \in [Requests -> Texts]
         /\ sent' \in [Requests -> Nat]
         /\ heads' \in [Requests -> Nat]
<1>1. sent' \in [Requests -> Nat]
  BY DEF Kept, Send, respVars
<1>2. heads' \in [Requests -> Nat]
  BY DEF Kept, Respond, respVars
<1>3. resp' \in [Requests -> Texts]
  BY DEF Kept, Respond, respVars, Texts
<1> QED BY <1>1, <1>2, <1>3

LEMMA KeptByStep ==
  ASSUME HandlersOK, Kept, CouplingInv, NEW r \in Requests,
         Step(r) \/ Lock(r) \/ \E q \in Kinds : Arrive(r, q)
  PROVE  Kept'
<1> USE DEF HandlersOK
<1>1. Shape' /\ \A s \in Requests : s # r => Same(s)
  BY StepIsLocal
<1>2. \A s \in Requests : s # r => Candidates(s)'
  BY <1>1 DEF Kept, Candidates, Same
<1>3. /\ Candidates(r)
      /\ DOMAIN pc = Requests /\ DOMAIN req = Requests /\ DOMAIN alive = Requests
      /\ DOMAIN best = Requests /\ DOMAIN seen = Requests
  BY DEF Kept, Shape
<1> USE DEF Goto, raceVars, respVars
<1>4. CASE \E q \in Kinds : Arrive(r, q)
  <2>1. PICK q \in Kinds : Arrive(r, q)
    BY <1>4
  <2>2. /\ pc[r] = "idle" /\ pc'[r] # "idle" /\ req'[r] = q
        /\ UNCHANGED <<best, seen, alive, sent, resp, heads>>
    BY <1>3, <2>1 DEF Arrive
  <2>3. q.candidates \in Nat
    BY KindsAreTyped
  <2>4. best'[r] \in 0..q.candidates /\ alive'[r] \in Seq(0..q.candidates)
    BY <1>3, <2>2, <2>3 DEF Candidates
  <2>5. Candidates(r)'
    BY <1>3, <2>2, <2>4 DEF Candidates
  <2> QED BY <1>2, <2>2, <2>5, KeptCounts DEF Kept
<1>5. ASSUME pc[r] # "idle", pc'[r] # "idle", UNCHANGED <<req, best, seen, alive>>
      PROVE  Candidates(r)'
  BY <1>3, <1>5 DEF Candidates
<1>6. CASE Search(r) \/ Acquire(r) \/ Lock(r) \/ RecheckMisses(r) \/ Copy(r) \/ CopyEnds(r)
           \/ Unlock(r)
  <2>1. /\ pc[r] # "idle" /\ pc'[r] # "idle"
        /\ UNCHANGED <<req, best, seen, alive, sent, resp, heads>>
    BY <1>3, <1>6 DEF Search, Acquire, Lock, RecheckMisses, Copy, CopyEnds, Unlock
  <2> QED BY <1>2, <1>5, <2>1, KeptCounts DEF Kept
<1>7. CASE ServeHit(r)
  <2>1. /\ pc[r] # "idle" /\ pc'[r] # "idle" /\ UNCHANGED <<req, best, seen, alive, sent>>
        /\ Respond(r, "hit") /\ "hit" \in Texts
    BY <1>3, <1>7 DEF ServeHit, Texts
  <2> QED BY <1>2, <1>5, <2>1, KeptCounts DEF Kept
<1>8. CASE Capture(r)
  <2>1. PICK plan \in Plans(req[r]) : alive' = [alive EXCEPT ![r] = plan]
    BY <1>8 DEF Capture
  <2>2. /\ pc[r] # "idle" /\ pc'[r] # "idle" /\ alive'[r] = plan
        /\ UNCHANGED <<req, best, seen, sent, resp, heads>>
    BY <1>3, <1>8, <2>1 DEF Capture
  <2>3. req[r] \in Kinds
    BY <1>3, <2>2 DEF Candidates
  <2>4. plan \in Seq(1..req[r].candidates) /\ req[r].candidates \in Nat
    BY <2>3, PlansAreSorted, KindsAreTyped
  <2>5. plan \in Seq(0..req[r].candidates)
    <3>1. 1..req[r].candidates \subseteq 0..req[r].candidates
      BY <2>4
    <3> QED BY <2>4, <3>1
  <2>6. Candidates(r)'
    BY <1>3, <2>2, <2>5 DEF Candidates
  <2> QED BY <1>2, <2>2, <2>6, KeptCounts DEF Kept
<1>9. CASE ForwardFails(r)
  <2>1. pc[r] = "try" /\ alive[r] # <<>> /\ UNCHANGED <<pc, req, resp, heads>>
    BY <1>9 DEF ForwardFails
  <2>2. /\ alive'[r] = Tail(alive[r])
        /\ best'[r] \in {best[r], Head(alive[r])}
        /\ seen'[r] \subseteq seen[r] \cup {Head(alive[r])}
    BY <1>3, <1>9 DEF ForwardFails
  <2>3. req[r] \in Kinds /\ req[r].candidates \in Nat
    BY <1>3, <2>1, KindsAreTyped DEF Candidates
  <2>4. /\ Head(alive[r]) \in 0..req[r].candidates
        /\ Tail(alive[r]) \in Seq(0..req[r].candidates)
    BY <1>3, <2>1, HeadTailProperties DEF Candidates
  <2>5. Candidates(r)'
    BY <1>3, <2>1, <2>2, <2>3, <2>4 DEF Candidates
  <2>6. Send(r) /\ UNCHANGED respVars
    BY <1>9 DEF ForwardFails
  <2> QED BY <1>2, <2>5, <2>6, KeptCounts DEF Kept
<1>10. CASE ForwardPlain(r) \/ ForwardTeed(r)
  <2>1. /\ pc[r] # "idle" /\ pc'[r] # "idle" /\ UNCHANGED <<req, best, seen, alive>>
        /\ Send(r) /\ Respond(r, "reply") /\ "reply" \in Texts
    BY <1>3, <1>10 DEF ForwardPlain, ForwardTeed, Texts
  <2> QED BY <1>2, <1>5, <2>1, KeptCounts DEF Kept
<1>11. CASE Exhausted(r)
  <2>1. /\ pc[r] # "idle" /\ pc'[r] # "idle" /\ UNCHANGED <<req, best, seen, alive, sent>>
        /\ UNCHANGED <<resp, heads>> \/ Respond(r, "unreachable")
        /\ "unreachable" \in Texts
    BY <1>3, <1>11 DEF Exhausted, Texts
  <2> QED BY <1>2, <1>5, <2>1, KeptCounts DEF Kept
<1>12. CASE Relay(r)
  <2>1. /\ pc[r] # "idle" /\ pc'[r] # "idle" /\ UNCHANGED <<req, best, seen, alive>>
        /\ Send(r)
        /\ Respond(r, "relayed") \/ Respond(r, "relay failed")
        /\ "relayed" \in Texts /\ "relay failed" \in Texts
    BY <1>3, <1>12 DEF Relay, Texts
  <2> QED BY <1>2, <1>5, <2>1, KeptCounts DEF Kept
<1>13. CASE Leave(r) \/ Release(r)
  <2>1. Forget(r)
    BY <1>13 DEF Leave, Release
  <2>2. Candidates(r)'
    BY <1>3, <2>1 DEF Forget, Candidates
  <2> QED BY <1>2, <2>1, <2>2, KeptCounts DEF Kept, Forget
<1> QED
  BY <1>4, <1>6, <1>7, <1>8, <1>9, <1>10, <1>11, <1>12, <1>13 DEF Step

LEMMA NextKept == HandlersOK /\ CouplingInv /\ Kept /\ [Next]_vars => Kept'
<1>1. ASSUME Kept, UNCHANGED <<pc, req, raceVars, respVars>>
      PROVE  Kept'
  BY <1>1 DEF Kept, Candidates, raceVars, respVars
<1>2. Crash => Kept'
  BY DEF Crash, Kept, Candidates, Texts
<1> QED BY <1>1, <1>2, KeptByStep DEF Next, World, vars

\* Whatever the lookups, the lock, the candidates and a crash do, in any order, each
\* part of serve keeps values of its type: a handler that has no request remembers
\* nothing of the last one, and the candidates it has to try, has tried or prefers
\* are its own request's (router.go:126-252).
THEOREM ServeTypeOK == Spec => []TypeOK
<1>1. Kept /\ CouplingInv /\ FL!TypeOK /\ TC!TypeOK => TypeOK
  <2> SUFFICES ASSUME Kept, CouplingInv, FL!TypeOK, TC!TypeOK
               PROVE  TypeOK
    OBVIOUS
  <2>1. pc \in [Requests -> Points] /\ req \in [Requests -> Kinds \cup {Absent}]
    BY DEF CouplingInv, ControlOK
  <2>2. ASSUME NEW r \in Requests
        PROVE  req[r] = Absent <=> pc[r] = "idle"
    BY ServeAssumption DEF Kept, Candidates
  <2>3. ASSUME NEW r \in Requests, pc[r] # "idle"
        PROVE  {best[r]} \cup seen[r] \cup ToSet(alive[r]) \subseteq 0..req[r].candidates
    <3>1. /\ best[r] \in 0..req[r].candidates /\ seen[r] \subseteq 0..req[r].candidates
          /\ alive[r] \in Seq(0..req[r].candidates)
      BY <2>3 DEF Kept, Candidates
    <3>2. ToSet(alive[r]) \subseteq 0..req[r].candidates
      BY <3>1, ListOf
    <3> QED BY <3>1, <3>2
  <2> QED BY <2>1, <2>2, <2>3 DEF TypeOK, Kept, Texts
<1>2. Spec => []Kept
  BY InitKept, NextKept, HandlersStayOK, CouplingInvariance, PTL DEF Spec
<1> QED BY <1>1, <1>2, CouplingInvariance, LockTypes, DiskTypes, PTL
=============================================================================
