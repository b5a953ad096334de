---------------------------- MODULE HeadRaceProof ----------------------------
(* What a HEAD race returns and what its rounds may not lose, for every    *)
(* list of upstreams, every number of retries and every order in which     *)
(* probes answer, the timer fires and the client leaves.                   *)
EXTENDS HeadRace, PriorityProof

Upstreams == DOMAIN call.rank

\* The types of the state, its channels' contents included.
Typed ==
  /\ call \in Calls
  /\ pc \in {"between", "racing", "returned"}
  /\ attempt \in 0..(call.retries + 1)
  /\ gone \in BOOLEAN
  /\ probe \in [Attempts -> [Candidates -> {Idle, Flying} \cup Answers]]
  /\ chan \in [Attempts -> Seq(Upstreams)]
  /\ pending \in 0..Count
  /\ firstDone \in BOOLEAN
  /\ healthy \in Seq(Upstreams)
  /\ deadline \in {"first", "grace"}
  /\ fired \in {"none", "first", "grace"}

\* A probe sends one result, of its own HEAD; what is beyond the list of upstreams
\* and what is in a round still to come is idle.
SentOnce ==
  \A a \in Attempts :
    /\ IsInjective(chan[a])
    /\ \A c \in ToSet(chan[a]) : probe[a][c] \in Answers
    /\ \A c \in Candidates \ Upstreams : probe[a][c] = Idle
    /\ a > attempt \/ (a = attempt /\ pc = "between") =>
         chan[a] = <<>> /\ \A c \in Candidates : probe[a][c] = Idle

\* What the round is still to receive.
Awaited == {c \in Upstreams : probe[attempt][c] = Flying \/ c \in ToSet(chan[attempt])}

\* pending counts it, and a success is in the channel until it is in healthy.
Accounted ==
  /\ pc = "racing" => /\ attempt \in 0..call.retries
                      /\ pending = Cardinality(Awaited)
                      /\ ToSet(healthy) \cap ToSet(chan[attempt]) = {}
                      /\ \A c \in Upstreams : probe[attempt][c] = "ok" =>
                           c \in ToSet(healthy) \cup ToSet(chan[attempt])
  /\ pc = "returned" /\ healthy # <<>> => attempt \in 0..call.retries
  /\ IsInjective(healthy)
  /\ \A c \in ToSet(healthy) : probe[attempt][c] = "ok"
  /\ pc = "between" => healthy = <<>>

\* What is returned is the sorted list of successes.
Returned == result = IF pc = "returned" THEN ByPriority(healthy, call.rank) ELSE <<>>

\* The timer has its second duration exactly after a success, and its channel nothing
\* from before.
Timed ==
  /\ deadline = IF firstDone THEN "grace" ELSE "first"
  /\ fired \in {"none", deadline}

IInv == Typed /\ SentOnce /\ Accounted /\ Returned /\ Timed

-----------------------------------------------------------------------------
LEMMA RaceFacts ==
  ASSUME call \in Calls
  PROVE  /\ call.rank \in Seq(Int) /\ call.retries \in Nat /\ Count \in Nat
         /\ Upstreams = 1..Count /\ Upstreams \subseteq Candidates
         /\ 0..call.retries \subseteq Attempts
         /\ Candidates \subseteq Nat /\ Attempts \subseteq Nat
         /\ IsFiniteSet(Upstreams) /\ Cardinality(Upstreams) = Count
         /\ \A c \in Upstreams : call.rank[c] \in Int
<1>1. \A k \in Calls : k.rank \in Seq(Int) /\ k.retries \in Nat
  BY HeadRaceAssumption DEF CallType
<1>2. \A k \in Calls : DOMAIN k.rank = 1..Len(k.rank) /\ Len(k.rank) \in Nat
  BY <1>1, LenProperties
<1>3. call.rank \in Seq(Int) /\ call.retries \in Nat /\ Count \in Nat /\ Upstreams = 1..Count
  BY <1>1, <1>2 DEF Count, Upstreams
<1>4. Upstreams \subseteq Candidates
  BY DEF Upstreams, Candidates
<1>5. 0..call.retries \subseteq Attempts
  BY DEF Attempts
<1>6. Candidates \subseteq Nat
  <2>1. ASSUME NEW c \in Candidates
        PROVE  c \in Nat
    <3>1. PICK k \in Calls : c \in DOMAIN k.rank
      BY DEF Candidates
    <3>2. c \in 1..Len(k.rank) /\ Len(k.rank) \in Nat
      BY <1>2, <3>1
    <3> QED BY <3>2
  <2> QED BY <2>1
<1>7. Attempts \subseteq Nat
  <2>1. ASSUME NEW a \in Attempts
        PROVE  a \in Nat
    <3>1. PICK k \in Calls : a \in 0..k.retries
      BY DEF Attempts
    <3> QED BY <1>1, <3>1
  <2> QED BY <2>1
<1>8. IsFiniteSet(Upstreams) /\ Cardinality(Upstreams) = Count
  <2>1. 1 \in Int /\ Count \in Int
    BY <1>3
  <2>2. IsFiniteSet(1..Count) /\ Cardinality(1..Count) = IF 1 > Count THEN 0 ELSE Count - 1 + 1
    BY <2>1, FS_Interval
  <2> QED BY <1>3, <2>2
<1>9. \A c \in Upstreams : call.rank[c] \in Int
  BY <1>3, ElementOfSeq DEF Count
<1> QED BY <1>3, <1>4, <1>5, <1>6, <1>7, <1>8, <1>9

\* The empty list is sorted.
LEMMA NothingToSort ==
  ASSUME NEW S, NEW rank, \A c \in S : rank[c] \in Int
  PROVE  ByPriority(<<>>, rank) = <<>>
<1>1. <<>> \in Seq(S) /\ Len(<<>>) = 0 /\ DOMAIN <<>> = {}
  BY EmptySeq
<1> DEFINE s == <<>>
<1>2. s \in Seq(S) /\ \A i, j \in DOMAIN s : i # j => s[i] # s[j]
  BY <1>1
<1>3. Len(s) = 0
  BY <1>1
<1> HIDE DEF s
<1>4. ByPriority(s, rank) \in Seq(S) /\ Len(ByPriority(s, rank)) = Len(s)
  BY <1>2, SortedList
<1>5. ByPriority(s, rank) = <<>>
  BY <1>3, <1>4, EmptySeq
<1> QED BY <1>5 DEF s

LEMMA NoList == <<>> \in Seq(Upstreams) /\ ToSet(<<>>) = {} /\ IsInjective(<<>>)
<1>1. <<>> \in Seq(Upstreams) /\ DOMAIN <<>> = {}
  BY EmptySeq
<1> QED BY <1>1 DEF ToSet, IsInjective

LEMMA InitInv == Init => IInv
<1> SUFFICES ASSUME Init
             PROVE  IInv
  OBVIOUS
<1>1. call \in Calls /\ attempt = 0 /\ pending = 0 /\ healthy = <<>> /\ pc = "between"
  BY DEF Init
<1>2. Count \in Nat /\ call.retries \in Nat /\ Attempts \subseteq Nat
  BY <1>1, RaceFacts
<1>3. Typed
  <2>1. probe \in [Attempts -> [Candidates -> {Idle, Flying} \cup Answers]]
    BY DEF Init
  <2>2. chan \in [Attempts -> Seq(Upstreams)]
    BY NoList DEF Init
  <2>3. attempt \in 0..(call.retries + 1) /\ pending \in 0..Count
    BY <1>1, <1>2
  <2> QED BY <1>1, <2>1, <2>2, <2>3, NoList DEF Typed, Init
<1>4. SentOnce
  BY NoList DEF SentOnce, Init
<1>5. Accounted
  BY <1>1, NoList DEF Accounted
<1>6. Returned /\ Timed
  BY DEF Returned, Timed, Init
<1> QED BY <1>3, <1>4, <1>5, <1>6 DEF IInv

LEMMA StartRoundInv == IInv /\ StartRound => IInv'
<1> SUFFICES ASSUME IInv, StartRound
             PROVE  IInv'
  OBVIOUS
<1>1. /\ pc = "between" /\ attempt <= call.retries /\ call \in Calls /\ healthy = <<>>
      /\ attempt \in 0..(call.retries + 1) /\ result = <<>>
      /\ chan \in [Attempts -> Seq(Upstreams)]
      /\ probe \in [Attempts -> [Candidates -> {Idle, Flying} \cup Answers]]
  BY DEF IInv, Typed, Accounted, Returned, StartRound
<1>2. /\ call' = call /\ attempt' = attempt /\ chan' = chan /\ pc' = "racing" /\ gone' = gone
      /\ pending' = Count /\ firstDone' = FALSE /\ healthy' = <<>> /\ deadline' = "first"
      /\ fired' = "none" /\ result' = <<>>
      /\ Upstreams' = Upstreams /\ Count' = Count
  BY <1>1 DEF StartRound, Upstreams, Count
<1>3. /\ call.retries \in Nat /\ Count \in Nat /\ Upstreams = 1..Count
      /\ Upstreams \subseteq Candidates /\ 0..call.retries \subseteq Attempts
      /\ Candidates \subseteq Nat /\ Attempts \subseteq Nat /\ Cardinality(Upstreams) = Count
  BY <1>1, RaceFacts
<1>4. attempt \in 0..call.retries /\ attempt \in Attempts
  BY <1>1, <1>3
<1>5. /\ probe' \in [Attempts -> [Candidates -> {Idle, Flying} \cup Answers]]
      /\ \A c \in Candidates : probe'[attempt][c] = IF c <= Count THEN Flying ELSE Idle
      /\ \A a \in Attempts : a # attempt => probe'[a] = probe[a]
  BY <1>1, <1>4 DEF StartRound
<1>6. Typed'
  <2>1. Count \in 0..Count
    BY <1>3
  <2>2. pending' \in 0..Count'
    BY <1>2, <2>1
  <2> QED BY <1>1, <1>2, <1>5, <2>2, NoList DEF Typed, IInv
<1>7. chan[attempt] = <<>>
  BY <1>1, <1>4 DEF IInv, SentOnce
<1>8. SentOnce'
  <2> SUFFICES ASSUME NEW a \in Attempts
               PROVE  /\ IsInjective(chan[a])
                      /\ \A c \in ToSet(chan[a]) : probe'[a][c] \in Answers
                      /\ \A c \in Candidates \ Upstreams : probe'[a][c] = Idle
                      /\ a > attempt => chan[a] = <<>> /\ \A c \in Candidates : probe'[a][c] = Idle
    BY <1>2 DEF SentOnce
  <2>1. CASE a # attempt
    BY <1>5, <2>1 DEF IInv, SentOnce
  <2>2. CASE a = attempt
    <3>1. \A c \in Candidates \ Upstreams : ~(c <= Count) \/ c = 0
      BY <1>3
    <3>2. 0 \notin Candidates
      <4>1. \A k \in Calls : k.rank \in Seq(Int)
        BY HeadRaceAssumption DEF CallType
      <4>2. \A k \in Calls : DOMAIN k.rank = 1..Len(k.rank)
        BY <4>1, LenProperties
      <4> QED BY <4>2 DEF Candidates
    <3>3. ~(a > attempt)
      BY <1>3, <2>2
    <3> QED BY <1>5, <1>7, <2>2, <3>1, <3>2, <3>3, NoList
  <2> QED BY <2>1, <2>2
<1>9. Accounted'
  <2>1. Awaited' = Upstreams
    <3>1. \A c \in Upstreams : probe'[attempt][c] = Flying
      BY <1>3, <1>5
    <3> QED BY <1>2, <3>1 DEF Awaited
  <2>2. \A c \in Upstreams : probe'[attempt][c] # "ok"
    BY <1>3, <1>5 DEF Flying
  <2> QED BY <1>2, <1>3, <1>4, <2>1, <2>2, NoList DEF Accounted
<1>10. Returned' /\ Timed'
  BY <1>2 DEF Returned, Timed
<1> QED BY <1>6, <1>8, <1>9, <1>10 DEF IInv

LEMMA GiveUpInv == IInv /\ GiveUp => IInv'
<1> SUFFICES ASSUME IInv, GiveUp
             PROVE  IInv'
  OBVIOUS
<1>1. pc = "between" /\ healthy = <<>> /\ result = <<>> /\ call \in Calls
  BY DEF IInv, Typed, Accounted, Returned, GiveUp
<1>2. pc' = "returned" /\ UNCHANGED <<call, attempt, gone, probe, chan, pending, firstDone,
                                      healthy, deadline, fired, result>>
  BY DEF GiveUp
<1>3. Upstreams' = Upstreams /\ Count' = Count /\ Awaited' = Awaited
  BY <1>2 DEF Upstreams, Count, Awaited
<1>4. ByPriority(<<>>, call.rank) = <<>>
  BY <1>1, RaceFacts, NothingToSort
<1>5. Typed'
  BY <1>2, <1>3 DEF IInv, Typed
<1>6. SentOnce'
  BY <1>2, <1>3 DEF IInv, SentOnce
<1>7. Accounted'
  BY <1>1, <1>2, <1>3 DEF IInv, Accounted
<1>8. Returned' /\ Timed'
  BY <1>1, <1>2, <1>4 DEF IInv, Returned, Timed
<1> QED BY <1>5, <1>6, <1>7, <1>8 DEF IInv

\* Steps that touch neither the probes nor what was received of them.
LEMMA IdleInv ==
  ASSUME IInv, gone' \in BOOLEAN, fired' \in {fired, deadline},
         UNCHANGED <<call, pc, attempt, probe, chan, pending, firstDone, healthy,
                     deadline, result>>
  PROVE  IInv'
<1>1. Upstreams' = Upstreams /\ Count' = Count /\ Awaited' = Awaited
  BY DEF Upstreams, Count, Awaited
<1>2. Typed'
  BY <1>1 DEF IInv, Typed
<1>3. SentOnce'
  BY <1>1 DEF IInv, SentOnce
<1>4. Accounted'
  BY <1>1 DEF IInv, Accounted
<1>5. Returned' /\ Timed'
  BY DEF IInv, Returned, Timed
<1> QED BY <1>2, <1>3, <1>4, <1>5 DEF IInv

LEMMA ReplyInv ==
  ASSUME IInv, NEW a \in Attempts, NEW c \in Candidates, NEW answer \in Answers,
         Reply(a, c, answer)
  PROVE  IInv'
<1>1. /\ call \in Calls /\ chan \in [Attempts -> Seq(Upstreams)]
      /\ probe \in [Attempts -> [Candidates -> {Idle, Flying} \cup Answers]]
      /\ attempt \in 0..(call.retries + 1)
  BY DEF IInv, Typed
<1>2. /\ probe[a][c] = Flying
      /\ UNCHANGED <<call, pc, attempt, gone, pending, firstDone, healthy,
                     deadline, fired, result>>
      /\ Upstreams' = Upstreams /\ Count' = Count
  BY DEF Reply, Upstreams, Count
<1>3. /\ probe' \in [Attempts -> [Candidates -> {Idle, Flying} \cup Answers]]
      /\ probe'[a][c] = answer
      /\ \A d \in Candidates : d # c => probe'[a][d] = probe[a][d]
      /\ \A b \in Attempts : b # a => probe'[b] = probe[b]
  BY <1>1 DEF Reply
<1>4. /\ c \in Upstreams /\ c \notin ToSet(chan[a])
      /\ ~(a > attempt \/ (a = attempt /\ pc = "between"))
  BY <1>2 DEF IInv, SentOnce, Idle, Flying, Answers
<1>5. /\ chan[a] \in Seq(Upstreams)
      /\ chan' = [chan EXCEPT ![a] = Append(chan[a], c)]
  BY <1>1 DEF Reply
<1>6. /\ Append(chan[a], c) \in Seq(Upstreams)
      /\ ToSet(Append(chan[a], c)) = ToSet(chan[a]) \cup {c}
      /\ IsInjective(chan[a]) => IsInjective(Append(chan[a], c))
  BY <1>4, <1>5, Appended
<1>7. /\ chan' \in [Attempts -> Seq(Upstreams)]
      /\ ToSet(chan'[a]) = ToSet(chan[a]) \cup {c}
      /\ IsInjective(chan[a]) => IsInjective(chan'[a])
      /\ \A b \in Attempts : b # a => chan'[b] = chan[b]
  <2> DEFINE l == Append(chan[a], c)
  <2>1. /\ l \in Seq(Upstreams) /\ chan' = [chan EXCEPT ![a] = l]
        /\ ToSet(l) = ToSet(chan[a]) \cup {c} /\ (IsInjective(chan[a]) => IsInjective(l))
    BY <1>5, <1>6
  <2> HIDE DEF l
  <2>2. chan'[a] = l
    BY <1>1, <2>1
  <2> QED BY <1>1, <2>1, <2>2
<1>8. Typed'
  BY <1>2, <1>3, <1>7 DEF IInv, Typed
<1>9. SentOnce'
  <2> SUFFICES ASSUME NEW b \in Attempts
               PROVE  /\ IsInjective(chan'[b])
                      /\ \A d \in ToSet(chan'[b]) : probe'[b][d] \in Answers
                      /\ \A d \in Candidates \ Upstreams : probe'[b][d] = Idle
                      /\ b > attempt \/ (b = attempt /\ pc = "between") =>
                           chan'[b] = <<>> /\ \A d \in Candidates : probe'[b][d] = Idle
    BY <1>2 DEF SentOnce
  <2>1. CASE b # a
    BY <1>3, <1>7, <2>1 DEF IInv, SentOnce
  <2>2. CASE b = a
    <3>1. ToSet(chan[a]) \subseteq Candidates
      BY <1>1, <1>5, ListOf, RaceFacts
    <3>2. IsInjective(chan'[a])
      BY <1>7 DEF IInv, SentOnce
    <3>3. \A d \in ToSet(chan'[a]) : probe'[a][d] \in Answers
      BY <1>3, <1>7, <3>1 DEF IInv, SentOnce
    <3>4. \A d \in Candidates \ Upstreams : probe'[a][d] = Idle
      BY <1>3, <1>4 DEF IInv, SentOnce
    <3> QED BY <1>4, <2>2, <3>2, <3>3, <3>4
  <2> QED BY <2>1, <2>2
<1>10. Accounted'
  <2>1. ToSet(healthy) \subseteq Upstreams /\ Upstreams \subseteq Candidates
    BY <1>1, ListOf, RaceFacts DEF IInv, Typed
  <2>2. \A d \in ToSet(healthy) : probe[attempt][d] = "ok"
    BY DEF IInv, Accounted
  <2>3. attempt = a => c \notin ToSet(healthy)
    BY <1>2, <2>2 DEF Flying
  <2>4. ASSUME NEW d \in ToSet(healthy)
        PROVE  probe'[attempt][d] = "ok"
    <3>1. CASE attempt = a
      BY <1>3, <2>1, <2>2, <2>3, <3>1
    <3>2. CASE attempt # a
      <4>1. attempt \in Attempts
        BY <1>1, <2>4, NoList, RaceFacts DEF IInv, Typed, Accounted
      <4> QED BY <1>3, <2>2, <3>2, <4>1
    <3> QED BY <3>1, <3>2
  <2>5. ASSUME pc = "racing"
        PROVE  /\ Awaited' = Awaited
               /\ ToSet(healthy) \cap ToSet(chan'[attempt]) = {}
               /\ \A d \in Upstreams : probe'[attempt][d] = "ok" =>
                    d \in ToSet(healthy) \cup ToSet(chan'[attempt])
    <3>1. attempt \in Attempts
      BY <1>1, <2>5, RaceFacts DEF IInv, Accounted
    <3>2. CASE attempt = a
      <4>1. Awaited' = Awaited
        BY <1>2, <1>3, <1>4, <1>7, <2>1, <3>2 DEF Awaited, Flying, Answers
      <4> QED BY <1>3, <1>4, <1>7, <2>1, <2>3, <2>5, <3>2, <4>1 DEF IInv, Accounted
    <3>3. CASE attempt # a
      <4>1. probe'[attempt] = probe[attempt] /\ chan'[attempt] = chan[attempt]
        BY <1>3, <1>7, <3>1, <3>3
      <4> QED BY <1>2, <2>5, <4>1 DEF IInv, Accounted, Awaited
    <3> QED BY <3>2, <3>3
  <2> QED BY <1>2, <2>4, <2>5 DEF IInv, Accounted
<1>11. Returned' /\ Timed'
  BY <1>2 DEF IInv, Returned, Timed
<1> QED BY <1>8, <1>9, <1>10, <1>11 DEF IInv

LEMMA ReceiveInv == IInv /\ Receive => IInv'
<1> SUFFICES ASSUME IInv, Receive
             PROVE  IInv'
  OBVIOUS
<1> DEFINE q == chan[attempt]
           c == Head(q)
           ok == probe[attempt][c] = "ok"
<1>1. /\ call \in Calls /\ chan \in [Attempts -> Seq(Upstreams)] /\ pc = "racing"
      /\ attempt \in 0..call.retries /\ pending \in 0..Count /\ pending > 0
      /\ pending = Cardinality(Awaited) /\ healthy \in Seq(Upstreams) /\ q # <<>>
  BY DEF IInv, Typed, Accounted, Receive
<1>2. /\ attempt \in Attempts /\ Count \in Nat /\ Attempts \subseteq Nat
      /\ IsFiniteSet(Upstreams)
  BY <1>1, RaceFacts
<1>3. /\ q \in Seq(Upstreams) /\ IsInjective(q) /\ \A d \in ToSet(q) : probe[attempt][d] \in Answers
  BY <1>1, <1>2 DEF IInv, SentOnce
<1>4. /\ UNCHANGED <<call, pc, attempt, gone, probe, result>>
      /\ Upstreams' = Upstreams /\ Count' = Count
      /\ healthy' = IF ok THEN Append(healthy, c) ELSE healthy
      /\ firstDone' = (firstDone \/ ok)
      /\ deadline' = IF ok /\ ~firstDone THEN "grace" ELSE deadline
      /\ fired' = IF ok /\ ~firstDone THEN "none" ELSE fired
      /\ chan' = [chan EXCEPT ![attempt] = Tail(q)]
      /\ pending' = pending - 1
  BY <1>1 DEF Receive, IsHealthy, Upstreams, Count
<1> HIDE DEF ok
<1>5. /\ Tail(q) \in Seq(Upstreams) /\ c \in ToSet(q) /\ ToSet(q) = {c} \cup ToSet(Tail(q))
      /\ IsInjective(Tail(q)) /\ c \notin ToSet(Tail(q)) /\ ToSet(q) \subseteq Upstreams
  BY <1>1, <1>3, Tailed, ListOf
<1> DEFINE t == Tail(q)
<1>6. /\ t \in Seq(Upstreams) /\ c \in ToSet(q) /\ ToSet(q) = {c} \cup ToSet(t)
      /\ IsInjective(t) /\ c \notin ToSet(t) /\ c \in Upstreams
      /\ chan' = [chan EXCEPT ![attempt] = t]
  BY <1>4, <1>5
<1> HIDE DEF t, c
<1>7. /\ chan' \in [Attempts -> Seq(Upstreams)] /\ chan'[attempt] = t
      /\ \A a \in Attempts : a # attempt => chan'[a] = chan[a]
  BY <1>1, <1>2, <1>6
<1>8. /\ ToSet(healthy) \cap ToSet(q) = {} /\ IsInjective(healthy)
      /\ \A d \in ToSet(healthy) : probe[attempt][d] = "ok"
      /\ \A d \in Upstreams : probe[attempt][d] = "ok" => d \in ToSet(healthy) \cup ToSet(q)
  BY <1>1 DEF IInv, Accounted
<1>9. /\ healthy' \in Seq(Upstreams) /\ IsInjective(healthy')
      /\ ToSet(healthy') = IF ok THEN ToSet(healthy) \cup {c} ELSE ToSet(healthy)
  <2>1. CASE ok
    <3>1. healthy' = Append(healthy, c)
      BY <1>4, <2>1 DEF c
    <3>2. c \notin ToSet(healthy)
      BY <1>6, <1>8
    <3>3. /\ Append(healthy, c) \in Seq(Upstreams) /\ IsInjective(Append(healthy, c))
          /\ ToSet(Append(healthy, c)) = ToSet(healthy) \cup {c}
      BY <1>1, <1>6, <1>8, <3>2, Appended
    <3> QED BY <2>1, <3>1, <3>3
  <2>2. CASE ~ok
    BY <1>1, <1>4, <1>8, <2>2
  <2> QED BY <2>1, <2>2
<1>10. Typed'
  <2>1. pending' \in 0..Count'
    BY <1>1, <1>2, <1>4
  <2>2. /\ firstDone' \in BOOLEAN /\ deadline' \in {"first", "grace"}
        /\ fired' \in {"none", "first", "grace"}
    BY <1>4 DEF IInv, Typed
  <2>3. healthy' \in Seq(Upstreams)' /\ chan' \in [Attempts -> Seq(Upstreams)']
    BY <1>4, <1>7, <1>9
  <2> QED BY <1>4, <2>1, <2>2, <2>3 DEF IInv, Typed
<1>11. SentOnce'
  <2> SUFFICES ASSUME NEW b \in Attempts
               PROVE  /\ IsInjective(chan'[b])
                      /\ \A d \in ToSet(chan'[b]) : probe[b][d] \in Answers
                      /\ \A d \in Candidates \ Upstreams : probe[b][d] = Idle
                      /\ b > attempt \/ (b = attempt /\ pc = "between") =>
                           chan'[b] = <<>> /\ \A d \in Candidates : probe[b][d] = Idle
    BY <1>4 DEF SentOnce
  <2>1. CASE b # attempt
    BY <1>7, <2>1 DEF IInv, SentOnce
  <2>2. CASE b = attempt
    <3>1. ~(b > attempt)
      BY <1>2, <2>2
    <3> QED BY <1>1, <1>3, <1>6, <1>7, <2>2, <3>1 DEF IInv, SentOnce
  <2> QED BY <2>1, <2>2
<1>12. Accounted'
  <2>1. c \in Awaited /\ Awaited' = Awaited \ {c}
    <3>1. c \in Awaited
      BY <1>6 DEF Awaited
    <3>2. probe[attempt][c] # Flying
      BY <1>3, <1>6 DEF Flying, Answers
    <3> QED BY <1>4, <1>6, <1>7, <3>1, <3>2 DEF Awaited
  <2>2. pending' = Cardinality(Awaited)'
    <3>1. IsFiniteSet(Awaited)
      BY <1>2, FS_Subset DEF Awaited
    <3>2. Cardinality(Awaited \ {c}) = Cardinality(Awaited) - 1
      BY <2>1, <3>1, FS_RemoveElement
    <3> QED BY <1>1, <1>4, <2>1, <3>2
  <2>3. ToSet(healthy') \cap ToSet(chan'[attempt]) = {}
    BY <1>6, <1>7, <1>8, <1>9
  <2>4. \A d \in Upstreams : probe[attempt][d] = "ok" => d \in ToSet(healthy') \cup ToSet(chan'[attempt])
    BY <1>6, <1>7, <1>8, <1>9 DEF ok
  <2>5. \A d \in ToSet(healthy') : probe[attempt][d] = "ok"
    BY <1>8, <1>9 DEF ok
  <2> QED BY <1>1, <1>4, <1>9, <2>2, <2>3, <2>4, <2>5 DEF Accounted
<1>13. Returned' /\ Timed'
  <2>1. Returned'
    BY <1>1, <1>4 DEF IInv, Returned
  <2>2. Timed'
    BY <1>4 DEF IInv, Typed, Timed
  <2> QED BY <2>1, <2>2
<1> QED BY <1>10, <1>11, <1>12, <1>13 DEF IInv

\* raceHeadOnce returns what it received, and raceHead with it or goes round again.
LEMMA ReturnInv ==
  ASSUME IInv, pc = "racing", NEW found \in Seq(Upstreams), Return(found),
         IsInjective(found), \A c \in ToSet(found) : probe[attempt][c] = "ok",
         UNCHANGED <<call, gone, probe, pending, firstDone, deadline, fired>>,
         chan' = chan \/ chan' = [chan EXCEPT ![attempt] = <<>>]
  PROVE  IInv'
<1>1. /\ call \in Calls /\ chan \in [Attempts -> Seq(Upstreams)]
      /\ attempt \in 0..call.retries /\ result = <<>>
  BY DEF IInv, Typed, Accounted, Returned
<1>2. attempt \in Attempts /\ Attempts \subseteq Nat /\ call.retries \in Nat
  BY <1>1, RaceFacts
<1>3. Upstreams' = Upstreams /\ Count' = Count
  BY DEF Upstreams, Count
<1>4. /\ chan' \in [Attempts -> Seq(Upstreams)]
      /\ \A a \in Attempts : chan'[a] = chan[a] \/ (a = attempt /\ chan'[a] = <<>>)
  BY <1>1, <1>2, NoList
<1>5. /\ healthy' = found
      /\ \/ found # <<>> /\ pc' = "returned" /\ attempt' = attempt
            /\ result' = ByPriority(found, call.rank)
         \/ found = <<>> /\ pc' = "between" /\ attempt' = attempt + 1 /\ result' = result
  BY DEF Return
<1>6. Typed'
  <2>1. attempt' \in 0..(call.retries + 1)
    BY <1>1, <1>2, <1>5
  <2>2. pc' \in {"between", "racing", "returned"}
    BY <1>5
  <2> QED BY <1>3, <1>4, <1>5, <2>1, <2>2 DEF IInv, Typed
<1>7. SentOnce'
  <2> SUFFICES ASSUME NEW b \in Attempts
               PROVE  /\ IsInjective(chan'[b])
                      /\ \A d \in ToSet(chan'[b]) : probe[b][d] \in Answers
                      /\ \A d \in Candidates \ Upstreams : probe[b][d] = Idle
                      /\ b > attempt' \/ (b = attempt' /\ pc' = "between") =>
                           chan'[b] = <<>> /\ \A d \in Candidates : probe[b][d] = Idle
    BY <1>3 DEF SentOnce
  <2>1. b > attempt' \/ (b = attempt' /\ pc' = "between") => b > attempt
    BY <1>2, <1>5
  <2>2. chan[b] = <<>> => chan'[b] = <<>>
    BY <1>4
  <2> QED BY <1>4, <2>1, <2>2, NoList DEF IInv, SentOnce
<1>8. Accounted'
  <2>1. CASE found # <<>>
    BY <1>1, <1>5, <2>1 DEF Accounted
  <2>2. CASE found = <<>>
    BY <1>5, <2>2, NoList DEF Accounted
  <2> QED BY <2>1, <2>2
<1>9. Returned' /\ Timed'
  <2>1. Returned'
    BY <1>1, <1>5 DEF Returned
  <2>2. Timed'
    BY DEF IInv, Timed
  <2> QED BY <2>1, <2>2
<1> QED BY <1>6, <1>7, <1>8, <1>9 DEF IInv

\* What a round has when it ends: every success sent to it.
LEMMA CompleteStep ==
  ASSUME IInv, Complete
  PROVE  IInv' /\ ToSet(healthy') = {c \in Candidates : IsHealthy(c)}
<1>1. /\ call \in Calls /\ healthy \in Seq(Upstreams) /\ pc = "racing" /\ IsInjective(healthy)
      /\ \A c \in ToSet(healthy) : probe[attempt][c] = "ok"
      /\ Cardinality(Awaited) = 0 /\ attempt \in 0..call.retries
      /\ \A c \in Upstreams : probe[attempt][c] = "ok" =>
           c \in ToSet(healthy) \cup ToSet(chan[attempt])
  BY DEF IInv, Typed, Accounted, Complete
<1>2. IsFiniteSet(Upstreams) /\ Upstreams \subseteq Candidates /\ attempt \in Attempts
  BY <1>1, RaceFacts
<1>3. Awaited = {}
  <2>1. IsFiniteSet(Awaited)
    BY <1>2, FS_Subset DEF Awaited
  <2> QED BY <1>1, <2>1, FS_EmptySet
<1>4. IInv'
  BY <1>1, ReturnInv DEF Complete
<1>5. healthy' = healthy
  BY DEF Complete, Return
<1>6. ToSet(healthy) \subseteq Upstreams
  BY <1>1, ListOf
<1>7. \A c \in Candidates : probe[attempt][c] = "ok" => c \in Upstreams
  BY <1>2 DEF IInv, SentOnce, Idle
<1>8. \A c \in Upstreams : probe[attempt][c] = "ok" => c \in ToSet(healthy)
  BY <1>1, <1>3 DEF Awaited
<1> QED BY <1>1, <1>2, <1>4, <1>5, <1>6, <1>7, <1>8 DEF IsHealthy

LEMMA TimeoutStep ==
  ASSUME IInv, Timeout
  PROVE  IInv' /\ ToSet(healthy') = {c \in Candidates : IsHealthy(c)}
<1> DEFINE good == {c \in Candidates : IsHealthy(c)}
           late == Filter(chan[attempt], good)
           found == healthy \o late
<1>1. /\ call \in Calls /\ healthy \in Seq(Upstreams) /\ pc = "racing" /\ IsInjective(healthy)
      /\ \A c \in ToSet(healthy) : probe[attempt][c] = "ok"
      /\ attempt \in 0..call.retries /\ chan \in [Attempts -> Seq(Upstreams)]
      /\ ToSet(healthy) \cap ToSet(chan[attempt]) = {}
      /\ \A c \in Upstreams : probe[attempt][c] = "ok" =>
           c \in ToSet(healthy) \cup ToSet(chan[attempt])
  BY DEF IInv, Typed, Accounted, Timeout
<1>2. Upstreams \subseteq Candidates /\ attempt \in Attempts
  BY <1>1, RaceFacts
<1>3. chan[attempt] \in Seq(Upstreams) /\ IsInjective(chan[attempt])
  BY <1>1, <1>2 DEF IInv, SentOnce
<1>4. /\ Return(found) /\ healthy' = found
      /\ chan' = [chan EXCEPT ![attempt] = <<>>]
      /\ UNCHANGED <<call, gone, probe, pending, firstDone, deadline, fired>>
  BY DEF Timeout, Return
<1> HIDE DEF good
<1>5. /\ late \in Seq(Upstreams) /\ IsInjective(late)
      /\ ToSet(late) = ToSet(chan[attempt]) \cap good
  BY <1>3, Filtered
<1> HIDE DEF late
<1>6. /\ found \in Seq(Upstreams) /\ ToSet(found) = ToSet(healthy) \cup ToSet(late)
      /\ IsInjective(found)
  <2>1. ToSet(healthy) \cap ToSet(late) = {}
    BY <1>1, <1>5
  <2> QED BY <1>1, <1>5, <2>1, Joined
<1>7. \A c \in Candidates : probe[attempt][c] = "ok" => c \in Upstreams
  BY <1>2 DEF IInv, SentOnce, Idle
<1>8. ToSet(healthy) \subseteq Upstreams
  BY <1>1, ListOf
<1>9. ToSet(found) = good
  BY <1>1, <1>2, <1>5, <1>6, <1>7, <1>8 DEF good, IsHealthy
<1> HIDE DEF found
<1>10. \A c \in ToSet(found) : probe[attempt][c] = "ok"
  BY <1>9 DEF good, IsHealthy
<1>11. IInv'
  BY <1>1, <1>4, <1>6, <1>10, ReturnInv
<1> QED BY <1>4, <1>9, <1>11 DEF good

LEMMA NextInv == IInv /\ [Next]_vars => IInv'
<1> SUFFICES ASSUME IInv, [Next]_vars
             PROVE  IInv'
  OBVIOUS
<1>1. CASE StartRound
  BY <1>1, StartRoundInv
<1>2. CASE GiveUp
  BY <1>2, GiveUpInv
<1>3. CASE Disconnect \/ Fire \/ UNCHANGED vars
  <2>1. gone' \in BOOLEAN /\ fired' \in {fired, deadline}
    BY <1>3 DEF Disconnect, Fire, vars, IInv, Typed
  <2>2. UNCHANGED <<call, pc, attempt, probe, chan, pending, firstDone, healthy,
                    deadline, result>>
    BY <1>3 DEF Disconnect, Fire, vars
  <2> QED BY <2>1, <2>2, IdleInv
<1>4. CASE \E a \in Attempts, c \in Candidates, answer \in Answers : Reply(a, c, answer)
  BY <1>4, ReplyInv
<1>5. CASE Receive
  BY <1>5, ReceiveInv
<1>6. CASE Complete
  BY <1>6, CompleteStep
<1>7. CASE Timeout
  BY <1>7, TimeoutStep
<1> QED BY <1>1, <1>2, <1>3, <1>4, <1>5, <1>6, <1>7 DEF Next

\* For any candidates, priorities and retries, and with probes of earlier rounds still
\* about: the parts of a race keep to each other as IInv says (router.go:277-364).
THEOREM RaceInvariant == Spec => []IInv
BY InitInv, NextInv, PTL DEF Spec

-----------------------------------------------------------------------------
\* The state of a race is well typed, and its lists are no longer than the list of
\* upstreams: a channel never has more than one result of each (router.go:300).
THEOREM RaceTypeOK == Spec => []TypeOK
<1>1. ASSUME IInv
      PROVE  TypeOK
  <2>1. /\ call \in Calls /\ chan \in [Attempts -> Seq(Upstreams)] /\ healthy \in Seq(Upstreams)
        /\ IsInjective(healthy)
    BY <1>1 DEF IInv, Typed, Accounted
  <2>2. IsFiniteSet(Upstreams) /\ Cardinality(Upstreams) = Count
        /\ \A c \in Upstreams : call.rank[c] \in Int
    BY <2>1, RaceFacts
  <2>3. ASSUME NEW l \in Seq(Upstreams), IsInjective(l)
        PROVE  Len(l) <= Count /\ ToSet(l) \subseteq Upstreams
    BY <2>2, <2>3, Arrangement, ListOf
  <2>4. \A a \in Attempts : Len(chan[a]) <= Count /\ ToSet(chan[a]) \subseteq Upstreams
    BY <1>1, <2>1, <2>3 DEF IInv, SentOnce
  <2>5. Len(result) <= Count /\ ToSet(result) \subseteq Upstreams
    <3>1. CASE pc = "returned"
      <4>1. \A i, j \in DOMAIN healthy : i # j => healthy[i] # healthy[j]
        BY <2>1 DEF IsInjective
      <4>2. result = ByPriority(healthy, call.rank)
        BY <1>1, <3>1 DEF IInv, Returned
      <4>3. result \in Seq(Upstreams) /\ Len(result) = Len(healthy)
        BY <2>1, <2>2, <4>1, <4>2, SortedList
      <4> QED BY <2>1, <2>3, <4>3, ListOf
    <3>2. CASE pc # "returned"
      <4>1. result = <<>>
        BY <1>1, <3>2 DEF IInv, Returned
      <4>2. IsInjective(<<>>) /\ <<>> \in Seq(Upstreams)
        BY NoList
      <4> QED BY <2>3, <4>1, <4>2
    <3> QED BY <3>1, <3>2
  <2> QED BY <1>1, <2>1, <2>3, <2>4, <2>5 DEF IInv, Typed, TypeOK, Upstreams
<1> QED BY <1>1, RaceInvariant, PTL

\* What raceHead returns: healthy candidates of its last round, each once, preferred
\* first and those of one priority as they answered; which is what the specification
\* of serve assumes of it (router.go:261-275,292-364).
THEOREM RaceReturnsHealthy == Spec => []ReturnsHealthy
<1>1. ASSUME IInv
      PROVE  ReturnsHealthy
  <2> DEFINE s == IF pc = "returned" THEN healthy ELSE <<>>
             rank == call.rank
  <2>1. /\ call \in Calls /\ healthy \in Seq(Upstreams) /\ IsInjective(healthy)
        /\ \A c \in ToSet(healthy) : probe[attempt][c] = "ok"
    BY <1>1 DEF IInv, Typed, Accounted
  <2>2. IsFiniteSet(Upstreams) /\ \A c \in Upstreams : rank[c] \in Int
    BY <2>1, RaceFacts
  <2>3. result = ByPriority(s, rank)
    <3>1. ByPriority(<<>>, rank) = <<>>
      BY <2>2, NothingToSort
    <3> QED BY <1>1, <3>1 DEF IInv, Returned
  <2>4. /\ s \in Seq(Upstreams) /\ IsInjective(s)
        /\ s = healthy \/ DOMAIN s = {}
    <3>1. DOMAIN <<>> = {}
      OBVIOUS
    <3> QED BY <2>1, <3>1, NoList
  <2>5. \A c \in ToSet(s) : probe[attempt][c] = "ok"
    BY <2>1, NoList
  <2> HIDE DEF s
  <2>6. /\ Len(s) \in Nat /\ DOMAIN s = 1..Len(s)
        /\ \A i \in DOMAIN s : s[i] \in Upstreams /\ s[i] \in ToSet(s)
    BY <2>4, ListOf
  <2>7. Ranked(s, rank)
    BY <2>2, <2>6 DEF Ranked
  <2> DEFINE was(k) == Was(s, rank, k)
  <2>8. /\ DOMAIN result = DOMAIN s
        /\ \A k \in DOMAIN s : was(k) \in DOMAIN s /\ result[k] = s[was(k)]
        /\ \A k, m \in DOMAIN s : k < m => Before(s, rank, was(k), was(m))
    BY <2>3, <2>7, StableSort
  <2> HIDE DEF was
  <2>9. \A c \in ToSet(result) : probe[attempt][c] = "ok"
    BY <2>5, <2>6, <2>8 DEF ToSet
  <2>10. IsInjective(result)
    <3> SUFFICES ASSUME NEW i \in DOMAIN s, NEW j \in DOMAIN s, result[i] = result[j], i # j
                 PROVE  FALSE
      BY <2>8 DEF IsInjective
    <3>1. was(i) = was(j)
      BY <2>4, <2>8 DEF IsInjective
    <3>2. i < j \/ j < i
      BY <2>6
    <3> QED BY <2>7, <2>8, <3>1, <3>2, BeforeIsAnOrder
  <2>11. ASSUME NEW i \in DOMAIN result, NEW j \in DOMAIN result, i < j
         PROVE  \/ rank[result[i]] < rank[result[j]]
                \/ /\ rank[result[i]] = rank[result[j]]
                   /\ \E k, l \in DOMAIN healthy :
                        k < l /\ healthy[k] = result[i] /\ healthy[l] = result[j]
    <3>1. s = healthy /\ was(i) \in DOMAIN s /\ was(j) \in DOMAIN s
      BY <2>4, <2>8
    <3>2. Before(s, rank, was(i), was(j)) /\ result[i] = s[was(i)] /\ result[j] = s[was(j)]
      BY <2>8, <2>11
    <3> QED BY <3>1, <3>2 DEF Before
  <2>12. result \in RaceOutcomes(Upstreams, rank)
    <3>1. s \in SetToAllKPermutations(Upstreams)
      BY <2>2, <2>4, Arrangement
    <3> QED BY <2>3, <3>1 DEF RaceOutcomes
  <2> QED BY <2>9, <2>10, <2>11, <2>12 DEF ReturnsHealthy, Upstreams
<1> QED BY <1>1, RaceInvariant, PTL

\* A round that is cut short has waited for as long as it should: until the first
\* deadline when it has no success, and otherwise until the end of the grace period
\* that its first success began, though the first deadline be over and its value in
\* the timer's channel (router.go:312-327,341-350).
THEOREM RaceGraceGranted == Spec => GraceGranted
<1>1. ASSUME IInv, [Next]_vars
      PROVE  [pc = "racing" /\ pc' # "racing" /\ pending > 0
                => fired = IF firstDone THEN "grace" ELSE "first"]_vars
  <2>1. CASE Timeout
    <3>1. fired # "none"
      BY <2>1 DEF Timeout
    <3> QED BY <1>1, <3>1 DEF IInv, Timed
  <2>2. CASE Complete
    BY <2>2 DEF Complete
  <2>3. CASE ~Complete /\ ~Timeout
    BY <1>1, <2>3 DEF Next, vars, StartRound, GiveUp, Disconnect, Reply, Receive, Fire
  <2> QED BY <2>1, <2>2, <2>3
<1> QED BY <1>1, RaceInvariant, PTL DEF Spec, GraceGranted

\* A round that ends has every success that was sent to it (router.go:323-326,352-364).
THEOREM RaceNothingDropped == Spec => NothingDropped
<1>1. ASSUME IInv, [Next]_vars
      PROVE  [pc = "racing" /\ pc' # "racing"
                => ToSet(healthy') = {c \in Candidates : IsHealthy(c)}]_vars
  <2>1. CASE Complete
    BY <1>1, <2>1, CompleteStep
  <2>2. CASE Timeout
    BY <1>1, <2>2, TimeoutStep
  <2>3. CASE ~Complete /\ ~Timeout
    BY <1>1, <2>3 DEF Next, vars, StartRound, GiveUp, Disconnect, Reply, Receive, Fire
  <2> QED BY <2>1, <2>2, <2>3
<1> QED BY <1>1, RaceInvariant, PTL DEF Spec, NothingDropped
=============================================================================
