---------------------------- MODULE PriorityProof ----------------------------
(* ByPriority is a stable sort: it lists the elements of a sequence, each  *)
(* as often as it is there, by rank, and those of one rank as they were.   *)
(* Before it, what other proofs need of lists: induction over a loop, and  *)
(* the elements of a list that is appended to, joined, cut or filtered.    *)
EXTENDS Priority, FiniteSetTheorems, SequenceTheorems, TLAPS

-----------------------------------------------------------------------------
(* Loops over lists.                                                       *)
\* Induction for a set of naturals.
LEMMA Induction ==
  ASSUME NEW T, 0 \in T, \A n \in Nat : n \in T => n + 1 \in T
  PROVE  Nat \subseteq T
<1> DEFINE Bad == Nat \ T
<1> SUFFICES ASSUME Bad # {}
             PROVE  FALSE
  OBVIOUS
<1>1. PICK x \in Bad : \A y \in Bad : ~(<<y, x>> \in OpToRel(<, Nat))
  <2>1. Bad \subseteq Nat
    OBVIOUS
  <2> HIDE DEF Bad
  <2> QED BY <2>1, NatLessThanWellFounded, WFMin
<1>2. x # 0 /\ x - 1 \in Nat
  OBVIOUS
<1>3. x - 1 \in Bad
  BY <1>2
<1>4. <<x - 1, x>> \in OpToRel(<, Nat)
  BY <1>2 DEF OpToRel
<1> QED BY <1>1, <1>3, <1>4

LEMMA UpTo ==
  ASSUME NEW m \in Nat, NEW T, 0 \in T, \A n \in 1..m : n - 1 \in T => n \in T
  PROVE  \A n \in 0..m : n \in T
<1> DEFINE U == {n \in Nat : n <= m => n \in T}
<1>1. 0 \in U
  OBVIOUS
<1>2. ASSUME NEW n \in Nat, n \in U
      PROVE  n + 1 \in U
  <2> SUFFICES ASSUME n + 1 <= m
               PROVE  n + 1 \in T
    OBVIOUS
  <2>1. n + 1 \in 1..m /\ (n + 1) - 1 = n /\ n \in T
    BY <1>2
  <2> QED BY <2>1
<1> HIDE DEF U
<1>3. Nat \subseteq U
  BY <1>1, <1>2, Induction
<1> QED BY <1>3 DEF U

\* A loop of m turns over data in S, and its data after each of them.
Loops(m, S) == [1..m -> [S -> S]]
Runs(g, base, m, step, S) ==
  g \in [0..m -> S] /\ g[0] = base /\ \A i \in 1..m : g[i] = step[i][g[i - 1]]

LEMMA Loop ==
  ASSUME NEW S, NEW base \in S, NEW m \in Nat, NEW step \in Loops(m, S)
  PROVE  \E g : Runs(g, base, m, step, S)
<1> DEFINE T == {n \in Nat : n <= m => \E g : Runs(g, base, n, step, S)}
<1>1. 0 \in T
  <2>1. Runs([i \in 0..0 |-> base], base, 0, step, S)
    BY DEF Runs
  <2> QED BY <2>1
<1>2. ASSUME NEW n \in Nat, n \in T
      PROVE  n + 1 \in T
  <2> SUFFICES ASSUME n + 1 <= m
               PROVE  \E g : Runs(g, base, n + 1, step, S)
    OBVIOUS
  <2>1. PICK g : Runs(g, base, n, step, S)
    BY <1>2
  <2> DEFINE next == step[n + 1][g[n]]
             h == [i \in 0..(n + 1) |-> IF i = n + 1 THEN next ELSE g[i]]
  <2>2. g \in [0..n -> S] /\ g[0] = base /\ \A i \in 1..n : g[i] = step[i][g[i - 1]]
    BY <2>1 DEF Runs
  <2>3. next \in S
    BY <2>2 DEF Loops
  <2>4. h \in [0..(n + 1) -> S]
    BY <2>2, <2>3
  <2>5. \A i \in 0..n : h[i] = g[i]
    OBVIOUS
  <2>6. h[n + 1] = step[n + 1][h[n]]
    <3>1. h[n + 1] = next /\ h[n] = g[n]
      OBVIOUS
    <3> QED BY <3>1
  <2> HIDE DEF h, next
  <2>7. h[0] = base /\ \A i \in 1..(n + 1) : h[i] = step[i][h[i - 1]]
    BY <2>2, <2>5, <2>6
  <2> QED BY <2>4, <2>7 DEF Runs
<1> HIDE DEF T
<1>3. m \in T
  BY <1>1, <1>2, Induction
<1> QED BY <1>3 DEF T

\* What Filter has collected of s after each of its elements.
FilterBody(s, accepted, f) ==
  [n \in 0..Len(s) |->
     IF n = 0 THEN <<>>
     ELSE IF s[n] \in accepted THEN Append(f[n - 1], s[n]) ELSE f[n - 1]]
Collected(s, accepted) == CHOOSE f : f = FilterBody(s, accepted, f)

LEMMA FilterLoop ==
  ASSUME NEW S, NEW s \in Seq(S), NEW accepted
  PROVE  LET f == Collected(s, accepted)
         IN /\ f[0] = <<>> /\ Filter(s, accepted) = f[Len(s)]
            /\ \A n \in 1..Len(s) :
                 f[n] = IF s[n] \in accepted THEN Append(f[n - 1], s[n]) ELSE f[n - 1]
<1> DEFINE f == Collected(s, accepted)
           step == [n \in 1..Len(s) |-> [d \in Seq(S) |->
                     IF s[n] \in accepted THEN Append(d, s[n]) ELSE d]]
<1>1. Len(s) \in Nat /\ \A n \in 1..Len(s) : s[n] \in S
  BY LenProperties, ElementOfSeq
<1>2. step \in [1..Len(s) -> [Seq(S) -> Seq(S)]]
  BY <1>1, AppendProperties
<1>4. <<>> \in Seq(S)
  BY EmptySeq
<1>5. PICK g : Runs(g, <<>>, Len(s), step, Seq(S))
  <2>1. step \in Loops(Len(s), Seq(S))
    BY <1>2 DEF Loops
  <2> HIDE DEF step
  <2> QED BY <1>1, <1>4, <2>1, Loop
<1>6. ASSUME NEW n \in 1..Len(s)
      PROVE  g[n] = IF s[n] \in accepted THEN Append(g[n - 1], s[n]) ELSE g[n - 1]
  <2>1. g[n - 1] \in Seq(S)
    <3>1. g \in [0..Len(s) -> Seq(S)]
      BY <1>5 DEF Runs
    <3>2. n - 1 \in 0..Len(s)
      BY <1>1
    <3> QED BY <3>1, <3>2
  <2>2. step[n][g[n - 1]] = IF s[n] \in accepted THEN Append(g[n - 1], s[n]) ELSE g[n - 1]
    BY <2>1
  <2> QED BY <1>5, <2>2 DEF Runs
<1> HIDE DEF step
<1>7. g = FilterBody(s, accepted, g)
  <2> DEFINE b == FilterBody(s, accepted, g)
  <2>1. ASSUME NEW n \in 0..Len(s)
        PROVE  g[n] = b[n]
    <3>1. CASE n = 0
      BY <1>1, <1>5, <3>1 DEF FilterBody, Runs
    <3>2. CASE n \in 1..Len(s)
      <4>1. n # 0
        BY <1>1, <3>2
      <4>2. b[n] = IF s[n] \in accepted THEN Append(g[n - 1], s[n]) ELSE g[n - 1]
        BY <4>1 DEF FilterBody
      <4> QED BY <1>6, <3>2, <4>2
    <3> QED BY <1>1, <3>1, <3>2
  <2>2. g = [n \in 0..Len(s) |-> g[n]] /\ b = [n \in 0..Len(s) |-> b[n]]
    BY <1>5 DEF FilterBody, Runs
  <2> HIDE DEF b
  <2>3. g = b
    BY <2>1, <2>2
  <2> QED BY <2>3 DEF b
<1>8. f = FilterBody(s, accepted, f)
  BY <1>7 DEF Collected
<1>9. Filter(s, accepted) = f[Len(s)]
  BY DEF Filter, Collected, FilterBody
<1> HIDE DEF f
<1>10. f[0] = <<>>
  BY <1>1, <1>8 DEF FilterBody
<1>11. ASSUME NEW n \in 1..Len(s)
       PROVE  f[n] = IF s[n] \in accepted THEN Append(f[n - 1], s[n]) ELSE f[n - 1]
  <2>1. n \in 0..Len(s) /\ n # 0
    BY <1>1
  <2> QED BY <1>8, <2>1 DEF FilterBody
<1> QED BY <1>9, <1>10, <1>11 DEF f

-----------------------------------------------------------------------------
(* Lists and the sets of their elements.                                   *)
LEMMA ListOf ==
  ASSUME NEW S, NEW s \in Seq(S)
  PROVE  /\ Len(s) \in Nat /\ DOMAIN s = 1..Len(s) /\ ToSet(s) \subseteq S
         /\ \A i \in DOMAIN s : s[i] \in S /\ s[i] \in ToSet(s)
BY LenProperties, ElementOfSeq DEF ToSet

LEMMA ListNarrowed ==
  ASSUME NEW S, NEW s \in Seq(S), NEW t, ToSet(s) \subseteq t
  PROVE  s \in Seq(t)
<1>1. Len(s) \in Nat /\ DOMAIN s = 1..Len(s) /\ \A i \in DOMAIN s : s[i] \in t
  BY ListOf DEF ToSet
<1>2. s = [i \in 1..Len(s) |-> s[i]]
  BY LenProperties
<1>3. s \in [1..Len(s) -> t]
  BY <1>1, <1>2
<1> QED BY <1>1, <1>3

LEMMA Appended ==
  ASSUME NEW S, NEW s \in Seq(S), NEW e \in S
  PROVE  LET o == Append(s, e)
         IN /\ o \in Seq(S) /\ Len(o) = Len(s) + 1 /\ ToSet(o) = ToSet(s) \cup {e}
            /\ IsInjective(s) /\ e \notin ToSet(s) => IsInjective(o)
            /\ \A i \in DOMAIN s : o[i] = s[i]
            /\ o[Len(s) + 1] = e
<1> DEFINE o == Append(s, e)
<1>1. Len(s) \in Nat /\ DOMAIN s = 1..Len(s) /\ \A i \in DOMAIN s : s[i] \in ToSet(s)
  BY ListOf
<1>2. /\ o \in Seq(S) /\ Len(o) = Len(s) + 1 /\ DOMAIN o = 1..(Len(s) + 1)
      /\ o[Len(s) + 1] = e /\ \A i \in 1..Len(s) : o[i] = s[i]
  BY AppendProperties, LenProperties
<1> HIDE DEF o
<1>3. ToSet(o) = ToSet(s) \cup {e}
  <2>1. ASSUME NEW x \in ToSet(o)
        PROVE  x \in ToSet(s) \cup {e}
    <3>1. PICK i \in 1..(Len(s) + 1) : x = o[i]
      BY <1>2 DEF ToSet
    <3>2. i \in 1..Len(s) \/ i = Len(s) + 1
      BY <1>1
    <3> QED BY <1>1, <1>2, <3>1, <3>2
  <2>2. ASSUME NEW x \in ToSet(s)
        PROVE  x \in ToSet(o)
    <3>1. PICK i \in 1..Len(s) : x = s[i]
      BY <1>1 DEF ToSet
    <3>2. i \in DOMAIN o /\ o[i] = x
      BY <1>1, <1>2, <3>1
    <3> QED BY <3>2 DEF ToSet
  <2>3. e \in ToSet(o)
    <3>1. Len(s) + 1 \in DOMAIN o
      BY <1>1, <1>2
    <3> QED BY <1>2, <3>1 DEF ToSet
  <2> QED BY <2>1, <2>2, <2>3
<1>4. ASSUME IsInjective(s), e \notin ToSet(s)
      PROVE  IsInjective(o)
  <2> SUFFICES ASSUME NEW i \in DOMAIN o, NEW j \in DOMAIN o, o[i] = o[j]
               PROVE  i = j
    BY DEF IsInjective
  <2>1. (i \in 1..Len(s) \/ i = Len(s) + 1) /\ (j \in 1..Len(s) \/ j = Len(s) + 1)
    BY <1>1, <1>2
  <2>2. CASE i \in 1..Len(s) /\ j \in 1..Len(s)
    BY <1>1, <1>2, <1>4, <2>2 DEF IsInjective
  <2>3. CASE i \in 1..Len(s) /\ j = Len(s) + 1
    BY <1>1, <1>2, <1>4, <2>3
  <2>4. CASE i = Len(s) + 1 /\ j \in 1..Len(s)
    BY <1>1, <1>2, <1>4, <2>4
  <2> QED BY <2>1, <2>2, <2>3, <2>4
<1> QED BY <1>1, <1>2, <1>3, <1>4 DEF o

LEMMA Joined ==
  ASSUME NEW S, NEW s \in Seq(S), NEW t \in Seq(S)
  PROVE  LET o == s \o t
         IN /\ o \in Seq(S) /\ Len(o) = Len(s) + Len(t) /\ ToSet(o) = ToSet(s) \cup ToSet(t)
            /\ IsInjective(s) /\ IsInjective(t) /\ ToSet(s) \cap ToSet(t) = {} => IsInjective(o)
<1> DEFINE o == s \o t
<1>1. /\ Len(s) \in Nat /\ DOMAIN s = 1..Len(s) /\ \A i \in DOMAIN s : s[i] \in ToSet(s)
      /\ Len(t) \in Nat /\ DOMAIN t = 1..Len(t) /\ \A i \in DOMAIN t : t[i] \in ToSet(t)
  BY ListOf
<1>2. /\ o \in Seq(S) /\ Len(o) = Len(s) + Len(t)
      /\ \A i \in 1..(Len(s) + Len(t)) : o[i] = IF i <= Len(s) THEN s[i] ELSE t[i - Len(s)]
  BY ConcatProperties
<1>3. DOMAIN o = 1..(Len(s) + Len(t))
  BY <1>2, LenProperties
<1> HIDE DEF o
<1>4. ASSUME NEW i \in DOMAIN o
      PROVE  \/ i \in DOMAIN s /\ o[i] = s[i]
             \/ i - Len(s) \in DOMAIN t /\ o[i] = t[i - Len(s)]
  <2>1. i \in 1..Len(s) \/ (~(i <= Len(s)) /\ i - Len(s) \in 1..Len(t))
    BY <1>1, <1>3
  <2> QED BY <1>1, <1>2, <1>3, <2>1
<1>5. ToSet(o) = ToSet(s) \cup ToSet(t)
  <2>1. ASSUME NEW x \in ToSet(o)
        PROVE  x \in ToSet(s) \cup ToSet(t)
    BY <1>1, <1>4 DEF ToSet
  <2>2. ASSUME NEW x \in ToSet(s)
        PROVE  x \in ToSet(o)
    <3>1. PICK i \in 1..Len(s) : x = s[i]
      BY <1>1 DEF ToSet
    <3>2. i \in DOMAIN o /\ o[i] = x
      BY <1>1, <1>2, <1>3, <3>1
    <3> QED BY <3>2 DEF ToSet
  <2>3. ASSUME NEW x \in ToSet(t)
        PROVE  x \in ToSet(o)
    <3>1. PICK i \in 1..Len(t) : x = t[i]
      BY <1>1 DEF ToSet
    <3>2. i + Len(s) \in DOMAIN o /\ ~(i + Len(s) <= Len(s)) /\ (i + Len(s)) - Len(s) = i
      BY <1>1, <1>3
    <3>3. o[i + Len(s)] = x
      BY <1>2, <1>3, <3>1, <3>2
    <3> QED BY <3>2, <3>3 DEF ToSet
  <2> QED BY <2>1, <2>2, <2>3
<1>6. ASSUME IsInjective(s), IsInjective(t), ToSet(s) \cap ToSet(t) = {}
      PROVE  IsInjective(o)
  <2> SUFFICES ASSUME NEW i \in DOMAIN o, NEW j \in DOMAIN o, o[i] = o[j]
               PROVE  i = j
    BY DEF IsInjective
  <2>1. i \in Int /\ j \in Int
    BY <1>1, <1>3
  <2>2. CASE i \in DOMAIN s /\ o[i] = s[i] /\ j \in DOMAIN s /\ o[j] = s[j]
    BY <1>6, <2>2 DEF IsInjective
  <2>3. CASE /\ i - Len(s) \in DOMAIN t /\ o[i] = t[i - Len(s)]
             /\ j - Len(s) \in DOMAIN t /\ o[j] = t[j - Len(s)]
    <3>1. i - Len(s) = j - Len(s)
      BY <1>6, <2>3 DEF IsInjective
    <3> QED BY <1>1, <2>1, <3>1
  <2> QED BY <1>1, <1>4, <1>6, <2>2, <2>3
<1> QED BY <1>2, <1>5, <1>6 DEF o

LEMMA Tailed ==
  ASSUME NEW S, NEW s \in Seq(S), s # <<>>
  PROVE  LET o == Tail(s)
         IN /\ o \in Seq(S) /\ Len(o) = Len(s) - 1 /\ Head(s) \in ToSet(s)
            /\ ToSet(s) = {Head(s)} \cup ToSet(o)
            /\ IsInjective(s) => IsInjective(o) /\ Head(s) \notin ToSet(o)
<1> DEFINE o == Tail(s)
<1>1. /\ Len(s) \in Nat /\ DOMAIN s = 1..Len(s) /\ \A i \in DOMAIN s : s[i] \in ToSet(s)
  BY ListOf
<1>2. /\ o \in Seq(S) /\ Head(s) = s[1] /\ Len(o) = Len(s) - 1 /\ Len(s) > 0
      /\ \A i \in 1..Len(o) : o[i] = s[i + 1]
  <2>1. /\ o \in Seq(S) /\ Head(s) \in S /\ Len(o) = Len(s) - 1
        /\ \A i \in 1..Len(o) : o[i] = s[i + 1]
    BY HeadTailProperties
  <2>2. Len(s) # 0
    BY EmptySeq
  <2>3. Head(s) = s[1]
    OBVIOUS
  <2> QED BY <1>1, <2>1, <2>2, <2>3
<1>3. DOMAIN o = 1..(Len(s) - 1)
  BY <1>2, LenProperties
<1>4. 1 \in DOMAIN s
  BY <1>1, <1>2
<1> HIDE DEF o
<1>5. \A i \in DOMAIN o : i + 1 \in DOMAIN s /\ o[i] = s[i + 1] /\ i + 1 # 1
  BY <1>1, <1>2, <1>3
<1>6. ToSet(s) = {Head(s)} \cup ToSet(o)
  <2>1. ASSUME NEW x \in ToSet(s)
        PROVE  x = Head(s) \/ x \in ToSet(o)
    <3>1. PICK i \in DOMAIN s : x = s[i]
      BY DEF ToSet
    <3>2. i = 1 \/ (i - 1 \in DOMAIN o /\ (i - 1) + 1 = i)
      BY <1>1, <1>3
    <3>3. ASSUME i - 1 \in DOMAIN o, (i - 1) + 1 = i
          PROVE  x \in ToSet(o)
      <4>1. o[i - 1] = x
        BY <1>5, <3>1, <3>3
      <4> QED BY <3>3, <4>1 DEF ToSet
    <3> QED BY <1>2, <3>1, <3>2, <3>3
  <2>2. ASSUME NEW x \in ToSet(o)
        PROVE  x \in ToSet(s)
    BY <1>5 DEF ToSet
  <2>3. Head(s) \in ToSet(s)
    BY <1>1, <1>2, <1>4
  <2> QED BY <2>1, <2>2, <2>3
<1>7. ASSUME IsInjective(s)
      PROVE  IsInjective(o) /\ Head(s) \notin ToSet(o)
  <2>1. IsInjective(o)
    <3> SUFFICES ASSUME NEW i \in DOMAIN o, NEW j \in DOMAIN o, o[i] = o[j]
                 PROVE  i = j
      BY DEF IsInjective
    <3>1. i + 1 = j + 1
      BY <1>5, <1>7 DEF IsInjective
    <3> QED BY <1>1, <1>3, <3>1
  <2>2. Head(s) \notin ToSet(o)
    BY <1>2, <1>4, <1>5, <1>7 DEF IsInjective, ToSet
  <2> QED BY <2>1, <2>2
<1> QED BY <1>2, <1>6, <1>7 DEF o

\* A list without repetitions is as long as it has elements.
LEMMA ListCardinality ==
  ASSUME NEW S, NEW s \in Seq(S), IsInjective(s)
  PROVE  IsFiniteSet(ToSet(s)) /\ Cardinality(ToSet(s)) = Len(s)
<1>1. Len(s) \in Nat /\ DOMAIN s = 1..Len(s) /\ \A i \in DOMAIN s : s[i] \in ToSet(s)
  BY ListOf
<1>2. s = [i \in 1..Len(s) |-> s[i]]
  BY LenProperties
<1>3. s \in [1..Len(s) -> ToSet(s)]
  BY <1>1, <1>2
<1>4. ASSUME NEW x \in ToSet(s)
      PROVE  \E i \in 1..Len(s) : s[i] = x
  BY <1>1 DEF ToSet
<1>5. \A i, j \in 1..Len(s) : s[i] = s[j] => i = j
  BY <1>1 DEF IsInjective
<1>6. s \in Bijection(1..Len(s), ToSet(s))
  BY <1>3, <1>4, <1>5 DEF Bijection, Injection, Surjection, IsInjective
<1>7. /\ IsFiniteSet(1..Len(s))
      /\ Cardinality(1..Len(s)) = IF 1 > Len(s) THEN 0 ELSE Len(s) - 1 + 1
  BY <1>1, FS_Interval
<1>8. IsFiniteSet(1..Len(s)) /\ Cardinality(1..Len(s)) = Len(s)
  BY <1>1, <1>7
<1> DEFINE I == 1..Len(s)
           E == ToSet(s)
<1>9. ExistsBijection(I, E) /\ IsFiniteSet(I)
  BY <1>6, <1>8 DEF ExistsBijection
<1> HIDE DEF I, E
<1>10. IsFiniteSet(E) /\ Cardinality(E) = Cardinality(I)
  BY <1>9, FS_Bijection
<1> QED BY <1>8, <1>10 DEF I, E

\* A loop that appends some elements of a list has those elements, each as often as
\* they were there at most.
LEMMA Filtered ==
  ASSUME NEW S, NEW s \in Seq(S), NEW accepted
  PROVE  LET o == Filter(s, accepted)
         IN /\ o \in Seq(S) /\ Len(o) <= Len(s) /\ ToSet(o) = ToSet(s) \cap accepted
            /\ IsInjective(s) => IsInjective(o)
            /\ ToSet(s) \subseteq accepted => o = s
<1> DEFINE f == Collected(s, accepted)
           Part(n) == {s[i] : i \in 1..n}
           Good(n) == /\ f[n] \in Seq(S) /\ Len(f[n]) <= n /\ ToSet(f[n]) = Part(n) \cap accepted
                      /\ IsInjective(s) => IsInjective(f[n])
                      /\ ToSet(s) \subseteq accepted =>
                           Len(f[n]) = n /\ \A i \in 1..n : f[n][i] = s[i]
           T == {n \in 0..Len(s) : Good(n)}
<1>1. Len(s) \in Nat /\ DOMAIN s = 1..Len(s) /\ \A i \in DOMAIN s : s[i] \in S
  BY ListOf
<1>2. /\ f[0] = <<>> /\ Filter(s, accepted) = f[Len(s)]
      /\ \A n \in 1..Len(s) :
           f[n] = IF s[n] \in accepted THEN Append(f[n - 1], s[n]) ELSE f[n - 1]
  BY FilterLoop
<1> HIDE DEF f
<1>3. Good(0)
  <2>1. f[0] \in Seq(S) /\ Len(f[0]) = 0 /\ DOMAIN f[0] = {}
    BY <1>2, EmptySeq
  <2>2. ToSet(f[0]) = {} /\ IsInjective(f[0])
    BY <2>1 DEF ToSet, IsInjective
  <2> QED BY <2>1, <2>2
<1>4. ASSUME NEW n \in 1..Len(s), Good(n - 1)
      PROVE  Good(n)
  <2>1. s[n] \in S /\ s[n] \in ToSet(s) /\ n \in Int
    BY <1>1 DEF ToSet
  <2>2. Part(n) = Part(n - 1) \cup {s[n]}
    <3>1. 1..n = 1..(n - 1) \cup {n}
      BY <1>1
    <3> QED BY <3>1
  <2>3. IsInjective(s) => s[n] \notin Part(n - 1)
    <3> SUFFICES ASSUME IsInjective(s), NEW i \in 1..(n - 1), s[i] = s[n]
                 PROVE  FALSE
      OBVIOUS
    <3>1. i \in DOMAIN s /\ n \in DOMAIN s /\ i # n
      BY <1>1
    <3> QED BY <3>1 DEF IsInjective
  <2> DEFINE P == Part(n - 1)
             g == f[n - 1]
  <2>4. /\ g \in Seq(S) /\ Len(g) <= n - 1 /\ ToSet(g) = P \cap accepted
        /\ IsInjective(s) => IsInjective(g)
        /\ ToSet(s) \subseteq accepted => Len(g) = n - 1 /\ \A i \in 1..(n - 1) : g[i] = s[i]
    BY <1>4
  <2>5. f[n] = IF s[n] \in accepted THEN Append(g, s[n]) ELSE g
    BY <1>2
  <2>6. Part(n) = P \cup {s[n]} /\ (IsInjective(s) => s[n] \notin P)
    BY <2>2, <2>3
  <2> DEFINE Q == Part(n)
  <2>7. Q = P \cup {s[n]}
    BY <2>6
  <2> HIDE DEF P, g, Q, Part
  <2>8. CASE s[n] \in accepted
    <3> DEFINE o == Append(g, s[n])
    <3>1. f[n] = o
      BY <2>5, <2>8
    <3>2. /\ o \in Seq(S) /\ Len(o) = Len(g) + 1 /\ ToSet(o) = ToSet(g) \cup {s[n]}
          /\ IsInjective(g) /\ s[n] \notin ToSet(g) => IsInjective(o)
          /\ \A i \in DOMAIN g : o[i] = g[i]
          /\ o[Len(g) + 1] = s[n] /\ DOMAIN g = 1..Len(g) /\ Len(g) \in Nat
      BY <2>1, <2>4, Appended, ListOf
    <3> HIDE DEF o
    <3>3. ToSet(o) = Q \cap accepted
      BY <2>4, <2>7, <2>8, <3>2
    <3>4. IsInjective(s) => IsInjective(o)
      BY <2>4, <2>6, <3>2
    <3>5. ASSUME ToSet(s) \subseteq accepted
          PROVE  Len(o) = n /\ \A i \in 1..n : o[i] = s[i]
      <4>1. Len(g) = n - 1 /\ \A i \in 1..(n - 1) : g[i] = s[i]
        BY <2>4, <3>5
      <4>2. Len(o) = n
        BY <2>1, <3>2, <4>1
      <4>3. ASSUME NEW i \in 1..n
            PROVE  o[i] = s[i]
        <5>1. i \in 1..(n - 1) \/ i = Len(g) + 1
          BY <2>1, <4>1
        <5> QED BY <2>1, <3>2, <4>1, <5>1
      <4> QED BY <4>2, <4>3
    <3> QED BY <2>1, <2>4, <3>1, <3>2, <3>3, <3>4, <3>5 DEF Q
  <2>9. CASE s[n] \notin accepted
    <3>1. f[n] = g
      BY <2>5, <2>9
    <3>2. ToSet(g) = Q \cap accepted
      BY <2>4, <2>7, <2>9
    <3>3. Len(g) <= n
      BY <2>1, <2>4, ListOf
    <3>4. ~(ToSet(s) \subseteq accepted)
      BY <2>1, <2>9
    <3> QED BY <2>4, <3>1, <3>2, <3>3, <3>4 DEF Q
  <2> QED BY <2>8, <2>9
<1>5. Len(s) \in T
  <2>1. 0 \in T
    BY <1>1, <1>3
  <2>2. ASSUME NEW n \in 1..Len(s), n - 1 \in T
        PROVE  n \in T
    <3>1. Good(n - 1) /\ n \in 0..Len(s)
      BY <1>1, <2>2
    <3> HIDE DEF Good
    <3>2. Good(n)
      BY <1>4, <3>1
    <3> QED BY <3>1, <3>2
  <2> HIDE DEF T
  <2>3. \A n \in 0..Len(s) : n \in T
    BY <1>1, <2>1, <2>2, UpTo
  <2> QED BY <1>1, <2>3
<1>6. Good(Len(s))
  BY <1>5
<1> DEFINE o == Filter(s, accepted)
<1>7. /\ o \in Seq(S) /\ Len(o) <= Len(s) /\ ToSet(o) = Part(Len(s)) \cap accepted
      /\ IsInjective(s) => IsInjective(o)
      /\ ToSet(s) \subseteq accepted => Len(o) = Len(s) /\ \A i \in 1..Len(s) : o[i] = s[i]
  BY <1>2, <1>6
<1>8. Part(Len(s)) = ToSet(s)
  BY <1>1 DEF ToSet
<1> HIDE DEF Part, o
<1>9. ASSUME ToSet(s) \subseteq accepted
      PROVE  o = s
  <2>1. Len(o) = Len(s) /\ \A i \in 1..Len(s) : o[i] = s[i]
    BY <1>7, <1>9
  <2> QED BY <1>7, <2>1, SeqEqual
<1> QED BY <1>7, <1>8, <1>9 DEF o

\* Every list of elements of S without repetitions is an arrangement of some of them.
LEMMA Arrangement ==
  ASSUME NEW S, IsFiniteSet(S), NEW s \in Seq(S), IsInjective(s)
  PROVE  s \in SetToAllKPermutations(S) /\ Len(s) <= Cardinality(S)
<1> DEFINE t == ToSet(s)
<1>1. t \in SUBSET S /\ Cardinality(t) = Len(s)
  BY ListOf, ListCardinality
<1>2. s \in Seq(t) /\ DOMAIN s = 1..Len(s)
  BY ListOf, ListNarrowed
<1> HIDE DEF t
<1>3. s = [i \in 1..Len(s) |-> s[i]] /\ \A i \in 1..Len(s) : s[i] \in t
  BY <1>2, ListOf, LenProperties
<1>4. s \in [1..Cardinality(t) -> t]
  BY <1>1, <1>3
<1>5. s \in SetToSeqs(t)
  BY <1>1, <1>2, <1>4 DEF SetToSeqs, IsInjective
<1>6. Len(s) <= Cardinality(S)
  BY <1>1, FS_Subset
<1> QED BY <1>1, <1>5, <1>6 DEF SetToAllKPermutations

-----------------------------------------------------------------------------
\* A sequence whose elements have a rank.
Ranked(s, rank) == DOMAIN s = 1..Len(s) /\ Len(s) \in Nat /\ \A i \in DOMAIN s : rank[s[i]] \in Int

Earlier(s, rank, i) == {j \in DOMAIN s : Before(s, rank, j, i)}
Place(s, rank, i) == 1 + Cardinality(Earlier(s, rank, i))

LEMMA BeforeIsAnOrder ==
  ASSUME NEW s, NEW rank, Ranked(s, rank)
  PROVE  /\ \A i \in DOMAIN s : ~Before(s, rank, i, i)
         /\ \A i, j \in DOMAIN s : i # j => Before(s, rank, i, j) \/ Before(s, rank, j, i)
         /\ \A i, j \in DOMAIN s : Before(s, rank, i, j) => ~Before(s, rank, j, i)
         /\ \A i, j, k \in DOMAIN s :
              Before(s, rank, i, j) /\ Before(s, rank, j, k) => Before(s, rank, i, k)
BY DEF Ranked, Before

LEMMA EarlierIsFinite ==
  ASSUME NEW s, NEW rank, Ranked(s, rank), NEW i \in DOMAIN s
  PROVE  /\ IsFiniteSet(DOMAIN s) /\ Cardinality(DOMAIN s) = Len(s)
         /\ IsFiniteSet(Earlier(s, rank, i)) /\ Cardinality(Earlier(s, rank, i)) \in Nat
<1>1. IsFiniteSet(DOMAIN s) /\ Cardinality(DOMAIN s) = Len(s)
  <2>1. DOMAIN s = 1..Len(s) /\ Len(s) \in Nat
    BY DEF Ranked
  <2>2. /\ IsFiniteSet(1..Len(s))
        /\ Cardinality(1..Len(s)) = IF 1 > Len(s) THEN 0 ELSE Len(s) - 1 + 1
    BY <2>1, FS_Interval
  <2> QED BY <2>1, <2>2
<1>2. Earlier(s, rank, i) \in SUBSET DOMAIN s
  BY DEF Earlier
<1>3. IsFiniteSet(Earlier(s, rank, i))
  BY <1>1, <1>2, FS_Subset
<1> QED BY <1>1, <1>3, FS_CardinalityType

\* Places are positions in the sequence: nothing comes before itself.
LEMMA PlaceInDomain ==
  ASSUME NEW s, NEW rank, Ranked(s, rank), NEW i \in DOMAIN s
  PROVE  Place(s, rank, i) \in DOMAIN s
<1> DEFINE Others == DOMAIN s \ {i}
<1>1. IsFiniteSet(Others) /\ Cardinality(Others) = Len(s) - 1
  BY EarlierIsFinite, FS_RemoveElement
<1>2. Earlier(s, rank, i) \in SUBSET Others
  BY BeforeIsAnOrder DEF Earlier
<1> HIDE DEF Others
<1>3. Cardinality(Earlier(s, rank, i)) <= Len(s) - 1
  BY <1>1, <1>2, FS_Subset
<1> QED BY <1>3, EarlierIsFinite DEF Place, Ranked

\* What comes before has a lower place.
LEMMA PlaceIsMonotone ==
  ASSUME NEW s, NEW rank, Ranked(s, rank), NEW i \in DOMAIN s, NEW j \in DOMAIN s,
         Before(s, rank, i, j)
  PROVE  Place(s, rank, i) < Place(s, rank, j)
<1> DEFINE upToI == Earlier(s, rank, i) \cup {i}
<1>1. i \notin Earlier(s, rank, i)
  BY BeforeIsAnOrder DEF Earlier
<1>2. Cardinality(upToI) = Cardinality(Earlier(s, rank, i)) + 1
  BY <1>1, EarlierIsFinite, FS_AddElement
<1>3. upToI \in SUBSET Earlier(s, rank, j)
  BY BeforeIsAnOrder DEF Earlier
<1> HIDE DEF upToI
<1>4. Cardinality(upToI) <= Cardinality(Earlier(s, rank, j))
  BY <1>3, EarlierIsFinite, FS_Subset
<1> QED BY <1>2, <1>4, EarlierIsFinite DEF Place

\* Every position is the place of one element.
LEMMA PlaceIsOnto ==
  ASSUME NEW s, NEW rank, Ranked(s, rank), NEW k \in DOMAIN s
  PROVE  \E i \in DOMAIN s : Place(s, rank, i) = k
<1> DEFINE f == [i \in DOMAIN s |-> Place(s, rank, i)]
<1>1. f \in [DOMAIN s -> DOMAIN s]
  BY PlaceInDomain
<1>2. ASSUME NEW i \in DOMAIN s, NEW j \in DOMAIN s, i # j
      PROVE  f[i] # f[j]
  <2>1. Place(s, rank, i) \in Int /\ Place(s, rank, j) \in Int
    <3>1. Place(s, rank, i) \in DOMAIN s /\ Place(s, rank, j) \in DOMAIN s
      BY PlaceInDomain
    <3> QED BY <3>1 DEF Ranked
  <2>2. CASE Before(s, rank, i, j)
    BY <2>1, <2>2, PlaceIsMonotone
  <2>3. CASE Before(s, rank, j, i)
    BY <2>1, <2>3, PlaceIsMonotone
  <2> QED BY <1>2, <2>2, <2>3, BeforeIsAnOrder
<1> HIDE DEF f
<1>3. f \in Injection(DOMAIN s, DOMAIN s)
  BY <1>1, <1>2 DEF Injection, IsInjective
<1>4. IsFiniteSet(DOMAIN s)
  BY EarlierIsFinite
<1>5. f \in Surjection(DOMAIN s, DOMAIN s)
  BY <1>3, <1>4, FS_Injection
<1>6. \E i \in DOMAIN s : f[i] = k
  BY <1>5 DEF Surjection
<1> QED BY <1>6 DEF f

\* Where the element at position k of the sorted sequence was.
Was(s, rank, k) == CHOOSE i \in DOMAIN s : Place(s, rank, i) = k

LEMMA WasInDomain ==
  ASSUME NEW s, NEW rank, Ranked(s, rank), NEW k \in DOMAIN s
  PROVE  Was(s, rank, k) \in DOMAIN s /\ Place(s, rank, Was(s, rank, k)) = k
BY PlaceIsOnto DEF Was

\* The sorted sequence holds the elements of s, each at its place, and what is
\* at an earlier position is preferred, or of one rank and was earlier
\* (sortByPriority, router.go:355-364; sortRoutesLongestFirst, config.go:341-345).
THEOREM StableSort ==
  ASSUME NEW s, NEW rank, Ranked(s, rank)
  PROVE  /\ DOMAIN ByPriority(s, rank) = DOMAIN s
         /\ \A k \in DOMAIN s : /\ Was(s, rank, k) \in DOMAIN s
                                /\ ByPriority(s, rank)[k] = s[Was(s, rank, k)]
         /\ \A i \in DOMAIN s : \E k \in DOMAIN s : Was(s, rank, k) = i
         /\ \A k, m \in DOMAIN s :
              k < m => Before(s, rank, Was(s, rank, k), Was(s, rank, m))
<1>1. ByPriority(s, rank) = [k \in DOMAIN s |-> s[Was(s, rank, k)]]
  BY DEF ByPriority, Was, Place, Earlier
<1>2. ASSUME NEW i \in DOMAIN s
      PROVE  \E k \in DOMAIN s : Was(s, rank, k) = i
  <2> DEFINE k == Place(s, rank, i)
             j == Was(s, rank, k)
  <2>1. k \in DOMAIN s
    BY PlaceInDomain
  <2> HIDE DEF k
  <2>2. j \in DOMAIN s /\ Place(s, rank, j) = k
    BY <2>1, WasInDomain
  <2> HIDE DEF j
  <2>3. Place(s, rank, i) = k /\ k \in Int
    BY <2>1 DEF k, Ranked
  <2>4. j = i
    BY <2>2, <2>3, PlaceIsMonotone, BeforeIsAnOrder
  <2> QED BY <2>1, <2>4 DEF j
<1>3. ASSUME NEW k \in DOMAIN s, NEW m \in DOMAIN s, k < m
      PROVE  Before(s, rank, Was(s, rank, k), Was(s, rank, m))
  <2> DEFINE i == Was(s, rank, k)
             j == Was(s, rank, m)
  <2>1. i \in DOMAIN s /\ Place(s, rank, i) = k /\ j \in DOMAIN s /\ Place(s, rank, j) = m
    BY WasInDomain
  <2> HIDE DEF i, j
  <2>2. k \in Int /\ m \in Int
    BY DEF Ranked
  <2>3. i # j /\ ~Before(s, rank, j, i)
    BY <1>3, <2>1, <2>2, PlaceIsMonotone
  <2>4. Before(s, rank, i, j)
    BY <2>1, <2>3, BeforeIsAnOrder
  <2> QED BY <2>4 DEF i, j
<1> QED BY <1>1, <1>2, <1>3, WasInDomain

\* Sorting a list without repetitions.
LEMMA SortedList ==
  ASSUME NEW S, NEW s \in Seq(S), NEW rank, \A c \in S : rank[c] \in Int,
         \A i, j \in DOMAIN s : i # j => s[i] # s[j]
  PROVE  LET o == ByPriority(s, rank)
         IN /\ o \in Seq(S) /\ Len(o) = Len(s)
            /\ \A i, j \in DOMAIN o : i < j => rank[o[i]] <= rank[o[j]] /\ o[i] # o[j]
<1> DEFINE o == ByPriority(s, rank)
           was(k) == Was(s, rank, k)
<1>1. Len(s) \in Nat /\ DOMAIN s = 1..Len(s) /\ \A i \in DOMAIN s : s[i] \in S
  BY LenProperties, ElementOfSeq
<1>2. Ranked(s, rank)
  BY <1>1 DEF Ranked
<1>3. /\ DOMAIN o = DOMAIN s
      /\ \A k \in DOMAIN s : was(k) \in DOMAIN s /\ o[k] = s[was(k)]
      /\ \A k, m \in DOMAIN s : k < m => Before(s, rank, was(k), was(m))
  BY <1>2, StableSort
<1>4. o = [k \in DOMAIN s |-> s[was(k)]]
  BY DEF ByPriority, Was, Place, Earlier
<1> HIDE DEF o, was
<1>5. o \in [1..Len(s) -> S]
  BY <1>1, <1>3, <1>4
<1>6. o \in Seq(S) /\ Len(o) = Len(s)
  BY <1>1, <1>5
<1>7. ASSUME NEW i \in DOMAIN o, NEW j \in DOMAIN o, i < j
      PROVE  rank[o[i]] <= rank[o[j]] /\ o[i] # o[j]
  <2>1. was(i) \in DOMAIN s /\ was(j) \in DOMAIN s /\ Before(s, rank, was(i), was(j))
    BY <1>3, <1>7
  <2>2. was(i) # was(j)
    BY <1>2, <2>1, BeforeIsAnOrder
  <2>3. rank[s[was(i)]] <= rank[s[was(j)]]
    BY <1>1, <2>1 DEF Before
  <2> QED BY <1>3, <2>1, <2>2, <2>3
<1> QED BY <1>6, <1>7 DEF o

\* Whatever order the probes answered in, raceHead returns candidates, each once at
\* most, the preferred first (router.go:261-275,355-364).
THEOREM OutcomesAreSorted ==
  ASSUME NEW S, IsFiniteSet(S), NEW rank, \A c \in S : rank[c] \in Int,
         NEW o \in RaceOutcomes(S, rank)
  PROVE  /\ o \in Seq(S) /\ Len(o) <= Cardinality(S)
         /\ \A i, j \in DOMAIN o : i < j => rank[o[i]] <= rank[o[j]] /\ o[i] # o[j]
<1>1. PICK t \in SUBSET S : \E s \in SetToSeqs(t) : o = ByPriority(s, rank)
  BY DEF RaceOutcomes, SetToAllKPermutations
<1>2. PICK s \in SetToSeqs(t) : o = ByPriority(s, rank)
  BY <1>1
<1>3. Cardinality(t) \in Nat /\ Cardinality(t) <= Cardinality(S)
  BY FS_Subset, FS_CardinalityType
<1>4. s \in [1..Cardinality(t) -> t] /\ \A i, j \in 1..Cardinality(t) : i # j => s[i] # s[j]
  BY <1>2 DEF SetToSeqs
<1>5. s \in Seq(S) /\ Len(s) = Cardinality(t) /\ DOMAIN s = 1..Cardinality(t)
  BY <1>3, <1>4
<1>6. /\ o \in Seq(S) /\ Len(o) = Len(s)
      /\ \A i, j \in DOMAIN o : i < j => rank[o[i]] <= rank[o[j]] /\ o[i] # o[j]
  BY <1>2, <1>4, <1>5, SortedList
<1> QED BY <1>3, <1>5, <1>6
=============================================================================
