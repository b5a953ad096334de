----------------------------- MODULE ServerProof -----------------------------
(* For any configuration files and any number of handlers: the router that *)
(* runs is sound and dials where the file says, requests go by the longest *)
(* prefix, a hit answers the request that it is given to, and the process  *)
(* does not end under a request that it has not waited for.                *)
EXTENDS Server, PriorityProof

LEMMA MinIsLeast ==
  ASSUME NEW S \in SUBSET Nat, S # {}
  PROVE  Min(S) \in S /\ \A y \in S : Min(S) <= y
<1>1. \E x \in S : \A y \in S : ~(<<y, x>> \in OpToRel(<, Nat))
  BY NatLessThanWellFounded, WFMin
<1>2. PICK x \in S : \A y \in S : ~(<<y, x>> \in OpToRel(<, Nat))
  BY <1>1
<1>3. ASSUME NEW y \in S
      PROVE  x <= y
  <2>1. <<y, x>> \in Nat \X Nat /\ ~(<<y, x>> \in OpToRel(<, Nat))
    BY <1>2
  <2>2. ~(y < x)
    BY <2>1 DEF OpToRel
  <2> QED BY <2>2
<1> QED BY <1>3 DEF Min

-----------------------------------------------------------------------------
(* What Load makes of a file.                                              *)

\* What Load validates.
Normalised(raw) ==
  NormalizeCache(NormalizeRoutes([raw EXCEPT !.retries = IF @ < 0 THEN 0 ELSE @]))

Fields == {"upstreams", "routes", "directories", "retries", "rewrite"}

\* Setting one field of a configuration sets that one.
LEMMA OneField ==
  ASSUME NEW c, DOMAIN c = Fields, NEW x
  PROVE  /\ LET d == [c EXCEPT !.routes = x]
            IN /\ DOMAIN d = Fields /\ d.routes = x
               /\ d.upstreams = c.upstreams /\ d.directories = c.directories /\ d.retries = c.retries
         /\ LET d == [c EXCEPT !.directories = x]
            IN /\ DOMAIN d = Fields /\ d.directories = x
               /\ d.upstreams = c.upstreams /\ d.routes = c.routes /\ d.retries = c.retries
         /\ LET d == [c EXCEPT !.retries = x]
            IN /\ DOMAIN d = Fields /\ d.retries = x
               /\ d.upstreams = c.upstreams /\ d.routes = c.routes /\ d.directories = c.directories
BY DEF Fields

LEMMA TypeFields ==
  ASSUME NEW raw \in ConfigType
  PROVE  /\ DOMAIN raw = Fields
         /\ raw.routes \in Seq(RouteType) /\ raw.directories \in Seq(DirectoryType)
         /\ raw.retries \in Int
BY DEF ConfigType, Fields

\* Normalising keeps the order of routes and directories, prefixes and stripping.
LEMMA NormalisedFields ==
  ASSUME NEW raw \in ConfigType
  PROVE  LET c == Normalised(raw)
         IN /\ DOMAIN c = Fields
            /\ c.retries \in Nat
            /\ c.upstreams = raw.upstreams
            /\ DOMAIN c.routes = DOMAIN raw.routes
            /\ \A i \in DOMAIN raw.routes : /\ c.routes[i].prefix = raw.routes[i].prefix
                                            /\ c.routes[i].stripPrefix = raw.routes[i].stripPrefix
                                            /\ c.routes[i].upstreams \in Seq(STRING)
            /\ DOMAIN c.directories = DOMAIN raw.directories
            /\ \A i \in DOMAIN raw.directories :
                 /\ c.directories[i].type = "write" <=> LowerTrim[raw.directories[i].type] = "write"
                 /\ c.directories[i].path = AbsTrim[raw.directories[i].path]
<1> DEFINE clamped == [raw EXCEPT !.retries = IF @ < 0 THEN 0 ELSE @]
           filled == NormalizeRoutes(clamped)
           c == NormalizeCache(filled)
<1>1. /\ DOMAIN clamped = Fields /\ clamped.retries \in Nat
      /\ clamped.upstreams = raw.upstreams /\ clamped.routes = raw.routes
      /\ clamped.directories = raw.directories
  <2>1. clamped = [raw EXCEPT !.retries = IF raw.retries < 0 THEN 0 ELSE raw.retries]
    OBVIOUS
  <2>2. (IF raw.retries < 0 THEN 0 ELSE raw.retries) \in Nat
    BY TypeFields
  <2> QED BY <2>1, <2>2, TypeFields, OneField
<1> HIDE DEF clamped
<1>2. /\ DOMAIN filled = Fields /\ filled.retries = clamped.retries
      /\ filled.upstreams = clamped.upstreams /\ filled.directories = clamped.directories
  BY <1>1, OneField DEF NormalizeRoutes
<1>3. /\ DOMAIN filled.routes = DOMAIN clamped.routes
      /\ \A i \in DOMAIN raw.routes : /\ filled.routes[i].prefix = raw.routes[i].prefix
                                      /\ filled.routes[i].stripPrefix = raw.routes[i].stripPrefix
                                      /\ filled.routes[i].upstreams \in Seq(STRING)
  <2> DEFINE all == [i \in DOMAIN clamped.upstreams |-> clamped.upstreams[i].name]
             names(r) == IF r.upstreams # <<>> THEN r.upstreams
                         ELSE IF r.upstream # "" THEN <<r.upstream>> ELSE all
  <2>1. filled.routes = [i \in DOMAIN clamped.routes |->
                          [clamped.routes[i] EXCEPT !.upstreams = names(clamped.routes[i])]]
    BY <1>1, OneField DEF NormalizeRoutes
  <2>2. ASSUME NEW r \in RouteType
        PROVE  names(r) \in Seq(STRING)
    <3>1. /\ Len(raw.upstreams) \in Nat /\ DOMAIN raw.upstreams = 1..Len(raw.upstreams)
          /\ \A i \in DOMAIN raw.upstreams : raw.upstreams[i].name \in STRING
      <4>1. raw.upstreams \in Seq(UpstreamType)
        BY DEF ConfigType
      <4>2. Len(raw.upstreams) \in Nat /\ DOMAIN raw.upstreams = 1..Len(raw.upstreams)
        BY <4>1, LenProperties
      <4>3. \A i \in DOMAIN raw.upstreams : raw.upstreams[i] \in UpstreamType
        BY <4>1, <4>2, ElementOfSeq
      <4> QED BY <4>2, <4>3 DEF UpstreamType
    <3>2. all \in Seq(STRING)
      BY <1>1, <3>1
    <3>3. r.upstreams \in Seq(STRING) /\ <<r.upstream>> \in Seq(STRING)
      BY DEF RouteType
    <3> HIDE DEF all
    <3> QED BY <3>2, <3>3
  <2> HIDE DEF names, filled
  <2>3. ASSUME NEW i \in DOMAIN raw.routes
        PROVE  /\ filled.routes[i].prefix = raw.routes[i].prefix
               /\ filled.routes[i].stripPrefix = raw.routes[i].stripPrefix
               /\ filled.routes[i].upstreams \in Seq(STRING)
    <3>1. raw.routes[i] \in RouteType
      BY TypeFields, ElementOfSeq, LenProperties
    <3>2. filled.routes[i] = [raw.routes[i] EXCEPT !.upstreams = names(raw.routes[i])]
      BY <1>1, <2>1
    <3>3. names(raw.routes[i]) \in Seq(STRING)
      BY <2>2, <3>1
    <3>4. filled.routes[i].upstreams = names(raw.routes[i])
      BY <3>1, <3>2 DEF RouteType
    <3>5. /\ filled.routes[i].prefix = raw.routes[i].prefix
          /\ filled.routes[i].stripPrefix = raw.routes[i].stripPrefix
      BY <3>1, <3>2 DEF RouteType
    <3> QED BY <3>3, <3>4, <3>5
  <2> QED BY <2>1, <2>3
<1> HIDE DEF filled
<1>4. /\ DOMAIN c = Fields /\ c.retries = filled.retries
      /\ c.upstreams = filled.upstreams /\ c.routes = filled.routes
  BY <1>2, OneField DEF NormalizeCache
<1>5. /\ DOMAIN c.directories = DOMAIN raw.directories
      /\ \A i \in DOMAIN raw.directories :
           /\ c.directories[i].type = "write" <=> LowerTrim[raw.directories[i].type] = "write"
           /\ c.directories[i].path = AbsTrim[raw.directories[i].path]
  <2> DEFINE type(d) == IF LowerTrim[d.type] = "" THEN "read" ELSE LowerTrim[d.type]
  <2>1. c.directories = [i \in DOMAIN filled.directories |->
          [path |-> AbsTrim[filled.directories[i].path], type |-> type(filled.directories[i])]]
    BY <1>2, OneField DEF NormalizeCache
  <2> HIDE DEF c
  <2>2. DOMAIN c.directories = DOMAIN raw.directories
    BY <1>1, <1>2, <2>1
  <2>3. ASSUME NEW i \in DOMAIN raw.directories
        PROVE  /\ c.directories[i].type = type(raw.directories[i])
               /\ c.directories[i].path = AbsTrim[raw.directories[i].path]
    <3> DEFINE path(d) == AbsTrim[d.path]
    <3> HIDE DEF type, path
    <3>1. c.directories[i] = [path |-> path(raw.directories[i]), type |-> type(raw.directories[i])]
      BY <1>1, <1>2, <2>1 DEF path
    <3> QED BY <3>1 DEF path
  <2>4. \A t : (IF t = "" THEN "read" ELSE t) = "write" <=> t = "write"
    OBVIOUS
  <2> QED BY <2>2, <2>3, <2>4
<1> HIDE DEF c
<1>6. Normalised(raw) = c
  BY DEF Normalised, c, filled, clamped
<1> QED BY <1>1, <1>2, <1>3, <1>4, <1>5, <1>6

\* A file that Load accepts is valid once normalised; only the routes change after.
LEMMA LoadFields ==
  ASSUME NEW raw \in ConfigType, Load(raw) # Refused
  PROVE  LET c == Load(raw)
             n == Normalised(raw)
         IN /\ Valid(n)
            /\ c.routes = SortRoutesLongestFirst(n.routes)
            /\ c.upstreams = n.upstreams /\ c.directories = n.directories
            /\ c.retries = n.retries
<1> DEFINE n == Normalised(raw)
<1>1. Load(raw) = IF raw = Refused THEN Refused
                  ELSE IF Valid(n) THEN [n EXCEPT !.routes = SortRoutesLongestFirst(@)]
                       ELSE Refused
  BY DEF Load, Normalised
<1>2. DOMAIN n = Fields
  BY NormalisedFields
<1> HIDE DEF n
<1>3. Valid(n) /\ Load(raw) = [n EXCEPT !.routes = SortRoutesLongestFirst(n.routes)]
  BY <1>1
<1> QED BY <1>2, <1>3, OneField DEF n

\* Where the route that is tried k-th was written.
Written(raw, k) == Was([i \in DOMAIN raw.routes |-> i],
                       [i \in DOMAIN raw.routes |-> -Len(raw.routes[i].prefix)], k)

\* The routes are tried by the length of their prefixes, and as they were written
\* among those of one length (config.go:151-153,341-345).
THEOREM LongestFirst ==
  ASSUME NEW raw \in ConfigType, Load(raw) # Refused
  PROVE  LET routes == Load(raw).routes
             written == raw.routes
         IN /\ DOMAIN routes = DOMAIN written /\ DOMAIN written \subseteq Nat \ {0}
            /\ \A k \in DOMAIN written :
                 /\ Written(raw, k) \in DOMAIN written
                 /\ routes[k] = Normalised(raw).routes[Written(raw, k)]
                 /\ routes[k].prefix = written[Written(raw, k)].prefix
                 /\ routes[k].stripPrefix = written[Written(raw, k)].stripPrefix
            /\ \A i \in DOMAIN written : \E k \in DOMAIN written : Written(raw, k) = i
            /\ \A i \in DOMAIN written : Len(written[i].prefix) \in Nat
            /\ \A k, m \in DOMAIN written : k < m =>
                 LET i == Written(raw, k)
                     j == Written(raw, m)
                 IN \/ Len(written[i].prefix) > Len(written[j].prefix)
                    \/ Len(written[i].prefix) = Len(written[j].prefix) /\ i < j
<1> DEFINE written == raw.routes
           N == Normalised(raw).routes
           s == [i \in DOMAIN written |-> i]
           rank == [i \in DOMAIN written |-> -Len(written[i].prefix)]
           routes == Load(raw).routes
<1>1. /\ Len(written) \in Nat /\ DOMAIN written = 1..Len(written)
      /\ \A i \in DOMAIN written : written[i] \in RouteType
  BY TypeFields, LenProperties, ElementOfSeq
<1>2. \A i \in DOMAIN written : Len(written[i].prefix) \in Nat
  BY <1>1, LenProperties DEF RouteType
<1>3. /\ DOMAIN N = DOMAIN written
      /\ \A i \in DOMAIN written : /\ N[i].prefix = written[i].prefix
                                   /\ N[i].stripPrefix = written[i].stripPrefix
  BY NormalisedFields
<1>4. /\ DOMAIN s = 1..Len(s) /\ Len(s) \in Nat /\ DOMAIN s = DOMAIN written
      /\ \A i \in DOMAIN s : s[i] = i
  BY <1>1
<1>5. \A i \in DOMAIN written : rank[i] = -Len(written[i].prefix) /\ rank[i] \in Int
  BY <1>2
<1> HIDE DEF s, rank
<1>6. Ranked(s, rank)
  BY <1>4, <1>5 DEF Ranked
<1>7. routes = [k \in DOMAIN written |-> N[ByPriority(s, rank)[k]]]
  <2>1. routes = SortRoutesLongestFirst(N)
    BY LoadFields
  <2>2. [i \in DOMAIN N |-> -Len(N[i].prefix)] = rank /\ [i \in DOMAIN N |-> i] = s
    BY <1>3 DEF rank, s
  <2> QED BY <2>1, <2>2, <1>3 DEF SortRoutesLongestFirst
<1> HIDE DEF N, routes
<1>8. \A k : Written(raw, k) = Was(s, rank, k)
  BY DEF Written, s, rank
<1>9. /\ \A k \in DOMAIN written : /\ Written(raw, k) \in DOMAIN written
                                   /\ ByPriority(s, rank)[k] = Written(raw, k)
      /\ \A i \in DOMAIN written : \E k \in DOMAIN written : Written(raw, k) = i
      /\ \A k, m \in DOMAIN written :
           k < m => Before(s, rank, Written(raw, k), Written(raw, m))
  <2>1. /\ \A k \in DOMAIN s : /\ Was(s, rank, k) \in DOMAIN s
                                /\ ByPriority(s, rank)[k] = s[Was(s, rank, k)]
        /\ \A i \in DOMAIN s : \E k \in DOMAIN s : Was(s, rank, k) = i
        /\ \A k, m \in DOMAIN s :
             k < m => Before(s, rank, Was(s, rank, k), Was(s, rank, m))
    BY <1>6, StableSort
  <2>2. ASSUME NEW k \in DOMAIN written
        PROVE  Written(raw, k) \in DOMAIN written /\ ByPriority(s, rank)[k] = Written(raw, k)
    BY <1>4, <1>8, <2>1
  <2>3. \A i \in DOMAIN written : \E k \in DOMAIN written : Written(raw, k) = i
    BY <1>4, <1>8, <2>1
  <2>4. ASSUME NEW k \in DOMAIN written, NEW m \in DOMAIN written, k < m
        PROVE  Before(s, rank, Written(raw, k), Written(raw, m))
    BY <1>4, <1>8, <2>1, <2>4
  <2> HIDE DEF written
  <2> QED BY <2>2, <2>3, <2>4
<1>10. DOMAIN routes = DOMAIN written /\ DOMAIN written \subseteq Nat \ {0}
  BY <1>1, <1>7
<1>11. ASSUME NEW k \in DOMAIN written
       PROVE  /\ Written(raw, k) \in DOMAIN written
              /\ routes[k] = N[Written(raw, k)]
              /\ routes[k].prefix = written[Written(raw, k)].prefix
              /\ routes[k].stripPrefix = written[Written(raw, k)].stripPrefix
  BY <1>3, <1>7, <1>9
<1>12. ASSUME NEW k \in DOMAIN written, NEW m \in DOMAIN written, k < m
       PROVE  LET i == Written(raw, k)
                  j == Written(raw, m)
              IN \/ Len(written[i].prefix) > Len(written[j].prefix)
                 \/ Len(written[i].prefix) = Len(written[j].prefix) /\ i < j
  <2> DEFINE i == Written(raw, k)
             j == Written(raw, m)
  <2>1. i \in DOMAIN written /\ j \in DOMAIN written /\ Before(s, rank, i, j)
    BY <1>9, <1>12
  <2> HIDE DEF i, j
  <2>2. \/ rank[i] < rank[j]
        \/ rank[i] = rank[j] /\ i < j
    BY <1>4, <2>1 DEF Before
  <2>3. \/ Len(written[i].prefix) > Len(written[j].prefix)
        \/ Len(written[i].prefix) = Len(written[j].prefix) /\ i < j
    BY <1>2, <1>5, <2>1, <2>2
  <2> QED BY <2>3 DEF i, j
<1> QED BY <1>2, <1>9, <1>10, <1>11, <1>12 DEF N, routes

-----------------------------------------------------------------------------
(* Names of cached files.                                                  *)

\* A path cut at its slashes: never an empty list.
Cuttings(Text) == Seq(Seq(Text)) \ {<<>>}

\* What Segments does with one more chunk.
Cut(s, c) == IF c = "/" THEN Append(s, <<>>) ELSE Front(s) \o <<Append(Last(s), c)>>

\* The list that is cut at c is the same but for its end.
LEMMA CutEnds ==
  ASSUME NEW Text, NEW s \in Cuttings(Text), NEW c \in Text
  PROVE  LET o == Cut(s, c)
         IN /\ o \in Cuttings(Text) /\ Len(s) \in Nat /\ Len(s) > 0 /\ s[Len(s)] \in Seq(Text)
            /\ c = "/" => /\ Len(o) = Len(s) + 1 /\ o[Len(o)] = <<>>
                          /\ \A i \in 1..Len(s) : o[i] = s[i]
            /\ c # "/" => /\ Len(o) = Len(s) /\ o[Len(o)] = Append(s[Len(s)], c)
                          /\ \A i \in 1..(Len(s) - 1) : o[i] = s[i]
<1> DEFINE P == Seq(Text)
           o == Cut(s, c)
           n == Len(s)
           e == Append(s[n], c)
<1>1. /\ s \in Seq(P) /\ n \in Nat /\ n > 0 /\ \A i \in 1..n : s[i] \in P
  <2>1. s \in Seq(P) /\ n \in Nat \ {0}
    BY EmptySeq DEF Cuttings
  <2> QED BY <2>1, ElementOfSeq
<1> HIDE DEF P, n
<1>2. CASE c = "/"
  <2>1. <<>> \in P
    BY EmptySeq DEF P
  <2>2. o = Append(s, <<>>)
    BY <1>2 DEF Cut
  <2>3. /\ o \in Seq(P) /\ o # <<>> /\ Len(o) = n + 1 /\ o[n + 1] = <<>>
        /\ \A i \in 1..n : o[i] = s[i]
    BY <1>1, <2>1, <2>2, AppendProperties DEF n
  <2> QED BY <1>1, <1>2, <2>3 DEF Cuttings, P, n
<1>3. CASE c # "/"
  <2>1. s[n] \in P
    BY <1>1
  <2>2. e \in P
    BY <2>1, AppendProperties DEF P
  <2>3. /\ Front(s) \in Seq(P) /\ Len(Front(s)) = n - 1
        /\ \A i \in 1..(n - 1) : Front(s)[i] = s[i]
    <3>1. 1 \in Int /\ n - 1 \in Int /\ \A i \in 1..(n - 1) : s[i] \in P
      BY <1>1
    <3>2. /\ SubSeq(s, 1, n - 1) \in Seq(P)
          /\ Len(SubSeq(s, 1, n - 1)) = IF 1 <= n - 1 THEN (n - 1) - 1 + 1 ELSE 0
          /\ \A i \in 1..((n - 1) - 1 + 1) : SubSeq(s, 1, n - 1)[i] = s[1 + i - 1]
      BY <3>1, SubSeqProperties
    <3>3. /\ Len(SubSeq(s, 1, n - 1)) = n - 1
          /\ \A i \in 1..(n - 1) : SubSeq(s, 1, n - 1)[i] = s[i]
      BY <1>1, <3>2
    <3> QED BY <3>2, <3>3 DEF Front, n
  <2>4. o = Append(Front(s), e)
    <3>1. o = Front(s) \o <<e>>
      BY <1>3 DEF Cut, Last, e, n
    <3> HIDE DEF o, e
    <3> QED BY <2>2, <2>3, <3>1, AppendIsConcat
  <2> HIDE DEF o, e
  <2>5. /\ o \in Seq(P) /\ o # <<>> /\ Len(o) = n /\ o[n] = e
        /\ \A i \in 1..(n - 1) : o[i] = s[i]
    <3>1. /\ Append(Front(s), e) \in Seq(P) /\ Append(Front(s), e) # <<>>
          /\ Len(Append(Front(s), e)) = Len(Front(s)) + 1
          /\ \A i \in 1..Len(Front(s)) : Append(Front(s), e)[i] = Front(s)[i]
          /\ Append(Front(s), e)[Len(Front(s)) + 1] = e
      BY <2>2, <2>3, AppendProperties
    <3>2. Len(Front(s)) = n - 1 /\ (n - 1) + 1 = n
      BY <1>1, <2>3
    <3> QED BY <2>3, <2>4, <3>1, <3>2
  <2> QED BY <1>1, <1>3, <2>5 DEF Cuttings, P, o, e, n
<1> QED BY <1>2, <1>3

\* A list is cut at one chunk and in one way.
LEMMA CutIsInjective ==
  ASSUME NEW Text, NEW s \in Cuttings(Text), NEW t \in Cuttings(Text), NEW c \in Text, NEW d \in Text
  PROVE  /\ Cut(s, c) # <<<<>>>>
         /\ Cut(s, c) = Cut(t, d) => s = t /\ c = d
<1> DEFINE o == Cut(s, c)
           P == Seq(Text)
<1>1. /\ s \in Seq(P) /\ t \in Seq(P) /\ Len(s) \in Nat /\ Len(s) > 0 /\ Len(t) \in Nat /\ Len(t) > 0
      /\ s[Len(s)] \in P /\ t[Len(t)] \in P
  BY CutEnds DEF Cuttings
<1>2. /\ c = "/" => /\ Len(o) = Len(s) + 1 /\ o[Len(o)] = <<>>
                    /\ \A i \in 1..Len(s) : o[i] = s[i]
      /\ c # "/" => /\ Len(o) = Len(s) /\ o[Len(o)] = Append(s[Len(s)], c)
                    /\ \A i \in 1..(Len(s) - 1) : o[i] = s[i]
  BY CutEnds
<1>3. Append(s[Len(s)], c) # <<>> /\ Append(t[Len(t)], d) # <<>>
  <2>1. \A a \in Seq(Text), x \in Text : Append(a, x) # <<>>
    BY AppendProperties
  <2> QED BY <1>1, <2>1
<1>4. o # <<<<>>>>
  <2>1. Len(<<<<>>>>) = 1 /\ <<<<>>>>[1] = <<>>
    OBVIOUS
  <2> HIDE DEF o
  <2> QED BY <1>1, <1>2, <1>3, <2>1
<1>5. ASSUME o = Cut(t, d)
      PROVE  s = t /\ c = d
  <2>1. /\ d = "/" => /\ Len(o) = Len(t) + 1 /\ o[Len(o)] = <<>>
                      /\ \A i \in 1..Len(t) : o[i] = t[i]
        /\ d # "/" => /\ Len(o) = Len(t) /\ o[Len(o)] = Append(t[Len(t)], d)
                      /\ \A i \in 1..(Len(t) - 1) : o[i] = t[i]
    <3> DEFINE w == Cut(t, d)
    <3>1. /\ d = "/" => /\ Len(w) = Len(t) + 1 /\ w[Len(w)] = <<>>
                        /\ \A i \in 1..Len(t) : w[i] = t[i]
          /\ d # "/" => /\ Len(w) = Len(t) /\ w[Len(w)] = Append(t[Len(t)], d)
                        /\ \A i \in 1..(Len(t) - 1) : w[i] = t[i]
      BY CutEnds
    <3>2. o = w
      BY <1>5
    <3> HIDE DEF o, w
    <3> QED BY <3>1, <3>2
  <2> HIDE DEF o
  <2>2. c = "/" <=> d = "/"
    BY <1>2, <1>3, <2>1
  <2>3. CASE c = "/"
    <3>1. Len(s) = Len(t) /\ \A i \in 1..Len(s) : s[i] = t[i]
      BY <1>1, <1>2, <2>1, <2>2, <2>3
    <3> QED BY <1>1, <2>2, <2>3, <3>1, SeqEqual
  <2>4. CASE c # "/"
    <3>1. Len(s) = Len(t) /\ \A i \in 1..(Len(s) - 1) : s[i] = t[i]
      BY <1>1, <1>2, <2>1, <2>2, <2>4
    <3>2. Append(s[Len(s)], c) = Append(t[Len(s)], d)
      BY <1>2, <2>1, <2>2, <2>4, <3>1
    <3> DEFINE a == s[Len(s)]
               b == t[Len(s)]
    <3>3. a \in P /\ b \in P /\ Append(a, c) = Append(b, d)
      BY <1>1, <3>1, <3>2
    <3> HIDE DEF a, b
    <3>4. a = b /\ c = d
      BY <3>3, AppendInjective
    <3>5. \A i \in 1..Len(s) : s[i] = t[i]
      BY <1>1, <3>1, <3>4 DEF a, b
    <3> QED BY <1>1, <3>1, <3>4, <3>5, SeqEqual
  <2> QED BY <2>3, <2>4
<1> QED BY <1>4, <1>5

\* What Segments has after each chunk of p.
CutBody(p, f) ==
  [n \in 0..Len(p) |->
     IF n = 0 THEN <<<<>>>>
     ELSE IF p[n] = "/" THEN Append(f[n - 1], <<>>)
     ELSE Front(f[n - 1]) \o <<Append(Last(f[n - 1]), p[n])>>]
CutUpTo(p) == CHOOSE f : f = CutBody(p, f)

LEMMA SegmentsLoop ==
  ASSUME NEW Text, NEW p \in Seq(Text)
  PROVE  LET f == CutUpTo(p)
         IN /\ f[0] = <<<<>>>> /\ Segments(p) = f[Len(p)]
            /\ \A n \in 0..Len(p) : f[n] \in Cuttings(Text)
            /\ \A n \in 1..Len(p) : f[n] = Cut(f[n - 1], p[n])
<1> DEFINE f == CutUpTo(p)
           C == Cuttings(Text)
           step == [n \in 1..Len(p) |-> [s \in C |-> Cut(s, p[n])]]
<1>1. Len(p) \in Nat /\ \A n \in 1..Len(p) : p[n] \in Text
  BY ListOf
<1>2. <<<<>>>> \in C
  <2>1. <<>> \in Seq(Text)
    BY EmptySeq
  <2>2. <<<<>>>> \in Seq(Seq(Text)) /\ <<<<>>>> # <<>>
    BY <2>1
  <2> QED BY <2>2 DEF Cuttings
<1>3. \A s \in C, n \in 1..Len(p) : Cut(s, p[n]) \in C
  BY <1>1, CutEnds
<1> HIDE DEF C
<1>4. step \in Loops(Len(p), C)
  BY <1>3 DEF Loops
<1>5. \A s \in C, n \in 1..Len(p) : step[n][s] = Cut(s, p[n])
  OBVIOUS
<1> HIDE DEF step
<1>6. PICK g : Runs(g, <<<<>>>>, Len(p), step, C)
  BY <1>1, <1>2, <1>4, Loop
<1>7. /\ g \in [0..Len(p) -> C] /\ g[0] = <<<<>>>>
      /\ \A n \in 1..Len(p) : g[n] = step[n][g[n - 1]]
  BY <1>6 DEF Runs
<1>8. ASSUME NEW n \in 1..Len(p)
      PROVE  g[n] = Cut(g[n - 1], p[n])
  <2>1. n - 1 \in 0..Len(p)
    BY <1>1
  <2> QED BY <1>5, <1>7, <2>1
<1>9. g = CutBody(p, g)
  <2> DEFINE b == CutBody(p, g)
  <2>1. ASSUME NEW n \in 0..Len(p)
        PROVE  g[n] = b[n]
    <3>1. CASE n = 0
      BY <1>1, <1>7, <3>1 DEF CutBody
    <3>2. CASE n \in 1..Len(p)
      <4>1. n # 0
        BY <1>1, <3>2
      <4>2. b[n] = Cut(g[n - 1], p[n])
        BY <4>1 DEF CutBody, Cut
      <4> QED BY <1>8, <3>2, <4>2
    <3> QED BY <1>1, <3>1, <3>2
  <2>2. g = [n \in 0..Len(p) |-> g[n]] /\ b = [n \in 0..Len(p) |-> b[n]]
    BY <1>7 DEF CutBody
  <2> HIDE DEF b
  <2>3. g = b
    BY <2>1, <2>2
  <2> QED BY <2>3 DEF b
<1>10. f = CutBody(p, f)
  BY <1>9 DEF CutUpTo
<1>11. Segments(p) = f[Len(p)]
  BY DEF Segments, CutUpTo, CutBody
<1> HIDE DEF f
<1>12. f[0] = <<<<>>>>
  BY <1>1, <1>10 DEF CutBody
<1>13. ASSUME NEW n \in 1..Len(p)
       PROVE  f[n] = Cut(f[n - 1], p[n])
  <2>1. n \in 0..Len(p) /\ n # 0
    BY <1>1
  <2> QED BY <1>10, <2>1 DEF CutBody, Cut
<1>14. \A n \in 0..Len(p) : f[n] \in C
  <2> DEFINE T == {n \in 0..Len(p) : f[n] \in C}
  <2>1. 0 \in T
    BY <1>1, <1>2, <1>12
  <2>2. ASSUME NEW n \in 1..Len(p), n - 1 \in T
        PROVE  n \in T
    BY <1>1, <1>3, <1>13, <2>2
  <2> HIDE DEF T
  <2>3. \A n \in 0..Len(p) : n \in T
    BY <1>1, <2>1, <2>2, UpTo
  <2> QED BY <2>3 DEF T
<1> QED BY <1>11, <1>12, <1>13, <1>14 DEF f, C

\* One more chunk cuts the list of the chunks before it.
LEMMA SegmentsGrow ==
  ASSUME NEW Text, NEW p \in Seq(Text), NEW c \in Text
  PROVE  /\ Segments(p) \in Cuttings(Text)
         /\ Segments(Append(p, c)) = Cut(Segments(p), c)
         /\ Segments(<<>>) = <<<<>>>>
<1> DEFINE o == Append(p, c)
           f == CutUpTo(p)
           g == CutUpTo(o)
<1>1. /\ o \in Seq(Text) /\ Len(p) \in Nat /\ Len(o) = Len(p) + 1 /\ o[Len(o)] = c
      /\ \A n \in 1..Len(p) : o[n] = p[n]
  BY AppendProperties, LenProperties
<1>2. /\ f[0] = <<<<>>>> /\ Segments(p) = f[Len(p)]
      /\ \A n \in 0..Len(p) : f[n] \in Cuttings(Text)
      /\ \A n \in 1..Len(p) : f[n] = Cut(f[n - 1], p[n])
  BY SegmentsLoop
<1> HIDE DEF f, o
<1>3. /\ g[0] = <<<<>>>> /\ Segments(o) = g[Len(o)]
      /\ \A n \in 1..Len(o) : g[n] = Cut(g[n - 1], o[n])
  BY <1>1, SegmentsLoop
<1> HIDE DEF g
<1>4. \A n \in 0..Len(p) : f[n] = g[n]
  <2> DEFINE T == {n \in 0..Len(p) : f[n] = g[n]}
  <2>1. 0 \in T
    BY <1>1, <1>2, <1>3
  <2>2. ASSUME NEW n \in 1..Len(p), n - 1 \in T
        PROVE  n \in T
    <3>1. n \in 1..Len(o) /\ n \in 0..Len(p) /\ f[n - 1] = g[n - 1] /\ o[n] = p[n]
      BY <1>1, <2>2
    <3> QED BY <1>2, <1>3, <3>1
  <2> HIDE DEF T
  <2>3. \A n \in 0..Len(p) : n \in T
    BY <1>1, <2>1, <2>2, UpTo
  <2> QED BY <2>3 DEF T
<1>5. Segments(p) \in Cuttings(Text)
  BY <1>1, <1>2
<1>6. Segments(o) = Cut(Segments(p), c)
  <2>1. Len(o) \in 1..Len(o) /\ Len(o) - 1 = Len(p) /\ Len(p) \in 0..Len(p)
    BY <1>1
  <2>2. g[Len(o)] = Cut(g[Len(p)], c)
    BY <1>1, <1>3, <2>1
  <2> QED BY <1>2, <1>3, <1>4, <2>1, <2>2
<1>7. Segments(<<>>) = <<<<>>>>
  <2>1. <<>> \in Seq(Text) /\ Len(<<>>) = 0
    BY EmptySeq
  <2> QED BY <2>1, SegmentsLoop
<1> QED BY <1>5, <1>6, <1>7 DEF o

\* No two paths have the same segments.
LEMMA SegmentsAreInjective ==
  ASSUME NEW Text,
         NEW p \in Seq(Text), NEW q \in Seq(Text), Segments(p) = Segments(q)
  PROVE  p = q
<1> DEFINE Same(a, b) == Segments(a) = Segments(b) => a = b
           T == {n \in Nat : \A a, b \in Seq(Text) : Len(a) = n => Same(a, b)}
<1>1. ASSUME NEW a \in Seq(Text), a # <<>>
      PROVE  /\ Segments(a) # <<<<>>>>
             /\ \E r \in Seq(Text), c \in Text :
                  a = Append(r, c) /\ Len(a) = Len(r) + 1 /\ Segments(a) = Cut(Segments(r), c)
                  /\ Segments(r) \in Cuttings(Text)
  <2>1. PICK r \in Seq(Text), c \in Text : a = Append(r, c)
    BY <1>1, SequenceEmptyOrAppend
  <2>2. Segments(a) = Cut(Segments(r), c) /\ Segments(r) \in Cuttings(Text)
    BY <2>1, SegmentsGrow
  <2>3. Len(a) = Len(r) + 1
    BY <2>1, AppendProperties
  <2> QED BY <2>1, <2>2, <2>3, CutIsInjective
<1>2. Segments(<<>>) = <<<<>>>>
  <2>1. <<>> \in Seq(Text) /\ Len(<<>>) = 0
    BY EmptySeq
  <2> QED BY <2>1, SegmentsLoop
<1>3. 0 \in T
  <2> SUFFICES ASSUME NEW a \in Seq(Text), NEW b \in Seq(Text), Len(a) = 0, Segments(a) = Segments(b)
               PROVE  a = b
    OBVIOUS
  <2>1. a = <<>>
    BY EmptySeq
  <2> QED BY <1>1, <1>2, <2>1
<1>4. ASSUME NEW n \in Nat, n \in T
      PROVE  n + 1 \in T
  <2> SUFFICES ASSUME NEW a \in Seq(Text), NEW b \in Seq(Text),
                      Len(a) = n + 1, Segments(a) = Segments(b)
               PROVE  a = b
    OBVIOUS
  <2>1. a # <<>>
    BY EmptySeq
  <2>2. b # <<>>
    <3>1. Segments(a) # <<<<>>>>
      BY <1>1, <2>1
    <3> QED BY <1>2, <3>1
  <2>3. PICK r \in Seq(Text), c \in Text :
          a = Append(r, c) /\ Len(a) = Len(r) + 1 /\ Segments(a) = Cut(Segments(r), c)
          /\ Segments(r) \in Cuttings(Text)
    BY <1>1, <2>1
  <2>4. PICK t \in Seq(Text), d \in Text :
          b = Append(t, d) /\ Segments(b) = Cut(Segments(t), d)
          /\ Segments(t) \in Cuttings(Text)
    BY <1>1, <2>2
  <2>5. Segments(r) = Segments(t) /\ c = d
    <3> DEFINE x == Segments(r)
               y == Segments(t)
    <3>1. x \in Cuttings(Text) /\ y \in Cuttings(Text) /\ Cut(x, c) = Cut(y, d)
      BY <2>3, <2>4
    <3> HIDE DEF x, y
    <3>2. x = y /\ c = d
      BY <3>1, CutIsInjective
    <3> QED BY <3>2 DEF x, y
  <2>6. Len(r) = n
    <3>1. Len(r) \in Nat
      BY LenProperties
    <3> QED BY <2>3, <3>1
  <2>7. r = t
    BY <1>4, <2>5, <2>6
  <2> QED BY <2>3, <2>4, <2>5, <2>7
<1> HIDE DEF T
<1>5. Len(p) \in T
  <2>1. Len(p) \in Nat
    BY LenProperties
  <2>2. Nat \subseteq T
    BY <1>3, <1>4, Induction
  <2> QED BY <2>1, <2>2
<1> QED BY <1>5 DEF T

\* The text that a key consists of; no prover knows that these two are strings.
Chunks == STRING \cup {"/", "_"}

\* The key of a request that has one: its path without the slash that it begins
\* with, which ends in a tarball's ending, and the hash of its query.
LEMMA KeyOfRequest ==
  ASSUME NEW q \in Requests, Key(q) # <<>>
  PROVE  LET rel == TrimPrefix(q.path, <<"/">>)
         IN /\ rel \in Seq(Chunks) /\ rel # <<>>
            /\ Lower(rel[Len(rel)]) \in TarballSuffixes
            /\ "_" \in Chunks /\ q.query \in Chunks
            /\ Key(q) = IF q.query = "" THEN rel ELSE Append(Append(rel, "_"), q.query)
            /\ IsPlain(q.path) =>
                 /\ q.path = <<"/">> \o rel
                 /\ \A s \in ToSet(Segments(rel)) : s \notin {<<>>, <<".">>}
<1> DEFINE p == q.path
           rel == TrimPrefix(p, <<"/">>)
           rooted == HasPrefix(p, <<"/">>)
<1>1. p \in Seq(Chunks) /\ q.query \in Chunks /\ "_" \in Chunks /\ "/" \in Chunks
  <2>1. q \in RequestType
    BY ServerAssumption
  <2>2. p \in Seq(STRING) /\ q.query \in STRING
    BY <2>1 DEF RequestType
  <2>3. STRING \subseteq Chunks /\ "_" \in Chunks /\ "/" \in Chunks
    BY DEF Chunks
  <2>4. p \in Seq(Chunks)
    BY <2>2, <2>3, SeqMonotonic
  <2> QED BY <2>2, <2>3, <2>4
<1>2. p # <<>> /\ Lower(p[Len(p)]) \in TarballSuffixes
  BY DEF Key, IsCachablePath, Last
<1>3. rel # <<>> /\ Key(q) = IF q.query = "" THEN rel ELSE rel \o <<"_", q.query>>
  BY DEF Key, CacheRelPath
<1> HIDE DEF p
<1>4. Len(p) \in Nat /\ Len(p) > 0
  <2>1. Len(p) \in Nat \ {0}
    BY <1>1, <1>2, EmptySeq
  <2> QED BY <2>1
<1>5. rooted => rel = Tail(p) /\ p[1] = "/"
  <2>1. Len(<<"/">>) = 1 /\ <<"/">>[1] = "/"
    OBVIOUS
  <2>2. rooted => SubSeq(<<"/">>, 1, 1) = SubSeq(p, 1, 1)
    BY <2>1 DEF HasPrefix, IsPrefix
  <2>3. SubSeq(<<"/">>, 1, 1)[1] = "/" /\ SubSeq(p, 1, 1)[1] = p[1]
    <3> DEFINE t == <<"/">>
    <3>1. 1 \in Int /\ \A i \in 1..1 : i = 1
      OBVIOUS
    <3>2. p[1] \in Chunks
      <4>1. 1 \in 1..Len(p)
        BY <1>4
      <4> QED BY <1>1, <4>1, ElementOfSeq
    <3>3. t[1] \in Chunks
      BY <1>1, <2>1
    <3> HIDE DEF t
    <3>4. SubSeq(p, 1, 1)[1] = p[1]
      <4>1. \A i \in 1..(1 - 1 + 1) : SubSeq(p, 1, 1)[i] = p[1 + i - 1]
        BY <3>1, <3>2, SubSeqProperties
      <4> QED BY <4>1
    <3>5. SubSeq(t, 1, 1)[1] = t[1]
      <4>1. \A i \in 1..(1 - 1 + 1) : SubSeq(t, 1, 1)[i] = t[1 + i - 1]
        BY <3>1, <3>3, SubSeqProperties
      <4> QED BY <4>1
    <3> QED BY <2>1, <3>4, <3>5 DEF t
  <2>4. rooted => rel = SubSeq(p, 2, Len(p))
    BY <2>1 DEF TrimPrefix
  <2>5. Tail(p) = SubSeq(p, 2, Len(p))
    BY <1>1, <1>2, TailIsSubSeq
  <2> QED BY <2>2, <2>3, <2>4, <2>5
<1>6. ~rooted => rel = p
  BY DEF TrimPrefix
<1>7. /\ Tail(p) \in Seq(Chunks) /\ Len(Tail(p)) = Len(p) - 1
      /\ \A i \in 1..Len(Tail(p)) : Tail(p)[i] = p[i + 1]
  BY <1>1, <1>2, HeadTailProperties
<1> HIDE DEF rel, rooted
<1>8. rel \in Seq(Chunks)
  BY <1>1, <1>5, <1>6, <1>7
<1>9. Len(rel) \in Nat \ {0}
  BY <1>3, <1>8, EmptySeq
<1>10. rel[Len(rel)] = p[Len(p)]
  <2>1. CASE rooted
    <3>1. rel = Tail(p)
      BY <1>5, <2>1
    <3>2. Len(rel) \in 1..Len(rel) /\ Len(rel) = Len(p) - 1 /\ Len(rel) + 1 = Len(p)
      BY <1>4, <1>7, <1>9, <3>1
    <3> QED BY <1>7, <3>1, <3>2
  <2> QED BY <1>6, <2>1
<1>11. q.query # "" => Key(q) = Append(Append(rel, "_"), q.query)
  <2> DEFINE u == "_"
             v == q.query
             a == Append(Append(rel, u), v)
             b == rel \o <<u, v>>
  <2>1. u \in Chunks /\ v \in Chunks
    BY <1>1
  <2> HIDE DEF u, v
  <2>2. <<u, v>> \in Seq(Chunks) /\ Len(<<u, v>>) = 2 /\ <<u, v>>[1] = u /\ <<u, v>>[2] = v
    BY <2>1
  <2>3. /\ Append(rel, u) \in Seq(Chunks) /\ Len(Append(rel, u)) = Len(rel) + 1
        /\ \A i \in 1..Len(rel) : Append(rel, u)[i] = rel[i]
        /\ Append(rel, u)[Len(rel) + 1] = u
    BY <1>8, <2>1, AppendProperties
  <2>4. /\ a \in Seq(Chunks) /\ Len(a) = Len(Append(rel, u)) + 1
        /\ \A i \in 1..Len(Append(rel, u)) : a[i] = Append(rel, u)[i]
        /\ a[Len(Append(rel, u)) + 1] = v
    BY <2>1, <2>3, AppendProperties
  <2>5. /\ b \in Seq(Chunks) /\ Len(b) = Len(rel) + 2
        /\ \A i \in 1..(Len(rel) + 2) : b[i] = IF i <= Len(rel) THEN rel[i] ELSE <<u, v>>[i - Len(rel)]
    <3> DEFINE t == <<u, v>>
    <3>1. t \in Seq(Chunks) /\ Len(t) = 2
      BY <2>2
    <3> HIDE DEF t
    <3>2. /\ rel \o t \in Seq(Chunks) /\ Len(rel \o t) = Len(rel) + Len(t)
          /\ \A i \in 1..(Len(rel) + Len(t)) : (rel \o t)[i] = IF i <= Len(rel) THEN rel[i] ELSE t[i - Len(rel)]
      BY <1>8, <3>1, ConcatProperties
    <3> QED BY <3>1, <3>2 DEF t
  <2> HIDE DEF a, b
  <2>6. Len(a) = Len(b)
    BY <1>9, <2>3, <2>4, <2>5
  <2>7. ASSUME NEW i \in 1..Len(a)
        PROVE  a[i] = b[i]
    <3>1. CASE i \in 1..Len(rel)
      BY <1>9, <2>3, <2>4, <2>5, <3>1
    <3>2. CASE i = Len(rel) + 1
      <4>1. a[i] = u
        BY <1>9, <2>3, <2>4, <3>2
      <4>2. b[i] = <<u, v>>[1]
        BY <1>9, <2>5, <3>2
      <4> QED BY <2>2, <4>1, <4>2
    <3>3. CASE i = Len(rel) + 2
      <4>1. a[i] = v
        BY <1>9, <2>3, <2>4, <3>3
      <4>2. b[i] = <<u, v>>[2]
        BY <1>9, <2>5, <3>3
      <4> QED BY <2>2, <4>1, <4>2
    <3> QED BY <1>9, <2>3, <2>4, <3>1, <3>2, <3>3
  <2>8. a = b
    BY <2>4, <2>5, <2>6, <2>7, SeqEqual
  <2> QED BY <1>3, <2>8 DEF a, b, u, v
<1>12. ASSUME IsPlain(p)
       PROVE  p = <<"/">> \o rel /\ \A s \in ToSet(Segments(rel)) : s \notin {<<>>, <<".">>}
  <2>1. rooted /\ \A s \in ToSet(Segments(Tail(p))) : s \notin {<<>>, <<".">>}
    BY <1>12 DEF IsPlain, rooted
  <2>2. rel = Tail(p) /\ p[1] = "/"
    BY <1>5, <2>1
  <2>3. p = <<"/">> \o rel
    <3> DEFINE t == <<"/">>
               b == t \o rel
    <3>1. t \in Seq(Chunks) /\ Len(t) = 1 /\ t[1] = "/"
      <4> DEFINE u == "/"
      <4>1. u \in Chunks
        BY <1>1
      <4> HIDE DEF u
      <4>2. <<u>> \in Seq(Chunks) /\ Len(<<u>>) = 1 /\ <<u>>[1] = u
        BY <4>1
      <4> QED BY <4>2 DEF u
    <3> HIDE DEF t
    <3>2. /\ b \in Seq(Chunks) /\ Len(b) = 1 + Len(rel)
          /\ \A i \in 1..(1 + Len(rel)) : b[i] = IF i <= 1 THEN t[i] ELSE rel[i - 1]
      <4>1. /\ b \in Seq(Chunks) /\ Len(b) = Len(t) + Len(rel)
            /\ \A i \in 1..(Len(t) + Len(rel)) :
                 b[i] = IF i <= Len(t) THEN t[i] ELSE rel[i - Len(t)]
        BY <1>8, <3>1, ConcatProperties
      <4> HIDE DEF b
      <4> QED BY <3>1, <4>1
    <3> HIDE DEF b
    <3>3. Len(rel) = Len(p) - 1 /\ \A i \in 1..Len(rel) : rel[i] = p[i + 1]
      BY <1>7, <2>2
    <3>4. Len(b) = Len(p)
      BY <1>4, <3>2, <3>3
    <3>5. ASSUME NEW i \in 1..Len(p)
          PROVE  b[i] = p[i]
      <4>1. CASE i = 1
        BY <1>4, <2>2, <3>1, <3>2, <3>4, <4>1
      <4>2. CASE i # 1
        <5>1. i - 1 \in 1..Len(rel) /\ (i - 1) + 1 = i /\ ~(i <= 1) /\ i \in 1..(1 + Len(rel))
          BY <1>4, <3>3, <4>2
        <5> QED BY <3>2, <3>3, <5>1
      <4> QED BY <4>1, <4>2
    <3>6. b = p
      BY <1>1, <3>2, <3>4, <3>5, SeqEqual
    <3> QED BY <3>6 DEF b, t
  <2> QED BY <2>1, <2>2, <2>3
<1> QED BY <1>1, <1>2, <1>3, <1>8, <1>10, <1>11, <1>12 DEF rel, p

\* No ending is a slash or a dot.
LEMMA EndingsAreText == \A c : Lower(c) \in TarballSuffixes => c # "/" /\ c # "."
BY DEF Lower, TarballSuffixes

\* The last segment of a path is not dropped when it ends in some text.
LEMMA LastSegment ==
  ASSUME NEW p \in Seq(Chunks), NEW c \in Chunks, c # "/", c # "."
  PROVE  LET s == Segments(Append(p, c))
         IN \E e \in ToSet(s) : e \notin {<<>>, <<".">>}
<1> DEFINE s == Segments(p)
           o == Cut(s, c)
           e == Append(s[Len(s)], c)
<1>1. s \in Cuttings(Chunks) /\ Segments(Append(p, c)) = o
  BY SegmentsGrow
<1> HIDE DEF s
<1>2. /\ o \in Cuttings(Chunks) /\ s[Len(s)] \in Seq(Chunks) /\ o[Len(o)] = e
  BY <1>1, CutEnds
<1> HIDE DEF o
<1>3. e \in ToSet(o)
  <2>1. o \in Seq(Seq(Chunks)) /\ o # <<>>
    BY <1>2 DEF Cuttings
  <2>2. Len(o) \in Nat \ {0}
    BY <2>1, EmptySeq
  <2>3. Len(o) \in DOMAIN o
    BY <2>1, <2>2, ListOf
  <2> QED BY <1>2, <2>3 DEF ToSet
<1>4. e # <<>> /\ Len(e) = Len(s[Len(s)]) + 1 /\ e[Len(e)] = c /\ Len(s[Len(s)]) \in Nat
  <2> DEFINE l == s[Len(s)]
  <2>1. l \in Seq(Chunks)
    BY <1>2
  <2> HIDE DEF l
  <2>2. Append(l, c) # <<>> /\ Len(Append(l, c)) = Len(l) + 1 /\ Append(l, c)[Len(l) + 1] = c
    BY <2>1, AppendProperties
  <2>3. Len(l) \in Nat
    BY <2>1, LenProperties
  <2> QED BY <2>2, <2>3 DEF l
<1>5. e # <<".">>
  <2>1. Len(<<".">>) = 1 /\ <<".">>[1] = "."
    OBVIOUS
  <2> HIDE DEF e
  <2> QED BY <1>4, <2>1
<1> QED BY <1>1, <1>3, <1>4, <1>5 DEF o

\* What filepath.Join drops, and lists that have none of it.
Dropped == {<<>>, <<".">>}
Kept(s) == \A e \in ToSet(s) : e \notin Dropped

\* What a key is made of: text that ends neither in a slash nor in a dot.
LEMMA KeyEnds ==
  ASSUME NEW q \in Requests, Key(q) # <<>>
  PROVE  \E p \in Seq(Chunks), c \in Chunks : Key(q) = Append(p, c) /\ c # "/" /\ c # "."
<1> DEFINE rel == TrimPrefix(q.path, <<"/">>)
<1>1. /\ rel \in Seq(Chunks) /\ rel # <<>>
      /\ Lower(rel[Len(rel)]) \in TarballSuffixes
      /\ "_" \in Chunks /\ q.query \in Chunks
      /\ Key(q) = IF q.query = "" THEN rel ELSE Append(Append(rel, "_"), q.query)
  BY KeyOfRequest
<1> HIDE DEF rel
<1>2. CASE q.query = ""
  <2>1. PICK p \in Seq(Chunks), c \in Chunks : rel = Append(p, c)
    <3>1. rel \in Seq(Chunks) /\ rel # <<>>
      BY <1>1
    <3> QED BY <3>1, SequenceEmptyOrAppend
  <2>2. rel[Len(rel)] = c
    <3>1. Len(rel) = Len(p) + 1 /\ rel[Len(p) + 1] = c
      BY <2>1, AppendProperties
    <3> QED BY <3>1
  <2>3. Lower(c) \in TarballSuffixes
    BY <1>1, <2>2
  <2>4. c # "/" /\ c # "."
    BY <2>3, EndingsAreText
  <2> QED BY <1>1, <1>2, <2>1, <2>4
<1>3. CASE q.query # ""
  <2>1. Append(rel, "_") \in Seq(Chunks)
    <3> DEFINE u == "_"
    <3>1. u \in Chunks
      BY <1>1
    <3> HIDE DEF u
    <3>2. Append(rel, u) \in Seq(Chunks)
      BY <1>1, <3>1, AppendProperties
    <3> QED BY <3>2 DEF u
  <2>2. q.query # "/" /\ q.query # "."
    BY ServerAssumption
  <2> QED BY <1>1, <1>3, <2>1, <2>2
<1> QED BY <1>2, <1>3

\* Something is left of every key, so that it names a file.
LEMMA KeysNameFiles ==
  ASSUME NEW q \in Requests, Key(q) # <<>>
  PROVE  File(Key(q)) \in Names
<1> DEFINE s == Segments(Key(q))
           some == ToSet(s) \ Dropped
<1>1. PICK p \in Seq(Chunks), c \in Chunks : Key(q) = Append(p, c) /\ c # "/" /\ c # "."
  BY KeyEnds
<1>2. s = Segments(Append(p, c))
  BY <1>1
<1>3. \E e \in ToSet(s) : e \notin {<<>>, <<".">>}
  BY <1>1, <1>2, LastSegment
<1>4. Append(p, c) \in Seq(Chunks)
  BY AppendProperties
<1>5. s \in Seq(Seq(Chunks))
  <2> DEFINE w == Append(p, c)
  <2>1. w \in Seq(Chunks) /\ s = Segments(w)
    BY <1>2, <1>4
  <2> HIDE DEF w, s
  <2>2. CutUpTo(w)[Len(w)] \in Cuttings(Chunks) /\ Segments(w) = CutUpTo(w)[Len(w)]
    <3>1. Len(w) \in 0..Len(w)
      BY <2>1, LenProperties
    <3> QED BY <2>1, <3>1, SegmentsLoop
  <2> QED BY <2>1, <2>2 DEF Cuttings
<1>6. File(Key(q)) = Filter(s, some)
  BY DEF File, Dropped
<1> HIDE DEF s, some
<1>7. ToSet(Filter(s, some)) = ToSet(s) \cap some
  BY <1>5, Filtered
<1>8. ToSet(Filter(s, some)) # {}
  BY <1>3, <1>7 DEF some, Dropped
<1>9. ToSet(<<>>) = {}
  <2>1. DOMAIN <<>> = {}
    OBVIOUS
  <2> QED BY <2>1 DEF ToSet
<1>10. File(Key(q)) # <<>>
  BY <1>6, <1>8, <1>9
<1> QED BY <1>10 DEF Names

\* Adding text to the last segment of a list that loses nothing keeps it so.
LEMMA CutKeeps ==
  ASSUME NEW s \in Cuttings(Chunks), Kept(s), NEW c \in Chunks, c # "/"
  PROVE  Kept(Cut(s, c))
<1> DEFINE o == Cut(s, c)
           l == s[Len(s)]
           P == Seq(Chunks)
<1>1. /\ o \in Seq(P) /\ s \in Seq(P) /\ Len(s) \in Nat /\ Len(s) > 0 /\ l \in P
      /\ Len(o) = Len(s) /\ o[Len(o)] = Append(l, c)
      /\ \A i \in 1..(Len(s) - 1) : o[i] = s[i]
  <2>1. o \in Cuttings(Chunks) /\ Len(s) \in Nat /\ Len(s) > 0 /\ l \in P
    BY CutEnds
  <2>2. /\ Len(o) = Len(s) /\ o[Len(o)] = Append(l, c)
        /\ \A i \in 1..(Len(s) - 1) : o[i] = s[i]
    BY CutEnds
  <2>3. o \in Seq(P) /\ s \in Seq(P)
    BY <2>1 DEF Cuttings
  <2> QED BY <2>1, <2>2, <2>3
<1>2. \A i \in 1..Len(s) : s[i] \in ToSet(s)
  BY <1>1, ListOf
<1>3. l # <<>>
  BY <1>1, <1>2 DEF Kept, Dropped
<1> HIDE DEF o, l
<1>4. Append(l, c) \notin Dropped
  <2>1. Len(l) \in Nat \ {0}
    BY <1>1, <1>3, EmptySeq
  <2>2. Append(l, c) # <<>> /\ Len(Append(l, c)) = Len(l) + 1
    BY <1>1, AppendProperties
  <2>3. Len(<<".">>) = 1
    OBVIOUS
  <2>4. Len(Append(l, c)) # 1
    BY <2>1, <2>2
  <2>5. Append(l, c) # <<".">>
    BY <2>3, <2>4
  <2> QED BY <2>2, <2>5 DEF Dropped
<1>5. ASSUME NEW i \in 1..Len(o)
      PROVE  o[i] \notin Dropped
  <2>1. CASE i = Len(o)
    BY <1>1, <1>4, <2>1
  <2>2. CASE i # Len(o)
    <3>1. i \in 1..(Len(s) - 1) /\ i \in 1..Len(s)
      BY <1>1, <2>2
    <3> QED BY <1>1, <1>2, <3>1 DEF Kept
  <2> QED BY <2>1, <2>2
<1>6. DOMAIN o = 1..Len(o)
  BY <1>1, LenProperties
<1> QED BY <1>5, <1>6 DEF Kept, ToSet, o

\* The file of a plain path is the segments of its key.
LEMMA PlainFiles ==
  ASSUME NEW q \in Requests, Key(q) # <<>>, IsPlain(q.path)
  PROVE  Key(q) \in Seq(Chunks) /\ File(Key(q)) = Segments(Key(q))
<1> DEFINE rel == TrimPrefix(q.path, <<"/">>)
           u == "_"
           v == q.query
           k == Key(q)
<1>1. /\ rel \in Seq(Chunks) /\ u \in Chunks /\ v \in Chunks
      /\ k = IF v = "" THEN rel ELSE Append(Append(rel, u), v)
      /\ \A e \in ToSet(Segments(rel)) : e \notin {<<>>, <<".">>}
  BY KeyOfRequest
<1>2. u # "/" /\ v # "/"
  BY ServerAssumption
<1> HIDE DEF rel, u, v, k
<1>3. Segments(rel) \in Cuttings(Chunks) /\ Kept(Segments(rel))
  BY <1>1, SegmentsGrow DEF Kept, Dropped
<1>4. /\ Append(rel, u) \in Seq(Chunks)
      /\ Segments(Append(rel, u)) \in Cuttings(Chunks) /\ Kept(Segments(Append(rel, u)))
  <2>1. Append(rel, u) \in Seq(Chunks)
    BY <1>1, AppendProperties
  <2>2. Segments(Append(rel, u)) = Cut(Segments(rel), u)
    BY <1>1, SegmentsGrow
  <2>3. Segments(Append(rel, u)) \in Cuttings(Chunks)
    BY <1>1, <1>3, <2>2, CutEnds
  <2> QED BY <1>1, <1>2, <1>3, <2>1, <2>2, <2>3, CutKeeps
<1>5. /\ Append(Append(rel, u), v) \in Seq(Chunks)
      /\ Segments(Append(Append(rel, u), v)) \in Cuttings(Chunks)
      /\ Kept(Segments(Append(Append(rel, u), v)))
  <2> DEFINE w == Append(rel, u)
  <2>0. w \in Seq(Chunks) /\ Segments(w) \in Cuttings(Chunks) /\ Kept(Segments(w))
    BY <1>4
  <2> HIDE DEF w
  <2>1. Append(w, v) \in Seq(Chunks)
    BY <1>1, <2>0, AppendProperties
  <2>2. Segments(Append(w, v)) = Cut(Segments(w), v)
    BY <1>1, <2>0, SegmentsGrow
  <2>3. Segments(Append(w, v)) \in Cuttings(Chunks)
    <3>1. v \in Chunks /\ Segments(w) \in Cuttings(Chunks)
      BY <1>1, <2>0
    <3>2. Cut(Segments(w), v) \in Cuttings(Chunks)
      BY <3>1, CutEnds
    <3> QED BY <2>2, <3>2
  <2>4. Kept(Segments(Append(w, v)))
    BY <1>1, <1>2, <2>0, <2>2, CutKeeps
  <2> QED BY <2>1, <2>3, <2>4 DEF w
<1>6. k \in Seq(Chunks) /\ Segments(k) \in Cuttings(Chunks) /\ Kept(Segments(k))
  BY <1>1, <1>3, <1>4, <1>5
<1>7. File(k) = Segments(k)
  <2> DEFINE s == Segments(k)
  <2>1. s \in Seq(Seq(Chunks)) /\ Kept(s)
    BY <1>6 DEF Cuttings
  <2>2. File(k) = Filter(s, ToSet(s) \ Dropped)
    BY DEF File, Dropped
  <2> HIDE DEF s
  <2>3. ToSet(s) \subseteq ToSet(s) \ Dropped
    BY <2>1 DEF Kept
  <2>4. Filter(s, ToSet(s) \ Dropped) = s
    BY <2>1, <2>3, Filtered
  <2> QED BY <2>2, <2>4 DEF s
<1> QED BY <1>6, <1>7 DEF k

\* One file belongs to one request.
LEMMA FilesAreApart ==
  ASSUME NEW q \in Requests, Key(q) # <<>>, IsPlain(q.path),
         NEW t \in Requests, Key(t) # <<>>, IsPlain(t.path),
         File(Key(q)) = File(Key(t))
  PROVE  q.path = t.path /\ q.query = t.query
<1> DEFINE rel(r) == TrimPrefix(r.path, <<"/">>)
           a == rel(q)
           b == rel(t)
           u == "_"
           v == q.query
           w == t.query
<1>1. Key(q) = Key(t)
  <2> DEFINE x == Key(q)
             y == Key(t)
  <2>1. x \in Seq(Chunks) /\ y \in Seq(Chunks) /\ Segments(x) = Segments(y)
    BY PlainFiles
  <2> HIDE DEF x, y
  <2>2. x = y
    BY <2>1, SegmentsAreInjective
  <2> QED BY <2>2 DEF x, y
<1>2. /\ a \in Seq(Chunks) /\ a # <<>> /\ Lower(a[Len(a)]) \in TarballSuffixes
      /\ u \in Chunks /\ v \in Chunks /\ q.path = <<"/">> \o a
      /\ Key(q) = IF v = "" THEN a ELSE Append(Append(a, u), v)
  BY KeyOfRequest
<1>3. /\ b \in Seq(Chunks) /\ b # <<>> /\ Lower(b[Len(b)]) \in TarballSuffixes
      /\ w \in Chunks /\ t.path = <<"/">> \o b
      /\ Key(t) = IF w = "" THEN b ELSE Append(Append(b, u), w)
  BY KeyOfRequest
<1>4. Lower(v) \notin TarballSuffixes /\ Lower(w) \notin TarballSuffixes
  BY ServerAssumption
<1> HIDE DEF a, b, u, v, w
<1>5. ASSUME NEW x \in Seq(Chunks), NEW y \in Chunks
      PROVE  /\ Append(x, u) \in Seq(Chunks)
             /\ LET o == Append(Append(x, u), y) IN o[Len(o)] = y
  <2> DEFINE z == Append(x, u)
  <2>1. z \in Seq(Chunks)
    BY <1>2, AppendProperties
  <2> HIDE DEF z
  <2>2. Len(Append(z, y)) = Len(z) + 1 /\ Append(z, y)[Len(z) + 1] = y
    BY <2>1, AppendProperties
  <2>3. Append(z, y)[Len(Append(z, y))] = y
    BY <2>2
  <2> QED BY <2>1, <2>3 DEF z
<1>10. \A x, y \in Seq(Chunks) : \A c, d \in Chunks : Append(x, c) = Append(y, d) => x = y /\ c = d
  BY AppendInjective
<1>6. CASE v = "" /\ w = ""
  BY <1>1, <1>2, <1>3, <1>6 DEF v, w
<1>7. CASE v # "" /\ w # ""
  <2>1. Append(Append(a, u), v) = Append(Append(b, u), w)
    BY <1>1, <1>2, <1>3, <1>7
  <2>2. Append(a, u) \in Seq(Chunks) /\ Append(b, u) \in Seq(Chunks)
    BY <1>2, <1>3, <1>5
  <2>3. Append(a, u) = Append(b, u) /\ v = w
    <3> DEFINE x == Append(a, u)
               y == Append(b, u)
    <3>1. x \in Seq(Chunks) /\ y \in Seq(Chunks) /\ Append(x, v) = Append(y, w)
      BY <2>1, <2>2
    <3>2. v \in Chunks /\ w \in Chunks
      BY <1>2, <1>3
    <3> HIDE DEF x, y
    <3>3. x = y /\ v = w
      BY <1>10, <3>1, <3>2
    <3> QED BY <3>3 DEF x, y
  <2>4. a = b
    <3>1. a \in Seq(Chunks) /\ b \in Seq(Chunks) /\ u \in Chunks /\ Append(a, u) = Append(b, u)
      BY <1>2, <1>3, <2>3
    <3> QED BY <1>10, <3>1
  <2> QED BY <1>2, <1>3, <2>3, <2>4 DEF v, w
<1>8. CASE v = "" /\ w # ""
  <2>1. a = Append(Append(b, u), w)
    BY <1>1, <1>2, <1>3, <1>8
  <2>2. a[Len(a)] = w
    BY <1>3, <1>5, <2>1
  <2> QED BY <1>2, <1>4, <2>2
<1>9. CASE v # "" /\ w = ""
  <2>1. b = Append(Append(a, u), v)
    BY <1>1, <1>2, <1>3, <1>9
  <2>2. b[Len(b)] = v
    BY <1>2, <1>5, <2>1
  <2> QED BY <1>3, <1>4, <2>2
<1> QED BY <1>6, <1>7, <1>8, <1>9

-----------------------------------------------------------------------------
(* The invariant.                                                          *)

\* The file is as somebody wrote it, or does not parse.
FileReadable == file \in ConfigType \cup {Refused} /\ incoming \in ConfigFiles \cup {None}

\* A process that runs has the router of the file it loaded.
RunsLoaded ==
  /\ main = "down" <=> starter = "none"
  /\ main = "down" => router = None
  /\ main # "down" => /\ loaded \in ConfigType /\ Load(loaded) # Refused
                      /\ router = NewRouter(Load(loaded))

\* Requests are there once somebody listens, and were dispatched by this router.
Dispatched ==
  /\ DOMAIN handler = Handlers
  /\ \A h \in Handlers : handler[h] # Idle =>
       /\ starter = "serving"
       /\ handler[h].route = Match(handler[h].req)
       /\ handler[h].route # 0 =>
            handler[h].target = Strip(router.routes[handler[h].route], handler[h].req.path)

IInv == FileReadable /\ RunsLoaded /\ Dispatched

LEMMA InitIInv == Init => IInv
BY ServerAssumption DEF Init, IInv, FileReadable, RunsLoaded, Dispatched

LEMMA CutsAreTyped ==
  ASSUME NEW raw \in ConfigType
  PROVE  Cuts(raw) \subseteq ConfigType \cup {Refused}
<1> SUFFICES ASSUME NEW k \in 0..Len(raw.routes)
             PROVE  [raw EXCEPT !.routes = SubSeq(@, 1, k), !.directories = <<>>] \in ConfigType
  BY DEF Cuts
<1>1. raw.routes \in Seq(RouteType)
  BY TypeFields
<1>2. SubSeq(raw.routes, 1, k) \in Seq(RouteType)
  BY <1>1, LenProperties, ElementOfSeq, SubSeqProperties
<1>3. <<>> \in Seq(DirectoryType)
  BY EmptySeq
<1> QED BY <1>2, <1>3 DEF ConfigType

LEMMA FileStaysReadable ==
  ASSUME FileReadable, [Next]_vars
  PROVE  FileReadable'
<1> USE DEF FileReadable
<1>1. ASSUME NEW raw \in ConfigFiles, DownloadOpens(raw)
      PROVE  FileReadable'
  BY <1>1 DEF DownloadOpens
<1>2. CASE DownloadWrites
  BY <1>2, ServerAssumption DEF DownloadWrites
<1>3. CASE DownloadBreaksOff
  <2>1. incoming \in ConfigType /\ file' \in Cuts(incoming) /\ incoming' = None
    BY <1>3, ServerAssumption DEF DownloadBreaksOff
  <2> QED BY <2>1, CutsAreTyped
<1>4. ASSUME UNCHANGED <<file, incoming>>
      PROVE  FileReadable'
  BY <1>4
<1> QED
  BY <1>1, <1>2, <1>3, <1>4
     DEF Next, vars, Launch, SetServer, Listen, ListenFails, Notify, Signal, Stop, Expire,
         ShutdownReturns, Finish, ServeHTTP, Exit

\* The process ends, and requests with it.
LEMMA ExitKeeps ==
  ASSUME Exit
  PROVE  RunsLoaded' /\ Dispatched'
BY DEF Exit, RunsLoaded, Dispatched

LEMMA LaunchKeeps ==
  ASSUME FileReadable, RunsLoaded, Dispatched, Launch
  PROVE  RunsLoaded' /\ Dispatched'
<1>1. file \in ConfigType
  BY DEF FileReadable, Launch, Load
<1>2. RunsLoaded'
  BY <1>1 DEF Launch, RunsLoaded
<1>3. \A h \in Handlers : handler[h] = Idle
  BY DEF Launch, RunsLoaded, Dispatched
<1> QED BY <1>2, <1>3 DEF Launch, Dispatched

LEMMA ServeHTTPKeeps ==
  ASSUME RunsLoaded, Dispatched, NEW h \in Handlers, NEW q \in Requests, ServeHTTP(h, q)
  PROVE  RunsLoaded' /\ Dispatched'
<1>1. RunsLoaded'
  BY DEF ServeHTTP, RunsLoaded
<1> DEFINE entry == IF Match(q) = 0 THEN [Idle EXCEPT !.req = q]
                    ELSE [req |-> q, route |-> Match(q),
                          target |-> Strip(router.routes[Match(q)], q.path), hit |-> Cached(q)]
<1>2. /\ starter = "serving" /\ starter' = "serving" /\ router' = router
      /\ handler' = [handler EXCEPT ![h] = entry]
  BY DEF ServeHTTP
<1>3. /\ entry.req = q /\ entry.route = Match(q)
      /\ entry.route # 0 => entry.target = Strip(router.routes[entry.route], q.path)
  BY DEF Idle
<1> HIDE DEF entry
<1>4. ASSUME NEW g \in Handlers, handler'[g] # Idle
      PROVE  /\ handler'[g].route = Match(handler'[g].req)
             /\ handler'[g].route # 0 =>
                  handler'[g].target = Strip(router.routes[handler'[g].route], handler'[g].req.path)
  <2>1. CASE g = h
    BY <1>2, <1>3, <2>1 DEF Dispatched
  <2>2. CASE g # h
    BY <1>2, <1>4, <2>2 DEF Dispatched
  <2> QED BY <2>1, <2>2
<1>5. Dispatched'
  BY <1>2, <1>4 DEF Dispatched, Match
<1> QED BY <1>1, <1>5

\* Steps that start and end nothing.
LEMMA OthersKeep ==
  ASSUME RunsLoaded, Dispatched,
         UNCHANGED <<loaded, router>>,
         main' = "down" <=> main = "down",
         starter' = "none" <=> starter = "none",
         starter = "serving" => starter' = "serving",
         DOMAIN handler' = Handlers,
         \A h \in Handlers : handler'[h] \in {handler[h], Idle}
  PROVE  RunsLoaded' /\ Dispatched'
<1>1. RunsLoaded'
  BY DEF RunsLoaded
<1>2. Dispatched'
  BY DEF Dispatched, Match
<1> QED BY <1>1, <1>2

LEMMA StepIInv == IInv /\ [Next]_vars => IInv'
<1> SUFFICES ASSUME IInv, [Next]_vars
             PROVE  RunsLoaded' /\ Dispatched'
  BY FileStaysReadable DEF IInv
<1> USE DEF IInv
<1>1. CASE Launch
  BY <1>1, LaunchKeeps
<1>2. CASE ListenFails \/ ShutdownReturns
  BY <1>2, ExitKeeps DEF ListenFails, ShutdownReturns
<1>3. CASE Signal
  <2>1. CASE Exit
    BY <2>1, ExitKeeps
  <2>2. CASE UNCHANGED <<main, starter, loaded, router, handler>>
    BY <2>2, OthersKeep DEF Dispatched
  <2> QED BY <1>3, <2>1, <2>2 DEF Signal
<1>4. CASE Stop
  <2>1. CASE Exit
    BY <2>1, ExitKeeps
  <2>2. CASE main' = "draining" /\ UNCHANGED <<starter, loaded, router, handler>>
    BY <1>4, <2>2, OthersKeep DEF Dispatched, Stop
  <2> QED BY <1>4, <2>1, <2>2 DEF Stop
<1>5. CASE SetServer \/ Listen
  BY <1>5, OthersKeep DEF SetServer, Listen, Dispatched
<1>6. CASE Notify \/ Expire
  BY <1>6, OthersKeep DEF Notify, Expire, Dispatched
<1>7. ASSUME NEW h \in Handlers, Finish(h)
      PROVE  RunsLoaded' /\ Dispatched'
  BY <1>7, OthersKeep DEF Finish, Dispatched
<1>8. ASSUME NEW h \in Handlers, NEW q \in Requests, ServeHTTP(h, q)
      PROVE  RunsLoaded' /\ Dispatched'
  BY <1>8, ServeHTTPKeeps
<1>9. CASE UNCHANGED processVars
  BY <1>9, OthersKeep DEF processVars, Dispatched
<1> QED
  BY <1>1, <1>2, <1>3, <1>4, <1>5, <1>6, <1>7, <1>8, <1>9
     DEF Next, vars, DownloadOpens, DownloadWrites, DownloadBreaksOff

\* At every moment a running process has the router of the file that it loaded, a
\* file that Load accepts, and every request in flight went by that router
\* (main.go:47-70, router.go:114-129).
THEOREM Invariant == Spec => []IInv
<1>1. Init => IInv
  BY InitIInv
<1>2. IInv /\ [Next]_vars => IInv'
  BY StepIInv
<1> QED BY <1>1, <1>2, PTL DEF Spec

-----------------------------------------------------------------------------
(* Consequences.                                                           *)

\* What follows for the routes of a router.
LEMMA RoutesAreSound ==
  ASSUME RunsLoaded, main # "down", NEW i \in DOMAIN router.routes
  PROVE  /\ router.routes[i].upstreams # <<>> /\ Nil \notin ToSet(router.routes[i].upstreams)
         /\ router.routes[i].upstreams \in Seq(UpstreamType)
<1> DEFINE c == Load(loaded)
           n == Normalised(loaded)
           w == Written(loaded, i)
           names == n.routes[w].upstreams
<1>1. loaded \in ConfigType /\ c # Refused /\ router = NewRouter(c)
  BY DEF RunsLoaded
<1>2. /\ DOMAIN router.routes = DOMAIN c.routes
      /\ router.routes[i].upstreams =
           [k \in DOMAIN c.routes[i].upstreams |-> UpstreamByName(c, c.routes[i].upstreams[k])]
  BY <1>1 DEF NewRouter
<1>3. w \in DOMAIN loaded.routes /\ c.routes[i] = n.routes[w]
  BY <1>1, <1>2, LongestFirst
<1>4. names \in Seq(STRING) /\ w \in DOMAIN n.routes
  BY <1>1, <1>3, NormalisedFields
<1>5. names # <<>> /\ \A name \in ToSet(names) : UpstreamByName(n, name) # Nil
  BY <1>1, <1>4, LoadFields DEF Valid, ValidRoutes
<1>6. \A name : UpstreamByName(c, name) = UpstreamByName(n, name)
  BY <1>1, LoadFields DEF UpstreamByName
<1> HIDE DEF c, n, w, names
<1>7. router.routes[i].upstreams = [k \in DOMAIN names |-> UpstreamByName(n, names[k])]
  BY <1>2, <1>3, <1>6 DEF names
<1>8. DOMAIN names # {}
  <2>1. Len(names) \in Nat \ {0}
    BY <1>4, <1>5, EmptySeq
  <2>2. DOMAIN names = 1..Len(names)
    BY <1>4, LenProperties
  <2>3. 1 \in 1..Len(names)
    BY <2>1
  <2> QED BY <2>2, <2>3
<1>9. \A k \in DOMAIN names : UpstreamByName(n, names[k]) # Nil
  BY <1>5 DEF ToSet
<1>10. router.routes[i].upstreams # <<>>
  BY <1>7, <1>8
<1>11. router.routes[i].upstreams \in Seq(UpstreamType)
  <2>1. \A j \in DOMAIN n.upstreams : n.upstreams[j] \in UpstreamType
    <3>1. n.upstreams = loaded.upstreams
      BY <1>1, NormalisedFields DEF n
    <3>2. loaded.upstreams \in Seq(UpstreamType)
      BY <1>1 DEF ConfigType
    <3> QED BY <3>1, <3>2, ListOf
  <2>2. \A name : UpstreamByName(n, name) # Nil => UpstreamByName(n, name) \in UpstreamType
    BY <2>1 DEF UpstreamByName
  <2>3. Len(names) \in Nat /\ DOMAIN names = 1..Len(names)
    BY <1>4, ListOf
  <2>4. \A k \in 1..Len(names) : router.routes[i].upstreams[k] \in UpstreamType
    BY <1>7, <1>9, <2>2, <2>3
  <2>5. router.routes[i].upstreams \in [1..Len(names) -> UpstreamType]
    BY <1>7, <2>3, <2>4
  <2> QED BY <2>3, <2>5
<1> QED BY <1>7, <1>9, <1>10, <1>11 DEF ToSet

\* What follows for the cache directories.
LEMMA DirectoriesAreSound ==
  ASSUME RunsLoaded, main # "down"
  PROVE  /\ router.writeDir # NoDir => router.writeDir \in ToSet(router.readDirs)
         /\ \A i, j \in DOMAIN loaded.directories :
              LowerTrim[loaded.directories[i].type] = "write"
                /\ LowerTrim[loaded.directories[j].type] = "write" => i = j
<1> DEFINE c == Load(loaded)
           n == Normalised(loaded)
           W == Writers(n)
<1>1. loaded \in ConfigType /\ c # Refused /\ router = NewRouter(c)
  BY DEF RunsLoaded
<1>2. c.directories = n.directories /\ Cardinality(W) <= 1
  BY <1>1, LoadFields DEF Valid, ValidDirectories
<1>3. /\ DOMAIN n.directories = DOMAIN loaded.directories
      /\ \A i \in DOMAIN loaded.directories :
           i \in W <=> LowerTrim[loaded.directories[i].type] = "write"
  BY <1>1, NormalisedFields DEF Writers
<1>4. Len(loaded.directories) \in Nat /\ DOMAIN loaded.directories = 1..Len(loaded.directories)
  BY <1>1, TypeFields, LenProperties
<1>5. W \subseteq DOMAIN loaded.directories
  BY <1>3 DEF Writers
<1> HIDE DEF W
<1>6. IsFiniteSet(W)
  <2>1. IsFiniteSet(1..Len(loaded.directories))
    <3>1. 1 \in Int /\ Len(loaded.directories) \in Int
      BY <1>4
    <3> QED BY <3>1, FS_Interval
  <2> QED BY <1>4, <1>5, <2>1, FS_Subset
<1>7. ASSUME NEW i \in W, NEW j \in W
      PROVE  i = j
  <2> SUFFICES ASSUME i # j PROVE FALSE
    OBVIOUS
  <2>1. /\ IsFiniteSet({i}) /\ Cardinality({i}) = 1
    BY FS_Singleton
  <2>2. Cardinality({i} \cup {j}) = 2
    <3>1. Cardinality({i} \cup {j})
            = IF j \in {i} THEN Cardinality({i}) ELSE Cardinality({i}) + 1
      BY ONLY <2>1, FS_AddElement
    <3>2. j \notin {i}
      OBVIOUS
    <3> QED BY ONLY <2>1, <3>1, <3>2
  <2>3. {i} \cup {j} \in SUBSET W
    OBVIOUS
  <2>4. Cardinality({i} \cup {j}) <= Cardinality(W) /\ Cardinality(W) \in Nat
    BY <1>6, <2>3, FS_Subset, FS_CardinalityType
  <2> QED BY <1>2, <2>2, <2>4
<1>8. router.readDirs = [i \in DOMAIN n.directories |-> n.directories[i].path]
  BY <1>1, <1>2 DEF NewRouter, CacheReadDirs
<1>9. router.writeDir = IF W = {} THEN NoDir ELSE n.directories[Min(W)].path
  BY <1>1, <1>2 DEF NewRouter, CacheWriteDir, W, Writers
<1>10. W # {} => Min(W) \in DOMAIN n.directories
  <2>1. W \in SUBSET Nat
    BY <1>4, <1>5
  <2> QED BY <2>1, <1>3, <1>5, MinIsLeast
<1> HIDE DEF n
<1>11. router.writeDir # NoDir => router.writeDir \in ToSet(router.readDirs)
  BY <1>8, <1>9, <1>10 DEF ToSet
<1> QED BY <1>3, <1>7, <1>11

\* Whatever configuration files there are, and whenever writing one breaks off, a
\* router that runs gives serve candidates that exist, the race at least one round
\* and the tee one directory, which is searched too (config.go:275-336,
\* router.go:168,207,239,266, cache.go:31-34).
THEOREM RouterIsSound == Spec => []SoundRouter
<1>1. IInv => SoundRouter
  <2> SUFFICES ASSUME RunsLoaded, main # "down"
               PROVE  router.retries >= 0
    BY RoutesAreSound, DirectoriesAreSound DEF SoundRouter, IInv, RunsLoaded
  <2>1. loaded \in ConfigType /\ Load(loaded) # Refused /\ router = NewRouter(Load(loaded))
    BY DEF RunsLoaded
  <2>2. router.retries = Normalised(loaded).retries
    BY <2>1, LoadFields DEF NewRouter
  <2> QED BY <2>1, <2>2, NormalisedFields
<1> QED BY <1>1, Invariant, PTL

\* Whatever routes there are, in whatever order they were written, a request goes
\* to the first written of those with the longest prefix of its path
\* (config.go:151-153, router.go:114-129).
THEOREM LongestPrefixWins == Spec => []LongestMatch
<1>1. ASSUME IInv, NEW h \in Handlers, handler[h] # Idle
      PROVE  LET matching == {i \in DOMAIN loaded.routes :
                                HasPrefix(handler[h].req.path, loaded.routes[i].prefix)}
                 longest == {i \in matching : \A j \in matching :
                               Len(loaded.routes[j].prefix) <= Len(loaded.routes[i].prefix)}
                 chosen == router.routes[handler[h].route]
                 best == loaded.routes[Min(longest)]
             IN IF matching = {} THEN handler[h].route = 0
                ELSE /\ handler[h].route # 0
                     /\ chosen.prefix = best.prefix /\ chosen.stripPrefix = best.stripPrefix
                     /\ handler[h].target = Strip(best, handler[h].req.path)
  <2> DEFINE q == handler[h].req
             written == loaded.routes
             has(prefix) == HasPrefix(q.path, prefix)
             len(i) == Len(written[i].prefix)
             matching == {i \in DOMAIN written : has(written[i].prefix)}
             longest == {i \in matching : \A j \in matching : len(j) <= len(i)}
             found == {k \in DOMAIN router.routes : has(router.routes[k].prefix)}
             from(k) == Written(loaded, k)
             k0 == handler[h].route
             target == handler[h].target
  <2>1. /\ starter = "serving" /\ k0 = Match(q)
        /\ k0 # 0 => target = Strip(router.routes[k0], q.path)
    BY <1>1 DEF IInv, Dispatched
  <2>2. loaded \in ConfigType /\ Load(loaded) # Refused /\ router = NewRouter(Load(loaded))
    BY <1>1, <2>1 DEF IInv, RunsLoaded
  <2>3. k0 = IF found = {} THEN 0 ELSE Min(found)
    BY <2>1 DEF Match
  <2>4. /\ DOMAIN router.routes = DOMAIN Load(loaded).routes
        /\ \A k \in DOMAIN router.routes :
             /\ router.routes[k].prefix = Load(loaded).routes[k].prefix
             /\ router.routes[k].stripPrefix = Load(loaded).routes[k].stripPrefix
    BY <2>2 DEF NewRouter
  <2>5. /\ DOMAIN router.routes = DOMAIN written /\ DOMAIN written \subseteq Nat \ {0}
        /\ \A k \in DOMAIN written :
             /\ from(k) \in DOMAIN written
             /\ router.routes[k].prefix = written[from(k)].prefix
             /\ router.routes[k].stripPrefix = written[from(k)].stripPrefix
        /\ \A i \in DOMAIN written : \E k \in DOMAIN written : from(k) = i
        /\ \A i \in DOMAIN written : len(i) \in Nat
        /\ \A k, m \in DOMAIN written : k < m =>
             len(from(k)) > len(from(m)) \/ (len(from(k)) = len(from(m)) /\ from(k) < from(m))
    <3> DEFINE routes == Load(loaded).routes
    <3>1. /\ DOMAIN routes = DOMAIN written /\ DOMAIN written \subseteq Nat \ {0}
          /\ \A k \in DOMAIN written :
               /\ from(k) \in DOMAIN written
               /\ routes[k].prefix = written[from(k)].prefix
               /\ routes[k].stripPrefix = written[from(k)].stripPrefix
          /\ \A i \in DOMAIN written : \E k \in DOMAIN written : from(k) = i
          /\ \A i \in DOMAIN written : len(i) \in Nat
      BY <2>2, LongestFirst
    <3>2. \A k, m \in DOMAIN written : k < m =>
             len(from(k)) > len(from(m)) \/ (len(from(k)) = len(from(m)) /\ from(k) < from(m))
      BY <2>2, LongestFirst
    <3> HIDE DEF written, from, len, routes
    <3> QED BY <2>4, <3>1, <3>2 DEF routes
  <2> HIDE DEF q, written, has, from, target, k0, len
  <2>6. \A k \in DOMAIN written : k \in found <=> from(k) \in matching
    BY <2>5
  <2>7. CASE matching = {}
    <3>1. found = {}
      BY <2>5, <2>6, <2>7
    <3> QED BY <2>3, <2>7, <3>1 DEF q, written, has, k0
  <2>8. CASE matching # {}
    <3> DEFINE w == from(k0)
    <3>1. found # {} /\ found \in SUBSET Nat
      BY <2>5, <2>6, <2>8
    <3>2. k0 \in found /\ \A k \in found : k0 <= k
      <4> HIDE DEF found
      <4> QED BY <2>3, <3>1, MinIsLeast
    <3>3. k0 \in DOMAIN written /\ k0 # 0 /\ w \in matching
      BY <2>5, <2>6, <3>2
    <3> HIDE DEF w
    <3>4. ASSUME NEW j \in matching
          PROVE  len(j) < len(w) \/ (len(j) = len(w) /\ w <= j)
      <4>1. PICK m \in DOMAIN written : from(m) = j
        BY <2>5
      <4>2. m \in found
        BY <2>6, <4>1
      <4>3. k0 \in Nat /\ m \in Nat /\ k0 <= m
        BY <2>5, <3>2, <3>3, <4>2
      <4>4. CASE k0 = m
        BY <2>5, <4>1, <4>4, <3>3 DEF w
      <4>5. CASE k0 < m
        BY <2>5, <3>3, <4>1, <4>5 DEF w
      <4> QED BY <4>3, <4>4, <4>5
    <3>5. w \in longest /\ \A j \in longest : w <= j
      <4>1. \A j \in matching : len(j) \in Nat /\ j \in Nat
        BY <2>5
      <4> HIDE DEF matching
      <4>2. \A j \in matching : len(j) <= len(w)
        BY <3>3, <3>4, <4>1
      <4>3. ASSUME NEW j \in longest
            PROVE  w <= j
        <5>1. j \in matching /\ len(w) <= len(j)
          BY <3>3
        <5> QED BY <3>3, <3>4, <4>1, <5>1
      <4> QED BY <3>3, <4>2, <4>3
    <3>6. longest \in SUBSET Nat
      BY <2>5
    <3>7. Min(longest) = w
      <4> HIDE DEF longest
      <4>1. Min(longest) \in longest /\ Min(longest) <= w /\ w <= Min(longest)
        BY <3>5, <3>6, MinIsLeast
      <4>2. Min(longest) \in Nat /\ w \in Nat
        BY <3>5, <3>6, <4>1
      <4> QED BY <4>1, <4>2
    <3>8. /\ router.routes[k0].prefix = written[w].prefix
          /\ router.routes[k0].stripPrefix = written[w].stripPrefix
      BY <2>5, <3>3 DEF w
    <3>9. target = Strip(written[w], q.path)
      BY <2>1, <3>3, <3>8 DEF Strip, q, k0, target
    <3> QED BY <2>8, <3>3, <3>7, <3>8, <3>9 DEF q, written, has, len, k0, target
  <2> QED BY <2>7, <2>8
<1>2. IInv => LongestMatch
  BY <1>1 DEF LongestMatch
<1> QED BY <1>2, Invariant, PTL

\* A process that has asked for signals never ends under a request before it has
\* waited for all of Shutdown's time (main.go:74-83, server.go:44-50): nobody is
\* served before s.server is set, so that Shutdown finds it.
THEOREM RequestsAreDrained == Spec => Drained
<1>1. ASSUME IInv, [Next]_vars,
             main # "down", main' = "down", \E h \in Handlers : handler[h] # Idle
      PROVE  expired \/ main = "spawned"
  <2>1. starter = "serving"
    BY <1>1 DEF IInv, Dispatched
  <2> QED
    BY <1>1, <2>1
       DEF Next, vars, processVars, DownloadOpens, DownloadWrites, DownloadBreaksOff, Launch,
           SetServer, Listen, ListenFails, Notify, Signal, Stop, Expire, ShutdownReturns,
           Finish, ServeHTTP
<1>2. IInv /\ [Next]_vars =>
        [main # "down" /\ main' = "down" /\ (\E h \in Handlers : handler[h] # Idle)
           => expired \/ main = "spawned"]_vars
  BY <1>1
<1> QED BY <1>2, Invariant, PTL DEF Spec, Drained

-----------------------------------------------------------------------------
(* Transports.                                                             *)

\* Every combination of a pinned address and a proxy.
LEMMA TransportsDial ==
  ASSUME NEW u \in UpstreamType, NEW host
  PROVE  LET pinned == u.resolve # ""
             socks == u.proxy.url.scheme \in {"socks5", "socks5h"}
             connection == Connect(BuildTransport(u), host)
         IN /\ u.proxy.enabled /\ (socks \/ ~pinned) =>
                 connection = [peer |-> u.proxy.url.host, asked |-> host]
            /\ u.proxy.enabled /\ ~socks /\ pinned =>
                 connection = [peer |-> u.resolve, asked |-> host]
            /\ ~u.proxy.enabled =>
                 connection.peer = IF pinned THEN u.resolve ELSE host
<1> DEFINE tr == BuildTransport(u)
           pinned == ApplyResolve(NoTransport, u)
<1>1. u.proxy.url.host \in STRING /\ u.proxy.enabled \in BOOLEAN /\ u.proxy.url.host # Nil
  BY ConfigAssumption DEF UpstreamType, URL
<1>2. pinned = [pin |-> u.resolve, socks |-> Nil, proxy |-> Nil]
  <2>1. pinned = IF u.resolve = "" THEN NoTransport ELSE [NoTransport EXCEPT !.pin = u.resolve]
    BY DEF ApplyResolve
  <2> HIDE DEF pinned
  <2>2. CASE u.resolve = ""
    BY <2>1, <2>2 DEF NoTransport
  <2>3. CASE u.resolve # ""
    BY <2>1, <2>3 DEF NoTransport
  <2> QED BY <2>2, <2>3
<1> HIDE DEF pinned
<1>3. tr = IF ~u.proxy.enabled THEN pinned
           ELSE IF u.proxy.url.scheme \in {"socks5", "socks5h"}
                THEN [pinned EXCEPT !.pin = "", !.socks = u.proxy.url.host]
                ELSE [pinned EXCEPT !.proxy = u.proxy.url.host]
  BY DEF BuildTransport, ApplyProxy, pinned
<1> HIDE DEF tr
<1>4. CASE ~u.proxy.enabled
  <2>1. tr = pinned
    BY <1>3, <1>4
  <2>2. Connect(tr, host).peer = IF u.resolve = "" THEN host ELSE u.resolve
    <3>1. tr.proxy = Nil /\ tr.socks = Nil /\ tr.pin = u.resolve
      BY <1>2, <2>1
    <3>2. Connect(tr, host) = Dial(tr, host)
      BY <3>1 DEF Connect
    <3>3. Dial(tr, host).peer = IF u.resolve = "" THEN host ELSE u.resolve
      BY <3>1 DEF Dial
    <3> QED BY <3>2, <3>3
  <2> QED BY <1>4, <2>2 DEF tr
<1>5. CASE u.proxy.enabled /\ u.proxy.url.scheme \in {"socks5", "socks5h"}
  <2>1. tr = [pin |-> "", socks |-> u.proxy.url.host, proxy |-> Nil]
    BY <1>2, <1>3, <1>5
  <2>2. Connect(tr, host) = [peer |-> u.proxy.url.host, asked |-> host]
    BY <1>1, <2>1 DEF Connect, Dial
  <2> QED BY <1>5, <2>2 DEF tr
<1>6. CASE u.proxy.enabled /\ u.proxy.url.scheme \notin {"socks5", "socks5h"}
  <2>1. tr = [pin |-> u.resolve, socks |-> Nil, proxy |-> u.proxy.url.host]
    BY <1>2, <1>3, <1>6
  <2>2. Connect(tr, host) =
          [peer |-> IF u.resolve = "" THEN u.proxy.url.host ELSE u.resolve, asked |-> host]
    BY <1>1, <2>1 DEF Connect, Dial
  <2> QED BY <1>6, <2>2 DEF tr
<1> QED BY <1>1, <1>4, <1>5, <1>6

\* Whatever upstreams and routes a configuration has, pinned or not, with either kind of
\* proxy or none, a running server connects to the peer that BuildTransport's order of
\* layers gives it: a SOCKS5 proxy takes the place of the pinned address, an HTTP proxy
\* is looked for at it (upstream.go:275-361).
THEOREM DialsWhereConfigured == Spec => []DialsAsConfigured
<1>1. ASSUME RunsLoaded, router # None,
             NEW i \in DOMAIN router.routes, NEW u \in ToSet(router.routes[i].upstreams)
      PROVE  u \in UpstreamType
  <2>1. main # "down"
    BY <1>1 DEF RunsLoaded
  <2> QED BY <1>1, <2>1, RoutesAreSound, ListOf
<1>2. IInv => DialsAsConfigured
  BY <1>1, TransportsDial DEF IInv, DialsAsConfigured
<1> QED BY <1>2, Invariant, PTL

-----------------------------------------------------------------------------
(* What the process and the cache hold.                                    *)

Known == ConfigFiles \cup UNION {Cuts(raw) : raw \in ConfigFiles}

\* A file is one that was written, or as much of it as was.
FilesKnown == file \in Known /\ (main # "down" => loaded \in Known)

Phases ==
  /\ main \in {"down", "spawned", "waiting", "draining"}
  /\ starter \in {"none", "spawned", "set", "serving", "returned"}
  /\ shut \in BOOLEAN /\ quit \in BOOLEAN /\ expired \in BOOLEAN

\* A request and the one whose reply is in the file that its key names.
SameFile(q, t) == Key(q) # <<>> /\ Key(t) # <<>> /\ File(Key(q)) = File(Key(t))

\* Every file in the cache is named by the key of the request that it answers.
Stored ==
  /\ disk \in [Dirs -> [Names -> Requests \cup {None}]]
  /\ \A d \in Dirs, n \in Names : disk[d][n] # None =>
       Key(disk[d][n]) # <<>> /\ File(Key(disk[d][n])) = n

\* A hit is the file that the request's own key names.
Held ==
  \A h \in Handlers :
    /\ handler[h].req \in Requests \cup {None} /\ handler[h].hit \in Requests \cup {None}
    /\ handler[h].hit # None =>
         handler[h].req \in Requests /\ SameFile(handler[h].req, handler[h].hit)

Holdings == FilesKnown /\ Phases /\ Stored /\ Held

\* The directories of a router are those that the files name.
LEMMA DirectoriesAreKnown ==
  ASSUME RunsLoaded, FilesKnown, main # "down"
  PROVE  router.readDirs \in Seq(Dirs) /\ router.writeDir \in Dirs \cup {NoDir}
<1> DEFINE c == Load(loaded)
           n == Normalised(loaded)
<1>1. loaded \in ConfigType /\ c # Refused /\ router = NewRouter(c) /\ loaded \in Known
  BY DEF RunsLoaded, FilesKnown
<1>2. \A i \in DOMAIN loaded.directories : AbsTrim[loaded.directories[i].path] \in Dirs \cup {""}
  <2>1. CASE loaded \in ConfigFiles
    BY <2>1, ServerAssumption
  <2>2. CASE loaded \notin ConfigFiles
    <3>1. PICK raw \in ConfigFiles : loaded \in Cuts(raw)
      BY <1>1, <2>2 DEF Known
    <3>2. loaded # Refused
      BY <1>1 DEF Load
    <3>3. PICK k \in 0..Len(raw.routes) :
            loaded = [raw EXCEPT !.routes = SubSeq(@, 1, k), !.directories = <<>>]
      BY <3>1, <3>2 DEF Cuts
    <3>4. raw \in ConfigType
      BY ServerAssumption
    <3>5. loaded.directories = <<>>
      BY <3>3, <3>4 DEF ConfigType
    <3>6. DOMAIN loaded.directories = {}
      BY <3>5
    <3> QED BY <3>6
  <2> QED BY <2>1, <2>2
<1>3. /\ DOMAIN n.directories = DOMAIN loaded.directories
      /\ \A i \in DOMAIN n.directories : n.directories[i].path \in Dirs \cup {""}
  BY <1>1, <1>2, NormalisedFields
<1>4. c.directories = n.directories /\ ValidDirectories(n)
  BY <1>1, LoadFields DEF Valid
<1>5. \A i \in DOMAIN n.directories : n.directories[i].path \in Dirs
  BY <1>3, <1>4 DEF ValidDirectories
<1>6. Len(loaded.directories) \in Nat /\ DOMAIN loaded.directories = 1..Len(loaded.directories)
  BY <1>1, TypeFields, LenProperties
<1> HIDE DEF n
<1>7. router.readDirs \in Seq(Dirs)
  <2>1. router.readDirs = [i \in 1..Len(loaded.directories) |-> n.directories[i].path]
    BY <1>1, <1>3, <1>4, <1>6 DEF NewRouter, CacheReadDirs
  <2> DEFINE N == Len(loaded.directories)
  <2>2. N \in Nat /\ \A i \in 1..N : n.directories[i].path \in Dirs
    BY <1>3, <1>5, <1>6
  <2> HIDE DEF N
  <2>3. router.readDirs \in [1..N -> Dirs]
    BY <2>1, <2>2 DEF N
  <2> QED BY <2>2, <2>3
<1>8. router.writeDir \in Dirs \cup {NoDir}
  <2>1. router.writeDir = IF Writers(n) = {} THEN NoDir ELSE n.directories[Min(Writers(n))].path
    BY <1>1, <1>4 DEF NewRouter, CacheWriteDir, Writers
  <2>2. Writers(n) \subseteq DOMAIN n.directories /\ DOMAIN n.directories \subseteq Nat
    <3>1. Writers(n) \subseteq DOMAIN n.directories
      BY DEF Writers
    <3>2. DOMAIN n.directories = 1..Len(loaded.directories)
      BY <1>3, <1>6
    <3>3. \A N \in Nat : 1..N \subseteq Nat
      OBVIOUS
    <3> QED BY <1>6, <3>1, <3>2, <3>3
  <2>3. Writers(n) # {} => Min(Writers(n)) \in DOMAIN n.directories
    <3>1. Writers(n) \in SUBSET Nat
      BY <2>2
    <3> QED BY <2>2, <3>1, MinIsLeast
  <2> QED BY <1>5, <2>1, <2>3
<1> QED BY <1>7, <1>8

LEMMA RouterIsTyped ==
  ASSUME RunsLoaded, FilesKnown, main # "down"
  PROVE  router \in RouterType
<1> DEFINE c == Load(loaded)
           N == Len(loaded.routes)
           RouteOf == [prefix : Seq(STRING), stripPrefix : BOOLEAN, upstreams : Seq(UpstreamType)]
<1>1. loaded \in ConfigType /\ c # Refused /\ router = NewRouter(c)
  BY DEF RunsLoaded
<1>2. /\ N \in Nat /\ DOMAIN loaded.routes = 1..N
      /\ \A i \in 1..N : loaded.routes[i] \in RouteType
  BY <1>1, TypeFields, ListOf
<1>3. /\ DOMAIN c.routes = 1..N
      /\ \A k \in 1..N : /\ Written(loaded, k) \in 1..N
                         /\ c.routes[k].prefix = loaded.routes[Written(loaded, k)].prefix
                         /\ c.routes[k].stripPrefix = loaded.routes[Written(loaded, k)].stripPrefix
  BY <1>1, <1>2, LongestFirst
<1>4. \A k \in 1..N : c.routes[k].prefix \in Seq(STRING) /\ c.routes[k].stripPrefix \in BOOLEAN
  BY <1>2, <1>3 DEF RouteType
<1>5. c.retries \in Nat
  BY <1>1, LoadFields, NormalisedFields
<1> DEFINE names(i) == [k \in DOMAIN c.routes[i].upstreams |->
                         UpstreamByName(c, c.routes[i].upstreams[k])]
<1>6. router = [routes |-> [i \in DOMAIN c.routes |->
                              [prefix |-> c.routes[i].prefix, stripPrefix |-> c.routes[i].stripPrefix,
                               upstreams |-> names(i)]],
                retries |-> c.retries, readDirs |-> CacheReadDirs(c), writeDir |-> CacheWriteDir(c)]
  BY <1>1 DEF NewRouter
<1> HIDE DEF c, names
<1>7. router.readDirs \in Seq(Dirs) /\ router.writeDir \in Dirs \cup {NoDir}
  BY DirectoriesAreKnown
<1>8. \A i \in 1..N : names(i) \in Seq(UpstreamType)
  <2>1. DOMAIN router.routes = 1..N /\ \A i \in 1..N : router.routes[i].upstreams = names(i)
    BY <1>3, <1>6
  <2> QED BY <2>1, RoutesAreSound
<1>9. \A i \in 1..N : router.routes[i] \in RouteOf
  BY <1>3, <1>4, <1>6, <1>8
<1>10. router.routes \in Seq(RouteOf)
  <2>1. router.routes \in [1..N -> RouteOf]
    BY <1>3, <1>6, <1>9
  <2> HIDE DEF N, RouteOf
  <2> QED BY <1>2, <2>1
<1> HIDE DEF RouteOf
<1>11. /\ router = [routes |-> router.routes, retries |-> c.retries,
                    readDirs |-> router.readDirs, writeDir |-> router.writeDir]
  BY <1>6
<1> QED BY <1>5, <1>7, <1>10, <1>11 DEF RouterType, RouteOf

\* A hit is what the cache has under the request's own name.
LEMMA CachedIsHeld ==
  ASSUME RunsLoaded, FilesKnown, Stored, main # "down", NEW q \in Requests, Cached(q) # None
  PROVE  Cached(q) \in Requests /\ SameFile(q, Cached(q))
<1> DEFINE n == File(Key(q))
           found(i) == disk[router.readDirs[i]][n]
           at == {i \in DOMAIN router.readDirs : Key(q) # <<>> /\ found(i) # None}
<1>1. Cached(q) = IF at = {} THEN None ELSE found(Min(at))
  BY DEF Cached
<1>2. router.readDirs \in Seq(Dirs)
  BY DirectoriesAreKnown
<1>3. Len(router.readDirs) \in Nat /\ DOMAIN router.readDirs = 1..Len(router.readDirs)
  BY <1>2, ListOf
<1>4. at # {} /\ at \in SUBSET Nat
  <2>1. at # {}
    BY <1>1
  <2>2. at \subseteq 1..Len(router.readDirs)
    BY <1>3
  <2> HIDE DEF at
  <2> QED BY <1>3, <2>1, <2>2
<1>5. Min(at) \in at
  <2> HIDE DEF at
  <2> QED BY <1>4, MinIsLeast
<1>6. Min(at) \in DOMAIN router.readDirs /\ Key(q) # <<>>
  BY <1>5
<1>7. n \in Names
  BY <1>6, KeysNameFiles
<1>8. router.readDirs[Min(at)] \in Dirs
  BY <1>2, <1>6, ListOf
<1>9. Cached(q) = disk[router.readDirs[Min(at)]][n]
  BY <1>1, <1>4
<1> HIDE DEF n, at
<1>10. /\ Cached(q) \in Requests \cup {None} /\ Key(Cached(q)) # <<>> /\ File(Key(Cached(q))) = n
  BY <1>7, <1>8, <1>9 DEF Stored
<1> QED BY <1>6, <1>10 DEF SameFile, n

LEMMA InitHoldings == Init => Holdings
<1> SUFFICES ASSUME Init
             PROVE  Holdings
  OBVIOUS
<1>1. FilesKnown
  BY DEF Init, FilesKnown, Known
<1>2. Phases
  BY DEF Init, Phases
<1>3. Stored
  <2>1. disk = [d \in Dirs |-> [n \in Names |-> None]]
    BY DEF Init
  <2> QED BY <2>1 DEF Stored
<1>4. Held
  <2>1. handler = [h \in Handlers |-> Idle]
    BY DEF Init
  <2> QED BY <2>1 DEF Held, Idle
<1> QED BY <1>1, <1>2, <1>3, <1>4 DEF Holdings

LEMMA NextHoldings == IInv /\ Holdings /\ [Next]_vars => Holdings'
<1> SUFFICES ASSUME IInv, Holdings, [Next]_vars
             PROVE  FilesKnown' /\ Phases' /\ Stored' /\ Held'
  BY DEF Holdings
<1> USE DEF Holdings
<1>1. FilesKnown'
  <2>1. ASSUME NEW raw \in ConfigFiles, DownloadOpens(raw)
        PROVE  FilesKnown'
    <3>1. Refused \in Cuts(raw)
      BY DEF Cuts
    <3>2. Refused \in Known
      BY <3>1 DEF Known
    <3>3. file' \in Known
      BY <2>1, <3>2 DEF DownloadOpens
    <3>4. UNCHANGED <<main, loaded>>
      BY <2>1 DEF DownloadOpens, processVars
    <3> QED BY <3>3, <3>4 DEF FilesKnown
  <2>2. CASE DownloadWrites
    BY <2>2 DEF DownloadWrites, FilesKnown, Known, processVars, IInv, FileReadable
  <2>3. CASE DownloadBreaksOff
    BY <2>3 DEF DownloadBreaksOff, FilesKnown, Known, processVars, IInv, FileReadable
  <2>4. CASE Launch
    BY <2>4 DEF Launch, FilesKnown
  <2>5. CASE Exit
    BY <2>5 DEF Exit, FilesKnown
  <2>6. ASSUME UNCHANGED <<file, loaded>>, main' = "down" => main = "down", main = "down" => main' = "down"
        PROVE  FilesKnown'
    BY <2>6 DEF FilesKnown
  <2> QED
    BY <2>1, <2>2, <2>3, <2>4, <2>5, <2>6
       DEF Next, vars, processVars, SetServer, Listen, ListenFails, Notify, Signal, Stop, Expire,
           ShutdownReturns, Finish, ServeHTTP
<1>2. Phases'
  BY DEF Next, vars, processVars, Phases, DownloadOpens, DownloadWrites, DownloadBreaksOff, Launch,
         SetServer, Listen, ListenFails, Notify, Signal, Stop, Expire, ShutdownReturns, Finish,
         ServeHTTP, Exit
<1>3. Stored'
  <2>1. CASE Launch
    <3>1. disk' = Swept(router'.writeDir)
      BY <2>1 DEF Launch
    <3> DEFINE drops(d, n) == d = router'.writeDir /\ Len(n) = 2 /\ n[1] = <<".tmp">>
    <3>2. disk' = [d \in Dirs |-> [n \in Names |-> IF drops(d, n) THEN None ELSE disk[d][n]]]
      BY <3>1 DEF Swept
    <3> HIDE DEF drops
    <3> QED BY <3>2 DEF Stored
  <2>2. ASSUME NEW h \in Handlers, Finish(h)
        PROVE  Stored'
    <3> DEFINE q == handler[h].req
               n == File(Key(q))
               d == router.writeDir
    <3>1. CASE UNCHANGED disk
      BY <3>1 DEF Stored
    <3>2. CASE /\ handler[h].route # 0 /\ d # NoDir /\ Key(q) # <<>>
               /\ disk' = [disk EXCEPT ![d][n] = q]
      <4>1. handler[h] # Idle
        BY <3>2 DEF Idle
      <4>2. main # "down"
        BY <4>1 DEF IInv, Dispatched, RunsLoaded
      <4>3. d \in Dirs
        BY <3>2, <4>2, DirectoriesAreKnown DEF IInv
      <4>4. q \in Requests
        BY <2>2 DEF Finish, Held
      <4>5. n \in Names
        BY <3>2, <4>4, KeysNameFiles
      <4> HIDE DEF q, n, d
      <4>6. disk' \in [Dirs -> [Names -> Requests \cup {None}]]
        BY <3>2, <4>3, <4>4, <4>5 DEF Stored
      <4>7. ASSUME NEW e \in Dirs, NEW m \in Names
            PROVE  disk'[e][m] = IF e = d /\ m = n THEN q ELSE disk[e][m]
        BY <3>2, <4>3, <4>5 DEF Stored
      <4>8. Key(q) # <<>> /\ File(Key(q)) = n
        BY <3>2 DEF n
      <4> QED BY <4>6, <4>7, <4>8 DEF Stored
    <3> QED BY <2>2, <3>1, <3>2 DEF Finish
  <2>3. CASE UNCHANGED disk
    BY <2>3 DEF Stored
  <2> QED
    BY <2>1, <2>2, <2>3
       DEF Next, vars, processVars, SetServer, Listen, ListenFails, Notify, Signal, Stop, Expire,
           ShutdownReturns, ServeHTTP, DownloadOpens, DownloadWrites, DownloadBreaksOff, Exit
<1>4. Held'
  <2>1. ASSUME NEW h \in Handlers, NEW q \in Requests, ServeHTTP(h, q)
        PROVE  Held'
    <3> DEFINE new == IF Match(q) = 0 THEN [Idle EXCEPT !.req = q]
                      ELSE [req |-> q, route |-> Match(q),
                            target |-> Strip(router.routes[Match(q)], q.path), hit |-> Cached(q)]
    <3>1. handler' = [handler EXCEPT ![h] = new] /\ DOMAIN handler = Handlers /\ starter = "serving"
      BY <2>1 DEF ServeHTTP, IInv, Dispatched
    <3>2. main # "down"
      BY <3>1 DEF IInv, RunsLoaded
    <3>3. Cached(q) # None => Cached(q) \in Requests /\ SameFile(q, Cached(q))
      BY <3>2, CachedIsHeld DEF IInv
    <3>4. new.req = q /\ new.hit \in {None, Cached(q)}
      BY DEF Idle
    <3> HIDE DEF new
    <3>5. ASSUME NEW g \in Handlers
          PROVE  handler'[g] = IF g = h THEN new ELSE handler[g]
      BY <3>1
    <3> QED BY <3>3, <3>4, <3>5 DEF Held
  <2>2. ASSUME \A h \in Handlers : handler'[h] \in {handler[h], Idle}
        PROVE  Held'
    BY <2>2 DEF Held, Idle
  <2>3. CASE UNCHANGED handler \/ Exit
    BY <2>2, <2>3 DEF Exit
  <2>4. ASSUME NEW h \in Handlers, Finish(h)
        PROVE  Held'
    BY <2>2, <2>4 DEF Finish, IInv, Dispatched
  <2> QED
    BY <2>1, <2>3, <2>4
       DEF Next, vars, processVars, SetServer, Listen, ListenFails, Notify, Signal, Stop, Expire,
           ShutdownReturns, DownloadOpens, DownloadWrites, DownloadBreaksOff, Launch
<1> QED BY <1>1, <1>2, <1>3, <1>4

\* Whatever is asked, stored, swept, restarted and reconfigured, in whatever order: a
\* file in a cache directory is named by the key of the request it answers, and a
\* hit is the file that the request's own key names (cache.go:110-150,222-245).
THEOREM HoldingsInvariance == Spec => []Holdings
BY InitHoldings, NextHoldings, Invariant, PTL DEF Spec

\* Whatever downloads, restarts, signals and requests do, in any order, the process
\* keeps values of their types: a router, with upstreams and directories that exist,
\* while it runs and only then, and requests only below it (main.go:47-83,
\* router.go:44-110).
THEOREM ServerTypeOK == Spec => []TypeOK
<1>1. IInv /\ Holdings => TypeOK
  <2> SUFFICES ASSUME IInv, Holdings
               PROVE  TypeOK
    OBVIOUS
  <2>1. main # "down" => router \in RouterType
    BY RouterIsTyped DEF IInv, Holdings
  <2>2. router \in RouterType \cup {None} /\ (router = None <=> main = "down")
    BY <2>1, ServerAssumption DEF IInv, RunsLoaded
  <2>3. ASSUME NEW h \in Handlers, main = "down"
        PROVE  handler[h] = Idle
    BY <2>3 DEF IInv, Dispatched, RunsLoaded
  <2>4. ASSUME NEW h \in Handlers, handler[h].req # None
        PROVE  handler[h].route \in 0..Len(router.routes)
    <3> DEFINE found == {i \in DOMAIN router.routes :
                           HasPrefix(handler[h].req.path, router.routes[i].prefix)}
    <3>1. handler[h] # Idle
      BY <2>4 DEF Idle
    <3>2. main # "down" /\ handler[h].route = IF found = {} THEN 0 ELSE Min(found)
      BY <3>1 DEF IInv, Dispatched, RunsLoaded, Match
    <3>3. router.routes \in Seq([prefix : Seq(STRING), stripPrefix : BOOLEAN, upstreams : Seq(UpstreamType)])
      BY <2>1, <3>2 DEF RouterType
    <3>4. Len(router.routes) \in Nat /\ DOMAIN router.routes = 1..Len(router.routes)
      BY <3>3, LenProperties
    <3>5. found \in SUBSET Nat /\ found \subseteq 1..Len(router.routes)
      BY <3>4
    <3> HIDE DEF found
    <3>6. found # {} => Min(found) \in found
      BY <3>5, MinIsLeast
    <3>7. CASE found = {}
      BY <3>2, <3>4, <3>7
    <3>8. CASE found # {}
      <4>1. handler[h].route \in found
        BY <3>2, <3>6, <3>8
      <4>2. \A N \in Nat : 1..N \subseteq 0..N
        OBVIOUS
      <4> QED BY <3>4, <3>5, <4>1, <4>2
    <3> QED BY <3>7, <3>8
  <2> QED
    BY <2>2, <2>3, <2>4
       DEF TypeOK, Holdings, FilesKnown, Known, Phases, Stored, Held, IInv, FileReadable, RunsLoaded
<1> QED BY <1>1, Invariant, HoldingsInvariance, PTL

\* Whatever configurations, routes, restarts and downloads there were, one plain path
\* with its query is never answered with the file of another: names of files tell
\* paths and queries apart (cache.go:5-6,222-245).
THEOREM HitsAreOwn == Spec => []HitsOwnRequest
<1>1. Holdings => HitsOwnRequest
  <2> SUFFICES ASSUME Holdings, NEW h \in Handlers, handler[h].hit # None,
                      IsPlain(handler[h].req.path), IsPlain(handler[h].hit.path)
               PROVE  /\ handler[h].hit.path = handler[h].req.path
                      /\ handler[h].hit.query = handler[h].req.query
    BY DEF HitsOwnRequest
  <2> DEFINE q == handler[h].req
             t == handler[h].hit
  <2>1. q \in Requests /\ t \in Requests /\ SameFile(q, t)
    BY DEF Holdings, Held
  <2>2. IsPlain(q.path) /\ IsPlain(t.path)
    OBVIOUS
  <2> HIDE DEF q, t
  <2>3. q.path = t.path /\ q.query = t.query
    BY <2>1, <2>2, FilesAreApart DEF SameFile
  <2> QED BY <2>3 DEF q, t
<1> QED BY <1>1, HoldingsInvariance, PTL
=============================================================================
