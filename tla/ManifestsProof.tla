--------------------------- MODULE ManifestsProof ---------------------------
(* For any documents, upstreams, routes and rewrite settings: what is kept *)
(* is whole, what is not named like a tarball is never answered from the   *)
(* cache, links of manifests lead back through the proxy, and a 304        *)
(* confirms what a 200 would carry.                                        *)
EXTENDS Manifests, PriorityProof

Shape ==
  /\ doc \in Docs /\ route \in Routes
  /\ DOMAIN rest = Clients /\ DOMAIN best = Clients
  /\ DOMAIN reply = Clients /\ DOMAIN have = Clients

\* Only upstreams are tried and relayed from.
Tried == \A c \in Clients : rest[c] \in Seq(Upstreams) /\ best[c] \in Upstreams \cup {0}

\* The cache keeps nothing of a document that is not named like a tarball.
NotStored == Lower(Last(doc)) \notin TarballSuffixes => stored = None

IInv == Shape /\ Tried /\ NotStored /\ KeptWhole

LEMMA InitIInv == Init => IInv
<1> SUFFICES ASSUME Init
             PROVE  Tried
  BY DEF Init, IInv, Shape, NotStored, KeptWhole
<1> QED BY EmptySeq DEF Init, Tried

-----------------------------------------------------------------------------
(* Paths, and what Forward reads.                                          *)

\* Stripping or keeping the prefix, a path ends as its document's does.
LEMMA LastOfClientPath ==
  ASSUME Shape
  PROVE  Last(ClientPath) = Last(doc)
<1>1. doc \in Seq(STRING) /\ Len(doc) > 1 /\ route.prefix \in Seq(STRING)
  BY ManifestsAssumption DEF Shape
<1>2. CASE ~route.stripPrefix
  BY <1>2 DEF ClientPath
<1>3. CASE route.stripPrefix
  <2> DEFINE p == route.prefix
             t == Tail(doc)
  <2>1. doc # <<>> /\ Len(doc) \in Nat /\ Len(p) \in Nat
    BY <1>1, LenProperties, EmptySeq
  <2>2. t \in Seq(STRING) /\ Len(t) = Len(doc) - 1 /\ \A i \in 1..Len(t) : t[i] = doc[i + 1]
    BY <1>1, <2>1, HeadTailProperties
  <2> HIDE DEF t
  <2>3. /\ Len(p \o t) = Len(p) + Len(t)
        /\ \A i \in 1..Len(p) + Len(t) : (p \o t)[i] = IF i <= Len(p) THEN p[i] ELSE t[i - Len(p)]
    BY <1>1, <2>2, ConcatProperties
  <2>4. (p \o t)[Len(p) + Len(t)] = t[Len(t)]
    BY <1>1, <2>1, <2>2, <2>3
  <2>5. t[Len(t)] = doc[Len(doc)]
    BY <1>1, <2>1, <2>2
  <2> QED BY <1>3, <2>3, <2>4, <2>5 DEF ClientPath, Last, t
<1> QED BY <1>2, <1>3

LEMMA NotCachable ==
  ASSUME Shape, Lower(Last(doc)) \notin TarballSuffixes
  PROVE  ~IsCachablePath(ClientPath)
BY LastOfClientPath DEF IsCachablePath

\* The limit cuts nothing that is not longer.
LEMMA ReadsWhole ==
  ASSUME Shape, Size[doc] <= Limit
  PROVE  ReadLimit = Size[doc]
<1>1. Size[doc] \in Nat /\ Limit \in Nat
  BY ManifestsAssumption DEF Shape
<1>2. {Size[doc], Limit} \in SUBSET Nat /\ {Size[doc], Limit} # {}
  BY <1>1
<1>3. \E x \in {Size[doc], Limit} : \A y \in {Size[doc], Limit} : x <= y
  BY <1>1
<1>4. /\ ReadLimit \in {Size[doc], Limit}
      /\ \A y \in {Size[doc], Limit} : ReadLimit <= y
  BY <1>3 DEF ReadLimit, Min
<1> QED BY <1>1, <1>4

LEMMA SizesAndVersions ==
  ASSUME Shape
  PROVE  /\ Size[doc] \in Nat \ {0} /\ MaxVersion[doc] \in Nat \ {0}
         /\ ReadLimit \in 0..Size[doc]
<1>1. Size[doc] \in Nat \ {0} /\ MaxVersion[doc] \in Nat \ {0} /\ Limit \in Nat
  BY ManifestsAssumption DEF Shape
<1>2. \E x \in {Size[doc], Limit} : \A y \in {Size[doc], Limit} : x <= y
  BY <1>1
<1>3. /\ ReadLimit \in {Size[doc], Limit}
      /\ \A y \in {Size[doc], Limit} : ReadLimit <= y
  BY <1>2 DEF ReadLimit, Min
<1> QED BY <1>1, <1>3

\* What upstreams send, and how much of it.
LEMMA SentParts ==
  ASSUME NEW u, NEW framing, NEW n
  PROVE  LET body == Sent(u, framing, n)
         IN /\ DOMAIN body = {"version", "got", "cut", "links"}
            /\ body.version = version[u] /\ body.got = n
            /\ body.cut = IF n < Size[doc] THEN framing ELSE "not"
<1> DEFINE v == version[u]
           end == IF n < Size[doc] THEN framing ELSE "not"
           links == IF doc \in ManifestDocs
                    THEN [s \in 0..version[u] |->
                           [scheme |-> "https", host |-> Origin[u], path |-> TarballPath]]
                    ELSE <<>>
<1>1. Sent(u, framing, n) = [version |-> v, got |-> n, cut |-> end, links |-> links]
  BY DEF Sent
<1> HIDE DEF v, end, links
<1> DEFINE made == [version |-> v, got |-> n, cut |-> end, links |-> links]
<1>2. /\ DOMAIN made = {"version", "got", "cut", "links"}
      /\ made.version = v /\ made.got = n /\ made.cut = end
  OBVIOUS
<1> HIDE DEF made
<1>3. Sent(u, framing, n) = made
  BY <1>1 DEF made
<1> QED BY <1>2, <1>3 DEF v, end

\* Rewriting changes links, not versions or lengths.
LEMMA RewritingKeeps ==
  ASSUME NEW body, NEW base, DOMAIN body = {"version", "got", "cut", "links"}
  PROVE  /\ RewriteTarballs(body, base).version = body.version
         /\ RewriteTarballs(body, base).got = body.got
         /\ RewriteTarballs(body, base).cut = body.cut
<1>1. \A x : /\ [body EXCEPT !.links = x].version = body.version
             /\ [body EXCEPT !.links = x].got = body.got
             /\ [body EXCEPT !.links = x].cut = body.cut
  OBVIOUS
<1> QED BY <1>1 DEF RewriteTarballs

\* What is short of its announced length is not taken for whole, and what was read
\* to the end of its chunks is whole.
LEMMA SentIsWhole ==
  ASSUME Shape, NEW u, NEW framing, NEW n \in 0..Size[doc]
  PROVE  /\ ~Short(framing, n) /\ framing \in Framings => Whole(Sent(u, framing, n), FALSE)
         /\ \A base : LET body == RewriteTarballs(Sent(u, framing, n), base)
                      IN n = Size[doc] \/ framing = "close" => Whole(body, TRUE)
<1> DEFINE body == Sent(u, framing, n)
<1>1. Size[doc] \in Nat
  BY ManifestsAssumption DEF Shape
<1>2. /\ DOMAIN body = {"version", "got", "cut", "links"} /\ body.got = n
      /\ body.cut = IF n < Size[doc] THEN framing ELSE "not"
  BY SentParts
<1> HIDE DEF body
<1>3. ~(n < Size[doc]) => n = Size[doc]
  BY <1>1
<1>4. ASSUME ~Short(framing, n), framing \in Framings
      PROVE  Whole(body, FALSE)
  <2>1. framing \in {"chunks", "close"} \/ ~(n < Size[doc])
    BY <1>4 DEF Short, Framings
  <2> QED BY <1>2, <1>3, <2>1 DEF Whole
<1>5. ASSUME NEW base, n = Size[doc] \/ framing = "close"
      PROVE  Whole(RewriteTarballs(body, base), TRUE)
  <2>1. /\ RewriteTarballs(body, base).got = body.got
        /\ RewriteTarballs(body, base).cut = body.cut
    BY <1>2, RewritingKeeps
  <2>2. body.got = Size[doc] \/ body.cut = "close"
    BY <1>2, <1>3, <1>5
  <2> QED BY <2>1, <2>2 DEF Whole
<1> QED BY <1>4, <1>5 DEF body

LEMMA AskedUpstreams ==
  ASSUME NEW alive \in RaceOutcomes(Upstreams, Rank)
  PROVE  /\ alive \in Seq(Upstreams)
         /\ ByPriority([u \in Upstreams |-> u], Rank) \in Seq(Upstreams)
<1> DEFINE whole == [u \in Upstreams |-> u]
<1>1. Len(Rank) \in Nat /\ Upstreams = 1..Len(Rank) /\ \A u \in Upstreams : Rank[u] \in Int
  <2>1. Rank \in Seq(Int)
    BY ManifestsAssumption
  <2> QED BY <2>1, LenProperties, ElementOfSeq DEF Upstreams
<1>2. IsFiniteSet(Upstreams)
  <2>1. 1 \in Int /\ Len(Rank) \in Int
    BY <1>1
  <2> QED BY <1>1, <2>1, FS_Interval
<1>3. whole \in Seq(Upstreams) /\ \A i, j \in DOMAIN whole : i # j => whole[i] # whole[j]
  BY <1>1
<1> HIDE DEF whole
<1>4. ByPriority(whole, Rank) \in Seq(Upstreams)
  BY <1>1, <1>3, SortedList
<1>5. alive \in Seq(Upstreams)
  BY <1>1, <1>2, OutcomesAreSorted
<1> QED BY <1>4, <1>5 DEF whole

\* What is put before a path is what is trimmed from it.
LEMMA Prefixed ==
  ASSUME NEW Text, NEW s \in Seq(Text), NEW t \in Seq(Text)
  PROVE  HasPrefix(s \o t, s) /\ TrimPrefix(s \o t, s) = t
<1> DEFINE o == s \o t
           a == SubSeq(s, 1, Len(s))
           b == SubSeq(o, 1, Len(s))
           c == SubSeq(o, Len(s) + 1, Len(o))
<1>1. /\ Len(s) \in Nat /\ Len(t) \in Nat /\ o \in Seq(Text) /\ Len(o) = Len(s) + Len(t)
      /\ \A i \in 1..Len(s) + Len(t) : o[i] = IF i <= Len(s) THEN s[i] ELSE t[i - Len(s)]
  BY LenProperties, ConcatProperties
<1> HIDE DEF o
<1>2. \A i \in 1..Len(o) : o[i] \in Text
  BY <1>1, ElementOfSeq
<1>3. a = s
  BY SubSeqFull
<1>4. b \in Seq(Text) /\ Len(b) = Len(s) /\ \A i \in 1..Len(s) : b[i] = o[i]
  <2>1. 1 \in Int /\ Len(s) \in Int /\ \A i \in 1..Len(s) : o[i] \in Text
    BY <1>1, <1>2
  <2>2. /\ b \in Seq(Text) /\ Len(b) = IF 1 <= Len(s) THEN Len(s) - 1 + 1 ELSE 0
        /\ \A i \in 1..Len(s) - 1 + 1 : b[i] = o[1 + i - 1]
    BY <2>1, SubSeqProperties
  <2> HIDE DEF b
  <2> QED BY <1>1, <2>2
<1>5. c \in Seq(Text) /\ Len(c) = Len(t) /\ \A i \in 1..Len(t) : c[i] = o[Len(s) + i]
  <2> DEFINE m == Len(s) + 1
             n == Len(o)
  <2>1. m \in Int /\ n \in Int /\ \A i \in m..n : o[i] \in Text
    BY <1>1, <1>2
  <2> HIDE DEF m, n
  <2>2. /\ SubSeq(o, m, n) \in Seq(Text) /\ Len(SubSeq(o, m, n)) = IF m <= n THEN n - m + 1 ELSE 0
        /\ \A i \in 1..n - m + 1 : SubSeq(o, m, n)[i] = o[m + i - 1]
    BY <2>1, SubSeqProperties
  <2>3. n - m + 1 = Len(t) /\ \A i \in 1..Len(t) : m + i - 1 = Len(s) + i
    BY <1>1 DEF m, n
  <2>4. (m <= n) => n - m + 1 = Len(t)
    BY <2>3
  <2>5. ~(m <= n) => Len(t) = 0
    BY <1>1 DEF m, n
  <2>6. c = SubSeq(o, m, n)
    BY DEF m, n
  <2> HIDE DEF c
  <2> QED BY <2>2, <2>3, <2>4, <2>5, <2>6
<1> HIDE DEF b, c
<1>6. b = s
  <2>1. \A i \in 1..Len(s) : b[i] = s[i]
    BY <1>1, <1>4
  <2> QED BY <1>4, <2>1, SeqEqual
<1>7. c = t
  <2>1. \A i \in 1..Len(t) : c[i] = t[i]
    BY <1>1, <1>5
  <2> QED BY <1>5, <2>1, SeqEqual
<1>8. HasPrefix(o, s)
  BY <1>1, <1>3, <1>6 DEF HasPrefix, IsPrefix, b
<1> QED BY <1>7, <1>8 DEF TrimPrefix, o, c

LEMMA LongerIsOther ==
  ASSUME NEW Text, NEW s \in Seq(Text), Len(s) > 1, NEW t, Len(t) = 1
  PROVE  s # t
<1>1. Len(s) \in Nat
  BY LenProperties
<1>2. \A n \in Nat : n > 1 => n # 1
  OBVIOUS
<1>3. Len(s) # 1
  BY <1>1, <1>2, Zenon
<1> QED BY <1>3, Zenon

\* A path is joined to an upstream without a base path once only.
LEMMA JoinedOnce ==
  ASSUME NEW Text, "/" \in Text, NEW b \in Seq(Text), NEW r \in Seq(Text), Len(r) > 1
  PROVE  /\ JoinPath(b, r) # <<>>
         /\ b \in {<<>>, <<"/">>} => JoinPath(b, JoinPath(b, r)) = JoinPath(b, r)
<1> DEFINE root == <<"/">>
           rooted == IF HasPrefix(r, root) THEN r ELSE root \o r
<1>1. root \in Seq(Text) /\ Len(root) = 1
  <2> DEFINE u == "/"
  <2>1. u \in Text
    OBVIOUS
  <2> HIDE DEF u
  <2>2. <<u>> \in Seq(Text) /\ Len(<<u>>) = 1
    BY <2>1
  <2> QED BY <2>2 DEF u
<1>2. JoinPath(b, r) =
        IF r \in {<<>>, root} THEN IF b = <<>> THEN root ELSE b
        ELSE IF b \in {<<>>, root} THEN rooted
        ELSE (IF Last(b) = "/" THEN Front(b) ELSE b) \o rooted
  BY DEF JoinPath
<1>3. ASSUME NEW p \in Seq(Text), Len(p) > 1
      PROVE  p \notin {<<>>, root} /\ p # <<>>
  <2>1. Len(<<>>) = 0
    OBVIOUS
  <2>2. p # <<>>
    BY <1>3, <2>1
  <2> HIDE DEF root
  <2>3. p # root
    BY <1>1, <1>3, LongerIsOther
  <2> QED BY <2>2, <2>3
<1>4. rooted \in Seq(Text) /\ Len(rooted) > 1 /\ HasPrefix(rooted, root)
  <2> HIDE DEF root
  <2>1. /\ root \o r \in Seq(Text) /\ Len(root \o r) = Len(root) + Len(r) /\ Len(r) \in Nat
    BY <1>1, ConcatProperties, LenProperties
  <2>2. HasPrefix(root \o r, root)
    BY <1>1, Prefixed
  <2>3. CASE HasPrefix(r, root)
    BY <2>3
  <2>4. CASE ~HasPrefix(r, root)
    BY <1>1, <2>1, <2>2, <2>4
  <2> QED BY <2>3, <2>4
<1>5. \A p : p \notin {<<>>, root} /\ HasPrefix(p, root) /\ b \in {<<>>, root} => JoinPath(b, p) = p
  BY DEF JoinPath
<1> HIDE DEF root, rooted
<1>6. CASE b \in {<<>>, root}
  <2>1. JoinPath(b, r) = rooted
    BY <1>2, <1>3, <1>6
  <2>2. JoinPath(b, rooted) = rooted
    BY <1>3, <1>4, <1>5, <1>6
  <2> QED BY <1>3, <1>4, <2>1, <2>2
<1>7. CASE b \notin {<<>>, root}
  <2> DEFINE x == IF Last(b) = "/" THEN Front(b) ELSE b
  <2>1. Front(b) \in Seq(Text)
    <3>1. Len(b) \in Nat /\ \A i \in 1..Len(b) - 1 : b[i] \in Text
      BY LenProperties, ElementOfSeq
    <3>2. 1 \in Int /\ Len(b) - 1 \in Int
      BY <3>1
    <3> QED BY <3>1, <3>2, SubSeqProperties DEF Front
  <2>2. x \in Seq(Text)
    BY <2>1
  <2>3. JoinPath(b, r) = x \o rooted
    BY <1>2, <1>3, <1>7
  <2> HIDE DEF x
  <2>4. Len(x \o rooted) = Len(x) + Len(rooted) /\ Len(x) \in Nat /\ Len(rooted) \in Nat
    BY <1>4, <2>2, ConcatProperties, LenProperties
  <2>5. Len(<<>>) = 0
    OBVIOUS
  <2>6. x \o rooted # <<>>
    BY <1>4, <2>4, <2>5
  <2> QED BY <1>7, <2>3, <2>6 DEF root
<1> QED BY <1>6, <1>7 DEF root

\* What is left of the tail of a path is left of the path.
LEMMA EndOfTail ==
  ASSUME NEW Text, NEW s \in Seq(Text), NEW i \in Nat, 1 <= i, i < Len(s)
  PROVE  SubSeq(Tail(s), i, Len(Tail(s))) = SubSeq(s, i + 1, Len(s))
<1> DEFINE t == Tail(s)
           n == Len(s)
           k == Len(s) - 1
<1>1. n \in Nat /\ n > 0 /\ k \in Nat /\ s # <<>>
  <2>1. n \in Nat
    BY LenProperties
  <2>2. Len(<<>>) = 0
    OBVIOUS
  <2> QED BY <2>1, <2>2
<1>2. t \in Seq(Text) /\ Len(t) = k /\ \A j \in 1..k : t[j] = s[j + 1]
  BY <1>1, HeadTailProperties
<1> HIDE DEF t
<1> DEFINE a == SubSeq(t, i, k)
           b == SubSeq(s, i + 1, n)
<1>3. /\ a \in Seq(Text) /\ Len(a) = IF i <= k THEN k - i + 1 ELSE 0
      /\ \A j \in 1..k - i + 1 : a[j] = t[i + j - 1]
  <2>1. i \in Int /\ k \in Int /\ \A j \in i..k : t[j] \in Text
    BY <1>1, <1>2, ElementOfSeq
  <2> HIDE DEF k
  <2> QED BY <2>1, SubSeqProperties
<1>4. /\ b \in Seq(Text) /\ Len(b) = IF i + 1 <= n THEN n - (i + 1) + 1 ELSE 0
      /\ \A j \in 1..n - (i + 1) + 1 : b[j] = s[(i + 1) + j - 1]
  <2>1. i + 1 \in Int /\ n \in Int /\ \A j \in i + 1..n : s[j] \in Text
    BY <1>1, ElementOfSeq
  <2> HIDE DEF n
  <2> QED BY <2>1, SubSeqProperties
<1> HIDE DEF a, b
<1>5. Len(a) = Len(b) /\ Len(a) = n - i
  BY <1>1, <1>3, <1>4
<1>6. ASSUME NEW j \in 1..Len(a)
      PROVE  a[j] = b[j]
  <2>1. j \in 1..n - i
    BY <1>5
  <2>2. a[j] = t[i + j - 1] /\ i + j - 1 \in 1..k
    BY <1>1, <1>3, <2>1
  <2>3. t[i + j - 1] = s[i + j - 1 + 1]
    BY <1>2, <2>2
  <2>4. b[j] = s[(i + 1) + j - 1] /\ (i + 1) + j - 1 = i + j - 1 + 1
    BY <1>1, <1>4, <2>1
  <2> QED BY <2>2, <2>3, <2>4
<1>7. a = b
  BY <1>3, <1>4, <1>5, <1>6, SeqEqual
<1> QED BY <1>2, <1>7 DEF a, b, t

\* The path of a manifest is told from others, whatever the route strips.
LEMMA ManifestsAreTold ==
  ASSUME Shape, doc \in ManifestDocs
  PROVE  IsPackageMetadataPath(Path)
<1> DEFINE t == Tail(doc)
           p == route.prefix
<1>1. /\ doc \in Seq(STRING) /\ Len(doc) > 1 /\ p \in Seq(STRING)
      /\ IsPackageMetadataPath(doc) /\ t # <<"/">>
  BY ManifestsAssumption DEF Shape
<1>2. CASE ~route.stripPrefix
  BY <1>1, <1>2 DEF Path, ClientPath, Strip
<1>3. CASE route.stripPrefix
  <2>1. doc # <<>> /\ Len(doc) \in Nat
    BY <1>1, LenProperties, EmptySeq
  <2>2. t \in Seq(STRING) /\ Len(t) = Len(doc) - 1
    BY <1>1, <2>1, HeadTailProperties
  <2>9. t # <<"/">>
    BY <1>1
  <2>3. t = SubSeq(doc, 2, Len(doc))
    BY <1>1, <2>1, TailIsSubSeq
  <2> HIDE DEF t, p
  <2>4. Path = t
    <3>1. ClientPath = p \o t /\ Path = TrimPrefix(ClientPath, p)
      BY <1>3 DEF Path, ClientPath, Strip, t, p
    <3> QED BY <1>1, <2>2, <3>1, Prefixed
  <2>5. t # <<>>
    <3>1. Len(<<>>) = 0
      OBVIOUS
    <3> QED BY <1>1, <2>1, <2>2, <3>1
  <2>6. DOMAIN t = 1..Len(t) /\ DOMAIN doc = 1..Len(doc)
    BY <1>1, <2>2, LenProperties
  <2>7. ASSUME NEW i \in DOMAIN t
        PROVE  SubSeq(t, i, Len(t)) = SubSeq(doc, i + 1, Len(doc)) /\ i + 1 \in DOMAIN doc
    <3>1. i \in Nat /\ 1 <= i /\ i < Len(doc) /\ i + 1 \in 1..Len(doc)
      BY <1>1, <2>1, <2>2, <2>6
    <3>2. SubSeq(t, i, Len(t)) = SubSeq(doc, i + 1, Len(doc))
      BY <1>1, <3>1, EndOfTail DEF t
    <3> QED BY <2>6, <3>1, <3>2
  <2>8. ~\E i \in DOMAIN t : HasPrefix(SubSeq(t, i, Len(t)), <<"/", "-", "/">>)
    BY <1>1, <2>7 DEF IsPackageMetadataPath
  <2> QED BY <2>4, <2>5, <2>8, <2>9 DEF IsPackageMetadataPath
<1> QED BY <1>2, <1>3

-----------------------------------------------------------------------------
(* Steps.                                                                  *)

LEMMA RespondTries ==
  ASSUME Shape, Tried, NEW c \in Clients, NEW kind, NEW body, NEW complete,
         Respond(c, kind, body, complete)
  PROVE  Shape' /\ Tried'
<1>1. Shape'
  BY DEF Respond, Shape
<1>2. rest' = [rest EXCEPT ![c] = <<>>] /\ best' = [best EXCEPT ![c] = 0]
  BY DEF Respond
<1>3. <<>> \in Seq(Upstreams)
  BY EmptySeq
<1> QED BY <1>1, <1>2, <1>3 DEF Shape, Tried, Upstreams

LEMMA FallBackTries ==
  ASSUME Shape, Tried, NEW c \in Clients, rest[c] # <<>>, NEW definitive, FallBack(c, definitive)
  PROVE  Shape' /\ Tried'
<1>1. Head(rest[c]) \in Upstreams /\ Tail(rest[c]) \in Seq(Upstreams)
  BY HeadTailProperties DEF Tried
<1>2. /\ rest' = [rest EXCEPT ![c] = Tail(rest[c])]
      /\ \/ best' = [best EXCEPT ![c] = Head(rest[c])]
         \/ best' = best
  BY DEF FallBack
<1>3. Shape'
  BY DEF FallBack, Shape
<1> QED BY <1>1, <1>2, <1>3 DEF Shape, Tried, Upstreams

LEMMA AskKeeps ==
  ASSUME IInv, NEW c \in Clients, NEW from, NEW conditional, Ask(c, from, conditional)
  PROVE  IInv'
<1> USE DEF IInv
<1>1. PICK alive \in RaceOutcomes(Upstreams, Rank) : rest' = [rest EXCEPT ![c] =
        IF alive = <<>> THEN ByPriority([u \in Upstreams |-> u], Rank) ELSE alive]
  BY DEF Ask
<1>2. /\ alive \in Seq(Upstreams)
      /\ ByPriority([u \in Upstreams |-> u], Rank) \in Seq(Upstreams)
  BY AskedUpstreams
<1>3. UNCHANGED <<doc, route, best, have, stored>> /\ reply' = [reply EXCEPT ![c] = None]
  BY DEF Ask
<1>4. Tried'
  BY <1>1, <1>2, <1>3 DEF Tried, Shape
<1>5. Shape' /\ NotStored'
  BY <1>1, <1>3 DEF Shape, NotStored
<1>6. KeptWhole'
  BY <1>3 DEF KeptWhole, Whole, Path, ClientPath
<1> QED BY <1>4, <1>5, <1>6

LEMMA HitKeeps ==
  ASSUME IInv, NEW c \in Clients, NEW from, Hit(c, from)
  PROVE  IInv'
<1> USE DEF IInv
<1>1. /\ UNCHANGED <<doc, route, rest, best, stored>> /\ stored # None
      /\ \E x : reply' = [reply EXCEPT ![c] = x]
      /\ have' = [have EXCEPT ![c] =
           [body |-> stored, kind |-> "hit", from |-> from, setting |-> setting]]
  BY DEF Hit, InCache
<1>2. Shape' /\ Tried' /\ NotStored'
  BY <1>1 DEF Shape, Tried, NotStored
<1>3. Path' = Path
  BY <1>1 DEF Path, ClientPath
<1>4. /\ have'[c].body = stored /\ have'[c].kind # "reply"
      /\ \A d \in Clients : d # c => have'[d] = have[d]
  <2> DEFINE have1 == [body |-> stored, kind |-> "hit", from |-> from, setting |-> setting]
  <2>1. have1.body = stored /\ have1.kind # "reply"
    OBVIOUS
  <2>2. have' = [have EXCEPT ![c] = have1]
    BY <1>1
  <2> HIDE DEF have1
  <2> QED BY <2>1, <2>2 DEF Shape
<1>5. KeptWhole'
  <2>1. \A b, x : Whole(b, x)' <=> Whole(b, x)
    BY <1>1 DEF Whole
  <2>2. \A d \in Clients : Whole(have'[d].body, /\ have'[d].kind = "reply" /\ have'[d].setting.enabled
                                               /\ IsPackageMetadataPath(Path))
                             <=> IF d = c THEN Whole(stored, FALSE)
                                 ELSE Whole(have[d].body, /\ have[d].kind = "reply"
                                                          /\ have[d].setting.enabled
                                                          /\ IsPackageMetadataPath(Path))
    BY <1>4 DEF Whole
  <2>3. \A d \in Clients : d # c => have'[d] = have[d]
    BY <1>4
  <2>4. UNCHANGED <<doc, stored>> /\ stored # None
    BY <1>1
  <2> QED BY <1>3, <2>2, <2>3, <2>4 DEF KeptWhole, Whole
<1> QED BY <1>2, <1>5

LEMMA FallBackKeeps ==
  ASSUME IInv, NEW c \in Clients, rest[c] # <<>>, NEW definitive, FallBack(c, definitive)
  PROVE  IInv'
<1> USE DEF IInv
<1>1. Shape' /\ Tried'
  BY FallBackTries
<1>2. NotStored' /\ KeptWhole'
  BY DEF FallBack, NotStored, KeptWhole, Whole, Path, ClientPath
<1> QED BY <1>1, <1>2

\* What the tee keeps is what it had, or what a path that it may cache brought.
LEMMA KeptIs ==
  ASSUME NEW body, NEW complete
  PROVE  \/ Kept(body, complete) = stored
         \/ Kept(body, complete) = body /\ complete /\ IsCachablePath(ClientPath)
BY DEF Kept

\* A response whose body is whole, and is stored only where the cache may.
LEMMA RespondKeeps ==
  ASSUME IInv, NEW c \in Clients, NEW kind, NEW body, NEW complete,
         Respond(c, kind, body, complete),
         \/ stored' = stored
         \/ stored' = body /\ complete /\ IsCachablePath(ClientPath),
         Size[doc] <= Limit \/ ~IsPackageMetadataPath(Path)
           => (body # None /\ complete => Whole(body, kind = "reply" /\ Rewrites))
  PROVE  IInv'
<1> USE DEF IInv
<1>1. Shape' /\ Tried'
  BY RespondTries
<1>2. NotStored'
  <2>1. doc' = doc
    BY DEF Respond
  <2> QED BY <2>1, NotCachable DEF NotStored
<1>3. KeptWhole'
  <2>1. UNCHANGED <<doc, route, setting>>
    BY DEF Respond
  <2>2. Path' = Path
    BY <2>1 DEF Path, ClientPath
  <2>3. ASSUME NEW b, NEW x
        PROVE  Whole(b, x)' <=> Whole(b, x)
    BY <2>1 DEF Whole
  <2>4. \A b, x : Whole(b, x) => Whole(b, FALSE)
    BY DEF Whole
  <2>5. ASSUME Size[doc] <= Limit \/ ~IsPackageMetadataPath(Path),
               NEW d \in Clients, have'[d] # None
        PROVE  Whole(have'[d].body, /\ have'[d].kind = "reply" /\ have'[d].setting.enabled
                                    /\ IsPackageMetadataPath(Path))
    <3> DEFINE have1 == [body |-> body, kind |-> kind, from |-> asked[c].from, setting |-> setting]
    <3>1. have' = IF body # None /\ complete THEN [have EXCEPT ![c] = have1] ELSE have
      BY DEF Respond
    <3>2. have1.body = body /\ have1.kind = kind /\ have1.setting = setting
      OBVIOUS
    <3> HIDE DEF have1
    <3>3. have'[d] = have[d] \/ (have'[d] = have1 /\ body # None /\ complete)
      BY <3>1 DEF Shape
    <3>4. CASE have'[d] = have[d]
      BY <2>5, <3>4 DEF KeptWhole
    <3>5. CASE have'[d] = have1 /\ body # None /\ complete
      <4>1. Whole(body, kind = "reply" /\ Rewrites)
        BY <2>5, <3>5
      <4>2. Whole(body, kind = "reply" /\ setting.enabled /\ IsPackageMetadataPath(Path))
        BY <4>1 DEF Rewrites, Whole
      <4> QED BY <3>2, <3>5, <4>2
    <3> QED BY <3>3, <3>4, <3>5
  <2>6. ASSUME Size[doc] <= Limit \/ ~IsPackageMetadataPath(Path), stored' # None
        PROVE  Whole(stored', FALSE)
    <3>1. CASE stored' = stored
      BY <2>6, <3>1 DEF KeptWhole
    <3>2. CASE stored' = body /\ complete
      BY <2>4, <2>6, <3>2
    <3> QED BY <3>1, <3>2
  <2> QED BY <2>1, <2>2, <2>5, <2>6 DEF KeptWhole, Whole
<1> QED BY <1>1, <1>2, <1>3

LEMMA BufferedKeeps ==
  ASSUME IInv, NEW c \in Clients, ForwardBuffered(c)
  PROVE  IInv'
<1> DEFINE u == Head(rest[c])
           base == RewriteBaseURL(asked[c].from)
<1>1. PICK framing \in Framings, n \in 0..ReadLimit :
        \/ FallBack(c, FALSE)
        \/ LET body == RewriteTarballs(Sent(u, framing, n), base)
           IN /\ n = ReadLimit \/ framing = "close"
              /\ Respond(c, "reply", body, TRUE)
              /\ stored' = Kept(body, TRUE)
  BY DEF ForwardBuffered
<1>2. rest[c] # <<>> /\ Rewrites
  BY DEF ForwardBuffered
<1>3. CASE FallBack(c, FALSE)
  BY <1>2, <1>3, FallBackKeeps
<1> DEFINE body == RewriteTarballs(Sent(u, framing, n), base)
<1>4. CASE /\ n = ReadLimit \/ framing = "close"
           /\ Respond(c, "reply", body, TRUE)
           /\ stored' = Kept(body, TRUE)
  <2>1. IsPackageMetadataPath(Path)
    BY <1>2 DEF Rewrites
  <2>2. n \in 0..Size[doc]
    <3>1. ReadLimit \in 0..Size[doc] /\ Size[doc] \in Nat
      BY SizesAndVersions DEF IInv
    <3> QED BY <3>1
  <2>3. Size[doc] <= Limit => Whole(body, TRUE)
    BY <1>4, <2>2, ReadsWhole, SentIsWhole DEF IInv
  <2> HIDE DEF body
  <2>4. Size[doc] <= Limit => Whole(body, "reply" = "reply" /\ Rewrites)
    BY <1>2, <2>3 DEF Whole
  <2>5. stored' = stored \/ (stored' = body /\ TRUE /\ IsCachablePath(ClientPath))
    BY <1>4, KeptIs
  <2> QED BY <1>4, <2>1, <2>4, <2>5, RespondKeeps
<1> QED BY <1>1, <1>3, <1>4

LEMMA StreamedKeeps ==
  ASSUME IInv, NEW c \in Clients, ForwardStreamed(c)
  PROVE  IInv'
<1> DEFINE u == Head(rest[c])
<1>1. PICK framing \in Framings, n \in 0..Size[doc] :
        LET body == Sent(u, framing, n)
        IN /\ Respond(c, "reply", body, ~Short(framing, n))
           /\ stored' = Kept(body, ~Short(framing, n))
  BY DEF ForwardStreamed
<1>2. ~Rewrites
  BY DEF ForwardStreamed
<1> DEFINE body == Sent(u, framing, n)
<1>3. ~Short(framing, n) => Whole(body, FALSE)
  BY SentIsWhole DEF IInv
<1>4. /\ Respond(c, "reply", body, ~Short(framing, n))
      /\ stored' = Kept(body, ~Short(framing, n))
  BY <1>1
<1> HIDE DEF body
<1>5. ~Short(framing, n) => Whole(body, "reply" = "reply" /\ Rewrites)
  BY <1>2, <1>3 DEF Whole
<1>6. stored' = stored \/ (stored' = body /\ ~Short(framing, n) /\ IsCachablePath(ClientPath))
  BY <1>4, KeptIs
<1> QED BY <1>4, <1>5, <1>6, RespondKeeps

LEMMA ExhaustedKeeps ==
  ASSUME IInv, NEW c \in Clients, Exhausted(c)
  PROVE  IInv'
<1>1. stored' = stored
  BY DEF Exhausted
<1>2. CASE \E kind : Respond(c, kind, None, TRUE)
  BY <1>1, <1>2, RespondKeeps
<1>3. ASSUME NEW framing \in Framings, NEW n \in 0..Size[doc],
             Respond(c, "relayed", Sent(best[c], framing, n), ~Short(framing, n))
      PROVE  IInv'
  <2> DEFINE body == Sent(best[c], framing, n)
             kind == "relayed"
  <2>1. ~Short(framing, n) => Whole(body, FALSE)
    BY SentIsWhole DEF IInv
  <2>2. kind # "reply"
    OBVIOUS
  <2> HIDE DEF body, kind
  <2>3. ~Short(framing, n) => Whole(body, kind = "reply" /\ Rewrites)
    BY <2>1, <2>2 DEF Whole
  <2>4. Respond(c, kind, body, ~Short(framing, n))
    BY <1>3 DEF body, kind
  <2> QED BY <1>1, <2>3, <2>4, RespondKeeps
<1> QED BY <1>2, <1>3 DEF Exhausted

LEMMA WorldKeeps ==
  ASSUME IInv, UNCHANGED vars \/ (\E u \in Upstreams : Publish(u)) \/ \E s \in Settings : Restart(s)
  PROVE  IInv'
<1> USE DEF IInv
<1>1. UNCHANGED <<doc, route, have, stored>>
  BY DEF vars, Publish, Restart
<1>2. NotStored' /\ KeptWhole'
  BY <1>1 DEF NotStored, KeptWhole, Whole, Path, ClientPath
<1>3. CASE UNCHANGED <<rest, best, reply>>
  BY <1>1, <1>2, <1>3 DEF Shape, Tried
<1>4. CASE \E s \in Settings : Restart(s)
  <2>1. <<>> \in Seq(Upstreams)
    BY EmptySeq
  <2> QED BY <1>1, <1>2, <1>4, <2>1 DEF Restart, Shape, Tried
<1>5. UNCHANGED vars \/ (\E u \in Upstreams : Publish(u)) => UNCHANGED <<rest, best, reply>>
  BY DEF vars, Publish
<1> QED BY <1>3, <1>4, <1>5

LEMMA StepIInv == IInv /\ [Next]_vars => IInv'
<1> SUFFICES ASSUME IInv, [Next]_vars
             PROVE  IInv'
  OBVIOUS
<1>1. ASSUME NEW c \in Clients, ForwardFails(c)
      PROVE  IInv'
  BY <1>1, FallBackKeeps DEF ForwardFails
<1>2. ASSUME NEW c \in Clients, ForwardNotModified(c)
      PROVE  IInv'
  BY <1>2, RespondKeeps DEF ForwardNotModified
<1> QED
  BY <1>1, <1>2, AskKeeps, HitKeeps, BufferedKeeps, StreamedKeeps, ExhaustedKeeps, WorldKeeps
     DEF Next

\* Whichever upstreams break off, lag behind or are relayed from, however the proxy is
\* restarted, and however replies mark their end: what a client takes for complete and
\* what the cache keeps is whole, if its length was announced, or if Forward read its
\* chunks to the end before it sent them; but for what has a manifest's path and exceeds
\* the limit (upstream.go:167-182,234-270, tee.go:72-114).
THEOREM WholeIsKept == Spec => []KeptWhole
BY InitIInv, StepIInv, PTL DEF Spec, IInv

-----------------------------------------------------------------------------
(* Where an answer is from.                                                *)

\* An upstream has the version of this body now, or there is no body.
Current(body) == body = None \/ \E u \in Upstreams : version[u] = body.version

LEMMA RespondReplies ==
  ASSUME Shape, NEW d \in Clients, NEW kind, NEW body, NEW complete,
         Respond(d, kind, body, complete), Current(body),
         NEW c \in Clients, reply'[c] # reply[c]
  PROVE  Current(reply'[c].body)
<1>1. reply' = [reply EXCEPT ![d] = [kind |-> kind, asked |-> asked[d], body |-> body]]
  BY DEF Respond
<1>2. c = d /\ reply'[c].body = body
  BY <1>1 DEF Shape
<1> QED BY <1>2

LEMMA SentIsCurrent ==
  ASSUME NEW u \in Upstreams, NEW framing, NEW n
  PROVE  /\ Current(Sent(u, framing, n))
         /\ \A base : Current(RewriteTarballs(Sent(u, framing, n), base))
<1> DEFINE body == Sent(u, framing, n)
<1>1. DOMAIN body = {"version", "got", "cut", "links"} /\ body.version = version[u]
  BY SentParts
<1> HIDE DEF body
<1>2. \A base : RewriteTarballs(body, base).version = body.version
  BY <1>1, RewritingKeeps
<1> QED BY <1>1, <1>2 DEF Current, body

LEMMA AnswersAreCurrent ==
  ASSUME IInv, Next, Lower(Last(doc)) \notin TarballSuffixes,
         NEW c \in Clients, reply'[c] # reply[c], reply'[c] # None
  PROVE  Current(reply'[c].body)
<1> USE DEF IInv
<1>1. ASSUME NEW d \in Clients, NEW from, Hit(d, from)
      PROVE  FALSE
  BY <1>1, NotCachable DEF Hit, InCache
<1>2. ASSUME NEW d \in Clients, NEW from, NEW conditional, Ask(d, from, conditional)
      PROVE  FALSE
  BY <1>2 DEF Ask, Shape
<1>3. ASSUME NEW d \in Clients, NEW definitive, FallBack(d, definitive)
      PROVE  FALSE
  BY <1>3 DEF FallBack
<1>4. ASSUME NEW d \in Clients, ForwardNotModified(d)
      PROVE  Current(reply'[c].body)
  BY <1>4, RespondReplies DEF ForwardNotModified, Current
<1>5. ASSUME NEW d \in Clients, rest[d] # <<>>
      PROVE  Head(rest[d]) \in Upstreams
  BY <1>5, HeadTailProperties DEF Tried
<1>6. ASSUME NEW d \in Clients, ForwardBuffered(d)
      PROVE  Current(reply'[c].body)
  <2>1. PICK framing, n :
          LET body == RewriteTarballs(Sent(Head(rest[d]), framing, n),
                                      RewriteBaseURL(asked[d].from))
          IN FallBack(d, FALSE) \/ Respond(d, "reply", body, TRUE)
    BY <1>6 DEF ForwardBuffered
  <2> DEFINE body == RewriteTarballs(Sent(Head(rest[d]), framing, n),
                                     RewriteBaseURL(asked[d].from))
  <2>2. rest[d] # <<>>
    BY <1>6 DEF ForwardBuffered
  <2>3. Current(body)
    BY <1>5, <2>2, SentIsCurrent
  <2>4. FallBack(d, FALSE) \/ Respond(d, "reply", body, TRUE)
    BY <2>1
  <2> HIDE DEF body
  <2> QED BY <1>3, <2>3, <2>4, RespondReplies
<1>7. ASSUME NEW d \in Clients, ForwardStreamed(d)
      PROVE  Current(reply'[c].body)
  <2>1. PICK framing, n : /\ rest[d] # <<>>
                          /\ Respond(d, "reply", Sent(Head(rest[d]), framing, n), ~Short(framing, n))
    BY <1>7 DEF ForwardStreamed
  <2>2. Current(Sent(Head(rest[d]), framing, n))
    BY <1>5, <2>1, SentIsCurrent
  <2> QED BY <2>1, <2>2, RespondReplies
<1>8. ASSUME NEW d \in Clients, Exhausted(d)
      PROVE  Current(reply'[c].body)
  <2>1. CASE \E kind : Respond(d, kind, None, TRUE)
    BY <2>1, RespondReplies DEF Current
  <2>2. CASE best[d] # 0 /\ \E framing, n :
               Respond(d, "relayed", Sent(best[d], framing, n), ~Short(framing, n))
    <3>1. PICK framing, n : Respond(d, "relayed", Sent(best[d], framing, n), ~Short(framing, n))
      BY <2>2
    <3>2. best[d] \in Upstreams
      BY <2>2 DEF Tried
    <3>3. Current(Sent(best[d], framing, n))
      BY <3>2, SentIsCurrent
    <3> QED BY <3>1, <3>3, RespondReplies
  <2> QED BY <1>8, <2>1, <2>2 DEF Exhausted
<1>9. ASSUME NEW u, Publish(u)
      PROVE  FALSE
  BY <1>9 DEF Publish
<1>10. ASSUME NEW s, Restart(s)
       PROVE  FALSE
  BY <1>10 DEF Restart
<1> QED BY <1>1, <1>2, <1>3, <1>4, <1>6, <1>7, <1>8, <1>9, <1>10 DEF Next, ForwardFails

\* What comes to a client of a document that is not named like a tarball is what one
\* of the upstreams has at that moment, never what the cache or another request kept
\* of it (cache.go:3-4,22-25).
THEOREM NeverFromTheCache == Spec => Fresh
<1>1. IInv /\ [Next]_vars =>
        [\A c \in Clients :
           reply'[c] # reply[c] /\ reply'[c] # None /\ reply'[c].body # None
             /\ Lower(Last(doc)) \notin TarballSuffixes
           => \E u \in Upstreams : version[u] = reply'[c].body.version]_vars
  <2> SUFFICES ASSUME IInv, Next, NEW c \in Clients,
                      reply'[c] # reply[c], reply'[c] # None, reply'[c].body # None,
                      Lower(Last(doc)) \notin TarballSuffixes
               PROVE  \E u \in Upstreams : version[u] = reply'[c].body.version
    OBVIOUS
  <2> QED BY AnswersAreCurrent DEF Current
<1> QED BY <1>1, InitIInv, StepIInv, PTL DEF Spec, Fresh

-----------------------------------------------------------------------------
(* What is sent and kept.                                                  *)

\* RewriteBaseURL of a process with this rewrite section.
Base(s, from) ==
  IF s.external # None THEN s.external
  ELSE [scheme |-> IF First(from.proto) # "" THEN First(from.proto)
                   ELSE IF from.tls THEN "https" ELSE "http",
        host |-> IF First(from.forwarded) # "" THEN First(from.forwarded) ELSE from.host]

\* All links of the document are rewritten for such a request.
Rewritable(s, from) ==
  /\ s.enabled /\ IsPackageMetadataPath(Path) /\ Base(s, from).host # ""
  /\ doc \in ManifestDocs => Size[doc] <= Limit

\* What they are rewritten to, whichever upstream it comes from.
Made(s, v, framing, from) ==
  [version |-> v, got |-> ReadLimit, cut |-> IF ReadLimit < Size[doc] THEN framing ELSE "not",
   links |-> IF doc \in ManifestDocs
             THEN [x \in 0..v |-> [scheme |-> Base(s, from).scheme, host |-> Base(s, from).host,
                                   path |-> TarballPath]]
             ELSE <<>>]

\* The body is as it is made for such a request, unless its connection broke.
AsMade(body, s, from) ==
  Rewritable(s, from) /\ (body.cut = "close" => body.got = ReadLimit)
    => body = Made(s, body.version, body.cut, from)

Answered ==
  \A c \in Clients : reply[c] # None /\ reply[c].kind = "reply"
    => AsMade(reply[c].body, setting, reply[c].asked.from)

Copied ==
  \A c \in Clients : have[c] # None /\ have[c].kind = "reply"
    => AsMade(have[c].body, have[c].setting, have[c].from)

\* A client asks about the copy that it has.
Conditional ==
  \A c \in Clients : asked[c] # None /\ asked[c].etag # 0
    => have[c] # None /\ have[c].body.version = asked[c].etag

Served == TypeOK /\ Answered /\ Copied /\ Conditional

\* The links of a document lead through the upstream's path once.
LEMMA TarballPaths ==
  ASSUME Shape
  PROVE  /\ TarballPath # <<>>
         /\ BasePath \in {<<>>, <<"/">>} => JoinPath(BasePath, TarballPath) = TarballPath
<1> DEFINE Text == STRING \cup {"/", "-", "tarball", ".tgz"}
           a == "/"
           b == "-"
           c == "tarball"
           e == ".tgz"
           end == <<a, b, a, c, e>>
           whole == doc \o end
<1>1. /\ a \in Text /\ b \in Text /\ c \in Text /\ e \in Text /\ STRING \subseteq Text
      /\ TarballPath = JoinPath(BasePath, whole)
  BY DEF TarballPath
<1>2. doc \in Seq(STRING) /\ Len(doc) > 1 /\ BasePath \in Seq(STRING)
  BY ManifestsAssumption DEF Shape
<1> HIDE DEF Text
<1>3. doc \in Seq(Text) /\ BasePath \in Seq(Text)
  BY <1>1, <1>2, SeqMonotonic
<1>4. end \in Seq(Text)
  <2> HIDE DEF a, b, c, e
  <2> QED BY <1>1
<1> HIDE DEF end
<1>5. whole \in Seq(Text) /\ Len(whole) > 1
  <2>1. whole \in Seq(Text) /\ Len(whole) = Len(doc) + Len(end) /\ Len(doc) \in Nat /\ Len(end) \in Nat
    BY <1>3, <1>4, ConcatProperties, LenProperties
  <2> HIDE DEF whole
  <2> QED BY <1>2, <2>1
<1> HIDE DEF whole
<1>6. "/" \in Text
  BY <1>1
<1> QED BY <1>1, <1>3, <1>5, <1>6, JoinedOnce

LEMMA BaseIsRewriteBase == \A from : RewriteBaseURL(from) = Base(setting, from)
BY DEF RewriteBaseURL, Base

\* What Forward sends of it.
LEMMA CarriedIsMade ==
  ASSUME Shape, setting \in Settings, NEW u, NEW framing, NEW from, Rewritable(setting, from)
  PROVE  Carried(u, framing, from) = Made(setting, version[u], framing, from)
<1> DEFINE base == RewriteBaseURL(from)
           links == IF doc \in ManifestDocs
                    THEN [x \in 0..version[u] |->
                           [scheme |-> "https", host |-> Origin[u], path |-> TarballPath]]
                    ELSE <<>>
           end == IF ReadLimit < Size[doc] THEN framing ELSE "not"
           b == [version |-> version[u], got |-> ReadLimit, cut |-> end, links |-> links]
           link == [scheme |-> base.scheme, host |-> base.host, path |-> TarballPath]
<1>1. Sent(u, framing, ReadLimit) = b
  BY DEF Sent
<1>2. Carried(u, framing, from) =
        IF Encoded \/ b.got < Size[doc] THEN b
        ELSE [b EXCEPT !.links = [x \in DOMAIN links |-> RewriteTarballURL(links[x], base)]]
  BY <1>1 DEF Carried, RewriteTarballs
<1>3. ~Encoded /\ base = Base(setting, from)
  BY BaseIsRewriteBase DEF Encoded, Rewrites, Rewritable
<1>4. base.scheme # "" /\ base.host # ""
  <2>1. base.host # ""
    BY <1>3 DEF Rewritable
  <2>2. CASE setting.external # None
    <3>1. base = setting.external /\ setting.enabled
      BY <1>3, <2>2 DEF Base, Rewritable
    <3> QED BY <2>1, <2>2, <3>1, ManifestsAssumption
  <2>3. CASE setting.external = None
    <3> DEFINE scheme == IF First(from.proto) # "" THEN First(from.proto)
                         ELSE IF from.tls THEN "https" ELSE "http"
               host == IF First(from.forwarded) # "" THEN First(from.forwarded) ELSE from.host
    <3>1. Base(setting, from) = [scheme |-> scheme, host |-> host]
      BY <2>3 DEF Base
    <3>2. scheme # ""
      OBVIOUS
    <3> HIDE DEF base, scheme, host
    <3>3. base.scheme = scheme
      BY <1>3, <3>1
    <3> QED BY <2>1, <3>2, <3>3
  <2> QED BY <2>2, <2>3
<1>5. TarballPath # <<>>
  BY TarballPaths
<1> HIDE DEF base
<1>6. CASE doc \in ManifestDocs
  <2>1. ReadLimit = Size[doc]
    BY <1>6, ReadsWhole DEF Rewritable
  <2>2. links = [x \in 0..version[u] |->
                  [scheme |-> "https", host |-> Origin[u], path |-> TarballPath]]
    BY <1>6
  <2>3. ~(b.got < Size[doc])
    <3>1. Size[doc] \in Nat
      BY ManifestsAssumption DEF Shape
    <3> QED BY <2>1, <3>1
  <2> HIDE DEF links
  <2>4. \A x \in 0..version[u] : RewriteTarballURL(links[x], base) = link
    BY <1>4, <1>5, <2>2 DEF RewriteTarballURL
  <2>5. [x \in DOMAIN links |-> RewriteTarballURL(links[x], base)] = [x \in 0..version[u] |-> link]
    BY <2>2, <2>4
  <2>6. Carried(u, framing, from) = [b EXCEPT !.links = [x \in 0..version[u] |-> link]]
    BY <1>2, <1>3, <2>3, <2>5
  <2>7. Made(setting, version[u], framing, from) =
          [version |-> version[u], got |-> ReadLimit, cut |-> end,
           links |-> [x \in 0..version[u] |-> link]]
    BY <1>3, <1>6 DEF Made
  <2> HIDE DEF link, end
  <2> QED BY <2>6, <2>7
<1>7. CASE doc \notin ManifestDocs
  <2>1. links = <<>>
    BY <1>7
  <2>2. Made(setting, version[u], framing, from) = b
    BY <1>7 DEF Made
  <2>3. [x \in DOMAIN links |-> RewriteTarballURL(links[x], base)] = <<>>
    BY <2>1
  <2> HIDE DEF links, end
  <2>4. [b EXCEPT !.links = <<>>] = b
    BY <2>1
  <2> QED BY <1>2, <2>2, <2>3, <2>4
<1> QED BY <1>6, <1>7

\* What is made has the version and the end that it is made with.
LEMMA MadeAgain ==
  ASSUME NEW s, NEW v, NEW framing, NEW from
  PROVE  LET body == Made(s, v, framing, from)
         IN body = Made(s, body.version, body.cut, from)
<1> DEFINE end == IF ReadLimit < Size[doc] THEN framing ELSE "not"
           body == Made(s, v, framing, from)
<1>1. body.version = v /\ body.cut = end
  BY DEF Made
<1>2. Made(s, v, end, from) = body
  BY DEF Made
<1> HIDE DEF body, end
<1> QED BY <1>1, <1>2 DEF body

\* What an upstream sends is a body of the document.
LEMMA SentIsBody ==
  ASSUME Shape, NEW u, version[u] \in 1..MaxVersion[doc], NEW framing \in Framings,
         NEW n \in 0..Size[doc]
  PROVE  /\ IsBody(Sent(u, framing, n))
         /\ \A base : IsBody(RewriteTarballs(Sent(u, framing, n), base))
<1> DEFINE links == IF doc \in ManifestDocs
                    THEN [x \in 0..version[u] |->
                           [scheme |-> "https", host |-> Origin[u], path |-> TarballPath]]
                    ELSE <<>>
           end == IF n < Size[doc] THEN framing ELSE "not"
           b == [version |-> version[u], got |-> n, cut |-> end, links |-> links]
<1>1. Sent(u, framing, n) = b
  BY DEF Sent
<1>2. (doc \in ManifestDocs => DOMAIN links = 0..version[u]) /\ end \in Framings \cup {"not"}
  OBVIOUS
<1> HIDE DEF links, end
<1>3. IsBody(b)
  BY <1>2 DEF IsBody
<1>4. ASSUME NEW base
      PROVE  IsBody(RewriteTarballs(b, base))
  <2> DEFINE made == [b EXCEPT !.links = [x \in DOMAIN @ |-> RewriteTarballURL(@[x], base)]]
  <2>1. RewriteTarballs(b, base) \in {b, made}
    BY DEF RewriteTarballs
  <2>2. /\ made.version = b.version /\ made.got = b.got /\ made.cut = b.cut
        /\ DOMAIN made.links = DOMAIN b.links
    OBVIOUS
  <2>3. IsBody(made)
    BY <1>3, <2>2 DEF IsBody
  <2> QED BY <1>3, <2>1, <2>3
<1> QED BY <1>1, <1>3, <1>4

\* What the properties are about depends on the document and the route only.
LEMMA SameDocument ==
  ASSUME UNCHANGED <<doc, route>>
  PROVE  /\ \A b : IsBody(b)' <=> IsBody(b)
         /\ \A b, s, from : AsMade(b, s, from)' <=> AsMade(b, s, from)
BY DEF IsBody, AsMade, Rewritable, Made, Path, ClientPath, ReadLimit, TarballPath, Base

LEMMA InitServed == Init => Served
<1> SUFFICES ASSUME Init
             PROVE  Served
  OBVIOUS
<1>1. TypeOK
  <2>1. Shape
    BY DEF Init, Shape
  <2>2. version \in [Upstreams -> 0..MaxVersion[doc]]
    <3>1. 0..1 \subseteq 0..MaxVersion[doc]
      BY <2>1, SizesAndVersions
    <3> QED BY <3>1 DEF Init
  <2>3. ToSet(<<>>) = {}
    BY DEF ToSet
  <2> QED BY <2>2, <2>3 DEF Init, TypeOK
<1>2. Answered /\ Copied /\ Conditional
  BY DEF Init, Answered, Copied, Conditional
<1> QED BY <1>1, <1>2 DEF Served

\* A response, if what it brings is a body, and is as it is made.
LEMMA RespondServes ==
  ASSUME IInv, Tried', Served, NEW c \in Clients, NEW kind, NEW body, NEW complete,
         Respond(c, kind, body, complete),
         body # None => IsBody(body),
         stored' # None => IsBody(stored'),
         kind = "reply" => AsMade(body, setting, asked[c].from)
  PROVE  Served'
<1> DEFINE reply1 == [kind |-> kind, asked |-> asked[c], body |-> body]
           have1 == [body |-> body, kind |-> kind, from |-> asked[c].from, setting |-> setting]
<1>1. /\ UNCHANGED <<doc, version, route, setting>>
      /\ reply' = [reply EXCEPT ![c] = reply1] /\ asked' = [asked EXCEPT ![c] = None]
      /\ rest' = [rest EXCEPT ![c] = <<>>] /\ best' = [best EXCEPT ![c] = 0]
      /\ have' = IF body # None /\ complete THEN [have EXCEPT ![c] = have1] ELSE have
  BY DEF Respond
<1>2. /\ DOMAIN rest = Clients /\ DOMAIN best = Clients
      /\ DOMAIN reply = Clients /\ DOMAIN have = Clients
      /\ asked \in [Clients -> [from : Froms, etag : 0..MaxVersion[doc]] \cup {None}]
  BY DEF IInv, Shape, Served, TypeOK
<1>3. /\ \A b : IsBody(b)' <=> IsBody(b)
      /\ \A b, s, from : AsMade(b, s, from)' <=> AsMade(b, s, from)
  BY <1>1, SameDocument
<1>4. /\ reply1.kind = kind /\ reply1.asked = asked[c] /\ reply1.body = body
      /\ have1.body = body /\ have1.kind = kind /\ have1.from = asked[c].from
      /\ have1.setting = setting
  OBVIOUS
<1> HIDE DEF reply1, have1
<1>5. ASSUME NEW d \in Clients
      PROVE  /\ reply'[d] = IF d = c THEN reply1 ELSE reply[d]
             /\ asked'[d] = IF d = c THEN None ELSE asked[d]
             /\ rest'[d] = IF d = c THEN <<>> ELSE rest[d]
             /\ best'[d] = IF d = c THEN 0 ELSE best[d]
             /\ have'[d] = IF d = c /\ body # None /\ complete THEN have1 ELSE have[d]
  BY <1>1, <1>2
<1>6. TypeOK'
  <2>1. ASSUME NEW d \in Clients
        PROVE  /\ asked'[d] = None => rest'[d] = <<>> /\ best'[d] = 0
               /\ asked'[d] # None => reply'[d] = None
    BY <1>5 DEF Served, TypeOK
  <2>2. ASSUME NEW d \in Clients
        PROVE  ToSet(rest'[d]) \cup ({best'[d]} \ {0}) \subseteq Upstreams
    <3>1. rest'[d] \in Seq(Upstreams) /\ best'[d] \in Upstreams \cup {0}
      BY DEF Tried, Upstreams
    <3> QED BY <3>1, ListOf
  <2>3. ASSUME NEW d \in Clients
        PROVE  /\ reply'[d] # None /\ reply'[d].body # None => IsBody(reply'[d].body)
               /\ have'[d] # None => IsBody(have'[d].body)
    BY <1>3, <1>4, <1>5 DEF Served, TypeOK
  <2>4. asked' \in [Clients -> [from : Froms, etag : 0..MaxVersion[doc]] \cup {None}]
    BY <1>1, <1>2
  <2>5. stored' # None => IsBody(stored')
    BY <1>3
  <2>6. /\ doc' \in Docs /\ route' \in Routes /\ setting' \in Settings
        /\ version' \in [Upstreams -> 0..MaxVersion[doc']]
    BY <1>1 DEF Served, TypeOK
  <2> QED BY <1>1, <1>3, <2>1, <2>2, <2>3, <2>4, <2>5, <2>6 DEF TypeOK, Upstreams
<1>7. Answered'
  <2> SUFFICES ASSUME NEW d \in Clients, reply'[d] # None, reply'[d].kind = "reply"
               PROVE  AsMade(reply'[d].body, setting, reply'[d].asked.from)
    BY <1>1, <1>3 DEF Answered
  <2>1. CASE d = c
    BY <1>4, <1>5, <2>1
  <2>2. CASE d # c
    BY <1>5, <2>2 DEF Served, Answered
  <2> QED BY <2>1, <2>2
<1>8. Copied'
  <2> SUFFICES ASSUME NEW d \in Clients, have'[d] # None, have'[d].kind = "reply"
               PROVE  AsMade(have'[d].body, have'[d].setting, have'[d].from)
    BY <1>1, <1>3 DEF Copied
  <2>1. CASE have'[d] = have1 /\ d = c
    BY <1>4, <2>1
  <2>2. CASE have'[d] = have[d]
    BY <2>2 DEF Served, Copied
  <2> QED BY <1>5, <2>1, <2>2
<1>9. Conditional'
  BY <1>5 DEF Served, Conditional
<1> QED BY <1>6, <1>7, <1>8, <1>9 DEF Served

LEMMA AskServes ==
  ASSUME IInv, IInv', Served, NEW c \in Clients, NEW from \in Froms, NEW conditional \in BOOLEAN,
         Ask(c, from, conditional)
  PROVE  Served'
<1> DEFINE request == Request(c, from, conditional)
<1>1. /\ UNCHANGED <<doc, version, route, setting, best, have, stored>>
      /\ asked[c] = None /\ (conditional => have[c] # None)
      /\ asked' = [asked EXCEPT ![c] = request] /\ reply' = [reply EXCEPT ![c] = None]
      /\ \E x : rest' = [rest EXCEPT ![c] = x]
  BY DEF Ask
<1>2. /\ DOMAIN rest = Clients /\ DOMAIN reply = Clients
      /\ asked \in [Clients -> [from : Froms, etag : 0..MaxVersion[doc]] \cup {None}]
      /\ MaxVersion[doc] \in Nat
  BY SizesAndVersions DEF IInv, Shape, Served, TypeOK
<1>3. /\ \A b : IsBody(b)' <=> IsBody(b)
      /\ \A b, s, f : AsMade(b, s, f)' <=> AsMade(b, s, f)
  BY <1>1, SameDocument
<1>4. /\ request \in [from : Froms, etag : 0..MaxVersion[doc]]
      /\ request.etag # 0 => have[c] # None /\ have[c].body.version = request.etag
  <2>1. conditional => have[c].body.version \in 0..MaxVersion[doc]
    BY <1>1, <1>2 DEF Served, TypeOK, IsBody
  <2>2. request = [from |-> from, etag |-> IF conditional THEN have[c].body.version ELSE 0]
    BY DEF Request
  <2>3. 0 \in 0..MaxVersion[doc]
    BY <1>2
  <2> HIDE DEF request
  <2> QED BY <1>1, <2>1, <2>2, <2>3
<1>5. request # None
  <2>1. [from : Froms, etag : 0..MaxVersion[doc]] \subseteq [from : Froms, etag : Nat]
    BY <1>2
  <2> QED BY <1>4, <2>1, ManifestsAssumption
<1> HIDE DEF request
<1>6. ASSUME NEW d \in Clients
      PROVE  /\ reply'[d] = IF d = c THEN None ELSE reply[d]
             /\ asked'[d] = IF d = c THEN request ELSE asked[d]
             /\ d # c => rest'[d] = rest[d]
  BY <1>1, <1>2
<1>7. TypeOK'
  <2>1. ASSUME NEW d \in Clients
        PROVE  /\ asked'[d] = None => rest'[d] = <<>> /\ best'[d] = 0
               /\ asked'[d] # None => reply'[d] = None
    BY <1>1, <1>5, <1>6 DEF Served, TypeOK
  <2>2. ASSUME NEW d \in Clients
        PROVE  ToSet(rest'[d]) \cup ({best'[d]} \ {0}) \subseteq Upstreams
    <3>1. rest'[d] \in Seq(Upstreams) /\ best'[d] \in Upstreams \cup {0}
      BY DEF IInv, Tried, Upstreams
    <3> QED BY <3>1, ListOf
  <2>3. ASSUME NEW d \in Clients
        PROVE  /\ reply'[d] # None /\ reply'[d].body # None => IsBody(reply'[d].body)
               /\ have'[d] # None => IsBody(have'[d].body)
    BY <1>1, <1>3, <1>6 DEF Served, TypeOK
  <2>4. asked' \in [Clients -> [from : Froms, etag : 0..MaxVersion[doc]] \cup {None}]
    BY <1>1, <1>2, <1>4
  <2>5. stored' # None => IsBody(stored')
    BY <1>1, <1>3 DEF Served, TypeOK
  <2>6. /\ doc' \in Docs /\ route' \in Routes /\ setting' \in Settings
        /\ version' \in [Upstreams -> 0..MaxVersion[doc']]
    BY <1>1 DEF Served, TypeOK
  <2> QED BY <1>1, <1>3, <2>1, <2>2, <2>3, <2>4, <2>5, <2>6 DEF TypeOK, Upstreams
<1>8. Answered'
  BY <1>1, <1>3, <1>6 DEF Served, Answered
<1>9. Copied'
  BY <1>1, <1>3 DEF Served, Copied
<1>10. Conditional'
  BY <1>1, <1>4, <1>6 DEF Served, Conditional
<1> QED BY <1>7, <1>8, <1>9, <1>10 DEF Served

LEMMA HitServes ==
  ASSUME IInv, Served, NEW c \in Clients, NEW from, Hit(c, from)
  PROVE  Served'
<1> DEFINE reply1 == [kind |-> "hit", asked |-> Request(c, from, FALSE), body |-> stored]
           have1 == [body |-> stored, kind |-> "hit", from |-> from, setting |-> setting]
<1>1. /\ UNCHANGED <<doc, version, route, setting, asked, rest, best, stored>>
      /\ asked[c] = None /\ stored # None
      /\ reply' = [reply EXCEPT ![c] = reply1] /\ have' = [have EXCEPT ![c] = have1]
  BY DEF Hit, InCache
<1>2. DOMAIN reply = Clients /\ DOMAIN have = Clients
  BY DEF IInv, Shape
<1>3. /\ \A b : IsBody(b)' <=> IsBody(b)
      /\ \A b, s, f : AsMade(b, s, f)' <=> AsMade(b, s, f)
  BY <1>1, SameDocument
<1>4. /\ reply1.kind # "reply" /\ reply1.body = stored
      /\ have1.kind # "reply" /\ have1.body = stored
  OBVIOUS
<1> HIDE DEF reply1, have1
<1>5. ASSUME NEW d \in Clients
      PROVE  /\ reply'[d] = IF d = c THEN reply1 ELSE reply[d]
             /\ have'[d] = IF d = c THEN have1 ELSE have[d]
  BY <1>1, <1>2
<1>6. TypeOK'
  <2>1. ASSUME NEW d \in Clients
        PROVE  /\ asked[d] # None => reply'[d] = None
               /\ reply'[d] # None /\ reply'[d].body # None => IsBody(reply'[d].body)
               /\ have'[d] # None => IsBody(have'[d].body)
    BY <1>1, <1>4, <1>5 DEF Served, TypeOK
  <2> QED BY <1>1, <1>3, <2>1 DEF Served, TypeOK, Upstreams
<1>7. Answered'
  BY <1>1, <1>3, <1>4, <1>5 DEF Served, Answered
<1>8. Copied'
  BY <1>1, <1>3, <1>4, <1>5 DEF Served, Copied
<1>9. Conditional'
  <2>1. ASSUME NEW d \in Clients, asked[d] # None
        PROVE  have'[d] = have[d]
    BY <1>1, <1>5, <2>1
  <2> QED BY <1>1, <2>1 DEF Served, Conditional
<1> QED BY <1>6, <1>7, <1>8, <1>9 DEF Served

LEMMA FallBackServes ==
  ASSUME IInv, Tried', Served, NEW c \in Clients, rest[c] # <<>>, NEW definitive,
         FallBack(c, definitive)
  PROVE  Served'
<1>1. /\ UNCHANGED <<doc, version, route, setting, asked, reply, have, stored>>
      /\ \E x : rest' = [rest EXCEPT ![c] = x]
      /\ \E x : best' = [best EXCEPT ![c] = x] \/ best' = best
  BY DEF FallBack
<1>2. asked[c] # None /\ DOMAIN rest = Clients /\ DOMAIN best = Clients
  BY DEF IInv, Shape, Served, TypeOK
<1>3. /\ \A b : IsBody(b)' <=> IsBody(b)
      /\ \A b, s, f : AsMade(b, s, f)' <=> AsMade(b, s, f)
  BY <1>1, SameDocument
<1>4. TypeOK'
  <2>1. ASSUME NEW d \in Clients
        PROVE  /\ asked[d] = None => rest'[d] = <<>> /\ best'[d] = 0
               /\ ToSet(rest'[d]) \cup ({best'[d]} \ {0}) \subseteq Upstreams
    <3>1. rest'[d] \in Seq(Upstreams) /\ best'[d] \in Upstreams \cup {0}
      BY DEF Tried, Upstreams
    <3>2. asked[d] = None => rest'[d] = rest[d] /\ best'[d] = best[d]
      BY <1>1, <1>2
    <3> QED BY <3>1, <3>2, ListOf DEF Served, TypeOK
  <2> QED BY <1>1, <1>3, <2>1 DEF Served, TypeOK, Upstreams
<1>5. Answered' /\ Copied' /\ Conditional'
  BY <1>1, <1>3 DEF Served, Answered, Copied, Conditional
<1> QED BY <1>4, <1>5 DEF Served

LEMMA ForwardServes ==
  ASSUME IInv, IInv', Served, NEW c \in Clients, rest[c] # <<>>,
         ForwardNotModified(c) \/ ForwardBuffered(c) \/ ForwardStreamed(c)
  PROVE  Served'
<1> DEFINE u == Head(rest[c])
<1>1. Shape /\ Tried' /\ TypeOK /\ setting \in Settings
  BY DEF IInv, Served, TypeOK
<1>2. u \in Upstreams
  BY HeadTailProperties DEF IInv, Tried
<1>3. version[u] # 0 => version[u] \in 1..MaxVersion[doc]
  BY <1>1, <1>2, SizesAndVersions DEF TypeOK
<1>4. stored # None => IsBody(stored)
  BY <1>1 DEF TypeOK
<1> HIDE DEF u
<1>5. CASE ForwardNotModified(c)
  <2>1. Respond(c, "confirmed", None, TRUE) /\ stored' = stored
    BY <1>5 DEF ForwardNotModified
  <2> QED BY <1>1, <1>4, <2>1, RespondServes
<1>6. CASE ForwardBuffered(c)
  <2> DEFINE base == RewriteBaseURL(asked[c].from)
  <2>1. PICK framing \in Framings, n \in 0..ReadLimit :
          \/ FallBack(c, FALSE)
          \/ LET body == RewriteTarballs(Sent(u, framing, n), base)
             IN /\ n = ReadLimit \/ framing = "close"
                /\ Respond(c, "reply", body, TRUE)
                /\ stored' = Kept(body, TRUE)
    BY <1>6 DEF ForwardBuffered, u
  <2>2. version[u] # 0
    BY <1>6 DEF ForwardBuffered, u
  <2> DEFINE body == RewriteTarballs(Sent(u, framing, n), base)
  <2>3. CASE FallBack(c, FALSE)
    BY <1>1, <2>3, FallBackServes
  <2>4. CASE /\ n = ReadLimit \/ framing = "close"
             /\ Respond(c, "reply", body, TRUE)
             /\ stored' = Kept(body, TRUE)
    <3>1. n \in 0..Size[doc] /\ (n = ReadLimit \/ n < Size[doc])
      <4>1. ReadLimit \in 0..Size[doc] /\ Size[doc] \in Nat
        BY <1>1, SizesAndVersions
      <4> QED BY <4>1
    <3>2. IsBody(body)
      BY <1>1, <1>3, <2>2, <3>1, SentIsBody
    <3>3. AsMade(body, setting, asked[c].from)
      <4>1. CASE n = ReadLimit
        <5>1. body = Carried(u, framing, asked[c].from)
          BY <4>1 DEF Carried
        <5> HIDE DEF body
        <5>2. Rewritable(setting, asked[c].from)
                => body = Made(setting, version[u], framing, asked[c].from)
          BY <1>1, <5>1, CarriedIsMade
        <5> QED BY <5>2, MadeAgain DEF AsMade
      <4>2. CASE n # ReadLimit
        <5>1. framing = "close" /\ n < Size[doc]
          BY <2>4, <3>1, <4>2
        <5> DEFINE sent == Sent(u, framing, n)
        <5>2. DOMAIN sent = {"version", "got", "cut", "links"} /\ sent.got = n /\ sent.cut = framing
          BY <5>1, SentParts
        <5> HIDE DEF sent
        <5>3. RewriteTarballs(sent, base).got = n /\ RewriteTarballs(sent, base).cut = framing
          BY <5>2, RewritingKeeps
        <5> QED BY <4>2, <5>1, <5>3 DEF AsMade, sent
      <4> QED BY <4>1, <4>2
    <3> HIDE DEF body
    <3>4. stored' # None => IsBody(stored')
      BY <1>4, <2>4, <3>2, KeptIs
    <3> QED BY <1>1, <2>4, <3>2, <3>3, <3>4, RespondServes
  <2> QED BY <2>1, <2>3, <2>4
<1>7. CASE ForwardStreamed(c)
  <2>1. PICK framing \in Framings, n \in 0..Size[doc] :
          LET body == Sent(u, framing, n)
          IN /\ Respond(c, "reply", body, ~Short(framing, n))
             /\ stored' = Kept(body, ~Short(framing, n))
    BY <1>7 DEF ForwardStreamed, u
  <2>2. version[u] # 0 /\ ~Rewrites
    BY <1>7 DEF ForwardStreamed, u
  <2> DEFINE body == Sent(u, framing, n)
  <2>3. IsBody(body)
    BY <1>1, <1>3, <2>2, SentIsBody
  <2>4. /\ Respond(c, "reply", body, ~Short(framing, n))
        /\ stored' = Kept(body, ~Short(framing, n))
    BY <2>1
  <2> HIDE DEF body
  <2>5. stored' # None => IsBody(stored')
    BY <1>4, <2>3, <2>4, KeptIs
  <2>6. AsMade(body, setting, asked[c].from)
    BY <2>2 DEF Rewrites, Rewritable, AsMade
  <2> QED BY <1>1, <2>3, <2>4, <2>5, <2>6, RespondServes
<1> QED BY <1>5, <1>6, <1>7

LEMMA ExhaustedServes ==
  ASSUME IInv, IInv', Served, NEW c \in Clients, Exhausted(c)
  PROVE  Served'
<1>1. Shape /\ Tried /\ Tried' /\ TypeOK /\ stored' = stored
  BY DEF IInv, Served, Exhausted
<1>2. stored' # None => IsBody(stored')
  BY <1>1 DEF TypeOK
<1>3. ASSUME NEW kind \in {"bad gateway", "relayed"}, Respond(c, kind, None, TRUE)
      PROVE  Served'
  BY <1>1, <1>2, <1>3, RespondServes
<1>4. ASSUME best[c] # 0, version[best[c]] # 0, NEW framing \in Framings, NEW n \in 0..Size[doc],
             Respond(c, "relayed", Sent(best[c], framing, n), ~Short(framing, n))
      PROVE  Served'
  <2>1. version[best[c]] \in 1..MaxVersion[doc]
    BY <1>1, <1>4, SizesAndVersions DEF Tried, TypeOK
  <2>2. IsBody(Sent(best[c], framing, n))
    BY <1>1, <2>1, SentIsBody
  <2> QED BY <1>1, <1>2, <1>4, <2>2, RespondServes
<1> QED BY <1>3, <1>4 DEF Exhausted

\* The world moves on: bodies and questions stay what they were.
LEMMA WorldServes ==
  ASSUME IInv, Served,
         UNCHANGED vars \/ (\E u \in Upstreams : Publish(u)) \/ \E s \in Settings : Restart(s)
  PROVE  Served'
<1>1. UNCHANGED <<doc, route, have, stored>>
  BY DEF vars, Publish, Restart
<1>2. /\ \A b : IsBody(b)' <=> IsBody(b)
      /\ \A b, s, f : AsMade(b, s, f)' <=> AsMade(b, s, f)
  BY <1>1, SameDocument
<1>3. Copied'
  BY <1>1, <1>2 DEF Served, Copied
<1>4. CASE UNCHANGED vars \/ \E u \in Upstreams : Publish(u)
  <2>1. UNCHANGED <<setting, asked, rest, best, reply>>
    BY <1>4 DEF vars, Publish
  <2>2. version' \in [Upstreams -> 0..MaxVersion[doc]]
    <3>1. CASE UNCHANGED version
      BY <3>1 DEF Served, TypeOK
    <3>2. ASSUME NEW u \in Upstreams, Publish(u)
          PROVE  version' \in [Upstreams -> 0..MaxVersion[doc]]
      <4>1. /\ version \in [Upstreams -> 0..MaxVersion[doc]] /\ MaxVersion[doc] \in Nat
            /\ version[u] < MaxVersion[doc] /\ version' = [version EXCEPT ![u] = version[u] + 1]
        BY <3>2, SizesAndVersions DEF Publish, IInv, Served, TypeOK
      <4>2. version[u] + 1 \in 0..MaxVersion[doc]
        BY <4>1
      <4> QED BY <4>1, <4>2
    <3> QED BY <1>4, <3>1, <3>2 DEF vars
  <2>3. TypeOK'
    BY <1>1, <1>2, <2>1, <2>2 DEF Served, TypeOK, Upstreams
  <2>4. Answered' /\ Conditional'
    BY <1>1, <1>2, <2>1 DEF Served, Answered, Conditional
  <2> QED BY <1>3, <2>3, <2>4 DEF Served
<1>5. CASE \E s \in Settings : Restart(s)
  <2>1. /\ setting' \in Settings /\ version' = version
        /\ asked' = [c \in Clients |-> None] /\ rest' = [c \in Clients |-> <<>>]
        /\ best' = [c \in Clients |-> 0] /\ reply' = [c \in Clients |-> None]
    BY <1>5 DEF Restart
  <2>2. ToSet(<<>>) = {}
    BY DEF ToSet
  <2>3. TypeOK'
    BY <1>1, <1>2, <2>1, <2>2 DEF Served, TypeOK, Upstreams
  <2>4. Answered' /\ Conditional'
    BY <2>1 DEF Answered, Conditional
  <2> QED BY <1>3, <2>3, <2>4 DEF Served
<1> QED BY <1>4, <1>5

LEMMA NextServed == IInv /\ Served /\ [Next]_vars => Served'
<1> SUFFICES ASSUME IInv, IInv', Served, [Next]_vars
             PROVE  Served'
  BY StepIInv
<1>1. ASSUME NEW c \in Clients, ForwardFails(c)
      PROVE  Served'
  <2>1. Tried'
    BY DEF IInv
  <2> QED BY <1>1, <2>1, FallBackServes DEF ForwardFails
<1>2. ASSUME NEW c \in Clients, ForwardNotModified(c) \/ ForwardBuffered(c) \/ ForwardStreamed(c)
      PROVE  Served'
  <2>1. rest[c] # <<>>
    BY <1>2 DEF ForwardNotModified, ForwardBuffered, ForwardStreamed
  <2> QED BY <1>2, <2>1, ForwardServes
<1> QED
  BY <1>1, <1>2, AskServes, HitServes, ExhaustedServes, WorldServes DEF Next

LEMMA ServedInvariance == Spec => [](IInv /\ Served)
BY InitIInv, StepIInv, InitServed, NextServed, PTL DEF Spec

\* Whatever is published, asked, broken off, relayed and restarted: who waits has no
\* reply yet, upstreams that are left to try exist, and every body that is sent, kept
\* or cached has a version that was published and a link for each of them.
THEOREM ManifestsTypeOK == Spec => []TypeOK
<1>1. IInv /\ Served => TypeOK
  BY DEF Served
<1> QED BY <1>1, ServedInvariance, PTL

\* Whatever the upstreams, routes and settings, and whichever of them changes between
\* two requests: links of a manifest that Forward passes on point at the proxy, when the
\* request names a host, and the manifest is within the limit and was not cut; on a route
\* that strips nothing, to upstreams without a base path, they lead through it to the
\* path that was published (metadata.go:15-40,66-137).
THEOREM LinksLeadThroughProxy == Spec => []LinksLeadBack
<1>1. IInv /\ Served => LinksLeadBack
  <2> SUFFICES ASSUME IInv, Served, NEW c \in Clients,
                      reply[c] # None, reply[c].kind = "reply", setting.enabled,
                      doc \in ManifestDocs, Size[doc] <= Limit, reply[c].body.cut # "close",
                      RewriteBaseURL(reply[c].asked.from).host # "",
                      NEW s \in DOMAIN reply[c].body.links
               PROVE  LET link == reply[c].body.links[s]
                          base == RewriteBaseURL(reply[c].asked.from)
                      IN /\ link.scheme = base.scheme /\ link.host = base.host
                         /\ ~route.stripPrefix /\ BasePath \in {<<>>, <<"/">>} =>
                              JoinPath(BasePath, Strip(route, link.path)) = TarballPath
    BY DEF LinksLeadBack
  <2> DEFINE from == reply[c].asked.from
             v == reply[c].body.version
             framing == reply[c].body.cut
             base == Base(setting, from)
  <2>1. RewriteBaseURL(from) = base
    BY BaseIsRewriteBase
  <2>2. Rewritable(setting, from)
    BY <2>1, ManifestsAreTold DEF IInv, Rewritable
  <2>3. reply[c].body = Made(setting, v, framing, from)
    BY <2>2 DEF Served, Answered, AsMade
  <2> HIDE DEF base
  <2>4. reply[c].body.links = [x \in 0..v |-> [scheme |-> base.scheme, host |-> base.host,
                                               path |-> TarballPath]]
    <3>1. Made(setting, v, framing, from).links = [x \in 0..v |-> [scheme |-> base.scheme, host |-> base.host,
                                                                   path |-> TarballPath]]
      BY DEF Made, base
    <3> HIDE DEF v, framing, from
    <3> QED BY <2>3, <3>1
  <2>5. reply[c].body.links[s] = [scheme |-> base.scheme, host |-> base.host, path |-> TarballPath]
    BY <2>4
  <2>6. BasePath \in {<<>>, <<"/">>} => JoinPath(BasePath, TarballPath) = TarballPath
    BY TarballPaths DEF IInv
  <2>7. ~route.stripPrefix => Strip(route, TarballPath) = TarballPath
    BY DEF Strip
  <2> DEFINE link == reply[c].body.links[s]
  <2>8. link.scheme = base.scheme /\ link.host = base.host /\ link.path = TarballPath
    <3>1. link = [scheme |-> base.scheme, host |-> base.host, path |-> TarballPath]
      BY <2>5
    <3> DEFINE made == [scheme |-> base.scheme, host |-> base.host, path |-> TarballPath]
    <3>2. made.scheme = base.scheme /\ made.host = base.host /\ made.path = TarballPath
      OBVIOUS
    <3> HIDE DEF link, made
    <3>3. link = made
      BY <3>1 DEF made
    <3> QED BY <3>2, <3>3
  <2>9. link.scheme = RewriteBaseURL(from).scheme /\ link.host = RewriteBaseURL(from).host
    BY <2>1, <2>8
  <2>10. ~route.stripPrefix => Strip(route, link.path) = TarballPath
    BY <2>7, <2>8
  <2> HIDE DEF link
  <2>11. ~route.stripPrefix /\ BasePath \in {<<>>, <<"/">>}
           => JoinPath(BasePath, Strip(route, link.path)) = TarballPath
    BY <2>6, <2>10, Zenon
  <2> QED BY <2>9, <2>11, Zenon DEF link
<1> QED BY <1>1, ServedInvariance, PTL

\* A 304 that Forward passes on confirms what a 200 would carry now, whichever upstream
\* sent the copy and whichever confirms it, and however often the proxy was restarted in
\* between, when the copy came from Forward under the settings of now and by the same
\* way, from a request that names a host, and nothing cut it (upstream.go:224-226,258-262).
THEOREM ConfirmsItsOwn == Spec => ConfirmsWhatItWouldSend
<1>1. ASSUME IInv, Served, Next, NEW c \in Clients,
             reply'[c] # reply[c], reply'[c] # None, reply'[c].kind = "confirmed"
      PROVE  ForwardNotModified(c)
  <2>1. ASSUME NEW d \in Clients, NEW kind, NEW body, NEW complete, Respond(d, kind, body, complete)
        PROVE  d = c /\ kind = "confirmed"
    BY <1>1, <2>1 DEF Respond, IInv, Shape
  <2>2. ASSUME NEW d \in Clients, NEW from, Hit(d, from)
        PROVE  FALSE
    BY <1>1, <2>2 DEF Hit, IInv, Shape
  <2>3. ASSUME NEW d \in Clients, NEW from, NEW conditional, Ask(d, from, conditional)
        PROVE  FALSE
    BY <1>1, <2>3 DEF Ask, IInv, Shape
  <2>4. ASSUME NEW d \in Clients, NEW definitive, FallBack(d, definitive)
        PROVE  FALSE
    BY <1>1, <2>4 DEF FallBack
  <2>5. ASSUME NEW d \in Clients, ForwardNotModified(d)
        PROVE  d = c
    BY <2>1, <2>5 DEF ForwardNotModified
  <2>6. ASSUME NEW d \in Clients,
               ForwardFails(d) \/ ForwardBuffered(d) \/ ForwardStreamed(d) \/ Exhausted(d)
        PROVE  FALSE
    <3>1. ForwardFails(d) => \E definitive : FallBack(d, definitive)
      BY DEF ForwardFails
    <3>2. ForwardBuffered(d) => FallBack(d, FALSE) \/ \E body : Respond(d, "reply", body, TRUE)
      BY DEF ForwardBuffered
    <3>3. ForwardStreamed(d) => \E body, complete : Respond(d, "reply", body, complete)
      BY DEF ForwardStreamed
    <3>4. Exhausted(d) => \E body, complete : \E kind \in {"bad gateway", "relayed"} :
                            Respond(d, kind, body, complete)
      BY DEF Exhausted
    <3>5. \A kind \in {"bad gateway", "relayed", "reply"} : kind # "confirmed"
      OBVIOUS
    <3> QED BY <2>1, <2>4, <2>6, <3>1, <3>2, <3>3, <3>4, <3>5
  <2>7. (\A u : ~Publish(u)) /\ \A s : ~Restart(s)
    BY <1>1 DEF Publish, Restart
  <2> QED BY <1>1, <2>2, <2>3, <2>5, <2>6, <2>7 DEF Next
<1>2. ASSUME IInv, Served, NEW c \in Clients, ForwardNotModified(c), Rewrites,
             have[c].kind = "reply", have[c].setting = setting, have[c].from = asked[c].from,
             RewriteBaseURL(have[c].from).host # "", doc \in ManifestDocs => Size[doc] <= Limit,
             have[c].body.cut = "close" => have[c].body.got = ReadLimit
      PROVE  have[c].body = Carried(Head(rest[c]), have[c].body.cut, asked[c].from)
  <2> DEFINE framing == have[c].body.cut
  <2>1. /\ rest[c] # <<>> /\ asked[c].etag # 0 /\ version[Head(rest[c])] = asked[c].etag
    BY <1>2 DEF ForwardNotModified
  <2>2. asked[c] # None /\ setting \in Settings
    BY <1>2, <2>1 DEF Served, TypeOK
  <2>3. have[c] # None /\ have[c].body.version = version[Head(rest[c])]
    BY <1>2, <2>1, <2>2 DEF Served, Conditional
  <2>4. Rewritable(setting, asked[c].from)
    BY <1>2, BaseIsRewriteBase DEF Rewritable, Rewrites
  <2>5. have[c].body = Made(setting, version[Head(rest[c])], framing, asked[c].from)
    BY <1>2, <2>3, <2>4 DEF Served, Copied, AsMade
  <2>6. Carried(Head(rest[c]), framing, asked[c].from)
          = Made(setting, version[Head(rest[c])], framing, asked[c].from)
    BY <1>2, <2>2, <2>4, CarriedIsMade DEF IInv
  <2> QED BY <2>5, <2>6
<1>3. IInv /\ Served /\ [Next]_vars =>
        [\A c \in Clients : reply'[c] # reply[c] /\ reply'[c] # None /\ reply'[c].kind = "confirmed" =>
           LET copy == have[c]
           IN Rewrites /\ copy.kind = "reply" /\ copy.setting = setting /\ copy.from = asked[c].from
                /\ RewriteBaseURL(copy.from).host # ""
                /\ (doc \in ManifestDocs => Size[doc] <= Limit)
                /\ (copy.body.cut = "close" => copy.body.got = ReadLimit)
              => copy.body = Carried(Head(rest[c]), copy.body.cut, asked[c].from)]_vars
  BY <1>1, <1>2
<1> QED BY <1>3, ServedInvariance, PTL DEF Spec, ConfirmsWhatItWouldSend
=============================================================================
