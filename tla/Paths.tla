------------------------------- MODULE Paths -------------------------------
(***************************************************************************)
(* What the proxy does with the path of a request: match and strip a       *)
(* route's prefix, join it to an upstream's base path, tell manifests from *)
(* other documents, and turn it into the name of a cached file.  A path is *)
(* a sequence of chunks of text; "/" is always a chunk of its own, and so  *)
(* are "..", ".", "-" when they are a whole segment and the ending of an   *)
(* artifact, so that one text is cut into chunks in one way only.          *)
(***************************************************************************)
EXTENDS Lists

HasPrefix(p, prefix) == IsPrefix(prefix, p)

TrimPrefix(p, prefix) ==
  IF HasPrefix(p, prefix) THEN SubSeq(p, Len(prefix) + 1, Len(p)) ELSE p

Strip(route, p) == IF route.stripPrefix THEN TrimPrefix(p, route.prefix) ELSE p

JoinPath(base, rest) ==
  LET rooted == IF HasPrefix(rest, <<"/">>) THEN rest ELSE <<"/">> \o rest
  IN IF rest \in {<<>>, <<"/">>} THEN IF base = <<>> THEN <<"/">> ELSE base
     ELSE IF base \in {<<>>, <<"/">>} THEN rooted
     ELSE (IF Last(base) = "/" THEN Front(base) ELSE base) \o rooted

\* The text contains "/-/" when it has these three chunks in a row.
IsPackageMetadataPath(p) ==
  /\ p \notin {<<>>, <<"/">>}
  /\ ~\E i \in DOMAIN p : HasPrefix(SubSeq(p, i, Len(p)), <<"/", "-", "/">>)

-----------------------------------------------------------------------------
(* Names of cached files.                                                  *)

TarballSuffixes == {".tgz", ".tar.gz", ".tar", ".gz", ".zip",
                    ".tar.bz2", ".tar.xz", ".bz2", ".xz"}

Lower(chunk) == IF chunk = ".TGZ" THEN ".tgz" ELSE chunk

\* Fault: everything is cached.
IsCachablePathAlways(p) == p # <<>>

IsCachablePath(p) == p # <<>> /\ Lower(Last(p)) \in TarballSuffixes

Segments(p) ==
  LET upTo[n \in 0..Len(p)] ==
        IF n = 0 THEN <<<<>>>>
        ELSE IF p[n] = "/" THEN Append(upTo[n - 1], <<>>)
        ELSE Front(upTo[n - 1]) \o <<Append(Last(upTo[n - 1]), p[n])>>
  IN upTo[Len(p)]

\* Fault: the query is not part of the name.
CacheRelPathWithoutQuery(p, query) ==
  IF <<"..">> \in ToSet(Segments(p)) THEN <<>> ELSE TrimPrefix(p, <<"/">>)

\* cacheRelPath; the empty path for ok = false, which no request is given
\* otherwise.  A query stands for its hash.
CacheRelPath(p, query) ==
  LET rel == TrimPrefix(p, <<"/">>)
  IN CASE <<"..">> \in ToSet(Segments(p)) -> <<>>
       [] rel = <<>> -> <<>>
       [] OTHER -> IF query = "" THEN rel ELSE rel \o <<"_", query>>

Key(q) ==
  IF q.method = "GET" /\ IsCachablePath(q.path) THEN CacheRelPath(q.path, q.query) ELSE <<>>

\* filepath.Join drops empty segments and dots: the segments of the file's name.
File(key) == Filter(Segments(key), ToSet(Segments(key)) \ {<<>>, <<".">>})

\* What Join leaves as it is.
IsPlain(p) == HasPrefix(p, <<"/">>) /\ \A s \in ToSet(Segments(Tail(p))) : s \notin {<<>>, <<".">>}
=============================================================================
