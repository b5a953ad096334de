----------------------------- MODULE Manifests -----------------------------
(***************************************************************************)
(* What clients get of a package: manifests whose tarball links are        *)
(* rewritten to lead back to the proxy (metadata.go, serveRewrittenMetadata*)
(* in upstream.go), tarballs, and what clients and the cache keep of them  *)
(* while upstreams publish, fail, and lag behind each other, and the proxy *)
(* is restarted with other settings.  Forward decides by the shape of the  *)
(* path whether it has a manifest before it; the cache decides by its end. *)
(* Documents do not affect each other: a behaviour is about one.  A body is *)
(* its version, its links, how much of it is there, and what the end of    *)
(* the reply would have been marked by if it is not all.                   *)
(***************************************************************************)
EXTENDS Paths, Priority

CONSTANTS Clients,
          Docs,        \* what upstreams publish, by path below their base path
          ManifestDocs,\* those of them that are manifests
          Size,        \* the length of each
          MaxVersion,  \* how often each is published at most
          Limit,       \* maxMetadataBytes
          Rank,        \* the priority of each upstream
          Origin,      \* the host each upstream publishes its links with
          BasePath,    \* the path of the upstreams' URL
          Froms,       \* the headers a request may come with
          Routes,      \* the routes to the upstreams there may be
          Settings,    \* the rewrite sections there may be
          None

Upstreams == DOMAIN Rank

\* How a reply marks its end: by its Content-Length, by its last chunk, or by the end
\* of the connection.  Go's client reports a reply that is cut short of the first two.
Framings == {"length", "chunks", "close"}

ASSUME ManifestsAssumption ==
  /\ ManifestDocs \subseteq Docs
  /\ Size \in [Docs -> Nat \ {0}]
  /\ MaxVersion \in [Docs -> Nat \ {0}]
  /\ Limit \in Nat
  /\ Rank \in Seq(Int)
  /\ \A d \in Docs : d \in Seq(STRING) /\ Len(d) > 1
  /\ \A d \in ManifestDocs : IsPackageMetadataPath(d) /\ Tail(d) # <<"/">>
  /\ BasePath \in Seq(STRING)
  /\ \A r \in Routes : r.prefix \in Seq(STRING)
  \* validate refuses other external URLs
  /\ \A s \in Settings : s.enabled /\ s.external # None =>
       s.external.scheme # "" /\ s.external.host # ""
  /\ None \notin [from : Froms, etag : Nat]

VARIABLES doc,      \* the document
          version,  \* what each upstream has of it, 0 for nothing; its ETag
          route,    \* the route that clients use
          setting,  \* the rewrite section of the running process
          asked,    \* the request of each client
          rest,     \* the upstreams that are left to try for it
          best,     \* bestDefinitive, 0 for nil
          reply,    \* what the client was last sent
          have,     \* what each client keeps of it, with its ETag
          stored    \* what the cache keeps

vars == <<doc, version, route, setting, asked, rest, best, reply, have, stored>>

\* How a client names a document, and what serve makes of that.
ClientPath == IF route.stripPrefix THEN route.prefix \o Tail(doc) ELSE doc
Path == Strip(route, ClientPath)

TarballPath == JoinPath(BasePath, doc \o <<"/", "-", "/", "tarball", ".tgz">>)

\* What upstream u sends of the document, or the first n units of it; link 0 is the
\* single-version form's.
Sent(u, framing, n) ==
  [version |-> version[u], got |-> n, cut |-> IF n < Size[doc] THEN framing ELSE "not",
   links |-> IF doc \in ManifestDocs
             THEN [s \in 0..version[u] |->
                    [scheme |-> "https", host |-> Origin[u], path |-> TarballPath]]
             ELSE <<>>]

Init ==
  /\ doc \in Docs
  /\ version \in [Upstreams -> 0..1]
  /\ route \in Routes
  /\ setting \in Settings
  /\ asked = [c \in Clients |-> None]
  /\ rest = [c \in Clients |-> <<>>]
  /\ best = [c \in Clients |-> 0]
  /\ reply = [c \in Clients |-> None]
  /\ have = [c \in Clients |-> None]
  /\ stored = None

IsBody(b) ==
  /\ b.version \in 1..MaxVersion[doc] /\ b.got \in 0..Size[doc] /\ b.cut \in Framings \cup {"not"}
  /\ doc \in ManifestDocs => DOMAIN b.links = 0..b.version

TypeOK ==
  /\ doc \in Docs /\ route \in Routes /\ setting \in Settings
  /\ version \in [Upstreams -> 0..MaxVersion[doc]]
  /\ asked \in [Clients -> [from : Froms, etag : 0..MaxVersion[doc]] \cup {None}]
  /\ \A c \in Clients :
       /\ asked[c] = None => rest[c] = <<>> /\ best[c] = 0
       /\ asked[c] # None => reply[c] = None
       /\ ToSet(rest[c]) \cup ({best[c]} \ {0}) \subseteq Upstreams
       /\ reply[c] # None /\ reply[c].body # None => IsBody(reply[c].body)
       /\ have[c] # None => IsBody(have[c].body)
  /\ stored # None => IsBody(stored)

-----------------------------------------------------------------------------
(* Rewriting.                                                              *)

First(values) == IF values = <<>> THEN "" ELSE values[1]

\* The base URL that links are made to point at.
RewriteBaseURL(from) ==
  LET proto == First(from.proto)
      host == First(from.forwarded)
  IN IF setting.external # None THEN setting.external
     ELSE [scheme |-> IF proto # "" THEN proto ELSE IF from.tls THEN "https" ELSE "http",
           host |-> IF host # "" THEN host ELSE from.host]

RewriteTarballURL(link, base) ==
  IF link.path = <<>> \/ base.scheme = "" \/ base.host = "" THEN link
  ELSE [link EXCEPT !.scheme = base.scheme, !.host = base.host]

\* Forward has a manifest before it, as far as it can tell.
Rewrites == setting.enabled /\ IsPackageMetadataPath(Path)

\* Fault: the client's Accept-Encoding is passed on with every request.
EncodedAlways == TRUE

\* The body arrives as the client's Accept-Encoding has it, and not decoded.
Encoded == ~Rewrites

\* Fault: the document is written out again without its versions.
RewriteTarballsDistOnly(body, base) ==
  IF Encoded \/ body.got < Size[doc] \/ body.links = <<>> THEN body
  ELSE [body EXCEPT !.links = [s \in {0} |-> RewriteTarballURL(@[s], base)]]

\* A body that is cut or encoded does not parse, and is left as it is.
RewriteTarballs(body, base) ==
  IF Encoded \/ body.got < Size[doc] THEN body
  ELSE [body EXCEPT !.links = [s \in DOMAIN @ |-> RewriteTarballURL(@[s], base)]]

ReadLimit == Min({Size[doc], Limit})

\* What a 200 from u carries to the client.
Carried(u, framing, from) ==
  RewriteTarballs(Sent(u, framing, ReadLimit), RewriteBaseURL(from))

-----------------------------------------------------------------------------
(* Requests.                                                               *)

InCache == IsCachablePath(ClientPath) /\ stored # None

Request(c, from, conditional) ==
  [from |-> from, etag |-> IF conditional THEN have[c].body.version ELSE 0]

\* What the client has is asked for conditionally, or not.  The upstreams are
\* those the race finds, or all.  One request at a time downloads a path that
\* can be cached (Serve).
Ask(c, from, conditional) ==
  /\ asked[c] = None
  /\ conditional => have[c] # None
  /\ ~InCache
  /\ IsCachablePath(ClientPath) => \A o \in Clients : asked[o] = None
  /\ asked' = [asked EXCEPT ![c] = Request(c, from, conditional)]
  /\ reply' = [reply EXCEPT ![c] = None]
  /\ \E alive \in RaceOutcomes(Upstreams, Rank) : rest' = [rest EXCEPT ![c] =
       IF alive = <<>> THEN ByPriority([u \in Upstreams |-> u], Rank) ELSE alive]
  /\ UNCHANGED <<doc, version, route, setting, best, have, stored>>

\* ServeHit; conditions are not looked at.
Hit(c, from) ==
  /\ asked[c] = None
  /\ InCache
  /\ reply' = [reply EXCEPT ![c] =
       [kind |-> "hit", asked |-> Request(c, from, FALSE), body |-> stored]]
  /\ have' = [have EXCEPT ![c] =
       [body |-> stored, kind |-> "hit", from |-> from, setting |-> setting]]
  /\ UNCHANGED <<doc, version, route, setting, asked, rest, best, stored>>

\* The client is sent a response; it keeps a body that comes to its end
\* as far as the client can tell.
Respond(c, kind, body, complete) ==
  /\ reply' = [reply EXCEPT ![c] = [kind |-> kind, asked |-> asked[c], body |-> body]]
  /\ asked' = [asked EXCEPT ![c] = None]
  /\ rest' = [rest EXCEPT ![c] = <<>>]
  /\ best' = [best EXCEPT ![c] = 0]
  /\ have' = IF body # None /\ complete
             THEN [have EXCEPT ![c] =
                    [body |-> body, kind |-> kind, from |-> asked[c].from, setting |-> setting]]
             ELSE have
  /\ UNCHANGED <<doc, version, route, setting>>

\* The tee keeps what was written, if anything was, and if that is not less than
\* the Content-Length that was passed on.
Kept(body, complete) ==
  IF IsCachablePath(ClientPath) /\ complete /\ body.got # 0 THEN body ELSE stored

\* Forward returns false: the next upstream's turn, and perhaps one to relay from.
FallBack(c, definitive) ==
  /\ rest' = [rest EXCEPT ![c] = Tail(@)]
  /\ best' = IF definitive /\ best[c] = 0 THEN [best EXCEPT ![c] = Head(rest[c])] ELSE best
  /\ UNCHANGED <<doc, version, route, setting, asked, reply, have, stored>>

\* No answer, or a status of 400 or more.
ForwardFails(c) == rest[c] # <<>> /\ \E definitive \in BOOLEAN : FallBack(c, definitive)

\* A 304: the ETag is that of what the upstream has.
ForwardNotModified(c) ==
  /\ rest[c] # <<>>
  /\ asked[c].etag # 0
  /\ version[Head(rest[c])] = asked[c].etag
  /\ Respond(c, "confirmed", None, TRUE)
  /\ UNCHANGED stored

\* Fault: what was read before an error is passed on.
ForwardBufferedReadErrors(c) ==
  LET u == Head(rest[c])
  IN /\ rest[c] # <<>> /\ Rewrites /\ version[u] # 0
     /\ \E framing \in Framings, n \in 0..ReadLimit :
          LET body == RewriteTarballs(Sent(u, framing, n), RewriteBaseURL(asked[c].from))
          IN /\ Respond(c, "reply", body, TRUE)
             /\ stored' = Kept(body, TRUE)

\* A 200 that is buffered, of which n units arrive.  Without the connection's end
\* for a mark, a cut is an error; with it, it may be one.  The Content-Length is
\* not passed on, so nobody can see that the limit cut it.
ForwardBuffered(c) ==
  LET u == Head(rest[c])
  IN /\ rest[c] # <<>> /\ Rewrites /\ version[u] # 0
     /\ \E framing \in Framings, n \in 0..ReadLimit :
          \/ n < ReadLimit /\ FallBack(c, FALSE)
          \/ LET body == RewriteTarballs(Sent(u, framing, n), RewriteBaseURL(asked[c].from))
             IN /\ n = ReadLimit \/ framing = "close"
                /\ Respond(c, "reply", body, TRUE)
                /\ stored' = Kept(body, TRUE)

\* The reply is short of the Content-Length that was passed on with it.  Of other
\* replies nobody sees that they were cut: Forward and Relay return as if they were
\* whole, and the server ends its response to the client in good order.
Short(framing, n) == framing = "length" /\ n < Size[doc]

\* A 200 that is streamed, of which n units arrive.
ForwardStreamed(c) ==
  LET u == Head(rest[c])
  IN /\ rest[c] # <<>> /\ ~Rewrites /\ version[u] # 0
     /\ \E framing \in Framings, n \in 0..Size[doc] :
          LET body == Sent(u, framing, n)
          IN /\ Respond(c, "reply", body, ~Short(framing, n))
             /\ stored' = Kept(body, ~Short(framing, n))

\* Nobody committed an answer: relay what the best of them says now, which may
\* be the document, after all, and is then passed on as it is.
Exhausted(c) ==
  /\ asked[c] # None /\ rest[c] = <<>>
  /\ \/ Respond(c, "bad gateway", None, TRUE)
     \/ best[c] # 0 /\ Respond(c, "relayed", None, TRUE)
     \/ /\ best[c] # 0 /\ version[best[c]] # 0
        /\ \E framing \in Framings, n \in 0..Size[doc] :
             Respond(c, "relayed", Sent(best[c], framing, n), ~Short(framing, n))
  /\ UNCHANGED stored

\* An upstream has the next version.
Publish(u) ==
  /\ version[u] < MaxVersion[doc]
  /\ version' = [version EXCEPT ![u] = @ + 1]
  /\ UNCHANGED <<doc, route, setting, asked, rest, best, reply, have, stored>>

\* The process is stopped and started with another rewrite section.
Restart(s) ==
  /\ setting' = s
  /\ asked' = [c \in Clients |-> None]
  /\ rest' = [c \in Clients |-> <<>>]
  /\ best' = [c \in Clients |-> 0]
  /\ reply' = [c \in Clients |-> None]
  /\ UNCHANGED <<doc, version, route, have, stored>>

Next ==
  \/ \E c \in Clients :
       \/ \E from \in Froms : Hit(c, from) \/ \E conditional \in BOOLEAN : Ask(c, from, conditional)
       \/ ForwardFails(c) \/ ForwardNotModified(c)
       \/ ForwardBuffered(c) \/ ForwardStreamed(c) \/ Exhausted(c)
  \/ \E u \in Upstreams : Publish(u)
  \/ \E s \in Settings : Restart(s)

Spec == Init /\ [][Next]_vars

-----------------------------------------------------------------------------
(* Properties.                                                             *)

\* With rewriting on, every link of a manifest that Forward passed on points at
\* the proxy as this client reaches it; and on a route that strips nothing, to
\* upstreams without a base path, following it through the proxy asks upstreams
\* for the very path they published (config.go:83-90).  Not so for a request
\* that names no host, and for a manifest that was cut by the limit, or by an
\* upstream whose reply ends with its connection.
LinksLeadBack ==
  \A c \in Clients : reply[c] # None /\ reply[c].kind = "reply" /\ setting.enabled =>
    LET body == reply[c].body
        base == RewriteBaseURL(reply[c].asked.from)
    IN doc \in ManifestDocs /\ Size[doc] <= Limit /\ body.cut # "close" /\ base.host # "" =>
         \A s \in DOMAIN body.links :
           /\ body.links[s].scheme = base.scheme /\ body.links[s].host = base.host
           /\ ~route.stripPrefix /\ BasePath \in {<<>>, <<"/">>} =>
                JoinPath(BasePath, Strip(route, body.links[s].path)) = TarballPath

\* It is all there, or nobody was told that it is not: neither the proxy, nor those to
\* whom it is passed on unless the proxy reads it to the end first.
Whole(body, buffered) ==
  body.got = Size[doc] \/ body.cut = "close" \/ (body.cut = "chunks" /\ ~buffered)

\* What a client takes for complete, and what the cache keeps, is whole, whichever
\* upstreams broke off before, when the upstream announced its length, and, of what
\* Forward buffered, also when it came in chunks; except for what has a manifest's
\* path and exceeds the limit (upstream.go:132-133,243-248, tee.go:101-118).
KeptWhole ==
  Size[doc] <= Limit \/ ~IsPackageMetadataPath(Path) =>
    /\ \A c \in Clients : have[c] # None =>
         LET copy == have[c]
         IN Whole(copy.body, /\ copy.kind = "reply" /\ copy.setting.enabled
                             /\ IsPackageMetadataPath(Path))
    /\ stored # None => Whole(stored, FALSE)

\* What metadata.go:12-13 says: tarball downloads stream through untouched, so
\* that none is kept short, unless its upstream sent it short and did not say so.
TarballsUntouched ==
  doc \notin ManifestDocs /\ stored # None => Whole(stored, FALSE)

\* A document whose name is not a tarball's comes from an upstream that has it
\* now, never from the cache (cache.go:3-4,22-25).
Fresh ==
  [][\A c \in Clients :
       reply'[c] # reply[c] /\ reply'[c] # None /\ reply'[c].body # None
         /\ Lower(Last(doc)) \notin TarballSuffixes
       => \E u \in Upstreams : version[u] = reply'[c].body.version]_vars

\* A 304 confirms what a 200 would carry now: validators of the upstream are good
\* for rewritten manifests (upstream.go:224-226,258-262), when the client got its
\* copy from Forward under the present settings and by the same way to the proxy,
\* and nothing cut it: what is cut keeps the links of its own upstream.
ConfirmsWhatItWouldSend ==
  [][\A c \in Clients : reply'[c] # reply[c] /\ reply'[c] # None /\ reply'[c].kind = "confirmed" =>
       LET copy == have[c]
       IN Rewrites /\ copy.kind = "reply" /\ copy.setting = setting /\ copy.from = asked[c].from
            /\ RewriteBaseURL(copy.from).host # ""
            /\ (doc \in ManifestDocs => Size[doc] <= Limit)
            /\ (copy.body.cut = "close" => copy.body.got = ReadLimit)
          => copy.body = Carried(Head(rest[c]), copy.body.cut, asked[c].from)]_vars
=============================================================================
