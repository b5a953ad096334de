------------------------------- MODULE Config -------------------------------
(***************************************************************************)
(* From the parsed configuration file to a Router: Load normalises,        *)
(* validates and sorts, NewRouter and NewUpstream build, buildTransport    *)
(* decides where an upstream's connections go.  Durations and pool sizes   *)
(* are left out.  Lengths of prefixes are counted in chunks: two prefixes  *)
(* of one path compare the same way in bytes.                              *)
(***************************************************************************)
EXTENDS Paths, Priority

CONSTANTS LowerTrim,  \* strings.ToLower(strings.TrimSpace(d.Type)), by spelling
          AbsTrim,    \* filepath.Abs(strings.TrimSpace(d.Path)), by spelling
          Refused,    \* Load returned an error
          Nil,        \* no such upstream, no such layer of a transport
          NoDir       \* CacheWriteDir() = ""

\* The zero value of a URL.
NoURL == [scheme |-> "", host |-> "", path |-> <<>>]

URL == [scheme : STRING, host : STRING, path : Seq(STRING)]

UpstreamType == [name : STRING, url : URL, resolve : STRING,
                 proxy : [enabled : BOOLEAN, url : URL]]
RouteType == [prefix : Seq(STRING), stripPrefix : BOOLEAN,
              upstream : STRING, upstreams : Seq(STRING)]
DirectoryType == [path : STRING, type : STRING]

\* The file as parsed.
ConfigType == [upstreams : Seq(UpstreamType), routes : Seq(RouteType),
               directories : Seq(DirectoryType), retries : Int,
               rewrite : [enabled : BOOLEAN, external : URL]]

ASSUME ConfigAssumption == Nil \notin STRING

IsAbsoluteURL(url) == url.scheme # "" /\ url.host # ""

-----------------------------------------------------------------------------
(* Load.                                                                   *)

\* Upstreams wins, then Upstream, then all of them.
NormalizeRoutes(c) ==
  LET all == [i \in DOMAIN c.upstreams |-> c.upstreams[i].name]
      candidates(r) == IF r.upstreams # <<>> THEN r.upstreams
                       ELSE IF r.upstream # "" THEN <<r.upstream>> ELSE all
  IN [c EXCEPT !.routes = [i \in DOMAIN c.routes |->
       [c.routes[i] EXCEPT !.upstreams = candidates(c.routes[i])]]]

NormalizeCache(c) ==
  LET type(d) == IF LowerTrim[d.type] = "" THEN "read" ELSE LowerTrim[d.type]
  IN [c EXCEPT !.directories = [i \in DOMAIN c.directories |->
       [path |-> AbsTrim[c.directories[i].path], type |-> type(c.directories[i])]]]

UpstreamByName(c, name) ==
  IF \E i \in DOMAIN c.upstreams : c.upstreams[i].name = name
  THEN c.upstreams[CHOOSE i \in DOMAIN c.upstreams : c.upstreams[i].name = name]
  ELSE Nil

Writers(c) == {i \in DOMAIN c.directories : c.directories[i].type = "write"}

ValidRewrite(c) ==
  c.rewrite.enabled /\ c.rewrite.external # NoURL => IsAbsoluteURL(c.rewrite.external)

ValidDirectories(c) ==
  /\ \A i \in DOMAIN c.directories :
       c.directories[i].path # "" /\ c.directories[i].type \in {"read", "write"}
  /\ Cardinality(Writers(c)) <= 1

ValidUpstreams(c) ==
  /\ c.upstreams # <<>>
  /\ \A i, j \in DOMAIN c.upstreams : c.upstreams[i].name = c.upstreams[j].name => i = j
  /\ \A i \in DOMAIN c.upstreams :
       LET u == c.upstreams[i]
       IN /\ u.name # "" /\ u.url # NoURL
          /\ u.proxy.enabled => u.proxy.url # NoURL

\* Fault: a route may name an upstream that is not defined.
ValidRoutesDangling(c) ==
  /\ c.routes # <<>>
  /\ \A i \in DOMAIN c.routes :
       HasPrefix(c.routes[i].prefix, <<"/">>) /\ c.routes[i].upstreams # <<>>

ValidRoutes(c) ==
  /\ c.routes # <<>>
  /\ \A i \in DOMAIN c.routes :
       /\ HasPrefix(c.routes[i].prefix, <<"/">>)
       /\ c.routes[i].upstreams # <<>>
       /\ \A name \in ToSet(c.routes[i].upstreams) : UpstreamByName(c, name) # Nil

Valid(c) == ValidRewrite(c) /\ ValidDirectories(c) /\ ValidUpstreams(c) /\ ValidRoutes(c)

\* Fault: routes are tried in the order in which they were written.
SortRoutesNot(routes) == routes

SortRoutesLongestFirst(routes) ==
  LET order == ByPriority([i \in DOMAIN routes |-> i],
                          [i \in DOMAIN routes |-> -Len(routes[i].prefix)])
  IN [k \in DOMAIN routes |-> routes[order[k]]]

\* raw is the parsed file, over the defaults; Refused when it does not parse.
Load(raw) ==
  IF raw = Refused THEN Refused
  ELSE LET c == NormalizeCache(NormalizeRoutes(
                  [raw EXCEPT !.retries = IF @ < 0 THEN 0 ELSE @]))
       IN IF Valid(c) THEN [c EXCEPT !.routes = SortRoutesLongestFirst(@)] ELSE Refused

-----------------------------------------------------------------------------
(* Transports.                                                             *)

\* http.Transport: pin and socks are layers of DialContext, proxy is its Proxy.
NoTransport == [pin |-> "", socks |-> Nil, proxy |-> Nil]

ApplyResolve(tr, u) == IF u.resolve = "" THEN tr ELSE [tr EXCEPT !.pin = u.resolve]

\* A SOCKS5 dialer takes the place of DialContext, with what was wrapped in it.
ApplyProxy(tr, u) ==
  IF ~u.proxy.enabled THEN tr
  ELSE IF u.proxy.url.scheme \in {"socks5", "socks5h"}
       THEN [tr EXCEPT !.pin = "", !.socks = u.proxy.url.host]
       ELSE [tr EXCEPT !.proxy = u.proxy.url.host]

\* Fault: the proxy is wired first.
BuildTransportProxyFirst(u) == ApplyResolve(ApplyProxy(NoTransport, u), u)

BuildTransport(u) == ApplyProxy(ApplyResolve(NoTransport, u), u)

\* DialContext: whom it connects to, and whom the peer is asked to connect to.
Dial(tr, addr) ==
  LET target == IF tr.pin = "" THEN addr ELSE tr.pin
  IN [peer |-> IF tr.socks = Nil THEN target ELSE tr.socks, asked |-> target]

\* http.Transport dials its Proxy through DialContext, and asks it for the host.
Connect(tr, host) ==
  IF tr.proxy = Nil THEN Dial(tr, host) ELSE [Dial(tr, tr.proxy) EXCEPT !.asked = host]

-----------------------------------------------------------------------------
(* NewRouter.                                                              *)

\* NewUpstream succeeds.
Builds(u) ==
  /\ IsAbsoluteURL(u.url)
  /\ u.proxy.enabled => u.proxy.url.scheme \in {"http", "https", "socks5", "socks5h"}

CacheReadDirs(c) == [i \in DOMAIN c.directories |-> c.directories[i].path]

CacheWriteDir(c) ==
  IF Writers(c) = {} THEN NoDir ELSE c.directories[Min(Writers(c))].path

NewRouter(c) ==
  [routes |-> [i \in DOMAIN c.routes |->
     [prefix |-> c.routes[i].prefix,
      stripPrefix |-> c.routes[i].stripPrefix,
      upstreams |-> [k \in DOMAIN c.routes[i].upstreams |->
                      UpstreamByName(c, c.routes[i].upstreams[k])]]],
   retries |-> c.retries,
   readDirs |-> CacheReadDirs(c),
   writeDir |-> CacheWriteDir(c)]
=============================================================================
