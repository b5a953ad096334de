------------------------------- MODULE Server -------------------------------
(***************************************************************************)
(* The process from start to exit: runStart loads the configuration and    *)
(* builds the router, a goroutine listens, another takes signals, requests *)
(* are dispatched by prefix, and Shutdown waits for them, for so long.     *)
(* The configuration file may be replaced (download-config) while the      *)
(* server runs, and the cache outlives it.  What serve does in between is  *)
(* module Serve; here a request is a hit, or is fetched and perhaps stored.*)
(***************************************************************************)
EXTENDS Config

CONSTANTS Handlers,   \* the goroutines of requests in flight
          Requests,   \* what clients may ask for
          ConfigFiles,\* the configuration files there are
          Dirs,       \* every cache directory named in them
          None

RequestType == [method : STRING, path : Seq(STRING), query : STRING]

\* What NewRouter may build.
RouterType ==
  [routes : Seq([prefix : Seq(STRING), stripPrefix : BOOLEAN, upstreams : Seq(UpstreamType)]),
   retries : Nat, readDirs : Seq(Dirs), writeDir : Dirs \cup {NoDir}]

\* A query is given by its hash, which is no file's ending.
ASSUME ServerAssumption ==
  /\ ConfigFiles \subseteq ConfigType
  /\ \A raw \in ConfigFiles : \A i \in DOMAIN raw.directories :
       AbsTrim[raw.directories[i].path] \in Dirs \cup {""}
  /\ Requests \subseteq RequestType
  /\ \A q \in Requests : q.query \notin {"/", "."} /\ Lower(q.query) \notin TarballSuffixes
  /\ None \notin RouterType

VARIABLES file,      \* the configuration file, as parsed
          incoming,  \* what download-config is about to write
          main,      \* the goroutine of runStart
          starter,   \* the goroutine that runs Start
          shut,      \* http.Server.inShutdown
          quit,      \* a signal is in the channel
          expired,   \* Shutdown's 15 seconds are over
          loaded,    \* the file as it was when the process started
          router,    \* what NewRouter built
          handler,   \* each request in flight
          disk       \* disk[d][n]: the request whose reply is the file n of d

processVars == <<main, starter, shut, quit, expired, loaded, router, handler>>
vars == <<file, incoming, processVars, disk>>

\* A request in flight: its route, 0 for none; what serve asks upstreams for;
\* and the request whose reply the cache has for it.
Idle == [req |-> None, route |-> 0, target |-> <<>>, hit |-> None]

Names == {File(Key(q)) : q \in Requests} \ {<<>>}

\* The file as YAML was written so far: sections and routes are written in order.
Cuts(raw) ==
  {Refused} \cup
  {[raw EXCEPT !.routes = SubSeq(@, 1, k), !.directories = <<>>] : k \in 0..Len(raw.routes)}

Init ==
  /\ file \in ConfigFiles
  /\ incoming = None
  /\ main = "down" /\ starter = "none"
  /\ shut = FALSE /\ quit = FALSE /\ expired = FALSE
  /\ loaded = None /\ router = None
  /\ handler = [h \in Handlers |-> Idle]
  /\ disk = [d \in Dirs |-> [n \in Names |-> None]]

TypeOK ==
  /\ file \in ConfigFiles \cup UNION {Cuts(raw) : raw \in ConfigFiles}
  /\ incoming \in ConfigFiles \cup {None}
  /\ main \in {"down", "spawned", "waiting", "draining"}
  /\ starter \in {"none", "spawned", "set", "serving", "returned"}
  /\ shut \in BOOLEAN /\ quit \in BOOLEAN /\ expired \in BOOLEAN
  /\ router \in RouterType \cup {None}
  /\ router = None <=> main = "down"
  /\ starter = "none" <=> main = "down"
  /\ main = "down" => \A h \in Handlers : handler[h] = Idle
  /\ \A h \in Handlers :
       /\ handler[h].req \in Requests \cup {None}
       /\ handler[h].req # None => handler[h].route \in 0..Len(router.routes)
       /\ handler[h].hit \in Requests \cup {None}
  /\ disk \in [Dirs -> [Names -> Requests \cup {None}]]

-----------------------------------------------------------------------------
(* download-config, in a process of its own.                               *)

\* The answer was complete: os.WriteFile truncates the file.
DownloadOpens(raw) ==
  /\ incoming = None
  /\ incoming' = raw
  /\ file' = Refused
  /\ UNCHANGED <<processVars, disk>>

DownloadWrites ==
  /\ incoming # None
  /\ file' = incoming
  /\ incoming' = None
  /\ UNCHANGED <<processVars, disk>>

\* The disk is full, or the process dies.
DownloadBreaksOff ==
  /\ incoming # None
  /\ file' \in Cuts(incoming)
  /\ incoming' = None
  /\ UNCHANGED <<processVars, disk>>

-----------------------------------------------------------------------------
(* Start.                                                                  *)

\* cleanupStaleTmp removes what is directly in .tmp, also a cached file.
Swept(writeDir) ==
  [d \in Dirs |-> [n \in Names |->
     IF d = writeDir /\ Len(n) = 2 /\ n[1] = <<".tmp">> THEN None ELSE disk[d][n]]]

\* Fault: the error of NewRouter is not looked at.
LaunchUnchecked ==
  LET c == Load(file)
  IN /\ main = "down"
     /\ c # Refused
     /\ loaded' = file
     /\ router' = IF \A i \in DOMAIN c.upstreams : Builds(c.upstreams[i]) THEN NewRouter(c) ELSE None
     /\ main' = "spawned"
     /\ starter' = "spawned"
     /\ UNCHANGED <<file, incoming, shut, quit, expired, handler, disk>>

\* runStart up to the goroutine that will listen; otherwise log.Fatal.
Launch ==
  LET c == Load(file)
  IN /\ main = "down"
     /\ c # Refused
     /\ \A i \in DOMAIN c.upstreams : Builds(c.upstreams[i])
     /\ loaded' = file
     /\ router' = NewRouter(c)
     /\ disk' = Swept(router'.writeDir)
     /\ main' = "spawned"
     /\ starter' = "spawned"
     /\ UNCHANGED <<file, incoming, shut, quit, expired, handler>>

\* main returned, log.Fatal, or a signal that nobody is notified of.
Exit ==
  /\ main' = "down" /\ starter' = "none"
  /\ shut' = FALSE /\ quit' = FALSE /\ expired' = FALSE
  /\ loaded' = None /\ router' = None
  /\ handler' = [h \in Handlers |-> Idle]
  /\ UNCHANGED <<file, incoming, disk>>

\* Start sets s.server.
SetServer ==
  /\ starter = "spawned"
  /\ starter' = "set"
  /\ UNCHANGED <<file, incoming, main, shut, quit, expired, loaded, router, handler, disk>>

\* ListenAndServe listens, or returns ErrServerClosed.
Listen ==
  /\ starter = "set"
  /\ starter' = IF shut THEN "returned" ELSE "serving"
  /\ UNCHANGED <<file, incoming, main, shut, quit, expired, loaded, router, handler, disk>>

\* The address is taken.
ListenFails ==
  /\ starter = "set" /\ ~shut
  /\ Exit

Notify ==
  /\ main = "spawned"
  /\ main' = "waiting"
  /\ UNCHANGED <<file, incoming, starter, shut, quit, expired, loaded, router, handler, disk>>

-----------------------------------------------------------------------------
(* Stop.                                                                   *)

\* Fault: a second signal ends the process.
SignalTwiceKills ==
  \/ main \in {"spawned", "draining"} /\ Exit
  \/ /\ main = "waiting"
     /\ quit' = TRUE
     /\ UNCHANGED <<file, incoming, main, starter, shut, expired, loaded, router, handler, disk>>

\* The channel holds one signal; signals that find it full are dropped.
Signal ==
  \/ main = "spawned" /\ Exit
  \/ /\ main \in {"waiting", "draining"}
     /\ quit' = TRUE
     /\ UNCHANGED <<file, incoming, main, starter, shut, expired, loaded, router, handler, disk>>

\* Shutdown reads s.server, which another goroutine sets: nil, while it may not
\* have seen that yet.
Stop ==
  /\ main = "waiting" /\ quit
  /\ \/ starter \in {"spawned", "set"} /\ Exit
     \/ /\ starter # "spawned"
        /\ main' = "draining"
        /\ shut' = TRUE
        /\ quit' = FALSE
        /\ UNCHANGED <<file, incoming, starter, expired, loaded, router, handler, disk>>

\* Fault: Shutdown is given a context without a deadline.
ExpireNever == FALSE /\ UNCHANGED vars

Expire ==
  /\ main = "draining" /\ ~expired
  /\ expired' = TRUE
  /\ UNCHANGED <<file, incoming, main, starter, shut, quit, loaded, router, handler, disk>>

\* Shutdown returns, and main with it.
ShutdownReturns ==
  /\ main = "draining"
  /\ expired \/ \A h \in Handlers : handler[h] = Idle
  /\ Exit

-----------------------------------------------------------------------------
(* Requests.                                                               *)

\* The first route whose prefix the path has.
Match(q) ==
  LET found == {i \in DOMAIN router.routes : HasPrefix(q.path, router.routes[i].prefix)}
  IN IF found = {} THEN 0 ELSE Min(found)

\* The request whose reply ServeHit finds in the first directory that has one.
Cached(q) ==
  LET found(i) == disk[router.readDirs[i]][File(Key(q))]
      at == {i \in DOMAIN router.readDirs : Key(q) # <<>> /\ found(i) # None}
  IN IF at = {} THEN None ELSE found(Min(at))

ServeHTTP(h, q) ==
  /\ starter = "serving" /\ ~shut
  /\ handler[h] = Idle
  /\ handler' = [handler EXCEPT ![h] =
       IF Match(q) = 0 THEN [Idle EXCEPT !.req = q]
       ELSE [req |-> q, route |-> Match(q),
             target |-> Strip(router.routes[Match(q)], q.path), hit |-> Cached(q)]]
  /\ UNCHANGED <<file, incoming, main, starter, shut, quit, expired, loaded, router, disk>>

\* The handler returns; a tarball it downloaded may have been stored.
Finish(h) ==
  LET q == handler[h].req
      stores == /\ handler[h].route # 0 /\ handler[h].hit = None
                /\ router.writeDir # NoDir /\ Key(q) # <<>>
  IN /\ q # None
     /\ handler' = [handler EXCEPT ![h] = Idle]
     /\ \/ UNCHANGED disk
        \/ stores /\ disk' = [disk EXCEPT ![router.writeDir][File(Key(q))] = q]
     /\ UNCHANGED <<file, incoming, main, starter, shut, quit, expired, loaded, router>>

Next ==
  \/ \E raw \in ConfigFiles : DownloadOpens(raw)
  \/ DownloadWrites \/ DownloadBreaksOff
  \/ Launch \/ SetServer \/ Listen \/ ListenFails \/ Notify
  \/ Signal \/ Stop \/ Expire \/ ShutdownReturns
  \/ \E h \in Handlers : Finish(h) \/ \E q \in Requests : ServeHTTP(h, q)

Spec == Init /\ [][Next]_vars

\* The goroutine of main runs, and time passes; no handler need ever return.
FairSpec == Spec /\ WF_vars(Stop) /\ WF_vars(Expire) /\ WF_vars(ShutdownReturns)

-----------------------------------------------------------------------------
(* What the rest of the system assumes of a running server, and what its   *)
(* users are promised.                                                     *)

\* A router that runs meets what the other modules assume of it: serve has a
\* candidate to index and calls none that is nil (router.go:168,207,239), the
\* race is run at least once (router.go:266), and the tee writes to one
\* directory, which is searched for hits too (cache.go:31-34).  So it is also
\* after a download of the configuration broke off.
SoundRouter ==
  router # None =>
    /\ router.retries >= 0
    /\ \A i \in DOMAIN router.routes :
         router.routes[i].upstreams # <<>> /\ Nil \notin ToSet(router.routes[i].upstreams)
    /\ router.writeDir # NoDir => router.writeDir \in ToSet(router.readDirs)
    /\ \A i, j \in DOMAIN loaded.directories :
         LowerTrim[loaded.directories[i].type] = "write"
           /\ LowerTrim[loaded.directories[j].type] = "write" => i = j

\* A request goes to the route with the longest prefix that its path has, the
\* first such in the file, wherever a catch-all was written; it gets a 404 only
\* when no route has it (config.go:151-153, router.go:114-129).
LongestMatch ==
  \A h \in Handlers : handler[h] # Idle =>
    LET matching == {i \in DOMAIN loaded.routes :
                       HasPrefix(handler[h].req.path, loaded.routes[i].prefix)}
        longest == {i \in matching : \A j \in matching :
                      Len(loaded.routes[j].prefix) <= Len(loaded.routes[i].prefix)}
        chosen == router.routes[handler[h].route]
        best == loaded.routes[Min(longest)]
    IN IF matching = {} THEN handler[h].route = 0
       ELSE /\ handler[h].route # 0
            /\ chosen.prefix = best.prefix /\ chosen.stripPrefix = best.stripPrefix
            /\ handler[h].target = Strip(best, handler[h].req.path)

\* A request whose path has no empty segment and no dot is never served what was
\* downloaded for another such request, whatever routes either went through and
\* whichever configuration and process stored it (cache.go:5-6,222-226).
HitsOwnRequest ==
  \A h \in Handlers : handler[h].hit # None =>
    LET q == handler[h].req
        stored == handler[h].hit
    IN IsPlain(q.path) /\ IsPlain(stored.path) =>
         stored.path = q.path /\ stored.query = q.query

\* Whom the connections of a running server go to, for the upstream's own host or
\* another that it redirects to.  A SOCKS5 proxy is asked for the host, though the
\* upstream is pinned to an address, and so is an HTTP proxy of one that is not.  An
\* HTTP proxy of a pinned upstream is itself looked for at the pinned address.  Without
\* a proxy it is the pinned address, for every host, or the host (upstream.go:275-361).
DialsAsConfigured ==
  router # None =>
    \A i \in DOMAIN router.routes : \A u \in ToSet(router.routes[i].upstreams) :
      LET pinned == u.resolve # ""
          socks == u.proxy.url.scheme \in {"socks5", "socks5h"}
      IN \A host \in {u.url.host, "elsewhere"} :
           LET connection == Connect(BuildTransport(u), host)
           IN /\ u.proxy.enabled /\ (socks \/ ~pinned) =>
                   connection = [peer |-> u.proxy.url.host, asked |-> host]
              /\ u.proxy.enabled /\ ~socks /\ pinned =>
                   connection = [peer |-> u.resolve, asked |-> host]
              /\ ~u.proxy.enabled =>
                   connection.peer = IF pinned THEN u.resolve ELSE host

\* The process ends under a request in flight only when it has waited for it for
\* the whole of Shutdown's time, or was killed before it asked for signals
\* (main.go:74-83, server.go:44-50).
Drained ==
  [][main # "down" /\ main' = "down" /\ (\E h \in Handlers : handler[h] # Idle)
       => expired \/ main = "spawned"]_vars

\* A server told to stop stops, though requests hang and further signals come.
Stops == main = "waiting" /\ quit ~> main = "down"
=============================================================================
