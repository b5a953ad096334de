# A TLA+ model of npm-auto-proxy

`npm-auto-proxy` is an HTTP proxy in front of npm registries. A request is routed by path prefix to a
list of candidate upstreams; for a GET the candidates are probed with concurrent HEADs, the healthy
ones are tried in order of priority, and tarballs are teed into a disk cache on their way to the
client. Requests for one tarball take turns, so that the followers are served from the cache.

This directory holds TLA+ modules that model that behaviour, TLC configurations that check them on
small instances, and proofs, checked by TLAPS, of the properties that matter most. References of the
form `cache.go:98` are to the files below `src/`.

## 1. Inventory

| Component (source) | State it keeps | Operations | Hard behaviour | What makes it correct |
|---|---|---|---|---|
| Download lock (`internal/cache/cache.go:41-52,133-171`) | `Cache.flights`, `flightEntry.{mu,refs}`, `fmu` | `Acquire`, `mu.Lock`, `mu.Unlock`, `release` | entries are created, shared, deleted and created again while handlers are between any two of these | one holder per path; an entry lives exactly while somebody refers to it; no starvation |
| Disk cache (`cache.go:54-131,173-193`, `tee.go`) | cache directories, `<writeDir>/.tmp`, one `teeResponseWriter` per request | `New`/`cleanupStaleTmp`, `ServeHit`, `Capture`, `Write`, `finalize`, `abort` | disk failures at any call, client disconnects, cut downloads, crashes, a second process | what is published is complete and appears in one step; staging files are never orphaned |
| Cache key (`cache.go:195-245`) | none | `key`, `isCachablePath`, `cacheRelPath` | aliases, query hashes, the same path below several routes | GET tarballs only; no two tarballs share a file |
| HEAD race (`internal/proxy/router.go:261-364`) | per call: probe goroutines, a channel per round, a timer, counters | `raceHead`, `raceHeadOnce`, `resetTimer`, `collectHealthy`, `sortByPriority` | results racing the timer; a timer that has fired when it is reset; probes that outlive their round; retries; client cancellation | healthy candidates only, in order; nothing that arrived is lost; the grace period is granted; it returns; no goroutine leaks |
| Serve strategy (`router.go:131-252`) | per request: position, `alive`, `bestDefinitive` | `serve` | all of the above, composed; fallback; relaying | one answer per request, the right one; one fetch per path; nothing cached is fetched again |
| Forward, Relay (`upstream.go:122-270`) | none | `Forward`, `Relay`, `serveRewrittenMetadata` | failures before and after the status is committed | false means that nothing was written |
| Metadata rewriting (`metadata.go`, `upstream.go:219-270`) | none | `rewriteTarballs`, `rewriteBaseURL`, `serveRewrittenMetadata` | the size limit, cut bodies, encodings, validators that outlive a setting | every tarball URL points at the proxy; nothing partial is kept |
| Routing and paths (`router.go:114-129,254-259`, `config.go:341-345`, `upstream.go:385-401`) | `Router.routes` | `ServeHTTP`, `strip`, `joinPath`, `sortRoutesLongestFirst` | overlapping prefixes | the longest matching prefix wins |
| Configuration (`config.go`) | `Config` | `Load`, `normalizeRoutes`, `normalizeCache`, `validate` | defaults, dangling names, a file that was cut | what the other parts assume of it |
| Upstream transport (`upstream.go:277-361`) | `http.Transport` | `buildTransport`, `applyProxy`, `applyResolve` | the order in which a pin and a proxy wrap `DialContext` | connections go where the configuration says |
| Server lifecycle (`main.go:47-84`, `httpserver/server.go`) | `Server.server` | `Start`, `Shutdown` | `Shutdown` before `Start` has run; the 15 s limit | no handler is dropped silently |
| `check`, `download-config`, `.env` (`main.go:86-203`) | files | commands | `check` shares the cache directory with a server, `download-config` its configuration file | neither harms the server |

How they interact: `ServeHTTP` calls `serve` in the goroutine of the request. Handlers share
`Cache.flights` (through `Acquire` and `release`) and the file system (through `ServeHit` and the
tee); nothing else is shared. `raceHead` starts goroutines of its own, which talk to it over a channel
and a context. `Forward` and `Relay` write to the `ResponseWriter` that `serve` hands them, the tee or
the client's. The file system outlives the process and is shared with other processes.

## 2. Modules

```
KeyMutex <----- Flights ------\                 BlobStore <----- TarballCache
 (abstract)      |    |        \                 (abstract)       |     |
         MCFlights  FlightsProof \            MCTarballCache  TarballCacheProof
                          |       \                /               |
 Priority <-- HeadRace    |        +--- Serve ----+                |
  ^  ^  ^         |       |         |     |    |                   |
  |  |  |    MCHeadRace   |      MCServe  | MCServeLive            |
  |  |  +-- Serve         +---------- ServeProof ------------------+
  |  +-- PriorityProof <--- HeadRaceProof, AnswerProof (of Serve, with ServeProof),
  |                         ServerProof, ManifestsProof
  +-- Config <--- Server <--- MCServer, ServerProof
  |     |
  |   Paths           Lists is below Paths and Priority
  |     |
  +-- Manifests <--- MCManifests, ManifestsProof
```

* **Lists** - a loop that appends what it accepts (`collectHealthy`, and the cleaning of file names), as
  a recursive function, which can be reasoned about where the library's `SelectSeq` cannot.
* **KeyMutex** - what `Acquire` promises: requests for one key take turns.
* **Flights** - the lock table. `flights`, `refs` and `mu` are `Cache.flights` and the fields of the
  entries; an entry is an address that is allocated again once nothing refers to it. `stage`, `key`
  and `entry` are a handler's progress and the variables the `release` closure captured. `Acquire` and
  `Release` are one step each, since the code runs them inside `fmu`; `Lock` and `Unlock` are steps of
  their own.
* **BlobStore** - what the directories promise to readers: complete files appear in one step.
* **TarballCache** - the disk. A file is the reply it came from and how many bytes of it are there;
  contents, names and permissions are left out. `Stat` and `Open`, and each `Write` of a reply, are
  steps of their own. `tee` has the fields of `teeResponseWriter` (`open` for `f != nil`). `faults`
  holds the disk operations that may fail, chosen once; `Check` is a second process, `Delete` somebody
  who makes room.
* **Priority** - `sortByPriority`, and the results that `raceHead` may have.
* **HeadRace** - one call of `raceHead`, with the candidates' priorities and the retries in `call`. `chan[a]` is the channel of round `a`, `probe[a][c]` its
  goroutine for candidate `c`; goroutines of earlier rounds go on. `deadline` says to which duration
  the timer was last set and `fired` which duration the value in `timer.C`, if any, is the end of: the
  round ends at any value, so that one from before the reset would end it early. `resetTimer` takes it
  out; in a build whose timers leave nothing behind when they are stopped (those of Go 1.23 and later
  do) its `select` finds the channel empty, with the same effect.
* **Serve** - `compiledRoute.serve` over the other two: its actions conjoin actions of
  `FL == INSTANCE Flights` and `TC == INSTANCE TarballCache`. `Forward` has three outcomes (fails,
  commits without a tee, commits to the tee and starts to copy). The race enters as its set of
  possible results, `RaceOutcomes`, which HeadRace is checked to meet (`ReturnsHealthy`); it shares no
  state with other requests. `seen`, `heads` and `sent` (how often the request was sent upstream) are history variables. A request (`Kinds`) has a method,
  a key or none (`NoKey`, for metadata, for methods other than GET, and when caching is off), and a number of candidates.
* **Paths** - what the code does with request paths: `strip`, `joinPath`, `isPackageMetadataPath`,
  `isCachablePath`, `cacheRelPath`, `key`, and the cleaning of a file's name by `filepath.Join`
  (`File`). A path is a sequence of chunks of text in which `/`, `..`, `.`, `-` as a whole segment and
  an artifact's ending are chunks of their own, so that every question the code asks of a path can be
  asked of the chunks.
* **Config** - from the parsed file to a router: `Load` normalises, validates and sorts; `NewRouter`
  resolves names; `BuildTransport` layers the pin and the proxy, and `Connect` says whom the result
  dials. `Refused` is an error of `Load`. All of it is operators on records; Server runs them.
* **Server** - the process. `main` and `starter` are the goroutines of `runStart` and of
  `Server.Start`; `shut` is `http.Server.inShutdown`; `quit` the channel of signals, which holds one;
  `file` the configuration file, which `download-config` (`DownloadOpens`, `DownloadWrites`,
  `DownloadBreaksOff`) truncates and writes beside the server. `Stop` reads `s.server` without
  synchronisation: while `starter` has just set it, it may be seen as nil or not. A request is
  dispatched in one step (`ServeHTTP`) with the lookup in the cache, and ends in another (`Finish`)
  that may store what it downloaded; the steps of `serve` in between are module Serve. The cache
  outlives the process and is found again by other configurations.
* **Manifests** - what becomes of one document between upstreams, proxy and clients: `rewriteTarballs`
  with its base URL, the buffered and the streamed way through `Forward`, conditional requests,
  `Relay`, and what clients and the cache keep. `version[u]` is what upstream `u` has and stands for
  its ETag. A body is its version, its links, how much of it is there (`Size` and `Limit` are
  lengths), and, when an upstream cut it, what would have marked its end (`Framings`): a `Content-Length`,
  a last chunk, or the end of the connection. Go's client reports a cut to the proxy in the first two
  cases. `Forward` buffers a manifest to its end first, and falls back; what it or `Relay` streams it
  ends as if it were whole, so that clients and the cache can tell a cut only from a `Content-Length`
  that was passed on (`Short`). The document, its route and the section `rewrite` are chosen at first; `Restart` gives the
  process another section.
* **FlightsProof**, **TarballCacheProof**, **HeadRaceProof**, **ServeProof**, **AnswerProof**,
  **PriorityProof**, **ServerProof**, **ManifestsProof** - the theorems.
* **MC...** - constants for TLC.

Operators marked "Fault" are plausible mistakes (a forgotten unlock, a dropped guard). No
specification uses them; putting one in the place of the operator that follows it must break a property.

## 3. Runs

| Run | Instance | Questions |
|---|---|---|
| `flights` | 3 handlers, 2 keys, 3 addresses | `MutualExclusion`, `TableIsInterest`, the inductive invariant, refinement of KeyMutex (`TakesTurns`), `EveryWaiterServed` |
| `cache` | 2 handlers, 1 file, a read-only and a write directory, 3 staging names, replies with and without length and a range, two fault sets | `StoredAsDeclared`, `NoOrphans`, the inductive invariant, refinement of BlobStore (`Publishes`) |
| `race` | 3 candidates (two of one priority) in 1 round, and 2 candidates in 2 rounds | `ReturnsHealthy`, `GraceGranted`, `NothingDropped`, `Terminates`, `ProbesEnd` |
| `serve` | 2 handlers, 2 tarballs (one cached at first), 4 kinds of request, up to 3 candidates | `OneFetchPerPath`, `CouplingInv`, `NeverRefetched`, `HitAsAnnounced`, `AnsweredOnce`, `RelaysPreferred`, `SentOnce` |
| `serve_live` | 2 handlers, 1 tarball, 2 kinds of request | `Finishes` |
| `server` | 5 configuration files, 8 requests, 1 handler, 2 directories | `SoundRouter`, `LongestMatch`, `HitsOwnRequest`, `DialsAsConfigured`, `Drained`, `Stops` |
| `manifests` | 4 documents, 2 upstreams, 1 client, 2 routes, 3 rewrite sections, 3 sets of headers | `LinksLeadBack`, `KeptWhole`, `Fresh`, `ConfirmsWhatItWouldSend` |
| `cached_whole`, `range_stored`, `swept_staging` | as `cache`, on a faultless disk | what the documentation says and the code does not do, see section 5 |
| `race_retry`, `tarball_cut` | as `race`, as `manifests` | likewise |

Why these bounds are enough. Three handlers are the least with which a handler can meet an entry that a
second deletes and a third recreates, and two keys show that entries are not mixed up. A body of two
units has a proper prefix that is not empty, which is what cutting, failing and disconnecting need;
two handlers are the least for concurrent stores, for a lookup during a store, and for staging names;
the third staging name is there for a leftover of a crash. Three candidates with two priorities are the
least for a tie next to an order, and two rounds let a probe of an earlier one be about. Requests, and
staging names, are interchangeable, which the safety runs use as symmetry; the liveness runs use none.

`server` has three files that `Load` or `NewRouter` refuses, for three reasons, and two it accepts, in
which prefixes tie and contain one another, a catch-all is written first, and upstreams have a pin,
either kind of proxy, both, or neither. Handlers meet in Server only through the cache, and a file that one request stores and a
later one finds needs one handler; their interleaving is the matter of Serve. The requests name one
tarball in six ways, so that each operation on paths has a pair of them to tell apart.

`manifests` follows one document per behaviour, since documents share no state; one client is enough
because a client's copy depends on nobody else's and the cache is filled by the client's own earlier
request. `Limit` is 2, manifests are of size 2 and tarballs of 3, so that the limit falls at the end
of one and inside the other. `MaxVersion` is 2 for the plain manifest, the least with which one
upstream lags behind another and a client's copy is out of date, and 1 for the other documents, for
which versions make no difference.

Deadlock is checked in every run but those of the race, where `returned` is the end of the call.

Fairness.

* Flights: a handler that holds a lock goes on and returns (weak fairness). A waiter is not overtaken
  for ever: strong fairness for `Lock`, which Go's `sync.Mutex` justifies, as it hands the mutex to a
  waiter that has waited for more than a millisecond.
* HeadRace: the goroutine of `raceHead` runs and the timer fires. A probe is not assumed to end while
  its round lasts, since `headClient` has no timeout; a probe whose context was cancelled is.
* Serve: a handler goes on. For the steps that wait for an upstream or a client this is an assumption on
  the configuration: the dial and the TLS handshake are bounded, but `download.timeout` and
  `http.writeTimeout` are unlimited unless they are set, and a peer that hangs then holds the path and
  all its followers. `Finishes` speaks of servers whose timeouts are set.
* Server: the goroutine of `main` runs (`Stop`, `ShutdownReturns`) and the 15 seconds of `main.go:79`
  pass (`Expire`). Nothing is assumed of handlers, listeners, signals or downloads, so `Stops` holds
  with requests that never end.

## 4. Proofs

The theorems hold for every value of the constants that satisfies the named assumptions: finitely many
handlers, sentinels that are no proper values, replies whose `Content-Length`, if any, is the length of
the body (HTTP), directories that hold whole files at first, priorities that are integers and cover
the candidates, configuration files with the types of the Go structs (`ConfigType`), queries that are
given by their hash (so that none is a slash, a dot or an artifact's ending), and documents whose path
has more than the root's one chunk and, if they are manifests, no `/-/`. External URLs have a scheme and
a host, since `validate` refuses others (`config.go:197-202`).

* **FlightsProof.** `MutualExclusion` is not inductive: that two requests with one key hold one mutex
  depends on the entry surviving as long as anybody refers to it. `IInv` adds that a request between
  `Acquire` and `release` holds the entry that is in the table under its key (`Coherent`), that keys do
  not share entries (`Injective`), that entries in the table have a holder (`Interest`), that `refs`
  counts holders (`RefsAreHolders`) and that a mutex is held by one (`Exclusive`). The delicate step is
  `Release`: `refs = 1` means, by the cardinality lemmas, that the holder is the last. `OneAtATime`,
  `NoUnboundedGrowth`, `TypeCorrect` and the refinement of KeyMutex (`Refinement`) follow.
* **TarballCacheProof.** The invariant says of each tee what `finalize` relies on: unless the client or
  the disk failed, the bytes staged are the bytes written (`Coherent`); and that no two tees share a
  staging file (`OwnStaging`). Then `Discards` is exactly strong enough for `StoredAsDeclared`. With
  `NoOrphans` and the refinement of BlobStore (`PublishesAtomically`).
* **ServeProof.** `CouplingInv` ties the position in `serve` to the stage in the lock table. From it,
  every step of Serve is a step of Flights or leaves its variables alone, likewise for TarballCache;
  so the theorems on the two carry over. `OneFetch` is mutual exclusion of the table read through the
  coupling; `CacheKeepsDeclaredLength` is the guarantee on stored files in the whole.
  `NothingIsRefetched` and `HitsHaveAnnouncedLength` need the table and the disk at once (`CacheOK`): a
  handler that holds a path's lock and has looked in the first directories knows that the file is in
  none of them, because only a holder of that lock can put it there; and a file that was once found
  keeps its length, because what is in a directory is not fetched, so not replaced. Both are
  about times in which nobody else removes files (`Undisturbed`).
* **PriorityProof.** `ByPriority` gives an element the place that counts the elements before it.
  `StableSort` says that this is a sort: places are a map of a finite set into itself that tells
  elements apart, hence onto, and grow with the rank, and with the position where ranks are equal.
  `OutcomesAreSorted` is what `serve` may rely on of a race. The lemmas on lists that the other proofs
  cite are here too; `Filtered` says of the loop in Lists what it keeps, in what order, and how often.
  Induction on its steps (`Induction`, `Loop`) is by the least counterexample, from the theorem that `<`
  on numbers is well founded: the library's induction theorems take an operator, which no prover here
  can instantiate, but a set of counterexamples is a value.
* **HeadRaceProof.** The invariant of a race says of the probes of each round that one sends one result,
  of its own candidate, and that rounds to come are idle (`SentOnce`); of the running round that `pending`
  counts the probes in flight and the results in the channel together (`Accounted`), so that `pending = 0`
  leaves nothing behind, and that a success is in `healthy` or still in the channel; of the timer, that it
  has its second duration exactly after a success, and that a value in `timer.C` is the end of the duration
  it was last set to (`Timed`), which is what draining in `resetTimer` is for. Late probes of earlier rounds change only
  their own channel. `RaceReturnsHealthy` then is the sort of what was collected, with `StableSort`;
  it gives Serve its assumption on races (`RaceOutcomes`). `RaceNothingDropped` is what
  `collectHealthy` adds when the timer fires.
* **AnswerProof.** One invariant per handler (`HandlerOK`): its position says whether a status line was
  written; the candidates left are sorted, none is preferred to one already tried, and there are no
  more of them than the request may yet be sent. The last two make `bestDefinitive`, which is set once,
  the best one seen, and `SentOnce` a bound. It needs `OutcomesAreSorted`. `OneAnswer`,
  `NeverSentTwice` and `PreferredIsRelayed` follow, and with those on the lock table and the disk
  `ServeTypeOK`.
* **ServerProof.** What `validate` refuses must be what the router cannot live with, for any file:
  `IInv` says that a process that runs has the router that `NewRouter` makes of a file that `Load`
  accepts, whatever has become of the file since, and that requests in flight went by that router.
  `RouterIsSound` reads `SoundRouter` off the checks of `validate`; it includes files that
  `download-config` cut. `LongestPrefixWins` follows from the sort (`LongestFirst`) and from dispatch
  taking the first match; `RequestsAreDrained` from the shape of `Stop` and `Expire`.
  `DialsWhereConfigured` goes through all the ways in which a pin and a proxy combine.
  For `HitsAreOwn` a second invariant (`Holdings`) says that a file in a cache directory is named by the
  key of the request it answers, through stores, sweeps, restarts and changed configurations, and that a
  hit is the file that its own request's key names; hence the two requests have one file name. That this
  makes their paths and queries equal is a fact about names (`FilesAreApart`): cutting a text at
  its slashes loses nothing (`SegmentsAreInjective`, by induction on the length), a plain path has no
  segment that cleaning drops, and a name that ends in `_` and a hash is not one that ends like an artifact.
  `ServerTypeOK` adds to the two invariants that what `NewRouter` makes of a file is a router.
* **ManifestsProof.** `WholeIsKept`: a reply marked complete either came to its end, or was
  streamed without a `Content-Length`, or ended with its connection; and what was buffered is not of
  the second kind. So what is short and kept is what `Whole` excepts, or was cut by the limit.
  `NeverFromTheCache` is `Fresh`; it
  rests on stripping and keeping the prefix leaving the end of a path alone, so that `isCachablePath`
  judges every request for a document alike, and on rewriting not changing versions.
  The other three theorems come from one invariant (`Served`): what Forward sent, and what a client keeps
  of that, is what rewriting makes of that version for that request under the setting of that time (`Made`),
  whichever upstream it is from, or was cut in a way that nobody is told of; and a conditional request names the version of the copy that its
  client has. So a 304 for that version confirms `Made` of it (`ConfirmsItsOwn`). For
  `LinksLeadThroughProxy`, a manifest's path stays one when a prefix is stripped (`ManifestsAreTold`), and
  a rooted path is not joined twice to an upstream without base path (`JoinedOnce`).

Every safety invariant and action property that a passing run checks is stated by a theorem. The proofs
corrected the project in three places, which TLC's instances had not shown: guards of `CASE` that
overlap (TLA+ may then take either branch; Go takes the first), an upstream whose proxy has an empty host,
which was not told from one without a proxy, and `ConfirmsWhatItWouldSend`, which is not true of a
manifest that exceeds the limit (see section 5).

Only model-checked: liveness (`EveryWaiterServed`, `Terminates`, `ProbesEnd`, `Finishes`, `Stops`), since
the prover does not handle ENABLED, which fairness rests on; and the five violations of section 5.

## 5. Where code and documentation part

1. `cached_whole`: without a `Content-Length`, a download that is cut is published and served from then
   on. `tee.go:12-14` promises the "full body"; `tee.go:101-103` admits that such a cut is not noticed.
2. `range_stored`: the `Range` header is forwarded and the status of the reply is not looked at, so a
   206 is stored as the tarball. `cache.go:94` promises "the requested tarball".
3. `swept_staging`: `check` empties the staging directory of a running server. `cache.go:78-80` speaks
   of files of a "previous process that died".
4. `race_retry`: a race is repeated also when every candidate answered with a definitive status.
   `router.go:262-263` and `config.go:46` say that it is repeated if every probe times out.
5. `tarball_cut`: with rewriting on, a tarball whose path has no `/-/` is taken for a manifest, read up
   to `maxMetadataBytes`, and what was cut there is sent and cached as if it were whole.
   `metadata.go:12-13` says that tarballs stream through untouched.

Some properties are stated with a condition because the code does not do more. What lies outside:

* `StoredAsDeclared`, `KeptWhole`: a cut reply is noticed by its `Content-Length`, and, if `Forward` buffers it,
  by its last chunk. Without them clients and the cache keep a part as the whole (`upstream.go:179-182`,
  `tee.go:104-108`; divergence 1), and with a limit, what is longer (divergence 5).
* `DialsAsConfigured` has no condition, but says of an upstream with both `resolve` and an HTTP proxy that the
  proxy itself is looked for at the pinned address, since the pin replaces the dialer for every host
  (`upstream.go:320-328,356`); `upstream.go:303-304` says that a proxy takes precedence. A pin also holds
  for hosts that an upstream redirects to.
* `ConfirmsWhatItWouldSend`: the ETag sent to a client is the upstream's. After a change of `rewrite`, or
  when the client reaches the proxy by another name, a 304 confirms links that a 200 would not carry,
  where `upstream.go:224-226,259-262` says that the validators stay valid. A manifest that the limit, or
  the end of a connection, cut is not rewritten and keeps the links of the upstream it came from, and a
  304 of another upstream with the same ETag confirms it.
* `Fresh`: a package whose name ends like an archive (`pkg.zip`) has its metadata kept for ever, with
  the links of whoever asked first, although `cache.go:3-4,22-25` says that metadata is never cached, and
  so does the help text (`main.go:138`). What `Relay` passes on is current but not rewritten, also when it is
  a manifest after all, which `upstream.go:191-193` excludes.
* `HitAsAnnounced`, `NeverRefetched`: only while nobody but the server's handlers touches the directories.
* `HitsOwnRequest`: requests that differ by a doubled slash or `/./` share one file, possibly across routes,
  where `cache.go:5-6` says that the cache is keyed by request path; they do not share a lock. A
  tarball directly below `/.tmp/` is swept at the next start.
* `LinksLeadBack`: the links keep the upstream's path, so they do not lead back through a route
  with `stripPrefix` or to an upstream with a base path (`config.go:83-90`). A request without a host
  gets the manifest as it is, and a manifest longer than the limit, or cut by the end of its connection, is
  passed on cut.
* `joinPath`: "no duplicate slashes" (`upstream.go:385-386`) is true of the seam, not of a request that
  has them.
* `SoundRouter`: a configuration file that ends between two routes still loads, as a smaller one. A file that
  ends inside a route, in the middle of a name or of a prefix, is not among the `Cuts`: it may load too, with
  a name that is then dangling (refused) or a shorter prefix, which is as any other configuration file.

## 6. Left out, and the plan

Not modelled: timeouts, pools, TLS and credentials of the transport (they are filled in once), the
probes of `check` (they decide what is printed and the exit code; only upstreams that a route names are
tried), `.env`, which is read line by line at start, help and version, logging, the parsing of YAML, and JSON
beyond whether a document has links. Coarser than the code: `ListenFails` is a listener that cannot be
opened, not one that fails while it serves, which would end the process without waiting for anybody
(`main.go:68-72`), so that `Drained` speaks of listeners that work once they are open; and `Swept` removes
the staging files in one step, before anything is served.

What is left, in the order planned:

1. **HeadRace** as an implementation of an abstract race, which decides at one moment, between the first
   success and the end of its grace, what it has: the refinement, checked and proved.
2. **Serve** as an implementation of a cache per path that is filled once.
3. **Shorter proofs** - lemmas on sequences that several modules prove in their own way (rooted paths in
   ServerProof and ManifestsProof) stated once.

Bounds. `Entries`, `Temps`, `Replies`, `Kinds`, `Calls`, `ConfigFiles`, `Docs`, `MaxVersion`, `Limit`,
`Size` and the sets of handlers, clients, keys, requests and files are the only bounds; all are
constants. A system that runs out of `Entries` or `Temps` would wait where the program does not: the
instances have as many as there are handlers, and one more staging name. `MaxVersion` only stops
upstreams from publishing again.
