------------------------------ MODULE MCServer ------------------------------
(* Five configuration files, one of them refused by Load for a dangling    *)
(* name, one for two write directories, and one that NewRouter refuses.    *)
EXTENDS Server, TLC

MCLowerTrim == ("" :> "") @@ ("read" :> "read") @@ (" Write" :> "write") @@ ("write" :> "write")
MCAbsTrim == ("ro" :> "/ro") @@ ("rw" :> "/rw") @@ (" /rw" :> "/rw")

Direct == [enabled |-> FALSE, url |-> NoURL]
Through(scheme) == [enabled |-> TRUE, url |-> [scheme |-> scheme, host |-> "proxy", path |-> <<>>]]

Upstream(n, pin, proxy) ==
  [name |-> n, url |-> [scheme |-> "https", host |-> n, path |-> <<>>],
   resolve |-> pin, proxy |-> proxy]

A == Upstream("a", "", Direct)
B == Upstream("b", "10.0.0.1", Through("socks5"))
C == Upstream("c", "10.0.0.2", Direct)
D == Upstream("d", "10.0.0.3", Through("http"))
E == Upstream("e", "", Through("http"))

NPM == <<"/", "npm", "/">>

Route(prefix, strip, upstream, upstreams) ==
  [prefix |-> prefix, stripPrefix |-> strip, upstream |-> upstream, upstreams |-> upstreams]

CatchAll == Route(<<"/">>, FALSE, "", <<>>)
Stripped == Route(NPM, TRUE, "a", <<>>)
Unstripped == Route(NPM, FALSE, "a", <<"b", "c", "d", "e">>)
Dangling == Route(NPM, FALSE, "nobody", <<>>)

NoRewrite == [enabled |-> FALSE, external |-> NoURL]
ReadOnly == [path |-> "ro", type |-> ""]
Writable == [path |-> "rw", type |-> " Write"]
AlsoWritable == [path |-> " /rw", type |-> "write"]

ConfigFile(upstreams, routes, directories) ==
  [upstreams |-> upstreams, routes |-> routes, directories |-> directories,
   retries |-> -1, rewrite |-> NoRewrite]

MCConfigFiles ==
  {ConfigFile(<<A, B>>, <<CatchAll, Stripped>>, <<ReadOnly, Writable>>),
   ConfigFile(<<A, B, C, D, E>>, <<Unstripped, Stripped>>, <<AlsoWritable>>),
   ConfigFile(<<A>>, <<CatchAll, Dangling>>, <<>>),
   ConfigFile(<<A>>, <<CatchAll>>, <<Writable, AlsoWritable>>),
   ConfigFile(<<A, Upstream("f", "", Through("ftp"))>>, <<CatchAll>>, <<>>)}

Get(path, query) == [method |-> "GET", path |-> path, query |-> query]
Tarball == <<"a", ".tgz">>

\* One tarball below a route and by another name; the same below no route, and
\* with a query; a path that only begins like the route's; a staging file's.
MCRequests ==
  {Get(NPM \o Tarball, ""),
   Get(NPM \o <<"/">> \o Tarball, ""),
   Get(<<"/">> \o Tarball, ""),
   Get(<<"/">> \o Tarball, "q"),
   Get(<<"/", "npm", "s">>, ""),
   Get(<<"/", ".tmp", "/">> \o Tarball, ""),
   Get(<<"/", "..", "/">> \o Tarball, ""),
   [method |-> "POST", path |-> NPM, query |-> ""]}
=============================================================================
