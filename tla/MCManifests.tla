---------------------------- MODULE MCManifests ----------------------------
(* A manifest, that of a package named like an archive, and two tarballs,  *)
(* longer than the limit, one of them without "/-/" in its path; requests  *)
(* that come directly, through another proxy, and without a host.          *)
EXTENDS Manifests

Manifest == <<"/", "pkg">>
ZipManifest == <<"/", "pkg", ".zip">>
Tarball == <<"/", "pkg", "/", "-", "/", "pkg", ".tgz">>
Download == <<"/", "pkg", "/", "download", "/", "pkg", ".tgz">>

MCDocs == {Manifest, ZipManifest, Tarball, Download}
MCManifestDocs == {Manifest, ZipManifest}
MCSize == [d \in MCDocs |-> IF d \in MCManifestDocs THEN 2 ELSE 3]
MCMaxVersion == [d \in MCDocs |-> IF d = Manifest THEN 2 ELSE 1]

MCRank == <<2, 1>>
MCOrigin == <<"registry", "mirror">>

MCFroms == {[tls |-> FALSE, host |-> "inner", proto |-> <<"https">>, forwarded |-> <<"outer", "inner">>],
            [tls |-> TRUE, host |-> "inner", proto |-> <<>>, forwarded |-> <<>>],
            [tls |-> FALSE, host |-> "", proto |-> <<>>, forwarded |-> <<>>]}

MCRoutes == {[prefix |-> <<"/">>, stripPrefix |-> FALSE],
             [prefix |-> <<"/", "npm", "/">>, stripPrefix |-> TRUE]}

MCSettings == {[enabled |-> FALSE, external |-> None],
               [enabled |-> TRUE, external |-> None],
               [enabled |-> TRUE, external |-> [scheme |-> "http", host |-> "proxy"]]}
MCBasePath == <<>>
=============================================================================
