------------------------------- MODULE MCWatcher -------------------------------
(* A workspace "ws" with the manifest and a file "top", a directory "p"    *)
(* with "lib", and below it "p/src" with "deep".  The manifest selects the *)
(* package of the workspace's root with its source root there or in p, or  *)
(* a package in p: the modes of two watches change, one of them only if    *)
(* an obsolete watch was kept.                                             *)
EXTENDS SourceWatcher

CONSTANTS whole, flat, member, malformed, top, lib, deep

MCPackageFiles == (whole :> {top, lib, deep}) @@ (flat :> {top, lib, deep}) @@ (member :> {lib, deep})
MCRootFile == (whole :> top) @@ (flat :> lib) @@ (member :> deep)
MCRoots == (whole :> ("ws" :> "recursive"))
           @@ (flat :> (("ws" :> "direct") @@ ("p" :> "recursive")))
           @@ (member :> (("ws" :> "direct") @@ ("p" :> "direct") @@ ("src" :> "recursive")))
MCDirectory == (Manifest :> "ws") @@ (top :> "ws") @@ (lib :> "p") @@ (deep :> "src")
MCInside == {<<"ws", "ws">>, <<"p", "ws">>, <<"src", "ws">>, <<"p", "p">>, <<"src", "p">>,
             <<"src", "src">>}
=============================================================================
