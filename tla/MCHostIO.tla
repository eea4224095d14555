------------------------------ MODULE MCHostIO ------------------------------
(* Two descriptors; every path of up to four characters; roots with and    *)
(* without a separator at the end, of one and of two components.  A buffer *)
(* that starts with two bytes grows several times in one listing.          *)
EXTENDS HostIO

MCFds == {3, 4}
Chars == {"a", "b", ".", "/"}
MCPaths ==
  UNION {[1 .. n -> Chars] : n \in 0 .. 4}
    \cup {<<"a", ":", "/", "b">>, <<"a", "\\", "b">>, <<"\\", "a">>, <<"a", "/", "b", "/", "a">>}
MCRoots == {<<"a">>, <<"a", "/">>, <<".">>, <<"a", "/", "b">>, <<"/", "a">>}
MCNameLens == {1, 4}
=============================================================================
