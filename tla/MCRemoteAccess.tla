--------------------------- MODULE MCRemoteAccess ---------------------------
(* A small instance: an allowlist of a family and of a beginning, one within it, or none. *)
EXTENDS RemoteAccess, TLC

CONSTANTS a, b

Entry(path, glob) == [path |-> path, glob |-> glob]

MCGrants ==
    {{}, {Entry(<<a>>, FALSE), Entry(<<b>>, TRUE)}, {Entry(<<a, Dot, b>>, FALSE), Entry(<<b, a>>, TRUE)}}

Symmetric == Permutations(Principals)
=============================================================================
