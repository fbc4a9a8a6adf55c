--------------------------- MODULE MCFetchDaemon ---------------------------
(* Archives a1 and a2 are builds of release r1, b1 is one of r2.             *)
EXTENDS FetchDaemon

CONSTANTS r1, r2, a1, a2, b1

MCReleaseOf == [a \in Archives |->
    IF a = b1 THEN r2 ELSE r1]

MCDerivations == {<<r1, a1>>, <<r1, a2>>, <<r2, b1>>}
=============================================================================
