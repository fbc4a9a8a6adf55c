--------------------------- MODULE MCFetchCommand ---------------------------
(* Archives a1 and a2 are of release r1, b1 of r2, and bad is no archive.    *)
EXTENDS FetchCommand, TLC

CONSTANTS r1, r2, a1, a2, b1, bad

MCReleaseOf == [a \in Archives |->
    CASE a \in {a1, a2} -> r1 [] a = b1 /\ r2 \in Releases -> r2 [] OTHER -> None]

MCSymmetry == Permutations(Procs)
=============================================================================
