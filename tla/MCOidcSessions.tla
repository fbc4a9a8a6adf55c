--------------------------- MODULE MCOidcSessions ---------------------------
(* Model-checking instance of OidcSessions.                                 *)
EXTENDS OidcSessions, TLC

CONSTANTS b1, h1, h2, l1, l2, t1, t2, u1, u2, access

Symmetric == Permutations({h1, h2}) \cup Permutations({l1, l2}) \cup Permutations({t1, t2})
                \cup Permutations({u1, u2})
=============================================================================
