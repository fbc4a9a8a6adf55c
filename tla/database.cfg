\* Three handlers exhaust a pool of two connections, and some may be left with a
\* withdrawn one; one request of readyz, since two would not see each other.
\* Liveness: no symmetry.
CONSTANTS
    Requests = {r1, r2, r3}
    Pools = {q1, q2, q3}
    Probes = {c1}
    MaxConnections = 2
    None = None
SPECIFICATION ReadyzSpec
INVARIANTS PublishedPoolIsUsable OnePoolAtATime
PROPERTIES AnswersAgree DatabaseComesBack OutageIsNoticed
