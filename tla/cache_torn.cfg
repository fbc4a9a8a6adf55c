SPECIFICATION Spec
CONSTANTS
    Procs = {p1, p2}
    p1 = p1
    p2 = p2
    r1 = r1
    r2 = r2
    a1 = a1
    a2 = a2
    b1 = b1
    bad = bad
    Releases = {r1}
    Archives = {a1, a2}
    ReleaseOf <- MCReleaseOf
    None = None
    Blank = Blank
    Damaged = Damaged
    MaxAttempts = 1
    MaxFaults = 0
INVARIANT
    RestingCacheAgrees
SYMMETRY MCSymmetry
