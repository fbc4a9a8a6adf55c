SPECIFICATION Spec
CONSTANTS
    Procs = {p1}
    p1 = p1
    r1 = r1
    r2 = r2
    a1 = a1
    a2 = a2
    b1 = b1
    bad = bad
    Releases = {r1, r2}
    Archives = {a1, a2, b1}
    ReleaseOf <- MCReleaseOf
    None = None
    Blank = Blank
    Damaged = Damaged
    MaxAttempts = 2
    MaxFaults = 1
INVARIANT
    PrintedIsCached
PROPERTIES
    CommandsEnd
    CommandsMoveOn
