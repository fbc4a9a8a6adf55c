SPECIFICATION Spec
CONSTANTS
    Procs = {p1, p2}
    p1 = p1
    p2 = p2
    r1 = r1
    r2 = r2
    a1 = a1
    a2 = a2
    b1 = b1
    Releases = {r1, r2}
    Archives = {a1, a2, b1}
    Derivations <- MCDerivations
    ReleaseOf <- MCReleaseOf
    None = None
    Blank = Blank
    Damaged = Damaged
    MaxAttempts = 2
INVARIANTS
    TypeOK
    CacheAgrees
    PromisesAreKept
    PromisesAreReadable
    OneLoginAtATime
PROPERTIES
    ImplementsService
    RequestsAreAnswered
    HandlersMoveOn
