\* Two packages: preflight, loop and ledger over a set of packages.
CONSTANTS
    k1 = k1  k2 = k2  s1 = s1  s2 = s2  gone = gone  p1 = p1  p2 = p2
    Packages = {k1, k2}
    Stores <- MCStores
    GoodStores <- MCGood
    Procs = {p1, p2}
    Manifests <- MCManifests
    None = None
    MaxOps = 1
    MaxFaults = 1
SPECIFICATION Spec
SYMMETRY Symmetric
INVARIANTS PreflightIsBinding CommitMeetsManifest FaultsCostOneTargetEach
PROPERTIES InitializationRecordedOnce
