\* One package, two processes, everything else may happen.
CONSTANTS
    k1 = k1  k2 = k2  s1 = s1  s2 = s2  gone = gone  p1 = p1  p2 = p2
    Packages = {k1}
    Stores <- MCStores
    GoodStores <- MCGood
    Procs = {p1, p2}
    Manifests <- OnePackageManifests
    None = None
    MaxOps = 3
    MaxFaults = 1
SPECIFICATION Spec
SYMMETRY Symmetric
PROPERTIES NothingLost SeedOnce
