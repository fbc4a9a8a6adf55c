\* One kill: between the two renames it loses a recorded target.
CONSTANTS
    k1 = k1  k2 = k2  s1 = s1  s2 = s2  gone = gone  p1 = p1  p2 = p2
    Packages = {k1}
    Stores <- MCStores
    GoodStores <- MCGood
    Procs = {p1, p2}
    Manifests <- OnePackageManifests
    None = None
    MaxOps = 0
    MaxFaults = 1
SPECIFICATION Spec
INVARIANTS RecordedTargetsSurvive
