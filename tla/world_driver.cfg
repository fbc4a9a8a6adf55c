\* The delays of the code; two polls stand for thirty.
CONSTANTS
    MaxPolls = 2
    MaxFaults = 4
    FirstDelay = 5
    StoppedDelay = 15
    MaxDelay = 60
SPECIFICATION Spec
INVARIANTS ReadyBelongsToASession
PROPERTIES ReadyIsEarned SessionsRunOut
    HealthyWorldBecomesReady LostWorldIsNotReady StoppedWorldIsReported
