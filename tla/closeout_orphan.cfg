SPECIFICATION Spec
CONSTANTS
    p1 = p1
    p2 = p2
    w1 = w1
    w2 = w2
    e1 = e1
    e2 = e2
    v1 = v1
    v2 = v2
    c1 = c1
    c2 = c2
    c3 = c3
    NoProc = NoProc
    NoClaim = NoClaim
    NoObservation = NoObservation
    NoManifest = NoManifest
    Proc <- OneProcess
    Writer <- OneWriter
    Emission <- OneEmission
    Observation <- Observations
    Claim <- Claims
    Lease = 2
    DrainTimeout = 1
    Prompt = FALSE
    MaxCrashes = 1
    MaxFailures = 0
INVARIANT
    OrphanHoldsSeal
