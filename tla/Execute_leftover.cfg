CONSTANTS
    None = None
    t1 = t1
    t2 = t2
    Threads = {t1, t2}
    Models <- MCModels
    Ephemerals <- MCEphemerals
    Refs <- MCRefs
    EphRefs <- MCEphRefs
    Kinds <- MCKinds
    EditKinds <- MCEditKinds
    Hooks <- MCHooks
    UseCache = TRUE
    MaxRuns = 3
    MaxFaults = 1
    MaxEdits = 1
SYMMETRY Symmetric
SPECIFICATION Spec
INVARIANT LeftoversDropped
