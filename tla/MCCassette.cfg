SPECIFICATION CassetteSpec
CONSTANTS
    r1 = r1
    r2 = r2
    a = a
    b = b
    c = c
    None = None
    Recorders <- TwoOfOne
    Callers <- ThreeCallers
    Home <- Homes
    Command <- Programs
    Cwd <- Places
    MaxRuns <- Runs2
    MaxPlays = 2
    MaxBehind = 1
CHECK_DEADLOCK FALSE
INVARIANTS
    CleanIsSaved
    ReplayAgrees
PROPERTIES
    ImplementsStore
