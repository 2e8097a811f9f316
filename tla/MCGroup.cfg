SPECIFICATION FairSpec
CONSTANTS
    s1 = s1
    p1 = p1
    a1 = a1
    g1 = g1
    Spawns = {s1}
    Launches = {p1}
    Adoptions = {a1}
    Stops = {g1}
    Crews <- Pairs
    Modes = {"spare", "escalate", "kill"}
    Deaf = {p1}
    Nobody = Nobody
CHECK_DEADLOCK FALSE
INVARIANTS
    DropKillsUnspared
    SpareSurvivesRollback
    KillReachesMembers
PROPERTIES
    CallsReturn
