SPECIFICATION Spec
CONSTANTS
    c1 = c1
    c2 = c2
    k1 = k1
    a1 = a1
    s1 = s1
    w1 = w1
    Nobody = Nobody
    Spawns <- TwoSpawns
    Adoptions <- OneAdoption
    Stops <- OneStop
    Walks <- OneWalk
    Offspring <- OneOffspring
    Parent <- ParentOf
    Pinned <- FirstSpawn
CHECK_DEADLOCK FALSE
INVARIANTS
    CloseIsJust
    NoEarlyRun
