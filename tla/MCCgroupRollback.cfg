SPECIFICATION Spec
CONSTANTS
    l1 = l1
    l2 = l2
    q1 = q1
    q2 = q2
    k1 = k1
    a1 = a1
    a2 = a2
    Launches = {l1, l2}
    Others = {q1, q2}
    Pids = {1, 2}
    Kills = {k1}
    Adoptions = {a1, a2}
    Passes = 2
    Scenes <- MCScenes
CHECK_DEADLOCK FALSE
INVARIANTS
    RollbackSparesOthers
