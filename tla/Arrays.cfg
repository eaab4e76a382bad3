SPECIFICATION MCSpec
CONSTANTS
    A = A
    B = B
    k1 = k1
    k2 = k2
    v = v
    Projects = {A, B}
    Keys = {k1, k2}
    Values = {v}
    None = None
    Same = Same
    NoProject = NoProject
    Detached = Detached
    Page = 1
    Shared = FALSE
    MaxChanges = 2
    MaxReloads = 1
INVARIANTS
    InSync
    Covered
    OthersCleared
CHECK_DEADLOCK FALSE
PROPERTY
    Converges
