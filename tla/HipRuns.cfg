SPECIFICATION Spec
CONSTANTS
    r1 = r1
    r2 = r2
    f = f
    g = g
    l1 = l1
    d1 = d1
    Runs = {r1, r2}
    Funs = {f, g}
    Lines = {l1}
    Annotated = {f}
    Span <- MCSpan
    Dirs = {d1}
    Dir <- MCDir
INVARIANTS
    NothingAssumed
    PanelAgrees
    VerdictsAreOwn
    LogsAreOwn
CHECK_DEADLOCK FALSE
