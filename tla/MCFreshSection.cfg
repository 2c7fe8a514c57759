SPECIFICATION Spec
CONSTANTS
    val = val
    mu = mu
    f = f
    g = g
    h = h
    None = None
    Function = {f, g, h}
    Field = {val, mu}
    Guarded = {val}
    Programs <- Sections
    MaxRounds = 10
    MaxDepth = 3
INVARIANT SectionEnds
CHECK_DEADLOCK FALSE
