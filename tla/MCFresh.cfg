SPECIFICATION Spec
CONSTANTS
    val = val
    mu = mu
    f = f
    g = g
    h = h
    None = None
    Function = {f, g, h}
    Field = {val, mu}
    Guarded = {val}
    Programs <- Packages
    MaxRounds = 10
    MaxDepth = 3
INVARIANTS TypeOK ExemptIsUnshared PublishesIsKnown
CHECK_DEADLOCK FALSE
