SPECIFICATION Spec
CONSTANTS
    mu = mu
    nu = nu
    f = f
    g = g
    h = h
    Lock = {mu, nu}
    Method = {f, g, h}
    Programs <- Packages
    MaxRounds = 3
    MaxClosureDepth = 4
INVARIANTS TypeOK NoFalseRejection WriterIsRejected
