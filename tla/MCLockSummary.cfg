SPECIFICATION Spec
CONSTANTS
    a = a
    b = b
    f = f
    g = g
    h = h
    None = None
    Class = {a, b}
    Function = {f, g, h}
    Programs <- ThreeFunctions
    MaxRounds = 10
    MaxDepth = 5
INVARIANTS TypeOK ReportsAreSettled NestingsAreReported WaitsAreReported
PROPERTY SummariesGrow
CHECK_DEADLOCK FALSE
