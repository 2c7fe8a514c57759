SPECIFICATION GapSpec
CONSTANTS
    mu = mu
    None = None
    Lock = {mu}
    Shape <- Shapes
    Call <- Calls
    MaxCalls = 3
    Room = 2
INVARIANTS TypeOK NothingMissed NoFalseAlarm GapIsOnEveryPath EndsMeansEnds SectionIsWhole
