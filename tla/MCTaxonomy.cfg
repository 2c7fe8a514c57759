SPECIFICATION BoundedSpec
CONSTANTS
    Class = {A, B, C}
    Package = {1, 2, 3}
    MaxDeclared = 3
    MaxMarks = 1
INVARIANTS TypeOK ClosureIsReachability CycleIsReported VerdictsAgree ExemptionsTravel
PROPERTY EveryPackageIsAnalysed
