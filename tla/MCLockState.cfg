SPECIFICATION Spec
CONSTANTS
    Key = {a}
    Addr = {a}
    Call = {}
    None = None
    Handle = {h1, h2}
    Cell = {c1, c2}
    Deferred = {d1, d2}
    MaxDefers = 2
    MaxRefs = 3
SYMMETRY HandleSymmetry
INVARIANT RefsCoverSharers
PROPERTY ForksAreValues
CHECK_DEADLOCK FALSE
