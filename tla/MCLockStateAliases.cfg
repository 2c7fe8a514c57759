SPECIFICATION Spec
CONSTANTS
    Key = {a, b, c, d}
    Addr = {}
    Call = {d}
    None = None
    Handle = {h1}
    Cell = {c1}
    Deferred = {}
    MaxDefers = 0
    MaxRefs = 1
INVARIANTS AliasKeyEnds HeldUnderRoots
PROPERTY AliasKeepsLocks
CHECK_DEADLOCK FALSE
