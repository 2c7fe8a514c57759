SPECIFICATION Spec
CONSTANTS
    n1 = n1
    n2 = n2
    Name = {n1, n2}
    Sort <- Sorts
    Lock = {l1, l2}
    Site <- PlainSites
    Anything = Anything
    None = None
INVARIANT IgnoredIsEnforced
