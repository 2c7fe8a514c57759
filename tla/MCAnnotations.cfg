SPECIFICATION Spec
CONSTANTS
    n1 = n1
    n2 = n2
    Name = {n1, n2}
    Sort <- Sorts
    Lock = {l1, l2}
    Site <- Sites
    Anything = Anything
    None = None
SYMMETRY LockSymmetry
INVARIANTS TypeOK FactsAreCallable PanicsOnlyOnDiscard SilenceKeepsContract ContractIsSilent LineIsSettled ForcedIsHeld
