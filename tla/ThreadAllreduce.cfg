SPECIFICATION FairSpec
CONSTANTS
    p1 = p1
    p2 = p2
    Procs = {p1, p2}
    N = 2
    MaxCalls = 3
    Ops = {"r0", "avg", "min", "max", "sum"}
    Args <- MCArgs
INVARIANTS ResultIsReduction NoRaceOnAccumulator
PROPERTIES ImplementsBarrier EveryCallReturns
