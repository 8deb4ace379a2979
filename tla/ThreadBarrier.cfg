SPECIFICATION FairSpec
CONSTANTS
    Procs = {p1, p2}
    N = 3
    MaxCalls = 3
INVARIANTS NoEarlyReturn NoLostWakeup StragglersCanLeave IInv
PROPERTIES EveryCallReturns ImplementsBarrier
