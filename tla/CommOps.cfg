SPECIFICATION FairSpec
CONSTANTS
    NRanks = 3
    Sweep <- Down
    Options <- MCOptions
INVARIANTS CollectivesMatch TimersInLockstep SummaryIsComplete RootsFillTheSlots
PROPERTIES EveryRankEnds
