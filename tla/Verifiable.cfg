SPECIFICATION Spec
CONSTANTS
    Jobs <- MCJobs
    BlockDim = 2
    MaxBlocks = 2
INVARIANTS NoFalseAlarm CountsEveryWrongElement NothingIsRounded ShuffleIsPermutation
