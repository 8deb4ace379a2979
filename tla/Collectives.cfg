SPECIFICATION Spec
CONSTANTS
    Jobs <- MCJobs
    Matrix <- MCMatrix
    MaxElts = 16
    Align = 2
    NumSig = 4
    WarmUps = 2
INVARIANTS AlarmOnlyIfOvertaken WithinBuffers CompletedIsQuiet
