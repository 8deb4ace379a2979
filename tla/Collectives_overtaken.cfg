SPECIFICATION Spec
CONSTANTS
    Jobs <- OneJob
    Matrix <- MCMatrix
    MaxElts = 16
    Align = 2
    NumSig = 4
    WarmUps = 2
INVARIANTS NoFalseAlarm
