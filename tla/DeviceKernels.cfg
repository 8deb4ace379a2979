SPECIFICATION Spec
CONSTANTS
    Jobs <- MCJobs
    Elements = 24
    WarpSize = 2
    UnrollFactor = 2
    SizeModulus = 256
    IntModulus = 16
    Launches = 3
INVARIANTS DataIsDelivered EveryElementOnce
