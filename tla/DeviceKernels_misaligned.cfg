SPECIFICATION Spec
CONSTANTS
    Jobs <- MisalignedJobs
    Elements = 24
    WarpSize = 2
    UnrollFactor = 2
    SizeModulus = 256
    IntModulus = 16
    Launches = 2
INVARIANT VectorsAreAligned
