SPECIFICATION FairSweepSpec
CONSTANTS
    nranks = 5
    Bounds <- MCBounds
    Kinds = {"factor", "step", "fixed"}
    Numbers <- MCNumbers
PROPERTIES MovesOn SweepEnds
