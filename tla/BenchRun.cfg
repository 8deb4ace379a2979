SPECIFICATION FairSpec
CONSTANTS
    Procs = {p1, p2}
    N = 2
    Options <- MCOptions
    MaxMishaps = 1
INVARIANTS Lockstep NoFalseAlarm ClockCoversWork VerdictIsTrue NoVerdictAfterFault
PROPERTIES EveryProcessEnds
