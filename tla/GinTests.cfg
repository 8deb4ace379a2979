SPECIFICATION Spec
CONSTANTS
    Configs <- MCConfigs
    SizeModulus = 16
    WarpSize = 2
INVARIANTS NoFalseTurn QueueWithinDepth ClockCoversMessages
PROPERTY EverybodyFinishes
