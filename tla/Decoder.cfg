SPECIFICATION FairSpec
CONSTANTS
    STEADY = 2
    BOOST = 5
    MaxFaults = 3
INVARIANTS OneDecoder StopLeavesNone RateFollows
PROPERTIES StopReturned Decodes
CHECK_DEADLOCK FALSE
