SPECIFICATION FairSpec
CONSTANTS
    Kinds = {"single", "repeating", "other"}
    Slots = {"none", "start", "stop"}
    MaxMoves = 1
CHECK_DEADLOCK FALSE
INVARIANTS ObjectBack ResultHonest TimersKept
PROPERTIES TimedCallReturns ConditionEndsWait StopEnds
