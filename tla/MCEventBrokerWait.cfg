SPECIFICATION FairSpec
CONSTANTS
    Handlers = {h1, h2}
    Askers = {a1}
    MaxQuestions = 2
    MaxStarts = 3
CHECK_DEADLOCK FALSE
PROPERTY WaitEnds
