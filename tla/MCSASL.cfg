SPECIFICATION FairSpec
CONSTANTS
    Server = {TRUE, FALSE}
    MaxOut = 2
    MaxNet = 1
    MaxBuf = 1
    MaxDrift = 1
    MaxPosted = 2
INVARIANTS ResultOnItsWay RepliesTaken NoStall OutputTaken
PROPERTIES AuthOrder WrittenFlows
