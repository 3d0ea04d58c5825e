SPECIFICATION MsgFairSpec
CONSTANTS
    Ops = {"VerifyDetached"}
    Lines = {"GET_HIDDEN", "GET_LINE", "GOODSIG", "BADSIG"}
    MaxStarts = 1
    MaxWrites = 0
    MaxLines = 2
CHECK_DEADLOCK FALSE
INVARIANT SuccessDeserved
PROPERTY OperationEnds
