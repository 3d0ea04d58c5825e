SPECIFICATION MsgSpec
CONSTANTS
    Ops = {"VerifyDetached", "Decrypt"}
    Lines = {"GET_HIDDEN", "GOODSIG"}
    MaxStarts = 2
    MaxWrites = 2
    MaxLines = 1
CHECK_DEADLOCK FALSE
INVARIANTS InputInOrder ToldOnce BytesHonest
