SPECIFICATION LayerSpec
CONSTANTS
    Mode = "Stream"
    Garbage = {0}
    PeerCerts = {"match"}
    EarlyHello = FALSE
    WantRead = FALSE
    Server = {FALSE}
    Hosts = {TRUE}
    Signals = {}
    MaxOut = 1
    MaxNet = 1
    MaxIn = 0
    MaxBuf = 2
    MaxDrift = 1
    Sizes = {1, 2}
    MaxPlain = 1
    MaxItems = 2
INVARIANTS ReportExact PlainConserved
