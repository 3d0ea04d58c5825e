SPECIFICATION Spec
CONSTANTS
    Mode = "Stream"
    Garbage = {0}
    PeerCerts = {"match"}
    EarlyHello = FALSE
    WantRead = FALSE
    Server = {FALSE}
    Hosts = {TRUE}
    Signals = {}
    MaxOut = 1
    MaxNet = 1
    MaxIn = 1
    MaxBuf = 1
    MaxDrift = 1
INVARIANT ClosedAfterShutdown
