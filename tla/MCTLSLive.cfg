SPECIFICATION FairSpec
CONSTANTS
    Mode = "Stream"
    Garbage = {0}
    PeerCerts = {"none"}
    EarlyHello = FALSE
    WantRead = FALSE
    Server = {TRUE}
    Hosts = {}
    Signals = {"hostNameReceived"}
    MaxOut = 1
    MaxNet = 1
    MaxIn = 1
    MaxBuf = 1
    MaxDrift = 1
INVARIANT NoStall
PROPERTIES AppDataFlows PausedResumes
