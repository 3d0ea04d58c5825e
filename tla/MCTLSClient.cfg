SPECIFICATION Spec
CONSTANTS
    Mode = "Stream"
    Garbage = {0}
    PeerCerts = {"match", "other"}
    EarlyHello = TRUE
    WantRead = TRUE
    Server = {FALSE}
    Hosts = {TRUE}
    Signals = {"peerCertificateAvailable", "handshaken"}
    MaxOut = 1
    MaxNet = 1
    MaxIn = 1
    MaxBuf = 1
    MaxDrift = 1
INVARIANTS ResultsExpected NoStall PeerIdentity
PROPERTY SessionSpec
