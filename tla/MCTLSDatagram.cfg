SPECIFICATION Spec
CONSTANTS
    Mode = "Datagram"
    Garbage = {0}
    PeerCerts = {"none", "other"}
    EarlyHello = FALSE
    WantRead = FALSE
    Server = {TRUE, FALSE}
    Hosts = {TRUE}
    Signals = {"certificateRequested", "handshaken"}
    MaxOut = 1
    MaxNet = 2
    MaxIn = 1
    MaxBuf = 1
    MaxDrift = 1
INVARIANTS TypeOK QuietDuringOp
PROPERTY SessionSpec
