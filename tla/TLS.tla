-------------------------------- MODULE TLS --------------------------------
(***************************************************************************)
(* TLS::Private and the public calls of class TLS (qca_securelayer.cpp):   *)
(* the event-driven engine between an application, the network and the     *)
(* provider c of module TLSContext.                                        *)
(*                                                                         *)
(* Every call of the application, the delivery of resultsReady() and the   *)
(* timeout of actionTrigger is one action.  A handler is an operator from  *)
(* a machine state m = Now to the next one, so that a handler that         *)
(* calls update() and then processNextAction() is their composition.  Each *)
(* handler emits at most one signal, as its last statement: sig is the     *)
(* signal of the latest step, and what a slot calls back is a later step.  *)
(*                                                                         *)
(* The bookkeeping of the LayerTracker member is added by TLSLayer.        *)
(***************************************************************************)
EXTENDS TLSContext, Sequences

CONSTANTS
    Server,    \* the values of "server" that are started: a subset of BOOLEAN
    Hosts,     \* the host arguments of startClient: a subset of BOOLEAN,
               \* TRUE for a host name, FALSE for the empty string
    Signals,   \* the step signals the application may connect to
    MaxOut,    \* bound: application data in out / packet_out and out_pending
    MaxNet,    \* bound: network data waiting in from_net / packet_from_net
    MaxIn,     \* bound: decoded data waiting in in
    MaxBuf,    \* bound: output waiting in to_net
    MaxDrift   \* bound: how far out_pending and to_net_encoded go below 0

StepSignals == {"hostNameReceived", "certificateRequested",
                "peerCertificateAvailable", "handshaken"}

ASSUME TLSAssumption ==
    /\ Server \subseteq BOOLEAN /\ Hosts \subseteq BOOLEAN
    /\ Signals \subseteq StepSignals
    /\ MaxOut \in Nat /\ MaxNet \in Nat /\ MaxIn \in Nat
    /\ MaxBuf \in Nat /\ MaxDrift \in Nat

VARIABLES
    d,      \* the session fields of TLS::Private
    io,     \* its stream or datagram buffers
    peer,   \* its "data" fields: peer certificate and error code
    c,      \* the provider context
    conn,   \* the connect_* flags: the step signals that have a slot
    sig     \* the signal emitted by the latest step, or "none"

vars == <<d, io, peer, c, conn, sig>>

States == {"Inactive", "Initializing", "Handshaking", "Connected", "Closing"}

Actions == {"ReadyRead", "ReadyReadOutgoing", "Handshaken", "Close",
            "CheckPeerCertificate", "CertificateRequested", "HostNameReceived"}

Sigs == StepSignals \cup {"none", "readyRead", "readyReadOutgoing", "closed", "error"}

(* op is the running provider operation, "none" for -1; trigger says that  *)
(* actionTrigger is active; host says that the host name is not empty.     *)
Privates ==
    [state : States, blocked : BOOLEAN, server : BOOLEAN, host : BOOLEAN,
     trigger : BOOLEAN, op : {"none", "start", "update"},
     actionQueue : Seq(Actions), need_update : BOOLEAN, maybe_input : BOOLEAN,
     emitted : SUBSET StepSignals]

Buffers ==
    [in : Nat, out : Nat, to_net : Nat, from_net : Nat, unprocessed : {0, 1},
     out_pending : Int, to_net_encoded : Int]

Peers ==
    [peerCert : Certs, hostMismatch : BOOLEAN,
     errorCode : {"none", "Init", "Handshake", "Crypt"}]

InitPrivate ==
    [state |-> "Inactive", blocked |-> FALSE, server |-> FALSE, host |-> FALSE,
     trigger |-> FALSE, op |-> "none", actionQueue |-> <<>>,
     need_update |-> FALSE, maybe_input |-> FALSE, emitted |-> {}]

InitBuffers ==
    [in |-> 0, out |-> 0, to_net |-> 0, from_net |-> 0, unprocessed |-> 0,
     out_pending |-> 0, to_net_encoded |-> 0]

InitPeer == [peerCert |-> "none", hostMismatch |-> FALSE, errorCode |-> "none"]

Now == [d |-> d, io |-> io, peer |-> peer, c |-> c, sig |-> "none"]

Become(m) ==
    /\ d' = m.d /\ io' = m.io /\ peer' = m.peer
    /\ c' = m.c /\ sig' = m.sig
    /\ UNCHANGED conn

------------------------------------------------------------------------------
(* Definitions named Operation_Slip are mistakes one could make in the     *)
(* code of Operation; nothing uses them but the mutants of PROJECT.json.   *)

(* reset(ResetSession) *)
ResetSession(m) ==
    [m EXCEPT !.c = CReset(@), !.d = InitPrivate, !.io.out = 0, !.io.out_pending = 0]

ResetSessionAndData_KeepsPeer(m) ==
    [m EXCEPT !.c = CReset(@), !.d = InitPrivate, !.io = InitBuffers]

(* reset(ResetSessionAndData), and reset(ResetAll): the persistent         *)
(* settings the latter also clears are not modelled                        *)
ResetSessionAndData(m) ==
    [m EXCEPT !.c = CReset(@), !.d = InitPrivate, !.io = InitBuffers,
              !.peer = InitPeer]

start(m, serverMode) ==
    [m EXCEPT !.d.state = "Initializing", !.d.server = serverMode,
              !.d.op = "start", !.c = CStart(@, serverMode)]

Taken_Unchecked(n) == IF Mode = "Datagram" THEN 1 ELSE n

(* what update() hands over: everything for a stream, one packet for a     *)
(* datagram session; no application data during the handshake              *)
Taken(n) == IF Mode = "Datagram" /\ n > 0 THEN 1 ELSE n
ArgNet(m) == Taken(m.io.from_net)
ArgApp(m) == IF m.d.state = "Handshaking" THEN 0 ELSE Taken(m.io.out)

CallUpdate(m, net, app) ==
    [m EXCEPT !.d = [m.d EXCEPT !.need_update = FALSE, !.maybe_input = FALSE,
                                !.op = "update"],
              !.io = [m.io EXCEPT !.from_net = @ - net, !.out = @ - app,
                                  !.out_pending = @ + app],
              !.c = CUpdate(m.c, net, app)]

update_IgnoresQueue(m) ==
    CASE m.d.blocked -> m
      [] ~m.d.blocked /\ m.d.op # "none" -> [m EXCEPT !.d.need_update = TRUE]
      [] ~m.d.blocked /\ m.d.op = "none" ->
            IF ArgNet(m) = 0 /\ ArgApp(m) = 0 /\ ~m.d.maybe_input
            THEN [m EXCEPT !.d.need_update = FALSE]
            ELSE CallUpdate(m, ArgNet(m), ArgApp(m))

update(m) ==
    CASE m.d.blocked -> m
      [] ~m.d.blocked /\ (m.d.actionQueue # <<>> \/ m.d.op # "none") ->
            [m EXCEPT !.d.need_update = TRUE]
      [] ~m.d.blocked /\ m.d.actionQueue = <<>> /\ m.d.op = "none" ->
            IF ArgNet(m) = 0 /\ ArgApp(m) = 0 /\ ~m.d.maybe_input
            THEN [m EXCEPT !.d.need_update = FALSE]
            ELSE CallUpdate(m, ArgNet(m), ArgApp(m))

close_AnyState(m) == [m EXCEPT !.d.state = "Closing", !.c = CShutdown(@)]

close(m) ==
    IF m.d.state # "Connected" THEN m
    ELSE [m EXCEPT !.d.state = "Closing", !.c = CShutdown(@)]

------------------------------------------------------------------------------
(* The branches of processNextAction(), one per action type.  Those of the *)
(* step signals block the session when the signal has a slot.              *)
Step(m, s) ==
    IF s \notin conn THEN m
    ELSE [m EXCEPT !.d.blocked = TRUE, !.sig = s,
                   !.d.emitted = IF s = "handshaken" THEN @ ELSE @ \cup {s}]

DoHandshaken_NoFlush(m) == Step([m EXCEPT !.d.state = "Connected"], "handshaken")

DoHandshaken(m) ==
    LET flush == Mode = "Stream" /\ m.io.out > 0    \* only "out" is looked at
    IN Step([m EXCEPT !.d.state = "Connected",
                      !.d.need_update = @ \/ flush,
                      !.d.trigger = @ \/ flush], "handshaken")

DoClose(m) ==
    [ResetSession([m EXCEPT !.io.unprocessed = m.c.rest]) EXCEPT !.sig = "closed"]

DoCheckPeerCertificate(m) ==
    Step([m EXCEPT !.peer.peerCert = m.c.cert,
                   !.peer.hostMismatch = @ \/ (m.c.cert = "other" /\ m.d.host)],
         "peerCertificateAvailable")

DoHostNameReceived_NoInput(m) ==
    LET n == [m EXCEPT !.d.emitted = @ \cup {"hostNameReceived"}]
    IN IF "hostNameReceived" \in conn THEN Step(n, "hostNameReceived")
       ELSE [n EXCEPT !.d.need_update = TRUE, !.d.trigger = TRUE]

DoHostNameReceived(m) ==
    LET n == [m EXCEPT !.d.emitted = @ \cup {"hostNameReceived"},
                       !.d.maybe_input = TRUE]
    IN IF "hostNameReceived" \in conn THEN Step(n, "hostNameReceived")
       ELSE [n EXCEPT !.d.need_update = TRUE, !.d.trigger = TRUE]

Perform(a, m) ==
    CASE a = "ReadyRead" -> [m EXCEPT !.sig = "readyRead"]
      [] a = "ReadyReadOutgoing" -> [m EXCEPT !.sig = "readyReadOutgoing"]
      [] a = "Handshaken" -> DoHandshaken(m)
      [] a = "Close" -> DoClose(m)
      [] a = "CheckPeerCertificate" -> DoCheckPeerCertificate(m)
      [] a = "CertificateRequested" -> Step(m, "certificateRequested")
      [] a = "HostNameReceived" -> DoHostNameReceived(m)

TakeFirst_NoUpdate(m) ==
    [m EXCEPT !.d.actionQueue = Tail(@),
              !.d.trigger = @ \/ Tail(m.d.actionQueue) # <<>>]

(* take the first action and arm the trigger for what is left *)
TakeFirst(m) ==
    [m EXCEPT !.d.actionQueue = Tail(@),
              !.d.trigger = @ \/ Tail(m.d.actionQueue) # <<>> \/ m.d.need_update]

processNextAction(m) ==
    IF m.d.actionQueue = <<>>
    THEN IF m.d.need_update THEN update(m) ELSE m
    ELSE Perform(Head(m.d.actionQueue), TakeFirst(m))

------------------------------------------------------------------------------
Enqueue(m, as) == [m EXCEPT !.d.actionQueue = @ \o as]

When(b, a) == IF b THEN <<a>> ELSE <<>>

Failed_NoReset(m, e) == [m EXCEPT !.peer.errorCode = e, !.sig = "error"]

Failed(m, e) ==
    [ResetSession(m) EXCEPT !.peer.errorCode = e, !.sig = "error"]

start_finished(m, o) ==
    IF o.res # "Success" THEN Failed(m, "Init")
    ELSE update([m EXCEPT !.d.state = "Handshaking", !.d.maybe_input = TRUE])

(* the branches of update_finished(), after the common collection of the   *)
(* network output                                                          *)
ClosingFinished(m, o) ==
    processNextAction(Enqueue(m, When(o.res = "Success", "Close")))

HandshakingFinished(m, o) ==
    LET clientHello == m.d.server /\ m.c.hello # "no"
        serverHello == ~m.d.server /\ m.c.hello # "no"
        named == "hostNameReceived" \notin m.d.emitted /\ clientHello
        as == When(named /\ m.c.sni, "HostNameReceived")
              \o When("peerCertificateAvailable" \notin m.d.emitted
                      /\ (o.res = "Success" \/ serverHello), "CheckPeerCertificate")
              \o When("certificateRequested" \notin m.d.emitted
                      /\ serverHello /\ m.c.certReq, "CertificateRequested")
              \o When(o.res = "Success", "Handshaken")
    IN processNextAction(Enqueue(
         [m EXCEPT !.d.host = IF named THEN m.c.sni ELSE @,
                   !.d.need_update = @ \/ (/\ o.res = "Continue"
                                           /\ Mode = "Datagram"
                                           /\ m.io.from_net > 0)], as))

(* enc is -1 without network output, and to_net_encoded still gets it *)
Encoded(m, o) == IF o.toNet > 0 THEN m.c.encoded ELSE -1

Settle(m, o) ==
    IF Mode = "Stream"
    THEN [m EXCEPT !.io.out_pending = IF o.toNet > 0 THEN @ - Encoded(m, o) ELSE @,
                   !.io.to_net_encoded = @ + Encoded(m, o)]
    ELSE [m EXCEPT !.io.out_pending = IF @ > o.toNet THEN @ - o.toNet
                                     ELSE IF o.toNet > 0 THEN 0 ELSE @]

IoPending(x) ==
    \/ x.out_pending > 0
    \/ x.out > 0
    \/ Mode = "Datagram" /\ x.from_net > 0

(* to_app(), which is asked here only, also in state Inactive *)
Received(m) == [m EXCEPT !.io.in = @ + m.c.plain, !.c.plain = 0]

ConnectedFinished(m, o) ==
    LET p == Settle(Enqueue(Received(m), When(m.c.plain > 0, "ReadyRead")), o)
        q == [p EXCEPT !.d.maybe_input = @ \/ p.io.out_pending > 0]
        r == IF m.c.eof THEN [close(q) EXCEPT !.d.maybe_input = TRUE] ELSE q
    IN processNextAction(IF m.c.eof \/ IoPending(p.io) THEN update(r) ELSE r)

update_finished(m, o) ==
    LET n == Enqueue([m EXCEPT !.io.to_net = @ + o.toNet],
                     When(o.toNet > 0, "ReadyReadOutgoing"))
    IN CASE o.res = "Error" ->
              Failed(m, IF m.d.state \in {"Handshaking", "Closing"}
                        THEN "Handshake" ELSE "Crypt")
         [] o.res # "Error" /\ m.d.state = "Closing" -> ClosingFinished(n, o)
         [] o.res # "Error" /\ m.d.state = "Handshaking" -> HandshakingFinished(n, o)
         [] OTHER -> ConnectedFinished(n, o)

tls_resultsReady(m, o) ==
    LET n == [m EXCEPT !.c = o.c, !.d.op = "none"]
    IN IF m.d.op = "start" THEN start_finished(n, o) ELSE update_finished(n, o)

------------------------------------------------------------------------------
Init ==
    /\ d = InitPrivate /\ io = InitBuffers /\ peer = InitPeer
    /\ \E g \in Garbage : c = CInit(g)
    /\ conn = {}
    /\ sig = "none"

(* The public calls of class TLS *)
With(k) == [Now EXCEPT !.c = k]

startClient(host) ==
    /\ FALSE \in Server
    /\ \E k \in Unannounced(c) :
          Become(start([ResetSessionAndData(With(k)) EXCEPT !.d.host = host], FALSE))

startServer ==
    /\ TRUE \in Server
    /\ \E k \in Unannounced(c) : Become(start(ResetSessionAndData(With(k)), TRUE))

Reset == \E k \in Unannounced(c) : Become(ResetSessionAndData(With(k)))

continueAfterStep ==
    /\ d.blocked
    /\ Become(update([Now EXCEPT !.d.blocked = FALSE]))

Close == Become(update(close(Now)))

Write ==
    /\ io.out + io.out_pending < MaxOut
    /\ Become(update([Now EXCEPT !.io.out = @ + 1]))

WriteIncoming ==
    /\ io.from_net < MaxNet
    /\ Become(update([Now EXCEPT !.io.from_net = @ + 1]))

Read ==
    /\ io.in > 0
    /\ Become([Now EXCEPT !.io.in = IF Mode = "Stream" THEN 0 ELSE @ - 1])

ReadOutgoing ==
    /\ Mode = "Stream" \/ io.to_net > 0
    /\ Become([Now EXCEPT !.io.to_net = IF Mode = "Stream" THEN 0 ELSE @ - 1,
                          !.io.to_net_encoded = 0])

ReadUnprocessed ==
    /\ Mode = "Stream"
    /\ Become([Now EXCEPT !.io.unprocessed = 0])

connectNotify(s) ==
    /\ s \notin conn
    /\ conn' = conn \cup {s} /\ sig' = "none" /\ UNCHANGED <<d, io, peer, c>>

disconnectNotify(s) ==
    /\ s \in conn
    /\ conn' = conn \ {s} /\ sig' = "none" /\ UNCHANGED <<d, io, peer, c>>

(* The event loop: a queued completion, the trigger, the provider's timer  *)
Fits(o) ==
    /\ io.to_net + o.toNet <= MaxBuf
    /\ d.state \in {"Inactive", "Connected"} => io.in + o.c.plain <= MaxIn
    /\ Mode = "Stream" => /\ o.toNet = 0 => io.to_net_encoded > -MaxDrift
                          /\ io.out_pending - o.c.encoded >= -MaxDrift \/ o.toNet = 0

(* (m is bound by a quantifier so that TLC evaluates it once) *)
ResultsReady ==
    \E o \in Outcomes(c) :
        /\ Announced(c, o)
        /\ Fits(o)
        /\ \E m \in {tls_resultsReady(Now, o)} : Become(m)

ResultsUnannounced ==
    \E o \in Outcomes(c) :
        /\ ~Announced(c, o)
        /\ c' = o.c /\ sig' = "none" /\ UNCHANGED <<d, io, peer, conn>>

doNextAction ==
    /\ d.trigger
    /\ Become(processNextAction([Now EXCEPT !.d.trigger = FALSE]))

tls_dtlsTimeout ==
    /\ Mode = "Datagram" /\ c.mode # "Idle"
    /\ Become(update([Now EXCEPT !.d.maybe_input = TRUE]))

Next ==
    \/ \E h \in Hosts : startClient(h)
    \/ startServer
    \/ Reset
    \/ continueAfterStep
    \/ Close
    \/ Write
    \/ WriteIncoming
    \/ Read
    \/ ReadOutgoing
    \/ ReadUnprocessed
    \/ \E s \in Signals : connectNotify(s)
    \/ \E s \in Signals : disconnectNotify(s)
    \/ ResultsReady
    \/ ResultsUnannounced
    \/ doNextAction
    \/ tls_dtlsTimeout

Spec == Init /\ [][Next]_vars

(***************************************************************************)
(* The event loop runs queued completions and expired timers; the          *)
(* application resumes a blocked session, as continueAfterStep() asks of   *)
(* it, and reads the output it was told about.                             *)
(***************************************************************************)
Fairness ==
    /\ WF_vars(ResultsReady)
    /\ WF_vars(doNextAction)
    /\ WF_vars(continueAfterStep)
    /\ WF_vars(Read)
    /\ WF_vars(ReadOutgoing)

FairSpec == Spec /\ Fairness

------------------------------------------------------------------------------
(* Every field of TLS::Private and of the provider has the type its C++    *)
(* declaration gives it.                                                   *)
TypeOK ==
    /\ d \in Privates /\ io \in Buffers /\ peer \in Peers
    /\ c \in Contexts
    /\ conn \in SUBSET Signals
    /\ sig \in Sigs

(* Q_ASSERT(op != -1) of tls_resultsReady(): a completion that is still    *)
(* queued belongs to the operation TLS waits for, also after reset() and a *)
(* new start.                                                              *)
ResultsExpected == c.req.kind # "none" => d.op = c.req.kind

(* The provider is not driven while the application has signals to receive *)
(* or has not called continueAfterStep().                                  *)
QuietDuringOp == d.op # "none" => d.actionQueue = <<>> /\ ~d.blocked

(* No lost wakeup: when neither the provider nor the trigger nor the       *)
(* application will make update() run, nothing is left for it to do.  The  *)
(* flag need_update, the trigger and io_pending exist for this.            *)
NoStall ==
    d.op = "none" /\ ~d.trigger /\ ~d.blocked =>
        /\ d.actionQueue = <<>> /\ ~d.need_update
        /\ d.state # "Inactive" => io.from_net = 0 /\ c.hello # "paused"
        /\ d.state = "Connected" => io.out = 0

peerIdentityResult ==
    CASE peer.peerCert = "none" -> "NoCertificate"
      [] peer.peerCert = "untrusted" -> "InvalidCertificate"
      [] peer.peerCert \in {"match", "other"} ->
            IF peer.hostMismatch THEN "HostMismatch" ELSE "Valid"

(* Once the handshake is complete a client that asks peerIdentityResult()  *)
(* gets Valid only for a trusted certificate issued to the host it named.  *)
PeerIdentity ==
    d.state \in {"Connected", "Closing"} /\ ~d.server /\ d.host =>
        (peerIdentityResult = "Valid" <=> c.cert = "match")

(* Data the application wrote reach the provider once the session is       *)
(* connected.                                                              *)
AppDataFlows ==
    (d.state = "Connected" /\ io.out > 0) ~> (io.out = 0 \/ d.state # "Connected")

(* A provider paused in the client hello is called again.                  *)
PausedResumes == (c.hello = "paused") ~> (c.hello # "paused")

PhaseOf(state) ==
    CASE state = "Inactive" -> "idle"
      [] state \in {"Initializing", "Handshaking"} -> "negotiating"
      [] state = "Connected" -> "open"
      [] state = "Closing" -> "ending"

Session == INSTANCE SecureSession
           WITH phase <- PhaseOf(d.state), signal <- sig, left <- c.plain > 0

(* TLS keeps the promise of SecureSession about the order of its signals.  *)
SessionSpec == Session!Spec

------------------------------------------------------------------------------
(* What the documentation says and the code does not do                    *)

(* qcaprovider.h on update(): in the shutdown state, Success says that the *)
(* session has ended; closed() is announced only then.                     *)
ClosedAfterShutdown ==
    \A i \in DOMAIN d.actionQueue : d.actionQueue[i] = "Close" => c.mode = "Idle"
==============================================================================
