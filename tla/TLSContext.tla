----------------------------- MODULE TLSContext -----------------------------
(***************************************************************************)
(* The provider side of a TLS session: the TLSContext interface of         *)
(* qcaprovider.h as the qca-ossl plugin implements it (OsslTLSContext for  *)
(* streams, OsslDTLSContext for datagrams, BaseOsslTLSContext for what     *)
(* they share).                                                            *)
(*                                                                         *)
(* The plugin does its work inside start() and update() and announces it   *)
(* with a queued resultsReady(), so what it computed is first visible when *)
(* that signal is delivered.  The model keeps the accepted call in c.req   *)
(* and picks the outcome at delivery, out of Outcomes(c).  OpenSSL itself  *)
(* is nondeterministic: every return code the plugin distinguishes is an   *)
(* outcome.  Data are counted: bytes for streams, packets for datagrams.   *)
(***************************************************************************)
EXTENDS Integers

CONSTANTS
    Mode,        \* TLS::Mode, "Stream" or "Datagram"
    PeerCerts,   \* the certificates the peer may show: a subset of Certs
    Garbage,     \* what the never initialised member result_encoded may hold
    EarlyHello,  \* BOOLEAN: the provider reports the server hello
                 \* (qca-ossl never does; the interface allows it)
    WantRead     \* BOOLEAN: SSL_write may answer SSL_ERROR_WANT_READ

(* The peer's certificate: absent, not trusted, valid and issued to the    *)
(* host in question, valid and issued to somebody else.                    *)
Certs == {"none", "untrusted", "match", "other"}

ASSUME ContextAssumption ==
    /\ Mode \in {"Stream", "Datagram"}
    /\ PeerCerts # {} /\ PeerCerts \subseteq Certs
    /\ Garbage # {} /\ Garbage \subseteq Nat
    /\ EarlyHello \in BOOLEAN
    /\ WantRead \in BOOLEAN

Results == {"Success", "Error", "Continue"}

(* The modes of BaseOsslTLSContext; Connect, Accept and Handshake are the  *)
(* one mode "Handshake".                                                   *)
CModes == {"Idle", "Handshake", "Active", "Closing"}

NoReq == [kind |-> "none", mode |-> "Idle", net |-> 0, app |-> 0]

Requests == [kind : {"none", "start", "update"}, mode : CModes,
             net : Nat, app : Nat]

Contexts == [mode : CModes, req : Requests, server : BOOLEAN,
             hello : {"no", "paused", "seen"}, sni : BOOLEAN,
             certReq : BOOLEAN, cert : Certs, eof : BOOLEAN,
             notified : BOOLEAN, sendQueue : Nat, encoded : Nat, rest : {0, 1},
             plain : {0, 1}, unread : BOOLEAN]

(* encoded and plain are the results to_net() and to_app() report, unread  *)
(* says that rbio may hold input that SSL has not read                     *)
CInit(g) ==
    [mode |-> "Idle", req |-> NoReq, server |-> FALSE, hello |-> "no",
     sni |-> FALSE, certReq |-> FALSE, cert |-> "none", eof |-> FALSE,
     notified |-> FALSE, sendQueue |-> 0, encoded |-> g, rest |-> 0,
     plain |-> 0, unread |-> FALSE]

CReset_KeepsCompletion(c) == [CInit(c.encoded) EXCEPT !.plain = c.plain, !.req = c.req]

(* reset(): the generation counter drops a completion still queued;        *)
(* result_encoded and result_plain keep their values.  (So does            *)
(* result_to_net, but the next call in mode Idle, Handshake or Closing     *)
(* overwrites a stream's, and a datagram session adds what is left to the  *)
(* output of its first round, which the outcomes do not tell apart.)       *)
CReset(c) == [CInit(c.encoded) EXCEPT !.plain = c.plain]

(* setup() and start() *)
CStart(c, server) ==
    [c EXCEPT !.server = server, !.hello = "no", !.sni = FALSE,
              !.req = [kind |-> "start", mode |-> c.mode, net |-> 0, app |-> 0]]

(* update(from_net, from_app) *)
CUpdate(c, net, app) ==
    [c EXCEPT !.req = [kind |-> "update", mode |-> c.mode,
                       net |-> net, app |-> app]]

CShutdown(c) == [c EXCEPT !.mode = "Closing"]

------------------------------------------------------------------------------
Outcome(res, toNet, c) ==
    [res |-> res, toNet |-> toNet, c |-> [c EXCEPT !.req = NoReq]]

StartOutcomes(c) ==
    { Outcome("Success", 0, [c EXCEPT !.mode = "Handshake"]),
      Outcome("Error", 0, c) }

(* What the peer's hello may have left in the context after this round.    *)
(* A server that finds a host name in the client hello leaves SSL_accept   *)
(* once, "paused", and goes on in the next update.                         *)
ClientHello(c) ==
    IF c.hello # "no" THEN {[c EXCEPT !.hello = "seen"]}
    ELSE IF c.req.net = 0 THEN {c}
    ELSE {c, [c EXCEPT !.hello = "seen"],
          [c EXCEPT !.hello = "paused", !.sni = TRUE]}

HelloFrom(c, r, k) == [c EXCEPT !.hello = "seen", !.certReq = r, !.cert = k]

ServerHello(c) ==
    IF ~EarlyHello \/ c.hello # "no" \/ c.req.net = 0 THEN {c}
    ELSE {c} \cup {HelloFrom(c, r, k) : r \in BOOLEAN, k \in PeerCerts}

Greeted(c) == IF c.server THEN ClientHello(c) ELSE ServerHello(c)

(* The end of the handshake: a server has the client hello; getCert()      *)
(* fetches the certificate, the one an early server hello showed if any.   *)
Activate(c, k) == [c EXCEPT !.mode = "Active", !.cert = k]

Agreed(c) ==
    {x \in {Activate(g, k) : g \in Greeted(c), k \in PeerCerts} :
        IF x.server THEN x.hello = "seen" ELSE c.hello = "seen" => x.cert = c.cert}

(* rbio holds something that SSL has not read, brought by this call or     *)
(* left by an earlier one                                                  *)
Fed(c) == c.unread \/ c.req.net > 0

Unread(b, c) == [c EXCEPT !.unread = b]

(* priv_handshake(): Bad resets the context.  SSL goes on until it needs   *)
(* more input than there is or is paused; what follows the last flight of  *)
(* the handshake stays in rbio.                                            *)
HandshakeOutcomes(c) ==
    {Outcome("Error", 0, CReset(c))}
    \cup {Outcome("Continue", n, Unread(Fed(c) /\ g.hello = "paused", g)) :
              n \in {0, 1}, g \in Greeted(c)}
    \cup {Outcome("Success", n, Unread(Fed(c), g)) : n \in {0, 1}, g \in Agreed(c)}

(* priv_encode() then priv_decode().  Without application data priv_encode *)
(* is not called and result_encoded keeps the value of an earlier update;  *)
(* SSL_write takes all it is given or, asked to read first, nothing.       *)
EncodedContexts(c) ==
    IF c.req.app = 0 THEN {c}
    ELSE {[c EXCEPT !.sendQueue = 0, !.encoded = c.sendQueue + c.req.app]}
         \cup (IF WantRead /\ Mode = "Stream"
               THEN {[c EXCEPT !.sendQueue = @ + c.req.app, !.encoded = 0]}
               ELSE {})

(* A stream context reads until rbio has no more, a datagram context once  *)
(* in a call, so that another packet may wait behind one it has read.      *)
(* result_plain is overwritten.                                            *)
Exchanged(n, a, e, c) ==
    Outcome("Success", n, [c EXCEPT !.eof = @ \/ e, !.plain = a,
                                    !.unread = Mode = "Datagram" /\ a = 1])

(* application data that SSL_write took is in the output of this update,   *)
(* and only what is in rbio can bring data or the end of the stream        *)
Readable(c) == Fed(c) /\ ~c.eof

Exchanges(c) ==
    {Exchanged(n, a, e, k) :
        n \in {0, 1}, a \in IF Readable(c) THEN {0, 1} ELSE {0},
        e \in IF Readable(c) THEN BOOLEAN ELSE {FALSE}, k \in EncodedContexts(c)}

ActiveOutcomes(c) ==
    {Outcome("Error", 0, c)}
    \cup {o \in Exchanges(c) : c.req.app > 0 /\ o.c.sendQueue = 0 => o.toNet = 1}

(* priv_shutdown(): SSL_shutdown has put out the close_notify; what follows *)
(* the peer's stays in rbio                                                *)
ClosingOutcomes(c) ==
    {Outcome("Error", 0, CReset(c))}
    \cup {Outcome("Continue", n, [c EXCEPT !.notified = TRUE]) : n \in {0, 1}}
    \cup {Outcome("Success", n, [c EXCEPT !.mode = "Idle", !.notified = TRUE,
                                             !.rest = r]) : n \in {0, 1}, r \in {0, 1}}

(* update() in mode Idle falls into priv_handshake() with no SSL object;   *)
(* result_plain is what an earlier session may have left in it             *)
IdleOutcomes(c) == {Outcome("Continue", 0, c)}

Outcomes(c) ==
    CASE c.req.kind = "none" -> {}
      [] c.req.kind = "start" -> StartOutcomes(c)
      [] c.req.kind = "update" /\ c.req.mode = "Idle" -> IdleOutcomes(c)
      [] c.req.kind = "update" /\ c.req.mode = "Handshake" -> HandshakeOutcomes(c)
      [] c.req.kind = "update" /\ c.req.mode = "Active" -> ActiveOutcomes(c)
      [] OTHER -> ClosingOutcomes(c)

(* what reset() may find in the results it keeps: the work of a call not   *)
(* yet announced is done, and may have failed                              *)
Unannounced(c) ==
    {c} \cup {[c EXCEPT !.encoded = o.c.encoded, !.plain = o.c.plain] : o \in Outcomes(c)}

(* OsslDTLSContext::update() announces nothing once the mode is Idle; the  *)
(* stream context always does.                                             *)
Announced(c, o) ==
    \/ Mode = "Stream"
    \/ c.req.kind = "start"
    \/ o.c.mode # "Idle"
==============================================================================
