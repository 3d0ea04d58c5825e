----------------------------- MODULE TLSProofs -----------------------------
(***************************************************************************)
(* Proofs about module TLS, for every value of its constants.              *)
(***************************************************************************)
EXTENDS TLS, SequenceTheorems, TLAPS

Machines == [d : Privates, io : Buffers, peer : Peers, c : Contexts, sig : Sigs]

(* a context that has no call to answer *)
Answered == {x \in Contexts : x.req.kind = "none"}

OutcomeSet == [res : Results, toNet : {0, 1}, c : Answered]

------------------------------------------------------------------------------
(* Types of the provider's operators                                       *)

LEMMA ContextFacts ==
  ASSUME NEW x \in Contexts
  PROVE  /\ CReset(x) \in Contexts
         /\ CShutdown(x) \in Contexts
         /\ \A b \in BOOLEAN : CStart(x, b) \in Contexts
         /\ \A n, a \in Nat : CUpdate(x, n, a) \in Contexts
  BY DEF CReset, CInit, CShutdown, CStart, CUpdate, Contexts, Requests, NoReq,
         CModes, Certs

LEMMA OutcomeFacts ==
  ASSUME NEW x \in Contexts, NEW r \in Results, NEW n \in {0, 1}
  PROVE  Outcome(r, n, x) \in OutcomeSet
<1>1. [x EXCEPT !.req = NoReq] \in Answered
  BY DEF Answered, Contexts, Requests, NoReq, CModes
<1> QED
  BY <1>1 DEF Outcome, OutcomeSet

LEMMA OutcomeRes ==
  ASSUME NEW x, NEW e, NEW n
  PROVE  Outcome(e, n, x).res = e /\ Outcome(e, n, x).toNet = n
  BY DEF Outcome

LEMMA OutcomeFields ==
  ASSUME NEW x \in Contexts, NEW e, NEW n
  PROVE  /\ Outcome(e, n, x).res = e
         /\ Outcome(e, n, x).c.mode = x.mode /\ Outcome(e, n, x).c.plain = x.plain
<1>1. Outcome(e, n, x).c = [x EXCEPT !.req = NoReq] /\ Outcome(e, n, x).res = e
  BY DEF Outcome
<1> QED
  BY <1>1 DEF Contexts

LEMMA GreetedFacts ==
  ASSUME NEW x \in Contexts, NEW g \in Greeted(x)
  PROVE  g \in Contexts
<1>1. [x EXCEPT !.hello = "seen"] \in Contexts
  BY DEF Contexts
<1>2. [x EXCEPT !.hello = "paused", !.sni = TRUE] \in Contexts
  BY DEF Contexts
<1>3. ASSUME NEW r \in BOOLEAN, NEW k \in PeerCerts
      PROVE  HelloFrom(x, r, k) \in Contexts
  BY ContextAssumption DEF Contexts, HelloFrom
<1>4. CASE x.server
  BY <1>1, <1>2, <1>4 DEF Greeted, ClientHello
<1>5. CASE ~x.server
  <2>1. g \in ServerHello(x)
    BY <1>5 DEF Greeted
  <2>2. \/ g = x
        \/ \E r \in BOOLEAN, k \in PeerCerts :
              g = HelloFrom(x, r, k)
    BY <2>1 DEF ServerHello
  <2> QED
    BY <2>2, <1>3
<1> QED
  BY <1>4, <1>5

LEMMA GreetedMode ==
  ASSUME NEW x \in Contexts, NEW g \in Greeted(x)
  PROVE  g.mode = x.mode /\ g.plain = x.plain
<1>1. \A r, k : HelloFrom(x, r, k).mode = x.mode /\ HelloFrom(x, r, k).plain = x.plain
  BY DEF Contexts, HelloFrom
<1>2. CASE x.server
  BY <1>2 DEF Greeted, ClientHello, Contexts
<1>3. CASE ~x.server
  <2>1. g = x \/ \E r \in BOOLEAN, k \in PeerCerts : g = HelloFrom(x, r, k)
    BY <1>3 DEF Greeted, ServerHello
  <2> QED
    BY <1>1, <2>1
<1> QED
  BY <1>2, <1>3

LEMMA AgreedFacts ==
  ASSUME NEW x \in Contexts, NEW g \in Agreed(x)
  PROVE  g \in Contexts
<1>1. PICK y \in Greeted(x), k \in PeerCerts : g = Activate(y, k)
  BY DEF Agreed
<1>2. y \in Contexts
  BY GreetedFacts
<1> QED
  BY <1>1, <1>2, ContextAssumption DEF Contexts, CModes, Activate

LEMMA EncodedFacts ==
  ASSUME NEW x \in Contexts, NEW k \in EncodedContexts(x)
  PROVE  k \in Contexts
<1> DEFINE sum == x.sendQueue + x.req.app
<1>1. sum \in Nat
  BY DEF Contexts, Requests
<1>2. [x EXCEPT !.sendQueue = 0, !.encoded = sum] \in Contexts
  BY <1>1 DEF Contexts
<1>3. [x EXCEPT !.sendQueue = sum, !.encoded = 0] \in Contexts
  BY <1>1 DEF Contexts
<1>4. \/ k = x
      \/ k = [x EXCEPT !.sendQueue = 0, !.encoded = sum]
      \/ k = [x EXCEPT !.sendQueue = sum, !.encoded = 0]
  BY DEF EncodedContexts
<1> QED
  BY <1>2, <1>3, <1>4

LEMMA UnreadFacts ==
  ASSUME NEW x \in Contexts, NEW g \in Contexts
  PROVE  /\ Unread(Fed(x), g) \in Contexts
         /\ Unread(Fed(x) /\ g.hello = "paused", g) \in Contexts
<1>1. ASSUME NEW b \in BOOLEAN PROVE Unread(b, g) \in Contexts
  BY DEF Contexts, Unread
<1>2. Fed(x) \in BOOLEAN /\ (Fed(x) /\ g.hello = "paused") \in BOOLEAN
  BY DEF Fed
<1> QED
  BY <1>1, <1>2

LEMMA ActiveCases ==
  ASSUME NEW x, NEW o \in ActiveOutcomes(x)
  PROVE  \/ o = Outcome("Error", 0, x)
         \/ \E n \in {0, 1}, a \in {0, 1}, e \in BOOLEAN, k \in EncodedContexts(x) :
               o = Exchanged(n, a, e, k)
<1> DEFINE A == IF Readable(x) THEN {0, 1} ELSE {0}
           E == IF Readable(x) THEN BOOLEAN ELSE {FALSE}
<1>1. A \subseteq {0, 1} /\ E \subseteq BOOLEAN
  OBVIOUS
<1>2. Exchanges(x) = {Exchanged(n, a, e, k) :
                        n \in {0, 1}, a \in A, e \in E, k \in EncodedContexts(x)}
  BY DEF Exchanges
<1> HIDE DEF A, E
<1>3. o = Outcome("Error", 0, x) \/ o \in Exchanges(x)
  BY DEF ActiveOutcomes
<1> QED
  BY <1>1, <1>2, <1>3

LEMMA OutcomesType ==
  ASSUME NEW x \in Contexts, NEW o \in Outcomes(x)
  PROVE  o \in OutcomeSet
<1>1. ASSUME o \in StartOutcomes(x) PROVE o \in OutcomeSet
  <2>1. [x EXCEPT !.mode = "Handshake"] \in Contexts
    BY DEF Contexts, CModes
  <2> QED
    BY <1>1, <2>1, OutcomeFacts DEF StartOutcomes, Results
<1>2. ASSUME o \in IdleOutcomes(x) PROVE o \in OutcomeSet
  BY <1>2, OutcomeFacts DEF IdleOutcomes, Results
<1>3. ASSUME o \in HandshakeOutcomes(x) PROVE o \in OutcomeSet
  <2>1. CASE o = Outcome("Error", 0, CReset(x))
    BY <2>1, ContextFacts, OutcomeFacts DEF Results
  <2>2. CASE \E n \in {0, 1}, g \in Greeted(x) :
               o = Outcome("Continue", n, Unread(Fed(x) /\ g.hello = "paused", g))
    <3>1. PICK n \in {0, 1}, g \in Greeted(x) :
               o = Outcome("Continue", n, Unread(Fed(x) /\ g.hello = "paused", g))
      BY <2>2
    <3>2. Unread(Fed(x) /\ g.hello = "paused", g) \in Contexts
      BY GreetedFacts, UnreadFacts
    <3> QED
      BY <3>1, <3>2, OutcomeFacts DEF Results
  <2>3. CASE \E n \in {0, 1}, g \in Agreed(x) :
               o = Outcome("Success", n, Unread(Fed(x), g))
    <3>1. PICK n \in {0, 1}, g \in Agreed(x) :
               o = Outcome("Success", n, Unread(Fed(x), g))
      BY <2>3
    <3>2. Unread(Fed(x), g) \in Contexts
      BY AgreedFacts, UnreadFacts
    <3> QED
      BY <3>1, <3>2, OutcomeFacts DEF Results
  <2> QED
    BY <1>3, <2>1, <2>2, <2>3 DEF HandshakeOutcomes
<1>4. ASSUME o \in ActiveOutcomes(x) PROVE o \in OutcomeSet
  <2>1. CASE o = Outcome("Error", 0, x)
    BY <2>1, OutcomeFacts DEF Results
  <2>2. CASE \E n \in {0, 1}, a \in {0, 1}, e \in BOOLEAN, k \in EncodedContexts(x) :
               o = Exchanged(n, a, e, k)
    <3>1. PICK n \in {0, 1}, a \in {0, 1}, e \in BOOLEAN, k \in EncodedContexts(x) :
               o = Exchanged(n, a, e, k)
      BY <2>2
    <3> DEFINE f == k.eof \/ e
               u == Mode = "Datagram" /\ a = 1
    <3>2. [k EXCEPT !.eof = f, !.plain = a, !.unread = u] \in Contexts
      <4>1. k \in Contexts /\ f \in BOOLEAN /\ u \in BOOLEAN
        BY EncodedFacts DEF Contexts
      <4> HIDE DEF f, u
      <4> QED
        BY <4>1 DEF Contexts
    <3> QED
      BY <3>1, <3>2, OutcomeFacts DEF Results, Exchanged
  <2> QED
    BY <1>4, <2>1, <2>2, ActiveCases
<1>5. ASSUME o \in ClosingOutcomes(x) PROVE o \in OutcomeSet
  <2>1. [x EXCEPT !.notified = TRUE] \in Contexts
    BY DEF Contexts
  <2>2. ASSUME NEW r \in {0, 1}
        PROVE  [x EXCEPT !.mode = "Idle", !.notified = TRUE, !.rest = r] \in Contexts
    BY DEF Contexts, CModes
  <2>3. CASE o = Outcome("Error", 0, CReset(x))
    BY <2>3, ContextFacts, OutcomeFacts DEF Results
  <2>4. CASE \E n \in {0, 1} : o = Outcome("Continue", n, [x EXCEPT !.notified = TRUE])
    BY <2>1, <2>4, OutcomeFacts DEF Results
  <2>5. CASE \E n \in {0, 1}, r \in {0, 1} :
               o = Outcome("Success", n, [x EXCEPT !.mode = "Idle", !.notified = TRUE,
                                                      !.rest = r])
    BY <2>2, <2>5, OutcomeFacts DEF Results
  <2> QED
    BY <1>5, <2>3, <2>4, <2>5 DEF ClosingOutcomes
<1> QED
  BY <1>1, <1>2, <1>3, <1>4, <1>5 DEF Outcomes

LEMMA UnannouncedType ==
  ASSUME NEW x \in Contexts, NEW k \in Unannounced(x)
  PROVE  k \in Contexts
<1>1. ASSUME NEW e \in Nat, NEW a \in {0, 1}
      PROVE  [x EXCEPT !.encoded = e, !.plain = a] \in Contexts
  BY DEF Contexts
<1>2. ASSUME NEW o \in Outcomes(x) PROVE o.c.encoded \in Nat /\ o.c.plain \in {0, 1}
  BY OutcomesType DEF OutcomeSet, Answered, Contexts
<1>3. \/ k = x
      \/ \E o \in Outcomes(x) : k = [x EXCEPT !.encoded = o.c.encoded, !.plain = o.c.plain]
  BY DEF Unannounced
<1> QED
  BY <1>1, <1>2, <1>3

------------------------------------------------------------------------------
(* Types of the handlers                                                   *)

LEMMA MachineFacts ==
  ASSUME NEW m \in Machines
  PROVE  /\ m.d \in Privates /\ m.io \in Buffers /\ m.peer \in Peers
         /\ m.c \in Contexts /\ m.sig \in Sigs
  BY DEF Machines

LEMMA ArgFacts ==
  ASSUME NEW m \in Machines
  PROVE  /\ ArgNet(m) \in Nat /\ ArgNet(m) <= m.io.from_net
         /\ ArgApp(m) \in Nat /\ ArgApp(m) <= m.io.out
  BY DEF Machines, Buffers, ArgNet, ArgApp, Taken

LEMMA UpdateType ==
  ASSUME NEW m \in Machines
  PROVE  update(m) \in Machines
<1>1. [m EXCEPT !.d.need_update = TRUE] \in Machines
      /\ [m EXCEPT !.d.need_update = FALSE] \in Machines
  BY DEF Machines, Privates
<1>2. ASSUME NEW net \in Nat, NEW app \in Nat, net <= m.io.from_net, app <= m.io.out
      PROVE  CallUpdate(m, net, app) \in Machines
  <2>1. CUpdate(m.c, net, app) \in Contexts
    BY MachineFacts, ContextFacts
  <2>2. ASSUME NEW x \in Privates
        PROVE  [x EXCEPT !.need_update = FALSE, !.maybe_input = FALSE, !.op = "update"]
                 \in Privates
    BY DEF Privates
  <2>3. ASSUME NEW x \in Buffers, NEW n \in Nat, NEW a \in Nat, NEW p \in Int
        PROVE  [x EXCEPT !.from_net = n, !.out = a, !.out_pending = p] \in Buffers
    BY DEF Buffers
  <2>4. /\ m.io.from_net - net \in Nat /\ m.io.out - app \in Nat
        /\ m.io.out_pending + app \in Int
    BY <1>2, MachineFacts DEF Buffers
  <2> DEFINE nd == [m.d EXCEPT !.need_update = FALSE, !.maybe_input = FALSE, !.op = "update"]
             nio == [m.io EXCEPT !.from_net = @ - net, !.out = @ - app,
                                 !.out_pending = @ + app]
  <2>5. nd \in Privates /\ nio \in Buffers
    BY <2>2, <2>3, <2>4, MachineFacts
  <2>6. CallUpdate(m, net, app) = [m EXCEPT !.d = nd, !.io = nio, !.c = CUpdate(m.c, net, app)]
    BY DEF CallUpdate
  <2> QED
    BY <2>1, <2>5, <2>6 DEF Machines
<1> QED
  BY <1>1, <1>2, ArgFacts DEF update

LEMMA CloseType ==
  ASSUME NEW m \in Machines
  PROVE  close(m) \in Machines
<1>1. [m EXCEPT !.d.state = "Closing", !.c = CShutdown(@)] \in Machines
  BY MachineFacts, ContextFacts DEF Machines, Privates, States
<1> QED
  BY <1>1 DEF close

LEMMA StepType ==
  ASSUME NEW m \in Machines, NEW s \in StepSignals
  PROVE  Step(m, s) \in Machines
<1>1. ASSUME NEW e \in SUBSET StepSignals
      PROVE  [m EXCEPT !.d.blocked = TRUE, !.sig = s, !.d.emitted = e] \in Machines
  BY DEF Machines, Privates, Sigs
<1>2. m.d.emitted \in SUBSET StepSignals /\ m.d.emitted \cup {s} \in SUBSET StepSignals
  BY MachineFacts DEF Privates
<1> QED
  BY <1>1, <1>2 DEF Step

LEMMA ResetType ==
  ASSUME NEW m \in Machines
  PROVE  /\ ResetSession(m) \in Machines
         /\ ResetSessionAndData(m) \in Machines
<1>1. InitPrivate \in Privates
  BY DEF InitPrivate, Privates, States
<1>2. InitBuffers \in Buffers
  BY DEF InitBuffers, Buffers
<1>3. InitPeer \in Peers
  BY DEF InitPeer, Peers, Certs
<1>4. ASSUME NEW x \in Buffers, NEW n \in Nat, NEW p \in Int
      PROVE  [x EXCEPT !.out = n, !.out_pending = p] \in Buffers
  BY DEF Buffers
<1> DEFINE nio == [m.io EXCEPT !.out = 0, !.out_pending = 0]
<1>5. nio \in Buffers
  <2>1. m.io \in Buffers /\ 0 \in Nat /\ 0 \in Int
    BY MachineFacts
  <2> QED
    BY <1>4, <2>1
<1>6. ResetSession(m) = [m EXCEPT !.c = CReset(m.c), !.d = InitPrivate, !.io = nio]
  BY MachineFacts DEF ResetSession, Machines, Buffers
<1> HIDE DEF nio
<1>7. CReset(m.c) \in Contexts
  BY MachineFacts, ContextFacts
<1>8. ResetSession(m) \in Machines
  BY <1>1, <1>5, <1>6, <1>7 DEF Machines
<1>9. ResetSessionAndData(m) \in Machines
  BY <1>1, <1>2, <1>3, <1>7 DEF ResetSessionAndData, Machines
<1> QED
  BY <1>8, <1>9

LEMMA FailedType ==
  ASSUME NEW m \in Machines, NEW e \in {"none", "Init", "Handshake", "Crypt"}
  PROVE  Failed(m, e) \in Machines
<1> DEFINE r == ResetSession(m)
<1>1. r \in Machines
  BY ResetType
<1> HIDE DEF r
<1>2. [r EXCEPT !.peer.errorCode = e, !.sig = "error"] \in Machines
  BY <1>1 DEF Machines, Peers, Sigs
<1> QED
  BY <1>2 DEF Failed, r

LEMMA PerformType ==
  ASSUME NEW m \in Machines, NEW a \in Actions
  PROVE  Perform(a, m) \in Machines
<1>1. /\ [m EXCEPT !.sig = "readyRead"] \in Machines
      /\ [m EXCEPT !.sig = "readyReadOutgoing"] \in Machines
  BY DEF Machines, Sigs
<1>2. DoHandshaken(m) \in Machines
  <2>1. ASSUME NEW n \in BOOLEAN, NEW t \in BOOLEAN
        PROVE  [m EXCEPT !.d.state = "Connected", !.d.need_update = n, !.d.trigger = t]
                 \in Machines
    BY DEF Machines, Privates, States
  <2>2. /\ m.d.need_update \/ (Mode = "Stream" /\ m.io.out > 0) \in BOOLEAN
        /\ m.d.trigger \/ (Mode = "Stream" /\ m.io.out > 0) \in BOOLEAN
    OBVIOUS
  <2> QED
    BY <2>1, StepType DEF DoHandshaken, StepSignals
<1>3. DoClose(m) \in Machines
  <2> DEFINE r == ResetSession([m EXCEPT !.io.unprocessed = m.c.rest])
  <2>1. [m EXCEPT !.io.unprocessed = m.c.rest] \in Machines
    BY MachineFacts DEF Machines, Buffers, Contexts
  <2>2. r \in Machines
    BY <2>1, ResetType
  <2> HIDE DEF r
  <2>3. [r EXCEPT !.sig = "closed"] \in Machines
    BY <2>2 DEF Machines, Sigs
  <2> QED
    BY <2>3 DEF DoClose, r
<1>4. DoCheckPeerCertificate(m) \in Machines
  <2>1. ASSUME NEW k \in Certs, NEW h \in BOOLEAN
        PROVE  [m EXCEPT !.peer.peerCert = k, !.peer.hostMismatch = h] \in Machines
    BY DEF Machines, Peers
  <2>2. m.c.cert \in Certs
    BY MachineFacts DEF Contexts
  <2> QED
    BY <2>1, <2>2, StepType DEF DoCheckPeerCertificate, StepSignals
<1>5. DoHostNameReceived(m) \in Machines
  <2> DEFINE n == [m EXCEPT !.d.emitted = @ \cup {"hostNameReceived"},
                            !.d.maybe_input = TRUE]
  <2>1. n \in Machines
    BY DEF Machines, Privates, StepSignals
  <2> HIDE DEF n
  <2>2. [n EXCEPT !.d.need_update = TRUE, !.d.trigger = TRUE] \in Machines
    BY <2>1 DEF Machines, Privates
  <2>3. Step(n, "hostNameReceived") \in Machines
    BY <2>1, StepType DEF StepSignals
  <2> QED
    BY <2>2, <2>3 DEF DoHostNameReceived, n
<1>6. Step(m, "certificateRequested") \in Machines
  BY StepType DEF StepSignals
<1> QED
  BY <1>1, <1>2, <1>3, <1>4, <1>5, <1>6 DEF Perform, Actions

LEMMA TakeFirstType ==
  ASSUME NEW m \in Machines, m.d.actionQueue # <<>>
  PROVE  TakeFirst(m) \in Machines /\ Head(m.d.actionQueue) \in Actions
<1>1. m.d.actionQueue \in Seq(Actions)
  BY MachineFacts DEF Privates
<1>2. Tail(m.d.actionQueue) \in Seq(Actions) /\ Head(m.d.actionQueue) \in Actions
  BY <1>1
<1>3. ASSUME NEW q \in Seq(Actions), NEW t \in BOOLEAN
      PROVE  [m EXCEPT !.d.actionQueue = q, !.d.trigger = t] \in Machines
  BY DEF Machines, Privates
<1> QED
  BY <1>2, <1>3 DEF TakeFirst

LEMMA NextActionType ==
  ASSUME NEW m \in Machines
  PROVE  processNextAction(m) \in Machines
  BY UpdateType, TakeFirstType, PerformType DEF processNextAction

LEMMA EnqueueType ==
  ASSUME NEW m \in Machines, NEW as \in Seq(Actions)
  PROVE  Enqueue(m, as) \in Machines
<1>0. m.d.actionQueue \in Seq(Actions)
  BY MachineFacts DEF Privates
<1>1. \A q \in Seq(Actions) : q \o as \in Seq(Actions)
  BY ConcatProperties
<1>2. ASSUME NEW q \in Seq(Actions)
      PROVE  [m EXCEPT !.d.actionQueue = q] \in Machines
  BY DEF Machines, Privates
<1> QED
  BY <1>0, <1>1, <1>2 DEF Enqueue

LEMMA WhenType ==
  ASSUME NEW b \in BOOLEAN, NEW a \in Actions
  PROVE  When(b, a) \in Seq(Actions)
  BY DEF When

LEMMA HandshakeActions ==
  ASSUME NEW b1 \in BOOLEAN, NEW b2 \in BOOLEAN, NEW b3 \in BOOLEAN, NEW b4 \in BOOLEAN
  PROVE  When(b1, "HostNameReceived") \o When(b2, "CheckPeerCertificate")
         \o When(b3, "CertificateRequested") \o When(b4, "Handshaken") \in Seq(Actions)
<1>1. /\ When(b1, "HostNameReceived") \in Seq(Actions)
      /\ When(b2, "CheckPeerCertificate") \in Seq(Actions)
      /\ When(b3, "CertificateRequested") \in Seq(Actions)
      /\ When(b4, "Handshaken") \in Seq(Actions)
  BY WhenType DEF Actions
<1> QED
  BY <1>1

LEMMA SettleType ==
  ASSUME NEW m \in Machines, NEW o \in OutcomeSet
  PROVE  Settle(m, o) \in Machines
<1>1. ASSUME NEW p \in Int, NEW e \in Int
      PROVE  /\ [m EXCEPT !.io.out_pending = p, !.io.to_net_encoded = e] \in Machines
             /\ [m EXCEPT !.io.out_pending = p] \in Machines
  BY DEF Machines, Buffers
<1>2. /\ o.toNet \in Int /\ m.io.out_pending \in Int /\ m.io.to_net_encoded \in Int
      /\ Encoded(m, o) \in Int
  BY MachineFacts DEF OutcomeSet, Encoded, Buffers, Contexts
<1>3. /\ m.io.out_pending - Encoded(m, o) \in Int /\ m.io.out_pending - o.toNet \in Int
      /\ m.io.to_net_encoded + Encoded(m, o) \in Int
  BY <1>2
<1>4. CASE Mode = "Stream"
  <2>1. CASE o.toNet > 0
    BY <1>1, <1>2, <1>3, <1>4, <2>1 DEF Settle
  <2>2. CASE ~(o.toNet > 0)
    BY <1>1, <1>2, <1>3, <1>4, <2>2 DEF Settle
  <2> QED
    BY <2>1, <2>2
<1>5. CASE Mode # "Stream"
  <2> DEFINE p == IF m.io.out_pending > o.toNet THEN m.io.out_pending - o.toNet
                  ELSE IF o.toNet > 0 THEN 0 ELSE m.io.out_pending
  <2>1. p \in Int
    BY <1>2, <1>3
  <2>2. Settle(m, o) = [m EXCEPT !.io.out_pending = p]
    BY <1>5 DEF Settle
  <2> QED
    BY <1>1, <1>2, <2>1, <2>2
<1> QED
  BY <1>4, <1>5

LEMMA HandshakingFinishedType ==
  ASSUME NEW m \in Machines, NEW o \in OutcomeSet
  PROVE  HandshakingFinished(m, o) \in Machines
<1>1. ASSUME NEW h \in BOOLEAN, NEW n \in BOOLEAN
      PROVE  [m EXCEPT !.d.host = h, !.d.need_update = n] \in Machines
  BY DEF Machines, Privates
<1>2. ASSUME NEW b1 \in BOOLEAN, NEW b2 \in BOOLEAN, NEW b3 \in BOOLEAN, NEW b4 \in BOOLEAN
      PROVE  When(b1, "HostNameReceived") \o When(b2, "CheckPeerCertificate")
             \o When(b3, "CertificateRequested") \o When(b4, "Handshaken") \in Seq(Actions)
  BY HandshakeActions
<1>3. m.c.sni \in BOOLEAN /\ m.d.host \in BOOLEAN /\ m.d.need_update \in BOOLEAN
  BY MachineFacts DEF Contexts, Privates
<1> QED
  BY <1>1, <1>2, <1>3, EnqueueType, NextActionType DEF HandshakingFinished

LEMMA ReceivedType ==
  ASSUME NEW m \in Machines
  PROVE  Received(m) \in Machines
<1>1. m.io.in + m.c.plain \in Nat
  BY MachineFacts DEF Buffers, Contexts
<1>2. ASSUME NEW n \in Nat
      PROVE  [m.io EXCEPT !.in = n] \in Buffers /\ [m.c EXCEPT !.plain = 0] \in Contexts
  BY MachineFacts DEF Buffers, Contexts
<1>3. Received(m) = [m EXCEPT !.io = [m.io EXCEPT !.in = m.io.in + m.c.plain],
                              !.c = [m.c EXCEPT !.plain = 0]]
  BY DEF Received, Machines
<1> QED
  BY <1>1, <1>2, <1>3 DEF Machines

LEMMA ReceivedFrame ==
  ASSUME NEW m \in Machines
  PROVE  /\ Received(m).d = m.d /\ Received(m).peer = m.peer /\ Received(m).sig = m.sig
         /\ Received(m).c = [m.c EXCEPT !.plain = 0]
         /\ Received(m).io = [m.io EXCEPT !.in = m.io.in + m.c.plain]
  BY DEF Received, Machines

LEMMA ConnectedFinishedType ==
  ASSUME NEW m \in Machines, NEW o \in OutcomeSet
  PROVE  ConnectedFinished(m, o) \in Machines
<1> DEFINE e == Enqueue(Received(m), When(m.c.plain > 0, "ReadyRead"))
           p == Settle(e, o)
           q == [p EXCEPT !.d.maybe_input = @ \/ p.io.out_pending > 0]
           r == IF m.c.eof THEN [close(q) EXCEPT !.d.maybe_input = TRUE] ELSE q
<1>1. Received(m) \in Machines
  BY ReceivedType
<1>2. e \in Machines
  <2>1. When(m.c.plain > 0, "ReadyRead") \in Seq(Actions)
    BY WhenType, (m.c.plain > 0) \in BOOLEAN DEF Actions
  <2> QED
    BY <1>1, <2>1, EnqueueType
<1> HIDE DEF e
<1>3. p \in Machines
  BY <1>2, SettleType
<1> HIDE DEF p
<1>4. \A x \in Machines, b \in BOOLEAN : [x EXCEPT !.d.maybe_input = b] \in Machines
  BY DEF Machines, Privates
<1>5. q \in Machines
  BY <1>3, <1>4
<1> HIDE DEF q
<1>6. r \in Machines
  BY <1>4, <1>5, CloseType
<1> HIDE DEF r
<1>7. ConnectedFinished(m, o)
        = processNextAction(IF m.c.eof \/ IoPending(p.io) THEN update(r) ELSE r)
  BY DEF ConnectedFinished, e, p, q, r
<1> QED
  BY <1>6, <1>7, UpdateType, NextActionType

LEMMA ResultsReadyType ==
  ASSUME NEW m \in Machines, NEW o \in OutcomeSet
  PROVE  tls_resultsReady(m, o) \in Machines
<1> DEFINE n == [m EXCEPT !.c = o.c, !.d.op = "none"]
           s == [n EXCEPT !.d.state = "Handshaking", !.d.maybe_input = TRUE]
           t == [n EXCEPT !.io.to_net = @ + o.toNet]
           u == Enqueue(t, When(o.toNet > 0, "ReadyReadOutgoing"))
<1>1. n \in Machines
  <2>1. o.c \in Contexts
    BY DEF OutcomeSet, Answered
  <2> QED
    BY <2>1 DEF Machines, Privates
<1> HIDE DEF n
<1>2. s \in Machines
  BY <1>1 DEF Machines, Privates, States
<1>3. t \in Machines
  <2>1. ASSUME NEW k \in Nat PROVE [n EXCEPT !.io.to_net = k] \in Machines
    BY <1>1 DEF Machines, Buffers
  <2>2. n.io.to_net + o.toNet \in Nat
    BY <1>1, MachineFacts DEF Buffers, OutcomeSet
  <2> QED
    BY <2>1, <2>2
<1>4. u \in Machines
  <2>1. When(o.toNet > 0, "ReadyReadOutgoing") \in Seq(Actions)
    BY DEF When, Actions
  <2> QED
    BY <1>3, <2>1, EnqueueType
<1>5. start_finished(n, o) \in Machines
  BY <1>1, <1>2, FailedType, UpdateType DEF start_finished
<1> HIDE DEF s, t
<1>6. ClosingFinished(u, o) \in Machines
  BY <1>4, EnqueueType, WhenType, NextActionType DEF ClosingFinished, Actions
<1> HIDE DEF u
<1>7. update_finished(n, o) \in Machines
  <2>1. \A e \in {"Handshake", "Crypt"} : Failed(n, e) \in Machines
    BY <1>1, FailedType
  <2> QED
    BY <1>4, <1>6, <2>1, HandshakingFinishedType, ConnectedFinishedType
       DEF update_finished, u, t
<1> QED
  BY <1>5, <1>7 DEF tls_resultsReady, n

LEMMA BufferType ==
  ASSUME NEW m \in Machines, NEW n \in Nat
  PROVE  /\ [m EXCEPT !.io.out = n] \in Machines
         /\ [m EXCEPT !.io.from_net = n] \in Machines
         /\ [m EXCEPT !.io.in = n] \in Machines
         /\ [m EXCEPT !.io.to_net = n, !.io.to_net_encoded = 0] \in Machines
<1>1. [m EXCEPT !.io.out = n] \in Machines
  BY DEF Machines, Buffers
<1>2. [m EXCEPT !.io.from_net = n] \in Machines
  BY DEF Machines, Buffers
<1>3. [m EXCEPT !.io.in = n] \in Machines
  BY DEF Machines, Buffers
<1>4. [m EXCEPT !.io.to_net = n, !.io.to_net_encoded = 0] \in Machines
  <2> DEFINE z == [m EXCEPT !.io.to_net_encoded = 0]
  <2>1. z \in Machines
    BY DEF Machines, Buffers
  <2>2. \A x \in Machines : [x EXCEPT !.io.to_net = n] \in Machines
    BY DEF Machines, Buffers
  <2>3. [m EXCEPT !.io.to_net = n, !.io.to_net_encoded = 0]
          = [z EXCEPT !.io.to_net = n]
    BY MachineFacts DEF Machines, Buffers
  <2> HIDE DEF z
  <2> QED
    BY <2>1, <2>2, <2>3
<1> QED
  BY <1>1, <1>2, <1>3, <1>4

LEMMA StartType ==
  ASSUME NEW m \in Machines, NEW b \in BOOLEAN, NEW h \in BOOLEAN
  PROVE  /\ start(ResetSessionAndData(m), b) \in Machines
         /\ start([ResetSessionAndData(m) EXCEPT !.d.host = h], b) \in Machines
<1>1. ASSUME NEW x \in Machines PROVE start(x, b) \in Machines
  <2>1. CStart(x.c, b) \in Contexts
    BY <1>1, MachineFacts, ContextFacts
  <2> QED
    BY <1>1, <2>1 DEF start, Machines, Privates, States
<1>2. ASSUME NEW x \in Machines PROVE [x EXCEPT !.d.host = h] \in Machines
  BY <1>2 DEF Machines, Privates
<1> QED
  BY <1>1, <1>2, ResetType

------------------------------------------------------------------------------
(* The session state survives every call and every event of the loop.      *)

LEMMA NowType ==
  ASSUME TypeOK
  PROVE  Now \in Machines
  BY DEF TypeOK, Now, Machines, Sigs

LEMMA WithType ==
  ASSUME TypeOK, NEW k \in Unannounced(c)
  PROVE  With(k) \in Machines
<1>1. Now \in Machines /\ k \in Contexts
  BY NowType, UnannouncedType DEF TypeOK
<1> QED
  BY <1>1 DEF With, Machines

LEMMA BecomeType ==
  ASSUME TypeOK, NEW m \in Machines, Become(m)
  PROVE  TypeOK'
<1>1. d' \in Privates /\ io' \in Buffers /\ peer' \in Peers /\ c' \in Contexts
      /\ sig' \in Sigs /\ conn' = conn
  BY MachineFacts DEF Become
<1> QED
  BY <1>1 DEF TypeOK

LEMMA InitTyped == Init => TypeOK
<1>1. ASSUME NEW g \in Garbage PROVE CInit(g) \in Contexts
  BY ContextAssumption DEF CInit, Contexts, CModes, NoReq, Requests, Certs
<1> QED
  BY <1>1 DEF Init, TypeOK, InitPrivate, InitBuffers, InitPeer, Privates, States,
     Buffers, Peers, Certs, Sigs

LEMMA StepTyped == TypeOK /\ [Next]_vars => TypeOK'
<1> SUFFICES ASSUME TypeOK, [Next]_vars PROVE TypeOK'
  OBVIOUS
<1>0. Now \in Machines /\ Now.d = d /\ Now.io = io
  BY NowType DEF Now
<1>1. ASSUME NEW h \in Hosts, startClient(h) PROVE TypeOK'
  BY <1>1, TLSAssumption, WithType, StartType, BecomeType DEF startClient
<1>2. CASE startServer
  BY <1>2, WithType, StartType, BecomeType DEF startServer
<1>3. CASE Reset
  BY <1>3, WithType, ResetType, BecomeType DEF Reset
<1>4. CASE continueAfterStep
  <2>1. [Now EXCEPT !.d.blocked = FALSE] \in Machines
    BY <1>0 DEF Machines, Privates
  <2> QED
    BY <2>1, <1>4, UpdateType, BecomeType DEF continueAfterStep
<1>5. CASE Close
  BY <1>0, <1>5, CloseType, UpdateType, BecomeType DEF Close
<1>6. ASSUME NEW n \in Nat
      PROVE  /\ [Now EXCEPT !.io.out = n] \in Machines
             /\ [Now EXCEPT !.io.from_net = n] \in Machines
             /\ [Now EXCEPT !.io.in = n] \in Machines
             /\ [Now EXCEPT !.io.to_net = n, !.io.to_net_encoded = 0] \in Machines
  BY <1>0, BufferType
<1>7. CASE Write
  <2>1. io.out + 1 \in Nat
    BY DEF TypeOK, Buffers
  <2> QED
    BY <1>0, <1>6, <1>7, <2>1, UpdateType, BecomeType DEF Write
<1>8. CASE WriteIncoming
  <2>1. io.from_net + 1 \in Nat
    BY DEF TypeOK, Buffers
  <2> QED
    BY <1>0, <1>6, <1>8, <2>1, UpdateType, BecomeType DEF WriteIncoming
<1>9. CASE Read
  <2>1. 0 \in Nat /\ io.in - 1 \in Nat
    BY <1>9 DEF Read, TypeOK, Buffers
  <2> QED
    BY <1>0, <1>6, <1>9, <2>1, BecomeType DEF Read
<1>10. CASE ReadOutgoing
  <2>1. 0 \in Nat /\ (Mode # "Stream" => io.to_net - 1 \in Nat)
    BY <1>10 DEF ReadOutgoing, TypeOK, Buffers
  <2> QED
    BY <1>0, <1>6, <1>10, <2>1, BecomeType DEF ReadOutgoing
<1>11. CASE ReadUnprocessed
  <2>1. [Now EXCEPT !.io.unprocessed = 0] \in Machines
    BY <1>0 DEF Machines, Buffers
  <2> QED
    BY <2>1, <1>11, BecomeType DEF ReadUnprocessed
<1>12. ASSUME NEW s \in Signals, connectNotify(s) \/ disconnectNotify(s)
       PROVE  TypeOK'
  BY <1>12 DEF connectNotify, disconnectNotify, TypeOK, Sigs
<1>13. CASE ResultsReady
  <2>1. PICK o \in Outcomes(c) : Become(tls_resultsReady(Now, o))
    BY <1>13 DEF ResultsReady
  <2>2. c \in Contexts
    BY DEF TypeOK
  <2> QED
    BY <1>0, <2>1, <2>2, OutcomesType, ResultsReadyType, BecomeType
<1>14. CASE ResultsUnannounced
  <2>1. PICK o \in Outcomes(c) :
           c' = o.c /\ sig' = "none" /\ UNCHANGED <<d, io, peer, conn>>
    BY <1>14 DEF ResultsUnannounced
  <2>2. c' \in Contexts
    <3>1. o \in OutcomeSet
      BY OutcomesType DEF TypeOK
    <3> QED
      BY <2>1, <3>1 DEF OutcomeSet, Answered
  <2> QED
    BY <2>1, <2>2 DEF TypeOK, Sigs
<1>15. CASE doNextAction
  <2>1. [Now EXCEPT !.d.trigger = FALSE] \in Machines
    BY <1>0 DEF Machines, Privates
  <2> QED
    BY <2>1, <1>15, NextActionType, BecomeType DEF doNextAction
<1>16. CASE tls_dtlsTimeout
  <2>1. [Now EXCEPT !.d.maybe_input = TRUE] \in Machines
    BY <1>0 DEF Machines, Privates
  <2> QED
    BY <2>1, <1>16, UpdateType, BecomeType DEF tls_dtlsTimeout
<1>17. CASE UNCHANGED vars
  BY <1>17 DEF vars, TypeOK
<1> QED
  BY <1>1, <1>2, <1>3, <1>4, <1>5, <1>7, <1>8, <1>9, <1>10, <1>11, <1>12, <1>13,
     <1>14, <1>15, <1>16, <1>17 DEF Next

(* The machine after a step is the one its handler computes: typed whatever *)
(* the application, the network and the provider do.                       *)
THEOREM TypeCorrect == Spec => []TypeOK
  BY InitTyped, StepTyped, PTL DEF Spec

------------------------------------------------------------------------------
(***************************************************************************)
(* The protocol between TLS and the provider.  Sound is inductive; between *)
(* the delivery of a completion and the next call of the provider a        *)
(* handler works on a Calm machine.                                        *)
(***************************************************************************)
Sound(m) ==
    /\ m.c.req.kind # "none" => m.d.op = m.c.req.kind
    /\ m.d.op # "none" => m.d.actionQueue = <<>> /\ ~m.d.blocked

Calm(m) == m.d.op = "none" /\ m.c.req.kind = "none"

LEMMA UpdateSound ==
  ASSUME NEW m \in Machines, Sound(m)
  PROVE  Sound(update(m))
<1>1. \A b \in BOOLEAN : Sound([m EXCEPT !.d.need_update = b])
  BY DEF Sound, Machines, Privates
<1>2. ASSUME ~m.d.blocked, m.d.actionQueue = <<>>, NEW n, NEW a
      PROVE  Sound(CallUpdate(m, n, a))
  <2>1. CUpdate(m.c, n, a).req.kind = "update"
    BY MachineFacts DEF CUpdate, Contexts
  <2>2. CallUpdate(m, n, a).c = CUpdate(m.c, n, a)
    BY DEF CallUpdate, Machines
  <2>3. /\ CallUpdate(m, n, a).d.op = "update"
        /\ CallUpdate(m, n, a).d.actionQueue = <<>>
        /\ CallUpdate(m, n, a).d.blocked = FALSE
    BY <1>2 DEF CallUpdate, Machines, Privates
  <2> QED
    BY <2>1, <2>2, <2>3 DEF Sound
<1> QED
  BY <1>1, <1>2 DEF update

LEMMA CloseFrame ==
  ASSUME NEW m \in Machines
  PROVE  /\ close(m).c.req = m.c.req /\ close(m).d.op = m.d.op
         /\ close(m).d.actionQueue = m.d.actionQueue
         /\ close(m).d.blocked = m.d.blocked
<1>1. CShutdown(m.c).req = m.c.req
  BY MachineFacts DEF CShutdown, Contexts
<1> QED
  BY <1>1 DEF close, Machines, Privates

LEMMA StepCalm ==
  ASSUME NEW m \in Machines, NEW s \in StepSignals, Calm(m)
  PROVE  Calm(Step(m, s))
  BY DEF Calm, Step, Machines, Privates

LEMMA ResetCalm ==
  ASSUME NEW m \in Machines
  PROVE  Calm(ResetSession(m)) /\ Calm(ResetSessionAndData(m))
<1>1. CReset(m.c).req.kind = "none"
  BY DEF CReset, CInit, NoReq
<1> QED
  BY <1>1 DEF Calm, ResetSession, ResetSessionAndData, Machines, InitPrivate

LEMMA PerformCalm ==
  ASSUME NEW m \in Machines, NEW a \in Actions, Calm(m)
  PROVE  Calm(Perform(a, m))
<1>1. Calm([m EXCEPT !.sig = "readyRead"]) /\ Calm([m EXCEPT !.sig = "readyReadOutgoing"])
  BY DEF Calm, Machines
<1>2. Calm(DoHandshaken(m))
  <2> DEFINE n == [m EXCEPT !.d.state = "Connected",
                            !.d.need_update = @ \/ (Mode = "Stream" /\ m.io.out > 0),
                            !.d.trigger = @ \/ (Mode = "Stream" /\ m.io.out > 0)]
  <2>1. n \in Machines
    <3>1. ASSUME NEW b \in BOOLEAN, NEW t \in BOOLEAN
          PROVE  [m EXCEPT !.d.state = "Connected", !.d.need_update = b, !.d.trigger = t]
                   \in Machines
      BY DEF Machines, Privates, States
    <3> QED
      BY <3>1
  <2>2. Calm(n)
    BY DEF Calm, Machines, Privates
  <2>3. DoHandshaken(m) = Step(n, "handshaken")
    BY DEF DoHandshaken
  <2> HIDE DEF n
  <2> QED
    BY <2>1, <2>2, <2>3, StepCalm DEF StepSignals
<1>3. Calm(DoClose(m))
  <2> DEFINE r == ResetSession([m EXCEPT !.io.unprocessed = m.c.rest])
  <2>1. [m EXCEPT !.io.unprocessed = m.c.rest] \in Machines
    BY MachineFacts DEF Machines, Buffers, Contexts
  <2>2. r \in Machines /\ Calm(r)
    BY <2>1, ResetType, ResetCalm
  <2> HIDE DEF r
  <2>3. Calm([r EXCEPT !.sig = "closed"])
    BY <2>2 DEF Machines, Calm
  <2> QED
    BY <2>3 DEF DoClose, r
<1>4. Calm(DoCheckPeerCertificate(m))
  <2> DEFINE n == [m EXCEPT !.peer.peerCert = m.c.cert,
                            !.peer.hostMismatch = @ \/ (m.c.cert = "other" /\ m.d.host)]
  <2>1. n \in Machines
    <3>1. ASSUME NEW k \in Certs, NEW h \in BOOLEAN
          PROVE  [m EXCEPT !.peer.peerCert = k, !.peer.hostMismatch = h] \in Machines
      BY DEF Machines, Peers
    <3>2. m.c.cert \in Certs
      BY MachineFacts DEF Contexts
    <3> QED
      BY <3>1, <3>2
  <2>2. Calm(n)
    BY DEF Calm, Machines
  <2>3. DoCheckPeerCertificate(m) = Step(n, "peerCertificateAvailable")
    BY DEF DoCheckPeerCertificate
  <2> HIDE DEF n
  <2> QED
    BY <2>1, <2>2, <2>3, StepCalm DEF StepSignals
<1>5. Calm(DoHostNameReceived(m))
  <2> DEFINE n == [m EXCEPT !.d.emitted = @ \cup {"hostNameReceived"},
                            !.d.maybe_input = TRUE]
  <2>1. n \in Machines
    BY DEF Machines, Privates, StepSignals
  <2>2. Calm(n)
    BY DEF Calm, Machines, Privates
  <2> HIDE DEF n
  <2>3. Calm([n EXCEPT !.d.need_update = TRUE, !.d.trigger = TRUE])
    BY <2>1, <2>2 DEF Calm, Machines, Privates
  <2>4. Calm(Step(n, "hostNameReceived"))
    BY <2>1, <2>2, StepCalm DEF StepSignals
  <2> QED
    BY <2>3, <2>4 DEF DoHostNameReceived, n
<1>6. Calm(Step(m, "certificateRequested"))
  BY StepCalm DEF StepSignals
<1> QED
  BY <1>1, <1>2, <1>3, <1>4, <1>5, <1>6 DEF Perform, Actions

LEMMA CalmSound ==
  ASSUME NEW m \in Machines, Calm(m)
  PROVE  Sound(m)
  BY DEF Calm, Sound

LEMMA NextActionSound ==
  ASSUME NEW m \in Machines, Sound(m)
  PROVE  Sound(processNextAction(m))
<1>1. CASE m.d.actionQueue = <<>>
  BY <1>1, UpdateSound DEF processNextAction
<1>2. CASE m.d.actionQueue # <<>>
  <2>1. Calm(m)
    BY <1>2 DEF Sound, Calm
  <2>2. Calm(TakeFirst(m))
    BY <2>1 DEF Calm, TakeFirst, Machines, Privates
  <2>3. TakeFirst(m) \in Machines /\ Head(m.d.actionQueue) \in Actions
    BY <1>2, TakeFirstType
  <2>4. Calm(Perform(Head(m.d.actionQueue), TakeFirst(m)))
    BY <2>2, <2>3, PerformCalm
  <2> QED
    BY <1>2, <2>3, <2>4, PerformType, CalmSound DEF processNextAction
<1> QED
  BY <1>1, <1>2

LEMMA EnqueueCalm ==
  ASSUME NEW m \in Machines, NEW as \in Seq(Actions), Calm(m)
  PROVE  Calm(Enqueue(m, as))
  BY DEF Calm, Enqueue, Machines, Privates

LEMMA SettleCalm ==
  ASSUME NEW m \in Machines, NEW o \in OutcomeSet, Calm(m)
  PROVE  Calm(Settle(m, o))
<1>1. ASSUME NEW p, NEW e
      PROVE  /\ Calm([m EXCEPT !.io.out_pending = p, !.io.to_net_encoded = e])
             /\ Calm([m EXCEPT !.io.out_pending = p])
  BY DEF Calm, Machines
<1> QED
  BY <1>1 DEF Settle

LEMMA HandshakingFinishedSound ==
  ASSUME NEW m \in Machines, NEW o \in OutcomeSet, Calm(m)
  PROVE  Sound(HandshakingFinished(m, o))
<1>1. ASSUME NEW h \in BOOLEAN, NEW n \in BOOLEAN
      PROVE  /\ [m EXCEPT !.d.host = h, !.d.need_update = n] \in Machines
             /\ Calm([m EXCEPT !.d.host = h, !.d.need_update = n])
  BY DEF Machines, Privates, Calm
<1>2. ASSUME NEW b1 \in BOOLEAN, NEW b2 \in BOOLEAN, NEW b3 \in BOOLEAN, NEW b4 \in BOOLEAN
      PROVE  When(b1, "HostNameReceived") \o When(b2, "CheckPeerCertificate")
             \o When(b3, "CertificateRequested") \o When(b4, "Handshaken") \in Seq(Actions)
  BY HandshakeActions
<1>3. m.c.sni \in BOOLEAN /\ m.d.host \in BOOLEAN /\ m.d.need_update \in BOOLEAN
  BY MachineFacts DEF Contexts, Privates
<1>4. \A x \in Machines, as \in Seq(Actions) :
        Calm(x) => Sound(processNextAction(Enqueue(x, as)))
  BY EnqueueType, EnqueueCalm, CalmSound, NextActionSound
<1> QED
  BY <1>1, <1>2, <1>3, <1>4 DEF HandshakingFinished

LEMMA ConnectedFinishedSound ==
  ASSUME NEW m \in Machines, NEW o \in OutcomeSet, Calm(m)
  PROVE  Sound(ConnectedFinished(m, o))
<1> DEFINE i == Received(m)
           e == Enqueue(i, When(m.c.plain > 0, "ReadyRead"))
           p == Settle(e, o)
           q == [p EXCEPT !.d.maybe_input = @ \/ p.io.out_pending > 0]
           r == IF m.c.eof THEN [close(q) EXCEPT !.d.maybe_input = TRUE] ELSE q
<1>1. i \in Machines /\ Calm(i)
  <2>1. [m.c EXCEPT !.plain = 0].req = m.c.req
    BY MachineFacts DEF Contexts
  <2> QED
    BY <2>1, ReceivedType, ReceivedFrame DEF Calm
<1> HIDE DEF i
<1>2. e \in Machines /\ Calm(e)
  <2>1. When(m.c.plain > 0, "ReadyRead") \in Seq(Actions)
    BY WhenType, (m.c.plain > 0) \in BOOLEAN DEF Actions
  <2> QED
    BY <1>1, <2>1, EnqueueType, EnqueueCalm
<1> HIDE DEF e
<1>3. p \in Machines /\ Calm(p)
  BY <1>2, SettleType, SettleCalm
<1> HIDE DEF p
<1>4. ASSUME NEW x \in Machines, NEW b \in BOOLEAN, Calm(x)
      PROVE  /\ [x EXCEPT !.d.maybe_input = b] \in Machines
             /\ Calm([x EXCEPT !.d.maybe_input = b])
  BY <1>4 DEF Machines, Privates, Calm
<1>5. q \in Machines /\ Calm(q)
  BY <1>3, <1>4
<1> HIDE DEF q
<1>6. r \in Machines /\ Calm(r)
  <2>1. close(q) \in Machines /\ Calm(close(q))
    BY <1>5, CloseType, CloseFrame DEF Calm
  <2> QED
    BY <1>4, <1>5, <2>1
<1> HIDE DEF r
<1>7. ConnectedFinished(m, o)
        = processNextAction(IF m.c.eof \/ IoPending(p.io) THEN update(r) ELSE r)
  BY DEF ConnectedFinished, i, e, p, q, r
<1>8. Sound(r)
  BY <1>6, CalmSound
<1> QED
  BY <1>6, <1>7, <1>8, UpdateType, UpdateSound, NextActionSound

LEMMA ResultsReadySound ==
  ASSUME NEW m \in Machines, NEW o \in OutcomeSet
  PROVE  Sound(tls_resultsReady(m, o))
<1> DEFINE n == [m EXCEPT !.c = o.c, !.d.op = "none"]
           s == [n EXCEPT !.d.state = "Handshaking", !.d.maybe_input = TRUE]
           t == [n EXCEPT !.io.to_net = @ + o.toNet]
           u == Enqueue(t, When(o.toNet > 0, "ReadyReadOutgoing"))
<1>1. n \in Machines /\ Calm(n)
  <2>1. o.c \in Contexts /\ o.c.req.kind = "none"
    BY DEF OutcomeSet, Answered
  <2> QED
    BY <2>1 DEF Machines, Privates, Calm
<1> HIDE DEF n
<1>2. s \in Machines /\ Calm(s)
  BY <1>1 DEF Machines, Privates, States, Calm
<1>3. t \in Machines /\ Calm(t)
  <2>1. ASSUME NEW k \in Nat
        PROVE  [n EXCEPT !.io.to_net = k] \in Machines /\ Calm([n EXCEPT !.io.to_net = k])
    BY <1>1 DEF Machines, Buffers, Calm
  <2>2. n.io.to_net + o.toNet \in Nat
    BY <1>1, MachineFacts DEF Buffers, OutcomeSet
  <2> QED
    BY <2>1, <2>2
<1> HIDE DEF s, t
<1>4. u \in Machines /\ Calm(u)
  <2>1. When(o.toNet > 0, "ReadyReadOutgoing") \in Seq(Actions)
    BY WhenType, (o.toNet > 0) \in BOOLEAN DEF Actions
  <2> QED
    BY <1>3, <2>1, EnqueueType, EnqueueCalm
<1> HIDE DEF u
<1>5. ASSUME NEW x
      PROVE  Sound(Failed(n, x))
  <2> DEFINE r == ResetSession(n)
  <2>1. r \in Machines /\ Calm(r)
    BY <1>1, ResetType, ResetCalm
  <2> HIDE DEF r
  <2>2. Sound([r EXCEPT !.peer.errorCode = x, !.sig = "error"])
    BY <2>1 DEF Calm, Sound, Machines
  <2> QED
    BY <2>2 DEF Failed, r
<1>6. Sound(start_finished(n, o))
  BY <1>2, <1>5, CalmSound, UpdateSound DEF start_finished, s
<1>7. Sound(ClosingFinished(u, o))
  <2>1. When(o.res = "Success", "Close") \in Seq(Actions)
    BY WhenType, (o.res = "Success") \in BOOLEAN DEF Actions
  <2> QED
    BY <1>4, <2>1, EnqueueType, EnqueueCalm, CalmSound, NextActionSound DEF ClosingFinished
<1>8. Sound(update_finished(n, o))
  BY <1>4, <1>5, <1>7, HandshakingFinishedSound, ConnectedFinishedSound
     DEF update_finished, u, t
<1> QED
  BY <1>6, <1>8 DEF tls_resultsReady, n

LEMMA NowSound ==
  Sound(Now) <=> ResultsExpected /\ QuietDuringOp
  BY DEF Sound, Now, ResultsExpected, QuietDuringOp

LEMMA BecomeSound ==
  ASSUME NEW m \in Machines, Sound(m), Become(m)
  PROVE  (ResultsExpected /\ QuietDuringOp)'
  BY DEF Become, Sound, ResultsExpected, QuietDuringOp

LEMMA StepSound ==
  ASSUME TypeOK, ResultsExpected /\ QuietDuringOp, [Next]_vars
  PROVE  (ResultsExpected /\ QuietDuringOp)'
<1>0. Now \in Machines /\ Now.d = d /\ Now.io = io /\ Sound(Now)
  BY NowType, NowSound DEF Now
<1>1. ASSUME NEW m \in Machines, NEW b \in BOOLEAN, NEW h \in BOOLEAN
      PROVE  /\ Sound(start(ResetSessionAndData(m), b))
             /\ Sound(start([ResetSessionAndData(m) EXCEPT !.d.host = h], b))
  <2>1. ASSUME NEW x \in Machines, x.d.actionQueue = <<>>, ~x.d.blocked
        PROVE  Sound(start(x, b))
    <3>1. CStart(x.c, b).req.kind = "start"
      BY <2>1, MachineFacts DEF CStart, Contexts
    <3> QED
      BY <2>1, <3>1 DEF Sound, start, Machines, Privates
  <2> DEFINE r == ResetSessionAndData(m)
  <2>2. r \in Machines
    BY ResetType
  <2>3. r.d = InitPrivate
    BY DEF ResetSessionAndData, Machines
  <2> HIDE DEF r
  <2>4. r.d.actionQueue = <<>> /\ ~r.d.blocked
    BY <2>3 DEF InitPrivate
  <2>5. ASSUME NEW x \in Machines
        PROVE  /\ [x EXCEPT !.d.host = h] \in Machines
               /\ [x EXCEPT !.d.host = h].d.actionQueue = x.d.actionQueue
               /\ [x EXCEPT !.d.host = h].d.blocked = x.d.blocked
    BY <2>5 DEF Machines, Privates
  <2> QED
    BY <2>1, <2>2, <2>5, <2>4 DEF r
<1>2. ASSUME NEW h \in Hosts, startClient(h)
      PROVE  (ResultsExpected /\ QuietDuringOp)'
  BY <1>1, <1>2, TLSAssumption, WithType, StartType, BecomeSound DEF startClient
<1>3. CASE startServer
  BY <1>1, <1>3, WithType, StartType, BecomeSound DEF startServer
<1>4. CASE Reset
  BY <1>4, WithType, ResetType, ResetCalm, CalmSound, BecomeSound DEF Reset
<1>5. CASE continueAfterStep
  <2> DEFINE n == [Now EXCEPT !.d.blocked = FALSE]
  <2>1. n \in Machines /\ Sound(n)
    BY <1>0 DEF Machines, Privates, Sound
  <2> HIDE DEF n
  <2> QED
    BY <1>5, <2>1, UpdateType, UpdateSound, BecomeSound DEF continueAfterStep, n
<1>6. CASE Close
  <2>1. close(Now) \in Machines /\ Sound(close(Now))
    BY <1>0, CloseType, CloseFrame DEF Sound
  <2> QED
    BY <1>6, <2>1, UpdateType, UpdateSound, BecomeSound DEF Close
<1>7. ASSUME NEW n \in Nat
      PROVE  /\ Sound([Now EXCEPT !.io.out = n])
             /\ Sound([Now EXCEPT !.io.from_net = n])
             /\ Sound([Now EXCEPT !.io.in = n])
             /\ Sound([Now EXCEPT !.io.to_net = n, !.io.to_net_encoded = 0])
             /\ Sound([Now EXCEPT !.io.unprocessed = 0])
  BY <1>0 DEF Sound, Machines
<1>8. CASE Write
  <2>1. io.out + 1 \in Nat
    BY DEF TypeOK, Buffers
  <2> QED
    BY <1>0, <1>7, <1>8, <2>1, BufferType, UpdateType, UpdateSound, BecomeSound DEF Write
<1>9. CASE WriteIncoming
  <2>1. io.from_net + 1 \in Nat
    BY DEF TypeOK, Buffers
  <2> QED
    BY <1>0, <1>7, <1>9, <2>1, BufferType, UpdateType, UpdateSound, BecomeSound
       DEF WriteIncoming
<1>10. CASE \/ Read \/ ReadOutgoing \/ ReadUnprocessed
            \/ \E s \in Signals : connectNotify(s) \/ disconnectNotify(s)
            \/ UNCHANGED vars
  <2>1. d' = d /\ c' = c
    BY <1>0, <1>10 DEF Read, ReadOutgoing, ReadUnprocessed, connectNotify,
       disconnectNotify, vars, Become, Now
  <2> QED
    BY <2>1 DEF ResultsExpected, QuietDuringOp
<1>11. CASE ResultsReady
  <2>1. PICK o \in Outcomes(c) : Become(tls_resultsReady(Now, o))
    BY <1>11 DEF ResultsReady
  <2>2. o \in OutcomeSet
    BY OutcomesType DEF TypeOK
  <2> QED
    BY <1>0, <2>1, <2>2, ResultsReadyType, ResultsReadySound, BecomeSound
<1>12. CASE ResultsUnannounced
  <2>1. PICK o \in Outcomes(c) :
           c' = o.c /\ sig' = "none" /\ UNCHANGED <<d, io, peer, conn>>
    BY <1>12 DEF ResultsUnannounced
  <2>2. o.c.req.kind = "none"
    <3>1. o \in OutcomeSet
      BY OutcomesType DEF TypeOK
    <3> QED
      BY <3>1 DEF OutcomeSet, Answered
  <2> QED
    BY <2>1, <2>2 DEF ResultsExpected, QuietDuringOp
<1>13. CASE doNextAction
  <2> DEFINE n == [Now EXCEPT !.d.trigger = FALSE]
  <2>1. n \in Machines /\ Sound(n)
    BY <1>0 DEF Machines, Privates, Sound
  <2> HIDE DEF n
  <2> QED
    BY <1>13, <2>1, NextActionType, NextActionSound, BecomeSound DEF doNextAction, n
<1>14. CASE tls_dtlsTimeout
  <2> DEFINE n == [Now EXCEPT !.d.maybe_input = TRUE]
  <2>1. n \in Machines /\ Sound(n)
    BY <1>0 DEF Machines, Privates, Sound
  <2> HIDE DEF n
  <2> QED
    BY <1>14, <2>1, UpdateType, UpdateSound, BecomeSound DEF tls_dtlsTimeout, n
<1> QED
  BY <1>2, <1>3, <1>4, <1>5, <1>6, <1>8, <1>9, <1>10, <1>11, <1>12, <1>13, <1>14 DEF Next

(* The Q_ASSERT of tls_resultsReady() never fails: no completion outlives  *)
(* the operation TLS waits for, whatever the application does meanwhile.   *)
THEOREM ResultsAreExpected == Spec => []ResultsExpected
<1>1. Init => ResultsExpected /\ QuietDuringOp
  BY DEF Init, InitPrivate, CInit, NoReq, ResultsExpected, QuietDuringOp
<1> QED
  BY <1>1, StepSound, TypeCorrect, PTL DEF Spec

(* The provider never runs while signals wait for the application or the   *)
(* application holds the session.                                          *)
THEOREM ProviderIsQuiet == Spec => []QuietDuringOp
<1>1. Init => ResultsExpected /\ QuietDuringOp
  BY DEF Init, InitPrivate, CInit, NoReq, ResultsExpected, QuietDuringOp
<1> QED
  BY <1>1, StepSound, TypeCorrect, PTL DEF Spec

------------------------------------------------------------------------------
(* TLS implements SecureSession: the signals of a session come in order    *)

(* What may wait in each state of the session.  Handshaken is the last     *)
(* signal of the handshake.                                                *)
Steps == {"ReadyReadOutgoing", "HostNameReceived", "CheckPeerCertificate",
          "CertificateRequested"}

Negotiating(q) ==
    \A i \in 1..Len(q) : q[i] \in Steps \/ (q[i] = "Handshaken" /\ i = Len(q))

Transferring(q) == \A i \in 1..Len(q) : q[i] \in {"ReadyRead", "ReadyReadOutgoing"}

Ending(q) == \A i \in 1..Len(q) : q[i] \in {"ReadyRead", "ReadyReadOutgoing", "Close"}

(* A provider that has no session: an update() finds it idle *)
Dormant(x) ==
    /\ x.mode = "Idle" /\ ~x.eof
    /\ x.req.kind = "none" \/ (x.req.kind = "update" /\ x.req.mode = "Idle")

Queue(D) ==
    /\ D.state \in {"Inactive", "Initializing"} => D.actionQueue = <<>>
    /\ D.state = "Handshaking" => Negotiating(D.actionQueue)
    /\ D.state = "Connected" => Transferring(D.actionQueue)
    /\ D.state = "Closing" => Ending(D.actionQueue)

Has(q, a) == \E i \in 1..Len(q) : q[i] = a

(* The provider decodes data for an open session only: TLS has seen the    *)
(* end of the handshake, or handshaken() is on its way.                    *)
Keyed(D, x) ==
    /\ x.mode = "Active" => \/ D.state \in {"Connected", "Closing"}
                            \/ D.state = "Handshaking" /\ Has(D.actionQueue, "Handshaken")
    /\ x.req.kind = "update" /\ x.req.mode = "Active" => D.state \in {"Connected", "Closing"}

Shape(m) ==
    /\ Queue(m.d)
    /\ m.d.op = "start" <=> m.d.state = "Initializing"
    /\ m.d.state = "Inactive" => Dormant(m.c)
    /\ Keyed(m.d, m.c)

SInv == TypeOK /\ Sound(Now) /\ Shape(Now)

(* What a step from state s to state t may tell the application with the   *)
(* signal g: the steps of SecureSession, without its phases.               *)
Allowed(s, t, g) ==
    \/ g = "none" /\ t \in {s, "Inactive", "Initializing"}
    \/ g = "none" /\ s = "Initializing" /\ t = "Handshaking"
    \/ s = "Handshaking" /\ t = s /\ g \in {"hostNameReceived", "certificateRequested",
                                            "peerCertificateAvailable", "readyReadOutgoing"}
    \/ s = "Handshaking" /\ t = "Connected" /\ g \in {"handshaken", "none"}
    \/ s \in {"Connected", "Closing"} /\ t = s /\ g \in {"readyRead", "readyReadOutgoing"}
    \/ s = "Connected" /\ t = "Closing" /\ g \in {"readyRead", "readyReadOutgoing", "none"}
    \/ s = "Closing" /\ t = "Inactive" /\ g = "closed"
    \/ s # "Inactive" /\ t = "Inactive" /\ g = "error"

(* The members that Shape looks at *)
Frame(n, m) ==
    n.d.state = m.d.state /\ n.d.actionQueue = m.d.actionQueue /\ n.d.op = m.d.op /\ n.c = m.c

LEMMA FrameShape ==
  ASSUME NEW m, NEW n, Shape(m), Frame(n, m)
  PROVE  Shape(n)
  BY DEF Shape, Frame, Queue, Keyed

LEMMA EmptyHas ==
  ASSUME NEW a
  PROVE  ~Has(<<>>, a)
  BY DEF Has

------------------------------------------------------------------------------
(* What the handlers do to the state, the queue and the signal             *)

LEMMA FieldFrame ==
  ASSUME NEW m \in Machines, NEW b
  PROVE  /\ Frame([m EXCEPT !.d.need_update = b], m) /\ [m EXCEPT !.d.need_update = b].sig = m.sig
         /\ Frame([m EXCEPT !.d.maybe_input = b], m) /\ [m EXCEPT !.d.maybe_input = b].sig = m.sig
         /\ Frame([m EXCEPT !.d.blocked = b], m) /\ [m EXCEPT !.d.blocked = b].sig = m.sig
         /\ Frame([m EXCEPT !.d.trigger = b], m) /\ [m EXCEPT !.d.trigger = b].sig = m.sig
         /\ Frame([m EXCEPT !.io.in = b], m) /\ [m EXCEPT !.io.in = b].sig = m.sig
         /\ Frame([m EXCEPT !.io.out = b], m) /\ [m EXCEPT !.io.out = b].sig = m.sig
         /\ Frame([m EXCEPT !.io.from_net = b], m) /\ [m EXCEPT !.io.from_net = b].sig = m.sig
  BY DEF Frame, Machines, Privates

LEMMA UpdateFrame ==
  ASSUME NEW m \in Machines
  PROVE  LET n == update(m)
         IN /\ n.d.state = m.d.state /\ n.d.actionQueue = m.d.actionQueue /\ n.sig = m.sig
            /\ \/ n.d.op = m.d.op /\ n.c = m.c
               \/ /\ m.d.op = "none" /\ m.d.actionQueue = <<>> /\ ~m.d.blocked
                  /\ n.d.op = "update" /\ n.c.mode = m.c.mode
                  /\ n.c.eof = m.c.eof /\ n.c.req.kind = "update" /\ n.c.req.mode = m.c.mode
<1>1. ASSUME NEW net \in Nat, NEW app \in Nat
      PROVE  LET n == CallUpdate(m, net, app)
             IN /\ n.d.state = m.d.state /\ n.d.actionQueue = m.d.actionQueue /\ n.sig = m.sig
                /\ n.d.op = "update" /\ n.c.mode = m.c.mode
                /\ n.c.eof = m.c.eof /\ n.c.req.kind = "update" /\ n.c.req.mode = m.c.mode
  <2> DEFINE n == CallUpdate(m, net, app)
             C == CUpdate(m.c, net, app)
  <2>1. C.mode = m.c.mode /\ C.eof = m.c.eof /\ C.req.kind = "update" /\ C.req.mode = m.c.mode
    BY MachineFacts DEF CUpdate, Contexts
  <2>2. n.c = C /\ n.sig = m.sig
    BY DEF CallUpdate, Machines
  <2>3. n.d.state = m.d.state /\ n.d.actionQueue = m.d.actionQueue /\ n.d.op = "update"
    BY MachineFacts DEF CallUpdate, Machines, Privates
  <2> HIDE DEF n, C
  <2> QED
    BY <2>1, <2>2, <2>3 DEF n
<1>2. CASE update(m) = m
  BY <1>2
<1>3. CASE \E b \in BOOLEAN : update(m) = [m EXCEPT !.d.need_update = b]
  <2>1. PICK b \in BOOLEAN : update(m) = [m EXCEPT !.d.need_update = b]
    BY <1>3
  <2> DEFINE n == [m EXCEPT !.d.need_update = b]
  <2>2. Frame(n, m) /\ n.sig = m.sig
    BY FieldFrame
  <2> HIDE DEF n
  <2> QED
    BY <2>1, <2>2 DEF Frame, n
<1>4. CASE /\ m.d.op = "none" /\ m.d.actionQueue = <<>> /\ ~m.d.blocked
           /\ \E net, app \in Nat : update(m) = CallUpdate(m, net, app)
  BY <1>1, <1>4
<1> QED
  BY <1>2, <1>3, <1>4, ArgFacts DEF update

LEMMA UpdateShape ==
  ASSUME NEW m \in Machines, Shape(m)
  PROVE  Shape(update(m))
<1> DEFINE n == update(m)
<1>1. /\ n.d.state = m.d.state /\ n.d.actionQueue = m.d.actionQueue
      /\ \/ n.d.op = m.d.op /\ n.c = m.c
         \/ /\ m.d.op = "none" /\ m.d.actionQueue = <<>>
            /\ n.d.op = "update" /\ n.c.mode = m.c.mode
            /\ n.c.eof = m.c.eof /\ n.c.req.kind = "update" /\ n.c.req.mode = m.c.mode
  BY UpdateFrame
<1> HIDE DEF n
<1>2. Keyed(n.d, n.c)
  BY <1>1, EmptyHas DEF Shape, Keyed
<1>3. Shape(n)
  BY <1>1, <1>2 DEF Shape, Queue, Dormant
<1> QED
  BY <1>3 DEF n

LEMMA StepFrame ==
  ASSUME NEW m \in Machines, NEW s \in StepSignals
  PROVE  Frame(Step(m, s), m) /\ Step(m, s).sig \in {m.sig, s}
<1>1. CASE s \notin conn
  BY <1>1 DEF Step, Frame
<1>2. CASE s \in conn
  <2> DEFINE e == IF s = "handshaken" THEN m.d.emitted ELSE m.d.emitted \cup {s}
             n == [m EXCEPT !.d.blocked = TRUE, !.sig = s, !.d.emitted = e]
  <2>1. Step(m, s) = n
    BY <1>2 DEF Step, Machines, Privates
  <2> HIDE DEF e
  <2>2. Frame(n, m) /\ n.sig = s
    BY DEF Frame, Machines, Privates
  <2> QED
    BY <2>1, <2>2
<1> QED
  BY <1>1, <1>2

LEMMA ResetShape ==
  ASSUME NEW m \in Machines
  PROVE  /\ Shape(ResetSession(m)) /\ ResetSession(m).d.state = "Inactive"
         /\ Shape(ResetSessionAndData(m)) /\ ResetSessionAndData(m).d.state = "Inactive"
         /\ ResetSessionAndData(m).sig = m.sig /\ ResetSessionAndData(m).d = InitPrivate
         /\ ResetSessionAndData(m).c.mode = "Idle"
<1>1. Dormant(CReset(m.c)) /\ CReset(m.c).mode = "Idle"
  BY DEF CReset, CInit, NoReq, Dormant
<1>2. ASSUME NEW n, n.d = InitPrivate, n.c = CReset(m.c)
      PROVE  Shape(n) /\ n.d.state = "Inactive"
  <2>1. Keyed(n.d, n.c)
    BY <1>2 DEF Keyed, CReset, CInit, NoReq
  <2> QED
    BY <1>1, <1>2, <2>1 DEF Shape, Queue, InitPrivate
<1>3. ResetSession(m).d = InitPrivate /\ ResetSession(m).c = CReset(m.c)
  BY DEF ResetSession, Machines
<1>4. ResetSessionAndData(m).d = InitPrivate /\ ResetSessionAndData(m).c = CReset(m.c)
      /\ ResetSessionAndData(m).sig = m.sig
  BY DEF ResetSessionAndData, Machines
<1> QED
  BY <1>1, <1>2, <1>3, <1>4

LEMMA ClosedResult ==
  ASSUME NEW m \in Machines
  PROVE  Shape(DoClose(m)) /\ DoClose(m).d.state = "Inactive" /\ DoClose(m).sig = "closed"
<1> DEFINE k == [m EXCEPT !.io.unprocessed = m.c.rest]
           r == ResetSession(k)
<1>1. k \in Machines
  BY MachineFacts DEF Machines, Buffers, Contexts
<1> HIDE DEF k
<1>2. Shape(r) /\ r.d.state = "Inactive" /\ r \in Machines
  BY <1>1, ResetShape, ResetType
<1> HIDE DEF r
<1>3. Frame([r EXCEPT !.sig = "closed"], r) /\ [r EXCEPT !.sig = "closed"].sig = "closed"
  BY <1>2 DEF Frame, Machines
<1>4. DoClose(m) = [r EXCEPT !.sig = "closed"]
  BY DEF DoClose, r, k
<1> QED
  BY <1>2, <1>3, <1>4, FrameShape DEF Frame

LEMMA FailedResult ==
  ASSUME NEW m \in Machines, NEW e
  PROVE  Shape(Failed(m, e)) /\ Failed(m, e).d.state = "Inactive" /\ Failed(m, e).sig = "error"
<1> DEFINE r == ResetSession(m)
           n == [r EXCEPT !.peer.errorCode = e, !.sig = "error"]
<1>1. Shape(r) /\ r.d.state = "Inactive" /\ r \in Machines
  BY ResetShape, ResetType
<1>2. Failed(m, e) = n
  BY DEF Failed
<1> HIDE DEF r
<1>3. Frame(n, r) /\ n.sig = "error"
  BY <1>1 DEF Frame, Machines
<1> QED
  BY <1>1, <1>2, <1>3, FrameShape DEF Frame

(* The branches of processNextAction(); the queue q is what is left *)
LEMMA PerformFrame ==
  ASSUME NEW m \in Machines, m.sig = "none"
  PROVE  /\ LET n == Perform("ReadyRead", m) IN Frame(n, m) /\ n.sig = "readyRead"
         /\ LET n == Perform("ReadyReadOutgoing", m) IN Frame(n, m) /\ n.sig = "readyReadOutgoing"
         /\ LET n == Perform("HostNameReceived", m)
            IN Frame(n, m) /\ n.sig \in {"none", "hostNameReceived"}
         /\ LET n == Perform("CheckPeerCertificate", m)
            IN Frame(n, m) /\ n.sig \in {"none", "peerCertificateAvailable"}
         /\ LET n == Perform("CertificateRequested", m)
            IN Frame(n, m) /\ n.sig \in {"none", "certificateRequested"}
         /\ LET n == Perform("Handshaken", m)
            IN /\ n.d.state = "Connected" /\ n.d.actionQueue = m.d.actionQueue /\ n.d.op = m.d.op
               /\ n.c = m.c /\ n.sig \in {"none", "handshaken"}
<1>1. LET n == Perform("ReadyRead", m) IN Frame(n, m) /\ n.sig = "readyRead"
  BY DEF Perform, Frame, Machines
<1>2. LET n == Perform("ReadyReadOutgoing", m) IN Frame(n, m) /\ n.sig = "readyReadOutgoing"
  BY DEF Perform, Frame, Machines
<1>3. LET n == Perform("HostNameReceived", m) IN Frame(n, m) /\ n.sig \in {"none", "hostNameReceived"}
  <2> DEFINE n == [m EXCEPT !.d.emitted = @ \cup {"hostNameReceived"}, !.d.maybe_input = TRUE]
             k == [n EXCEPT !.d.need_update = TRUE, !.d.trigger = TRUE]
  <2>1. n \in Machines
    BY DEF Machines, Privates, StepSignals
  <2>2. Frame(n, m) /\ n.sig = "none"
    BY DEF Frame, Machines, Privates
  <2>3. Perform("HostNameReceived", m) = IF "hostNameReceived" \in conn THEN Step(n, "hostNameReceived") ELSE k
    BY DEF Perform, DoHostNameReceived
  <2> HIDE DEF n
  <2>4. Frame(k, n) /\ k.sig = n.sig
    BY <2>1 DEF Frame, Machines, Privates
  <2>5. Frame(Step(n, "hostNameReceived"), n) /\ Step(n, "hostNameReceived").sig \in {n.sig, "hostNameReceived"}
    BY <2>1, StepFrame DEF StepSignals
  <2> HIDE DEF k
  <2> QED
    BY <2>2, <2>3, <2>4, <2>5 DEF Frame
<1>4. LET n == Perform("CheckPeerCertificate", m)
      IN Frame(n, m) /\ n.sig \in {"none", "peerCertificateAvailable"}
  <2> DEFINE b == m.peer.hostMismatch \/ (m.c.cert = "other" /\ m.d.host)
             n == [m EXCEPT !.peer.peerCert = m.c.cert, !.peer.hostMismatch = b]
  <2>1. Perform("CheckPeerCertificate", m) = Step(n, "peerCertificateAvailable")
    BY DEF Perform, DoCheckPeerCertificate, Machines
  <2>2. b \in BOOLEAN /\ m.c.cert \in Certs
    BY MachineFacts DEF Contexts
  <2> HIDE DEF b
  <2>3. n \in Machines /\ Frame(n, m) /\ n.sig = "none"
    BY <2>2 DEF Machines, Peers, Frame
  <2> HIDE DEF n
  <2>4. Frame(Step(n, "peerCertificateAvailable"), n)
        /\ Step(n, "peerCertificateAvailable").sig \in {n.sig, "peerCertificateAvailable"}
    BY <2>3, StepFrame DEF StepSignals
  <2> QED
    BY <2>1, <2>3, <2>4 DEF Frame
<1>5. LET n == Perform("CertificateRequested", m)
      IN Frame(n, m) /\ n.sig \in {"none", "certificateRequested"}
  <2>1. Perform("CertificateRequested", m) = Step(m, "certificateRequested")
    BY DEF Perform
  <2> QED
    BY <2>1, StepFrame DEF StepSignals
<1>6. LET n == Perform("Handshaken", m)
      IN /\ n.d.state = "Connected" /\ n.d.actionQueue = m.d.actionQueue /\ n.d.op = m.d.op
         /\ n.c = m.c /\ n.sig \in {"none", "handshaken"}
  <2> DEFINE f == Mode = "Stream" /\ m.io.out > 0
             b == m.d.need_update \/ f
             t == m.d.trigger \/ f
             n == [m EXCEPT !.d.state = "Connected", !.d.need_update = b, !.d.trigger = t]
  <2>1. Perform("Handshaken", m) = Step(n, "handshaken")
    BY DEF Perform, DoHandshaken, Machines, Privates
  <2>2. b \in BOOLEAN /\ t \in BOOLEAN
    OBVIOUS
  <2> HIDE DEF b, t
  <2>3. n \in Machines /\ n.d.state = "Connected" /\ n.d.actionQueue = m.d.actionQueue
        /\ n.d.op = m.d.op /\ n.c = m.c /\ n.sig = "none"
    BY <2>2 DEF Machines, Privates, States
  <2> HIDE DEF n
  <2>4. Frame(Step(n, "handshaken"), n) /\ Step(n, "handshaken").sig \in {n.sig, "handshaken"}
    BY <2>3, StepFrame DEF StepSignals
  <2> QED
    BY <2>1, <2>3, <2>4 DEF Frame
<1> QED
  BY <1>1, <1>2, <1>3, <1>4, <1>5, <1>6

------------------------------------------------------------------------------
(* The queue                                                               *)

LEMMA QueueTaken ==
  ASSUME NEW q \in Seq(Actions), q # <<>>
  PROVE  /\ Tail(q) \in Seq(Actions)
         /\ Negotiating(q) => \/ Head(q) \in Steps /\ Negotiating(Tail(q))
                              \/ Head(q) = "Handshaken" /\ Tail(q) = <<>>
         /\ Transferring(q) => /\ Head(q) \in {"ReadyRead", "ReadyReadOutgoing"}
                               /\ Transferring(Tail(q))
         /\ Ending(q) => /\ Head(q) \in {"ReadyRead", "ReadyReadOutgoing", "Close"}
                         /\ Ending(Tail(q))
         /\ \A a : Has(q, a) /\ Head(q) # a => Has(Tail(q), a)
<1>1. /\ Tail(q) \in Seq(Actions) /\ Len(Tail(q)) = Len(q) - 1 /\ Len(q) \in Nat /\ Len(q) >= 1
      /\ Head(q) = q[1] /\ \A i \in 1..Len(Tail(q)) : Tail(q)[i] = q[i + 1]
  BY HeadTailProperties
<1>2. Transferring(q) => /\ Head(q) \in {"ReadyRead", "ReadyReadOutgoing"}
                         /\ Transferring(Tail(q))
  BY <1>1 DEF Transferring
<1>3. Ending(q) => /\ Head(q) \in {"ReadyRead", "ReadyReadOutgoing", "Close"}
                   /\ Ending(Tail(q))
  BY <1>1 DEF Ending
<1>4. ASSUME Negotiating(q)
      PROVE  \/ Head(q) \in Steps /\ Negotiating(Tail(q))
             \/ Head(q) = "Handshaken" /\ Tail(q) = <<>>
  <2> DEFINE t == Tail(q)
             l == Len(q)
  <2>0. /\ t \in Seq(Actions) /\ Len(t) = l - 1 /\ l \in Nat /\ l >= 1
        /\ Head(q) = q[1] /\ \A i \in 1..Len(t) : t[i] = q[i + 1]
        /\ \A i \in 1..l : q[i] \in Steps \/ (q[i] = "Handshaken" /\ i = l)
    BY <1>1, <1>4 DEF Negotiating
  <2> HIDE DEF t, l
  <2>1. CASE q[1] \in Steps
    <3>1. \A i \in 1..Len(t) : i + 1 \in 1..l /\ (i + 1 = l => i = Len(t))
      BY <2>0
    <3>2. Negotiating(t)
      BY <2>0, <3>1 DEF Negotiating
    <3> QED
      BY <2>0, <2>1, <3>2 DEF t
  <2>2. CASE q[1] \notin Steps
    <3>1. 1 \in 1..l
      BY <2>0
    <3>2. q[1] = "Handshaken" /\ l = 1
      BY <2>0, <2>2, <3>1
    <3>3. Len(t) = 0
      BY <2>0, <3>2
    <3>4. t = <<>>
      BY <2>0, <3>3, EmptySeq
    <3> QED
      BY <2>0, <3>2, <3>4 DEF t
  <2> QED
    BY <2>1, <2>2
<1>5. ASSUME NEW a, Has(q, a), Head(q) # a PROVE Has(Tail(q), a)
  <2>1. PICK i \in 1..Len(q) : q[i] = a
    BY <1>5 DEF Has
  <2>2. i # 1
    BY <1>1, <1>5, <2>1
  <2>3. i - 1 \in 1..Len(Tail(q)) /\ (i - 1) + 1 = i
    BY <1>1, <2>2
  <2>4. Tail(q)[i - 1] = a
    BY <1>1, <2>1, <2>3
  <2> QED
    BY <2>3, <2>4 DEF Has
<1> QED
  BY <1>1, <1>2, <1>3, <1>4, <1>5

LEMMA EmptyQueue ==
  Negotiating(<<>>) /\ Transferring(<<>>) /\ Ending(<<>>)
  BY DEF Negotiating, Transferring, Ending

LEMMA TakeFirstFrame ==
  ASSUME NEW m \in Machines
  PROVE  LET n == TakeFirst(m)
         IN /\ n.d.state = m.d.state /\ n.d.actionQueue = Tail(m.d.actionQueue)
            /\ n.d.op = m.d.op /\ n.c = m.c /\ n.sig = m.sig
<1> DEFINE q == Tail(m.d.actionQueue)
           t == m.d.trigger \/ Tail(m.d.actionQueue) # <<>> \/ m.d.need_update
           n == [m EXCEPT !.d.actionQueue = q, !.d.trigger = t]
<1>1. TakeFirst(m) = n
  BY DEF TakeFirst, Machines, Privates
<1> HIDE DEF q, t
<1>2. n.d.state = m.d.state /\ n.d.actionQueue = q /\ n.d.op = m.d.op /\ n.c = m.c /\ n.sig = m.sig
  BY DEF Machines, Privates
<1> QED
  BY <1>1, <1>2 DEF q

(* From here on s is the state of the session before the step *)
Result(s, n) == Shape(n) /\ Allowed(s, n.d.state, n.sig)

LEMMA TakenResult ==
  ASSUME NEW m \in Machines, Sound(m), Shape(m), m.sig = "none", m.d.actionQueue # <<>>, NEW s,
         s = m.d.state \/ (s = "Connected" /\ m.d.state = "Closing" /\ Transferring(m.d.actionQueue))
  PROVE  Result(s, Perform(Head(m.d.actionQueue), TakeFirst(m)))
<1> DEFINE q == m.d.actionQueue
           k == TakeFirst(m)
<1>0. q \in Seq(Actions) /\ m.d.op = "none" /\ m.d.state \in {"Handshaking", "Connected", "Closing"}
  BY MachineFacts DEF Privates, Sound, Shape, Queue, States
<1>1. /\ k \in Machines /\ k.d.state = m.d.state /\ k.d.actionQueue = Tail(q) /\ k.d.op = "none"
      /\ k.c = m.c /\ k.sig = "none"
  BY <1>0, TakeFirstFrame, TakeFirstType
<1>2. /\ Negotiating(q) => \/ Head(q) \in Steps /\ Negotiating(Tail(q))
                           \/ Head(q) = "Handshaken" /\ Tail(q) = <<>>
      /\ Transferring(q) => /\ Head(q) \in {"ReadyRead", "ReadyReadOutgoing"}
                            /\ Transferring(Tail(q))
      /\ Ending(q) => /\ Head(q) \in {"ReadyRead", "ReadyReadOutgoing", "Close"}
                      /\ Ending(Tail(q))
      /\ Has(q, "Handshaken") /\ Head(q) # "Handshaken" => Has(Tail(q), "Handshaken")
  BY <1>0, QueueTaken
<1> HIDE DEF k
<1>3. CASE m.d.state = "Handshaking" /\ Head(q) \in Steps
  <2> DEFINE n == Perform(Head(q), k)
  <2>0. Keyed(k.d, k.c)
    BY <1>1, <1>2, <1>3 DEF Shape, Keyed, Steps
  <2>1. Shape(k)
    BY <1>1, <1>2, <1>3, <2>0 DEF Shape, Queue, Steps
  <2>2. /\ Frame(n, k) /\ n.sig \in {"none", "readyReadOutgoing", "hostNameReceived",
                                     "peerCertificateAvailable", "certificateRequested"}
    BY <1>1, <1>3, PerformFrame DEF Steps
  <2> HIDE DEF n
  <2>3. n.d.state = "Handshaking" /\ s = "Handshaking"
    BY <1>1, <1>3, <2>2 DEF Frame
  <2> QED
    BY <2>1, <2>2, <2>3, FrameShape DEF Result, Allowed, n, k
<1>4. CASE m.d.state = "Handshaking" /\ Head(q) = "Handshaken" /\ Tail(q) = <<>>
  <2> DEFINE n == Perform("Handshaken", k)
  <2>1. /\ n.d.state = "Connected" /\ n.d.actionQueue = <<>> /\ n.d.op = "none"
        /\ n.sig \in {"none", "handshaken"}
    BY <1>1, <1>4, PerformFrame
  <2> HIDE DEF n
  <2>2. Shape(n)
    BY <2>1, EmptyQueue DEF Shape, Queue, Keyed
  <2> QED
    BY <1>4, <2>1, <2>2 DEF Result, Allowed, n, k
<1>5. CASE m.d.state \in {"Connected", "Closing"} /\ Head(q) \in {"ReadyRead", "ReadyReadOutgoing"}
  <2> DEFINE n == Perform(Head(q), k)
  <2>1. Shape(k)
    BY <1>1, <1>2, <1>5 DEF Shape, Queue, Keyed
  <2>2. Frame(n, k) /\ n.sig \in {"readyRead", "readyReadOutgoing"}
    BY <1>1, <1>5, PerformFrame
  <2> HIDE DEF n
  <2>3. n.d.state = m.d.state
    BY <1>1, <2>2 DEF Frame
  <2> QED
    BY <1>5, <2>1, <2>2, <2>3, FrameShape DEF Result, Allowed, n, k
<1>6. CASE m.d.state = "Closing" /\ Head(q) = "Close"
  <2> DEFINE n == Perform("Close", k)
  <2>1. n = DoClose(k)
    BY DEF Perform
  <2>2. Shape(n) /\ n.d.state = "Inactive" /\ n.sig = "closed"
    BY <1>1, <2>1, ClosedResult
  <2> HIDE DEF n
  <2>3. s = "Closing"
    BY <1>2, <1>6
  <2> QED
    BY <1>6, <2>2, <2>3 DEF Result, Allowed, n, k
<1> QED
  BY <1>0, <1>2, <1>3, <1>4, <1>5, <1>6 DEF Shape, Queue

LEMMA ProcessResult ==
  ASSUME NEW m \in Machines, Sound(m), Shape(m), m.sig = "none", NEW s,
         s = m.d.state \/ (s = "Connected" /\ m.d.state = "Closing" /\ Transferring(m.d.actionQueue))
  PROVE  Result(s, processNextAction(m))
<1>1. CASE m.d.actionQueue # <<>>
  BY <1>1, TakenResult DEF processNextAction
<1>2. CASE m.d.actionQueue = <<>> /\ m.d.need_update
  <2> DEFINE n == update(m)
  <2>1. processNextAction(m) = n
    BY <1>2 DEF processNextAction
  <2>2. Shape(n) /\ n.d.state = m.d.state /\ n.sig = "none"
    BY UpdateShape, UpdateFrame
  <2> HIDE DEF n
  <2> QED
    BY <2>1, <2>2 DEF Result, Allowed
<1>3. CASE m.d.actionQueue = <<>> /\ ~m.d.need_update
  <2>1. processNextAction(m) = m
    BY <1>3 DEF processNextAction
  <2> QED
    BY <2>1 DEF Result, Allowed
<1> QED
  BY <1>1, <1>2, <1>3

(* What the results of an update put into the queue *)
LEMMA WhenIn ==
  ASSUME NEW S, NEW a \in S, NEW b \in BOOLEAN
  PROVE  When(b, a) \in Seq(S)
  BY DEF When

LEMMA QueueKinds ==
  /\ \A q \in Seq(Steps) : Negotiating(q)
  /\ \A q \in Seq({"ReadyRead", "ReadyReadOutgoing"}) : Transferring(q) /\ Ending(q)
  /\ \A q \in Seq({"ReadyRead", "ReadyReadOutgoing", "Close"}) : Ending(q)
<1>1. ASSUME NEW q \in Seq(Steps) PROVE Negotiating(q)
  BY ElementOfSeq DEF Negotiating
<1>2. ASSUME NEW q \in Seq({"ReadyRead", "ReadyReadOutgoing"}) PROVE Transferring(q) /\ Ending(q)
  <2>1. \A i \in 1..Len(q) : q[i] \in {"ReadyRead", "ReadyReadOutgoing"}
    BY ElementOfSeq
  <2> QED
    BY <2>1 DEF Transferring, Ending
<1>3. ASSUME NEW q \in Seq({"ReadyRead", "ReadyReadOutgoing", "Close"}) PROVE Ending(q)
  BY ElementOfSeq DEF Ending
<1> QED
  BY <1>1, <1>2, <1>3

LEMMA HandshakeQueue ==
  ASSUME NEW b0 \in BOOLEAN, NEW b1 \in BOOLEAN, NEW b2 \in BOOLEAN, NEW b3 \in BOOLEAN, NEW b4 \in BOOLEAN
  PROVE  Negotiating(When(b0, "ReadyReadOutgoing") \o
           (When(b1, "HostNameReceived") \o When(b2, "CheckPeerCertificate")
            \o When(b3, "CertificateRequested") \o When(b4, "Handshaken")))
         /\ (b4 => Has(When(b0, "ReadyReadOutgoing") \o
           (When(b1, "HostNameReceived") \o When(b2, "CheckPeerCertificate")
            \o When(b3, "CertificateRequested") \o When(b4, "Handshaken")), "Handshaken"))
<1> DEFINE w0 == When(b0, "ReadyReadOutgoing")
           w1 == When(b1, "HostNameReceived")
           w2 == When(b2, "CheckPeerCertificate")
           w3 == When(b3, "CertificateRequested")
           w4 == When(b4, "Handshaken")
           p == w0 \o ((w1 \o w2) \o w3)
           q == p \o w4
<1>1. w0 \in Seq(Steps) /\ w1 \in Seq(Steps) /\ w2 \in Seq(Steps) /\ w3 \in Seq(Steps)
  <2>1. \A a \in Steps, b \in BOOLEAN : When(b, a) \in Seq(Steps)
    BY WhenIn
  <2>2. {"ReadyReadOutgoing", "HostNameReceived", "CheckPeerCertificate", "CertificateRequested"} \subseteq Steps
    BY DEF Steps
  <2> QED
    BY <2>1, <2>2
<1>2. w4 \in Seq(Steps \cup {"Handshaken"})
  BY WhenIn
<1>3. Len(w4) = (IF b4 THEN 1 ELSE 0) /\ (b4 => w4[1] = "Handshaken")
  BY DEF When
<1> HIDE DEF w0, w1, w2, w3, w4
<1>4. (w1 \o w2) \o w3 \in Seq(Steps)
  BY <1>1, ConcatProperties
<1>5. p \in Seq(Steps)
  BY <1>1, <1>4, ConcatProperties
<1>6. w0 \o (((w1 \o w2) \o w3) \o w4) = q
  <2> DEFINE S == Steps \cup {"Handshaken"}
             v == (w1 \o w2) \o w3
  <2>1. w0 \in Seq(S) /\ v \in Seq(S) /\ w4 \in Seq(S)
    BY <1>1, <1>2, <1>4, SeqMonotonic
  <2> HIDE DEF v, S
  <2>2. w0 \o (v \o w4) = (w0 \o v) \o w4
    BY <2>1, ConcatAssociative
  <2> QED
    BY <2>2 DEF v
<1> HIDE DEF p
<1>7. Negotiating(q) /\ (b4 => Has(q, "Handshaken"))
  <2> DEFINE S == Steps \cup {"Handshaken"}
  <2>1. p \in Seq(S) /\ w4 \in Seq(S)
    BY <1>2, <1>5, SeqMonotonic
  <2> HIDE DEF S
  <2>2. /\ Len(q) = Len(p) + Len(w4) /\ Len(p) \in Nat /\ Len(w4) \in Nat
        /\ \A i \in 1..Len(q) : q[i] = IF i <= Len(p) THEN p[i] ELSE w4[i - Len(p)]
    BY <2>1, ConcatProperties
  <2>3. \A i \in 1..Len(p) : p[i] \in Steps
    BY <1>5, ElementOfSeq
  <2> HIDE DEF q
  <2>4. ASSUME NEW i \in 1..Len(q)
        PROVE  q[i] \in Steps \/ (q[i] = "Handshaken" /\ i = Len(q))
    <3>1. CASE i <= Len(p)
      BY <2>2, <2>3, <3>1
    <3>2. CASE i > Len(p)
      <4>1. b4 /\ i = Len(p) + 1 /\ i = Len(q)
        BY <1>3, <2>2, <3>2
      <4> QED
        BY <1>3, <2>2, <3>2, <4>1
    <3> QED
      BY <2>2, <3>1, <3>2
  <2>5. ASSUME b4 PROVE Has(q, "Handshaken")
    <3>1. Len(q) \in 1..Len(q) /\ Len(q) > Len(p) /\ Len(q) - Len(p) = 1
      BY <1>3, <2>2, <2>5
    <3>2. q[Len(q)] = "Handshaken"
      BY <1>3, <2>2, <2>5, <3>1
    <3> QED
      BY <3>1, <3>2 DEF Has
  <2> QED
    BY <2>4, <2>5 DEF Negotiating
<1> QED
  BY <1>6, <1>7 DEF w0, w1, w2, w3, w4

LEMMA EnqueueFrame ==
  ASSUME NEW m \in Machines, NEW as
  PROVE  LET n == Enqueue(m, as)
         IN /\ n.d.state = m.d.state /\ n.d.actionQueue = m.d.actionQueue \o as
            /\ n.d.op = m.d.op /\ n.c = m.c /\ n.sig = m.sig
  BY DEF Enqueue, Machines, Privates

LEMMA SettleFrame ==
  ASSUME NEW m \in Machines, NEW o
  PROVE  Frame(Settle(m, o), m) /\ Settle(m, o).sig = m.sig
<1>1. ASSUME NEW p, NEW e
      PROVE  /\ Frame([m EXCEPT !.io.out_pending = p, !.io.to_net_encoded = e], m)
             /\ [m EXCEPT !.io.out_pending = p, !.io.to_net_encoded = e].sig = m.sig
             /\ Frame([m EXCEPT !.io.out_pending = p], m) /\ [m EXCEPT !.io.out_pending = p].sig = m.sig
  BY DEF Frame, Machines
<1> QED
  BY <1>1 DEF Settle


(* The ends of an update, m being the session after its common part        *)
Transfers == {"ReadyRead", "ReadyReadOutgoing"}
Endings == {"ReadyRead", "ReadyReadOutgoing", "Close"}

LEMMA ClosingResult ==
  ASSUME NEW m \in Machines, NEW o \in OutcomeSet, Calm(m), m.sig = "none",
         m.d.state = "Closing", m.d.actionQueue \in Seq(Endings)
  PROVE  Result("Closing", ClosingFinished(m, o))
<1> DEFINE b == o.res = "Success"
           w == When(b, "Close")
           n == Enqueue(m, w)
<1>1. w \in Seq(Endings) /\ w \in Seq(Actions)
  <2>1. b \in BOOLEAN
    OBVIOUS
  <2> HIDE DEF b
  <2> QED
    BY <2>1, WhenIn, WhenType DEF Endings, Actions
<1> HIDE DEF w
<1>2. n \in Machines /\ Calm(n)
  BY <1>1, EnqueueType, EnqueueCalm
<1>3. n.d.state = "Closing" /\ n.d.actionQueue = m.d.actionQueue \o w /\ n.sig = "none"
  BY EnqueueFrame
<1>4. n.d.actionQueue \in Seq(Endings)
  BY <1>1, <1>3, ConcatProperties
<1> HIDE DEF n
<1>5. Shape(n) /\ Sound(n)
  BY <1>2, <1>3, <1>4, QueueKinds, CalmSound DEF Shape, Queue, Keyed, Calm, Endings
<1>6. Result("Closing", processNextAction(n))
  BY <1>2, <1>3, <1>5, ProcessResult
<1> QED
  BY <1>6 DEF ClosingFinished, n, w

LEMMA HandshakingResult ==
  ASSUME NEW m \in Machines, NEW o \in OutcomeSet, Calm(m), m.sig = "none",
         m.d.state = "Handshaking", NEW b0 \in BOOLEAN,
         m.d.actionQueue = When(b0, "ReadyReadOutgoing"),
         m.c.mode = "Active" => o.res = "Success"
  PROVE  Result("Handshaking", HandshakingFinished(m, o))
<1>1. ASSUME NEW h \in BOOLEAN, NEW u \in BOOLEAN, NEW b1 \in BOOLEAN, NEW b2 \in BOOLEAN,
             NEW b3 \in BOOLEAN, NEW b4 \in BOOLEAN, b4 <=> o.res = "Success"
      PROVE  Result("Handshaking", processNextAction(Enqueue(
               [m EXCEPT !.d.host = h, !.d.need_update = u],
               When(b1, "HostNameReceived") \o When(b2, "CheckPeerCertificate")
               \o When(b3, "CertificateRequested") \o When(b4, "Handshaken"))))
  <2> DEFINE as == When(b1, "HostNameReceived") \o When(b2, "CheckPeerCertificate")
                   \o When(b3, "CertificateRequested") \o When(b4, "Handshaken")
             k == [m EXCEPT !.d.host = h, !.d.need_update = u]
             n == Enqueue(k, as)
  <2>1. as \in Seq(Actions)
    BY HandshakeActions
  <2>2. Negotiating(When(b0, "ReadyReadOutgoing") \o as)
        /\ (b4 => Has(When(b0, "ReadyReadOutgoing") \o as, "Handshaken"))
    BY HandshakeQueue
  <2> HIDE DEF as
  <2>3. k \in Machines /\ k.d.state = "Handshaking" /\ k.d.actionQueue = m.d.actionQueue
        /\ k.d.op = "none" /\ k.c = m.c /\ k.sig = "none"
    BY DEF Machines, Privates, Calm
  <2> HIDE DEF k
  <2>4. Calm(k)
    BY <2>3 DEF Calm
  <2>5. n \in Machines /\ Calm(n)
    BY <2>1, <2>3, <2>4, EnqueueType, EnqueueCalm
  <2>6. n.d.state = "Handshaking" /\ n.d.actionQueue = k.d.actionQueue \o as /\ n.sig = "none"
        /\ n.c = m.c
    BY <2>3, EnqueueFrame
  <2> HIDE DEF n
  <2>9. Keyed(n.d, n.c)
    <3>1. ASSUME m.c.mode = "Active" PROVE Has(When(b0, "ReadyReadOutgoing") \o as, "Handshaken")
      BY <1>1, <2>2, <3>1, Zenon
    <3>2. n.d.actionQueue = When(b0, "ReadyReadOutgoing") \o as
      BY <2>3, <2>6
    <3>3. n.c.req.kind = "none"
      BY <2>5 DEF Calm
    <3> QED
      BY <2>6, <3>1, <3>2, <3>3 DEF Keyed
  <2>7. Shape(n) /\ Sound(n)
    BY <2>2, <2>3, <2>5, <2>6, <2>9, CalmSound DEF Shape, Queue, Calm
  <2>8. Result("Handshaking", processNextAction(n))
    BY <2>5, <2>6, <2>7, ProcessResult
  <2> QED
    BY <2>8 DEF n, k, as
<1>2. m.c.sni \in BOOLEAN /\ m.d.host \in BOOLEAN /\ m.d.need_update \in BOOLEAN
  BY MachineFacts DEF Contexts, Privates
<1> QED
  BY <1>1, <1>2, ZenonT(40) DEF HandshakingFinished

LEMMA CloseResult ==
  ASSUME NEW m \in Machines, Sound(m), Shape(m)
  PROVE  /\ Shape(close(m)) /\ close(m).sig = m.sig
         /\ m.d.state # "Connected" => close(m).d.state = m.d.state
         /\ m.d.state = "Connected" => close(m).d.state = "Closing"
         /\ close(m).d.actionQueue = m.d.actionQueue
<1>1. CASE m.d.state # "Connected"
  BY <1>1 DEF close
<1>2. CASE m.d.state = "Connected"
  <2> DEFINE x == CShutdown(m.c)
             n == [m EXCEPT !.d.state = "Closing", !.c = x]
  <2>1. close(m) = n
    BY <1>2 DEF close, Machines
  <2> HIDE DEF x
  <2>2. n.d.state = "Closing" /\ n.d.actionQueue = m.d.actionQueue /\ n.d.op = m.d.op /\ n.sig = m.sig
    BY DEF Machines, Privates
  <2>3. Transferring(m.d.actionQueue) => Ending(m.d.actionQueue)
    BY DEF Transferring, Ending
  <2> HIDE DEF n
  <2>4. Shape(n)
    BY <1>2, <2>2, <2>3 DEF Shape, Queue, Keyed
  <2> QED
    BY <1>2, <2>1, <2>2, <2>4
<1> QED
  BY <1>1, <1>2


(* s, a session that goes on and one that close() has just been called for *)
Onward(s, m) ==
    /\ m \in Machines /\ Sound(m) /\ Shape(m) /\ m.sig = "none"
    /\ s = m.d.state \/ (s = "Connected" /\ m.d.state = "Closing" /\ Transferring(m.d.actionQueue))

LEMMA UpdateOnward ==
  ASSUME NEW m, NEW s, Onward(s, m)
  PROVE  Onward(s, update(m))
<1>1. m \in Machines /\ Sound(m) /\ Shape(m) /\ m.sig = "none"
  BY DEF Onward
<1> DEFINE n == update(m)
<1>2. n \in Machines /\ Sound(n) /\ Shape(n)
  BY <1>1, UpdateType, UpdateSound, UpdateShape
<1>3. n.d.state = m.d.state /\ n.d.actionQueue = m.d.actionQueue /\ n.sig = m.sig
  BY <1>1, UpdateFrame
<1> HIDE DEF n
<1>4. Onward(s, n)
  BY <1>1, <1>2, <1>3 DEF Onward
<1> QED
  BY <1>4 DEF n

LEMMA InputOnward ==
  ASSUME NEW m, NEW s, Onward(s, m), NEW b \in BOOLEAN
  PROVE  Onward(s, [m EXCEPT !.d.maybe_input = b])
<1>1. m \in Machines /\ Sound(m) /\ Shape(m) /\ m.sig = "none"
  BY DEF Onward
<1> DEFINE n == [m EXCEPT !.d.maybe_input = b]
<1>2. n \in Machines /\ n.d.blocked = m.d.blocked
  BY <1>1 DEF Machines, Privates
<1>3. Frame(n, m) /\ n.sig = m.sig
  BY <1>1, FieldFrame
<1> HIDE DEF n
<1>4. Onward(s, n)
  BY <1>1, <1>2, <1>3, FrameShape DEF Onward, Frame, Sound
<1> QED
  BY <1>4 DEF n

LEMMA CloseOnward ==
  ASSUME NEW m, Onward("Connected", m), m.d.state = "Connected"
  PROVE  Onward("Connected", close(m))
<1>1. m \in Machines /\ Sound(m) /\ Shape(m) /\ m.sig = "none" /\ Transferring(m.d.actionQueue)
  BY DEF Onward, Shape, Queue
<1>2. /\ close(m) \in Machines /\ Shape(close(m)) /\ close(m).sig = "none"
      /\ close(m).d.state = "Closing" /\ close(m).d.actionQueue = m.d.actionQueue
  BY <1>1, CloseType, CloseResult
<1>3. Sound(close(m))
  BY <1>1, CloseFrame DEF Sound
<1> QED
  BY <1>1, <1>2, <1>3 DEF Onward

LEMMA ReceivedContext ==
  ASSUME NEW m \in Machines
  PROVE  /\ Received(m).c.eof = m.c.eof /\ Received(m).c.mode = m.c.mode
         /\ Received(m).c.req = m.c.req /\ Received(m).c.plain = 0
         /\ Received(m).c.server = m.c.server /\ Received(m).c.hello = m.c.hello
         /\ Received(m).c.cert = m.c.cert
  BY MachineFacts, ReceivedFrame DEF Contexts

LEMMA ConnectedResult ==
  ASSUME NEW m \in Machines, NEW o \in OutcomeSet, Calm(m), m.sig = "none",
         m.d.state \in {"Inactive", "Connected"}, m.d.actionQueue \in Seq(Transfers),
         m.d.state = "Inactive" => m.d.actionQueue = <<>> /\ m.c.plain = 0 /\ Dormant(m.c)
  PROVE  Result(m.d.state, ConnectedFinished(m, o))
<1> DEFINE s == m.d.state
           i == Received(m)
           w == When(m.c.plain > 0, "ReadyRead")
           e == Enqueue(i, w)
           p == Settle(e, o)
           b == p.d.maybe_input \/ p.io.out_pending > 0
           q == [p EXCEPT !.d.maybe_input = @ \/ p.io.out_pending > 0]
           k == [close(q) EXCEPT !.d.maybe_input = TRUE]
           r == IF m.c.eof THEN k ELSE q
           t == IF m.c.eof \/ IoPending(p.io) THEN update(r) ELSE r
<1>1. i \in Machines /\ Calm(i) /\ i.d = m.d /\ i.sig = "none"
      /\ i.c.eof = m.c.eof /\ i.c.mode = m.c.mode /\ i.c.req = m.c.req
  BY ReceivedType, ReceivedFrame, ReceivedContext DEF Calm
<1> HIDE DEF i
<1>2. w \in Seq(Transfers) /\ w \in Seq(Actions) /\ (m.c.plain = 0 => w = <<>>)
  <2> DEFINE f == m.c.plain > 0
  <2>1. f \in BOOLEAN /\ (m.c.plain = 0 => ~f)
    OBVIOUS
  <2> HIDE DEF f
  <2>2. When(f, "ReadyRead") \in Seq(Transfers) /\ When(f, "ReadyRead") \in Seq(Actions)
    BY <2>1, WhenIn, WhenType DEF Transfers, Actions
  <2>3. ~f => When(f, "ReadyRead") = <<>>
    BY DEF When
  <2> QED
    BY <2>1, <2>2, <2>3 DEF f
<1> HIDE DEF w
<1>3. e \in Machines /\ Calm(e)
  BY <1>1, <1>2, EnqueueType, EnqueueCalm
<1>4. e.d.state = s /\ e.d.actionQueue = m.d.actionQueue \o w /\ e.c = i.c /\ e.sig = "none"
  BY <1>1, EnqueueFrame
<1>5. e.d.actionQueue \in Seq(Transfers) /\ (s = "Inactive" => e.d.actionQueue = <<>>)
  <2>1. m.d.actionQueue \o w \in Seq(Transfers)
    BY <1>2, ConcatProperties
  <2>2. s = "Inactive" => m.d.actionQueue \o w = <<>>
    BY <1>2
  <2> QED
    BY <1>4, <2>1, <2>2
<1> HIDE DEF e
<1>6. p \in Machines /\ Calm(p) /\ Frame(p, e) /\ p.sig = "none"
  BY <1>3, <1>4, SettleType, SettleCalm, SettleFrame
<1> HIDE DEF p
<1>7. p.d.state = s /\ p.d.actionQueue = e.d.actionQueue /\ p.d.op = "none" /\ p.c = i.c
      /\ p.c.req.kind = "none"
  BY <1>4, <1>6 DEF Frame, Calm
<1>8. Shape(p)
  <2>1. s = "Inactive" => Dormant(p.c)
    BY <1>1, <1>7 DEF Dormant
  <2>2. Keyed(p.d, p.c)
    BY <1>7, <2>1 DEF Keyed, Dormant
  <2> QED
    BY <1>5, <1>7, <2>1, <2>2, QueueKinds DEF Shape, Queue, Transfers
<1>9. Onward(s, p)
  BY <1>6, <1>7, <1>8, CalmSound DEF Onward
<1>10. Onward(s, q) /\ q.d.state = s
  <2>1. q = [p EXCEPT !.d.maybe_input = b]
    BY <1>6 DEF Machines, Privates
  <2>2. b \in BOOLEAN
    BY <1>6, MachineFacts DEF Privates
  <2> HIDE DEF b, q
  <2>3. q.d.state = p.d.state
    BY <1>6, <2>1 DEF Machines, Privates
  <2> QED
    BY <1>7, <1>9, <2>1, <2>2, <2>3, InputOnward
<1> HIDE DEF q
<1>11. m.c.eof => Onward(s, k)
  <2>1. m.c.eof => s = "Connected"
    BY DEF Dormant
  <2>2. m.c.eof => Onward("Connected", close(q))
    BY <1>10, <2>1, CloseOnward
  <2> QED
    BY <2>1, <2>2, InputOnward
<1> HIDE DEF k
<1>12. Onward(s, r)
  BY <1>10, <1>11
<1> HIDE DEF r
<1>13. Onward(s, t)
  BY <1>12, UpdateOnward
<1>14. ConnectedFinished(m, o) = processNextAction(t)
  BY DEF ConnectedFinished, t, r, k, q, p, e, w, i
<1> HIDE DEF t
<1> QED
  BY <1>13, <1>14, ProcessResult DEF Onward


LEMMA TakeFirstDetail ==
  ASSUME NEW m \in Machines
  PROVE  LET n == TakeFirst(m)
         IN /\ n.d.state = m.d.state /\ n.d.server = m.d.server /\ n.d.host = m.d.host
            /\ n.d.emitted = m.d.emitted /\ n.d.actionQueue = Tail(m.d.actionQueue)
            /\ n.d.op = m.d.op /\ n.d.blocked = m.d.blocked /\ n.d.need_update = m.d.need_update
            /\ n.d.maybe_input = m.d.maybe_input /\ n.io = m.io /\ n.peer = m.peer /\ n.c = m.c
            /\ (n.d.actionQueue # <<>> \/ n.d.need_update => n.d.trigger)
<1> DEFINE q == Tail(m.d.actionQueue)
           t == m.d.trigger \/ Tail(m.d.actionQueue) # <<>> \/ m.d.need_update
           n == [m EXCEPT !.d.actionQueue = q, !.d.trigger = t]
<1>1. TakeFirst(m) = n
  BY DEF TakeFirst, Machines, Privates
<1>2. q # <<>> \/ m.d.need_update => t
  OBVIOUS
<1> HIDE DEF q, t
<1>3. /\ n.d.state = m.d.state /\ n.d.server = m.d.server /\ n.d.host = m.d.host
      /\ n.d.emitted = m.d.emitted /\ n.d.actionQueue = q
      /\ n.d.op = m.d.op /\ n.d.blocked = m.d.blocked /\ n.d.need_update = m.d.need_update
      /\ n.d.maybe_input = m.d.maybe_input
  BY DEF Machines, Privates
<1>4. n.io = m.io /\ n.peer = m.peer /\ n.c = m.c /\ n.d.trigger = t
  BY DEF Machines, Privates
<1> HIDE DEF n
<1> QED
  BY <1>1, <1>2, <1>3, <1>4 DEF q

(* Decoded data that an earlier session left behind, in state Inactive *)
LateResult(n) == Shape(n) /\ n.d.state = "Inactive" /\ n.sig = "readyRead"

LEMMA LateConnected ==
  ASSUME NEW m \in Machines, NEW o \in OutcomeSet, Calm(m), m.sig = "none",
         m.d.state = "Inactive", m.d.actionQueue = <<>>, Dormant(m.c), m.c.plain > 0
  PROVE  LET n == ConnectedFinished(m, o)
         IN  /\ LateResult(n) /\ n.d.actionQueue = <<>>
             /\ n.c.hello = m.c.hello /\ (n.d.need_update => n.d.trigger)
<1> DEFINE i == Received(m)
           w == When(m.c.plain > 0, "ReadyRead")
           e == Enqueue(i, w)
           p == Settle(e, o)
           b == p.d.maybe_input \/ p.io.out_pending > 0
           q == [p EXCEPT !.d.maybe_input = @ \/ p.io.out_pending > 0]
           t == IF m.c.eof \/ IoPending(p.io) THEN update(q) ELSE q
           k == TakeFirst(t)
           n == Perform("ReadyRead", k)
<1>1. i \in Machines /\ Calm(i) /\ i.d = m.d /\ i.sig = "none"
      /\ i.c.eof = m.c.eof /\ i.c.mode = m.c.mode /\ i.c.req = m.c.req
      /\ i.c.hello = m.c.hello
  BY ReceivedType, ReceivedFrame, ReceivedContext DEF Calm
<1> HIDE DEF i
<1>2. w = <<"ReadyRead">> /\ w \in Seq(Actions) /\ <<>> \o w = w
  <2>1. w = <<"ReadyRead">>
    BY DEF When
  <2>2. "ReadyRead" \in Actions
    BY DEF Actions
  <2> HIDE DEF w
  <2> QED
    BY <2>1, <2>2
<1> HIDE DEF w
<1>3. e \in Machines /\ Calm(e)
  BY <1>1, <1>2, EnqueueType, EnqueueCalm
<1>4. e.d.state = "Inactive" /\ e.d.actionQueue = <<"ReadyRead">> /\ e.c = i.c /\ e.sig = "none"
  <2>1. /\ e.d.state = i.d.state /\ e.d.actionQueue = i.d.actionQueue \o w
        /\ e.c = i.c /\ e.sig = i.sig
    BY <1>1, EnqueueFrame
  <2> HIDE DEF e
  <2> QED
    BY <1>1, <1>2, <2>1
<1> HIDE DEF e
<1>5. p \in Machines /\ Calm(p) /\ Frame(p, e) /\ p.sig = "none"
  BY <1>3, <1>4, SettleType, SettleCalm, SettleFrame
<1> HIDE DEF p
<1>6. q \in Machines /\ Frame(q, p) /\ q.sig = "none"
  <2>1. q = [p EXCEPT !.d.maybe_input = b]
    BY <1>5 DEF Machines, Privates
  <2>2. b \in BOOLEAN
    BY <1>5, MachineFacts DEF Privates
  <2> HIDE DEF b, q
  <2>3. [p EXCEPT !.d.maybe_input = b] \in Machines
    BY <1>5, <2>2 DEF Machines, Privates
  <2> QED
    BY <1>5, <2>1, <2>3, FieldFrame
<1> HIDE DEF q
<1>7. /\ q.d.state = "Inactive" /\ q.d.actionQueue = <<"ReadyRead">> /\ q.d.op = "none"
      /\ q.c = i.c
  BY <1>3, <1>4, <1>5, <1>6 DEF Frame, Calm
<1>8. <<"ReadyRead">> # <<>> /\ Head(<<"ReadyRead">>) = "ReadyRead" /\ Tail(<<"ReadyRead">>) = <<>>
  OBVIOUS
<1>9. /\ t \in Machines /\ t.d.state = "Inactive" /\ t.d.actionQueue = <<"ReadyRead">>
      /\ t.d.op = "none" /\ t.c = i.c /\ t.sig = "none"
  <2>1. update(q) \in Machines
    BY <1>6, UpdateType
  <2>2. /\ update(q).d.state = q.d.state /\ update(q).d.actionQueue = q.d.actionQueue
        /\ update(q).sig = q.sig /\ update(q).d.op = q.d.op /\ update(q).c = q.c
    BY <1>6, <1>7, <1>8, UpdateFrame
  <2> QED
    BY <1>6, <1>7, <2>1, <2>2
<1>10. ConnectedFinished(m, o) = processNextAction(t)
  <2>1. ~m.c.eof
    BY DEF Dormant
  <2> QED
    BY <2>1 DEF ConnectedFinished, t, q, p, e, w, i
<1> HIDE DEF t
<1>11. /\ k \in Machines /\ k.d.state = "Inactive" /\ k.d.actionQueue = <<>>
       /\ k.d.op = "none" /\ k.c = i.c /\ k.sig = "none"
       /\ (k.d.need_update => k.d.trigger)
  <2>1. t.d.actionQueue # <<>> /\ Tail(t.d.actionQueue) = <<>>
    BY <1>8, <1>9
  <2>2. k \in Machines
    BY <1>9, <2>1, TakeFirstType
  <2>3. /\ k.d.state = t.d.state /\ k.d.actionQueue = Tail(t.d.actionQueue)
        /\ k.d.op = t.d.op /\ k.c = t.c /\ k.sig = t.sig
    BY <1>9, TakeFirstFrame
  <2>4. k.d.need_update => k.d.trigger
    BY <1>9, <2>1, TakeFirstDetail
  <2> HIDE DEF k
  <2> QED
    BY <1>9, <2>1, <2>2, <2>3, <2>4
<1> HIDE DEF k
<1>12. Frame(n, k) /\ n.sig = "readyRead" /\ n.d = k.d
  <2>1. Frame(n, k) /\ n.sig = "readyRead"
    BY <1>11, PerformFrame
  <2>2. n = [k EXCEPT !.sig = "readyRead"]
    BY DEF Perform
  <2>3. [k EXCEPT !.sig = "readyRead"].d = k.d
    BY <1>11 DEF Machines
  <2> QED
    BY <2>1, <2>2, <2>3
<1>13. ConnectedFinished(m, o) = n
  <2>1. t.d.actionQueue # <<>> /\ Head(t.d.actionQueue) = "ReadyRead"
    BY <1>8, <1>9
  <2>2. processNextAction(t) = Perform(Head(t.d.actionQueue), TakeFirst(t))
    BY <2>1 DEF processNextAction
  <2> QED
    BY <1>10, <2>1, <2>2 DEF k
<1> HIDE DEF n
<1>14. Dormant(n.c) /\ n.c.req.kind = "none"
  BY <1>1, <1>11, <1>12 DEF Frame, Dormant, Calm
<1>15. Keyed(n.d, n.c)
  BY <1>14 DEF Keyed, Dormant
<1>16. Shape(n) /\ n.d.state = "Inactive"
  BY <1>11, <1>12, <1>14, <1>15 DEF Shape, Queue, Frame
<1> QED
  BY <1>1, <1>11, <1>12, <1>13, <1>16 DEF LateResult, Frame

LEMMA DormantOutcome ==
  ASSUME NEW x \in Contexts, Dormant(x), NEW o \in Outcomes(x)
  PROVE  o.res = "Continue" /\ o.toNet = 0 /\ Dormant(o.c) /\ o.c.plain = x.plain
<1>1. o = Outcome("Continue", 0, x)
  BY DEF Dormant, Outcomes, IdleOutcomes
<1>2. Dormant([x EXCEPT !.req = NoReq]) /\ [x EXCEPT !.req = NoReq].plain = x.plain
  BY DEF Dormant, NoReq, Contexts
<1> QED
  BY <1>1, <1>2 DEF Outcome

(* The provider ends the handshake with Success only *)
LEMMA KeyedOutcome ==
  ASSUME NEW x \in Contexts, NEW o \in Outcomes(x), o.c.mode = "Active"
  PROVE  x.mode = "Active" \/ (o.res = "Success" /\ x.req.kind = "update")
<1>3. CASE x.req.kind = "start"
  <2> DEFINE y == [x EXCEPT !.mode = "Handshake"]
  <2>1. y \in Contexts /\ y.mode = "Handshake"
    BY DEF Contexts, CModes
  <2>2. o = Outcome("Success", 0, y) \/ o = Outcome("Error", 0, x)
    BY <1>3 DEF Outcomes, StartOutcomes
  <2> HIDE DEF y
  <2> QED
    BY OutcomeFields, <2>1, <2>2
<1>4. CASE x.req.kind = "update"
  <2>1. CASE x.req.mode = "Idle"
    <3>1. o = Outcome("Continue", 0, x)
      BY <1>4, <2>1 DEF Outcomes, IdleOutcomes
    <3> QED
      BY OutcomeFields, <3>1
  <2>2. CASE x.req.mode = "Handshake"
    <3>1. o \in HandshakeOutcomes(x)
      BY <1>4, <2>2 DEF Outcomes
    <3>2. CASE o = Outcome("Error", 0, CReset(x))
      <4>1. CReset(x) \in Contexts /\ CReset(x).mode = "Idle"
        BY ContextFacts DEF CReset, CInit
      <4> QED
        BY OutcomeFields, <3>2, <4>1
    <3>3. CASE \E n \in {0, 1}, g \in Greeted(x) :
                 o = Outcome("Continue", n, Unread(Fed(x) /\ g.hello = "paused", g))
      <4>1. PICK n \in {0, 1}, g \in Greeted(x) :
                 o = Outcome("Continue", n, Unread(Fed(x) /\ g.hello = "paused", g))
        BY <3>3
      <4>2. g \in Contexts /\ g.mode = x.mode
        BY GreetedFacts, GreetedMode
      <4>3. ASSUME NEW b PROVE Unread(b, g).mode = g.mode
        BY <4>2 DEF Unread, Contexts
      <4>4. Unread(Fed(x) /\ g.hello = "paused", g) \in Contexts
        BY <4>2, UnreadFacts
      <4> QED
        BY OutcomeFields, <4>1, <4>2, <4>3, <4>4
    <3>4. CASE \E n \in {0, 1}, g \in Agreed(x) : o = Outcome("Success", n, Unread(Fed(x), g))
      BY <1>4, <3>4, OutcomeRes
    <3> QED
      BY <3>1, <3>2, <3>3, <3>4 DEF HandshakeOutcomes
  <2>3. CASE x.req.mode = "Active"
    <3>1. o \in ActiveOutcomes(x)
      BY <1>4, <2>3 DEF Outcomes
    <3>2. CASE o = Outcome("Error", 0, x)
      BY OutcomeFields, <3>2
    <3>3. CASE \E n \in {0, 1}, a \in {0, 1}, e \in BOOLEAN, k \in EncodedContexts(x) :
                 o = Exchanged(n, a, e, k)
      BY <1>4, <3>3, OutcomeRes DEF Exchanged
    <3> QED
      BY <3>1, <3>2, <3>3, ActiveCases
  <2>4. CASE x.req.mode = "Closing"
    <3>1. o \in ClosingOutcomes(x)
      BY <1>4, <2>4 DEF Outcomes
    <3>2. CASE o.res = "Success"
      BY <1>4, <3>2
    <3>3. CASE o = Outcome("Error", 0, CReset(x))
      <4>1. CReset(x) \in Contexts /\ CReset(x).mode = "Idle"
        BY ContextFacts DEF CReset, CInit
      <4> QED
        BY OutcomeFields, <3>3, <4>1
    <3>4. CASE \E n \in {0, 1} : o = Outcome("Continue", n, [x EXCEPT !.notified = TRUE])
      <4> DEFINE y == [x EXCEPT !.notified = TRUE]
      <4>1. y \in Contexts /\ y.mode = x.mode
        BY DEF Contexts
      <4>2. \E n \in {0, 1} : o = Outcome("Continue", n, y)
        BY <3>4
      <4> HIDE DEF y
      <4> QED
        BY OutcomeFields, <4>1, <4>2
    <3>5. \/ o.res = "Success" \/ o = Outcome("Error", 0, CReset(x))
          \/ \E n \in {0, 1} : o = Outcome("Continue", n, [x EXCEPT !.notified = TRUE])
      BY <3>1, OutcomeRes DEF ClosingOutcomes
    <3> QED
      BY <3>2, <3>3, <3>4, <3>5
  <2> QED
    BY <2>1, <2>2, <2>3, <2>4 DEF Contexts, Requests, CModes
<1> QED
  BY <1>3, <1>4 DEF Outcomes, Contexts, Requests

LEMMA ReadyResult ==
  ASSUME NEW m \in Machines, Sound(m), Shape(m), m.sig = "none", NEW o \in Outcomes(m.c)
  PROVE  LET n == tls_resultsReady(m, o)
         IN Result(m.d.state, n) \/ (m.d.state = "Inactive" /\ m.c.plain > 0 /\ LateResult(n))
<1> DEFINE s == m.d.state
           n == [m EXCEPT !.c = o.c, !.d.op = "none"]
           t == [n EXCEPT !.io.to_net = @ + o.toNet]
           w == When(o.toNet > 0, "ReadyReadOutgoing")
           u == Enqueue(t, w)
<1>0. m.c \in Contexts /\ o \in OutcomeSet
  BY MachineFacts, OutcomesType
<1>1. /\ m.d.op \in {"start", "update"} /\ m.d.actionQueue = <<>>
      /\ s = "Inactive" => /\ o.res = "Continue" /\ o.toNet = 0 /\ Dormant(o.c)
                           /\ o.c.plain = m.c.plain
      /\ s \in {"Initializing", "Handshaking"} /\ o.c.mode = "Active" =>
            o.res = "Success" /\ m.d.op = "update"
  <2>1. m.c.req.kind \in {"start", "update"}
    BY <1>0 DEF Outcomes, Contexts, Requests
  <2>2. m.d.op = m.c.req.kind /\ m.d.actionQueue = <<>>
    BY <2>1 DEF Sound
  <2>3. s \in {"Initializing", "Handshaking"} => m.c.mode # "Active"
    BY <2>2, EmptyHas DEF Shape, Keyed
  <2>4. s = "Inactive" => Dormant(m.c)
    BY DEF Shape
  <2> QED
    BY <1>0, <2>1, <2>2, <2>3, <2>4, DormantOutcome, KeyedOutcome
<1>2. /\ n \in Machines /\ Calm(n) /\ n.d.state = s /\ n.d.actionQueue = <<>> /\ n.c = o.c
      /\ n.sig = "none"
  <2>1. o.c \in Contexts /\ o.c.req.kind = "none"
    BY <1>0 DEF OutcomeSet, Answered
  <2> QED
    BY <1>1, <2>1 DEF Machines, Privates, Calm
<1>3. s = "Initializing" => m.d.op = "start"
  BY DEF Shape
<1>4. m.d.op = "start" => s = "Initializing"
  BY DEF Shape
<1>5. tls_resultsReady(m, o) = IF m.d.op = "start" THEN start_finished(n, o) ELSE update_finished(n, o)
  BY DEF tls_resultsReady
<1> HIDE DEF n
<1>6. CASE m.d.op = "start"
  <2> DEFINE k == [n EXCEPT !.d.state = "Handshaking", !.d.maybe_input = TRUE]
  <2>1. /\ k \in Machines /\ Calm(k) /\ k.d.state = "Handshaking" /\ k.d.actionQueue = <<>>
        /\ k.sig = "none" /\ k.c = o.c
    BY <1>2 DEF Machines, Privates, States, Calm
  <2>2. start_finished(n, o) = IF o.res # "Success" THEN Failed(n, "Init") ELSE update(k)
    BY DEF start_finished
  <2> HIDE DEF k
  <2>7. Keyed(k.d, k.c)
    BY <1>1, <1>4, <1>6, <2>1 DEF Keyed, Calm
  <2>3. Shape(k)
    BY <2>1, <2>7, EmptyQueue DEF Shape, Queue, Calm
  <2>4. Shape(update(k)) /\ update(k).d.state = "Handshaking" /\ update(k).sig = "none"
    BY <2>1, <2>3, UpdateShape, UpdateFrame
  <2>5. Result("Initializing", update(k))
    BY <2>4 DEF Result, Allowed
  <2>6. Result("Initializing", Failed(n, "Init"))
    BY <1>2, FailedResult DEF Result, Allowed
  <2> QED
    BY <1>4, <1>5, <1>6, <2>2, <2>5, <2>6
<1>7. CASE m.d.op # "start"
  <2>0. s \in {"Inactive", "Handshaking", "Connected", "Closing"}
    BY <1>3, <1>7, MachineFacts DEF Privates, States
  <2>1. t \in Machines /\ Calm(t) /\ Frame(t, n) /\ t.sig = "none"
    <3> DEFINE a == n.io.to_net + o.toNet
    <3>1. a \in Nat
      BY <1>0, <1>2, MachineFacts DEF Buffers, OutcomeSet
    <3> HIDE DEF a
    <3>2. [n EXCEPT !.io.to_net = a] \in Machines /\ Frame([n EXCEPT !.io.to_net = a], n)
          /\ [n EXCEPT !.io.to_net = a].sig = "none"
      BY <1>2, <3>1 DEF Machines, Buffers, Frame
    <3>3. t = [n EXCEPT !.io.to_net = a]
      BY <1>2 DEF a, Machines, Buffers
    <3> HIDE DEF t
    <3> QED
      BY <1>2, <3>2, <3>3 DEF Calm, Frame
  <2> HIDE DEF t
  <2> DEFINE f == o.toNet > 0
  <2>2. f \in BOOLEAN /\ (o.toNet = 0 => ~f) /\ w = When(f, "ReadyReadOutgoing")
    BY <1>0 DEF OutcomeSet
  <2> HIDE DEF f, w
  <2>3. w \in Seq(Actions) /\ w \in Seq(Transfers) /\ w \in Seq(Endings) /\ (o.toNet = 0 => w = <<>>)
    <3>1. \A S : "ReadyReadOutgoing" \in S => w \in Seq(S)
      BY <2>2, WhenIn
    <3> QED
      BY <2>2, <3>1 DEF When, Actions, Transfers, Endings
  <2>4. u \in Machines /\ Calm(u)
    BY <2>1, <2>3, EnqueueType, EnqueueCalm
  <2>5. u.d.state = s /\ u.d.actionQueue = <<>> \o w /\ u.c = o.c /\ u.sig = "none"
    <3>1. t.d.state = s /\ t.d.actionQueue = <<>> /\ t.c = o.c
      BY <1>2, <2>1 DEF Frame
    <3>2. u.d.state = t.d.state /\ u.d.actionQueue = t.d.actionQueue \o w /\ u.c = t.c /\ u.sig = t.sig
      BY <2>1, EnqueueFrame
    <3> HIDE DEF u
    <3> QED
      BY <2>1, <3>1, <3>2
  <2>6. <<>> \o w = w
    BY <2>3
  <2>7. /\ o.res = "Error" => update_finished(n, o) =
             Failed(n, IF n.d.state \in {"Handshaking", "Closing"} THEN "Handshake" ELSE "Crypt")
        /\ o.res # "Error" /\ s = "Closing" => update_finished(n, o) = ClosingFinished(u, o)
        /\ o.res # "Error" /\ s = "Handshaking" => update_finished(n, o) = HandshakingFinished(u, o)
        /\ o.res # "Error" /\ s \in {"Inactive", "Connected"} => update_finished(n, o) = ConnectedFinished(u, o)
    BY <1>2 DEF update_finished, u, t, w
  <2> HIDE DEF u
  <2>8. CASE o.res = "Error"
    <3>1. s # "Inactive"
      BY <1>1, <2>8
    <3>2. ASSUME NEW x PROVE Result(s, Failed(n, x))
      BY <1>2, <3>1, FailedResult DEF Result, Allowed
    <3> QED
      BY <1>5, <1>7, <2>7, <2>8, <3>2
  <2>9. CASE o.res # "Error" /\ s = "Closing"
    BY <1>0, <1>5, <1>7, <2>3, <2>4, <2>5, <2>6, <2>7, <2>9, ClosingResult
  <2>10. CASE o.res # "Error" /\ s = "Handshaking"
    <3>1. u.d.actionQueue = When(f, "ReadyReadOutgoing")
      BY <2>2, <2>5, <2>6
    <3>2. Result("Handshaking", HandshakingFinished(u, o))
      BY <1>0, <1>1, <2>2, <2>4, <2>5, <2>10, <3>1, HandshakingResult
    <3> QED
      BY <1>5, <1>7, <2>7, <2>10, <3>2
  <2>11. CASE o.res # "Error" /\ s \in {"Inactive", "Connected"}
    <3>1. u.d.actionQueue \in Seq(Transfers)
          /\ (s = "Inactive" => u.d.actionQueue = <<>> /\ Dormant(u.c) /\ u.c.plain = m.c.plain)
      BY <1>1, <2>3, <2>5, <2>6
    <3>2. CASE s = "Connected" \/ m.c.plain = 0
      <4>1. Result(s, ConnectedFinished(u, o))
        BY <1>0, <2>4, <2>5, <2>11, <3>1, <3>2, ConnectedResult
      <4> QED
        BY <1>5, <1>7, <2>7, <2>11, <4>1
    <3>3. CASE s = "Inactive" /\ m.c.plain > 0
      <4>1. LateResult(ConnectedFinished(u, o))
        BY <1>0, <2>4, <2>5, <3>1, <3>3, LateConnected
      <4> QED
        BY <1>5, <1>7, <2>7, <2>11, <3>3, <4>1
    <3> QED
      BY <1>0, <2>11, <3>2, <3>3 DEF Contexts
  <2> QED
    BY <2>0, <2>8, <2>9, <2>10, <2>11
<1> QED
  BY <1>6, <1>7


------------------------------------------------------------------------------
(* Decoded data not yet announced: who makes them, keeps them, takes them  *)

LEMMA OutcomePlain ==
  ASSUME NEW x \in Contexts, NEW o \in Outcomes(x), o.c.plain > 0
  PROVE  x.plain > 0 \/ (x.req.kind = "update" /\ x.req.mode = "Active")
<1>0. CReset(x) \in Contexts /\ CReset(x).plain = x.plain
  BY ContextFacts DEF CReset, CInit
<1>1. CASE x.req.kind = "start"
  <2> DEFINE y == [x EXCEPT !.mode = "Handshake"]
  <2>1. y \in Contexts /\ y.plain = x.plain
    BY DEF Contexts, CModes
  <2>2. o = Outcome("Success", 0, y) \/ o = Outcome("Error", 0, x)
    BY <1>1 DEF Outcomes, StartOutcomes
  <2> HIDE DEF y
  <2> QED
    BY OutcomeFields, <2>1, <2>2
<1>2. CASE x.req.kind = "update" /\ x.req.mode = "Idle"
  <2>1. o = Outcome("Continue", 0, x)
    BY <1>2 DEF Outcomes, IdleOutcomes
  <2> QED
    BY OutcomeFields, <2>1
<1>3. CASE x.req.kind = "update" /\ x.req.mode = "Handshake"
  <2>0. o \in HandshakeOutcomes(x)
    BY <1>3 DEF Outcomes
  <2>1. ASSUME NEW g \in Contexts, g.plain = x.plain, NEW b \in BOOLEAN, NEW e, NEW n,
               o = Outcome(e, n, Unread(b, g))
        PROVE  x.plain > 0
    <3>1. Unread(b, g) \in Contexts /\ Unread(b, g).plain = x.plain
      BY <2>1 DEF Unread, Contexts
    <3> QED
      BY <2>1, <3>1, OutcomeFields
  <2>2. ASSUME NEW g \in Greeted(x)
        PROVE  g \in Contexts /\ g.plain = x.plain /\ (Fed(x) /\ g.hello = "paused") \in BOOLEAN
    BY GreetedFacts, GreetedMode DEF Fed
  <2>3. ASSUME NEW g \in Agreed(x)
        PROVE  g \in Contexts /\ g.plain = x.plain /\ Fed(x) \in BOOLEAN
    <3>1. PICK y \in Greeted(x), k \in PeerCerts : g = Activate(y, k)
      BY DEF Agreed
    <3>2. Activate(y, k).plain = y.plain
      BY <2>2 DEF Activate, Contexts
    <3> QED
      BY <2>2, <3>1, <3>2, AgreedFacts DEF Fed
  <2>4. CASE o = Outcome("Error", 0, CReset(x))
    BY <1>0, <2>4, OutcomeFields
  <2>5. CASE \E n \in {0, 1}, g \in Greeted(x) :
               o = Outcome("Continue", n, Unread(Fed(x) /\ g.hello = "paused", g))
    BY <2>1, <2>2, <2>5, Zenon
  <2>6. CASE \E n \in {0, 1}, g \in Agreed(x) : o = Outcome("Success", n, Unread(Fed(x), g))
    BY <2>1, <2>3, <2>6, Zenon
  <2> QED
    BY <2>0, <2>4, <2>5, <2>6 DEF HandshakeOutcomes
<1>4. CASE x.req.kind = "update" /\ x.req.mode = "Closing"
  <2>0. o \in ClosingOutcomes(x)
    BY <1>4 DEF Outcomes
  <2> DEFINE y == [x EXCEPT !.notified = TRUE]
             z(r) == [x EXCEPT !.mode = "Idle", !.notified = TRUE, !.rest = r]
  <2>1. y \in Contexts /\ y.plain = x.plain
    BY DEF Contexts
  <2>2. \A r \in {0, 1} : z(r) \in Contexts /\ z(r).plain = x.plain
    BY DEF Contexts, CModes
  <2>3. \/ o = Outcome("Error", 0, CReset(x))
        \/ \E n \in {0, 1} : o = Outcome("Continue", n, y)
        \/ \E n \in {0, 1}, r \in {0, 1} : o = Outcome("Success", n, z(r))
    BY <2>0 DEF ClosingOutcomes
  <2> HIDE DEF y, z
  <2> QED
    BY <1>0, <2>1, <2>2, <2>3, OutcomeFields
<1> QED
  BY <1>1, <1>2, <1>3, <1>4 DEF Outcomes, Contexts, Requests, CModes

LEMMA UnannouncedPlain ==
  ASSUME NEW x \in Contexts, NEW k \in Unannounced(x), k.plain > 0
  PROVE  x.plain > 0 \/ (x.req.kind = "update" /\ x.req.mode = "Active")
<1>1. \/ k = x
      \/ \E o \in Outcomes(x) : k = [x EXCEPT !.encoded = o.c.encoded, !.plain = o.c.plain]
  BY DEF Unannounced
<1>2. \A e, a : [x EXCEPT !.encoded = e, !.plain = a].plain = a
  BY DEF Contexts
<1> QED
  BY <1>1, <1>2, OutcomePlain

LEMMA CallPlain ==
  ASSUME NEW m \in Machines
  PROVE  /\ update(m).c.plain = m.c.plain
         /\ close(m).c.plain = m.c.plain
         /\ ResetSession(m).c.plain = m.c.plain
         /\ ResetSessionAndData(m).c.plain = m.c.plain
         /\ \A e : Failed(m, e).c.plain = m.c.plain
<1>0. /\ m.c \in Contexts
      /\ \A n, a : CUpdate(m.c, n, a).plain = m.c.plain
      /\ CShutdown(m.c).plain = m.c.plain
      /\ CReset(m.c).plain = m.c.plain
  BY MachineFacts DEF CUpdate, CShutdown, CReset, CInit, Contexts
<1>1. update(m).c.plain = m.c.plain
  <2>1. \A n, a : CallUpdate(m, n, a).c = CUpdate(m.c, n, a)
    BY DEF CallUpdate, Machines
  <2>2. \A b : [m EXCEPT !.d.need_update = b].c = m.c
    BY DEF Machines
  <2> QED
    BY <1>0, <2>1, <2>2 DEF update
<1>2. close(m).c.plain = m.c.plain
  BY <1>0 DEF close, Machines
<1>3. /\ ResetSession(m).c = CReset(m.c) /\ ResetSessionAndData(m).c = CReset(m.c)
      /\ ResetSession(m) \in Machines
  BY ResetType DEF ResetSession, ResetSessionAndData, Machines
<1>4. \A e : Failed(m, e).c = ResetSession(m).c
  <2> DEFINE r == ResetSession(m)
  <2>1. r \in Machines
    BY <1>3
  <2> HIDE DEF r
  <2>2. \A e : [r EXCEPT !.peer.errorCode = e, !.sig = "error"].c = r.c
    BY <2>1 DEF Machines
  <2> QED
    BY <2>2 DEF Failed, r
<1> QED
  BY <1>0, <1>1, <1>2, <1>3, <1>4

LEMMA StartPlain ==
  ASSUME NEW m \in Machines, NEW b
  PROVE  start(m, b).c.plain = m.c.plain
<1>1. start(m, b).c = CStart(m.c, b)
  BY DEF start, Machines
<1>2. CStart(m.c, b).plain = m.c.plain
  BY MachineFacts DEF CStart, Contexts
<1> QED
  BY <1>1, <1>2

LEMMA ProcessPlain ==
  ASSUME NEW m \in Machines, m.sig = "none"
  PROVE  processNextAction(m).c.plain = m.c.plain
<1>1. ASSUME NEW k \in Machines, k.sig = "none", NEW a \in Actions
      PROVE  Perform(a, k).c.plain = k.c.plain
  <2>1. CASE a = "Close"
    <3> DEFINE n == [k EXCEPT !.io.unprocessed = k.c.rest]
               r == ResetSession(n)
    <3>1. n \in Machines /\ n.c = k.c
      BY <1>1, MachineFacts DEF Machines, Buffers, Contexts
    <3> HIDE DEF n
    <3>2. r \in Machines /\ r.c.plain = k.c.plain
      BY <3>1, ResetType, CallPlain
    <3> HIDE DEF r
    <3>3. [r EXCEPT !.sig = "closed"].c = r.c
      BY <3>2 DEF Machines
    <3> QED
      BY <2>1, <3>2, <3>3 DEF Perform, DoClose, r, n
  <2>2. CASE a # "Close"
    <3>1. Perform(a, k).c = k.c
      BY <1>1, <2>2, PerformFrame DEF Frame, Actions
    <3> QED
      BY <3>1
  <2> QED
    BY <2>1, <2>2
<1>2. CASE m.d.actionQueue = <<>>
  BY <1>2, CallPlain DEF processNextAction
<1>3. CASE m.d.actionQueue # <<>>
  <2> DEFINE k == TakeFirst(m)
  <2>1. k \in Machines /\ k.sig = "none" /\ k.c = m.c /\ Head(m.d.actionQueue) \in Actions
    BY <1>3, TakeFirstType, TakeFirstFrame
  <2>2. processNextAction(m) = Perform(Head(m.d.actionQueue), k)
    BY <1>3 DEF processNextAction
  <2> HIDE DEF k
  <2> QED
    BY <1>1, <2>1, <2>2
<1> QED
  BY <1>2, <1>3

LEMMA ConnectedPlain ==
  ASSUME NEW m \in Machines, NEW o \in OutcomeSet, m.sig = "none"
  PROVE  ConnectedFinished(m, o).c.plain = 0
<1> DEFINE i == Received(m)
           w == When(m.c.plain > 0, "ReadyRead")
           e == Enqueue(i, w)
           p == Settle(e, o)
           q == [p EXCEPT !.d.maybe_input = @ \/ p.io.out_pending > 0]
           k == [close(q) EXCEPT !.d.maybe_input = TRUE]
           r == IF m.c.eof THEN k ELSE q
           t == IF m.c.eof \/ IoPending(p.io) THEN update(r) ELSE r
           Bare(x) == x \in Machines /\ x.sig = "none" /\ x.c.plain = 0
<1>1. Bare(i)
  BY ReceivedType, ReceivedFrame, ReceivedContext
<1> HIDE DEF i
<1>2. Bare(e)
  <2>1. w \in Seq(Actions)
    BY WhenType, (m.c.plain > 0) \in BOOLEAN DEF Actions
  <2> HIDE DEF w
  <2> QED
    BY <1>1, <2>1, EnqueueType, EnqueueFrame
<1> HIDE DEF e
<1>3. Bare(p)
  BY <1>2, SettleType, SettleFrame DEF Frame
<1> HIDE DEF p
<1>4. ASSUME NEW x, Bare(x), NEW b \in BOOLEAN PROVE Bare([x EXCEPT !.d.maybe_input = b])
  BY <1>4 DEF Machines, Privates
<1>5. Bare(q)
  BY <1>3, <1>4
<1> HIDE DEF q
<1>6. Bare(k)
  <2>1. Bare(close(q))
    <3>1. close(q).sig = q.sig
      BY <1>5 DEF close, Machines
    <3> QED
      BY <1>5, <3>1, CloseType, CallPlain
  <2> QED
    BY <1>4, <2>1
<1> HIDE DEF k
<1>7. Bare(r)
  BY <1>5, <1>6
<1> HIDE DEF r
<1>8. Bare(t)
  BY <1>7, UpdateType, UpdateFrame, CallPlain
<1>9. ConnectedFinished(m, o) = processNextAction(t)
  BY DEF ConnectedFinished, t, r, k, q, p, e, w, i
<1> HIDE DEF t
<1> QED
  BY <1>8, <1>9, ProcessPlain

LEMMA ReadyPlain ==
  ASSUME NEW m \in Machines, NEW o \in OutcomeSet, m.sig = "none"
  PROVE  LET n == tls_resultsReady(m, o)
         IN /\ n.c.plain \in {0, o.c.plain}
            /\ m.d.op # "start" /\ m.d.state = "Inactive" /\ o.res # "Error" => n.c.plain = 0
<1> DEFINE n == [m EXCEPT !.c = o.c, !.d.op = "none"]
           s == [n EXCEPT !.d.state = "Handshaking", !.d.maybe_input = TRUE]
           t == [n EXCEPT !.io.to_net = @ + o.toNet]
           u == Enqueue(t, When(o.toNet > 0, "ReadyReadOutgoing"))
           Same(x) == x \in Machines /\ x.sig = "none" /\ x.c = o.c
<1>1. Same(n) /\ n.d.state = m.d.state
  <2>1. o.c \in Contexts
    BY DEF OutcomeSet, Answered
  <2> QED
    BY <2>1 DEF Machines, Privates
<1>2. tls_resultsReady(m, o) = IF m.d.op = "start" THEN start_finished(n, o) ELSE update_finished(n, o)
  BY DEF tls_resultsReady
<1> HIDE DEF n
<1>3. Same(s)
  BY <1>1 DEF Machines, Privates, States
<1>4. Same(t) /\ t.d = n.d
  <2>1. ASSUME NEW k \in Nat
        PROVE  /\ [n EXCEPT !.io.to_net = k] \in Machines /\ [n EXCEPT !.io.to_net = k].sig = n.sig
               /\ [n EXCEPT !.io.to_net = k].c = n.c /\ [n EXCEPT !.io.to_net = k].d = n.d
    BY <1>1 DEF Machines, Buffers
  <2>2. n.io.to_net + o.toNet \in Nat
    BY <1>1, MachineFacts DEF Buffers, OutcomeSet
  <2> QED
    BY <1>1, <2>1, <2>2
<1>5. \A e : Failed(n, e).c.plain = o.c.plain
  BY <1>1, CallPlain
<1>6. start_finished(n, o).c.plain = o.c.plain
  BY <1>3, <1>5, CallPlain DEF start_finished
<1> HIDE DEF s, t
<1>7. ASSUME NEW x, Same(x), NEW as \in Seq(Actions)
      PROVE  /\ Same(Enqueue(x, as)) /\ Enqueue(x, as).d.state = x.d.state
             /\ processNextAction(Enqueue(x, as)).c.plain = o.c.plain
  <2>1. Same(Enqueue(x, as)) /\ Enqueue(x, as).d.state = x.d.state
    BY <1>7, EnqueueType, EnqueueFrame
  <2> QED
    BY <2>1, ProcessPlain
<1>8. Same(u) /\ u.d.state = m.d.state
  <2>1. When(o.toNet > 0, "ReadyReadOutgoing") \in Seq(Actions)
    BY WhenType, (o.toNet > 0) \in BOOLEAN DEF Actions
  <2> QED
    BY <1>1, <1>4, <1>7, <2>1
<1> HIDE DEF u
<1>9. ClosingFinished(u, o).c.plain = o.c.plain
  <2>1. When(o.res = "Success", "Close") \in Seq(Actions)
    BY WhenType, (o.res = "Success") \in BOOLEAN DEF Actions
  <2> QED
    BY <1>7, <1>8, <2>1 DEF ClosingFinished
<1>10. HandshakingFinished(u, o).c.plain = o.c.plain
  <2>1. ASSUME NEW h \in BOOLEAN, NEW b \in BOOLEAN
        PROVE  Same([u EXCEPT !.d.host = h, !.d.need_update = b])
    BY <1>8 DEF Machines, Privates
  <2>2. ASSUME NEW b1 \in BOOLEAN, NEW b2 \in BOOLEAN, NEW b3 \in BOOLEAN, NEW b4 \in BOOLEAN
        PROVE  When(b1, "HostNameReceived") \o When(b2, "CheckPeerCertificate")
               \o When(b3, "CertificateRequested") \o When(b4, "Handshaken") \in Seq(Actions)
    BY HandshakeActions
  <2>3. u.c.sni \in BOOLEAN /\ u.d.host \in BOOLEAN /\ u.d.need_update \in BOOLEAN
    BY <1>8, MachineFacts DEF Contexts, Privates
  <2> DEFINE Good(x) == x.c.plain = o.c.plain
  <2>4. ASSUME NEW h \in BOOLEAN, NEW b \in BOOLEAN, NEW b1 \in BOOLEAN, NEW b2 \in BOOLEAN,
               NEW b3 \in BOOLEAN, NEW b4 \in BOOLEAN
        PROVE  Good(processNextAction(Enqueue(
                 [u EXCEPT !.d.host = h, !.d.need_update = b],
                 When(b1, "HostNameReceived") \o When(b2, "CheckPeerCertificate")
                 \o When(b3, "CertificateRequested") \o When(b4, "Handshaken"))))
    <3> DEFINE x == [u EXCEPT !.d.host = h, !.d.need_update = b]
               as == When(b1, "HostNameReceived") \o When(b2, "CheckPeerCertificate")
                     \o When(b3, "CertificateRequested") \o When(b4, "Handshaken")
    <3>1. Same(x) /\ as \in Seq(Actions)
      BY <2>1, <2>2
    <3> HIDE DEF x, as
    <3>2. Good(processNextAction(Enqueue(x, as)))
      BY <1>7, <3>1
    <3> HIDE DEF Good
    <3> QED
      BY <3>2 DEF x, as
  <2> HIDE DEF Good
  <2>5. Good(HandshakingFinished(u, o))
    BY <2>3, <2>4, ZenonT(40) DEF HandshakingFinished
  <2> QED
    BY <2>5 DEF Good
<1>11. ConnectedFinished(u, o).c.plain = 0
  BY <1>8, ConnectedPlain
<1>12. /\ update_finished(n, o).c.plain \in {0, o.c.plain}
       /\ m.d.state = "Inactive" /\ o.res # "Error" => update_finished(n, o).c.plain = 0
  <2>1. /\ o.res = "Error" => update_finished(n, o) =
             Failed(n, IF n.d.state \in {"Handshaking", "Closing"} THEN "Handshake" ELSE "Crypt")
        /\ o.res # "Error" /\ m.d.state = "Closing" => update_finished(n, o) = ClosingFinished(u, o)
        /\ o.res # "Error" /\ m.d.state = "Handshaking" => update_finished(n, o) = HandshakingFinished(u, o)
        /\ o.res # "Error" /\ m.d.state \notin {"Closing", "Handshaking"} =>
              update_finished(n, o) = ConnectedFinished(u, o)
    BY <1>1 DEF update_finished, u, t
  <2> QED
    BY <1>5, <1>9, <1>10, <1>11, <2>1
<1> QED
  BY <1>2, <1>6, <1>12

------------------------------------------------------------------------------
(* Every step of TLS is a step of SecureSession                            *)

(* Data that are left over come from an open session and are told of once  *)
LeftKept == c'.plain > 0 => c.plain > 0 \/ d.state \in {"Connected", "Closing"}

LateStep ==
    d.state = "Inactive" /\ d'.state = "Inactive" /\ sig' = "readyRead"
    /\ c.plain > 0 /\ ~(c'.plain > 0)

LEMMA AllowedIsSession ==
  ASSUME d.state \in States, d'.state \in States,
         Allowed(d.state, d'.state, sig') \/ LateStep, LeftKept
  PROVE  Session!Next
<1> DEFINE a == PhaseOf(d.state)
           z == PhaseOf(d'.state)
<1>1. /\ d.state = "Inactive" => a = "idle"
      /\ d.state \in {"Initializing", "Handshaking"} => a = "negotiating"
      /\ d.state = "Connected" => a = "open"
      /\ d.state = "Closing" => a = "ending"
  BY DEF PhaseOf
<1>2. /\ d'.state = "Inactive" => z = "idle"
      /\ d'.state \in {"Initializing", "Handshaking"} => z = "negotiating"
      /\ d'.state = "Connected" => z = "open"
      /\ d'.state = "Closing" => z = "ending"
  BY DEF PhaseOf
<1>3. d.state = d'.state => a = z
  OBVIOUS
<1>4. a # "idle" <=> d.state # "Inactive"
  BY <1>1 DEF States
<1>5. PhaseOf(d.state)' = z
  OBVIOUS
<1>0. c'.plain > 0 => c.plain > 0 \/ PhaseOf(d.state) \in {"open", "ending"}
  BY <1>1 DEF LeftKept
<1> HIDE DEF a, z
<1>6. CASE sig' = "none" /\ d'.state = d.state
  BY <1>3, <1>5, <1>6, <1>0 DEF Session!Next, Session!Silent, a
<1>7. CASE sig' = "none" /\ d'.state = "Inactive"
  BY <1>2, <1>5, <1>7, <1>0 DEF Session!Next, Session!Abandon
<1>8. CASE sig' = "none" /\ d'.state = "Initializing"
  BY <1>2, <1>5, <1>8, <1>0 DEF Session!Next, Session!Begin
<1>9. CASE sig' = "none" /\ d.state = "Initializing" /\ d'.state = "Handshaking"
  BY <1>2, <1>5, <1>9, <1>0 DEF Session!Next, Session!Begin
<1>10. CASE d.state = "Handshaking" /\ d'.state = d.state
            /\ sig' \in {"hostNameReceived", "certificateRequested",
                         "peerCertificateAvailable", "readyReadOutgoing"}
  BY <1>1, <1>3, <1>5, <1>10, <1>0 DEF Session!Next, Session!Negotiate, a
<1>11. CASE d.state = "Handshaking" /\ d'.state = "Connected" /\ sig' \in {"handshaken", "none"}
  BY <1>1, <1>2, <1>5, <1>11, <1>0 DEF Session!Next, Session!Establish, a
<1>12. CASE d.state \in {"Connected", "Closing"} /\ d'.state = d.state
            /\ sig' \in {"readyRead", "readyReadOutgoing"}
  BY <1>1, <1>3, <1>5, <1>12, <1>0 DEF Session!Next, Session!Transfer, a
<1>13. CASE d.state = "Connected" /\ d'.state = "Closing"
            /\ sig' \in {"readyRead", "readyReadOutgoing", "none"}
  BY <1>1, <1>2, <1>5, <1>13, <1>0 DEF Session!Next, Session!ShutDown, a
<1>14. CASE d.state = "Closing" /\ d'.state = "Inactive" /\ sig' = "closed"
  BY <1>1, <1>2, <1>5, <1>14, <1>0 DEF Session!Next, Session!Finish, a
<1>15. CASE d.state # "Inactive" /\ d'.state = "Inactive" /\ sig' = "error"
  BY <1>2, <1>4, <1>5, <1>15, <1>0 DEF Session!Next, Session!Fail, a
<1>16. CASE LateStep
  <2>1. /\ PhaseOf(d.state) = "idle" /\ PhaseOf(d.state)' = "idle" /\ sig' = "readyRead"
        /\ c.plain > 0 /\ ~(c'.plain > 0)
    BY <1>1, <1>2, <1>5, <1>16 DEF LateStep, a
  <2> QED
    BY <1>0, <2>1 DEF Session!Next, Session!Late
<1> QED
  BY <1>6, <1>7, <1>8, <1>9, <1>10, <1>11, <1>12, <1>13, <1>14, <1>15, <1>16 DEF Allowed

(* What a step has to show: the shape is kept and the signal is allowed    *)
ShapeKept == Shape(Now)' /\ (Allowed(d.state, d'.state, sig') \/ LateStep)

LEMMA BecomeKept ==
  ASSUME NEW m, Result(d.state, m), Become(m)
  PROVE  ShapeKept
<1>1. Now'.d = m.d /\ Now'.c = m.c /\ d'.state = m.d.state /\ sig' = m.sig
  BY DEF Now, Become
<1> QED
  BY <1>1 DEF ShapeKept, Result, Shape

LEMMA QuietKept ==
  ASSUME Shape(Now), d' = d, c' = c, sig' = "none"
  PROVE  ShapeKept
<1>1. Now'.d = Now.d /\ Now'.c = Now.c
  BY DEF Now
<1> QED
  BY <1>1 DEF ShapeKept, Shape, Allowed

LEMMA StartResult ==
  ASSUME NEW m \in Machines, m.sig = "none", NEW b \in BOOLEAN, NEW h \in BOOLEAN, NEW s
  PROVE  /\ Result(s, start(ResetSessionAndData(m), b))
         /\ Result(s, start([ResetSessionAndData(m) EXCEPT !.d.host = h], b))
<1>1. ASSUME NEW x \in Machines, x.d.actionQueue = <<>>, x.sig = "none", x.c.mode = "Idle"
      PROVE  Result(s, start(x, b))
  <2> DEFINE n == start(x, b)
  <2>1. n.d.state = "Initializing" /\ n.d.op = "start" /\ n.d.actionQueue = <<>> /\ n.sig = "none"
    BY <1>1 DEF start, Machines, Privates
  <2>3. n.c = CStart(x.c, b)
    BY <1>1 DEF start, Machines
  <2>4. CStart(x.c, b).mode = "Idle" /\ CStart(x.c, b).req.kind = "start"
    BY <1>1, MachineFacts DEF CStart, Contexts
  <2> HIDE DEF n
  <2>2. Result(s, n)
    BY <2>1, <2>3, <2>4 DEF Result, Shape, Queue, Allowed, Keyed
  <2> QED
    BY <2>2 DEF n
<1> DEFINE r == ResetSessionAndData(m)
<1>2. r \in Machines /\ r.d.actionQueue = <<>> /\ r.sig = "none" /\ r.c.mode = "Idle"
  BY ResetType, ResetShape DEF InitPrivate
<1> HIDE DEF r
<1>3. /\ [r EXCEPT !.d.host = h] \in Machines /\ [r EXCEPT !.d.host = h].d.actionQueue = <<>>
      /\ [r EXCEPT !.d.host = h].sig = "none" /\ [r EXCEPT !.d.host = h].c.mode = "Idle"
  BY <1>2 DEF Machines, Privates
<1> QED
  BY <1>1, <1>2, <1>3 DEF r

LEMMA UpdateResult ==
  ASSUME NEW m \in Machines, NEW n \in Machines, Shape(m), Frame(n, m), n.sig = "none"
  PROVE  Result(m.d.state, update(n))
<1>1. Shape(n) /\ n.d.state = m.d.state
  BY FrameShape DEF Frame
<1>2. Shape(update(n)) /\ update(n).d.state = m.d.state /\ update(n).sig = "none"
  BY <1>1, UpdateShape, UpdateFrame
<1> QED
  BY <1>2 DEF Result, Allowed


LEMMA StepKept ==
  ASSUME SInv, [Next]_vars
  PROVE  ShapeKept \/ UNCHANGED vars
<1>0. Now \in Machines /\ Sound(Now) /\ Shape(Now) /\ Now.sig = "none" /\ Now.d = d /\ Now.c = c
      /\ Now.io = io
  BY NowType DEF SInv, Now
<1>15. ASSUME NEW k \in Unannounced(c) PROVE With(k) \in Machines /\ With(k).sig = "none"
  <2>1. With(k) \in Machines
    BY WithType DEF SInv
  <2>2. With(k).sig = "none"
    BY DEF With, Now
  <2> QED
    BY <2>1, <2>2
<1>1. ASSUME NEW h \in Hosts, startClient(h) PROVE ShapeKept
  <2>1. h \in BOOLEAN /\ FALSE \in BOOLEAN
    BY TLSAssumption
  <2> QED
    BY <1>1, <1>15, <2>1, StartResult, BecomeKept DEF startClient
<1>2. CASE startServer
  BY <1>2, <1>15, StartResult, BecomeKept DEF startServer
<1>3. CASE Reset
  <2>0. PICK k \in Unannounced(c) : Become(ResetSessionAndData(With(k)))
    BY <1>3 DEF Reset
  <2> DEFINE m == ResetSessionAndData(With(k))
  <2>1. Result(d.state, m)
    BY <1>15, ResetShape DEF Result, Allowed
  <2> HIDE DEF m
  <2>2. Become(m)
    BY <2>0 DEF m
  <2> QED
    BY <2>1, <2>2, BecomeKept
<1>4. ASSUME NEW n, n \in Machines, Frame(n, Now), n.sig = "none", Become(update(n)) PROVE ShapeKept
  <2>1. Result(d.state, update(n))
    BY <1>0, <1>4, UpdateResult
  <2> QED
    BY <1>4, <2>1, BecomeKept
<1>5. CASE continueAfterStep
  <2> DEFINE n == [Now EXCEPT !.d.blocked = FALSE]
  <2>1. n \in Machines
    BY <1>0 DEF Machines, Privates
  <2>2. Frame(n, Now) /\ n.sig = "none"
    BY <1>0, FieldFrame
  <2>3. Become(update(n))
    BY <1>5 DEF continueAfterStep
  <2> HIDE DEF n
  <2> QED
    BY <1>4, <2>1, <2>2, <2>3
<1>6. CASE Close
  <2> DEFINE m == close(Now)
  <2>1. /\ m \in Machines /\ Shape(m) /\ m.sig = "none"
        /\ m.d.state = d.state \/ (d.state = "Connected" /\ m.d.state = "Closing")
    BY <1>0, CloseType, CloseResult
  <2>2. Become(update(m))
    BY <1>6 DEF Close
  <2> HIDE DEF m
  <2>3. Shape(update(m)) /\ update(m).d.state = m.d.state /\ update(m).sig = "none"
    BY <2>1, UpdateShape, UpdateFrame
  <2>4. Result(d.state, update(m))
    BY <2>1, <2>3 DEF Result, Allowed
  <2> QED
    BY <2>2, <2>4, BecomeKept
<1>7. CASE Write
  <2> DEFINE a == io.out + 1
             n == [Now EXCEPT !.io.out = a]
  <2>1. a \in Nat
    BY DEF SInv, TypeOK, Buffers
  <2>2. Become(update(n))
    BY <1>0, <1>7 DEF Write, Machines, Buffers
  <2> HIDE DEF a
  <2>3. n \in Machines /\ Frame(n, Now) /\ n.sig = "none"
    BY <1>0, <2>1, BufferType, FieldFrame
  <2> HIDE DEF n
  <2> QED
    BY <1>4, <2>2, <2>3
<1>8. CASE WriteIncoming
  <2> DEFINE a == io.from_net + 1
             n == [Now EXCEPT !.io.from_net = a]
  <2>1. a \in Nat
    BY DEF SInv, TypeOK, Buffers
  <2>2. Become(update(n))
    BY <1>0, <1>8 DEF WriteIncoming, Machines, Buffers
  <2> HIDE DEF a
  <2>3. n \in Machines /\ Frame(n, Now) /\ n.sig = "none"
    BY <1>0, <2>1, BufferType, FieldFrame
  <2> HIDE DEF n
  <2> QED
    BY <1>4, <2>2, <2>3
<1>9. CASE Read \/ ReadOutgoing \/ ReadUnprocessed
  <2>1. d' = d /\ c' = c /\ sig' = "none"
    BY <1>9 DEF Read, ReadOutgoing, ReadUnprocessed, Become, Now
  <2> QED
    BY <1>0, <2>1, QuietKept
<1>10. CASE \E s \in Signals : connectNotify(s) \/ disconnectNotify(s)
  BY <1>0, <1>10, QuietKept DEF connectNotify, disconnectNotify
<1>11. CASE ResultsReady
  <2>1. PICK o \in Outcomes(c) : Become(tls_resultsReady(Now, o))
    BY <1>11 DEF ResultsReady
  <2> DEFINE m == tls_resultsReady(Now, o)
  <2>2. Result(d.state, m) \/ (d.state = "Inactive" /\ c.plain > 0 /\ LateResult(m))
    BY <1>0, ReadyResult
  <2>3. CASE Result(d.state, m)
    BY <2>1, <2>3, BecomeKept
  <2>4. CASE d.state = "Inactive" /\ c.plain > 0 /\ LateResult(m)
    <3>1. o \in OutcomeSet /\ c \in Contexts /\ Dormant(c)
      BY <1>0, <2>4, OutcomesType DEF SInv, TypeOK, Shape
    <3>2. o.res = "Continue" /\ d.op # "start"
      BY <1>0, <2>4, <3>1, DormantOutcome DEF Shape
    <3>3. m.c.plain = 0
      BY <1>0, <2>4, <3>1, <3>2, ReadyPlain
    <3> HIDE DEF m
    <3>4. Now'.d = m.d /\ Now'.c = m.c /\ d'.state = m.d.state /\ sig' = m.sig /\ c' = m.c
      BY <2>1 DEF Now, Become, m
    <3>5. Shape(Now)'
      BY <2>4, <3>4 DEF LateResult, Shape
    <3>6. LateStep
      BY <2>4, <3>3, <3>4 DEF LateResult, LateStep
    <3> QED
      BY <3>5, <3>6 DEF ShapeKept
  <2> QED
    BY <2>2, <2>3, <2>4
<1>12. CASE ResultsUnannounced
  <2>1. PICK o \in Outcomes(c) : ~Announced(c, o) /\ c' = o.c /\ sig' = "none" /\ d' = d
    BY <1>12 DEF ResultsUnannounced
  <2>2. c \in Contexts
    BY DEF SInv, TypeOK
  <2>3. Dormant(c) => Dormant(o.c)
    BY <2>2, DormantOutcome
  <2>4. Now'.d = d /\ Now'.c = o.c
    BY <2>1 DEF Now
  <2>6. o.c.req.kind = "none" /\ o.c.mode = "Idle"
    BY <2>1, <2>2, OutcomesType DEF OutcomeSet, Answered, Announced
  <2>7. Keyed(d, o.c)
    BY <2>6 DEF Keyed
  <2>5. Shape(Now)'
    BY <1>0, <2>3, <2>4, <2>7 DEF Shape
  <2> QED
    BY <2>1, <2>5 DEF ShapeKept, Allowed
<1>13. CASE doNextAction
  <2> DEFINE n == [Now EXCEPT !.d.trigger = FALSE]
  <2>1. n \in Machines /\ n.d.blocked = Now.d.blocked
    BY <1>0 DEF Machines, Privates
  <2>2. Frame(n, Now) /\ n.sig = "none"
    BY <1>0, FieldFrame
  <2>3. Become(processNextAction(n))
    BY <1>13 DEF doNextAction
  <2> HIDE DEF n
  <2>4. Sound(n) /\ Shape(n) /\ n.d.state = d.state
    BY <1>0, <2>1, <2>2, FrameShape DEF Frame, Sound
  <2>5. Result(d.state, processNextAction(n))
    BY <2>1, <2>2, <2>4, ProcessResult
  <2> QED
    BY <2>3, <2>5, BecomeKept
<1>14. CASE tls_dtlsTimeout
  <2> DEFINE n == [Now EXCEPT !.d.maybe_input = TRUE]
  <2>1. n \in Machines
    BY <1>0 DEF Machines, Privates
  <2>2. Frame(n, Now) /\ n.sig = "none"
    BY <1>0, FieldFrame
  <2>3. Become(update(n))
    BY <1>14 DEF tls_dtlsTimeout
  <2> HIDE DEF n
  <2> QED
    BY <1>4, <2>1, <2>2, <2>3
<1> QED
  BY <1>1, <1>2, <1>3, <1>5, <1>6, <1>7, <1>8, <1>9, <1>10, <1>11, <1>12, <1>13, <1>14 DEF Next

LEMMA BecomeLeft ==
  ASSUME NEW m, m.c.plain > 0 => c.plain > 0 \/ d.state \in {"Connected", "Closing"}, Become(m)
  PROVE  LeftKept
  BY DEF LeftKept, Become

LEMMA StepLeft ==
  ASSUME SInv, [Next]_vars
  PROVE  LeftKept
<1>0. Now \in Machines /\ Now.sig = "none" /\ Now.c = c /\ Now.d = d /\ Now.io = io
      /\ c \in Contexts /\ Keyed(d, c)
  BY NowType DEF SInv, Now, Shape, TypeOK
<1>1. ASSUME NEW k \in Unannounced(c)
      PROVE  /\ With(k) \in Machines
             /\ With(k).c.plain > 0 => c.plain > 0 \/ d.state \in {"Connected", "Closing"}
  <2>1. With(k) \in Machines
    BY WithType DEF SInv
  <2>2. With(k).c = k
    BY DEF With, Now
  <2> QED
    BY <1>0, <2>1, <2>2, UnannouncedPlain DEF Keyed
<1>2. ASSUME NEW k \in Unannounced(c)
      PROVE  /\ ResetSessionAndData(With(k)).c.plain = With(k).c.plain
             /\ start(ResetSessionAndData(With(k)), TRUE).c.plain = With(k).c.plain
             /\ \A h \in BOOLEAN : start([ResetSessionAndData(With(k)) EXCEPT !.d.host = h], FALSE).c.plain
                                    = With(k).c.plain
  <2> DEFINE r == ResetSessionAndData(With(k))
  <2>1. r \in Machines /\ r.c.plain = With(k).c.plain
    BY <1>1, ResetType, CallPlain
  <2> HIDE DEF r
  <2>2. ASSUME NEW h \in BOOLEAN
        PROVE  [r EXCEPT !.d.host = h] \in Machines /\ [r EXCEPT !.d.host = h].c = r.c
    BY <2>1 DEF Machines, Privates
  <2>3. ASSUME NEW h \in BOOLEAN
        PROVE  start([r EXCEPT !.d.host = h], FALSE).c.plain = r.c.plain
    <3> DEFINE x == [r EXCEPT !.d.host = h]
    <3>1. x \in Machines /\ x.c = r.c
      BY <2>2
    <3> HIDE DEF x
    <3>2. start(x, FALSE).c.plain = r.c.plain
      BY <3>1, StartPlain
    <3> QED
      BY <3>2, Zenon DEF x
  <2>4. start(r, TRUE).c.plain = r.c.plain
    BY <2>1, StartPlain
  <2> QED
    BY <2>1, <2>3, <2>4 DEF r
<1>3. ASSUME NEW h \in Hosts, startClient(h) PROVE LeftKept
  <2>1. PICK k \in Unannounced(c) :
           Become(start([ResetSessionAndData(With(k)) EXCEPT !.d.host = h], FALSE))
    BY <1>3 DEF startClient
  <2>2. h \in BOOLEAN
    BY TLSAssumption
  <2> QED
    BY <1>1, <1>2, <2>1, <2>2, BecomeLeft
<1>4. CASE startServer
  <2>1. PICK k \in Unannounced(c) : Become(start(ResetSessionAndData(With(k)), TRUE))
    BY <1>4 DEF startServer
  <2> QED
    BY <1>1, <1>2, <2>1, BecomeLeft
<1>5. CASE Reset
  <2>1. PICK k \in Unannounced(c) : Become(ResetSessionAndData(With(k)))
    BY <1>5 DEF Reset
  <2> QED
    BY <1>1, <1>2, <2>1, BecomeLeft
<1>6. ASSUME NEW n, n \in Machines, n.c = c, Become(update(n)) PROVE LeftKept
  BY <1>6, CallPlain, BecomeLeft
<1>7. CASE Close
  <2>1. close(Now) \in Machines /\ close(Now).c.plain = c.plain
    BY <1>0, CloseType, CallPlain
  <2>2. update(close(Now)).c.plain = c.plain
    BY <2>1, CallPlain
  <2> QED
    BY <1>7, <2>2, BecomeLeft DEF Close
<1>8. CASE continueAfterStep
  <2> DEFINE n == [Now EXCEPT !.d.blocked = FALSE]
  <2>1. n \in Machines /\ n.c = c
    BY <1>0 DEF Machines, Privates
  <2> QED
    BY <1>6, <1>8, <2>1 DEF continueAfterStep
<1>9. CASE Write
  <2> DEFINE a == io.out + 1
             n == [Now EXCEPT !.io.out = a]
  <2>1. a \in Nat
    BY DEF SInv, TypeOK, Buffers
  <2>2. Become(update(n))
    BY <1>0, <1>9 DEF Write, Machines, Buffers
  <2> HIDE DEF a
  <2>3. n \in Machines /\ n.c = c
    BY <1>0, <2>1, BufferType DEF Machines
  <2> QED
    BY <1>6, <2>2, <2>3
<1>10. CASE WriteIncoming
  <2> DEFINE a == io.from_net + 1
             n == [Now EXCEPT !.io.from_net = a]
  <2>1. a \in Nat
    BY DEF SInv, TypeOK, Buffers
  <2>2. Become(update(n))
    BY <1>0, <1>10 DEF WriteIncoming, Machines, Buffers
  <2> HIDE DEF a
  <2>3. n \in Machines /\ n.c = c
    BY <1>0, <2>1, BufferType DEF Machines
  <2> QED
    BY <1>6, <2>2, <2>3
<1>11. CASE \/ Read \/ ReadOutgoing \/ ReadUnprocessed
            \/ \E s \in Signals : connectNotify(s) \/ disconnectNotify(s)
            \/ UNCHANGED vars
  <2>1. c' = c
    BY <1>0, <1>11 DEF Read, ReadOutgoing, ReadUnprocessed, connectNotify,
       disconnectNotify, vars, Become, Now
  <2> QED
    BY <2>1 DEF LeftKept
<1>12. ASSUME NEW o \in Outcomes(c), o.c.plain > 0
       PROVE  c.plain > 0 \/ d.state \in {"Connected", "Closing"}
  BY <1>0, <1>12, OutcomePlain DEF Keyed
<1>13. CASE ResultsReady
  <2>1. PICK o \in Outcomes(c) : Become(tls_resultsReady(Now, o))
    BY <1>13 DEF ResultsReady
  <2>2. o \in OutcomeSet
    BY <1>0, OutcomesType
  <2>3. tls_resultsReady(Now, o).c.plain \in {0, o.c.plain}
    BY <1>0, <2>2, ReadyPlain
  <2> QED
    BY <1>12, <2>1, <2>3, BecomeLeft
<1>14. CASE ResultsUnannounced
  BY <1>12, <1>14 DEF ResultsUnannounced, LeftKept
<1>15. CASE doNextAction
  <2> DEFINE n == [Now EXCEPT !.d.trigger = FALSE]
  <2>1. n \in Machines /\ n.c = c /\ n.sig = "none"
    BY <1>0 DEF Machines, Privates
  <2>2. Become(processNextAction(n))
    BY <1>15 DEF doNextAction
  <2> HIDE DEF n
  <2> QED
    BY <2>1, <2>2, ProcessPlain, BecomeLeft
<1>16. CASE tls_dtlsTimeout
  <2> DEFINE n == [Now EXCEPT !.d.maybe_input = TRUE]
  <2>1. n \in Machines /\ n.c = c
    BY <1>0 DEF Machines, Privates
  <2> QED
    BY <1>6, <1>16, <2>1 DEF tls_dtlsTimeout
<1> QED
  BY <1>3, <1>4, <1>5, <1>7, <1>8, <1>9, <1>10, <1>11, <1>13, <1>14, <1>15, <1>16 DEF Next

LEMMA ShapeIsKept == Spec => [](Shape(Now))
<1>1. Init => Shape(Now)
  BY DEF Init, Shape, Queue, InitPrivate, Now, Dormant, CInit, NoReq, Keyed
<1>2. TypeOK /\ (ResultsExpected /\ QuietDuringOp) /\ Shape(Now) /\ [Next]_vars => Shape(Now)'
  <2> SUFFICES ASSUME TypeOK, ResultsExpected /\ QuietDuringOp, Shape(Now), [Next]_vars
               PROVE  Shape(Now)'
    OBVIOUS
  <2>1. ShapeKept \/ UNCHANGED vars
    BY StepKept, NowSound DEF SInv
  <2>2. CASE UNCHANGED vars
    <3>1. Now' = Now
      BY <2>2 DEF vars, Now
    <3> QED
      BY <3>1 DEF Shape
  <2> QED
    BY <2>1, <2>2 DEF ShapeKept
<1> QED
  BY <1>1, <1>2, TypeCorrect, ResultsAreExpected, ProviderIsQuiet, PTL DEF Spec

(* TLS implements SecureSession, whatever its constants are: the phases of *)
(* a session and the signals it emits come in the order the documentation  *)
(* of SecureLayer gives them, in every interleaving of the application,    *)
(* the network, the trigger and the provider, but for the decoded data     *)
(* that a session which was open left unannounced and that readyRead()     *)
(* announces at most once after its end.                                   *)
THEOREM SignalsComeInOrder == Spec => SessionSpec
<1>1. Init => Session!Init
  BY DEF Init, InitPrivate, CInit, Session!Init, PhaseOf
<1>2. TypeOK /\ TypeOK' /\ (ResultsExpected /\ QuietDuringOp) /\ Shape(Now) /\ [Next]_vars
        => [Session!Next]_(Session!sessionVars)
  <2> SUFFICES ASSUME TypeOK, TypeOK', ResultsExpected /\ QuietDuringOp, Shape(Now), [Next]_vars
               PROVE  [Session!Next]_(Session!sessionVars)
    OBVIOUS
  <2>1. ShapeKept \/ UNCHANGED vars
    BY StepKept, NowSound DEF SInv
  <2>2. CASE UNCHANGED vars
    BY <2>2 DEF vars, Session!sessionVars
  <2>3. CASE ShapeKept
    <3>1. d.state \in States /\ d'.state \in States
      BY DEF TypeOK, Privates
    <3>2. LeftKept
      BY StepLeft, NowSound DEF SInv
    <3> QED
      BY <2>3, <3>1, <3>2, AllowedIsSession DEF ShapeKept
  <2> QED
    BY <2>1, <2>2, <2>3
<1> QED
  BY <1>1, <1>2, TypeCorrect, ResultsAreExpected, ProviderIsQuiet, ShapeIsKept, PTL
     DEF Spec, SessionSpec, Session!Spec

------------------------------------------------------------------------------
(* What class TLS promises in Stream mode, for every value of the other    *)
(* constants: proof that no work is left behind (NoStall) and that a       *)
(* client is told the truth about its peer (PeerIdentity).  Datagram mode  *)
(* is left out because the code does otherwise there: an update takes one  *)
(* packet and others may wait, and OsslDTLSContext does not announce a     *)
(* result that leaves it idle.                                             *)

(* The session fields and the provider tell the same story: which side it  *)
(* is, how far the handshake has come, in which mode the call the provider *)
(* works on was accepted, and whether the client hello has been reported.  *)
Handshake(D, x) ==
    /\ x.mode \in {"Handshake", "Active"}
    /\ x.mode = "Active" <=> Has(D.actionQueue, "Handshaken")
    /\ x.hello = "no" => /\ "hostNameReceived" \notin D.emitted
                         /\ ~Has(D.actionQueue, "HostNameReceived")

Accepted(D, x) ==
    x.req.kind = "update" =>
        /\ D.state = "Handshaking" => x.req.mode = "Handshake"
        /\ D.state = "Connected" => x.req.mode = "Active"
        /\ D.state = "Closing" => x.req.mode \in {"Active", "Closing", "Idle"}

Agree(D, x) ==
    /\ D.state # "Inactive" => D.server = x.server
    /\ D.state = "Initializing" => x.mode = "Idle" /\ x.hello = "no" /\ D.emitted = {}
    /\ D.state = "Handshaking" => Handshake(D, x)
    /\ D.state = "Connected" => x.mode = "Active"
    /\ D.state = "Closing" => x.mode \in {"Closing", "Idle"}
    /\ Accepted(D, x)
    /\ x.hello = "paused" => x.server /\ D.state = "Handshaking" /\ x.mode = "Handshake"

(* What a client knows of its peer: nothing yet, a certificate that is     *)
(* still to be looked at, or the verdict on the one the provider holds.    *)
Unseen(p) == p.peerCert = "none" /\ ~p.hostMismatch

Met(x) == x.hello # "no" \/ x.mode # "Handshake"

Checked(D, p, x) ==
    p.peerCert = x.cert /\ p.hostMismatch = (x.cert = "other" /\ D.host)

Stranger(D, p, x) ==
    /\ Unseen(p) /\ "peerCertificateAvailable" \notin D.emitted
    /\ Met(x) <=> Has(D.actionQueue, "CheckPeerCertificate")

Known(D, p, x) ==
    /\ D.state = "Initializing" => Unseen(p)
    /\ D.state \in {"Handshaking", "Connected", "Closing"} /\ ~D.server =>
         Stranger(D, p, x) \/ (Met(x) /\ Checked(D, p, x))

(* Who calls a provider that waits in the client hello *)
Awaited(D, x) ==
    x.hello = "paused" =>
        \/ D.op = "update"
        \/ Has(D.actionQueue, "HostNameReceived")
        \/ D.maybe_input

Resumed(D, x) ==
    x.hello = "paused" =>
        \/ D.op = "update"
        \/ Has(D.actionQueue, "HostNameReceived")
        \/ D.maybe_input /\ (D.blocked \/ D.need_update)

(* Data that wait are remembered *)
Noted(D, b) ==
    ~D.blocked =>
        /\ D.state # "Inactive" /\ b.from_net > 0 => D.need_update
        /\ D.state = "Connected" /\ b.out > 0 => D.need_update

(* The trigger is armed when something waits for it *)
Armed(D) ==
    /\ D.actionQueue # <<>> => D.trigger
    /\ D.need_update /\ ~D.blocked /\ D.op = "none" => D.trigger

Consistent(m) == Agree(m.d, m.c) /\ Known(m.d, m.peer, m.c)

Loose(m) == Consistent(m) /\ Resumed(m.d, m.c) /\ Noted(m.d, m.io)

Steady(m) == Loose(m) /\ Armed(m.d)

StreamInv == Steady(Now)


------------------------------------------------------------------------------
(* The queue                                                               *)

LEMMA HasFacts ==
  ASSUME NEW a, NEW p \in Seq(Actions), NEW q \in Seq(Actions)
  PROVE  /\ ~Has(<<>>, a)
         /\ Has(p \o q, a) <=> Has(p, a) \/ Has(q, a)
         /\ q # <<>> => (Has(q, a) <=> Head(q) = a \/ Has(Tail(q), a))
<1>1. ~Has(<<>>, a)
  BY DEF Has
<1>2. Has(p \o q, a) <=> Has(p, a) \/ Has(q, a)
  <2> DEFINE r == p \o q
  <2>1. /\ Len(r) = Len(p) + Len(q) /\ Len(p) \in Nat /\ Len(q) \in Nat
        /\ \A i \in 1..Len(r) : r[i] = IF i <= Len(p) THEN p[i] ELSE q[i - Len(p)]
    BY ConcatProperties
  <2> HIDE DEF r
  <2>2. ASSUME NEW i \in 1..Len(r), r[i] = a PROVE Has(p, a) \/ Has(q, a)
    <3>1. CASE i <= Len(p)
      BY <2>1, <2>2, <3>1 DEF Has
    <3>2. CASE i > Len(p)
      <4>1. i - Len(p) \in 1..Len(q) /\ q[i - Len(p)] = a
        BY <2>1, <2>2, <3>2
      <4> QED
        BY <4>1 DEF Has
    <3> QED
      BY <2>1, <3>1, <3>2
  <2>3. ASSUME NEW i \in 1..Len(p), p[i] = a PROVE Has(r, a)
    <3>1. i \in 1..Len(r) /\ r[i] = a
      BY <2>1, <2>3
    <3> QED
      BY <3>1 DEF Has
  <2>4. ASSUME NEW i \in 1..Len(q), q[i] = a PROVE Has(r, a)
    <3>1. i + Len(p) \in 1..Len(r) /\ ~(i + Len(p) <= Len(p)) /\ (i + Len(p)) - Len(p) = i
      BY <2>1
    <3>2. r[i + Len(p)] = a
      BY <2>1, <2>4, <3>1
    <3> QED
      BY <3>1, <3>2 DEF Has
  <2>5. Has(r, a) <=> Has(p, a) \/ Has(q, a)
    BY <2>2, <2>3, <2>4 DEF Has
  <2> QED
    BY <2>5 DEF r
<1>3. ASSUME q # <<>> PROVE Has(q, a) <=> Head(q) = a \/ Has(Tail(q), a)
  <2> DEFINE t == Tail(q)
  <2>1. /\ Len(t) = Len(q) - 1 /\ Len(q) \in Nat /\ Len(q) >= 1
        /\ Head(q) = q[1] /\ \A i \in 1..Len(t) : t[i] = q[i + 1]
    BY <1>3, HeadTailProperties
  <2> HIDE DEF t
  <2>2. ASSUME NEW i \in 1..Len(q), q[i] = a PROVE q[1] = a \/ Has(t, a)
    <3>1. CASE i = 1
      BY <2>2, <3>1
    <3>2. CASE i # 1
      <4>1. i - 1 \in 1..Len(t) /\ (i - 1) + 1 = i
        BY <2>1, <3>2
      <4>2. t[i - 1] = a
        BY <2>1, <2>2, <4>1
      <4> QED
        BY <4>1, <4>2 DEF Has
    <3> QED
      BY <3>1, <3>2
  <2>3. ASSUME NEW i \in 1..Len(t), t[i] = a PROVE Has(q, a)
    <3>1. i + 1 \in 1..Len(q) /\ q[i + 1] = a
      BY <2>1, <2>3
    <3> QED
      BY <3>1 DEF Has
  <2>4. q[1] = a => Has(q, a)
    <3>1. 1 \in 1..Len(q)
      BY <2>1
    <3> QED
      BY <3>1 DEF Has
  <2>5. Has(q, a) <=> q[1] = a \/ Has(t, a)
    BY <2>2, <2>3, <2>4 DEF Has
  <2> QED
    BY <2>1, <2>5 DEF t
<1> QED
  BY <1>1, <1>2, <1>3

LEMMA HasWhen ==
  ASSUME NEW b \in BOOLEAN, NEW x, NEW a
  PROVE  Has(When(b, x), a) <=> b /\ x = a
<1>1. CASE b
  <2>1. When(b, x) = <<x>>
    BY <1>1 DEF When
  <2>2. Len(<<x>>) = 1 /\ <<x>>[1] = x /\ 1 \in 1..1 /\ \A i \in 1..1 : i = 1
    OBVIOUS
  <2> QED
    BY <1>1, <2>1, <2>2 DEF Has
<1>2. CASE ~b
  BY <1>2 DEF When, Has
<1> QED
  BY <1>1, <1>2

(* What waits after an update of the handshake *)
Announcements(b0, b1, b2, b3, b4) ==
    When(b0, "ReadyReadOutgoing") \o
      (When(b1, "HostNameReceived") \o When(b2, "CheckPeerCertificate")
       \o When(b3, "CertificateRequested") \o When(b4, "Handshaken"))

LEMMA HandshakeHas ==
  ASSUME NEW b0 \in BOOLEAN, NEW b1 \in BOOLEAN, NEW b2 \in BOOLEAN, NEW b3 \in BOOLEAN, NEW b4 \in BOOLEAN,
         NEW q, q = Announcements(b0, b1, b2, b3, b4)
  PROVE  /\ Has(q, "HostNameReceived") <=> b1
         /\ Has(q, "CheckPeerCertificate") <=> b2
         /\ Has(q, "Handshaken") <=> b4
<1> DEFINE w0 == When(b0, "ReadyReadOutgoing")
           w1 == When(b1, "HostNameReceived")
           w2 == When(b2, "CheckPeerCertificate")
           w3 == When(b3, "CertificateRequested")
           w4 == When(b4, "Handshaken")
           p2 == w1 \o w2
           p3 == p2 \o w3
           p4 == p3 \o w4
<1>1. /\ w0 \in Seq(Actions) /\ w1 \in Seq(Actions) /\ w2 \in Seq(Actions)
      /\ w3 \in Seq(Actions) /\ w4 \in Seq(Actions)
  <2>1. \A a \in Actions, b \in BOOLEAN : When(b, a) \in Seq(Actions)
    BY WhenType
  <2>2. {"ReadyReadOutgoing", "HostNameReceived", "CheckPeerCertificate", "CertificateRequested",
         "Handshaken"} \subseteq Actions
    BY DEF Actions
  <2> QED
    BY <2>1, <2>2
<1>2. \A a : /\ Has(w0, a) <=> b0 /\ "ReadyReadOutgoing" = a
             /\ Has(w1, a) <=> b1 /\ "HostNameReceived" = a
             /\ Has(w2, a) <=> b2 /\ "CheckPeerCertificate" = a
             /\ Has(w3, a) <=> b3 /\ "CertificateRequested" = a
             /\ Has(w4, a) <=> b4 /\ "Handshaken" = a
  BY HasWhen
<1>3. q = w0 \o p4
  BY DEF Announcements
<1> HIDE DEF w0, w1, w2, w3, w4
<1>4. p2 \in Seq(Actions) /\ \A a : Has(p2, a) <=> Has(w1, a) \/ Has(w2, a)
  BY <1>1, HasFacts, ConcatProperties
<1> HIDE DEF p2
<1>5. p3 \in Seq(Actions) /\ \A a : Has(p3, a) <=> Has(p2, a) \/ Has(w3, a)
  BY <1>1, <1>4, HasFacts, ConcatProperties
<1> HIDE DEF p3
<1>6. p4 \in Seq(Actions) /\ \A a : Has(p4, a) <=> Has(p3, a) \/ Has(w4, a)
  BY <1>1, <1>5, HasFacts, ConcatProperties
<1> HIDE DEF p4
<1>7. \A a : Has(q, a) <=> Has(w0, a) \/ Has(p4, a)
  <2>1. \A a : Has(w0 \o p4, a) <=> Has(w0, a) \/ Has(p4, a)
    BY <1>1, <1>6, HasFacts
  <2> QED
    BY <1>3, <2>1
<1> QED
  BY <1>2, <1>4, <1>5, <1>6, <1>7


------------------------------------------------------------------------------
(* What the outcomes of the provider keep                                  *)

LEMMA GreetedKeeps ==
  ASSUME NEW x \in Contexts, NEW g \in Greeted(x)
  PROVE  /\ g \in Contexts /\ g.mode = x.mode /\ g.server = x.server
         /\ g.hello = "no" => x.hello = "no"
         /\ g.hello = "paused" => (x.server /\ x.hello = "no" /\ g.sni) \/ (~x.server /\ g = x)
         /\ ~x.server /\ x.hello # "no" => g = x
         /\ ~x.server /\ g.hello = "no" => g = x
<1>0. g \in Contexts
  BY GreetedFacts
<1>1. CASE g = x
  <2>1. x.server /\ x.hello = "paused" => FALSE
    <3> SUFFICES ASSUME x.server, x.hello = "paused" PROVE FALSE
      OBVIOUS
    <3>1. g = [x EXCEPT !.hello = "seen"]
      BY DEF Greeted, ClientHello
    <3>2. g.hello = "seen"
      BY <3>1 DEF Contexts
    <3> QED
      BY <1>1, <3>2
  <2> QED
    BY <1>0, <1>1, <2>1
<1>2. CASE x.server /\ g = [x EXCEPT !.hello = "seen"]
  BY <1>0, <1>2 DEF Contexts
<1>3. CASE x.server /\ x.hello = "no" /\ g = [x EXCEPT !.hello = "paused", !.sni = TRUE]
  BY <1>0, <1>3 DEF Contexts
<1>4. CASE ~x.server /\ x.hello = "no" /\ \E r \in BOOLEAN, k \in PeerCerts : g = HelloFrom(x, r, k)
  BY <1>0, <1>4 DEF Contexts, HelloFrom
<1>5. x.server => g = x \/ g = [x EXCEPT !.hello = "seen"]
                  \/ (x.hello = "no" /\ g = [x EXCEPT !.hello = "paused", !.sni = TRUE])
  BY DEF Greeted, ClientHello
<1>6. ~x.server => g = x \/ (x.hello = "no" /\ \E r \in BOOLEAN, k \in PeerCerts : g = HelloFrom(x, r, k))
  BY DEF Greeted, ServerHello
<1> QED
  BY <1>1, <1>2, <1>3, <1>4, <1>5, <1>6

LEMMA UnreadOutcome ==
  ASSUME NEW g \in Contexts, NEW b, NEW e, NEW n, NEW o, o = Outcome(e, n, Unread(b, g))
  PROVE  /\ o.res = e
         /\ o.c.server = g.server /\ o.c.mode = g.mode /\ o.c.hello = g.hello /\ o.c.sni = g.sni
         /\ o.c.cert = g.cert
<1>1. o.res = e /\ o.c = [Unread(b, g) EXCEPT !.req = NoReq]
  BY DEF Outcome
<1>2. Unread(b, g) = [g EXCEPT !.unread = b]
  BY DEF Unread
<1> QED
  BY <1>1, <1>2 DEF Contexts

LEMMA HandshakeKeeps ==
  ASSUME NEW x \in Contexts, x.req.kind = "update", x.req.mode = "Handshake", x.mode = "Handshake",
         x.hello = "paused" => x.server, NEW o \in Outcomes(x), o.res # "Error"
  PROVE  /\ o.res \in {"Continue", "Success"} /\ o.c.server = x.server
         /\ o.res = "Success" => o.c.mode = "Active"
         /\ o.res = "Continue" => o.c.mode = "Handshake"
         /\ o.c.hello = "no" => x.hello = "no"
         /\ o.c.hello = "paused" => x.hello = "no" /\ x.server /\ o.c.sni /\ o.res = "Continue"
         /\ ~x.server /\ x.hello # "no" => o.c.cert = x.cert
         /\ ~x.server /\ o.c.hello = "no" /\ o.res = "Continue" => o.c.cert = x.cert
<1>0. o \in HandshakeOutcomes(x)
  BY DEF Outcomes
<1>1. CASE \E n \in {0, 1}, g \in Greeted(x) :
               o = Outcome("Continue", n, Unread(Fed(x) /\ g.hello = "paused", g))
  <2>1. PICK n \in {0, 1}, g \in Greeted(x) :
               o = Outcome("Continue", n, Unread(Fed(x) /\ g.hello = "paused", g))
    BY <1>1
  <2>2. /\ g \in Contexts /\ g.mode = x.mode /\ g.server = x.server
        /\ g.hello = "no" => x.hello = "no"
        /\ g.hello = "paused" => (x.server /\ x.hello = "no" /\ g.sni) \/ (~x.server /\ g = x)
        /\ ~x.server /\ x.hello # "no" => g = x
        /\ ~x.server /\ g.hello = "no" => g = x
    BY GreetedKeeps
  <2>3. /\ o.res = "Continue"
        /\ o.c.server = g.server /\ o.c.mode = g.mode /\ o.c.hello = g.hello /\ o.c.sni = g.sni /\ o.c.cert = g.cert
    BY <2>1, <2>2, UnreadOutcome
  <2> QED
    BY <2>2, <2>3
<1>2. CASE \E n \in {0, 1}, g \in Agreed(x) : o = Outcome("Success", n, Unread(Fed(x), g))
  <2>1. PICK n \in {0, 1}, g \in Agreed(x) : o = Outcome("Success", n, Unread(Fed(x), g))
    BY <1>2
  <2>2. PICK y \in Greeted(x), k \in PeerCerts : g = Activate(y, k)
    BY DEF Agreed
  <2>3. IF g.server THEN g.hello = "seen" ELSE x.hello = "seen" => g.cert = x.cert
    BY DEF Agreed
  <2>4. /\ y \in Contexts /\ y.server = x.server
        /\ y.hello = "no" => x.hello = "no"
        /\ y.hello = "paused" => (x.server /\ x.hello = "no" /\ y.sni) \/ (~x.server /\ y = x)
    BY GreetedKeeps
  <2>5. g.server = y.server /\ g.hello = y.hello /\ g.mode = "Active"
    BY <2>2, <2>4 DEF Activate, Contexts
  <2>6. g \in Contexts
    BY AgreedFacts
  <2>7. /\ o.res = "Success"
        /\ o.c.server = g.server /\ o.c.mode = g.mode /\ o.c.hello = g.hello /\ o.c.cert = g.cert
    BY <2>1, <2>6, UnreadOutcome
  <2>9. ~x.server => x.hello \in {"no", "seen"}
    BY DEF Contexts
  <2> QED
    BY <2>3, <2>4, <2>5, <2>7, <2>9
<1>3. CASE o = Outcome("Error", 0, CReset(x))
  BY <1>3 DEF Outcome
<1> QED
  BY <1>0, <1>1, <1>2, <1>3 DEF HandshakeOutcomes

LEMMA TransferKeeps ==
  ASSUME NEW x \in Contexts, x.req.kind = "update", x.req.mode \in {"Active", "Closing", "Idle"},
         NEW o \in Outcomes(x), o.res # "Error"
  PROVE  /\ o.c.server = x.server /\ o.c.hello = x.hello /\ o.c.cert = x.cert
         /\ o.c.mode = x.mode \/ (x.req.mode = "Closing" /\ o.c.mode = "Idle")
<1>0. ASSUME NEW r, NEW n, NEW y \in Contexts, o = Outcome(r, n, y)
      PROVE  o.res = r /\ o.c.server = y.server /\ o.c.hello = y.hello /\ o.c.cert = y.cert /\ o.c.mode = y.mode
  BY <1>0 DEF Outcome, Contexts
<1>1. CASE x.req.mode = "Idle"
  <2>1. o = Outcome("Continue", 0, x)
    BY <1>1 DEF Outcomes, IdleOutcomes
  <2> QED
    BY <1>0, <2>1
<1>2. CASE x.req.mode = "Active"
  <2>0. o \in ActiveOutcomes(x)
    BY <1>2 DEF Outcomes
  <2>1. o # Outcome("Error", 0, x)
    BY DEF Outcome
  <2>2. PICK n \in {0, 1}, a \in {0, 1}, e \in BOOLEAN, k \in EncodedContexts(x) : o = Exchanged(n, a, e, k)
    BY <2>0, <2>1, ActiveCases
  <2>3. k \in Contexts
    BY EncodedFacts
  <2>4. k.server = x.server /\ k.hello = x.hello /\ k.cert = x.cert /\ k.mode = x.mode
    <3> DEFINE sum == x.sendQueue + x.req.app
    <3>1. \/ k = x
          \/ k = [x EXCEPT !.sendQueue = 0, !.encoded = sum]
          \/ k = [x EXCEPT !.sendQueue = sum, !.encoded = 0]
      BY DEF EncodedContexts, Contexts
    <3> HIDE DEF sum
    <3> QED
      BY <3>1 DEF Contexts
  <2> DEFINE f == k.eof \/ e
             u == Mode = "Datagram" /\ a = 1
             y == [k EXCEPT !.eof = f, !.plain = a, !.unread = u]
  <2>5. f \in BOOLEAN /\ u \in BOOLEAN
    BY <2>3 DEF Contexts
  <2>6. o = Outcome("Success", n, y)
    BY <2>2, <2>3 DEF Exchanged
  <2> HIDE DEF f, u
  <2>7. y \in Contexts /\ y.server = k.server /\ y.hello = k.hello /\ y.cert = k.cert /\ y.mode = k.mode
    BY <2>3, <2>5 DEF Contexts
  <2> HIDE DEF y
  <2> QED
    BY <1>0, <2>4, <2>6, <2>7
<1>3. CASE x.req.mode = "Closing"
  <2>0. o \in ClosingOutcomes(x)
    BY <1>3 DEF Outcomes
  <2>1. o # Outcome("Error", 0, CReset(x))
    BY DEF Outcome
  <2>2. CASE \E n \in {0, 1} : o = Outcome("Continue", n, [x EXCEPT !.notified = TRUE])
    <3> DEFINE y == [x EXCEPT !.notified = TRUE]
    <3>1. y \in Contexts /\ y.server = x.server /\ y.hello = x.hello /\ y.cert = x.cert /\ y.mode = x.mode
      BY DEF Contexts
    <3>2. PICK n \in {0, 1} : o = Outcome("Continue", n, y)
      BY <2>2
    <3> HIDE DEF y
    <3> QED
      BY <1>0, <3>1, <3>2
  <2>3. CASE \E n \in {0, 1}, r \in {0, 1} :
               o = Outcome("Success", n, [x EXCEPT !.mode = "Idle", !.notified = TRUE, !.rest = r])
    <3>1. PICK n \in {0, 1}, r \in {0, 1} :
               o = Outcome("Success", n, [x EXCEPT !.mode = "Idle", !.notified = TRUE, !.rest = r])
      BY <2>3
    <3> DEFINE y == [x EXCEPT !.mode = "Idle", !.notified = TRUE, !.rest = r]
    <3>2. y \in Contexts /\ y.server = x.server /\ y.hello = x.hello /\ y.cert = x.cert /\ y.mode = "Idle"
      BY DEF Contexts, CModes
    <3>3. o = Outcome("Success", n, y)
      BY <3>1
    <3> HIDE DEF y
    <3> QED
      BY <1>0, <1>3, <3>2, <3>3
  <2> QED
    BY <2>0, <2>1, <2>2, <2>3 DEF ClosingOutcomes
<1> QED
  BY <1>1, <1>2, <1>3


------------------------------------------------------------------------------
(* update() and the members it leaves alone                                *)

Kin(n, m) ==
    /\ n.d.state = m.d.state /\ n.d.server = m.d.server /\ n.d.host = m.d.host
    /\ n.d.actionQueue = m.d.actionQueue /\ n.d.emitted = m.d.emitted
    /\ n.peer = m.peer
    /\ n.c.mode = m.c.mode /\ n.c.req = m.c.req /\ n.c.server = m.c.server
    /\ n.c.hello = m.c.hello /\ n.c.cert = m.c.cert

LEMMA KinConsistent ==
  ASSUME NEW m, NEW n, Consistent(m), Kin(n, m)
  PROVE  Consistent(n)
<1>1. Agree(n.d, n.c)
  BY DEF Consistent, Kin, Agree, Handshake, Accepted
<1>2. Known(n.d, n.peer, n.c)
  BY DEF Consistent, Kin, Known, Stranger, Met, Checked
<1> QED
  BY <1>1, <1>2 DEF Consistent

LEMMA FieldKin ==
  ASSUME NEW m \in Machines, NEW b
  PROVE  /\ Kin([m EXCEPT !.d.need_update = b], m) /\ Kin([m EXCEPT !.d.maybe_input = b], m)
         /\ Kin([m EXCEPT !.d.blocked = b], m) /\ Kin([m EXCEPT !.d.trigger = b], m)
         /\ Kin([m EXCEPT !.io.out = b], m) /\ Kin([m EXCEPT !.io.from_net = b], m)
         /\ Kin([m EXCEPT !.io.in = b], m) /\ Kin([m EXCEPT !.io.to_net = b], m)
         /\ Kin([m EXCEPT !.sig = b], m)
<1>1. /\ Kin([m EXCEPT !.d.need_update = b], m) /\ Kin([m EXCEPT !.d.maybe_input = b], m)
      /\ Kin([m EXCEPT !.d.blocked = b], m) /\ Kin([m EXCEPT !.d.trigger = b], m)
  BY DEF Kin, Machines, Privates
<1>2. /\ Kin([m EXCEPT !.io.out = b], m) /\ Kin([m EXCEPT !.io.from_net = b], m)
      /\ Kin([m EXCEPT !.io.in = b], m) /\ Kin([m EXCEPT !.io.to_net = b], m)
      /\ Kin([m EXCEPT !.sig = b], m)
  BY DEF Kin, Machines
<1> QED
  BY <1>1, <1>2

LEMMA CallConsistent ==
  ASSUME NEW m \in Machines, Consistent(m), m.d.actionQueue = <<>>, NEW net \in Nat, NEW app \in Nat
  PROVE  Consistent(CallUpdate(m, net, app))
<1> DEFINE n == CallUpdate(m, net, app)
           x == CUpdate(m.c, net, app)
<1>1. /\ x.mode = m.c.mode /\ x.req.kind = "update" /\ x.req.mode = m.c.mode /\ x.server = m.c.server
      /\ x.hello = m.c.hello /\ x.cert = m.c.cert
  BY MachineFacts DEF CUpdate, Contexts
<1>2. n.c = x /\ n.peer = m.peer
  BY DEF CallUpdate, Machines
<1>3. /\ n.d.state = m.d.state /\ n.d.server = m.d.server /\ n.d.host = m.d.host
      /\ n.d.actionQueue = m.d.actionQueue /\ n.d.emitted = m.d.emitted
  BY MachineFacts DEF CallUpdate, Machines, Privates
<1> HIDE DEF n, x
<1>4. ~Has(<<>>, "Handshaken")
  BY DEF Has
<1>5. Accepted(n.d, n.c)
  BY <1>1, <1>2, <1>3, <1>4 DEF Accepted, Consistent, Agree, Handshake
<1>6. Agree(n.d, n.c)
  BY <1>1, <1>2, <1>3, <1>5 DEF Consistent, Agree, Handshake
<1>7. Known(n.d, n.peer, n.c)
  BY <1>1, <1>2, <1>3 DEF Consistent, Known, Stranger, Met, Checked
<1> QED
  BY <1>6, <1>7 DEF Consistent, n

(* In Stream mode an update takes everything that waits *)
LEMMA CallTakesAll ==
  ASSUME Mode = "Stream", NEW m \in Machines
  PROVE  LET n == CallUpdate(m, ArgNet(m), ArgApp(m))
         IN /\ n.io.from_net = 0 /\ (m.d.state # "Handshaking" => n.io.out = 0)
            /\ n.d.state = m.d.state /\ n.d.op = "update" /\ n.d.actionQueue = m.d.actionQueue
<1> DEFINE net == ArgNet(m)
           app == ArgApp(m)
           n == CallUpdate(m, net, app)
<1>1. net = m.io.from_net /\ (m.d.state # "Handshaking" => app = m.io.out)
  BY DEF ArgNet, ArgApp, Taken
<1>2. net \in Nat /\ app \in Nat /\ m.io.from_net - net = 0 /\ (m.d.state # "Handshaking" => m.io.out - app = 0)
  BY <1>1, ArgFacts, MachineFacts DEF Buffers
<1> HIDE DEF net, app
<1>3. n.io.from_net = m.io.from_net - net /\ n.io.out = m.io.out - app
  BY DEF CallUpdate, Machines, Buffers
<1>4. n.d.state = m.d.state /\ n.d.op = "update" /\ n.d.actionQueue = m.d.actionQueue
  BY MachineFacts DEF CallUpdate, Machines, Privates
<1> HIDE DEF n
<1> QED
  BY <1>2, <1>3, <1>4 DEF n, net, app

LEMMA UpdateLoose ==
  ASSUME Mode = "Stream", NEW m \in Machines, Consistent(m), Awaited(m.d, m.c)
  PROVE  /\ Loose(update(m))
         /\ (m.d.actionQueue # <<>> => m.d.trigger) => Armed(update(m).d)
<1>0. ~Has(<<>>, "HostNameReceived")
  BY DEF Has
<1>1. CASE m.d.blocked
  <2>1. update(m) = m
    BY <1>1 DEF update
  <2>2. Resumed(m.d, m.c) /\ Noted(m.d, m.io)
    BY <1>1 DEF Awaited, Resumed, Noted
  <2> QED
    BY <1>1, <2>1, <2>2 DEF Loose, Armed
<1>2. CASE ~m.d.blocked /\ (m.d.actionQueue # <<>> \/ m.d.op # "none")
  <2> DEFINE n == [m EXCEPT !.d.need_update = TRUE]
  <2>1. update(m) = n
    BY <1>2 DEF update
  <2>2. /\ n.d.need_update = TRUE /\ n.d.op = m.d.op /\ n.d.actionQueue = m.d.actionQueue
        /\ n.d.maybe_input = m.d.maybe_input /\ n.c = m.c /\ n.d.trigger = m.d.trigger
    BY DEF Machines, Privates
  <2>3. Consistent(n)
    BY FieldKin, KinConsistent
  <2> HIDE DEF n
  <2>4. Resumed(n.d, n.c) /\ Noted(n.d, n.io)
    BY <2>2 DEF Awaited, Resumed, Noted
  <2> QED
    BY <1>2, <2>1, <2>2, <2>3, <2>4 DEF Loose, Armed
<1>3. CASE /\ ~m.d.blocked /\ m.d.actionQueue = <<>> /\ m.d.op = "none"
           /\ ArgNet(m) = 0 /\ ArgApp(m) = 0 /\ ~m.d.maybe_input
  <2> DEFINE n == [m EXCEPT !.d.need_update = FALSE]
  <2>1. update(m) = n
    BY <1>3 DEF update
  <2>2. /\ n.d.need_update = FALSE /\ n.d.state = m.d.state /\ n.d.actionQueue = <<>>
        /\ n.c = m.c /\ n.io = m.io
    BY <1>3 DEF Machines, Privates
  <2>3. Consistent(n)
    BY FieldKin, KinConsistent
  <2>4. n.io.from_net = 0 /\ (n.d.state = "Connected" => n.io.out = 0)
    BY <1>3, <2>2 DEF ArgNet, ArgApp, Taken
  <2>5. n.c.hello # "paused"
    BY <1>0, <1>3, <2>2 DEF Awaited
  <2> HIDE DEF n
  <2>6. Resumed(n.d, n.c) /\ Noted(n.d, n.io)
    BY <2>4, <2>5 DEF Resumed, Noted
  <2> QED
    BY <2>1, <2>2, <2>3, <2>6 DEF Loose, Armed
<1>4. CASE /\ ~m.d.blocked /\ m.d.actionQueue = <<>> /\ m.d.op = "none"
           /\ ~(ArgNet(m) = 0 /\ ArgApp(m) = 0 /\ ~m.d.maybe_input)
  <2> DEFINE n == CallUpdate(m, ArgNet(m), ArgApp(m))
  <2>1. update(m) = n
    BY <1>4 DEF update
  <2>2. /\ n.io.from_net = 0 /\ (n.d.state # "Handshaking" => n.io.out = 0)
        /\ n.d.op = "update" /\ n.d.actionQueue = <<>>
    BY <1>4, CallTakesAll
  <2>3. Consistent(n)
    BY <1>4, ArgFacts, CallConsistent
  <2> HIDE DEF n
  <2>4. Resumed(n.d, n.c) /\ Noted(n.d, n.io)
    BY <2>2 DEF Resumed, Noted
  <2> QED
    BY <2>1, <2>2, <2>3, <2>4 DEF Loose, Armed
<1> QED
  BY <1>1, <1>2, <1>3, <1>4


------------------------------------------------------------------------------
(* processNextAction()                                                     *)

LEMMA ResetSteady ==
  ASSUME NEW n, NEW x, n.d = InitPrivate, n.c = CReset(x)
  PROVE  Steady(n)
<1>1. n.c.hello = "no" /\ n.c.req.kind = "none"
  BY DEF CReset, CInit, NoReq
<1>2. /\ n.d.state = "Inactive" /\ n.d.actionQueue = <<>> /\ n.d.need_update = FALSE
  BY DEF InitPrivate
<1>3. Agree(n.d, n.c)
  BY <1>1, <1>2 DEF Agree, Accepted
<1>4. Known(n.d, n.peer, n.c)
  BY <1>2 DEF Known
<1>5. Resumed(n.d, n.c) /\ Noted(n.d, n.io) /\ Armed(n.d)
  BY <1>1, <1>2 DEF Resumed, Noted, Armed
<1> QED
  BY <1>3, <1>4, <1>5 DEF Steady, Loose, Consistent

(* What Step() may change *)
Stepped(n, m, s) ==
    /\ n.d.state = m.d.state /\ n.d.server = m.d.server /\ n.d.host = m.d.host
    /\ n.d.actionQueue = m.d.actionQueue /\ n.d.op = m.d.op
    /\ n.d.need_update = m.d.need_update /\ n.d.maybe_input = m.d.maybe_input
    /\ n.d.trigger = m.d.trigger /\ n.io = m.io /\ n.peer = m.peer /\ n.c = m.c
    /\ n.d.blocked = m.d.blocked \/ n.d.blocked = TRUE
    /\ n.d.emitted = m.d.emitted \/ n.d.emitted = m.d.emitted \cup {s}

LEMMA StepStepped ==
  ASSUME NEW m \in Machines, NEW s \in StepSignals
  PROVE  Stepped(Step(m, s), m, s) /\ (s \in conn => Step(m, s).d.blocked = TRUE)
<1>1. CASE s \notin conn
  BY <1>1 DEF Step, Stepped
<1>2. CASE s \in conn
  <2> DEFINE e == IF s = "handshaken" THEN m.d.emitted ELSE m.d.emitted \cup {s}
             n == [m EXCEPT !.d.blocked = TRUE, !.sig = s, !.d.emitted = e]
  <2>1. Step(m, s) = n
    BY <1>2 DEF Step, Machines, Privates
  <2>2. e = m.d.emitted \/ e = m.d.emitted \cup {s}
    OBVIOUS
  <2> HIDE DEF e
  <2>3. n.d.emitted = e /\ n.d.blocked = TRUE
    BY DEF Machines, Privates
  <2>4. /\ n.d.state = m.d.state /\ n.d.server = m.d.server /\ n.d.host = m.d.host
        /\ n.d.actionQueue = m.d.actionQueue /\ n.d.op = m.d.op
        /\ n.d.need_update = m.d.need_update /\ n.d.maybe_input = m.d.maybe_input
        /\ n.d.trigger = m.d.trigger /\ n.io = m.io /\ n.peer = m.peer /\ n.c = m.c
    BY DEF Machines, Privates
  <2> HIDE DEF n
  <2> QED
    BY <2>1, <2>2, <2>3, <2>4 DEF Stepped
<1> QED
  BY <1>1, <1>2

(* The branches of processNextAction() *)

LEMMA HostNameStepped ==
  ASSUME NEW m \in Machines
  PROVE  LET n == Perform("HostNameReceived", m)
         IN /\ n.d.state = m.d.state /\ n.d.server = m.d.server /\ n.d.host = m.d.host
            /\ n.d.actionQueue = m.d.actionQueue /\ n.d.op = m.d.op /\ n.io = m.io
            /\ n.peer = m.peer /\ n.c = m.c /\ n.d.maybe_input = TRUE
            /\ n.d.emitted = m.d.emitted \cup {"hostNameReceived"}
            /\ \/ n.d.blocked = TRUE /\ n.d.need_update = m.d.need_update /\ n.d.trigger = m.d.trigger
               \/ n.d.need_update = TRUE /\ n.d.trigger = TRUE
<1> DEFINE e == m.d.emitted \cup {"hostNameReceived"}
           n == [m EXCEPT !.d.emitted = e, !.d.maybe_input = TRUE]
           k == [n EXCEPT !.d.need_update = TRUE, !.d.trigger = TRUE]
           r == Perform("HostNameReceived", m)
<1>1. r = IF "hostNameReceived" \in conn THEN Step(n, "hostNameReceived") ELSE k
  BY DEF Perform, DoHostNameReceived, Machines, Privates
<1>2. e \in SUBSET StepSignals /\ e \cup {"hostNameReceived"} = e
  BY MachineFacts DEF Privates, StepSignals
<1> HIDE DEF e
<1>3. n \in Machines
  BY <1>2 DEF Machines, Privates
<1>4. /\ n.d.state = m.d.state /\ n.d.server = m.d.server /\ n.d.host = m.d.host
      /\ n.d.actionQueue = m.d.actionQueue /\ n.d.op = m.d.op /\ n.io = m.io
      /\ n.peer = m.peer /\ n.c = m.c /\ n.d.maybe_input = TRUE /\ n.d.emitted = e
      /\ n.d.need_update = m.d.need_update /\ n.d.trigger = m.d.trigger
  BY DEF Machines, Privates
<1> HIDE DEF n
<1>5. /\ k.d.state = n.d.state /\ k.d.server = n.d.server /\ k.d.host = n.d.host
      /\ k.d.actionQueue = n.d.actionQueue /\ k.d.op = n.d.op /\ k.io = n.io
      /\ k.peer = n.peer /\ k.c = n.c /\ k.d.maybe_input = n.d.maybe_input /\ k.d.emitted = n.d.emitted
      /\ k.d.need_update = TRUE /\ k.d.trigger = TRUE
  BY <1>3 DEF Machines, Privates
<1>6. Stepped(Step(n, "hostNameReceived"), n, "hostNameReceived")
      /\ ("hostNameReceived" \in conn => Step(n, "hostNameReceived").d.blocked = TRUE)
  BY <1>3, StepStepped DEF StepSignals
<1> HIDE DEF k, r
<1>7. CASE "hostNameReceived" \in conn
  BY <1>1, <1>2, <1>4, <1>6, <1>7 DEF Stepped, e, r
<1>8. CASE "hostNameReceived" \notin conn
  BY <1>1, <1>4, <1>5, <1>8 DEF e, r
<1> QED
  BY <1>7, <1>8

LEMMA CheckStepped ==
  ASSUME NEW m \in Machines
  PROVE  LET n == Perform("CheckPeerCertificate", m)
             k == [m EXCEPT !.peer.peerCert = m.c.cert,
                            !.peer.hostMismatch = m.peer.hostMismatch \/ (m.c.cert = "other" /\ m.d.host)]
         IN /\ Stepped(n, k, "peerCertificateAvailable") /\ k.d = m.d /\ k.io = m.io /\ k.c = m.c
            /\ n.peer.peerCert = m.c.cert
            /\ n.peer.hostMismatch = (m.peer.hostMismatch \/ (m.c.cert = "other" /\ m.d.host))
<1> DEFINE b == m.peer.hostMismatch \/ (m.c.cert = "other" /\ m.d.host)
           k == [m EXCEPT !.peer.peerCert = m.c.cert, !.peer.hostMismatch = b]
           n == Perform("CheckPeerCertificate", m)
<1>1. n = Step(k, "peerCertificateAvailable")
  BY DEF Perform, DoCheckPeerCertificate, Machines
<1>2. b \in BOOLEAN /\ m.c.cert \in Certs
  BY MachineFacts DEF Contexts
<1> HIDE DEF b
<1>3. k \in Machines /\ k.d = m.d /\ k.io = m.io /\ k.c = m.c /\ k.peer.peerCert = m.c.cert /\ k.peer.hostMismatch = b
  BY <1>2 DEF Machines, Peers
<1> HIDE DEF k
<1>4. Stepped(Step(k, "peerCertificateAvailable"), k, "peerCertificateAvailable")
  BY <1>3, StepStepped DEF StepSignals
<1> HIDE DEF n
<1>5. Stepped(n, k, "peerCertificateAvailable") /\ n.peer = k.peer
  BY <1>1, <1>4 DEF Stepped
<1> QED
  BY <1>3, <1>5 DEF b, k, n

LEMMA HandshakenStepped ==
  ASSUME Mode = "Stream", NEW m \in Machines
  PROVE  LET n == Perform("Handshaken", m)
         IN /\ n.d.state = "Connected" /\ n.d.server = m.d.server /\ n.d.host = m.d.host
            /\ n.d.actionQueue = m.d.actionQueue /\ n.d.op = m.d.op /\ n.io = m.io
            /\ n.peer = m.peer /\ n.c = m.c /\ (n.d.blocked = m.d.blocked \/ n.d.blocked = TRUE)
            /\ n.d.need_update = (m.d.need_update \/ m.io.out > 0)
            /\ n.d.trigger = (m.d.trigger \/ m.io.out > 0)
<1> DEFINE f == m.io.out > 0
           b == m.d.need_update \/ f
           t == m.d.trigger \/ f
           k == [m EXCEPT !.d.state = "Connected", !.d.need_update = b, !.d.trigger = t]
           n == Perform("Handshaken", m)
<1>1. n = Step(k, "handshaken")
  BY DEF Perform, DoHandshaken, Machines, Privates
<1>2. b \in BOOLEAN /\ t \in BOOLEAN
  OBVIOUS
<1> HIDE DEF b, t
<1>3. k \in Machines
  BY <1>2 DEF Machines, Privates, States
<1>4. /\ k.d.state = "Connected" /\ k.d.server = m.d.server /\ k.d.host = m.d.host
      /\ k.d.actionQueue = m.d.actionQueue /\ k.d.op = m.d.op /\ k.io = m.io /\ k.d.blocked = m.d.blocked
      /\ k.peer = m.peer /\ k.c = m.c /\ k.d.need_update = b /\ k.d.trigger = t
  BY DEF Machines, Privates
<1> HIDE DEF k
<1>5. Stepped(Step(k, "handshaken"), k, "handshaken")
  BY <1>3, StepStepped DEF StepSignals
<1> HIDE DEF n
<1>6. Stepped(n, k, "handshaken")
  BY <1>1, <1>5
<1> QED
  BY <1>4, <1>6 DEF Stepped, b, t, f, n


LEMMA TakenSteady ==
  ASSUME Mode = "Stream", NEW m \in Machines, Sound(m), Shape(m), Loose(m), m.d.actionQueue # <<>>
  PROVE  Steady(Perform(Head(m.d.actionQueue), TakeFirst(m)))
<1> DEFINE q == m.d.actionQueue
           t == Tail(q)
           a == Head(q)
           k == TakeFirst(m)
           n == Perform(a, k)
<1>0. q \in Seq(Actions) /\ m.d.op = "none" /\ m.d.state \in {"Handshaking", "Connected", "Closing"}
  BY MachineFacts DEF Privates, Sound, Shape, Queue, States
<1>1. \A z : Has(q, z) <=> a = z \/ Has(t, z)
  BY <1>0, HasFacts
<1>2. /\ k.d.state = m.d.state /\ k.d.server = m.d.server /\ k.d.host = m.d.host
      /\ k.d.emitted = m.d.emitted /\ k.d.actionQueue = t
      /\ k.d.op = "none" /\ k.d.blocked = m.d.blocked /\ k.d.need_update = m.d.need_update
      /\ k.d.maybe_input = m.d.maybe_input /\ k.io = m.io /\ k.peer = m.peer /\ k.c = m.c
      /\ (t # <<>> \/ k.d.need_update => k.d.trigger)
  BY <1>0, TakeFirstDetail
<1>3. k \in Machines /\ a \in Actions
  BY TakeFirstType
<1>4. /\ m.d.state = "Handshaking" => a \in Steps \/ (a = "Handshaken" /\ t = <<>>)
      /\ m.d.state \in {"Connected", "Closing"} => a \in {"ReadyRead", "ReadyReadOutgoing", "Close"}
  BY <1>0, QueueTaken DEF Shape, Queue
<1> HIDE DEF k, t, a
<1>5. /\ Agree(m.d, m.c) /\ Known(m.d, m.peer, m.c) /\ Resumed(m.d, m.c) /\ Noted(m.d, m.io)
  BY DEF Loose, Consistent
<1>6. CASE a \in {"ReadyRead", "ReadyReadOutgoing", "CertificateRequested"}
  <2>1. Stepped(n, k, "certificateRequested")
    <3>1. CASE a = "CertificateRequested"
      <4>1. n = Step(k, "certificateRequested")
        BY <3>1 DEF Perform
      <4> QED
        BY <1>3, <4>1, StepStepped DEF StepSignals
    <3>2. ASSUME NEW g PROVE Stepped([k EXCEPT !.sig = g], k, "certificateRequested")
      BY <1>3 DEF Stepped, Machines
    <3>3. CASE a = "ReadyRead"
      BY <3>2, <3>3 DEF Perform
    <3>4. CASE a = "ReadyReadOutgoing"
      BY <3>2, <3>4 DEF Perform
    <3> QED
      BY <1>6, <3>1, <3>3, <3>4
  <2> HIDE DEF n
  <2>2. \A z \in {"HostNameReceived", "CheckPeerCertificate", "Handshaken"} : Has(q, z) <=> Has(t, z)
    BY <1>1, <1>6
  <2>3. /\ n.d.state = m.d.state /\ n.d.server = m.d.server /\ n.d.host = m.d.host
        /\ n.d.actionQueue = t /\ n.d.op = "none" /\ n.d.need_update = m.d.need_update
        /\ n.d.maybe_input = m.d.maybe_input /\ n.io = m.io /\ n.peer = m.peer /\ n.c = m.c
        /\ (n.d.blocked = m.d.blocked \/ n.d.blocked = TRUE)
        /\ (t # <<>> \/ n.d.need_update => n.d.trigger)
    BY <1>2, <2>1 DEF Stepped
  <2>4. /\ "hostNameReceived" \notin m.d.emitted => "hostNameReceived" \notin n.d.emitted
        /\ "peerCertificateAvailable" \notin m.d.emitted => "peerCertificateAvailable" \notin n.d.emitted
    BY <1>2, <2>1 DEF Stepped
  <2>5. Agree(n.d, n.c)
    BY <1>0, <1>5, <2>2, <2>3, <2>4 DEF Agree, Handshake, Accepted
  <2>6. Known(n.d, n.peer, n.c)
    <3>1. Stranger(m.d, m.peer, m.c) => Stranger(n.d, n.peer, n.c)
      BY <2>2, <2>3, <2>4 DEF Stranger
    <3>2. Checked(m.d, m.peer, m.c) => Checked(n.d, n.peer, n.c)
      BY <2>3 DEF Checked
    <3> QED
      BY <1>5, <2>3, <3>1, <3>2 DEF Known
  <2>7. Resumed(n.d, n.c) /\ Noted(n.d, n.io) /\ Armed(n.d)
    BY <1>0, <1>5, <2>2, <2>3 DEF Resumed, Noted, Armed
  <2> QED
    BY <2>5, <2>6, <2>7 DEF Steady, Loose, Consistent, n, k, a
<1>7. CASE a = "HostNameReceived"
  <2>0. m.d.state = "Handshaking" /\ m.c.hello # "no"
    BY <1>0, <1>1, <1>4, <1>5, <1>7 DEF Agree, Handshake
  <2>1. /\ n.d.state = m.d.state /\ n.d.server = m.d.server /\ n.d.host = m.d.host
        /\ n.d.actionQueue = t /\ n.d.op = "none" /\ n.io = m.io
        /\ n.peer = m.peer /\ n.c = m.c /\ n.d.maybe_input = TRUE
        /\ n.d.emitted = m.d.emitted \cup {"hostNameReceived"}
        /\ \/ n.d.blocked = TRUE /\ n.d.need_update = k.d.need_update /\ n.d.trigger = k.d.trigger
           \/ n.d.need_update = TRUE /\ n.d.trigger = TRUE
    BY <1>2, <1>3, <1>7, HostNameStepped
  <2> HIDE DEF n
  <2>2. \A z \in {"CheckPeerCertificate", "Handshaken"} : Has(q, z) <=> Has(t, z)
    BY <1>1, <1>7
  <2>3. Agree(n.d, n.c)
    BY <1>5, <2>0, <2>1, <2>2 DEF Agree, Handshake, Accepted
  <2>4. Known(n.d, n.peer, n.c)
    <3>1. Stranger(m.d, m.peer, m.c) => Stranger(n.d, n.peer, n.c)
      BY <2>1, <2>2 DEF Stranger
    <3>2. Checked(m.d, m.peer, m.c) => Checked(n.d, n.peer, n.c)
      BY <2>1 DEF Checked
    <3> QED
      BY <1>5, <2>1, <3>1, <3>2 DEF Known
  <2>5. Resumed(n.d, n.c) /\ Noted(n.d, n.io) /\ Armed(n.d)
    BY <1>2, <2>1 DEF Resumed, Noted, Armed
  <2> QED
    BY <2>3, <2>4, <2>5 DEF Steady, Loose, Consistent, n, k, a
<1>8. CASE a = "CheckPeerCertificate"
  <2>0. m.d.state = "Handshaking" /\ Has(q, "CheckPeerCertificate")
    BY <1>0, <1>1, <1>4, <1>8
  <2> DEFINE b == k.peer.hostMismatch \/ (k.c.cert = "other" /\ k.d.host)
             j == [k EXCEPT !.peer.peerCert = k.c.cert, !.peer.hostMismatch = b]
  <2>1. /\ Stepped(n, j, "peerCertificateAvailable") /\ j.d = k.d /\ j.io = k.io /\ j.c = k.c
        /\ n.peer.peerCert = k.c.cert /\ n.peer.hostMismatch = b
    BY <1>3, <1>8, CheckStepped
  <2> HIDE DEF n, j
  <2>2. \A z \in {"HostNameReceived", "Handshaken"} : Has(q, z) <=> Has(t, z)
    BY <1>1, <1>8
  <2>3. /\ n.d.state = m.d.state /\ n.d.server = m.d.server /\ n.d.host = m.d.host
        /\ n.d.actionQueue = t /\ n.d.op = "none" /\ n.d.need_update = m.d.need_update
        /\ n.d.maybe_input = m.d.maybe_input /\ n.io = m.io /\ n.c = m.c
        /\ (n.d.blocked = m.d.blocked \/ n.d.blocked = TRUE)
        /\ (t # <<>> \/ n.d.need_update => n.d.trigger)
    BY <1>2, <2>1 DEF Stepped
  <2>4. "hostNameReceived" \notin m.d.emitted => "hostNameReceived" \notin n.d.emitted
    BY <1>2, <2>1 DEF Stepped
  <2>5. Agree(n.d, n.c)
    BY <1>5, <2>0, <2>2, <2>3, <2>4 DEF Agree, Handshake, Accepted
  <2>6. Known(n.d, n.peer, n.c)
    <3> SUFFICES ASSUME ~m.d.server PROVE Met(n.c) /\ Checked(n.d, n.peer, n.c)
      BY <2>0, <2>3 DEF Known
    <3>1. Stranger(m.d, m.peer, m.c) \/ (Met(m.c) /\ Checked(m.d, m.peer, m.c))
      BY <1>5, <2>0 DEF Known
    <3>2. Met(m.c)
      BY <2>0, <3>1 DEF Stranger
    <3>3. b = (m.c.cert = "other" /\ m.d.host)
      <4>1. CASE ~m.peer.hostMismatch
        BY <1>2, <4>1
      <4>2. CASE m.peer.hostMismatch = (m.c.cert = "other" /\ m.d.host)
        BY <1>2, <4>2
      <4> QED
        BY <3>1, <4>1, <4>2 DEF Stranger, Unseen, Checked
    <3> QED
      BY <1>2, <2>1, <2>3, <3>2, <3>3 DEF Checked
  <2>7. Resumed(n.d, n.c) /\ Noted(n.d, n.io) /\ Armed(n.d)
    BY <1>0, <1>5, <2>2, <2>3 DEF Resumed, Noted, Armed
  <2> QED
    BY <2>5, <2>6, <2>7 DEF Steady, Loose, Consistent, n, k, a
<1>9. CASE a = "Handshaken"
  <2>0. m.d.state = "Handshaking" /\ t = <<>>
    BY <1>0, <1>4, <1>9 DEF Steps
  <2>1. /\ n.d.state = "Connected" /\ n.d.server = m.d.server /\ n.d.host = m.d.host
        /\ n.d.actionQueue = t /\ n.d.op = "none" /\ n.io = m.io
        /\ n.peer = m.peer /\ n.c = m.c /\ (n.d.blocked = m.d.blocked \/ n.d.blocked = TRUE)
        /\ n.d.need_update = (k.d.need_update \/ m.io.out > 0)
        /\ n.d.trigger = (k.d.trigger \/ m.io.out > 0)
    BY <1>2, <1>3, <1>9, HandshakenStepped
  <2> HIDE DEF n
  <2>2. m.c.mode = "Active" /\ m.c.hello # "paused" /\ ~Has(q, "CheckPeerCertificate")
    <3>1. ~Has(<<>>, "CheckPeerCertificate")
      BY DEF Has
    <3> QED
      BY <1>1, <1>5, <1>9, <2>0, <3>1 DEF Agree, Handshake
  <2>3. m.c.req.kind # "update"
    BY <1>0 DEF Sound
  <2>4. Agree(n.d, n.c)
    BY <1>5, <2>0, <2>1, <2>2, <2>3 DEF Agree, Accepted
  <2>5. Known(n.d, n.peer, n.c)
    <3> SUFFICES ASSUME ~m.d.server PROVE Met(n.c) /\ Checked(n.d, n.peer, n.c)
      BY <2>0, <2>1 DEF Known
    <3>1. Met(m.c) /\ Checked(m.d, m.peer, m.c)
      BY <1>5, <2>0, <2>2 DEF Known, Stranger, Met
    <3> QED
      BY <2>1, <3>1 DEF Checked
  <2>6. Noted(n.d, n.io)
    BY <1>2, <1>5, <2>0, <2>1 DEF Noted
  <2>7. Armed(n.d)
    BY <1>2, <2>0, <2>1 DEF Armed
  <2>8. Resumed(n.d, n.c)
    BY <2>1, <2>2 DEF Resumed
  <2> QED
    BY <2>4, <2>5, <2>6, <2>7, <2>8 DEF Steady, Loose, Consistent, n, k, a
<1>10. CASE a = "Close"
  <2> DEFINE j == [k EXCEPT !.io.unprocessed = k.c.rest]
             r == ResetSession(j)
  <2>1. n = [r EXCEPT !.sig = "closed"]
    BY <1>10 DEF Perform, DoClose
  <2>2. j \in Machines
    BY <1>3, MachineFacts DEF Machines, Buffers, Contexts
  <2> HIDE DEF j
  <2>3. r \in Machines /\ r.d = InitPrivate /\ r.c = CReset(j.c)
    BY <2>2, ResetType DEF ResetSession, Machines
  <2> HIDE DEF r, n
  <2>4. n.d = InitPrivate /\ n.c = CReset(j.c)
    BY <2>1, <2>3 DEF Machines
  <2> QED
    BY <2>4, ResetSteady DEF n, k, a
<1> QED
  BY <1>3, <1>6, <1>7, <1>8, <1>9, <1>10 DEF Actions

LEMMA ProcessSteady ==
  ASSUME Mode = "Stream", NEW m \in Machines, Sound(m), Shape(m), Loose(m)
  PROVE  Steady(processNextAction(m))
<1>1. CASE m.d.actionQueue # <<>>
  BY <1>1, TakenSteady DEF processNextAction
<1>2. CASE m.d.actionQueue = <<>> /\ m.d.need_update
  <2>1. processNextAction(m) = update(m)
    BY <1>2 DEF processNextAction
  <2>2. Consistent(m) /\ Awaited(m.d, m.c)
    BY DEF Loose, Resumed, Awaited
  <2> QED
    BY <1>2, <2>1, <2>2, UpdateLoose DEF Steady
<1>3. CASE m.d.actionQueue = <<>> /\ ~m.d.need_update
  <2>1. processNextAction(m) = m
    BY <1>3 DEF processNextAction
  <2> QED
    BY <1>3, <2>1 DEF Steady, Armed
<1> QED
  BY <1>1, <1>2, <1>3


------------------------------------------------------------------------------
(* The ends of an update                                                   *)

Plain(as) == \A z \in {"HostNameReceived", "CheckPeerCertificate", "Handshaken"} : ~Has(as, z)

LEMMA EnqueueLoose ==
  ASSUME NEW m \in Machines, NEW as \in Seq(Actions), Plain(as), Loose(m)
  PROVE  Loose(Enqueue(m, as))
<1> DEFINE n == Enqueue(m, as)
           q == m.d.actionQueue
<1>1. q \in Seq(Actions)
  BY MachineFacts DEF Privates
<1>2. /\ n.d.state = m.d.state /\ n.d.server = m.d.server /\ n.d.host = m.d.host
      /\ n.d.emitted = m.d.emitted /\ n.d.actionQueue = q \o as /\ n.d.op = m.d.op
      /\ n.d.blocked = m.d.blocked /\ n.d.need_update = m.d.need_update
      /\ n.d.maybe_input = m.d.maybe_input /\ n.io = m.io /\ n.peer = m.peer /\ n.c = m.c
  BY DEF Enqueue, Machines, Privates
<1>3. \A z \in {"HostNameReceived", "CheckPeerCertificate", "Handshaken"} :
        Has(n.d.actionQueue, z) <=> Has(q, z)
  <2>1. \A z : Has(q \o as, z) <=> Has(q, z) \/ Has(as, z)
    BY <1>1, HasFacts
  <2> QED
    BY <1>2, <2>1 DEF Plain
<1> HIDE DEF n
<1>4. Agree(n.d, n.c)
  BY <1>2, <1>3 DEF Loose, Consistent, Agree, Handshake, Accepted
<1>5. Known(n.d, n.peer, n.c)
  BY <1>2, <1>3 DEF Loose, Consistent, Known, Stranger, Checked
<1>6. Resumed(n.d, n.c) /\ Noted(n.d, n.io)
  BY <1>2, <1>3 DEF Loose, Resumed, Noted
<1> QED
  BY <1>4, <1>5, <1>6 DEF Loose, Consistent, n

LEMMA PlainWhen ==
  ASSUME NEW b \in BOOLEAN, NEW a \in {"ReadyRead", "ReadyReadOutgoing", "Close"}
  PROVE  Plain(When(b, a))
  BY HasWhen DEF Plain

LEMMA ClosingSteady ==
  ASSUME Mode = "Stream", NEW m \in Machines, NEW o, Calm(m), Loose(m),
         m.d.state = "Closing", m.d.actionQueue \in Seq(Endings)
  PROVE  Steady(ClosingFinished(m, o))
<1> DEFINE b == o.res = "Success"
           w == When(b, "Close")
           n == Enqueue(m, w)
<1>1. w \in Seq(Endings) /\ w \in Seq(Actions) /\ Plain(w)
  <2>1. b \in BOOLEAN
    OBVIOUS
  <2> HIDE DEF b
  <2> QED
    BY <2>1, WhenIn, WhenType, PlainWhen DEF Endings, Actions
<1> HIDE DEF w
<1>2. n \in Machines /\ Calm(n) /\ Loose(n)
  BY <1>1, EnqueueType, EnqueueCalm, EnqueueLoose
<1>3. n.d.state = "Closing" /\ n.d.actionQueue = m.d.actionQueue \o w
  BY EnqueueFrame
<1>4. n.d.actionQueue \in Seq(Endings)
  BY <1>1, <1>3, ConcatProperties
<1> HIDE DEF n
<1>5. Shape(n) /\ Sound(n)
  <2>1. Keyed(n.d, n.c)
    BY <1>2, <1>3 DEF Keyed, Calm
  <2> QED
    BY <1>2, <1>3, <1>4, <2>1, QueueKinds, CalmSound DEF Shape, Queue, Calm, Endings
<1>6. Steady(processNextAction(n))
  BY <1>2, <1>5, ProcessSteady
<1> QED
  BY <1>6 DEF ClosingFinished, n, w

LEMMA HandshakingSteady ==
  ASSUME Mode = "Stream", NEW m \in Machines, NEW o \in OutcomeSet, Calm(m),
         m.d.state = "Handshaking", NEW b0 \in BOOLEAN,
         m.d.actionQueue = When(b0, "ReadyReadOutgoing"),
         m.d.server = m.c.server, Noted(m.d, m.io),
         o.res = "Success" => m.c.mode = "Active",
         o.res # "Success" => m.c.mode = "Handshake",
         m.c.hello = "no" => "hostNameReceived" \notin m.d.emitted,
         m.c.hello = "paused" => /\ m.c.server /\ m.c.sni /\ o.res # "Success"
                                 /\ "hostNameReceived" \notin m.d.emitted,
         ~m.d.server => \/ Unseen(m.peer) /\ "peerCertificateAvailable" \notin m.d.emitted
                        \/ Met(m.c) /\ Checked(m.d, m.peer, m.c)
  PROVE  Steady(HandshakingFinished(m, o))
<1> DEFINE clientHello == m.d.server /\ m.c.hello # "no"
           serverHello == ~m.d.server /\ m.c.hello # "no"
           named == "hostNameReceived" \notin m.d.emitted /\ clientHello
           b1 == named /\ m.c.sni
           b2 == "peerCertificateAvailable" \notin m.d.emitted /\ (o.res = "Success" \/ serverHello)
           b3 == "certificateRequested" \notin m.d.emitted /\ serverHello /\ m.c.certReq
           b4 == o.res = "Success"
           h == IF named THEN m.c.sni ELSE m.d.host
           u == m.d.need_update \/ (/\ o.res = "Continue" /\ Mode = "Datagram" /\ m.io.from_net > 0)
           k == [m EXCEPT !.d.host = h, !.d.need_update = u]
           as == When(b1, "HostNameReceived") \o When(b2, "CheckPeerCertificate")
                 \o When(b3, "CertificateRequested") \o When(b4, "Handshaken")
           n == Enqueue(k, as)
           q == n.d.actionQueue
<1>0. HandshakingFinished(m, o) = processNextAction(n)
  BY DEF HandshakingFinished, Machines, Privates
<1>1. /\ b1 \in BOOLEAN /\ b2 \in BOOLEAN /\ b3 \in BOOLEAN /\ b4 \in BOOLEAN
      /\ h \in BOOLEAN /\ u \in BOOLEAN
  BY MachineFacts DEF Contexts, Privates
<1>2. /\ m.c.hello = "no" => ~b1
      /\ m.c.hello = "paused" => b1
      /\ ~m.d.server => h = m.d.host
      /\ m.d.need_update => u
      /\ m.c.mode = "Active" <=> b4
  OBVIOUS
<1>3. ~m.d.server /\ "peerCertificateAvailable" \notin m.d.emitted => (b2 <=> Met(m.c))
  BY DEF Met
<1> HIDE DEF b1, b2, b3, b4, h, u
<1>4. as \in Seq(Actions) /\ Negotiating(When(b0, "ReadyReadOutgoing") \o as)
  BY <1>1, HandshakeActions, HandshakeQueue
<1>5. When(b0, "ReadyReadOutgoing") \o as = Announcements(b0, b1, b2, b3, b4)
  BY DEF Announcements
<1> HIDE DEF as
<1>6. k \in Machines /\ Calm(k)
  BY <1>1 DEF Machines, Privates, Calm
<1>7. /\ k.d.state = "Handshaking" /\ k.d.server = m.d.server /\ k.d.host = h
      /\ k.d.emitted = m.d.emitted /\ k.d.actionQueue = When(b0, "ReadyReadOutgoing")
      /\ k.d.op = m.d.op /\ k.d.blocked = m.d.blocked /\ k.d.need_update = u
      /\ k.d.maybe_input = m.d.maybe_input /\ k.io = m.io /\ k.peer = m.peer /\ k.c = m.c
  BY DEF Machines, Privates
<1> HIDE DEF k
<1>8. n \in Machines /\ Calm(n)
  BY <1>4, <1>6, EnqueueType, EnqueueCalm
<1>9. /\ n.d.state = k.d.state /\ n.d.server = k.d.server /\ n.d.host = k.d.host
      /\ n.d.emitted = k.d.emitted /\ n.d.actionQueue = k.d.actionQueue \o as
      /\ n.d.op = k.d.op /\ n.d.blocked = k.d.blocked /\ n.d.need_update = k.d.need_update
      /\ n.d.maybe_input = k.d.maybe_input /\ n.io = k.io /\ n.peer = k.peer /\ n.c = k.c
  BY <1>6 DEF Enqueue, Machines, Privates
<1>10. /\ Negotiating(q)
       /\ Has(q, "HostNameReceived") <=> b1
       /\ Has(q, "CheckPeerCertificate") <=> b2
       /\ Has(q, "Handshaken") <=> b4
  <2>1. q = Announcements(b0, b1, b2, b3, b4)
    BY <1>5, <1>7, <1>9
  <2>2. Negotiating(q)
    BY <1>4, <1>5, <2>1
  <2> HIDE DEF q
  <2>3. /\ Has(q, "HostNameReceived") <=> b1
        /\ Has(q, "CheckPeerCertificate") <=> b2
        /\ Has(q, "Handshaken") <=> b4
    <3>1. \A c0, c1, c2, c3, c4 \in BOOLEAN : LET r == Announcements(c0, c1, c2, c3, c4)
            IN /\ Has(r, "HostNameReceived") <=> c1
               /\ Has(r, "CheckPeerCertificate") <=> c2
               /\ Has(r, "Handshaken") <=> c4
      BY HandshakeHas
    <3> QED
      BY <1>1, <2>1, <3>1, ZenonT(40)
  <2> QED
    BY <2>2, <2>3
<1> HIDE DEF n
<1>11. Shape(n) /\ Sound(n)
  <2>1. Keyed(n.d, n.c)
    BY <1>2, <1>7, <1>8, <1>9, <1>10 DEF Keyed, Calm
  <2> QED
    BY <1>7, <1>8, <1>9, <1>10, <2>1, CalmSound DEF Shape, Queue, Calm
<1>12. Agree(n.d, n.c)
  <2>1. m.c.mode \in {"Handshake", "Active"} /\ m.c.req.kind = "none"
    BY DEF Calm
  <2>2. Handshake(n.d, n.c)
    BY <1>2, <1>7, <1>9, <1>10, <2>1 DEF Handshake
  <2> QED
    BY <1>7, <1>9, <2>1, <2>2 DEF Agree, Accepted
<1>13. Known(n.d, n.peer, n.c)
  <2> SUFFICES ASSUME ~m.d.server
               PROVE  Stranger(n.d, n.peer, n.c) \/ (Met(n.c) /\ Checked(n.d, n.peer, n.c))
    BY <1>7, <1>9 DEF Known
  <2>1. CASE Unseen(m.peer) /\ "peerCertificateAvailable" \notin m.d.emitted
    BY <1>3, <1>7, <1>9, <1>10, <2>1 DEF Stranger
  <2>2. CASE Met(m.c) /\ Checked(m.d, m.peer, m.c)
    BY <1>2, <1>7, <1>9, <2>2 DEF Checked
  <2> QED
    BY <2>1, <2>2
<1>14. Resumed(n.d, n.c)
  BY <1>2, <1>7, <1>9, <1>10 DEF Resumed
<1>15. Noted(n.d, n.io)
  BY <1>2, <1>7, <1>9 DEF Noted
<1>16. Steady(processNextAction(n))
  BY <1>8, <1>11, <1>12, <1>13, <1>14, <1>15, ProcessSteady DEF Loose, Consistent
<1> QED
  BY <1>0, <1>16


LEMMA CloseConsistent ==
  ASSUME NEW m \in Machines, Consistent(m)
  PROVE  Consistent(close(m)) /\ (m.c.hello # "paused" => close(m).c.hello # "paused")
<1>1. CASE m.d.state # "Connected"
  BY <1>1 DEF close
<1>2. CASE m.d.state = "Connected"
  <2> DEFINE x == CShutdown(m.c)
             n == [m EXCEPT !.d.state = "Closing", !.c = x]
  <2>1. close(m) = n
    BY <1>2 DEF close, Machines
  <2>2. /\ x.mode = "Closing" /\ x.req = m.c.req /\ x.server = m.c.server /\ x.hello = m.c.hello
        /\ x.cert = m.c.cert
    BY MachineFacts DEF CShutdown, Contexts
  <2> HIDE DEF x
  <2>3. /\ n.d.state = "Closing" /\ n.d.server = m.d.server /\ n.d.host = m.d.host
        /\ n.d.actionQueue = m.d.actionQueue /\ n.d.emitted = m.d.emitted
        /\ n.peer = m.peer /\ n.c = x
    BY DEF Machines, Privates
  <2> HIDE DEF n
  <2>4. m.c.mode = "Active" /\ m.c.hello # "paused"
    BY <1>2 DEF Consistent, Agree
  <2>5. Agree(n.d, n.c)
    BY <1>2, <2>2, <2>3, <2>4 DEF Consistent, Agree, Accepted
  <2>6. Known(n.d, n.peer, n.c)
    <3>1. Met(n.c) /\ Met(m.c)
      BY <2>2, <2>3, <2>4 DEF Met
    <3> QED
      BY <1>2, <2>2, <2>3, <3>1 DEF Consistent, Known, Stranger, Checked
  <2> QED
    BY <2>1, <2>2, <2>3, <2>4, <2>5, <2>6 DEF Consistent
<1> QED
  BY <1>1, <1>2

StreamSettled(n, m) ==
    n.d = m.d /\ n.peer = m.peer /\ n.c = m.c /\ n.io.out = m.io.out /\ n.io.from_net = m.io.from_net

LEMMA SettleKin ==
  ASSUME NEW m \in Machines, NEW o
  PROVE  StreamSettled(Settle(m, o), m)
<1>1. ASSUME NEW p, NEW e
      PROVE  /\ StreamSettled([m EXCEPT !.io.out_pending = p, !.io.to_net_encoded = e], m)
             /\ StreamSettled([m EXCEPT !.io.out_pending = p], m)
  BY DEF StreamSettled, Machines, Buffers
<1> QED
  BY <1>1 DEF Settle

LEMMA ConnectedSteady ==
  ASSUME Mode = "Stream", NEW m \in Machines, NEW o \in OutcomeSet, Calm(m), Loose(m), m.sig = "none",
         m.d.state \in {"Inactive", "Connected"}, m.d.actionQueue \in Seq(Transfers),
         m.d.state = "Inactive" => m.d.actionQueue = <<>> /\ m.c.plain = 0 /\ Dormant(m.c)
  PROVE  Steady(ConnectedFinished(m, o))
<1> DEFINE s == m.d.state
           i == Received(m)
           w == When(m.c.plain > 0, "ReadyRead")
           e == Enqueue(i, w)
           p == Settle(e, o)
           b == p.d.maybe_input \/ p.io.out_pending > 0
           q == [p EXCEPT !.d.maybe_input = @ \/ p.io.out_pending > 0]
           k == [close(q) EXCEPT !.d.maybe_input = TRUE]
           r == IF m.c.eof THEN k ELSE q
           t == IF m.c.eof \/ IoPending(p.io) THEN update(r) ELSE r
<1>0. m.c.hello # "paused"
  BY DEF Loose, Consistent, Agree
<1>1. /\ i \in Machines /\ Calm(i) /\ Loose(i) /\ i.d = m.d /\ i.sig = "none"
      /\ i.c.eof = m.c.eof /\ i.c.mode = m.c.mode /\ i.c.req = m.c.req /\ i.c.hello = m.c.hello
  <2>1. /\ i \in Machines /\ i.d = m.d /\ i.peer = m.peer /\ i.sig = "none"
        /\ i.io = [m.io EXCEPT !.in = m.io.in + m.c.plain]
    BY ReceivedType, ReceivedFrame
  <2>2. /\ i.c.eof = m.c.eof /\ i.c.mode = m.c.mode /\ i.c.req = m.c.req /\ i.c.hello = m.c.hello
        /\ i.c.server = m.c.server /\ i.c.cert = m.c.cert
    BY ReceivedContext
  <2> HIDE DEF i
  <2>3. i.io.out = m.io.out /\ i.io.from_net = m.io.from_net
    BY <2>1, MachineFacts DEF Buffers
  <2>4. Consistent(i)
    BY <2>1, <2>2, KinConsistent DEF Loose, Kin
  <2> QED
    BY <2>1, <2>2, <2>3, <2>4 DEF Calm, Loose, Resumed, Noted
<1> HIDE DEF i
<1>2. w \in Seq(Transfers) /\ w \in Seq(Actions) /\ Plain(w) /\ (m.c.plain = 0 => w = <<>>)
  <2> DEFINE f == m.c.plain > 0
  <2>1. f \in BOOLEAN /\ (m.c.plain = 0 => ~f)
    OBVIOUS
  <2> HIDE DEF f
  <2>2. /\ When(f, "ReadyRead") \in Seq(Transfers) /\ When(f, "ReadyRead") \in Seq(Actions)
        /\ Plain(When(f, "ReadyRead"))
    BY <2>1, WhenIn, WhenType, PlainWhen DEF Transfers, Actions
  <2>3. ~f => When(f, "ReadyRead") = <<>>
    BY DEF When
  <2> QED
    BY <2>1, <2>2, <2>3 DEF f
<1> HIDE DEF w
<1>3. e \in Machines /\ Calm(e) /\ Loose(e)
  BY <1>1, <1>2, EnqueueType, EnqueueCalm, EnqueueLoose
<1>4. e.d.state = s /\ e.d.actionQueue = m.d.actionQueue \o w /\ e.c = i.c /\ e.sig = "none"
  BY <1>1, EnqueueFrame, ZenonT(40)
<1>5. e.d.actionQueue \in Seq(Transfers) /\ (s = "Inactive" => e.d.actionQueue = <<>>)
  <2>1. m.d.actionQueue \o w \in Seq(Transfers)
    BY <1>2, ConcatProperties
  <2>2. s = "Inactive" => m.d.actionQueue \o w = <<>>
    BY <1>2
  <2> QED
    BY <1>4, <2>1, <2>2
<1> HIDE DEF e
<1>6. p \in Machines /\ Calm(p) /\ p.sig = "none"
  BY <1>3, <1>4, SettleType, SettleCalm, SettleFrame
<1>7. p.d = e.d /\ p.peer = e.peer /\ p.c = e.c /\ p.io.out = e.io.out /\ p.io.from_net = e.io.from_net
  BY <1>3, SettleKin DEF StreamSettled
<1> HIDE DEF p
<1>8. Loose(p)
  <2>1. Consistent(p)
    BY <1>3, <1>7, KinConsistent DEF Loose, Kin
  <2> QED
    BY <1>3, <1>7, <2>1 DEF Loose, Resumed, Noted
<1>9. Onward(s, p)
  <2>1. p.d.op = "none"
    BY <1>6 DEF Calm
  <2>2. s = "Inactive" => Dormant(p.c)
    BY <1>1, <1>4, <1>7 DEF Dormant
  <2>3. Keyed(p.d, p.c)
    BY <1>4, <1>6, <1>7, <2>2 DEF Keyed, Dormant, Calm
  <2>4. Shape(p)
    BY <1>4, <1>5, <1>7, <2>1, <2>2, <2>3, QueueKinds DEF Shape, Queue, Transfers
  <2> QED
    BY <1>4, <1>6, <1>7, <2>4, CalmSound DEF Onward
<1>10. Onward(s, q) /\ q.d.state = s /\ Loose(q) /\ q.c = i.c /\ q \in Machines
  <2>1. q = [p EXCEPT !.d.maybe_input = b]
    BY <1>6 DEF Machines, Privates
  <2>2. b \in BOOLEAN
    BY <1>6, MachineFacts DEF Privates
  <2> HIDE DEF b, q
  <2>3. /\ q.d.state = p.d.state /\ q.d.blocked = p.d.blocked /\ q.d.need_update = p.d.need_update
        /\ q.io = p.io /\ q.c = p.c
    BY <1>6, <2>1 DEF Machines, Privates
  <2>4. Consistent(q)
    BY <1>6, <1>8, <2>1, FieldKin, KinConsistent DEF Loose
  <2>5. Loose(q)
    BY <1>0, <1>1, <1>4, <1>7, <1>8, <2>3, <2>4 DEF Loose, Resumed, Noted
  <2>6. Onward(s, q)
    BY <1>9, <2>1, <2>2, InputOnward
  <2> QED
    BY <1>4, <1>7, <2>3, <2>5, <2>6 DEF Onward
<1> HIDE DEF q
<1>11. m.c.eof => Onward(s, k) /\ Consistent(k) /\ k.c.hello # "paused"
  <2> SUFFICES ASSUME m.c.eof PROVE Onward(s, k) /\ Consistent(k) /\ k.c.hello # "paused"
    OBVIOUS
  <2>1. s = "Connected"
    BY DEF Dormant
  <2> DEFINE j == close(q)
  <2>2. Onward(s, j) /\ j \in Machines
    BY <1>10, <2>1, CloseOnward DEF Onward
  <2>3. Consistent(j) /\ j.c.hello # "paused"
    BY <1>0, <1>1, <1>10, CloseConsistent DEF Loose
  <2> HIDE DEF j
  <2>4. Onward(s, [j EXCEPT !.d.maybe_input = TRUE])
    BY <2>2, InputOnward
  <2>5. Consistent([j EXCEPT !.d.maybe_input = TRUE])
    BY <2>2, <2>3, FieldKin, KinConsistent
  <2>6. [j EXCEPT !.d.maybe_input = TRUE].c = j.c
    BY <2>2 DEF Machines
  <2> QED
    BY <2>3, <2>4, <2>5, <2>6 DEF j
<1> HIDE DEF k
<1>12. Onward(s, r) /\ Consistent(r) /\ r.c.hello # "paused" /\ (~m.c.eof => Loose(r))
  BY <1>0, <1>1, <1>10, <1>11 DEF Loose
<1> HIDE DEF r
<1>13. Onward(s, t) /\ Loose(t)
  <2>1. r \in Machines /\ Awaited(r.d, r.c)
    BY <1>12 DEF Onward, Awaited
  <2>2. Loose(update(r))
    BY <1>12, <2>1, UpdateLoose
  <2> QED
    BY <1>12, <2>2, UpdateOnward
<1>14. ConnectedFinished(m, o) = processNextAction(t)
  BY DEF ConnectedFinished, t, r, k, q, p, e, w, i
<1> HIDE DEF t
<1> QED
  BY <1>13, <1>14, ProcessSteady DEF Onward


LEMMA LateSteady ==
  ASSUME NEW m \in Machines, NEW o \in OutcomeSet, Calm(m), Loose(m), m.sig = "none",
         m.d.state = "Inactive", m.d.actionQueue = <<>>, Dormant(m.c), m.c.plain > 0
  PROVE  Steady(ConnectedFinished(m, o))
<1> DEFINE n == ConnectedFinished(m, o)
<1>1. /\ n.d.state = "Inactive" /\ n.d.actionQueue = <<>> /\ n.c.hello = m.c.hello
      /\ (n.d.need_update => n.d.trigger)
  BY LateConnected DEF LateResult
<1>2. n.c.hello # "paused"
  BY <1>1 DEF Loose, Consistent, Agree
<1> HIDE DEF n
<1>3. Agree(n.d, n.c) /\ Known(n.d, n.peer, n.c)
  BY <1>1, <1>2 DEF Agree, Accepted, Known
<1>4. Resumed(n.d, n.c) /\ Noted(n.d, n.io) /\ Armed(n.d)
  BY <1>1, <1>2 DEF Resumed, Noted, Armed
<1> QED
  BY <1>3, <1>4 DEF Steady, Loose, Consistent, n

LEMMA FailedSteady ==
  ASSUME NEW m \in Machines, NEW x
  PROVE  Steady(Failed(m, x))
<1> DEFINE r == ResetSession(m)
           n == [r EXCEPT !.peer.errorCode = x, !.sig = "error"]
<1>1. Failed(m, x) = n
  BY DEF Failed
<1>2. r \in Machines /\ r.d = InitPrivate /\ r.c = CReset(m.c)
  BY ResetType DEF ResetSession, Machines
<1> HIDE DEF r
<1>3. n.d = InitPrivate /\ n.c = CReset(m.c)
  BY <1>2 DEF Machines
<1> QED
  BY <1>1, <1>3, ResetSteady

LEMMA StartedSteady ==
  ASSUME Mode = "Stream", NEW m \in Machines, Shape(m), Consistent(m), m.d.state = "Initializing",
         NEW o \in StartOutcomes(m.c), NEW n \in Machines, n.d = [m.d EXCEPT !.op = "none"],
         n.c = o.c, n.peer = m.peer
  PROVE  Steady(start_finished(n, o))
<1> DEFINE x == [m.c EXCEPT !.mode = "Handshake"]
           k == [n EXCEPT !.d.state = "Handshaking", !.d.maybe_input = TRUE]
<1>0. start_finished(n, o) = IF o.res # "Success" THEN Failed(n, "Init") ELSE update(k)
  BY DEF start_finished
<1>1. CASE o.res # "Success"
  BY <1>0, <1>1, FailedSteady
<1>2. CASE o.res = "Success"
  <2>0. /\ m.c.mode = "Idle" /\ m.c.hello = "no" /\ m.d.emitted = {} /\ m.d.server = m.c.server
        /\ Unseen(m.peer) /\ m.d.actionQueue = <<>>
    BY DEF Consistent, Agree, Known, Shape, Queue
  <2>1. o.c = [x EXCEPT !.req = NoReq]
    BY <1>2 DEF StartOutcomes, Outcome
  <2>2. x \in Contexts /\ x.mode = "Handshake" /\ x.hello = "no" /\ x.server = m.c.server
    BY <2>0, MachineFacts DEF Contexts, CModes
  <2> HIDE DEF x
  <2>3. o.c.mode = "Handshake" /\ o.c.hello = "no" /\ o.c.server = m.c.server /\ o.c.req.kind = "none"
    BY <2>1, <2>2 DEF Contexts, NoReq
  <2>4. n.d.server = m.d.server /\ n.d.emitted = {} /\ n.d.actionQueue = <<>>
    BY <2>0, MachineFacts DEF Privates
  <2>5. /\ k \in Machines /\ k.d.state = "Handshaking" /\ k.d.server = m.d.server /\ k.d.emitted = {}
        /\ k.d.actionQueue = <<>> /\ k.c = o.c /\ k.peer = m.peer
    BY <2>4 DEF Machines, Privates, States
  <2> HIDE DEF k
  <2>6. \A z : ~Has(<<>>, z)
    BY DEF Has
  <2>7. Agree(k.d, k.c)
    BY <2>0, <2>3, <2>5, <2>6 DEF Agree, Handshake, Accepted
  <2>8. Known(k.d, k.peer, k.c)
    BY <2>0, <2>3, <2>5, <2>6 DEF Known, Stranger, Met
  <2>9. Awaited(k.d, k.c)
    BY <2>3, <2>5 DEF Awaited
  <2>10. Steady(update(k))
    BY <2>5, <2>7, <2>8, <2>9, UpdateLoose DEF Consistent, Steady
  <2> QED
    BY <1>0, <1>2, <2>10
<1> QED
  BY <1>1, <1>2

(* The common part of update_finished() *)
LEMMA CollectedLoose ==
  ASSUME NEW m \in Machines, Loose(m), m.d.state \in {"Inactive", "Connected", "Closing"},
         m.c.req.kind = "update", m.d.state = "Inactive" => Dormant(m.c),
         NEW o \in Outcomes(m.c), o.res # "Error",
         NEW n, n.c = o.c, n.peer = m.peer,
         /\ n.d.state = m.d.state /\ n.d.server = m.d.server /\ n.d.host = m.d.host
         /\ n.d.actionQueue = m.d.actionQueue /\ n.d.emitted = m.d.emitted
         /\ n.d.blocked = m.d.blocked /\ n.d.need_update = m.d.need_update
         /\ n.io.from_net = m.io.from_net /\ n.io.out = m.io.out
  PROVE  Loose(n)
<1>0. m.c \in Contexts /\ o \in OutcomeSet
  BY MachineFacts, OutcomesType
<1>1. m.c.req.mode \in {"Active", "Closing", "Idle"} /\ (m.d.state = "Connected" => m.c.req.mode = "Active")
  BY DEF Loose, Consistent, Agree, Accepted, Dormant
<1>2. /\ o.c.server = m.c.server /\ o.c.hello = m.c.hello /\ o.c.cert = m.c.cert
      /\ o.c.mode = m.c.mode \/ (m.c.req.mode = "Closing" /\ o.c.mode = "Idle")
  BY <1>0, <1>1, TransferKeeps
<1>3. o.c.req.kind = "none"
  BY <1>0 DEF OutcomeSet, Answered
<1>4. m.c.hello # "paused"
  BY DEF Loose, Consistent, Agree
<1>5. Agree(n.d, n.c)
  BY <1>1, <1>2, <1>3, <1>4 DEF Loose, Consistent, Agree, Accepted
<1>6. Known(n.d, n.peer, n.c)
  <2>1. m.d.state \in {"Connected", "Closing"} => Met(m.c) /\ Met(n.c)
    BY <1>1, <1>2 DEF Met, Loose, Consistent, Agree
  <2> QED
    BY <1>2, <2>1 DEF Loose, Consistent, Known, Stranger, Checked
<1>7. Resumed(n.d, n.c) /\ Noted(n.d, n.io)
  BY <1>2, <1>4 DEF Loose, Resumed, Noted
<1> QED
  BY <1>5, <1>6, <1>7 DEF Loose, Consistent

LEMMA ReadySteady ==
  ASSUME Mode = "Stream", NEW m \in Machines, Sound(m), Shape(m), Steady(m), m.sig = "none",
         NEW o \in Outcomes(m.c)
  PROVE  Steady(tls_resultsReady(m, o))
<1> DEFINE s == m.d.state
           n == [m EXCEPT !.c = o.c, !.d.op = "none"]
           t == [n EXCEPT !.io.to_net = @ + o.toNet]
           w == When(o.toNet > 0, "ReadyReadOutgoing")
           u == Enqueue(t, w)
<1>0. m.c \in Contexts /\ o \in OutcomeSet /\ Loose(m) /\ Consistent(m)
  BY MachineFacts, OutcomesType DEF Steady, Loose
<1>1. /\ m.d.op \in {"start", "update"} /\ m.d.actionQueue = <<>> /\ m.c.req.kind = m.d.op
  <2>1. m.c.req.kind \in {"start", "update"}
    BY <1>0 DEF Outcomes, Contexts, Requests
  <2> QED
    BY <2>1 DEF Sound
<1>2. /\ n \in Machines /\ Calm(n) /\ n.d = [m.d EXCEPT !.op = "none"] /\ n.c = o.c
      /\ n.peer = m.peer /\ n.io = m.io /\ n.sig = "none"
  <2>1. o.c \in Contexts /\ o.c.req.kind = "none"
    BY <1>0 DEF OutcomeSet, Answered
  <2> QED
    BY <2>1 DEF Machines, Privates, Calm
<1>3. /\ n.d.state = s /\ n.d.server = m.d.server /\ n.d.host = m.d.host
      /\ n.d.actionQueue = <<>> /\ n.d.emitted = m.d.emitted
      /\ n.d.blocked = m.d.blocked /\ n.d.need_update = m.d.need_update
  BY <1>1, <1>2, MachineFacts DEF Privates
<1>4. m.d.op = "start" <=> s = "Initializing"
  BY DEF Shape
<1>5. tls_resultsReady(m, o) = IF m.d.op = "start" THEN start_finished(n, o) ELSE update_finished(n, o)
  BY DEF tls_resultsReady
<1> HIDE DEF n
<1>6. CASE m.d.op = "start"
  <2>1. o \in StartOutcomes(m.c)
    BY <1>1, <1>6 DEF Outcomes
  <2> QED
    BY <1>0, <1>2, <1>4, <1>5, <1>6, <2>1, StartedSteady
<1>7. CASE m.d.op = "update"
  <2>0. s \in {"Inactive", "Handshaking", "Connected", "Closing"}
    BY <1>4, <1>7, MachineFacts DEF Privates, States
  <2>1. /\ t \in Machines /\ Calm(t) /\ t.d = n.d /\ t.c = o.c /\ t.peer = n.peer
        /\ t.io.from_net = m.io.from_net /\ t.io.out = m.io.out /\ t.sig = "none"
    <3> DEFINE a == n.io.to_net + o.toNet
               j == [n EXCEPT !.io.to_net = a]
    <3>1. a \in Nat
      BY <1>0, <1>2, MachineFacts DEF Buffers, OutcomeSet
    <3>2. t = j
      BY <1>2 DEF Machines, Buffers
    <3> HIDE DEF a, t
    <3>3. j \in Machines
      BY <1>2, <3>1 DEF Machines, Buffers
    <3>4. /\ j.d = n.d /\ j.c = n.c /\ j.peer = n.peer /\ j.io.from_net = n.io.from_net
          /\ j.io.out = n.io.out /\ j.sig = n.sig
      BY <1>2 DEF Machines, Buffers
    <3> HIDE DEF j
    <3> QED
      BY <1>2, <3>2, <3>3, <3>4 DEF Calm
  <2> HIDE DEF t
  <2> DEFINE f == o.toNet > 0
  <2>2. f \in BOOLEAN /\ w = When(f, "ReadyReadOutgoing") /\ (o.toNet = 0 => ~f)
    BY <1>0 DEF OutcomeSet
  <2> HIDE DEF f, w
  <2>3. /\ w \in Seq(Actions) /\ w \in Seq(Transfers) /\ w \in Seq(Endings) /\ Plain(w)
        /\ (o.toNet = 0 => w = <<>>)
    <3>1. \A S : "ReadyReadOutgoing" \in S => w \in Seq(S)
      BY <2>2, WhenIn
    <3>2. Plain(w)
      BY <2>2, PlainWhen
    <3> QED
      BY <2>2, <3>1, <3>2 DEF When, Actions, Transfers, Endings
  <2>4. u \in Machines /\ Calm(u)
    BY <2>1, <2>3, EnqueueType, EnqueueCalm
  <2>5. /\ u.d.state = t.d.state /\ u.d.server = t.d.server /\ u.d.host = t.d.host
        /\ u.d.emitted = t.d.emitted /\ u.d.actionQueue = t.d.actionQueue \o w
        /\ u.d.blocked = t.d.blocked /\ u.d.need_update = t.d.need_update
        /\ u.io = t.io /\ u.peer = t.peer /\ u.c = t.c /\ u.sig = t.sig
    BY <2>1 DEF Enqueue, Machines, Privates
  <2>6. u.d.actionQueue = w
    <3>1. <<>> \o w = w
      BY <2>3
    <3> HIDE DEF u
    <3> QED
      BY <1>3, <2>1, <2>5, <3>1
  <2>7. /\ o.res = "Error" => update_finished(n, o) =
             Failed(n, IF n.d.state \in {"Handshaking", "Closing"} THEN "Handshake" ELSE "Crypt")
        /\ o.res # "Error" /\ s = "Closing" => update_finished(n, o) = ClosingFinished(u, o)
        /\ o.res # "Error" /\ s = "Handshaking" => update_finished(n, o) = HandshakingFinished(u, o)
        /\ o.res # "Error" /\ s \in {"Inactive", "Connected"} => update_finished(n, o) = ConnectedFinished(u, o)
    BY <1>3 DEF update_finished, u, t, w
  <2>8. s # "Handshaking" /\ o.res # "Error" => Loose(u)
    <3> SUFFICES ASSUME s # "Handshaking", o.res # "Error" PROVE Loose(u)
      OBVIOUS
    <3>1. Loose(t)
      <4>1. s = "Inactive" => Dormant(m.c)
        BY DEF Shape
      <4> QED
        BY <1>0, <1>1, <1>2, <1>3, <1>7, <2>0, <2>1, <4>1, CollectedLoose, ZenonT(40)
    <3> QED
      BY <2>1, <2>3, <3>1, EnqueueLoose
  <2> HIDE DEF u
  <2>9. CASE o.res = "Error"
    BY <1>2, <1>5, <1>7, <2>7, <2>9, FailedSteady
  <2>10. CASE o.res # "Error" /\ s = "Closing"
    <3>1. u.d.state = "Closing"
      BY <1>3, <2>1, <2>5, <2>10
    <3> QED
      BY <1>5, <1>7, <2>3, <2>4, <2>6, <2>7, <2>8, <2>10, <3>1, ClosingSteady
  <2>11. CASE o.res # "Error" /\ s \in {"Inactive", "Connected"}
    <3>1. u.d.state = s /\ u.c = o.c /\ u.sig = "none"
      BY <1>3, <2>1, <2>5
    <3>2. s = "Inactive" => o.toNet = 0 /\ Dormant(o.c)
      BY <1>0, DormantOutcome DEF Shape
    <3>3. u.d.actionQueue \in Seq(Transfers)
          /\ (s = "Inactive" => u.d.actionQueue = <<>> /\ Dormant(u.c))
      BY <2>3, <2>6, <3>1, <3>2
    <3>4. Steady(ConnectedFinished(u, o))
      <4>1. u.c.plain \in {0, 1}
        BY <2>4, MachineFacts DEF Contexts
      <4>2. CASE s = "Inactive" /\ u.c.plain > 0
        BY <1>0, <2>4, <2>8, <2>11, <3>1, <3>3, <4>2, LateSteady
      <4>3. CASE s = "Inactive" => u.c.plain = 0
        BY <1>0, <2>4, <2>8, <2>11, <3>1, <3>3, <4>3, ConnectedSteady
      <4> QED
        BY <4>1, <4>2, <4>3
    <3> QED
      BY <1>5, <1>7, <2>7, <2>11, <3>4
  <2>12. CASE o.res # "Error" /\ s = "Handshaking"
    <3>1. /\ u.d.state = "Handshaking" /\ u.d.server = m.d.server /\ u.d.host = m.d.host
          /\ u.d.emitted = m.d.emitted /\ u.d.blocked = m.d.blocked /\ u.d.need_update = m.d.need_update
          /\ u.c = o.c /\ u.peer = m.peer /\ u.io.from_net = m.io.from_net /\ u.io.out = m.io.out
      BY <1>2, <1>3, <2>1, <2>5, <2>12
    <3>2. /\ m.d.server = m.c.server /\ m.c.req.mode = "Handshake" /\ Handshake(m.d, m.c)
          /\ (m.c.hello = "paused" => m.c.server)
      BY <1>0, <1>1, <1>7, <2>12 DEF Consistent, Agree, Accepted
    <3>3. \A z : ~Has(<<>>, z)
      BY DEF Has
    <3>4. m.c.mode = "Handshake" /\ (m.c.hello = "no" => "hostNameReceived" \notin m.d.emitted)
      BY <1>1, <3>2, <3>3 DEF Handshake
    <3>5. /\ o.res \in {"Continue", "Success"} /\ o.c.server = m.c.server
          /\ o.res = "Success" => o.c.mode = "Active"
          /\ o.res = "Continue" => o.c.mode = "Handshake"
          /\ o.c.hello = "no" => m.c.hello = "no"
          /\ o.c.hello = "paused" => m.c.hello = "no" /\ m.c.server /\ o.c.sni /\ o.res = "Continue"
          /\ ~m.c.server /\ m.c.hello # "no" => o.c.cert = m.c.cert
      BY <1>0, <1>1, <1>7, <2>12, <3>2, <3>4, HandshakeKeeps
    <3>6. Noted(u.d, u.io)
      BY <1>0, <2>12, <3>1 DEF Loose, Noted
    <3>7. ~m.d.server => \/ Unseen(u.peer) /\ "peerCertificateAvailable" \notin u.d.emitted
                         \/ Met(u.c) /\ Checked(u.d, u.peer, u.c)
      <4> SUFFICES ASSUME ~m.d.server
                   PROVE  \/ Unseen(u.peer) /\ "peerCertificateAvailable" \notin u.d.emitted
                          \/ Met(u.c) /\ Checked(u.d, u.peer, u.c)
        OBVIOUS
      <4>1. Stranger(m.d, m.peer, m.c) \/ (Met(m.c) /\ Checked(m.d, m.peer, m.c))
        BY <1>0, <2>12 DEF Consistent, Known
      <4>2. CASE Stranger(m.d, m.peer, m.c)
        BY <3>1, <4>2 DEF Stranger
      <4>3. CASE Met(m.c) /\ Checked(m.d, m.peer, m.c)
        <5>1. m.c.hello # "no" /\ o.c.hello # "no" /\ o.c.cert = m.c.cert
          BY <3>2, <3>4, <3>5, <4>3 DEF Met
        <5> QED
          BY <3>1, <4>3, <5>1 DEF Met, Checked
      <4> QED
        BY <4>1, <4>2, <4>3
    <3>8. u.d.actionQueue = When(f, "ReadyReadOutgoing")
      BY <2>2, <2>6
    <3>9. /\ u.d.server = u.c.server
          /\ o.res = "Success" => u.c.mode = "Active"
          /\ o.res # "Success" => u.c.mode = "Handshake"
          /\ u.c.hello = "no" => "hostNameReceived" \notin u.d.emitted
          /\ u.c.hello = "paused" => /\ u.c.server /\ u.c.sni /\ o.res # "Success"
                                     /\ "hostNameReceived" \notin u.d.emitted
          /\ ~u.d.server => \/ Unseen(u.peer) /\ "peerCertificateAvailable" \notin u.d.emitted
                            \/ Met(u.c) /\ Checked(u.d, u.peer, u.c)
      BY <3>1, <3>2, <3>4, <3>5, <3>7
    <3>10. Steady(HandshakingFinished(u, o))
      BY <1>0, <2>2, <2>4, <3>1, <3>6, <3>8, <3>9, HandshakingSteady
    <3> QED
      BY <1>5, <1>7, <2>7, <2>12, <3>10
  <2> QED
    BY <2>0, <2>9, <2>10, <2>11, <2>12
<1> QED
  BY <1>1, <1>6, <1>7


------------------------------------------------------------------------------
(* The steps                                                               *)

LEMMA BecomeSteady ==
  ASSUME NEW m, Steady(m), Become(m)
  PROVE  Steady(Now)'
<1>1. Now'.d = m.d /\ Now'.c = m.c /\ Now'.io = m.io /\ Now'.peer = m.peer
  BY DEF Now, Become
<1> QED
  BY <1>1 DEF Steady, Loose, Consistent

LEMMA QuietSteady ==
  ASSUME Steady(Now), d' = d, c' = c, peer' = peer, io'.from_net = io.from_net, io'.out = io.out
  PROVE  Steady(Now)'
<1>1. Now'.d = Now.d /\ Now'.c = Now.c /\ Now'.peer = Now.peer
      /\ Now'.io.from_net = Now.io.from_net /\ Now'.io.out = Now.io.out
  BY DEF Now
<1> QED
  BY <1>1 DEF Steady, Loose, Consistent, Noted

LEMMA StartSteady ==
  ASSUME NEW m \in Machines, NEW b \in BOOLEAN, NEW h \in BOOLEAN
  PROVE  /\ Steady(start(ResetSessionAndData(m), b))
         /\ Steady(start([ResetSessionAndData(m) EXCEPT !.d.host = h], b))
<1>1. ASSUME NEW x \in Machines, x.d.actionQueue = <<>>, ~x.d.need_update, x.d.emitted = {},
             Unseen(x.peer), x.c.mode = "Idle", x.c.hello = "no", x.io.from_net = 0
      PROVE  Steady(start(x, b))
  <2> DEFINE y == CStart(x.c, b)
             n == start(x, b)
  <2>1. y.mode = "Idle" /\ y.hello = "no" /\ y.server = b /\ y.req.kind = "start"
    BY <1>1, MachineFacts DEF CStart, Contexts
  <2>2. n.c = y /\ n.peer = x.peer
    BY DEF start, Machines
  <2>3. /\ n.d.state = "Initializing" /\ n.d.server = b /\ n.d.emitted = {} /\ n.d.actionQueue = <<>>
        /\ ~n.d.need_update /\ n.d.op = "start"
    BY <1>1 DEF start, Machines, Privates
  <2>4. n.io = x.io
    BY DEF start, Machines
  <2> HIDE DEF n, y
  <2>5. Agree(n.d, n.c)
    BY <2>1, <2>2, <2>3 DEF Agree, Accepted
  <2>6. Known(n.d, n.peer, n.c)
    BY <1>1, <2>2, <2>3 DEF Known
  <2>7. Resumed(n.d, n.c) /\ Armed(n.d)
    BY <2>1, <2>2, <2>3 DEF Resumed, Armed
  <2>8. Noted(n.d, n.io)
    BY <1>1, <2>3, <2>4 DEF Noted
  <2> QED
    BY <2>5, <2>6, <2>7, <2>8 DEF Steady, Loose, Consistent, n
<1> DEFINE r == ResetSessionAndData(m)
           k == [r EXCEPT !.d.host = h]
<1>2. r \in Machines /\ r.d = InitPrivate /\ r.c = CReset(m.c) /\ r.io = InitBuffers /\ r.peer = InitPeer
  BY ResetType DEF ResetSessionAndData, Machines
<1> HIDE DEF r
<1>3. /\ r.d.actionQueue = <<>> /\ ~r.d.need_update /\ r.d.emitted = {} /\ Unseen(r.peer)
      /\ r.c.mode = "Idle" /\ r.c.hello = "no" /\ r.io.from_net = 0
  BY <1>2 DEF InitPrivate, InitBuffers, InitPeer, Unseen, CReset, CInit
<1>4. /\ k \in Machines /\ k.d.actionQueue = <<>> /\ ~k.d.need_update /\ k.d.emitted = {}
      /\ k.peer = r.peer /\ k.c = r.c /\ k.io = r.io
  BY <1>2, <1>3 DEF Machines, Privates
<1> HIDE DEF k
<1>5. Steady(start(r, b)) /\ Steady(start(k, b))
  BY <1>1, <1>2, <1>3, <1>4
<1> QED
  BY <1>5 DEF k, r

LEMMA UpdateSteady ==
  ASSUME Mode = "Stream", NEW m, Steady(m), NEW n \in Machines, Kin(n, m),
         n.d.op = m.d.op, n.d.trigger = m.d.trigger, n.d.maybe_input = m.d.maybe_input
  PROVE  Steady(update(n))
<1>1. Consistent(n)
  BY KinConsistent DEF Steady, Loose
<1>2. Awaited(n.d, n.c) /\ (n.d.actionQueue # <<>> => n.d.trigger)
  BY DEF Steady, Loose, Resumed, Awaited, Armed, Kin
<1> QED
  BY <1>1, <1>2, UpdateLoose DEF Steady

LEMMA StepSteady ==
  ASSUME Mode = "Stream", SInv, Steady(Now), [Next]_vars
  PROVE  Steady(Now)'
<1>0. Now \in Machines /\ Sound(Now) /\ Shape(Now) /\ Now.sig = "none" /\ Now.d = d /\ Now.c = c
      /\ Now.io = io /\ Now.peer = peer
  BY NowType DEF SInv, Now
<1>1. ASSUME NEW h \in Hosts, startClient(h) PROVE Steady(Now)'
  <2>1. h \in BOOLEAN /\ FALSE \in BOOLEAN
    BY TLSAssumption
  <2>2. PICK k \in Unannounced(c) :
          Become(start([ResetSessionAndData(With(k)) EXCEPT !.d.host = h], FALSE))
    BY <1>1 DEF startClient
  <2>3. With(k) \in Machines
    BY WithType DEF SInv
  <2> QED
    BY <2>1, <2>2, <2>3, StartSteady, BecomeSteady
<1>2. CASE startServer
  <2>1. PICK k \in Unannounced(c) : Become(start(ResetSessionAndData(With(k)), TRUE))
    BY <1>2 DEF startServer
  <2>2. With(k) \in Machines
    BY WithType DEF SInv
  <2> QED
    BY <2>1, <2>2, StartSteady, BecomeSteady
<1>3. CASE Reset
  <2>1. PICK x \in Unannounced(c) : Become(ResetSessionAndData(With(x)))
    BY <1>3 DEF Reset
  <2>2. With(x) \in Machines
    BY WithType DEF SInv
  <2> DEFINE m == ResetSessionAndData(With(x))
  <2>3. m.d = InitPrivate /\ m.c = CReset(With(x).c)
    BY <2>2 DEF ResetSessionAndData, Machines
  <2>4. Become(m)
    BY <2>1
  <2> HIDE DEF m
  <2> QED
    BY <2>3, <2>4, ResetSteady, BecomeSteady
<1>4. CASE continueAfterStep
  <2> DEFINE n == [Now EXCEPT !.d.blocked = FALSE]
  <2>1. /\ n \in Machines /\ n.d.op = Now.d.op /\ n.d.trigger = Now.d.trigger
        /\ n.d.maybe_input = Now.d.maybe_input
    BY <1>0 DEF Machines, Privates
  <2>2. Kin(n, Now)
    BY <1>0, FieldKin
  <2>3. Become(update(n))
    BY <1>4 DEF continueAfterStep
  <2> HIDE DEF n
  <2> QED
    BY <2>1, <2>2, <2>3, UpdateSteady, BecomeSteady
<1>5. CASE Close
  <2> DEFINE m == close(Now)
  <2>1. m \in Machines /\ m.d.op = Now.d.op /\ m.d.actionQueue = Now.d.actionQueue
    BY <1>0, CloseType, CloseFrame
  <2>2. Consistent(m) /\ m.d.maybe_input = Now.d.maybe_input /\ m.d.trigger = Now.d.trigger
        /\ m.c.hello = Now.c.hello
    <3>1. Consistent(m)
      BY <1>0, CloseConsistent DEF Steady, Loose
    <3>2. CShutdown(c).hello = c.hello
      BY <1>0, MachineFacts DEF CShutdown, Contexts
    <3> QED
      BY <1>0, <3>1, <3>2 DEF close, Machines, Privates
  <2>3. Become(update(m))
    BY <1>5 DEF Close
  <2> HIDE DEF m
  <2>4. Awaited(m.d, m.c) /\ (m.d.actionQueue # <<>> => m.d.trigger)
    BY <2>1, <2>2 DEF Steady, Loose, Resumed, Awaited, Armed
  <2> QED
    BY <2>1, <2>2, <2>3, <2>4, UpdateLoose, BecomeSteady DEF Steady
<1>6. CASE Write
  <2> DEFINE a == io.out + 1
             n == [Now EXCEPT !.io.out = a]
  <2>1. a \in Nat
    BY DEF SInv, TypeOK, Buffers
  <2>2. Become(update(n))
    BY <1>0, <1>6 DEF Write, Machines, Buffers
  <2> HIDE DEF a
  <2>3. n \in Machines /\ Kin(n, Now) /\ n.d = Now.d
    BY <1>0, <2>1, BufferType, FieldKin DEF Machines
  <2> HIDE DEF n
  <2> QED
    BY <2>2, <2>3, UpdateSteady, BecomeSteady
<1>7. CASE WriteIncoming
  <2> DEFINE a == io.from_net + 1
             n == [Now EXCEPT !.io.from_net = a]
  <2>1. a \in Nat
    BY DEF SInv, TypeOK, Buffers
  <2>2. Become(update(n))
    BY <1>0, <1>7 DEF WriteIncoming, Machines, Buffers
  <2> HIDE DEF a
  <2>3. n \in Machines /\ Kin(n, Now) /\ n.d = Now.d
    BY <1>0, <2>1, BufferType, FieldKin DEF Machines
  <2> HIDE DEF n
  <2> QED
    BY <2>2, <2>3, UpdateSteady, BecomeSteady
<1>8. CASE Read \/ ReadOutgoing \/ ReadUnprocessed
  <2>1. ASSUME NEW x
        PROVE  /\ LET n == [Now EXCEPT !.io.in = x]
                  IN n.io.out = io.out /\ n.io.from_net = io.from_net /\ n.d = d /\ n.c = c /\ n.peer = peer
               /\ LET n == [Now EXCEPT !.io.unprocessed = x]
                  IN n.io.out = io.out /\ n.io.from_net = io.from_net /\ n.d = d /\ n.c = c /\ n.peer = peer
    BY <1>0 DEF Machines, Buffers
  <2>2. d' = d /\ c' = c /\ peer' = peer /\ io'.from_net = io.from_net /\ io'.out = io.out
    <3>1. CASE Read
      <4>1. PICK x : Become([Now EXCEPT !.io.in = x])
        BY <1>0, <3>1 DEF Read, Machines, Buffers
      <4> QED
        BY <2>1, <4>1 DEF Become
    <3>2. CASE ReadOutgoing
      <4>1. PICK x : Become([Now EXCEPT !.io.to_net = x, !.io.to_net_encoded = 0])
        BY <1>0, <3>2 DEF ReadOutgoing, Machines, Buffers
      <4> DEFINE n == [Now EXCEPT !.io.to_net = x, !.io.to_net_encoded = 0]
      <4>2. n.io.out = io.out /\ n.io.from_net = io.from_net /\ n.d = d /\ n.c = c /\ n.peer = peer
        BY <1>0 DEF Machines, Buffers
      <4>3. Become(n)
        BY <4>1
      <4> HIDE DEF n
      <4> QED
        BY <4>2, <4>3 DEF Become
    <3>3. CASE ReadUnprocessed
      <4>1. PICK x : Become([Now EXCEPT !.io.unprocessed = x])
        BY <3>3 DEF ReadUnprocessed
      <4> QED
        BY <2>1, <4>1 DEF Become
    <3> QED
      BY <1>8, <3>1, <3>2, <3>3
  <2> QED
    BY <2>2, QuietSteady
<1>9. CASE \E s \in Signals : connectNotify(s) \/ disconnectNotify(s)
  BY <1>9, QuietSteady DEF connectNotify, disconnectNotify
<1>10. CASE ResultsReady
  <2>1. PICK o \in Outcomes(c) : Become(tls_resultsReady(Now, o))
    BY <1>10 DEF ResultsReady
  <2>2. Steady(tls_resultsReady(Now, o))
    BY <1>0, ReadySteady
  <2> QED
    BY <2>1, <2>2, BecomeSteady
<1>11. ~ResultsUnannounced
  BY DEF ResultsUnannounced, Announced
<1>12. CASE doNextAction
  <2> DEFINE n == [Now EXCEPT !.d.trigger = FALSE]
  <2>1. /\ n \in Machines /\ n.d.blocked = Now.d.blocked /\ n.d.need_update = Now.d.need_update
        /\ n.d.maybe_input = Now.d.maybe_input /\ n.d.op = Now.d.op /\ n.io = Now.io
    BY <1>0 DEF Machines, Privates
  <2>2. Frame(n, Now) /\ Kin(n, Now)
    BY <1>0, FieldFrame, FieldKin
  <2>3. Become(processNextAction(n))
    BY <1>12 DEF doNextAction
  <2> HIDE DEF n
  <2>4. Sound(n) /\ Shape(n)
    BY <1>0, <2>1, <2>2, FrameShape DEF Frame, Sound
  <2>5. Consistent(n)
    BY <2>2, KinConsistent DEF Steady, Loose
  <2>6. Loose(n)
    BY <2>1, <2>2, <2>5 DEF Steady, Loose, Resumed, Noted, Kin
  <2> QED
    BY <2>1, <2>3, <2>4, <2>6, ProcessSteady, BecomeSteady
<1>13. ~tls_dtlsTimeout
  BY DEF tls_dtlsTimeout
<1>14. CASE UNCHANGED vars
  BY <1>14, QuietSteady DEF vars
<1> QED
  BY <1>1, <1>2, <1>3, <1>4, <1>5, <1>6, <1>7, <1>8, <1>9, <1>10, <1>11, <1>12, <1>13, <1>14 DEF Next

LEMMA StreamIsSteady ==
  ASSUME Mode = "Stream"
  PROVE  Spec => []StreamInv
<1>1. Init => StreamInv
  <2> SUFFICES ASSUME Init PROVE Steady(Now)
    BY DEF StreamInv
  <2>1. PICK g \in Garbage : c = CInit(g)
    BY DEF Init
  <2>2. Now.d = InitPrivate /\ Now.c = CInit(g) /\ CInit(g) = CReset(CInit(g))
    BY <2>1 DEF Init, Now, CReset, CInit
  <2> QED
    BY <2>2, ResetSteady
<1>2. TypeOK /\ (ResultsExpected /\ QuietDuringOp) /\ Shape(Now) /\ StreamInv /\ [Next]_vars
        => StreamInv'
  BY StepSteady, NowSound DEF SInv, StreamInv
<1> QED
  BY <1>1, <1>2, TypeCorrect, ResultsAreExpected, ProviderIsQuiet, ShapeIsKept, PTL DEF Spec

(* No lost wakeup in Stream mode: whenever neither the provider, the       *)
(* trigger nor the application will make update() run, no action, update   *)
(* request, network input, paused client hello or application data of a    *)
(* connected session is left waiting.                                      *)
THEOREM NothingStalls ==
  ASSUME Mode = "Stream"
  PROVE  Spec => []NoStall
<1>1. TypeOK /\ StreamInv => NoStall
  <2> SUFFICES ASSUME TypeOK, StreamInv, d.op = "none", ~d.trigger, ~d.blocked
               PROVE  /\ d.actionQueue = <<>> /\ ~d.need_update
                      /\ d.state # "Inactive" => io.from_net = 0 /\ c.hello # "paused"
                      /\ d.state = "Connected" => io.out = 0
    BY DEF NoStall
  <2>1. Resumed(d, c) /\ Noted(d, io) /\ Armed(d)
    BY DEF StreamInv, Steady, Loose, Now
  <2>2. d.actionQueue = <<>> /\ ~d.need_update
    BY <2>1 DEF Armed
  <2>3. io.from_net \in Nat /\ io.out \in Nat
    BY DEF TypeOK, Buffers
  <2>4. ~Has(<<>>, "HostNameReceived")
    BY DEF Has
  <2> QED
    BY <2>1, <2>2, <2>3, <2>4 DEF Resumed, Noted
<1> QED
  BY <1>1, StreamIsSteady, TypeCorrect, PTL

(* What a client is told about its peer is true in Stream mode: once the   *)
(* handshake is complete peerIdentityResult() is Valid exactly when the    *)
(* provider holds a trusted certificate issued to the host the application *)
(* named, whenever the certificate was shown and whichever step signals    *)
(* have slots.                                                             *)
THEOREM PeerIsTold ==
  ASSUME Mode = "Stream"
  PROVE  Spec => []PeerIdentity
<1>1. TypeOK /\ Shape(Now) /\ StreamInv => PeerIdentity
  <2> SUFFICES ASSUME TypeOK, Shape(Now), StreamInv, d.state \in {"Connected", "Closing"}, ~d.server, d.host
               PROVE  peerIdentityResult = "Valid" <=> c.cert = "match"
    BY DEF PeerIdentity
  <2>1. Agree(d, c) /\ Known(d, peer, c)
    BY DEF StreamInv, Steady, Loose, Consistent, Now
  <2>2. Met(c)
    BY <2>1 DEF Agree, Met
  <2>3. ~Has(d.actionQueue, "CheckPeerCertificate")
    BY DEF Shape, Queue, Now, Has, Transferring, Ending
  <2>4. Checked(d, peer, c)
    BY <2>1, <2>2, <2>3 DEF Known, Stranger
  <2>5. peer.peerCert = c.cert /\ peer.hostMismatch = (c.cert = "other")
    BY <2>4 DEF Checked
  <2>6. c.cert \in {"none", "untrusted", "match", "other"}
    BY DEF TypeOK, Contexts, Certs
  <2> QED
    BY <2>5, <2>6 DEF peerIdentityResult
<1> QED
  BY <1>1, StreamIsSteady, ShapeIsKept, TypeCorrect, PTL
==============================================================================
