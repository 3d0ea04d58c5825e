-------------------------------- MODULE SASL --------------------------------
(***************************************************************************)
(* class SASL (qca_securelayer.cpp) with its provider, the saslContext of  *)
(* plugins/qca-cyrus-sasl: authentication step by step, then the security  *)
(* layer.                                                                  *)
(*                                                                         *)
(* A handler is an operator from m = [d, io, c, sig] to the next such      *)
(* record; one that emits a signal does it last, so a slot that calls back *)
(* is the next step.  The provider answers inside the call and posts       *)
(* resultsReady(); what libsasl2 answers is nondeterministic and chosen    *)
(* when the answer is read.  Payloads, mechanism names, parameters and     *)
(* channel bindings are left out.                                          *)
(***************************************************************************)
EXTENDS Integers, Sequences

CONSTANTS
    Server,     \* the modes that are started: a subset of BOOLEAN
    MaxOut,     \* bound: plaintext in out and out_pending
    MaxNet,     \* bound: network data in from_net
    MaxBuf,     \* bound: data in in and in to_net
    MaxDrift,   \* bound: how far to_net_encoded goes below 0
    MaxPosted   \* bound: posted resultsReady() calls when a session starts

ASSUME SASLAssumption ==
    /\ Server \subseteq BOOLEAN
    /\ MaxOut \in Nat /\ MaxNet \in Nat /\ MaxBuf \in Nat
    /\ MaxDrift \in Nat /\ MaxPosted \in Nat

VARIABLES
    d,     \* SASL::Private: the session
    io,    \* SASL::Private: the buffers
    c,     \* the saslContext
    sig,   \* the signal this step emits, or "none"
    h      \* history: see Histories

vars == <<d, io, c, sig, h>>

Ops == {"OpStart", "OpServerFirstStep", "OpNextStep", "OpTryAgain", "OpUpdate"}
Actions == {"ClientStarted", "NextStep", "Authenticated", "ReadyRead", "ReadyReadOutgoing"}
AuthSignals == {"clientStarted", "serverStarted", "nextStep", "needParams",
                "authCheck", "authenticated"}
Sigs == AuthSignals \cup {"none", "readyRead", "readyReadOutgoing", "error"}

Privates ==
    [server : BOOLEAN, disableServerSendLast : BOOLEAN, trigger : BOOLEAN,
     op : Ops \cup {"none"}, actionQueue : Seq(Actions), need_update : BOOLEAN,
     first : BOOLEAN, authed : BOOLEAN,
     errorCode : {"none", "Init", "Handshake", "Crypt"}]

Buffers == [in : Nat, out : Nat, to_net : Nat, from_net : Nat, out_pending : Nat,
            to_net_encoded : Int]

(* result_to_net holds nothing, output of this session or of an earlier    *)
(* one; app and net are the sizes of the latest update(); posted counts    *)
(* the resultsReady() calls in the event queue.                            *)
Contexts ==
    [result_to_net : {"empty", "own", "old"}, app : Nat, net : Nat, posted : Nat,
     ca_done : BOOLEAN, ca_skip : BOOLEAN, last_ok : BOOLEAN]

(* What the application was asked last; whether clientStarted() or         *)
(* serverStarted() came; whether network data waits that came after the    *)
(* authentication; whether the provider gave up without a completion.      *)
Histories ==
    [turn : {"none", "first", "step", "params", "open", "failed"}, begun : BOOLEAN,
     late : BOOLEAN, mute : BOOLEAN]

InitPrivate ==
    [server |-> FALSE, disableServerSendLast |-> TRUE, trigger |-> FALSE, op |-> "none",
     actionQueue |-> <<>>, need_update |-> FALSE, first |-> FALSE, authed |-> FALSE,
     errorCode |-> "none"]

InitBuffers == [in |-> 0, out |-> 0, to_net |-> 0, from_net |-> 0, out_pending |-> 0,
                to_net_encoded |-> 0]

InitContext == [result_to_net |-> "empty", app |-> 0, net |-> 0, posted |-> 0,
                ca_done |-> FALSE, ca_skip |-> FALSE, last_ok |-> FALSE]

InitHistory == [turn |-> "none", begun |-> FALSE, late |-> FALSE, mute |-> FALSE]

Now == [d |-> d, io |-> io, c |-> c, sig |-> "none"]

Turn(s, turn) ==
    CASE s = "serverStarted" -> "first"
      [] s \in {"clientStarted", "nextStep"} -> "step"
      [] s \in {"needParams", "authCheck"} -> "params"
      [] s = "authenticated" -> "open"
      [] s = "error" -> "failed"
      [] OTHER -> turn

Become(m, x) ==
    /\ d' = m.d /\ io' = m.io /\ c' = m.c /\ sig' = m.sig
    /\ h' = [x EXCEPT !.turn = Turn(m.sig, @),
                      !.begun = @ \/ m.sig \in {"clientStarted", "serverStarted"},
                      !.late = @ /\ m.io.from_net > 0]

When(p, a) == IF p THEN <<a>> ELSE <<>>

------------------------------------------------------------------------------
(* saslContext *)

(* reset(): resetState() clears result_plain and leaves result_to_net; a   *)
(* resultsReady() that is posted stays posted                              *)
CReset(x) == [x EXCEPT !.result_to_net = IF @ = "own" THEN "old" ELSE @]

(* startClient() and startServer() *)
CStart(x) == [x EXCEPT !.ca_done = FALSE, !.ca_skip = FALSE, !.posted = @ + 1]

CUpdate(x, net, app) ==
    [x EXCEPT !.net = net, !.app = app, !.posted = @ + 1,
              !.result_to_net = IF app > 0 THEN "own" ELSE @]

Answer(r, data, toApp, x) == [result |-> r, data |-> data, toApp |-> toApp, c |-> x]

clientTryAgain(x) ==
    {Answer(r, b, 0, x) : r \in {"Error", "Params", "Continue", "Success"}, b \in BOOLEAN}

(* scb_checkauth() may have run in any step; the check is announced once,  *)
(* and the call after it repeats the result that was held back             *)
HeldBack(x) ==
    {Answer(IF x.last_ok THEN "Success" ELSE "Continue", b, 0, [x EXCEPT !.ca_skip = FALSE]) :
       b \in BOOLEAN}

AuthCheck(x) ==
    {Answer("AuthCheck", FALSE, 0,
            [x EXCEPT !.ca_done = TRUE, !.ca_skip = TRUE, !.last_ok = b]) : b \in BOOLEAN}

ServerStep(x) ==
    {Answer(r, b, 0, x) : r \in {"Error", "Continue", "Success"}, b \in BOOLEAN}

serverTryAgain(x) ==
    IF x.ca_skip THEN HeldBack(x)
    ELSE IF x.ca_done THEN ServerStep(x)
    ELSE ServerStep(x) \cup AuthCheck(x)

(* an error may leave encoded data behind *)
UpdateAnswers(x) ==
    {Answer("Success", FALSE, a, x) : a \in {n \in {0, 1} : n <= x.net}}
    \cup {Answer("Error", FALSE, 0, x),
          Answer("Error", FALSE, 0, [x EXCEPT !.result_to_net =
                                       IF x.app > 0 THEN "empty" ELSE @])}

Answers(m) ==
    CASE m.d.op = "OpUpdate" -> UpdateAnswers(m.c)
      [] m.d.op = "OpStart" /\ m.d.server ->
            {Answer(r, FALSE, 0, m.c) : r \in {"Success", "Error"}}
      [] m.d.op = "none" -> {Answer("Success", FALSE, 0, m.c)}
      [] OTHER -> IF m.d.server THEN serverTryAgain(m.c) ELSE clientTryAgain(m.c)

------------------------------------------------------------------------------
(* SASL::Private.  Definitions named Operation_Slip are mistakes one could *)
(* make in the code of Operation; only mutants use them.                   *)

(* reset(ResetSessionAndData); the settings that survive it are left out *)
reset(m) == [m EXCEPT !.c = CReset(@), !.d = InitPrivate, !.io = InitBuffers]

start(m, server, disableLast) ==
    [m EXCEPT !.d.server = server, !.d.disableServerSendLast = disableLast,
              !.d.op = "OpStart", !.d.first = TRUE, !.c = CStart(@)]

(* putServerFirstStep(), putStep() and tryAgain() *)
call(m, op) ==
    IF m.d.op # "none" THEN m
    ELSE [m EXCEPT !.d.op = op, !.c.posted = @ + 1]

update_Unauthed(m) ==
    IF m.d.actionQueue # <<>> \/ m.d.op # "none"
    THEN [m EXCEPT !.d.need_update = TRUE]
    ELSE [m EXCEPT !.d.need_update = FALSE, !.d.op = "OpUpdate",
                   !.io.out_pending = @ + m.io.out, !.io.from_net = 0, !.io.out = 0,
                   !.c = CUpdate(@, m.io.from_net, m.io.out)]

update_DropsWrite(m) ==
    IF ~m.d.authed \/ m.d.actionQueue # <<>> \/ m.d.op # "none" THEN m
    ELSE [m EXCEPT !.d.need_update = FALSE, !.d.op = "OpUpdate",
                   !.io.out_pending = @ + m.io.out, !.io.from_net = 0, !.io.out = 0,
                   !.c = CUpdate(@, m.io.from_net, m.io.out)]

update(m) ==
    IF ~m.d.authed THEN m
    ELSE IF m.d.actionQueue # <<>> \/ m.d.op # "none"
    THEN [m EXCEPT !.d.need_update = TRUE]
    ELSE [m EXCEPT !.d.need_update = FALSE, !.d.op = "OpUpdate",
                   !.io.out_pending = @ + m.io.out, !.io.from_net = 0, !.io.out = 0,
                   !.c = CUpdate(@, m.io.from_net, m.io.out)]

Authenticated_NoFlush(m) == [m EXCEPT !.d.authed = TRUE, !.sig = "authenticated"]

(* write any app data waiting during authentication *)
Authenticated(m) ==
    LET waiting == m.io.out > 0
    IN [m EXCEPT !.d.authed = TRUE, !.sig = "authenticated",
                 !.d.need_update = @ \/ waiting, !.d.trigger = @ \/ waiting]

Perform(m, a) ==
    CASE a = "ClientStarted" -> [m EXCEPT !.sig = "clientStarted"]
      [] a = "NextStep" -> [m EXCEPT !.sig = "nextStep"]
      [] a = "Authenticated" -> Authenticated(m)
      [] a = "ReadyRead" -> [m EXCEPT !.sig = "readyRead"]
      [] a = "ReadyReadOutgoing" -> [m EXCEPT !.sig = "readyReadOutgoing"]

processNextAction(m) ==
    LET rest == Tail(m.d.actionQueue)
    IN IF m.d.actionQueue = <<>>
       THEN IF m.d.need_update THEN update(m) ELSE m
       ELSE Perform([m EXCEPT !.d.actionQueue = rest,
                              !.d.trigger = @ \/ rest # <<>> \/ m.d.need_update],
                    Head(m.d.actionQueue))

Enqueue(m, as) == [m EXCEPT !.d.actionQueue = @ \o as]

Fail(m, e) == [m EXCEPT !.d.errorCode = e, !.sig = "error"]

serverResults(m, o) ==
    CASE o.result = "Continue" -> [m EXCEPT !.sig = "nextStep"]
      [] o.result = "AuthCheck" -> [m EXCEPT !.sig = "authCheck"]
      [] o.result = "Success" ->
            processNextAction(Enqueue(m,
                When(~m.d.disableServerSendLast /\ o.data, "NextStep")
                \o <<"Authenticated">>))
      [] o.result = "Error" -> Fail(m, "Handshake")

clientResults_Hasty(m, o) ==
    CASE o.result = "Error" -> Fail(m, IF m.d.first THEN "Init" ELSE "Handshake")
      [] o.result = "Params" -> [m EXCEPT !.sig = "needParams"]
      [] o.result = "Continue" /\ m.d.first ->
            [m EXCEPT !.d.first = FALSE, !.sig = "clientStarted"]
      [] o.result = "Continue" /\ ~m.d.first -> [m EXCEPT !.sig = "nextStep"]
      [] o.result = "Success" -> processNextAction(Enqueue(m, <<"Authenticated">>))

(* the first result that is not Error or Params starts the client *)
clientResults(m, o) ==
    CASE o.result = "Error" -> Fail(m, IF m.d.first THEN "Init" ELSE "Handshake")
      [] o.result = "Params" -> [m EXCEPT !.sig = "needParams"]
      [] o.result \in {"Continue", "Success"} /\ m.d.first ->
            processNextAction(Enqueue([m EXCEPT !.d.first = FALSE],
                <<"ClientStarted">> \o When(o.result = "Success", "Authenticated")))
      [] o.result = "Continue" /\ ~m.d.first -> [m EXCEPT !.sig = "nextStep"]
      [] o.result = "Success" /\ ~m.d.first ->
            processNextAction(Enqueue(m, When(o.data, "NextStep") \o <<"Authenticated">>))

(* out_pending after an update; enc is -1 without network output *)
Unsettled(m, enc) == IF enc >= 0 THEN m.io.out_pending - enc ELSE m.io.out_pending

updateResults_Leaves(m, o) ==
    LET some == m.c.result_to_net # "empty"
        enc == IF some THEN m.c.app ELSE -1
        n == Enqueue([m EXCEPT !.io.to_net = IF some THEN @ + 1 ELSE @,
                               !.io.in = @ + o.toApp,
                               !.io.out_pending = Unsettled(m, enc),
                               !.io.to_net_encoded = @ + enc],
                     When(some, "ReadyReadOutgoing") \o When(o.toApp > 0, "ReadyRead"))
    IN IF o.result # "Success" THEN Fail(m, "Crypt") ELSE processNextAction(n)

(* to_net_encoded gets enc also when it is -1 *)
updateResults(m, o) ==
    LET some == m.c.result_to_net # "empty"
        enc == IF some THEN m.c.app ELSE -1
        pending == Unsettled(m, enc)
        n == Enqueue([m EXCEPT !.io.to_net = IF some THEN @ + 1 ELSE @,
                               !.io.in = @ + o.toApp,
                               !.io.out_pending = pending,
                               !.io.to_net_encoded = @ + enc,
                               !.c.result_to_net = "empty"],
                     When(some, "ReadyReadOutgoing") \o When(o.toApp > 0, "ReadyRead"))
    IN IF o.result # "Success" THEN Fail(m, "Crypt")
       ELSE processNextAction(IF pending > 0 \/ m.io.out > 0 THEN update(n) ELSE n)

sasl_resultsReady_KeepsOp(m, o) ==
    LET n == [m EXCEPT !.c = o.c]
    IN IF m.d.op = "OpUpdate" THEN updateResults(n, o)
       ELSE IF m.d.server THEN serverResults(n, o) ELSE clientResults(n, o)

(* a completion nobody waits for does nothing *)
sasl_resultsReady(m, o) ==
    LET n == [m EXCEPT !.c = o.c, !.d.op = "none"]
    IN CASE m.d.op = "none" -> n
         [] m.d.op = "OpUpdate" -> updateResults(n, o)
         [] m.d.op = "OpStart" /\ m.d.server ->
               IF o.result = "Success" THEN [n EXCEPT !.sig = "serverStarted"]
               ELSE Fail(n, "Init")
         [] OTHER -> IF m.d.server THEN serverResults(n, o) ELSE clientResults(n, o)

------------------------------------------------------------------------------
Init == d = InitPrivate /\ io = InitBuffers /\ c = InitContext
        /\ sig = "none" /\ h = InitHistory

startClient ==
    /\ FALSE \in Server /\ c.posted < MaxPosted
    /\ Become(start(reset(Now), FALSE, TRUE), InitHistory)

startServer(disableLast) ==
    /\ TRUE \in Server /\ c.posted < MaxPosted
    /\ Become(start(reset(Now), TRUE, disableLast), InitHistory)

(* sasl_listmech() failed: startServer() returns without doResultsReady() *)
startServerMute ==
    /\ TRUE \in Server /\ c.posted < MaxPosted
    /\ Become([start(reset(Now), TRUE, TRUE) EXCEPT !.c.posted = c.posted],
              [InitHistory EXCEPT !.mute = TRUE])

Reset == Become(reset(Now), InitHistory)

(* The application answers what it was asked, once; a peer's answer to a   *)
(* step takes longer than the trigger that the step's signal has started.  *)
Reply(turn, op) ==
    /\ h.turn = turn /\ d.actionQueue = <<>>
    /\ Become(call(Now, op), [h EXCEPT !.turn = "none"])

putServerFirstStep == Reply("first", "OpServerFirstStep")
putStep == Reply("step", "OpNextStep")
tryAgain == Reply("params", "OpTryAgain")

Write ==
    /\ io.out + io.out_pending < MaxOut
    /\ Become(update([Now EXCEPT !.io.out = @ + 1]), h)

WriteIncoming ==
    /\ io.from_net < MaxNet
    /\ Become(update([Now EXCEPT !.io.from_net = @ + 1]), [h EXCEPT !.late = @ \/ d.authed])

Read == io.in > 0 /\ Become([Now EXCEPT !.io.in = 0], h)

ReadOutgoing ==
    Become([Now EXCEPT !.io.to_net = 0, !.io.to_net_encoded = 0], h)

ResultsReady ==
    /\ c.posted > 0
    /\ io.in < MaxBuf /\ io.to_net < MaxBuf /\ io.to_net_encoded > -MaxDrift
    /\ \E o \in Answers([Now EXCEPT !.c.posted = @ - 1]) :
          Become(sasl_resultsReady([Now EXCEPT !.c.posted = @ - 1], o), h)

doNextAction ==
    /\ d.trigger
    /\ Become(processNextAction([Now EXCEPT !.d.trigger = FALSE]), h)

Next ==
    \/ startClient
    \/ \E b \in BOOLEAN : startServer(b)
    \/ startServerMute
    \/ Reset
    \/ putServerFirstStep
    \/ putStep
    \/ tryAgain
    \/ Write
    \/ WriteIncoming
    \/ Read
    \/ ReadOutgoing
    \/ ResultsReady
    \/ doNextAction

Spec == Init /\ [][Next]_vars

(* The event loop delivers what is posted and runs the trigger; the        *)
(* application reads what arrives.                                         *)
Fairness ==
    /\ WF_vars(ResultsReady) /\ WF_vars(doNextAction)
    /\ WF_vars(Read) /\ WF_vars(ReadOutgoing)

FairSpec == Spec /\ Fairness

------------------------------------------------------------------------------
(* The members of SASL::Private and of the provider have their types, and  *)
(* out_pending never goes below zero.                                      *)
TypeOK ==
    /\ d \in Privates /\ io \in Buffers /\ c \in Contexts
    /\ sig \in Sigs /\ h \in Histories

(* An operation SASL waits for has a completion on its way, although a     *)
(* completion left over from before a reset may have been taken for it.    *)
ResultOnItsWay == d.op # "none" => c.posted > 0 \/ h.mute

(* putStep(), putServerFirstStep() and continueAfterParams() return        *)
(* without effect while an operation runs: that never meets an application *)
(* that answers the signal it got last.                                    *)
RepliesTaken ==
    h.turn \in {"first", "step", "params"} /\ d.actionQueue = <<>> => d.op = "none"

(* No lost wakeup in the security layer: when neither the provider nor the *)
(* trigger will make update() run, no signal waits, no update is owed, no  *)
(* data that came after authenticated() are left, and the count of what    *)
(* the provider has not encoded yet is back at zero.                       *)
NoStall ==
    d.authed /\ d.op = "none" /\ ~d.trigger /\ d.errorCode = "none" =>
        d.actionQueue = <<>> /\ ~d.need_update /\ io.out = 0 /\ io.out_pending = 0 /\ ~h.late

(* clientStarted() or serverStarted() comes before any other signal of a   *)
(* session but needParams() and error(), authenticated() is the last       *)
(* signal of the authentication and comes once, data come only after it.   *)
AuthOrder ==
    [][/\ sig' \in {"nextStep", "authCheck", "authenticated"} => h.begun
       /\ sig' \in {"clientStarted", "serverStarted"} => ~h.begun
       /\ sig' \in {"readyRead", "readyReadOutgoing"} => h.turn \in {"open", "failed"}
       /\ h.turn = "open" => sig' \notin AuthSignals]_vars

(* Data written while the session authenticates or an update runs are      *)
(* given to the provider once it is authenticated, unless it fails.        *)
WrittenFlows ==
    (d.authed /\ io.out > 0 /\ d.errorCode = "none") ~> (io.out = 0 \/ d.errorCode # "none")

(* Encoded output waits in the provider only while its update is           *)
(* unanswered: after an answer nothing of the session is left that a later *)
(* update, of this or of another session, would send.  Except after an     *)
(* error, which does not clear it; and a reset() during an update leaves   *)
(* it as "old".                                                            *)
OutputTaken == c.result_to_net = "own" => d.op = "OpUpdate" \/ h.turn = "failed"
==============================================================================
