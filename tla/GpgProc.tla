------------------------------ MODULE GpgProc ------------------------------
(***************************************************************************)
(* One gpg process as the GnuPG plugin drives it: class GPGProc, which     *)
(* feeds a QProcess and three pipes, and class GpgAction, which reads the  *)
(* status lines of the process and turns its end into a verdict.           *)
(*                                                                         *)
(* A session is a record g: proc is GPGProc::Private, act the GpgAction    *)
(* that owns it, queue the events posted for the two that the event loop   *)
(* has still to deliver, and child the gpg program itself, which is        *)
(* external.  The operators take a session and return it as the call or    *)
(* the slot leaves it.                                                     *)
(***************************************************************************)
EXTENDS Naturals, Sequences, SequencesExt

(* Pipes of the child the plugin writes to: standard input, the aux pipe   *)
(* for the data of a detached signature, and the command pipe              *)
Channels == {"stdin", "aux", "command"}

(* What the event loop delivers: signals QProcessSignalRelay and the pipes *)
(* put off, and the calls that GpgAction and GPGProc post to themselves    *)
Prompts == {"needPassphrase", "needCard"}
Posted == Prompts \cup {"startError"}
Relayed == {"started", "bytesWrittenStdin", "bytesWrittenAux", "readyReadStdout",
            "finished", "Crashed", "FailedToStart", "WriteError"}

(* A chunk of the message is its number, anything else that is written 0   *)
Other == 0

(* state is QProcess::state(), "none" while there is no QProcess; pre and  *)
(* pre_close hold what is written and closed before the process runs       *)
Procs == [state : {"none", "NotRunning", "Running"},
          startTrigger : BOOLEAN, doneTrigger : BOOLEAN,
          pre : [Channels -> Seq(Nat)], pre_close : [Channels -> BOOLEAN],
          need_status : BOOLEAN, fin_process : BOOLEAN,
          fin_process_success : BOOLEAN, fin_status : BOOLEAN]

NoProc == [state |-> "none", startTrigger |-> FALSE, doneTrigger |-> FALSE,
           pre |-> [ch \in Channels |-> <<>>],
           pre_close |-> [ch \in Channels |-> FALSE],
           need_status |-> FALSE, fin_process |-> FALSE,
           fin_process_success |-> FALSE, fin_status |-> FALSE]

(* The gpg program: what reached it, the status lines that wait in the     *)
(* pipe, all it said into the pipe, what it said when the pipe was closed  *)
(* (unheard), whether it stopped reading (deaf), and how it ended          *)
Ends == {"no", "failed", "ok", "error", "crash"}
NewChild == [given |-> [ch \in Channels |-> <<>>], eof |-> [ch \in Channels |-> FALSE],
             status |-> <<>>, said |-> <<>>, unheard |-> <<>>, deaf |-> FALSE,
             output |-> FALSE, end |-> "no"]

(* GpgAction between start() and the verdict; need holds the prompts       *)
(* (need_submitPassphrase, need_cardOkay) that wait for an answer          *)
Kinds == {"Encrypt", "Decrypt", "Sign", "VerifyDetached"}
Errors == {"Unknown", "Process", "Passphrase", "Format", "DecryptNoKey", "SignerExpired"}
Signatures == {"none", "good", "bad", "nokey"}
Actions == [op : Kinds, need : SUBSET Prompts, badPassphrase : BOOLEAN, curError : Errors,
            decryptGood : BOOLEAN, signGood : BOOLEAN, verifyResult : Signatures]
NewAction(op) == [op |-> op, need |-> {}, badPassphrase |-> FALSE, curError |-> "Unknown",
                  decryptGood |-> FALSE, signGood |-> FALSE, verifyResult |-> "none"]

NewSession(op) == [proc |-> NoProc, act |-> NewAction(op), queue |-> <<>>, child |-> NewChild]

useAux(g) == g.act.op = "VerifyDetached"

----------------------------------------------------------------------------
(* GPGProc *)

(* reset(ResetSession): the process is ended and its relay deleted, which  *)
(* takes the relay's signals along but not the posted calls                *)
reset(g) ==
    [g EXCEPT !.proc = [NoProc EXCEPT !.fin_process_success = g.proc.fin_process_success],
              !.queue = SelectSeq(@, LAMBDA e : e \in Posted)]

(* QPipeEnd::write() takes nothing once the end was closed, appends to the *)
(* buffer and reports later what the pipe took, and so does QProcess for   *)
(* stdin; the reports of the command pipe reach nobody                     *)
Deliver(g, ch, items) ==
    [g EXCEPT !.child.given[ch] = IF g.child.eof[ch] THEN @ ELSE @ \o items,
              !.queue = IF ch = "command" \/ g.child.eof[ch] THEN @
                        ELSE @ \o [i \in DOMAIN items |-> IF ch = "stdin" THEN "bytesWrittenStdin"
                                                          ELSE "bytesWrittenAux"]]

(* writeStdin(), writeAux(), writeCommand() *)
write(g, ch, x) ==
    CASE g.proc.state = "none" -> g
      [] g.proc.state = "Running" -> Deliver(g, ch, <<x>>)
      [] OTHER -> [g EXCEPT !.proc.pre[ch] = Append(@, x)]

closeChannel_AtOnce(g, ch) ==
    IF g.proc.state = "none" THEN g ELSE [g EXCEPT !.child.eof[ch] = TRUE]

(* closeStdin(), closeAux() *)
closeChannel(g, ch) ==
    CASE g.proc.state = "none" -> g
      [] g.proc.state = "Running" -> [g EXCEPT !.child.eof[ch] = TRUE]
      [] OTHER -> [g EXCEPT !.proc.pre_close[ch] = TRUE]

(* start(): the process is only started from the event loop, and so is a   *)
(* failure to create the pipes reported                                    *)
startProc(g, pipes) ==
    IF ~pipes THEN [g EXCEPT !.queue = Append(@, "startError")]
    ELSE [g EXCEPT !.proc.state = "NotRunning", !.proc.need_status = TRUE,
                   !.proc.startTrigger = TRUE]

(* doStart() waits until the process has started, or failed to *)
doStart(g, started) ==
    [g EXCEPT !.proc.startTrigger = FALSE,
              !.proc.state = IF started THEN "Running" ELSE "NotRunning",
              !.child.end = IF started THEN "no" ELSE "failed",
              !.queue = Append(@, IF started THEN "started" ELSE "FailedToStart")]

proc_started_DropsClose(g) ==
    LET flush(h, ch) == [Deliver(h, ch, g.proc.pre[ch]) EXCEPT !.proc.pre[ch] = <<>>]
    IN  flush(flush(flush(g, "stdin"), "aux"), "command")

(* proc_started(): what was written before goes out, then what was closed  *)
(* before is closed; pre_close keeps its value                             *)
proc_started(g) ==
    LET flush(h, ch) == [Deliver(h, ch, g.proc.pre[ch]) EXCEPT !.proc.pre[ch] = <<>>]
        all == flush(flush(flush(g, "stdin"), "aux"), "command")
    IN  [all EXCEPT !.child.eof = [ch \in Channels |-> @[ch] \/ g.proc.pre_close[ch]]]

(* doTryDone() goes on when the process has ended and, if there is a       *)
(* status pipe, that has ended too                                         *)
CanBeDone(g) == g.proc.fin_process /\ (g.proc.need_status => g.proc.fin_status)

----------------------------------------------------------------------------
(* GpgAction *)

(* submitPassphrase() and cardOkay() *)
answer(g, prompt) ==
    IF prompt \notin g.act.need THEN g
    ELSE write([g EXCEPT !.act.need = @ \ {prompt}], "command", Other)

better(e, new) == IF e = "Unknown" THEN new ELSE e

(* processStatusLine(), by the keyword of the line; NODATA stands also for *)
(* UNEXPECTED and INV_RECP, EXPKEYSIG for REVKEYSIG and EXPSIG, which      *)
(* differ in the error code only                                           *)
StatusLines == {"NODATA", "EXPKEYSIG", "NO_SECKEY", "DECRYPTION_OKAY", "SIG_CREATED",
                "GET_HIDDEN", "GET_LINE", "GET_BOOL", "GOOD_PASSPHRASE", "BAD_PASSPHRASE",
                "GOODSIG", "BADSIG", "ERRSIG"}

ask(g, prompt) == [g EXCEPT !.act.need = @ \cup {prompt}, !.queue = Append(@, prompt)]

processStatusLine(g, line) ==
    IF g.proc.state = "none" THEN g
    ELSE CASE line = "NODATA"          -> [g EXCEPT !.act.curError = better(@, "Format")]
           [] line = "EXPKEYSIG"       -> [g EXCEPT !.act.curError = "SignerExpired"]
           [] line = "NO_SECKEY"       -> [g EXCEPT !.act.curError = better(@, "DecryptNoKey")]
           [] line = "DECRYPTION_OKAY" -> [g EXCEPT !.act.decryptGood = TRUE,
                                                    !.act.curError = IF @ = "DecryptNoKey" THEN "Unknown" ELSE @]
           [] line = "SIG_CREATED"     -> [g EXCEPT !.act.signGood = TRUE]
           [] line = "GET_HIDDEN"      -> ask(g, "needPassphrase")
           [] line = "GET_LINE"        -> ask(g, "needCard")
           [] line = "GET_BOOL"        -> write(g, "command", Other)
           [] line = "GOOD_PASSPHRASE" -> [g EXCEPT !.act.badPassphrase = FALSE]
           [] line = "BAD_PASSPHRASE"  -> [g EXCEPT !.act.badPassphrase = TRUE]
           [] line = "GOODSIG"         -> [g EXCEPT !.act.verifyResult = "good"]
           [] line = "BADSIG"          -> [g EXCEPT !.act.verifyResult = "bad"]
           [] OTHER                    -> [g EXCEPT !.act.verifyResult = "nokey"]

(* readAndProcessStatusData(), and readyReadStatusLines() of the action *)
readStatus(g) ==
    LET lines == g.child.status
        after[i \in 0 .. Len(lines)] ==
            IF i = 0 THEN [g EXCEPT !.child.status = <<>>]
            ELSE processStatusLine(after[i - 1], lines[i])
    IN  after[Len(lines)]

(* processResult(): a bad passphrase or a recorded error decides, then the *)
(* exit code, and for decryption, signing and verification what the status *)
(* lines said                                                              *)
Output(success, error, signature) ==
    [success |-> success, errorCode |-> error, verifyResult |-> signature]
Outputs == [success : BOOLEAN, errorCode : Errors, verifyResult : Signatures]
NoOutput == Output(FALSE, "Unknown", "none")

Succeeded(g) ==
    \/ g.child.end = "ok"
    \/ g.act.op = "Decrypt" /\ g.act.decryptGood
    \/ g.act.op = "Sign" /\ g.act.signGood
    \/ g.act.op = "VerifyDetached" /\ g.act.verifyResult # "none"

processResult(g) ==
    LET failed(e) == Output(FALSE, e, g.act.verifyResult)
    IN  IF g.act.badPassphrase THEN failed("Passphrase")
        ELSE IF g.act.curError # "Unknown" THEN failed(g.act.curError)
        ELSE Output(Succeeded(g), "Unknown", g.act.verifyResult)

(* the output when GPGProc reports finished() or error() *)
verdict(g) ==
    IF g.proc.fin_process_success THEN processResult(g)
    ELSE Output(FALSE, "Process", g.act.verifyResult)

(* GpgAction::start() for an operation of a message; the signature of a    *)
(* detached verification is written and its channel closed at once         *)
startAction(op, pipes) ==
    LET g == startProc(NewSession(op), pipes)
    IN  IF op # "VerifyDetached" THEN g
        ELSE closeChannel(write(g, "stdin", Other), "stdin")
==============================================================================
