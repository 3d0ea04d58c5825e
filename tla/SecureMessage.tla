---------------------------- MODULE SecureMessage ----------------------------
(***************************************************************************)
(* A message operation of the application, from class SecureMessage down   *)
(* through the GnuPG plugin: MyMessageContext, which asks the user for     *)
(* passphrases and cards, GpgOp, which hands the events of the action to   *)
(* its signals or to waitForEvent(), and the process of module GpgProc.    *)
(*                                                                         *)
(* A slot and the chain of signals it emits run to completion, so each     *)
(* action below is one event of the event loop or one call of the          *)
(* application; the child process and the user act in between.  Data are   *)
(* counted in chunks.                                                      *)
(***************************************************************************)
EXTENDS GpgProc, Sums, FiniteSetsExt

CONSTANTS Ops,        \* operations the application starts
          Lines,      \* status lines the child may write
          MaxStarts,  \* operations started on one object
          MaxWrites,  \* chunks given to one operation
          MaxLines    \* status lines one child writes

ASSUME OpsAssumption == Ops \subseteq Kinds /\ Ops # {}
ASSUME LinesAssumption == Lines \subseteq StatusLines
ASSUME BoundsAssumption == {MaxStarts, MaxWrites, MaxLines} \subseteq Nat

VARIABLES g,       \* the action of GpgOp, its process and the child
          op,      \* GpgOp::Private
          ctx,     \* MyMessageContext
          msg,     \* SecureMessage::Private
          asker,   \* the PasswordAsker and the TokenAsker of the context
          app      \* the application, and what it has seen and done

vars == <<g, op, ctx, msg, asker, app>>

State == [g |-> g, op |-> op, ctx |-> ctx, msg |-> msg, asker |-> asker, app |-> app]

(* a step of the whole stack, its result evaluated once *)
Become(t) ==
    \E s \in {t} :
        /\ g' = s.g /\ op' = s.op /\ ctx' = s.ctx /\ msg' = s.msg
        /\ asker' = s.asker /\ app' = s.app

(* GpgOp: act tells whether there is an action, events are those that      *)
(* waitForEvent() has still to return                                      *)
NewOp == [act |-> FALSE, events |-> <<>>, output |-> NoOutput, result |-> FALSE]

NewContext == [finished |-> FALSE, ok |-> FALSE, out |-> FALSE, wrote |-> 0,
               op_err |-> "Unknown", signer |-> "none"]

NewMessage == [in |-> FALSE, success |-> FALSE, errorCode |-> "Unknown", signer |-> "none",
               bytesWrittenArgs |-> <<>>, readyReadTrigger |-> FALSE,
               bytesWrittenTrigger |-> FALSE, finishedTrigger |-> FALSE]

(* mode: "calls" when the application runs its event loop, "waiting"       *)
(* inside waitForFinished(), "dead" after a call through the missing       *)
(* action of GpgOp.  open: an operation was started, and neither           *)
(* finished() nor reset() has ended it for the application.  told counts   *)
(* finished(), reported the bytes of bytesWritten(); crossed tells that a  *)
(* call fell between doStart() and proc_started(), late that the user      *)
(* refused a prompt of an operation that was over                          *)
NewApp == [mode |-> "calls", starts |-> 0, open |-> FALSE, sent |-> 0, ended |-> FALSE,
           told |-> 0, reported |-> 0, crossed |-> FALSE, late |-> FALSE]

NewState == [g |-> NewSession(CHOOSE k \in Ops : TRUE), op |-> NewOp, ctx |-> NewContext,
             msg |-> NewMessage, asker |-> [k \in Prompts |-> "idle"], app |-> NewApp]

MsgInit ==
    /\ g = NewState.g /\ op = NewState.op /\ ctx = NewState.ctx
    /\ msg = NewState.msg /\ asker = NewState.asker /\ app = NewState.app

(* a call through the missing action ends the program *)
Dead == [NewState EXCEPT !.app.mode = "dead"]

Waiting == app.mode = "waiting"
Running == app.mode # "dead"
channel(s) == IF useAux(s.g) THEN "aux" ELSE "stdin"

----------------------------------------------------------------------------
(* SecureMessage::Private and MyMessageContext, bottom up *)

msgReset_LeavesTrigger(s) ==
    [s EXCEPT !.ctx = [@ EXCEPT !.wrote = 0, !.ok = FALSE, !.signer = "none"],
              !.msg = [@ EXCEPT !.bytesWrittenArgs = <<>>, !.readyReadTrigger = FALSE,
                                !.finishedTrigger = FALSE]]

(* reset(ResetSession), with MyMessageContext::reset() *)
msgReset(s) ==
    [s EXCEPT !.ctx = [@ EXCEPT !.wrote = 0, !.ok = FALSE, !.signer = "none"],
              !.msg = [@ EXCEPT !.bytesWrittenArgs = <<>>, !.readyReadTrigger = FALSE,
                                !.bytesWrittenTrigger = FALSE, !.finishedTrigger = FALSE]]

(* MyMessageContext::errorCode() has no code of its own for some failures *)
errorCode(e) == IF e \in {"Process", "DecryptNoKey"} THEN "Unknown" ELSE e

(* updated(): the results of a finished operation are copied before the    *)
(* context forgets them, and the signals follow from the event loop        *)
updated(s) ==
    LET taken == [s EXCEPT !.msg.in = @ \/ s.ctx.out, !.ctx.out = FALSE, !.ctx.wrote = 0]
        done  == IF ~s.ctx.finished THEN taken
                 ELSE msgReset([taken EXCEPT !.msg.success = s.ctx.ok,
                                             !.msg.errorCode = errorCode(s.ctx.op_err),
                                             !.msg.signer = IF s.ctx.ok THEN s.ctx.signer ELSE @])
    IN  [done EXCEPT !.msg.readyReadTrigger = @ \/ s.ctx.out,
                     !.msg.bytesWrittenArgs = IF s.ctx.wrote > 0 THEN Append(@, s.ctx.wrote) ELSE @,
                     !.msg.bytesWrittenTrigger = @ \/ s.ctx.wrote > 0,
                     !.msg.finishedTrigger = @ \/ s.ctx.finished]

(* MyMessageContext::complete(); op_err is only assigned on failure *)
complete(s) ==
    LET o == s.op.output
    IN  [s EXCEPT !.ctx.finished = TRUE, !.ctx.ok = o.success,
                  !.ctx.out = IF o.success THEN s.op.result ELSE @,
                  !.op.result = IF o.success THEN FALSE ELSE @,
                  !.ctx.signer = IF o.success THEN o.verifyResult ELSE @,
                  !.ctx.op_err = IF o.success THEN @ ELSE o.errorCode]

seterror_LeavesGpg(s) ==
    [s EXCEPT !.ctx.finished = TRUE, !.ctx.ok = FALSE, !.ctx.op_err = "Unknown"]

(* seterror(), with GpgOp::reset() *)
seterror(s) ==
    [s EXCEPT !.g.proc = NoProc, !.g.queue = <<>>, !.op = NewOp,
              !.ctx.finished = TRUE, !.ctx.ok = FALSE, !.ctx.op_err = "Unknown"]

(* GpgOp::act_finished(), and gpg_finished() when nobody waits *)
act_finished(s, output) ==
    LET ended == [s EXCEPT !.g.proc = NoProc, !.g.queue = <<>>,
                           !.op = [@ EXCEPT !.act = FALSE, !.output = output,
                                            !.result = s.g.child.output /\ ~useAux(s.g)]]
    IN  IF Waiting THEN [ended EXCEPT !.op.events = Append(@, "finished")]
        ELSE updated(complete(ended))

(* doTryDone() *)
doTryDone(s) == IF CanBeDone(s.g) THEN act_finished([s EXCEPT !.g = reset(s.g)], verdict(s.g)) ELSE s

(* proc_finished() and proc_error(): the status pipe is read to its end,   *)
(* and when that yields lines the end waits for the done trigger           *)
procEnded_AtOnce(s, success) ==
    doTryDone([s EXCEPT !.g.proc = [@ EXCEPT !.fin_process = TRUE, !.fin_status = TRUE,
                                             !.fin_process_success = success]])

procEnded(s, success) ==
    LET ended == [s EXCEPT !.g.proc = [@ EXCEPT !.fin_process = TRUE,
                                                !.fin_process_success = success]]
        whole == [ended EXCEPT !.g.proc.fin_status = TRUE]
    IN  IF s.g.proc.fin_status THEN doTryDone(ended)
        ELSE IF s.g.child.status = <<>> THEN doTryDone(whole)
        ELSE [whole EXCEPT !.g = readStatus([@ EXCEPT !.proc.doneTrigger = TRUE])]

(* GpgOp::act_needPassphrase() and act_needCard() *)
act_need(s, prompt) ==
    IF Waiting THEN [s EXCEPT !.op.events = Append(@, prompt)]
    ELSE [s EXCEPT !.asker[prompt] = "asking"]

(* GpgAction::proc_bytesWrittenX(); a waiter is told but does not count.   *)
(* LineConverter::writtenToActual() is the identity except on Windows.     *)
bytesWritten(s, ch) ==
    IF Waiting \/ ch # channel(s) THEN s ELSE [s EXCEPT !.ctx.wrote = @ + 1]

(* a verification collects the output itself *)
readyReadStdout(s) == IF Waiting \/ useAux(s.g) THEN s ELSE updated(s)

(* the slot behind one queued event *)
Slot(s, e) ==
    CASE e = "started"           -> [s EXCEPT !.g = proc_started(@)]
      [] e = "bytesWrittenStdin" -> bytesWritten(s, "stdin")
      [] e = "bytesWrittenAux"   -> bytesWritten(s, "aux")
      [] e = "readyReadStdout"   -> readyReadStdout(s)
      [] e = "finished"          -> procEnded(s, TRUE)
      [] e \in Prompts           -> act_need(s, e)
      [] e = "startError"        -> act_finished(s, Output(FALSE, "Process", "none"))
      [] OTHER                   -> procEnded(s, FALSE)

----------------------------------------------------------------------------
(* The event loop, of the application or of the worker it waits for *)

DoStart ==
    /\ Running /\ g.proc.startTrigger
    /\ \E started \in BOOLEAN : Become([State EXCEPT !.g = doStart(g, started)])

HandleEvent ==
    /\ Running /\ g.queue # <<>>
    /\ Become(Slot([State EXCEPT !.g.queue = Tail(@)], Head(g.queue)))

(* status_read() and status_error() *)
StatusRead ==
    /\ Running /\ g.proc.state # "none" /\ ~g.proc.fin_status /\ g.child.status # <<>>
    /\ Become([State EXCEPT !.g = readStatus(g)])

StatusClosed ==
    /\ Running /\ g.proc.state # "none" /\ ~g.proc.fin_status
    /\ g.child.status = <<>> /\ g.child.end # "no"
    /\ Become(doTryDone([State EXCEPT !.g.proc.fin_status = TRUE]))

Done ==
    /\ Running /\ g.proc.doneTrigger
    /\ Become(doTryDone([State EXCEPT !.g.proc.doneTrigger = FALSE]))

(* aux_error() and command_error(): the reader of a pipe is gone *)
PipeError ==
    /\ Running /\ g.proc.state # "none"
    /\ \E ch \in {"aux", "command"} : g.child.given[ch] # <<>>
    /\ Become(act_finished([State EXCEPT !.g = reset(g)], Output(FALSE, "Process", g.act.verifyResult)))

(* t_readyRead(), t_bytesWritten() and t_finished() *)
ReadyRead ==
    /\ app.mode = "calls" /\ msg.readyReadTrigger
    /\ msg' = [msg EXCEPT !.readyReadTrigger = FALSE]
    /\ UNCHANGED <<g, op, ctx, asker, app>>

BytesWritten ==
    /\ app.mode = "calls" /\ msg.bytesWrittenTrigger
    /\ msg' = [msg EXCEPT !.bytesWrittenTrigger = FALSE, !.bytesWrittenArgs = Tail(@)]
    /\ app' = [app EXCEPT !.reported = @ + Head(msg.bytesWrittenArgs)]
    /\ UNCHANGED <<g, op, ctx, asker>>

Finished ==
    /\ app.mode = "calls" /\ msg.finishedTrigger
    /\ msg' = [msg EXCEPT !.finishedTrigger = FALSE]
    /\ app' = [app EXCEPT !.told = @ + 1, !.open = FALSE]
    /\ UNCHANGED <<g, op, ctx, asker>>

----------------------------------------------------------------------------
(* The application *)

(* startEncrypt() and its siblings: reset(ResetSessionAndData), then       *)
(* MyMessageContext::start() and GpgOp::make_act(), which ends the action  *)
(* of an earlier operation                                                 *)
Start ==
    /\ app.mode = "calls" /\ app.starts < MaxStarts
    /\ \E k \in Ops, pipes \in BOOLEAN :
         Become([msgReset(State) EXCEPT
             !.msg = NewMessage, !.ctx.finished = FALSE,
             !.op = [NewOp EXCEPT !.act = TRUE],
             !.g = startAction(k, pipes),
             !.app = [NewApp EXCEPT !.starts = app.starts + 1, !.open = TRUE]])

Crossing == g.proc.state = "Running" /\ "started" \in ToSet(g.queue)

(* update(): GpgOp::write() goes through the action *)
Update ==
    /\ app.mode = "calls" /\ app.open /\ ~app.ended /\ app.sent < MaxWrites
    /\ Become(IF ~op.act THEN Dead
              ELSE [State EXCEPT !.g = write(g, channel(State), app.sent + 1),
                                 !.app.sent = @ + 1, !.app.crossed = @ \/ Crossing])

(* end(): GpgOp::endWrite() *)
End ==
    /\ app.mode = "calls" /\ app.open /\ ~app.ended
    /\ Become(IF ~op.act THEN Dead
              ELSE [State EXCEPT !.g = closeChannel(g, channel(State)),
                                 !.app.ended = TRUE, !.app.crossed = @ \/ Crossing])

(* reset(ResetAll) leaves the operation of the plugin alone *)
Reset ==
    /\ app.mode = "calls" /\ app.open
    /\ Become([msgReset(State) EXCEPT !.msg = NewMessage, !.app.open = FALSE])

waitForFinished ==
    /\ app.mode = "calls" /\ app.open /\ app.ended
    /\ app' = [app EXCEPT !.mode = "waiting"]
    /\ UNCHANGED <<g, op, ctx, msg, asker>>

(* GpgOp::submitPassphrase() and cardOkay() go through the action *)
Answered(s, prompt) == IF s.op.act THEN [s EXCEPT !.g = answer(@, prompt)] ELSE Dead

(* the return from MyMessageContext::waitForFinished(), and updated() *)
Return(s) == updated([s EXCEPT !.app.mode = "calls"])

(* One round of the loop in MyMessageContext::waitForFinished(): the       *)
(* passphrase is awaited, the card is not: tokenAsker.accepted() is FALSE  *)
(* unless the user was faster, and the response is signalled all the same  *)
WaitStep ==
    /\ Waiting /\ op.events # <<>>
    /\ LET e == Head(op.events)
           s == [State EXCEPT !.op.events = Tail(@)]
       IN  \/ e = "finished" /\ Become(Return(complete(s)))
           \/ e = "needPassphrase" /\ Become(Return(seterror([s EXCEPT !.asker[e] = "idle"])))
           \/ e = "needPassphrase"
              /\ Become(Answered([s EXCEPT !.asker[e] = "idle"], e))
           \/ e = "needCard" /\ Become(Return(seterror([s EXCEPT !.asker[e] = "asking"])))
           \/ e = "needCard"
              /\ Become(Answered([s EXCEPT !.asker[e] = "asking"], e))

(* The user answers: asker_responseReady() and tokenAsker_responseReady()  *)
Respond ==
    /\ app.mode = "calls"
    /\ \E k \in Prompts :
         LET s == [State EXCEPT !.asker[k] = "idle"]
         IN  /\ asker[k] = "asking"
             /\ \/ Become(updated(seterror([s EXCEPT !.app.late = @ \/ ~op.act])))
                \/ Become(Answered(s, k))

----------------------------------------------------------------------------
(* The gpg program *)

Asks == {"GET_HIDDEN", "GET_LINE", "GET_BOOL"}
ChildAsks ==
    Len(SelectSeq(g.child.said \o g.child.unheard, LAMBDA l : l \in Asks))
      > Len(g.child.given["command"])
ChildRuns == Running /\ g.proc.state = "Running"

(* after a write error the plugin has closed the status pipe of a gpg that *)
(* still runs, and the lines that follow are lost                          *)
ChildSays ==
    /\ ChildRuns /\ ~ChildAsks /\ Len(g.child.said) + Len(g.child.unheard) < MaxLines
    /\ \E l \in Lines :
         g' = IF g.proc.fin_status THEN [g EXCEPT !.child.unheard = Append(@, l)]
              ELSE [g EXCEPT !.child.status = Append(@, l), !.child.said = Append(@, l)]
    /\ UNCHANGED <<op, ctx, msg, asker, app>>

(* gpg writes its output while it reads, from the first chunk on, in any   *)
(* number of pieces; one signal of new output waits at a time              *)
ChildWrites ==
    /\ ChildRuns /\ "readyReadStdout" \notin ToSet(g.queue)
    /\ g.child.given[channel(State)] # <<>> \/ g.child.eof[channel(State)]
    /\ g' = [g EXCEPT !.child.output = TRUE, !.queue = Append(@, "readyReadStdout")]
    /\ UNCHANGED <<op, ctx, msg, asker, app>>

ChildEnds(how, signals) ==
    /\ ChildRuns
    /\ g' = [g EXCEPT !.child.end = how, !.proc.state = "NotRunning", !.queue = @ \o signals]
    /\ UNCHANGED <<op, ctx, msg, asker, app>>

ChildExits ==
    /\ ~ChildAsks /\ g.child.eof[channel(State)]
    /\ \E how \in {"ok", "error"} : ChildEnds(how, <<"finished">>)

(* gpg gives up before it has read everything, or is killed: QProcess      *)
(* reports a crash as an error and as the end                              *)
ChildFails == ChildEnds("error", <<"finished">>) \/ ChildEnds("crash", <<"Crashed", "finished">>)

(* gpg closed its standard input; it may still run *)
WriteFails ==
    /\ ChildRuns /\ g.child.given["stdin"] # <<>> /\ ~g.proc.fin_process
    /\ "WriteError" \notin ToSet(g.queue)
    /\ g' = [g EXCEPT !.child.deaf = TRUE, !.queue = Append(@, "WriteError")]
    /\ UNCHANGED <<op, ctx, msg, asker, app>>

----------------------------------------------------------------------------
MsgNext ==
    \/ DoStart \/ HandleEvent \/ StatusRead \/ StatusClosed \/ Done \/ PipeError
    \/ ReadyRead \/ BytesWritten \/ Finished
    \/ Start \/ Update \/ End \/ Reset \/ waitForFinished \/ WaitStep \/ Respond
    \/ ChildSays \/ ChildWrites \/ ChildExits \/ ChildFails \/ WriteFails

MsgSpec == MsgInit /\ [][MsgNext]_vars

(* The event loop of the application, or of the worker inside              *)
(* waitForFinished(), serves its timers, its posted events and its         *)
(* notifiers; the application ends its input, the user answers, and a gpg  *)
(* that has all its input and no question exits                            *)
MsgFairSpec ==
    /\ MsgSpec
    /\ WF_vars(DoStart \/ Done \/ Finished) /\ WF_vars(HandleEvent)
    /\ WF_vars(StatusRead \/ StatusClosed) /\ WF_vars(WaitStep) /\ WF_vars(End) /\ WF_vars(Respond) /\ WF_vars(ChildExits)

----------------------------------------------------------------------------
(* The members of the plugin's classes and of SecureMessage::Private have  *)
(* their types; only documented error codes reach the application.         *)
TypeOK ==
    /\ g.proc \in Procs /\ g.act \in Actions
    /\ \A i \in DOMAIN g.queue : g.queue[i] \in Relayed \cup Posted
    /\ g.child.end \in Ends
    /\ \A i \in DOMAIN op.events : op.events[i] \in Prompts \cup {"finished"}
    /\ op.output \in Outputs /\ op.act \in BOOLEAN
    /\ ctx.op_err \in Errors /\ ctx.wrote \in Nat
    /\ msg.errorCode \in Errors \ {"Process", "DecryptNoKey"} /\ msg.signer \in Signatures
    /\ asker \in [Prompts -> {"idle", "asking"}]
    /\ app.mode \in {"calls", "waiting", "dead"} /\ app.told \in Nat

Verdicts == {"GOODSIG", "BADSIG", "ERRSIG"}

(* The last of the lines S among those said, "none" if there is none *)
LastOf(said, S) ==
    LET at == {i \in DOMAIN said : said[i] \in S}
    IN  IF at = {} THEN "none" ELSE said[Max(at)]

(* NODATA is passed over between a missing key and a decryption that       *)
(* succeeds after all: there is one error code, and NO_SECKEY took it      *)
PassedOver(said, i) ==
    /\ \E j \in DOMAIN said : j < i /\ said[j] = "NO_SECKEY"
    /\ \E j \in DOMAIN said : j > i /\ said[j] = "DECRYPTION_OKAY"

Flawless(said) ==
    /\ LastOf(said, {"GOOD_PASSPHRASE", "BAD_PASSPHRASE"}) # "BAD_PASSPHRASE"
    /\ LastOf(said, {"NO_SECKEY", "DECRYPTION_OKAY"}) # "NO_SECKEY"
    /\ \A i \in DOMAIN said : /\ said[i] # "EXPKEYSIG"
                             /\ said[i] = "NODATA" => PassedOver(said, i)

(* The verdict about the child of session x, from its end and everything   *)
(* it said as long as the plugin listened                                  *)
Deserved(x) ==
    LET said(l) == l \in ToSet(x.child.said)
    IN  /\ x.child.end \in {"ok", "error", "crash"}
        /\ Flawless(x.child.said)
        /\ \/ x.child.end = "ok"
           \/ x.act.op = "Decrypt" /\ said("DECRYPTION_OKAY")
           \/ x.act.op = "Sign" /\ said("SIG_CREATED")
           \/ x.act.op = "VerifyDetached" /\ LastOf(x.child.said, Verdicts) # "none"

(* success() is TRUE, or a signature is called good, only on the strength  *)
(* of this operation's own child, judged after it ended and by every       *)
(* status line it wrote as long as the plugin listened, whatever the order *)
(* in which the end of the process and the end of the pipe are noticed     *)
(* (GPGProc::doTryDone(), proc_finished()) and whatever an earlier         *)
(* operation left behind.  Lines go unheard in one case only: gpg stopped  *)
(* reading its input, proc_error() closed the status pipe, and gpg wrote   *)
(* on.                                                                     *)
SuccessDeserved ==
    /\ msg.success => Deserved(g)
    /\ msg.signer = "good" => LastOf(g.child.said, Verdicts) = "GOODSIG"
    /\ g.child.unheard # <<>> => g.child.deaf

(* gpg gets the chunks in the order of update() and its input ends after   *)
(* the last one, except when the application calls between doStart() and   *)
(* the queued proc_started(), where writeStdin() overtakes pre_stdin.      *)
InputInOrder ==
    LET data == g.child.given[channel(State)]
    IN  op.act /\ ~app.crossed =>
          /\ data = [i \in 1 .. Len(data) |-> i]
          /\ g.child.eof[channel(State)] => app.ended /\ Len(data) = app.sent

(* The application is told finished() once for an operation, also when a   *)
(* crash is signalled twice or the end was put off by status lines; only a *)
(* prompt refused after the end reports it again (asker_responseReady()).  *)
ToldOnce == app.told > 1 => app.late

(* t_bytesWritten() always finds an argument to take, and no more bytes    *)
(* are reported than were handed to the child.                             *)
BytesHonest ==
    /\ msg.bytesWrittenTrigger => msg.bytesWrittenArgs # <<>>
    /\ app.reported + Total(msg.bytesWrittenArgs) + ctx.wrote
         <= Len(g.child.given[channel(State)])

(* waitForFinished() does not return: it was called when the operation was *)
(* already over, or while a prompt of the event-driven kind was open, whose*)
(* answer the blocked thread cannot take.  A prompt that the loop of       *)
(* waitForFinished() has answered or has still to take is not one of them. *)
Stuck ==
    /\ Waiting
    /\ \/ ~op.act /\ op.events = <<>>
       \/ \E k \in g.act.need :
             asker[k] = "asking" /\ k \notin ToSet(op.events) \cup ToSet(g.queue)

(* Every operation is reported: finished() follows the start, whatever way *)
(* the process ends and whoever waits for it, unless the application gives *)
(* it up, is stuck in waitForFinished(), or has called through the missing *)
(* action.                                                                 *)
OperationEnds == app.open ~> ~app.open \/ Stuck \/ app.mode = "dead"
==============================================================================
