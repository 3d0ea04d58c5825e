------------------------- MODULE SecureMessageProofs -------------------------
(***************************************************************************)
(* Proofs about SecureMessage, for every value of its constants: success   *)
(* is deserved, input arrives in order, finished() is told once, and no    *)
(* byte is reported that was not written.                                  *)
(***************************************************************************)
EXTENDS SecureMessage, Induction

Events == Relayed \cup Posted

Children == [given : [Channels -> Seq(Nat)], eof : [Channels -> BOOLEAN],
             status : Seq(StatusLines), said : Seq(StatusLines), unheard : Seq(StatusLines),
             deaf : BOOLEAN, output : BOOLEAN, end : Ends]

Sessions == [proc : Procs, act : Actions, queue : Seq(Events), child : Children]

OpStates == [act : BOOLEAN, events : Seq(Prompts \cup {"finished"}), output : Outputs,
             result : BOOLEAN]

ContextStates == [finished : BOOLEAN, ok : BOOLEAN, out : BOOLEAN, wrote : Nat,
                  op_err : Errors, signer : Signatures]

MessageStates == [in : BOOLEAN, success : BOOLEAN,
                  errorCode : Errors \ {"Process", "DecryptNoKey"}, signer : Signatures,
                  bytesWrittenArgs : Seq(Nat), readyReadTrigger : BOOLEAN,
                  bytesWrittenTrigger : BOOLEAN, finishedTrigger : BOOLEAN]

AppStates == [mode : {"calls", "waiting", "dead"}, starts : Nat, open : BOOLEAN, sent : Nat,
              ended : BOOLEAN, told : Nat, reported : Nat, crossed : BOOLEAN, late : BOOLEAN]

Machines == [g : Sessions, op : OpStates, ctx : ContextStates, msg : MessageStates,
             asker : [Prompts -> {"idle", "asking"}], app : AppStates]

------------------------------------------------------------------------------
(* The input of the message: what the child has, what waits for it to run  *)
Input(x) == IF useAux(x) THEN "aux" ELSE "stdin"
Data(x) == x.child.given[Input(x)]
Held(x) == x.proc.pre[Input(x)]
Numbers(n) == [i \in 1..n |-> i]

(* proc_started() has run *)
Started(x) == ~x.proc.startTrigger /\ \A i \in 1..Len(x.queue) : x.queue[i] # "started"

InOrder(x, a) ==
    /\ Data(x) \o Held(x) = Numbers(a.sent)
    /\ x.child.eof[Input(x)] => a.ended /\ Held(x) = <<>>
    /\ x.proc.pre_close[Input(x)] => a.ended
    /\ x.proc.state = "Running" /\ Started(x) => Held(x) = <<>>
    /\ ~Started(x) => Data(x) = <<>> /\ ~x.child.eof[Input(x)]

Feed(x, a) ==
    /\ x.proc.state = "none" => Data(x) = <<>> /\ ~x.child.eof[Input(x)]
    /\ x.proc.state # "none" /\ ~a.crossed => InOrder(x, a)

(* The life of the process and the events that belong to it *)
Over == {"ok", "error", "crash"}

(* Lines go unheard only once gpg has stopped reading *)
Ominous == {"finished", "Crashed", "FailedToStart"}

Listening(x) == x.child.unheard # <<>> => x.child.deaf

Heard(x) ==
    /\ Listening(x)
    /\ x.proc.state = "Running" => x.child.end = "no" /\ (x.proc.fin_status => x.child.deaf)
    /\ x.proc.startTrigger => ~x.proc.fin_status
    /\ \A i \in 1..Len(x.queue) : /\ x.queue[i] \in Ominous => x.proc.state # "Running"
                                  /\ x.queue[i] = "WriteError" => x.child.deaf

Phases(x) ==
    /\ Heard(x)
    /\ x.proc.state = "none" => x.proc = NoProc /\ \A i \in 1..Len(x.queue) : x.queue[i] \in Posted
    /\ x.proc.state # "none" => x.proc.need_status
    /\ x.proc.startTrigger => /\ x.proc.state = "NotRunning" /\ x.queue = <<>>
                              /\ x.child.status = <<>> /\ x.child.end = "no"
                              /\ ~x.proc.fin_process_success
    /\ \A i, j \in 1..Len(x.queue) : x.queue[i] = "started" /\ x.queue[j] = "started" => i = j
    /\ x.proc.fin_status => x.child.status = <<>>
    /\ x.proc.fin_process_success => x.child.end \in Over
    /\ \A i \in 1..Len(x.queue) : x.queue[i] = "finished" => x.child.end \in Over

(* The status lines r left their marks in the action *)
Signature(line) ==
    CASE line = "GOODSIG" -> "good" [] line = "BADSIG" -> "bad" [] line = "ERRSIG" -> "nokey"
      [] OTHER -> "none"

Unflawed(act, r) ==
    /\ \A i \in 1..Len(r) : /\ r[i] # "EXPKEYSIG"
                            /\ r[i] = "NODATA" => \E j \in 1..Len(r) : j < i /\ r[j] = "NO_SECKEY"
    /\ act.curError = "DecryptNoKey" => \E j \in 1..Len(r) : r[j] = "NO_SECKEY"
    /\ act.curError = "Unknown" =>
         /\ LastOf(r, {"NO_SECKEY", "DECRYPTION_OKAY"}) # "NO_SECKEY"
         /\ \A i \in 1..Len(r) : r[i] = "NODATA" => PassedOver(r, i)

Recorded(act, r) ==
    /\ act.badPassphrase = (LastOf(r, {"GOOD_PASSPHRASE", "BAD_PASSPHRASE"}) = "BAD_PASSPHRASE")
    /\ act.curError \in {"Unknown", "DecryptNoKey"} => Unflawed(act, r)
    /\ act.decryptGood => \E i \in 1..Len(r) : r[i] = "DECRYPTION_OKAY"
    /\ act.signGood => \E i \in 1..Len(r) : r[i] = "SIG_CREATED"
    /\ act.verifyResult = Signature(LastOf(r, Verdicts))

Read(x) == SubSeq(x.child.said, 1, Len(x.child.said) - Len(x.child.status))

Judged(x) ==
    /\ Len(x.child.status) <= Len(x.child.said)
    /\ x.child.said = Read(x) \o x.child.status
    /\ Recorded(x.act, Read(x))

(* A session with an action *)
Sound(x, a) == Feed(x, a) /\ Phases(x) /\ Judged(x)

------------------------------------------------------------------------------
(* bytesWritten() events of the input that are still to be delivered *)
Notes(q, e) == Total([i \in 1..Len(q) |-> IF q[i] = e THEN 1 ELSE 0])
Note(x) == IF useAux(x) THEN "bytesWrittenAux" ELSE "bytesWrittenStdin"
Pending(x) == Notes(x.queue, Note(x))

Counted(s) ==
    /\ s.app.reported + Total(s.msg.bytesWrittenArgs) + s.ctx.wrote + Pending(s.g) <= Len(Data(s.g))
    /\ s.msg.bytesWrittenTrigger => s.msg.bytesWrittenArgs # <<>>

(* The end is the last event that waitForEvent() returns *)
NoEnd(q) == \A i \in 1..Len(q) : q[i] \in Prompts
EndsIn(q) == q # <<>> /\ q[Len(q)] = "finished" /\ \A i \in 1..(Len(q) - 1) : q[i] \in Prompts

(* While there is an action nothing is told of its end *)
Calm(s) ==
    /\ ~s.ctx.finished /\ ~s.msg.success /\ s.msg.signer = "none"
    /\ s.app.told = 0 /\ ~s.msg.finishedTrigger
    /\ NoEnd(s.op.events)

Busy(s) == Sound(s.g, s.app) /\ Calm(s)

(* What an output or a message may say of the child *)
Earned(x, success, signer) ==
    /\ Listening(x)
    /\ success => Deserved(x)
    /\ signer = "good" => LastOf(x.child.said, Verdicts) = "GOODSIG"

(* Without an action the end was told, is about to be told, or waits for   *)
(* waitForFinished()                                                       *)
Ended(s) ==
    /\ s.g.proc = NoProc /\ s.g.queue = <<>>
    /\ Earned(s.g, s.msg.success, s.msg.signer)
    /\ s.op.output.success => Earned(s.g, TRUE, s.op.output.verifyResult)
    /\ \/ s.op.events = <<>> /\ (s.app.late \/ s.app.told = 0 \/ (s.app.told = 1 /\ ~s.msg.finishedTrigger))
       \/ EndsIn(s.op.events) /\ s.app.told = 0 /\ ~s.msg.finishedTrigger

Rest(s) ==
    /\ ~s.ctx.ok
    /\ s.app.mode = "calls" => s.op.events = <<>>
    /\ Counted(s)

Good(s) ==
    /\ s.op.act => Busy(s)
    /\ ~s.op.act => Ended(s)
    /\ Rest(s)

IInv == State \in Machines /\ Good(State)

------------------------------------------------------------------------------
(* Searches and counts                                                     *)

LEMMA LastFacts ==
  ASSUME NEW S \in SUBSET StatusLines, NEW r \in Seq(StatusLines), NEW l \in StatusLines
  PROVE  /\ LastOf(<<>>, S) = "none"
         /\ LastOf(r, S) # "none" => LastOf(r, S) \in S
         /\ l \in S => LastOf(Append(r, l), S) = l
         /\ l \notin S => LastOf(Append(r, l), S) = LastOf(r, S)
<1> DEFINE at == {i \in DOMAIN r : r[i] \in S}
           a == Append(r, l)
           then == {i \in DOMAIN a : a[i] \in S}
<1>1. LastOf(<<>>, S) = "none"
  BY DEF LastOf
<1>2. a \in Seq(StatusLines) /\ Len(a) = Len(r) + 1 /\ DOMAIN r = 1..Len(r) /\ DOMAIN a = 1..(Len(r) + 1)
      /\ a[Len(r) + 1] = l /\ \A i \in 1..Len(r) : a[i] = r[i]
  OBVIOUS
<1> HIDE DEF a
<1>3. at \subseteq 0..Len(r) /\ then \subseteq 0..(Len(r) + 1)
  BY <1>2
<1>4. at # {} => Max(at) \in at
  <2>1. Len(r) \in Nat
    OBVIOUS
  <2> HIDE DEF at
  <2> QED BY <1>3, <2>1, MaxFacts
<1>5. LastOf(r, S) = IF at = {} THEN "none" ELSE r[Max(at)]
  BY DEF LastOf
<1>6. LastOf(a, S) = IF then = {} THEN "none" ELSE a[Max(then)]
  BY DEF LastOf
<1>7. ASSUME l \in S PROVE LastOf(a, S) = l
  <2>1. Len(r) + 1 \in then
    BY <1>2, <1>7
  <2>2. Len(r) + 1 \in Nat
    OBVIOUS
  <2>3. Max(then) \in then /\ Len(r) + 1 <= Max(then)
    <3> HIDE DEF then
    <3> QED BY <1>3, <2>1, <2>2, MaxFacts
  <2>4. Max(then) = Len(r) + 1
    <3> DEFINE m == Max(then)
    <3>1. m \in 0..(Len(r) + 1) /\ Len(r) + 1 <= m
      <4> HIDE DEF then
      <4> QED BY <1>3, <2>3
    <3> HIDE DEF m, then
    <3>2. m = Len(r) + 1
      BY <3>1
    <3> QED BY <3>2 DEF m
  <2> QED BY <1>2, <1>6, <2>1, <2>4
<1>8. ASSUME l \notin S PROVE LastOf(a, S) = LastOf(r, S)
  <2>1. then = at
    BY <1>2, <1>8
  <2>2. at # {} => a[Max(at)] = r[Max(at)]
    BY <1>2, <1>4
  <2> HIDE DEF at, then
  <2> QED BY <1>5, <1>6, <2>1, <2>2
<1>9. LastOf(r, S) # "none" => LastOf(r, S) \in S
  BY <1>4, <1>5
<1> QED BY <1>1, <1>7, <1>8, <1>9 DEF a

LEMMA LastAppend ==
  ASSUME NEW r \in Seq(StatusLines), NEW l \in StatusLines
  PROVE  \A S \in SUBSET StatusLines :
            LastOf(Append(r, l), S) = (IF l \in S THEN l ELSE LastOf(r, S))
  BY LastFacts

Ones(q, e) == [i \in 1..Len(q) |-> IF q[i] = e THEN 1 ELSE 0]

LEMMA NotesFacts ==
  ASSUME NEW e, NEW p \in Seq(Events), NEW q \in Seq(Events)
  PROVE  /\ Notes(p, e) \in Nat /\ Notes(<<>>, e) = 0
         /\ Notes(p \o q, e) = Notes(p, e) + Notes(q, e)
         /\ p # <<>> => Notes(p, e) = (IF Head(p) = e THEN 1 ELSE 0) + Notes(Tail(p), e)
<1>1. ASSUME NEW t \in Seq(Events)
      PROVE  Ones(t, e) \in Seq(Nat) /\ Ones(t, e) \in Seq(Int) /\ Notes(t, e) = Total(Ones(t, e))
             /\ Notes(t, e) \in Nat
  <2>1. Ones(t, e) \in Seq(Nat) /\ Ones(t, e) \in Seq(Int)
    BY DEF Ones
  <2>2. Total(Ones(t, e)) \in Nat
    BY <2>1, TotalNat
  <2>3. Notes(t, e) = Total(Ones(t, e))
    BY DEF Notes, Ones
  <2> QED BY <2>1, <2>2, <2>3
<1>2. ASSUME NEW s \in Seq(Events), NEW t \in Seq(Events)
      PROVE  Notes(s \o t, e) = Notes(s, e) + Notes(t, e)
  <2>1. s \o t \in Seq(Events)
    OBVIOUS
  <2>2. Ones(s \o t, e) = Ones(s, e) \o Ones(t, e)
    BY DEF Ones
  <2>3. Total(Ones(s, e) \o Ones(t, e)) = Total(Ones(s, e)) + Total(Ones(t, e))
    BY <1>1, TotalConcat
  <2>4. Notes(s \o t, e) = Total(Ones(s \o t, e))
    BY <1>1, <2>1
  <2> QED BY <1>1, <2>2, <2>3, <2>4
<1>3. Notes(<<>>, e) = 0
  <2>1. Ones(<<>>, e) = <<>> /\ <<>> \in Seq(Events) /\ <<>> \in Seq(Int) /\ 0 \in Int
    BY DEF Ones
  <2>2. Total(<<>>) = 0
    BY <2>1, TotalAppend
  <2>3. Notes(<<>>, e) = Total(Ones(<<>>, e))
    BY <1>1, <2>1
  <2> QED BY <2>1, <2>2, <2>3
<1>4. ASSUME p # <<>>
      PROVE  Notes(p, e) = (IF Head(p) = e THEN 1 ELSE 0) + Notes(Tail(p), e)
  <2> DEFINE h == <<Head(p)>>
             t == Tail(p)
             k == IF Head(p) = e THEN 1 ELSE 0
  <2>1. h \in Seq(Events) /\ t \in Seq(Events) /\ p = h \o t /\ k \in Int
    BY <1>4
  <2>2. Ones(h, e) = <<k>>
    BY DEF Ones
  <2> HIDE DEF h, t, k
  <2>3. Total(<<k>>) = k
    <3>1. <<>> \in Seq(Int)
      OBVIOUS
    <3> QED BY <2>1, <3>1, TotalAppend
  <2>4. Notes(h, e) = k
    BY <1>1, <2>1, <2>2, <2>3
  <2>5. Notes(p, e) = Notes(h, e) + Notes(t, e)
    BY <1>2, <2>1
  <2>6. Notes(p, e) = k + Notes(t, e)
    BY <2>4, <2>5
  <2> QED BY <2>6 DEF k, t
<1> QED BY <1>1, <1>2, <1>3, <1>4

LEMMA NotesConst ==
  ASSUME NEW e, NEW q \in Seq(Events)
  PROVE  /\ (\A i \in 1..Len(q) : q[i] # e) => Notes(q, e) = 0
         /\ (\A i \in 1..Len(q) : q[i] = e) => Notes(q, e) = Len(q)
<1>1. Ones(q, e) \in Seq(Int) /\ Len(Ones(q, e)) = Len(q) /\ Notes(q, e) = Total(Ones(q, e))
  BY DEF Notes, Ones
<1>2. ASSUME \A i \in 1..Len(q) : q[i] # e PROVE Notes(q, e) = 0
  <2>1. \A i \in 1..Len(Ones(q, e)) : Ones(q, e)[i] = 0
    BY <1>1, <1>2 DEF Ones
  <2>2. Total(Ones(q, e)) = 0
    BY <1>1, <2>1, TotalConst
  <2> QED BY <1>1, <2>2
<1>3. ASSUME \A i \in 1..Len(q) : q[i] = e PROVE Notes(q, e) = Len(q)
  <2>1. \A i \in 1..Len(Ones(q, e)) : Ones(q, e)[i] = 1
    BY <1>1, <1>3 DEF Ones
  <2>2. Total(Ones(q, e)) = Len(Ones(q, e))
    BY <1>1, <2>1, TotalConst
  <2> QED BY <1>1, <2>2
<1> QED BY <1>2, <1>3

------------------------------------------------------------------------------
(* Status lines                                                            *)

(* A step that leaves the input and the life of the process alone: it may  *)
(* write commands and post prompts                                         *)
SameProc(p, q) ==
    /\ q.state = p.state /\ q.startTrigger = p.startTrigger /\ q.doneTrigger = p.doneTrigger
    /\ q.pre_close = p.pre_close /\ q.need_status = p.need_status
    /\ q.fin_process = p.fin_process /\ q.fin_process_success = p.fin_process_success
    /\ q.fin_status = p.fin_status
    /\ q.pre["stdin"] = p.pre["stdin"] /\ q.pre["aux"] = p.pre["aux"]
    /\ p.state = "none" => q = p

SameChild(k, n) ==
    /\ n.eof = k.eof /\ n.status = k.status /\ n.said = k.said
    /\ n.output = k.output /\ n.end = k.end /\ n.unheard = k.unheard /\ n.deaf = k.deaf
    /\ n.given["stdin"] = k.given["stdin"] /\ n.given["aux"] = k.given["aux"]

Aside(x, n) ==
    /\ n \in Sessions
    /\ SameProc(x.proc, n.proc) /\ SameChild(x.child, n.child) /\ n.act.op = x.act.op
    /\ \E p \in Seq(Prompts) : n.queue = x.queue \o p

LEMMA SessionFields ==
  ASSUME NEW x \in Sessions
  PROVE  /\ x.proc \in Procs /\ x.act \in Actions /\ x.queue \in Seq(Events)
         /\ x.child \in Children
  BY DEF Sessions

LEMMA MakeSession ==
  ASSUME NEW n, NEW p \in Procs, NEW a \in Actions, NEW q \in Seq(Events), NEW k \in Children,
         n = [proc |-> p, act |-> a, queue |-> q, child |-> k]
  PROVE  n \in Sessions
  BY DEF Sessions

LEMMA AsideRefl ==
  ASSUME NEW x \in Sessions
  PROVE  Aside(x, x)
<1>1. x.queue = x.queue \o <<>> /\ <<>> \in Seq(Prompts)
  BY SessionFields
<1> QED BY <1>1 DEF Aside, SameProc, SameChild

LEMMA AsideTrans ==
  ASSUME NEW x \in Sessions, NEW y, NEW z, Aside(x, y), Aside(y, z)
  PROVE  Aside(x, z)
<1>1. SameProc(x.proc, z.proc) /\ SameChild(x.child, z.child) /\ z.act.op = x.act.op /\ z \in Sessions
  BY DEF Aside, SameProc, SameChild
<1>2. PICK p \in Seq(Prompts) : y.queue = x.queue \o p
  BY DEF Aside
<1>3. PICK q \in Seq(Prompts) : z.queue = y.queue \o q
  BY DEF Aside
<1>4. x.queue \in Seq(Events)
  BY SessionFields
<1>5. (x.queue \o p) \o q = x.queue \o (p \o q) /\ p \o q \in Seq(Prompts)
  <2>1. p \in Seq(Events) /\ q \in Seq(Events)
    BY DEF Events, Posted
  <2>2. ASSUME NEW w \in Seq(Events), NEW u \in Seq(Events), NEW v \in Seq(Events)
        PROVE  (w \o u) \o v = w \o (u \o v)
    BY SMTT(30)
  <2>3. (x.queue \o p) \o q = x.queue \o (p \o q)
    BY <1>4, <2>1, <2>2, Zenon
  <2> QED BY <2>3
<1> QED BY <1>1, <1>2, <1>3, <1>5 DEF Aside

LEMMA WriteCommand ==
  ASSUME NEW x \in Sessions
  PROVE  /\ Aside(x, write(x, "command", Other))
         /\ write(x, "command", Other).act = x.act /\ write(x, "command", Other).queue = x.queue
<1> DEFINE n == write(x, "command", Other)
<1>1. CASE x.proc.state = "none"
  BY <1>1, AsideRefl DEF write
<1>2. CASE x.proc.state = "Running"
  <2> DEFINE v == IF x.child.eof["command"] THEN x.child.given["command"]
                  ELSE x.child.given["command"] \o <<Other>>
             k == [x.child EXCEPT !.given = [@ EXCEPT !["command"] = v]]
  <2>1. n = [x EXCEPT !.child = k, !.queue = x.queue]
    BY <1>2 DEF write, Deliver
  <2>2. v \in Seq(Nat)
    BY SessionFields DEF Children, Channels, Other
  <2> HIDE DEF v
  <2>3. k \in Children /\ SameChild(x.child, k)
    BY <2>2, SessionFields DEF Children, SameChild, Channels
  <2> HIDE DEF k, n
  <2>4. n \in Sessions /\ n.child = k /\ n.queue = x.queue /\ n.proc = x.proc /\ n.act = x.act
    BY <2>1, <2>3 DEF Sessions
  <2>5. x.queue = x.queue \o <<>> /\ <<>> \in Seq(Prompts)
    BY SessionFields
  <2>6. Aside(x, n)
    BY <2>3, <2>4, <2>5 DEF Aside, SameProc
  <2> QED BY <2>4, <2>6 DEF n
<1>3. CASE x.proc.state = "NotRunning"
  <2> DEFINE v == Append(x.proc.pre["command"], Other)
             p == [x.proc EXCEPT !.pre = [@ EXCEPT !["command"] = v]]
  <2>1. n = [x EXCEPT !.proc = p]
    BY <1>3 DEF write
  <2>2. v \in Seq(Nat)
    BY SessionFields DEF Procs, Channels, Other
  <2> HIDE DEF v
  <2>3. p \in Procs /\ SameProc(x.proc, p)
    BY <1>3, <2>2, SessionFields DEF Procs, SameProc, Channels
  <2> HIDE DEF p, n
  <2>4. n \in Sessions /\ n.child = x.child /\ n.queue = x.queue /\ n.proc = p /\ n.act = x.act
    BY <2>1, <2>3 DEF Sessions
  <2>5. x.queue = x.queue \o <<>> /\ <<>> \in Seq(Prompts)
    BY SessionFields
  <2>6. Aside(x, n)
    BY <2>3, <2>4, <2>5 DEF Aside, SameChild
  <2> QED BY <2>4, <2>6 DEF n
<1> QED BY <1>1, <1>2, <1>3, SessionFields DEF Procs


(* The action after a status line *)
Marked(a, l) ==
    CASE l = "NODATA"          -> [a EXCEPT !.curError = better(@, "Format")]
      [] l = "EXPKEYSIG"       -> [a EXCEPT !.curError = "SignerExpired"]
      [] l = "NO_SECKEY"       -> [a EXCEPT !.curError = better(@, "DecryptNoKey")]
      [] l = "DECRYPTION_OKAY" -> [a EXCEPT !.decryptGood = TRUE,
                                            !.curError = IF @ = "DecryptNoKey" THEN "Unknown" ELSE @]
      [] l = "SIG_CREATED"     -> [a EXCEPT !.signGood = TRUE]
      [] l = "GET_HIDDEN"      -> [a EXCEPT !.need = @ \cup {"needPassphrase"}]
      [] l = "GET_LINE"        -> [a EXCEPT !.need = @ \cup {"needCard"}]
      [] l = "GET_BOOL"        -> a
      [] l = "GOOD_PASSPHRASE" -> [a EXCEPT !.badPassphrase = FALSE]
      [] l = "BAD_PASSPHRASE"  -> [a EXCEPT !.badPassphrase = TRUE]
      [] l = "GOODSIG"         -> [a EXCEPT !.verifyResult = "good"]
      [] l = "BADSIG"          -> [a EXCEPT !.verifyResult = "bad"]
      [] OTHER                 -> [a EXCEPT !.verifyResult = "nokey"]

LEMMA MarkedFields ==
  ASSUME NEW a \in Actions, NEW l \in StatusLines
  PROVE  /\ Marked(a, l) \in Actions /\ Marked(a, l).op = a.op
         /\ Marked(a, l).badPassphrase = (IF l = "BAD_PASSPHRASE" THEN TRUE
                                          ELSE IF l = "GOOD_PASSPHRASE" THEN FALSE ELSE a.badPassphrase)
         /\ Marked(a, l).decryptGood = (IF l = "DECRYPTION_OKAY" THEN TRUE ELSE a.decryptGood)
         /\ Marked(a, l).signGood = (IF l = "SIG_CREATED" THEN TRUE ELSE a.signGood)
         /\ Marked(a, l).verifyResult = (IF l = "GOODSIG" THEN "good" ELSE IF l = "BADSIG" THEN "bad"
                                         ELSE IF l = "ERRSIG" THEN "nokey" ELSE a.verifyResult)
         /\ Marked(a, l).curError =
              (CASE l = "NODATA" -> better(a.curError, "Format")
                 [] l = "EXPKEYSIG" -> "SignerExpired"
                 [] l = "NO_SECKEY" -> better(a.curError, "DecryptNoKey")
                 [] l = "DECRYPTION_OKAY" -> IF a.curError = "DecryptNoKey" THEN "Unknown" ELSE a.curError
                 [] OTHER -> a.curError)
<1> USE DEF Marked, Actions, Errors, better, Signatures, Prompts
<1>1. CASE l = "NODATA"
  BY <1>1
<1>2. CASE l = "EXPKEYSIG"
  BY <1>2
<1>3. CASE l = "NO_SECKEY"
  BY <1>3
<1>4. CASE l = "DECRYPTION_OKAY"
  BY <1>4
<1>5. CASE l = "SIG_CREATED"
  BY <1>5
<1>6. CASE l = "GET_HIDDEN"
  BY <1>6
<1>7. CASE l = "GET_LINE"
  BY <1>7
<1>8. CASE l = "GET_BOOL"
  BY <1>8
<1>9. CASE l = "GOOD_PASSPHRASE"
  BY <1>9
<1>10. CASE l = "BAD_PASSPHRASE"
  BY <1>10
<1>11. CASE l = "GOODSIG"
  BY <1>11
<1>12. CASE l = "BADSIG"
  BY <1>12
<1>13. CASE l = "ERRSIG"
  BY <1>13
<1> QED
  <2> USE <1>1, <1>2, <1>3, <1>4, <1>5, <1>6, <1>7, <1>8, <1>9, <1>10, <1>11, <1>12, <1>13
  <2> HIDE DEF Marked, Actions, Errors, better, Signatures, Prompts
  <2> QED BY DEF StatusLines

LEMMA AppendFacts ==
  ASSUME NEW r \in Seq(StatusLines), NEW l \in StatusLines
  PROVE  /\ Append(r, l) \in Seq(StatusLines) /\ Len(Append(r, l)) = Len(r) + 1
         /\ Append(r, l)[Len(r) + 1] = l /\ \A i \in 1..Len(r) : Append(r, l)[i] = r[i]
         /\ DOMAIN Append(r, l) = 1..(Len(r) + 1) /\ DOMAIN r = 1..Len(r)
  OBVIOUS

LEMMA PassedOverKept ==
  ASSUME NEW r \in Seq(StatusLines), NEW l \in StatusLines, NEW i \in 1..Len(r)
  PROVE  /\ PassedOver(r, i) => PassedOver(Append(r, l), i)
         /\ (\E j \in 1..Len(r) : j < i /\ r[j] = "NO_SECKEY") /\ l = "DECRYPTION_OKAY"
              => PassedOver(Append(r, l), i)
<1> DEFINE a == Append(r, l)
<1>1. Len(a) = Len(r) + 1 /\ a[Len(r) + 1] = l /\ (\A j \in 1..Len(r) : a[j] = r[j])
      /\ DOMAIN a = 1..(Len(r) + 1) /\ DOMAIN r = 1..Len(r)
  BY AppendFacts
<1> HIDE DEF a
<1>2. ASSUME NEW j \in 1..Len(r), j < i, r[j] = "NO_SECKEY"
      PROVE  \E k \in DOMAIN a : k < i /\ a[k] = "NO_SECKEY"
  BY <1>1, <1>2
<1>3. ASSUME NEW j \in 1..Len(r), j > i, r[j] = "DECRYPTION_OKAY"
      PROVE  \E k \in DOMAIN a : k > i /\ a[k] = "DECRYPTION_OKAY"
  BY <1>1, <1>3
<1>4. ASSUME l = "DECRYPTION_OKAY" PROVE \E k \in DOMAIN a : k > i /\ a[k] = "DECRYPTION_OKAY"
  <2>1. Len(r) + 1 \in DOMAIN a /\ Len(r) + 1 > i /\ a[Len(r) + 1] = "DECRYPTION_OKAY"
    BY <1>1, <1>4
  <2> QED BY <2>1
<1>5. PassedOver(r, i) => PassedOver(a, i)
  BY <1>1, <1>2, <1>3 DEF PassedOver
<1>6. (\E j \in 1..Len(r) : j < i /\ r[j] = "NO_SECKEY") /\ l = "DECRYPTION_OKAY" => PassedOver(a, i)
  BY <1>2, <1>4 DEF PassedOver
<1> QED BY <1>5, <1>6 DEF a


LEMMA MarkedUnflawed ==
  ASSUME NEW a \in Actions, NEW l \in StatusLines, NEW r \in Seq(StatusLines),
         a.curError \in {"Unknown", "DecryptNoKey"} => Unflawed(a, r),
         Marked(a, l).curError \in {"Unknown", "DecryptNoKey"}
  PROVE  Unflawed(Marked(a, l), Append(r, l))
<1> DEFINE n == Marked(a, l)
           q == Append(r, l)
<1>1. /\ a.curError \in {"Unknown", "DecryptNoKey"} /\ l # "EXPKEYSIG"
      /\ l = "NODATA" => a.curError = "DecryptNoKey"
      /\ l = "NO_SECKEY" => n.curError = "DecryptNoKey"
      /\ l = "DECRYPTION_OKAY" => n.curError = "Unknown"
      /\ l \notin {"NO_SECKEY", "DECRYPTION_OKAY"} => n.curError = a.curError
  BY MarkedFields DEF better, Actions, Errors
<1>2. Unflawed(a, r)
  BY <1>1
<1>3. Len(q) = Len(r) + 1 /\ q[Len(r) + 1] = l /\ (\A j \in 1..Len(r) : q[j] = r[j])
  BY AppendFacts
<1>4. /\ LastOf(q, {"NO_SECKEY", "DECRYPTION_OKAY"}) =
            (IF l \in {"NO_SECKEY", "DECRYPTION_OKAY"} THEN l
             ELSE LastOf(r, {"NO_SECKEY", "DECRYPTION_OKAY"}))
  <2>1. {"NO_SECKEY", "DECRYPTION_OKAY"} \in SUBSET StatusLines
    BY DEF StatusLines
  <2> QED BY <2>1, LastAppend, ZenonT(40)
<1>5. \A i \in 1..Len(r) : /\ PassedOver(r, i) => PassedOver(q, i)
                           /\ (\E j \in 1..Len(r) : j < i /\ r[j] = "NO_SECKEY") /\ l = "DECRYPTION_OKAY"
                                => PassedOver(q, i)
  BY PassedOverKept
<1> HIDE DEF n, q
<1>6. ASSUME NEW i \in 1..Len(q)
      PROVE  q[i] # "EXPKEYSIG" /\ (q[i] = "NODATA" => \E j \in 1..Len(q) : j < i /\ q[j] = "NO_SECKEY")
  <2>1. CASE i \in 1..Len(r)
    <3>1. r[i] # "EXPKEYSIG" /\ (r[i] = "NODATA" => \E j \in 1..Len(r) : j < i /\ r[j] = "NO_SECKEY")
      BY <1>2, <2>1 DEF Unflawed
    <3> QED BY <1>3, <2>1, <3>1
  <2>2. CASE i = Len(r) + 1
    <3>1. q[i] = l
      BY <1>3, <2>2
    <3>2. ASSUME l = "NODATA" PROVE \E j \in 1..Len(q) : j < i /\ q[j] = "NO_SECKEY"
      <4>1. PICK j \in 1..Len(r) : r[j] = "NO_SECKEY"
        BY <1>1, <1>2, <3>2 DEF Unflawed
      <4> QED BY <1>3, <2>2, <4>1
    <3> QED BY <1>1, <3>1, <3>2
  <2>3. i \in 1..Len(r) \/ i = Len(r) + 1
    BY <1>3
  <2> QED BY <2>1, <2>2, <2>3
<1>7. ASSUME n.curError = "DecryptNoKey" PROVE \E j \in 1..Len(q) : q[j] = "NO_SECKEY"
  <2>1. CASE l = "NO_SECKEY"
    <3>1. Len(r) + 1 \in 1..Len(q)
      BY <1>3
    <3> QED BY <1>3, <2>1, <3>1
  <2>2. CASE l # "NO_SECKEY"
    <3>1. a.curError = "DecryptNoKey"
      BY <1>1, <1>7, <2>2
    <3>2. PICK j \in 1..Len(r) : r[j] = "NO_SECKEY"
      BY <1>2, <3>1 DEF Unflawed
    <3> QED BY <1>3, <3>2
  <2> QED BY <2>1, <2>2
<1>8. ASSUME n.curError = "Unknown"
      PROVE  /\ LastOf(q, {"NO_SECKEY", "DECRYPTION_OKAY"}) # "NO_SECKEY"
             /\ \A i \in 1..Len(q) : q[i] = "NODATA" => PassedOver(q, i)
  <2>1. l # "NO_SECKEY" /\ l # "NODATA"
    BY <1>1, <1>8
  <2>2. ASSUME NEW i \in 1..Len(q), q[i] = "NODATA" PROVE i \in 1..Len(r) /\ r[i] = "NODATA"
    BY <1>3, <2>1, <2>2
  <2>3. CASE l = "DECRYPTION_OKAY"
    <3>1. ASSUME NEW i \in 1..Len(q), q[i] = "NODATA" PROVE PassedOver(q, i)
      <4>1. i \in 1..Len(r) /\ r[i] = "NODATA"
        BY <2>2, <3>1
      <4>2. \E j \in 1..Len(r) : j < i /\ r[j] = "NO_SECKEY"
        BY <1>2, <4>1 DEF Unflawed
      <4> QED BY <1>5, <2>3, <4>1, <4>2
    <3> QED BY <1>4, <2>3, <3>1
  <2>4. CASE l # "DECRYPTION_OKAY"
    <3>1. a.curError = "Unknown"
      BY <1>1, <1>8, <2>1, <2>4
    <3>2. LastOf(r, {"NO_SECKEY", "DECRYPTION_OKAY"}) # "NO_SECKEY"
          /\ \A i \in 1..Len(r) : r[i] = "NODATA" => PassedOver(r, i)
      BY <1>2, <3>1 DEF Unflawed
    <3>3. ASSUME NEW i \in 1..Len(q), q[i] = "NODATA" PROVE PassedOver(q, i)
      BY <1>5, <2>2, <3>2, <3>3
    <3> QED BY <1>4, <2>1, <2>4, <3>2, <3>3
  <2> QED BY <2>3, <2>4
<1> QED BY <1>6, <1>7, <1>8 DEF Unflawed, n, q

LEMMA MarkedRecorded ==
  ASSUME NEW a \in Actions, NEW l \in StatusLines, NEW r \in Seq(StatusLines), Recorded(a, r)
  PROVE  Recorded(Marked(a, l), Append(r, l))
<1> DEFINE n == Marked(a, l)
           q == Append(r, l)
<1>1. Len(q) = Len(r) + 1 /\ q[Len(r) + 1] = l /\ (\A j \in 1..Len(r) : q[j] = r[j])
  BY AppendFacts
<1>2. /\ LastOf(q, {"GOOD_PASSPHRASE", "BAD_PASSPHRASE"}) =
            (IF l \in {"GOOD_PASSPHRASE", "BAD_PASSPHRASE"} THEN l
             ELSE LastOf(r, {"GOOD_PASSPHRASE", "BAD_PASSPHRASE"}))
      /\ LastOf(q, Verdicts) = (IF l \in Verdicts THEN l ELSE LastOf(r, Verdicts))
  <2>1. {"GOOD_PASSPHRASE", "BAD_PASSPHRASE"} \in SUBSET StatusLines
        /\ Verdicts \in SUBSET StatusLines
    BY DEF StatusLines, Verdicts
  <2> QED BY <2>1, LastAppend, ZenonT(40)
<1>3. n.curError \in {"Unknown", "DecryptNoKey"} => Unflawed(n, q)
  BY MarkedUnflawed DEF Recorded
<1>4. n.badPassphrase = (LastOf(q, {"GOOD_PASSPHRASE", "BAD_PASSPHRASE"}) = "BAD_PASSPHRASE")
  <2>1. n.badPassphrase = (IF l = "BAD_PASSPHRASE" THEN TRUE
                           ELSE IF l = "GOOD_PASSPHRASE" THEN FALSE ELSE a.badPassphrase)
    BY MarkedFields
  <2>2. a.badPassphrase = (LastOf(r, {"GOOD_PASSPHRASE", "BAD_PASSPHRASE"}) = "BAD_PASSPHRASE")
    BY DEF Recorded
  <2> HIDE DEF n, q
  <2> QED BY <1>2, <2>1, <2>2
<1>5. n.verifyResult = Signature(LastOf(q, Verdicts))
  <2>1. n.verifyResult = (IF l = "GOODSIG" THEN "good" ELSE IF l = "BADSIG" THEN "bad"
                          ELSE IF l = "ERRSIG" THEN "nokey" ELSE a.verifyResult)
    BY MarkedFields
  <2>2. a.verifyResult = Signature(LastOf(r, Verdicts))
    BY DEF Recorded
  <2> HIDE DEF n, q
  <2>3. CASE l \in Verdicts
    BY <1>2, <2>1, <2>3 DEF Verdicts, Signature
  <2>4. CASE l \notin Verdicts
    BY <1>2, <2>1, <2>2, <2>4 DEF Verdicts
  <2> QED BY <2>3, <2>4
<1>6. /\ n.decryptGood = (IF l = "DECRYPTION_OKAY" THEN TRUE ELSE a.decryptGood)
      /\ n.signGood = (IF l = "SIG_CREATED" THEN TRUE ELSE a.signGood)
  BY MarkedFields
<1> HIDE DEF n, q
<1>7. Len(r) + 1 \in 1..Len(q)
  BY <1>1
<1>8. n.decryptGood => \E i \in 1..Len(q) : q[i] = "DECRYPTION_OKAY"
  <2>1. CASE l = "DECRYPTION_OKAY"
    BY <1>1, <1>7, <2>1
  <2>2. CASE l # "DECRYPTION_OKAY"
    BY <1>1, <1>6, <2>2 DEF Recorded
  <2> QED BY <2>1, <2>2
<1>9. n.signGood => \E i \in 1..Len(q) : q[i] = "SIG_CREATED"
  <2>1. CASE l = "SIG_CREATED"
    BY <1>1, <1>7, <2>1
  <2>2. CASE l # "SIG_CREATED"
    BY <1>1, <1>6, <2>2 DEF Recorded
  <2> QED BY <2>1, <2>2
<1> QED BY <1>3, <1>4, <1>5, <1>8, <1>9 DEF Recorded, n, q


LEMMA LineStep ==
  ASSUME NEW x \in Sessions, NEW l \in StatusLines
  PROVE  /\ Aside(x, processStatusLine(x, l))
         /\ x.proc.state # "none" => processStatusLine(x, l).act = Marked(x.act, l)
<1> DEFINE n == processStatusLine(x, l)
<1>1. CASE x.proc.state = "none"
  <2>1. n = x
    BY <1>1 DEF processStatusLine
  <2> HIDE DEF n
  <2>2. Aside(x, n)
    BY <2>1, AsideRefl
  <2> QED BY <1>1, <2>2 DEF n
<1>2. CASE x.proc.state # "none" /\ l = "GET_BOOL"
  <2>1. n = write(x, "command", Other)
    BY <1>2 DEF processStatusLine
  <2>2. Marked(x.act, l) = x.act
    BY <1>2 DEF Marked
  <2> QED BY <2>1, <2>2, WriteCommand
<1>3. ASSUME NEW prompt \in Prompts, x.proc.state # "none", n = ask(x, prompt),
             Marked(x.act, l) = [x.act EXCEPT !.need = @ \cup {prompt}]
      PROVE  Aside(x, n) /\ n.act = Marked(x.act, l)
  <2> DEFINE m == Marked(x.act, l)
             p == <<prompt>>
  <2>1. n = [x EXCEPT !.act = m, !.queue = x.queue \o p]
    <3>1. Append(x.queue, prompt) = x.queue \o p
      BY SessionFields
    <3> QED BY <1>3, <3>1 DEF ask
  <2>2. m \in Actions /\ m.op = x.act.op
    BY MarkedFields, SessionFields
  <2>3. p \in Seq(Prompts) /\ x.queue \o p \in Seq(Events)
    BY SessionFields DEF Events, Posted
  <2> HIDE DEF m, p, n
  <2>4. n \in Sessions /\ n.act = m /\ n.queue = x.queue \o p /\ n.proc = x.proc /\ n.child = x.child
    BY <2>1, <2>2, <2>3 DEF Sessions
  <2>5. Aside(x, n)
    BY <2>2, <2>3, <2>4 DEF Aside, SameProc, SameChild
  <2> QED BY <2>4, <2>5 DEF m
<1>4. CASE x.proc.state # "none" /\ l = "GET_HIDDEN"
  <2>1. n = ask(x, "needPassphrase") /\ Marked(x.act, l) = [x.act EXCEPT !.need = @ \cup {"needPassphrase"}]
    BY <1>4 DEF processStatusLine, Marked
  <2>2. "needPassphrase" \in Prompts
    BY DEF Prompts
  <2> HIDE DEF n
  <2> QED BY <1>3, <1>4, <2>1, <2>2 DEF n
<1>5. CASE x.proc.state # "none" /\ l = "GET_LINE"
  <2>1. n = ask(x, "needCard") /\ Marked(x.act, l) = [x.act EXCEPT !.need = @ \cup {"needCard"}]
    BY <1>5 DEF processStatusLine, Marked
  <2>2. "needCard" \in Prompts
    BY DEF Prompts
  <2> HIDE DEF n
  <2> QED BY <1>3, <1>5, <2>1, <2>2 DEF n
<1>6. CASE x.proc.state # "none" /\ l \notin {"GET_BOOL", "GET_HIDDEN", "GET_LINE"}
  <2> DEFINE m == Marked(x.act, l)
  <2>1. n = [x EXCEPT !.act = m]
    BY <1>6 DEF processStatusLine, Marked, StatusLines
  <2>2. m \in Actions /\ m.op = x.act.op
    BY MarkedFields, SessionFields
  <2> HIDE DEF m, n
  <2>3. n \in Sessions /\ n.act = m /\ n.queue = x.queue /\ n.proc = x.proc /\ n.child = x.child
    BY <2>1, <2>2 DEF Sessions
  <2>4. x.queue = x.queue \o <<>> /\ <<>> \in Seq(Prompts)
    BY SessionFields
  <2>5. Aside(x, n)
    BY <2>2, <2>3, <2>4 DEF Aside, SameProc, SameChild
  <2> QED BY <2>3, <2>5 DEF m, n
<1> QED BY <1>1, <1>2, <1>4, <1>5, <1>6

Emptied(x) == [x EXCEPT !.child.status = <<>>]

LEMMA EmptiedFields ==
  ASSUME NEW x \in Sessions
  PROVE  /\ Emptied(x) \in Sessions /\ Emptied(x).proc = x.proc /\ Emptied(x).act = x.act
         /\ Emptied(x).queue = x.queue /\ Emptied(x).child.status = <<>>
         /\ Emptied(x).child.said = x.child.said /\ Emptied(x).child.given = x.child.given
         /\ Emptied(x).child.eof = x.child.eof /\ Emptied(x).child.end = x.child.end
         /\ Emptied(x).child.output = x.child.output
         /\ Emptied(x).child.unheard = x.child.unheard /\ Emptied(x).child.deaf = x.child.deaf
<1> DEFINE k == [x.child EXCEPT !.status = <<>>]
           n == Emptied(x)
<1>1. n = [x EXCEPT !.child = k]
  BY DEF Emptied
<1>2. /\ k \in Children /\ k.status = <<>> /\ k.said = x.child.said /\ k.given = x.child.given
      /\ k.eof = x.child.eof /\ k.end = x.child.end /\ k.output = x.child.output
      /\ k.unheard = x.child.unheard /\ k.deaf = x.child.deaf
  <2>1. x.child \in Children /\ <<>> \in Seq(StatusLines)
    BY SessionFields
  <2>2. k \in Children
    BY <2>1 DEF Children
  <2> QED BY <2>1 DEF Children
<1> HIDE DEF k, n
<1>3. n \in Sessions /\ n.proc = x.proc /\ n.act = x.act /\ n.queue = x.queue /\ n.child = k
  BY <1>1, <1>2 DEF Sessions
<1> QED BY <1>2, <1>3 DEF n

LEMMA ReadStatusFacts ==
  ASSUME NEW x \in Sessions, x.proc.state # "none",
         NEW r \in Seq(StatusLines), Recorded(x.act, r)
  PROVE  /\ Aside(Emptied(x), readStatus(x))
         /\ Recorded(readStatus(x).act, r \o x.child.status)
<1> DEFINE lines == x.child.status
           y == Emptied(x)
           f == CHOOSE f : f = [i \in 0..Len(lines) |->
                    IF i = 0 THEN y ELSE processStatusLine(f[i - 1], lines[i])]
<1>1. readStatus(x) = f[Len(lines)]
  BY DEF readStatus, Emptied
<1>2. lines \in Seq(StatusLines) /\ y \in Sessions /\ Len(lines) \in Nat
  BY SessionFields, EmptiedFields DEF Children
<1>3. y.proc.state # "none" /\ y.act = x.act
  BY EmptiedFields
<1> HIDE DEF y, lines
<1>4. f = [i \in 0..Len(lines) |-> IF i = 0 THEN y ELSE processStatusLine(f[i - 1], lines[i])]
  <2> DEFINE G == [p \in Sessions \X (1..Len(lines)) |-> processStatusLine(p[1], lines[p[2]])]
  <2>1. G \in [Sessions \X (1..Len(lines)) -> Sessions]
    <3>1. ASSUME NEW p \in Sessions \X (1..Len(lines))
          PROVE  processStatusLine(p[1], lines[p[2]]) \in Sessions
      <4>1. p[1] \in Sessions /\ lines[p[2]] \in StatusLines
        BY <1>2
      <4> QED BY <4>1, LineStep DEF Aside
    <3> QED BY <3>1
  <2>2. PICK h : Runs(h, Len(lines), Sessions, y, G)
    <3> HIDE DEF G
    <3> QED BY <1>2, <2>1, Recursion
  <2>3. ASSUME NEW i \in 1..Len(lines) PROVE h[i] = processStatusLine(h[i - 1], lines[i])
    <3>1. i - 1 \in 0..Len(lines) /\ h \in [0..Len(lines) -> Sessions]
      BY <1>2, <2>2 DEF Runs
    <3>2. <<h[i - 1], i>> \in Sessions \X (1..Len(lines))
      <4> HIDE DEF G
      <4> QED BY <3>1
    <3>3. h[i] = G[<<h[i - 1], i>>]
      <4> HIDE DEF G
      <4> QED BY <2>2 DEF Runs
    <3> QED BY <3>2, <3>3
  <2> HIDE DEF G
  <2>4. h = [i \in 0..Len(lines) |-> IF i = 0 THEN y ELSE processStatusLine(h[i - 1], lines[i])]
    BY <1>2, <2>2, <2>3 DEF Runs
  <2> QED BY <2>4
<1> HIDE DEF f
<1>5. f[0] = y /\ \A i \in 1..Len(lines) : f[i] = processStatusLine(f[i - 1], lines[i])
  <2>1. 0 \in 0..Len(lines) /\ \A i \in 1..Len(lines) : i \in 0..Len(lines) /\ i # 0
    BY <1>2
  <2>2. f[0] = y
    BY <1>4, <2>1
  <2>3. \A i \in 1..Len(lines) : f[i] = processStatusLine(f[i - 1], lines[i])
    BY <1>4, <2>1
  <2> QED BY <2>2, <2>3
<1> DEFINE upto(i) == r \o SubSeq(lines, 1, i)
           P == {i \in Nat : i <= Len(lines) => Aside(y, f[i]) /\ Recorded(f[i].act, upto(i))}
<1>6. 0 \in P
  <2>1. upto(0) = r
    BY <1>2
  <2> HIDE DEF upto
  <2> QED BY <1>2, <1>3, <1>5, <2>1, AsideRefl
<1>7. ASSUME NEW i \in Nat, i \in P PROVE i + 1 \in P
  <2> SUFFICES ASSUME i + 1 <= Len(lines)
               PROVE  Aside(y, f[i + 1]) /\ Recorded(f[i + 1].act, upto(i + 1))
    OBVIOUS
  <2> DEFINE l == lines[i + 1]
             u == upto(i)
  <2>1. l \in StatusLines /\ u \in Seq(StatusLines)
    BY <1>2
  <2>2. upto(i + 1) = Append(u, l)
    BY <1>2
  <2>3. Aside(y, f[i]) /\ Recorded(f[i].act, u)
    <3>1. i <= Len(lines)
      BY <1>2
    <3> QED BY <1>7, <3>1
  <2> HIDE DEF u, upto
  <2>4. f[i + 1] = processStatusLine(f[i], l)
    <3>1. i + 1 \in 1..Len(lines) /\ (i + 1) - 1 = i
      BY <1>2
    <3> QED BY <1>5, <3>1
  <2> HIDE DEF l
  <2>5. f[i] \in Sessions /\ f[i].proc.state # "none" /\ f[i].act \in Actions
    BY <1>3, <2>3, SessionFields DEF Aside, SameProc
  <2>6. Aside(f[i], f[i + 1]) /\ f[i + 1].act = Marked(f[i].act, l)
    BY <2>1, <2>4, <2>5, LineStep
  <2>7. Recorded(Marked(f[i].act, l), Append(u, l))
    BY <2>1, <2>3, <2>5, MarkedRecorded
  <2>8. Aside(y, f[i + 1])
    BY <1>2, <2>3, <2>6, AsideTrans
  <2> QED BY <2>2, <2>6, <2>7, <2>8
<1>8. Len(lines) \in P
  <2>1. \A i \in Nat : i \in P
    <3> HIDE DEF P
    <3> QED BY <1>6, <1>7, NatSetInduction
  <2> HIDE DEF P
  <2> QED BY <1>2, <2>1
<1>9. upto(Len(lines)) = r \o lines
  BY <1>2
<1>10. Aside(y, f[Len(lines)]) /\ Recorded(f[Len(lines)].act, upto(Len(lines)))
  <2>1. Len(lines) <= Len(lines)
    BY <1>2
  <2> HIDE DEF upto
  <2> QED BY <1>8, <2>1
<1>11. Recorded(f[Len(lines)].act, r \o lines)
  <2> HIDE DEF upto, P
  <2> QED BY <1>9, <1>10
<1> QED BY <1>1, <1>10, <1>11 DEF lines, y


------------------------------------------------------------------------------
(* Sessions                                                                *)

Fields(x) ==
    /\ x.proc \in Procs /\ x.act \in Actions /\ x.queue \in Seq(Events) /\ x.child \in Children
    /\ x.proc.pre \in [Channels -> Seq(Nat)] /\ x.proc.pre_close \in [Channels -> BOOLEAN]
    /\ x.proc.state \in {"none", "NotRunning", "Running"}
    /\ x.child.given \in [Channels -> Seq(Nat)] /\ x.child.eof \in [Channels -> BOOLEAN]
    /\ x.child.status \in Seq(StatusLines) /\ x.child.said \in Seq(StatusLines)
    /\ Input(x) \in {"stdin", "aux"} /\ Input(x) \in Channels
    /\ Data(x) \in Seq(Nat) /\ Held(x) \in Seq(Nat)
    /\ x.child.eof[Input(x)] \in BOOLEAN /\ x.proc.pre_close[Input(x)] \in BOOLEAN

LEMMA AllFields ==
  ASSUME NEW x \in Sessions
  PROVE  Fields(x)
<1>1. /\ x.proc \in Procs /\ x.act \in Actions /\ x.queue \in Seq(Events) /\ x.child \in Children
  BY SessionFields
<1>2. /\ x.proc.pre \in [Channels -> Seq(Nat)] /\ x.proc.pre_close \in [Channels -> BOOLEAN]
      /\ x.proc.state \in {"none", "NotRunning", "Running"}
  BY <1>1 DEF Procs
<1>3. /\ x.child.given \in [Channels -> Seq(Nat)] /\ x.child.eof \in [Channels -> BOOLEAN]
      /\ x.child.status \in Seq(StatusLines) /\ x.child.said \in Seq(StatusLines)
  BY <1>1 DEF Children
<1>4. Input(x) \in {"stdin", "aux"} /\ Input(x) \in Channels
  BY DEF Input, Channels
<1>5. /\ Data(x) \in Seq(Nat) /\ Held(x) \in Seq(Nat)
      /\ x.child.eof[Input(x)] \in BOOLEAN /\ x.proc.pre_close[Input(x)] \in BOOLEAN
  <2> HIDE DEF Input
  <2> QED BY <1>2, <1>3, <1>4 DEF Data, Held
<1> QED BY <1>1, <1>2, <1>3, <1>4, <1>5 DEF Fields

(* Feed looks at these parts of a session only *)
SameFeed(x, n) ==
    /\ n.act.op = x.act.op /\ Data(n) = Data(x) /\ Held(n) = Held(x)
    /\ n.child.eof[Input(n)] = x.child.eof[Input(x)]
    /\ n.proc.pre_close[Input(n)] = x.proc.pre_close[Input(x)]
    /\ n.proc.state = x.proc.state /\ Started(n) = Started(x)

LEMMA FeedKept ==
  ASSUME NEW x, NEW n, NEW a, SameFeed(x, n), Feed(x, a)
  PROVE  Feed(n, a)
<1>1. Input(n) = Input(x)
  BY DEF SameFeed, Input, useAux
<1> QED BY <1>1 DEF SameFeed, Feed, InOrder

(* Events that neither start nor count anything *)
Silent == Events \ {"started", "bytesWrittenStdin", "bytesWrittenAux"}

LEMMA MoreEvents ==
  ASSUME NEW q \in Seq(Events), NEW p \in Seq(Events)
  PROVE  /\ q \o p \in Seq(Events) /\ Len(q \o p) = Len(q) + Len(p)
         /\ \A i \in 1..Len(q \o p) : (q \o p)[i] = IF i <= Len(q) THEN q[i] ELSE p[i - Len(q)]
         /\ \A i \in 1..Len(q \o p) : IF i <= Len(q) THEN i \in 1..Len(q)
                                      ELSE i - Len(q) \in 1..Len(p)
         /\ \A i \in 1..Len(q) : i \in 1..Len(q \o p)
  OBVIOUS

LEMMA SilentEvents ==
  ASSUME NEW q \in Seq(Events), NEW p \in Seq(Silent)
  PROVE  /\ (\A i \in 1..Len(q \o p) : (q \o p)[i] # "started") = (\A i \in 1..Len(q) : q[i] # "started")
         /\ (\A i, j \in 1..Len(q) : q[i] = "started" /\ q[j] = "started" => i = j) =>
              (\A i, j \in 1..Len(q \o p) : (q \o p)[i] = "started" /\ (q \o p)[j] = "started" => i = j)
         /\ Notes(q \o p, "bytesWrittenAux") = Notes(q, "bytesWrittenAux")
         /\ Notes(q \o p, "bytesWrittenStdin") = Notes(q, "bytesWrittenStdin")
<1>1. p \in Seq(Events) /\ \A i \in 1..Len(p) : p[i] \in Silent
  BY DEF Silent
<1>2. \A i \in 1..Len(p) : p[i] # "started" /\ p[i] # "bytesWrittenAux" /\ p[i] # "bytesWrittenStdin"
  BY <1>1 DEF Silent
<1> DEFINE r == q \o p
<1>3. /\ Len(r) = Len(q) + Len(p)
      /\ \A i \in 1..Len(r) : r[i] = IF i <= Len(q) THEN q[i] ELSE p[i - Len(q)]
      /\ \A i \in 1..Len(r) : IF i <= Len(q) THEN i \in 1..Len(q) ELSE i - Len(q) \in 1..Len(p)
      /\ \A i \in 1..Len(q) : i \in 1..Len(r)
  BY <1>1, MoreEvents
<1>4. Notes(p, "bytesWrittenAux") = 0 /\ Notes(p, "bytesWrittenStdin") = 0
  BY <1>1, <1>2, NotesConst
<1>5. \A e : Notes(r, e) = Notes(q, e) + Notes(p, e) /\ Notes(q, e) \in Nat
  BY <1>1, NotesFacts
<1> HIDE DEF r
<1>6. Notes(r, "bytesWrittenAux") = Notes(q, "bytesWrittenAux")
      /\ Notes(r, "bytesWrittenStdin") = Notes(q, "bytesWrittenStdin")
  BY <1>4, <1>5
<1>7. \A i \in 1..Len(r) : r[i] = "started" => i \in 1..Len(q) /\ q[i] = "started"
  BY <1>2, <1>3
<1>8. \A i \in 1..Len(q) : i \in 1..Len(r) /\ r[i] = q[i]
  BY <1>3
<1>9. (\A i \in 1..Len(r) : r[i] # "started") = (\A i \in 1..Len(q) : q[i] # "started")
  BY <1>7, <1>8
<1>10. (\A i, j \in 1..Len(q) : q[i] = "started" /\ q[j] = "started" => i = j) =>
         (\A i, j \in 1..Len(r) : r[i] = "started" /\ r[j] = "started" => i = j)
  BY <1>7
<1> QED BY <1>6, <1>9, <1>10 DEF r


(* The part of a session that Heard() reads, besides the queue *)
SameEar(x, n) ==
    /\ n.child.unheard = x.child.unheard /\ n.child.deaf = x.child.deaf
    /\ n.child.end = x.child.end /\ n.proc.state = x.proc.state
    /\ n.proc.startTrigger = x.proc.startTrigger /\ n.proc.fin_status = x.proc.fin_status

LEMMA HeardMore ==
  ASSUME NEW x \in Sessions, NEW n, NEW p \in Seq(Events), Heard(x), SameEar(x, n),
         n.queue = x.queue \o p,
         \A i \in 1..Len(p) : p[i] \notin Ominous /\ p[i] # "WriteError"
  PROVE  Heard(n)
<1>1. x.queue \in Seq(Events)
  BY SessionFields
<1>2. /\ \A i \in 1..Len(n.queue) : n.queue[i] = IF i <= Len(x.queue) THEN x.queue[i] ELSE p[i - Len(x.queue)]
      /\ \A i \in 1..Len(n.queue) : IF i <= Len(x.queue) THEN i \in 1..Len(x.queue)
                                    ELSE i - Len(x.queue) \in 1..Len(p)
  BY <1>1, MoreEvents
<1>3. ASSUME NEW i \in 1..Len(n.queue)
      PROVE  /\ n.queue[i] \in Ominous => n.proc.state # "Running"
             /\ n.queue[i] = "WriteError" => n.child.deaf
  BY <1>2 DEF Heard, SameEar
<1> QED BY <1>3 DEF Heard, Listening, SameEar

LEMMA HeardSame ==
  ASSUME NEW x, NEW n, Heard(x), SameEar(x, n), n.queue = x.queue
  PROVE  Heard(n)
  BY DEF Heard, Listening, SameEar

LEMMA AsideHeard ==
  ASSUME NEW x \in Sessions, NEW n, Aside(x, n), Heard(x)
  PROVE  Heard(n)
<1>1. PICK p \in Seq(Prompts) : n.queue = x.queue \o p
  BY DEF Aside
<1>2. p \in Seq(Events) /\ \A i \in 1..Len(p) : p[i] \notin Ominous /\ p[i] # "WriteError"
  BY DEF Events, Posted, Prompts, Ominous
<1>3. SameEar(x, n)
  BY DEF Aside, SameProc, SameChild, SameEar
<1> QED BY <1>1, <1>2, <1>3, HeardMore

(* One more look at a change that leaves the input and the life of the     *)
(* process alone, and posts silent events only                             *)
Quiet(x, n, p) ==
    /\ SameProc(x.proc, n.proc) /\ n.act.op = x.act.op
    /\ n.child.eof = x.child.eof /\ n.child.end = x.child.end
    /\ n.child.given["stdin"] = x.child.given["stdin"]
    /\ n.child.given["aux"] = x.child.given["aux"]
    /\ p \in Seq(Silent) /\ n.queue = x.queue \o p

LEMMA QuietFacts ==
  ASSUME NEW x \in Sessions, NEW n, NEW p, Quiet(x, n, p)
  PROVE  SameFeed(x, n) /\ Pending(n) = Pending(x) /\ Len(Data(n)) = Len(Data(x))
<1>1. Input(n) = Input(x) /\ Input(x) \in {"stdin", "aux"} /\ Note(n) = Note(x)
  BY DEF Quiet, Input, Note, useAux
<1>2. x.queue \in Seq(Events) /\ p \in Seq(Silent) /\ n.queue = x.queue \o p
  BY SessionFields DEF Quiet
<1>3. Started(n) = Started(x)
  <2>1. (\A i \in 1..Len(n.queue) : n.queue[i] # "started")
          = (\A i \in 1..Len(x.queue) : x.queue[i] # "started")
    BY <1>2, SilentEvents
  <2>2. n.proc.startTrigger = x.proc.startTrigger
    BY DEF Quiet, SameProc
  <2> QED BY <2>1, <2>2 DEF Started
<1>4. Data(n) = Data(x) /\ Held(n) = Held(x)
  <2> HIDE DEF Input
  <2> QED BY <1>1 DEF Quiet, SameProc, Data, Held
<1>5. SameFeed(x, n)
  <2> HIDE DEF Input
  <2> QED BY <1>1, <1>3, <1>4 DEF Quiet, SameProc, SameFeed
<1>6. Pending(n) = Pending(x)
  <2>1. Notes(n.queue, "bytesWrittenAux") = Notes(x.queue, "bytesWrittenAux")
        /\ Notes(n.queue, "bytesWrittenStdin") = Notes(x.queue, "bytesWrittenStdin")
    BY <1>2, SilentEvents
  <2>2. Note(x) \in {"bytesWrittenAux", "bytesWrittenStdin"}
    BY DEF Note
  <2> HIDE DEF Note
  <2> QED BY <1>1, <2>1, <2>2 DEF Pending
<1> QED BY <1>4, <1>5, <1>6

LEMMA QuietPhases ==
  ASSUME NEW x \in Sessions, NEW n, NEW p, Quiet(x, n, p), Phases(x),
         x.proc.state = "none" => p \in Seq(Prompts),
         x.proc.startTrigger => p = <<>> /\ n.child.status = <<>>,
         n.proc.fin_status => n.child.status = <<>>,
         \A i \in 1..Len(p) : p[i] # "finished", Heard(n)
  PROVE  Phases(n)
<1>1. x.queue \in Seq(Events) /\ p \in Seq(Silent) /\ n.queue = x.queue \o p /\ p \in Seq(Events)
  BY SessionFields DEF Quiet, Silent
<1>2. /\ Len(n.queue) = Len(x.queue) + Len(p)
      /\ \A i \in 1..Len(n.queue) : n.queue[i] = IF i <= Len(x.queue) THEN x.queue[i] ELSE p[i - Len(x.queue)]
      /\ \A i \in 1..Len(n.queue) : IF i <= Len(x.queue) THEN i \in 1..Len(x.queue)
                                    ELSE i - Len(x.queue) \in 1..Len(p)
  BY <1>1, MoreEvents
<1>3. SameProc(x.proc, n.proc) /\ n.child.end = x.child.end
  BY DEF Quiet
<1>4. n.proc.state = "none" =>
        n.proc = NoProc /\ \A i \in 1..Len(n.queue) : n.queue[i] \in Posted
  <2> SUFFICES ASSUME n.proc.state = "none"
               PROVE  n.proc = NoProc /\ \A i \in 1..Len(n.queue) : n.queue[i] \in Posted
    OBVIOUS
  <2>1. x.proc = NoProc /\ n.proc = NoProc /\ \A i \in 1..Len(x.queue) : x.queue[i] \in Posted
    BY <1>3 DEF SameProc, Phases
  <2>2. \A i \in 1..Len(p) : p[i] \in Posted
    <3>1. p \in Seq(Prompts)
      BY <1>3 DEF SameProc
    <3> QED BY <3>1 DEF Posted
  <2> QED BY <1>2, <2>1, <2>2
<1>5. n.proc.state # "none" => n.proc.need_status
  BY <1>3 DEF SameProc, Phases
<1>6. n.proc.startTrigger => /\ n.proc.state = "NotRunning" /\ n.queue = <<>>
                             /\ n.child.status = <<>> /\ n.child.end = "no"
                             /\ ~n.proc.fin_process_success
  <2> SUFFICES ASSUME n.proc.startTrigger
               PROVE  /\ n.proc.state = "NotRunning" /\ n.queue = <<>>
                      /\ n.child.status = <<>> /\ n.child.end = "no"
                      /\ ~n.proc.fin_process_success
    OBVIOUS
  <2>1. x.proc.startTrigger
    BY <1>3 DEF SameProc
  <2>2. /\ x.proc.state = "NotRunning" /\ x.queue = <<>> /\ x.child.end = "no"
        /\ ~x.proc.fin_process_success
    BY <2>1 DEF Phases
  <2>3. n.queue = <<>>
    BY <1>1, <2>1, <2>2
  <2> QED BY <1>3, <2>1, <2>2, <2>3 DEF SameProc
<1>7. \A i, j \in 1..Len(n.queue) : n.queue[i] = "started" /\ n.queue[j] = "started" => i = j
  <2>1. \A i, j \in 1..Len(x.queue) : x.queue[i] = "started" /\ x.queue[j] = "started" => i = j
    BY DEF Phases
  <2>2. x.queue \in Seq(Events) /\ p \in Seq(Silent)
    BY <1>1
  <2>3. \A i, j \in 1..Len(x.queue \o p) :
           (x.queue \o p)[i] = "started" /\ (x.queue \o p)[j] = "started" => i = j
    BY <2>1, <2>2, SilentEvents, Zenon
  <2> QED BY <1>1, <2>3, Zenon
<1>8. n.proc.fin_process_success => n.child.end \in Over
  BY <1>3 DEF SameProc, Phases
<1>9. \A i \in 1..Len(n.queue) : n.queue[i] = "finished" => n.child.end \in Over
  <2>1. \A i \in 1..Len(x.queue) : x.queue[i] = "finished" => n.child.end \in Over
    BY <1>3 DEF Phases
  <2> QED BY <1>2, <2>1
<1> QED BY <1>4, <1>5, <1>6, <1>7, <1>8, <1>9 DEF Phases

LEMMA JudgedKept ==
  ASSUME NEW x, NEW n, Judged(x), n.act = x.act, n.child.status = x.child.status,
         n.child.said = x.child.said
  PROVE  Judged(n)
<1>1. Read(n) = Read(x)
  BY DEF Read
<1> QED BY <1>1 DEF Judged

LEMMA PromptsQuiet ==
  ASSUME NEW x \in Sessions, NEW n, Aside(x, n)
  PROVE  \E p \in Seq(Prompts) : Quiet(x, n, p) /\ n.queue = x.queue \o p
                                 /\ \A i \in 1..Len(p) : p[i] # "finished"
<1>1. PICK p \in Seq(Prompts) : n.queue = x.queue \o p
  BY DEF Aside
<1>2. p \in Seq(Silent) /\ \A i \in 1..Len(p) : p[i] # "finished"
  BY DEF Silent, Events, Posted, Prompts
<1>3. Quiet(x, n, p)
  BY <1>1, <1>2 DEF Aside, SameChild, Quiet
<1> QED BY <1>1, <1>2, <1>3

(* submitPassphrase() and cardOkay() *)
LEMMA AnswerSound ==
  ASSUME NEW x \in Sessions, NEW a, Sound(x, a), NEW prompt \in Prompts
  PROVE  LET n == answer(x, prompt)
         IN  n \in Sessions /\ Sound(n, a) /\ Pending(n) = Pending(x) /\ Len(Data(n)) = Len(Data(x))
<1> DEFINE b == [x.act EXCEPT !.need = @ \ {prompt}]
           y == [x EXCEPT !.act = b]
           n == answer(x, prompt)
<1>1. CASE prompt \notin x.act.need
  BY <1>1 DEF answer
<1>2. CASE prompt \in x.act.need
  <2>1. n = write(y, "command", Other)
    BY <1>2 DEF answer
  <2>2. b \in Actions /\ b.op = x.act.op /\ \A r : Recorded(x.act, r) => Recorded(b, r)
    <3>1. b \in Actions
      BY SessionFields DEF Actions
    <3>2. /\ b.op = x.act.op /\ b.badPassphrase = x.act.badPassphrase
          /\ b.curError = x.act.curError /\ b.decryptGood = x.act.decryptGood
          /\ b.signGood = x.act.signGood /\ b.verifyResult = x.act.verifyResult
      BY SessionFields DEF Actions
    <3> HIDE DEF b
    <3> QED BY <3>1, <3>2 DEF Recorded, Unflawed
  <2> HIDE DEF b
  <2>3. y \in Sessions /\ y.act = b /\ y.proc = x.proc /\ y.queue = x.queue /\ y.child = x.child
    BY <2>2 DEF Sessions
  <2> HIDE DEF n, y
  <2>4. Aside(y, n) /\ n.act = y.act /\ n.queue = y.queue
    BY <2>1, <2>3, WriteCommand
  <2>5. n \in Sessions /\ Aside(x, n)
    BY <2>2, <2>3, <2>4 DEF Aside
  <2>6. Quiet(x, n, <<>>)
    <3>1. <<>> \in Seq(Silent) /\ n.queue = x.queue \o <<>>
      BY <2>3, <2>4, SessionFields
    <3> QED BY <2>5, <3>1 DEF Aside, SameChild, Quiet
  <2>7. Feed(n, a) /\ Pending(n) = Pending(x) /\ Len(Data(n)) = Len(Data(x))
    BY <2>6, QuietFacts, FeedKept DEF Sound
  <2>8. Phases(n)
    <3>1. Phases(x) /\ n.child.status = x.child.status /\ n.proc.fin_status = x.proc.fin_status
      BY <2>5 DEF Sound, Aside, SameChild, SameProc
    <3>2. /\ <<>> \in Seq(Prompts) /\ \A i \in 1..Len(<<>>) : <<>>[i] # "finished"
          /\ x.proc.startTrigger => n.child.status = <<>>
          /\ n.proc.fin_status => n.child.status = <<>>
      BY <3>1 DEF Phases
    <3>3. Heard(n)
      BY <2>5, <3>1, AsideHeard DEF Phases
    <3> QED BY <2>6, <3>1, <3>2, <3>3, QuietPhases
  <2>9. Judged(n)
    <3>1. n.child.status = x.child.status /\ n.child.said = x.child.said /\ n.act = b
      BY <2>3, <2>4, <2>5 DEF Aside, SameChild
    <3>2. Read(n) = Read(x)
      BY <3>1 DEF Read
    <3> QED BY <2>2, <3>1, <3>2 DEF Sound, Judged
  <2> QED BY <2>5, <2>7, <2>8, <2>9 DEF Sound, n
<1> QED BY <1>1, <1>2


(* readAndProcessStatusData() *)
LEMMA ReadStatusSound ==
  ASSUME NEW x \in Sessions, NEW a, Feed(x, a), Phases(Emptied(x)), Judged(x),
         x.proc.state # "none", ~x.proc.startTrigger
  PROVE  LET n == readStatus(x)
         IN  n \in Sessions /\ Sound(n, a) /\ Pending(n) = Pending(x) /\ Len(Data(n)) = Len(Data(x))
<1> DEFINE n == readStatus(x)
           y == Emptied(x)
           r == Read(x)
<1>1. /\ y \in Sessions /\ y.proc = x.proc /\ y.act = x.act /\ y.queue = x.queue
      /\ y.child.status = <<>> /\ y.child.said = x.child.said /\ y.child.given = x.child.given
      /\ y.child.eof = x.child.eof /\ y.child.end = x.child.end
  BY EmptiedFields
<1>2. x.child.said \in Seq(StatusLines) /\ x.child.status \in Seq(StatusLines)
  BY AllFields DEF Fields
<1>3. r \in Seq(StatusLines) /\ Recorded(x.act, r) /\ x.child.said = r \o x.child.status
  <2>1. r \in Seq(StatusLines)
    BY <1>2 DEF Read, Judged
  <2> QED BY <2>1 DEF Judged
<1>4. Aside(y, n) /\ Recorded(n.act, x.child.said)
  <2> HIDE DEF r, n, y
  <2> QED BY <1>3, ReadStatusFacts DEF n, y
<1> HIDE DEF n, y, r
<1>5. Quiet(x, y, <<>>)
  <2>1. <<>> \in Seq(Silent) /\ y.queue = x.queue \o <<>>
    BY <1>1, SessionFields
  <2> QED BY <1>1, <2>1 DEF Quiet, SameProc
<1>6. Feed(y, a) /\ Pending(y) = Pending(x) /\ Len(Data(y)) = Len(Data(x))
  BY <1>5, QuietFacts, FeedKept
<1>7. PICK p \in Seq(Prompts) : Quiet(y, n, p) /\ n.queue = y.queue \o p
                                /\ \A i \in 1..Len(p) : p[i] # "finished"
  BY <1>1, <1>4, PromptsQuiet
<1>8. Feed(n, a) /\ Pending(n) = Pending(x) /\ Len(Data(n)) = Len(Data(x))
  <2>1. SameFeed(y, n) /\ Pending(n) = Pending(y) /\ Len(Data(n)) = Len(Data(y))
    BY <1>1, <1>7, QuietFacts
  <2> QED BY <1>6, <2>1, FeedKept
<1>9. n \in Sessions /\ n.child.status = <<>> /\ n.child.said = x.child.said
  BY <1>1, <1>4 DEF Aside, SameChild
<1>10. Phases(n)
  <2>1. Phases(y) /\ ~y.proc.startTrigger
    BY <1>1 DEF y
  <2>2. Heard(n)
    BY <1>1, <1>4, <2>1, AsideHeard DEF Phases
  <2> QED BY <1>1, <1>7, <1>9, <2>1, <2>2, QuietPhases
<1>11. Judged(n)
  <2>1. Read(n) = x.child.said /\ x.child.said = Read(n) \o n.child.status
    BY <1>2, <1>9 DEF Read
  <2>2. Len(n.child.status) <= Len(n.child.said)
    BY <1>2, <1>9
  <2> QED BY <1>4, <1>9, <2>1, <2>2 DEF Judged
<1> QED BY <1>8, <1>9, <1>10, <1>11 DEF Sound, n

(* The event loop takes an event *)
Popped(x) == [x EXCEPT !.queue = Tail(@)]

LEMMA PoppedFields ==
  ASSUME NEW x \in Sessions, x.queue # <<>>
  PROVE  LET n == Popped(x) q == x.queue t == Tail(x.queue) IN
         /\ n \in Sessions /\ n.queue = t /\ n.proc = x.proc /\ n.act = x.act /\ n.child = x.child
         /\ q \in Seq(Events) /\ t \in Seq(Events) /\ Len(q) = Len(t) + 1 /\ Head(q) = q[1]
         /\ \A i \in 1..Len(t) : t[i] = q[i + 1] /\ i + 1 \in 1..Len(q)
         /\ \A i \in 1..Len(q) : i = 1 \/ (i - 1 \in 1..Len(t) /\ q[i] = t[i - 1])
<1> DEFINE q == x.queue
           t == Tail(q)
           n == Popped(x)
<1>1. q \in Seq(Events) /\ t \in Seq(Events) /\ Len(q) = Len(t) + 1 /\ Head(q) = q[1]
      /\ (\A i \in 1..Len(t) : t[i] = q[i + 1] /\ i + 1 \in 1..Len(q))
      /\ \A i \in 1..Len(q) : i = 1 \/ (i - 1 \in 1..Len(t) /\ q[i] = t[i - 1])
  BY SessionFields
<1>2. n = [x EXCEPT !.queue = t]
  BY DEF Popped
<1> HIDE DEF n, t
<1>3. n \in Sessions /\ n.queue = t /\ n.proc = x.proc /\ n.act = x.act /\ n.child = x.child
  BY <1>1, <1>2 DEF Sessions
<1> QED BY <1>1, <1>3 DEF n, t

LEMMA PoppedFacts ==
  ASSUME NEW x \in Sessions, NEW a, Sound(x, a), x.queue # <<>>
  PROVE  LET n == Popped(x) e == Head(x.queue) IN
         /\ Phases(n) /\ Judged(n) /\ ~x.proc.startTrigger /\ e \in Events
         /\ Pending(n) \in Nat /\ Pending(x) = (IF e = Note(x) THEN 1 ELSE 0) + Pending(n)
         /\ Len(Data(n)) = Len(Data(x)) /\ Note(n) = Note(x)
         /\ e # "started" => Feed(n, a)
         /\ e = "started" => ~Started(x) /\ Started(n)
<1> DEFINE q == x.queue
           t == Tail(q)
           n == Popped(x)
           e == Head(q)
<1>1. /\ n \in Sessions /\ n.queue = t /\ n.proc = x.proc /\ n.act = x.act /\ n.child = x.child
      /\ q \in Seq(Events) /\ t \in Seq(Events) /\ Len(q) = Len(t) + 1 /\ e = q[1]
      /\ \A i \in 1..Len(t) : t[i] = q[i + 1] /\ i + 1 \in 1..Len(q)
      /\ \A i \in 1..Len(q) : i = 1 \/ (i - 1 \in 1..Len(t) /\ q[i] = t[i - 1])
  BY PoppedFields
<1>2. e \in Events /\ 1 \in 1..Len(q)
  BY <1>1
<1>3. Feed(x, a) /\ Phases(x) /\ Judged(x)
  BY DEF Sound
<1>4. Input(n) = Input(x) /\ Note(n) = Note(x) /\ Data(n) = Data(x) /\ Held(n) = Held(x)
  BY <1>1 DEF Input, Note, useAux, Data, Held
<1>5. Pending(n) \in Nat /\ Pending(x) = (IF e = Note(x) THEN 1 ELSE 0) + Pending(n)
  <2>1. Notes(q, Note(x)) = (IF e = Note(x) THEN 1 ELSE 0) + Notes(t, Note(x))
        /\ Notes(t, Note(x)) \in Nat
    BY <1>1, NotesFacts
  <2> HIDE DEF n
  <2> QED BY <1>1, <1>4, <2>1 DEF Pending
<1>6. ~x.proc.startTrigger
  BY <1>3 DEF Phases
<1>7. Judged(n)
  <2> HIDE DEF n
  <2> QED BY <1>1, <1>3, JudgedKept
<1> HIDE DEF n, t, e
<1>8. Phases(n)
  <2>1. \A i, j \in 1..Len(n.queue) : n.queue[i] = "started" /\ n.queue[j] = "started" => i = j
    <3>1. \A i, j \in 1..Len(q) : q[i] = "started" /\ q[j] = "started" => i = j
      BY <1>3 DEF Phases
    <3>2. ASSUME NEW i \in 1..Len(t), NEW j \in 1..Len(t), t[i] = "started", t[j] = "started"
          PROVE  i = j
      <4>1. i + 1 \in 1..Len(q) /\ j + 1 \in 1..Len(q) /\ q[i + 1] = "started" /\ q[j + 1] = "started"
        BY <1>1, <3>2
      <4>2. i + 1 = j + 1
        BY <3>1, <4>1
      <4> QED BY <4>2
    <3> QED BY <1>1, <3>2
  <2>2. n.proc.state = "none" => n.proc = NoProc /\ \A i \in 1..Len(n.queue) : n.queue[i] \in Posted
    BY <1>1, <1>3 DEF Phases
  <2>3. \A i \in 1..Len(n.queue) : n.queue[i] = "finished" => n.child.end \in Over
    BY <1>1, <1>3 DEF Phases
  <2>4. /\ n.proc.state # "none" => n.proc.need_status
        /\ n.proc.fin_status => n.child.status = <<>>
        /\ n.proc.fin_process_success => n.child.end \in Over
        /\ ~n.proc.startTrigger
    BY <1>1, <1>3, <1>6 DEF Phases
  <2>5. Heard(n)
    BY <1>1, <1>3 DEF Phases, Heard, Listening
  <2> QED BY <2>1, <2>2, <2>3, <2>4, <2>5 DEF Phases
<1>9. ASSUME e # "started" PROVE Feed(n, a)
  <2>1. Started(n) = Started(x)
    <3>1. ASSUME \A i \in 1..Len(t) : t[i] # "started", NEW i \in 1..Len(q) PROVE q[i] # "started"
      <4>1. i = 1 \/ (i - 1 \in 1..Len(t) /\ q[i] = t[i - 1])
        BY <1>1
      <4> QED BY <1>1, <1>9, <3>1, <4>1
    <3>2. ASSUME \A i \in 1..Len(q) : q[i] # "started", NEW i \in 1..Len(t) PROVE t[i] # "started"
      BY <1>1, <3>2
    <3>3. (\A i \in 1..Len(t) : t[i] # "started") = (\A i \in 1..Len(q) : q[i] # "started")
      BY <3>1, <3>2
    <3> QED BY <1>1, <3>3 DEF Started
  <2>2. SameFeed(x, n)
    BY <1>1, <1>4, <2>1 DEF SameFeed
  <2> QED BY <1>3, <2>2, FeedKept
<1>10. ASSUME e = "started" PROVE ~Started(x) /\ Started(n)
  <2>1. ~Started(x)
    BY <1>1, <1>2, <1>10 DEF Started
  <2>2. ASSUME NEW i \in 1..Len(t), t[i] = "started" PROVE FALSE
    <3>1. i + 1 \in 1..Len(q) /\ q[i + 1] = "started" /\ q[1] = "started"
      BY <1>1, <1>10, <2>2
    <3>2. \A j, k \in 1..Len(q) : q[j] = "started" /\ q[k] = "started" => j = k
      BY <1>3 DEF Phases
    <3>3. i + 1 = 1
      BY <1>2, <3>1, <3>2
    <3> QED BY <3>3
  <2>3. Started(n)
    BY <1>1, <1>6, <2>2 DEF Started
  <2> QED BY <2>1, <2>3
<1> QED BY <1>2, <1>4, <1>5, <1>6, <1>7, <1>8, <1>9, <1>10 DEF n, e


------------------------------------------------------------------------------
(* The gpg program                                                         *)

LEMMA PushedIn ==
  ASSUME NEW r \in Seq(StatusLines), NEW u \in Seq(StatusLines), NEW l \in StatusLines
  PROVE  Append(r \o u, l) = r \o Append(u, l)
  OBVIOUS

LEMMA ReadMore ==
  ASSUME NEW u \in Seq(StatusLines), NEW v \in Seq(StatusLines), NEW l \in StatusLines,
         NEW r, r = SubSeq(v, 1, Len(v) - Len(u)), v = r \o u, Len(u) <= Len(v)
  PROVE  /\ r \in Seq(StatusLines) /\ Append(v, l) = r \o Append(u, l)
         /\ SubSeq(Append(v, l), 1, Len(Append(v, l)) - Len(Append(u, l))) = r
         /\ Len(Append(u, l)) <= Len(Append(v, l))
<1> DEFINE m == Len(v) - Len(u)
<1>1. Len(u) \in Nat /\ Len(v) \in Nat /\ Len(Append(u, l)) = Len(u) + 1
      /\ Len(Append(v, l)) = Len(v) + 1
  OBVIOUS
<1>2. m \in Nat /\ m <= Len(v) /\ Len(Append(v, l)) - Len(Append(u, l)) = m
      /\ Len(Append(u, l)) <= Len(Append(v, l))
  BY <1>1
<1> HIDE DEF m
<1>3. r = SubSeq(v, 1, m)
  BY DEF m
<1>4. r \in Seq(StatusLines)
  BY <1>2, <1>3
<1>5. Append(r \o u, l) = r \o Append(u, l)
  BY <1>4, PushedIn
<1>6. SubSeq(Append(v, l), 1, m) = SubSeq(v, 1, m)
  BY <1>2
<1> QED BY <1>2, <1>3, <1>4, <1>5, <1>6

LEMMA SaysSound ==
  ASSUME NEW x \in Sessions, NEW a, Sound(x, a), NEW l \in StatusLines,
         x.proc.state = "Running", ~x.proc.fin_status
  PROVE  LET n == [x EXCEPT !.child.status = Append(@, l), !.child.said = Append(@, l)]
         IN  n \in Sessions /\ Sound(n, a) /\ Pending(n) = Pending(x) /\ Len(Data(n)) = Len(Data(x))
<1> DEFINE s == Append(x.child.status, l)
           d == Append(x.child.said, l)
           k == [x.child EXCEPT !.status = s, !.said = d]
           n == [x EXCEPT !.child.status = Append(@, l), !.child.said = Append(@, l)]
<1>1. n = [x EXCEPT !.child = k]
  BY SessionFields DEF Sessions, Children
<1>2. s \in Seq(StatusLines) /\ d \in Seq(StatusLines) /\ x.child \in Children
      /\ x.child.said \in Seq(StatusLines) /\ x.child.status \in Seq(StatusLines)
  BY AllFields DEF Fields
<1> HIDE DEF n
<1>3. k \in Children /\ k.status = s /\ k.said = d /\ k.given = x.child.given
      /\ k.eof = x.child.eof /\ k.end = x.child.end
      /\ k.unheard = x.child.unheard /\ k.deaf = x.child.deaf
  <2> HIDE DEF s, d
  <2> QED BY <1>2 DEF Children
<1> HIDE DEF k
<1>4. n \in Sessions /\ n.child = k /\ n.proc = x.proc /\ n.act = x.act /\ n.queue = x.queue
  BY <1>1, <1>3 DEF Sessions
<1>5. Quiet(x, n, <<>>)
  <2>1. <<>> \in Seq(Silent) /\ n.queue = x.queue \o <<>>
    BY <1>4, SessionFields
  <2> QED BY <1>3, <1>4, <2>1 DEF Quiet, SameProc
<1>6. Feed(n, a) /\ Pending(n) = Pending(x) /\ Len(Data(n)) = Len(Data(x))
  BY <1>5, QuietFacts, FeedKept DEF Sound
<1>7. Phases(n)
  <2>1. Phases(x) /\ ~x.proc.startTrigger /\ ~n.proc.fin_status
    BY <1>4 DEF Sound, Phases
  <2>2. Heard(n)
    BY <1>3, <1>4, <2>1, HeardSame DEF Phases, SameEar
  <2> QED BY <1>5, <2>1, <2>2, QuietPhases
<1>8. Judged(n)
  <2> DEFINE u == x.child.status
             v == x.child.said
             r == Read(x)
  <2>1. Judged(x)
    BY DEF Sound
  <2>2. r = SubSeq(v, 1, Len(v) - Len(u)) /\ v = r \o u /\ Len(u) <= Len(v) /\ Recorded(x.act, r)
    BY <2>1 DEF Judged, Read
  <2> HIDE DEF r
  <2>3. u \in Seq(StatusLines) /\ v \in Seq(StatusLines)
    BY <1>2
  <2> HIDE DEF u, v
  <2>4. d = r \o s /\ SubSeq(d, 1, Len(d) - Len(s)) = r /\ Len(s) <= Len(d)
    <3>1. s = Append(u, l) /\ d = Append(v, l)
      BY DEF u, v
    <3> HIDE DEF s, d
    <3>2. r = SubSeq(v, 1, Len(v) - Len(u))
      BY <2>2
    <3>3. v = r \o u
      BY <2>2
    <3>4. Len(u) <= Len(v)
      BY <2>2
    <3>5. Append(v, l) = r \o Append(u, l)
      BY <2>3, <3>2, <3>3, <3>4, ReadMore, ZenonT(40)
    <3>6. Len(Append(u, l)) <= Len(Append(v, l))
      <4>1. Len(Append(u, l)) = Len(u) + 1 /\ Len(Append(v, l)) = Len(v) + 1
        BY <2>3
      <4>2. Len(u) \in Nat /\ Len(v) \in Nat
        BY <2>3
      <4> QED BY <3>4, <4>1, <4>2
    <3>7. SubSeq(Append(v, l), 1, Len(Append(v, l)) - Len(Append(u, l))) = r
      BY <2>3, <3>2, <3>3, <3>4, ReadMore
    <3> QED BY <3>1, <3>5, <3>6, <3>7, Zenon
  <2> HIDE DEF s, d
  <2>5. Read(n) = r
    BY <1>3, <1>4, <2>4 DEF Read
  <2> QED BY <1>3, <1>4, <2>2, <2>4, <2>5 DEF Judged
<1> QED BY <1>4, <1>6, <1>7, <1>8 DEF Sound, n

(* the output, a write that fails, and a line that nobody reads *)
LEMMA PostSound ==
  ASSUME NEW x \in Sessions, NEW a, Sound(x, a), x.proc.state = "Running",
         NEW k \in Children, k.status = x.child.status, k.said = x.child.said,
         k.given = x.child.given, k.eof = x.child.eof, k.end = x.child.end,
         NEW p \in Seq({"readyReadStdout", "WriteError"}),
         Heard([x EXCEPT !.child = k, !.queue = x.queue \o p])
  PROVE  LET n == [x EXCEPT !.child = k, !.queue = x.queue \o p]
         IN  n \in Sessions /\ Sound(n, a) /\ Pending(n) = Pending(x) /\ Len(Data(n)) = Len(Data(x))
<1> DEFINE n == [x EXCEPT !.child = k, !.queue = x.queue \o p]
<1>1. p \in Seq(Silent) /\ \A i \in 1..Len(p) : p[i] # "finished"
  BY DEF Silent, Events, Relayed
<1>2. x.queue \o p \in Seq(Events)
  <2>1. p \in Seq(Events)
    BY <1>1 DEF Silent
  <2> QED BY <2>1, SessionFields
<1>3. n \in Sessions /\ n.child = k /\ n.proc = x.proc /\ n.act = x.act /\ n.queue = x.queue \o p
  BY <1>2 DEF Sessions
<1>h. Heard(n)
  OBVIOUS
<1> HIDE DEF n
<1>4. Quiet(x, n, p)
  BY <1>1, <1>3 DEF Quiet, SameProc
<1>5. Feed(n, a) /\ Pending(n) = Pending(x) /\ Len(Data(n)) = Len(Data(x))
  BY <1>4, QuietFacts, FeedKept DEF Sound
<1>6. Phases(n)
  <2>1. Phases(x) /\ ~x.proc.startTrigger
    BY DEF Sound, Phases
  <2>2. n.proc.fin_status => n.child.status = <<>>
    BY <1>3, <2>1 DEF Phases
  <2> QED BY <1>1, <1>4, <1>h, <2>1, <2>2, QuietPhases
<1>7. Judged(n)
  BY <1>3, JudgedKept DEF Sound
<1> QED BY <1>3, <1>5, <1>6, <1>7 DEF Sound, n

(* the end of the program *)
LEMMA EndSound ==
  ASSUME NEW x \in Sessions, NEW a, Sound(x, a), NEW how \in Over, NEW p \in Seq(Silent),
         x.proc.state = "Running", \A i \in 1..Len(p) : p[i] # "WriteError"
  PROVE  LET n == [x EXCEPT !.child.end = how, !.proc.state = "NotRunning", !.queue = @ \o p]
         IN  n \in Sessions /\ Sound(n, a) /\ Pending(n) = Pending(x) /\ Len(Data(n)) = Len(Data(x))
<1> DEFINE k == [x.child EXCEPT !.end = how]
           c == [x.proc EXCEPT !.state = "NotRunning"]
           q == x.queue \o p
           n == [x EXCEPT !.child.end = how, !.proc.state = "NotRunning", !.queue = @ \o p]
<1>1. n = [x EXCEPT !.child = k, !.proc = c, !.queue = q]
  OBVIOUS
<1>2. q \in Seq(Events) /\ x.queue \in Seq(Events)
  <2>1. p \in Seq(Events)
    BY DEF Silent
  <2> QED BY <2>1, SessionFields
<1> HIDE DEF n, q
<1>3. k \in Children /\ k.status = x.child.status /\ k.said = x.child.said /\ k.given = x.child.given
      /\ k.eof = x.child.eof /\ k.end = how /\ k.unheard = x.child.unheard /\ k.deaf = x.child.deaf
  BY SessionFields DEF Children, Over, Ends
<1>4. c \in Procs /\ c.state = "NotRunning" /\ c.startTrigger = x.proc.startTrigger /\ c.pre = x.proc.pre
      /\ c.pre_close = x.proc.pre_close /\ c.need_status = x.proc.need_status
      /\ c.fin_status = x.proc.fin_status
  BY SessionFields DEF Procs
<1> HIDE DEF k, c
<1>5. n \in Sessions /\ n.child = k /\ n.proc = c /\ n.act = x.act /\ n.queue = q
  BY <1>1, <1>2, <1>3, <1>4 DEF Sessions
<1>6. Input(n) = Input(x) /\ Data(n) = Data(x) /\ Held(n) = Held(x) /\ Note(n) = Note(x)
  BY <1>3, <1>4, <1>5 DEF Input, Data, Held, useAux, Note
<1>7. Phases(x) /\ ~x.proc.startTrigger /\ Feed(x, a) /\ Judged(x)
  BY DEF Sound, Phases
<1>8. Started(n) = Started(x)
  <2>1. (\A i \in 1..Len(q) : q[i] # "started") = (\A i \in 1..Len(x.queue) : x.queue[i] # "started")
    BY <1>2, SilentEvents DEF q
  <2> QED BY <1>4, <1>5, <2>1 DEF Started
<1>9. Feed(n, a)
  <2>1. n.proc.state = "NotRunning" /\ n.child.eof = x.child.eof /\ n.proc.pre_close = x.proc.pre_close
    BY <1>3, <1>4, <1>5
  <2>2. ~a.crossed => InOrder(x, a)
    BY <1>7 DEF Feed
  <2>3. ~a.crossed => InOrder(n, a)
    BY <1>6, <1>8, <2>1, <2>2 DEF InOrder
  <2> QED BY <2>1, <2>3 DEF Feed
<1>10. Pending(n) = Pending(x)
  <2>1. Notes(q, "bytesWrittenAux") = Notes(x.queue, "bytesWrittenAux")
        /\ Notes(q, "bytesWrittenStdin") = Notes(x.queue, "bytesWrittenStdin")
    BY <1>2, SilentEvents DEF q
  <2>2. Note(x) \in {"bytesWrittenAux", "bytesWrittenStdin"}
    BY DEF Note
  <2> HIDE DEF Note
  <2> QED BY <1>5, <1>6, <2>1, <2>2 DEF Pending
<1>11. Phases(n)
  <2>1. \A i, j \in 1..Len(q) : q[i] = "started" /\ q[j] = "started" => i = j
    <3>1. \A i, j \in 1..Len(x.queue) : x.queue[i] = "started" /\ x.queue[j] = "started" => i = j
      BY <1>7 DEF Phases
    <3>2. \A i, j \in 1..Len(x.queue \o p) :
             (x.queue \o p)[i] = "started" /\ (x.queue \o p)[j] = "started" => i = j
      BY <1>2, <3>1, SilentEvents, Zenon
    <3> QED BY <3>2, Zenon DEF q
  <2>2. n.proc.need_status /\ (n.proc.fin_status => n.child.status = <<>>)
    BY <1>3, <1>4, <1>5, <1>7 DEF Phases
  <2>3. n.proc.state # "none" /\ ~n.proc.startTrigger /\ n.child.end \in Over
    BY <1>3, <1>4, <1>5, <1>7
  <2>4. Heard(n)
    <3>1. n.proc.state = "NotRunning" /\ n.child.unheard = x.child.unheard /\ n.child.deaf = x.child.deaf
      BY <1>3, <1>4, <1>5
    <3>2. p \in Seq(Events)
      BY DEF Silent
    <3>3. \A i \in 1..Len(q) : q[i] = "WriteError" => \E j \in 1..Len(x.queue) : x.queue[j] = "WriteError"
      BY <1>2, <3>2, MoreEvents DEF q
    <3>4. Heard(x)
      BY <1>7 DEF Phases
    <3>5. \A i \in 1..Len(n.queue) : n.queue[i] = "WriteError" => n.child.deaf
      BY <1>5, <3>1, <3>3, <3>4 DEF Heard
    <3> QED BY <2>3, <3>1, <3>4, <3>5 DEF Heard, Listening
  <2> QED BY <1>5, <2>1, <2>2, <2>3, <2>4 DEF Phases
<1>12. Judged(n)
  BY <1>3, <1>5, <1>7, JudgedKept
<1> QED BY <1>5, <1>6, <1>9, <1>10, <1>11, <1>12 DEF Sound, n


------------------------------------------------------------------------------
(* Writing to the child                                                    *)

SameLife(x, n) ==
    /\ n.proc.state = x.proc.state /\ n.proc.startTrigger = x.proc.startTrigger
    /\ n.proc.need_status = x.proc.need_status /\ n.proc.fin_status = x.proc.fin_status
    /\ n.proc.fin_process_success = x.proc.fin_process_success
    /\ n.child.status = x.child.status /\ n.child.end = x.child.end
    /\ n.child.unheard = x.child.unheard /\ n.child.deaf = x.child.deaf

Noted == {"bytesWrittenStdin", "bytesWrittenAux"}

LEMMA GrownPhases ==
  ASSUME NEW x \in Sessions, NEW n, NEW p \in Seq(Noted), SameLife(x, n), Phases(x),
         n.queue = x.queue \o p, x.proc.state # "none", p # <<>> => ~x.proc.startTrigger
  PROVE  Phases(n)
<1>1. x.queue \in Seq(Events) /\ p \in Seq(Events) /\ \A i \in 1..Len(p) : p[i] \in Noted
  BY SessionFields DEF Noted, Events, Relayed
<1>2. /\ Len(n.queue) = Len(x.queue) + Len(p)
      /\ \A i \in 1..Len(n.queue) : n.queue[i] = IF i <= Len(x.queue) THEN x.queue[i] ELSE p[i - Len(x.queue)]
      /\ \A i \in 1..Len(n.queue) : IF i <= Len(x.queue) THEN i \in 1..Len(x.queue)
                                    ELSE i - Len(x.queue) \in 1..Len(p)
  BY <1>1, MoreEvents
<1>3. ASSUME NEW i \in 1..Len(n.queue), n.queue[i] \in {"started", "finished"}
      PROVE  i \in 1..Len(x.queue) /\ x.queue[i] = n.queue[i]
  BY <1>1, <1>2, <1>3 DEF Noted
<1>4. n.proc.startTrigger => n.queue = <<>>
  <2> SUFFICES ASSUME n.proc.startTrigger PROVE n.queue = <<>>
    OBVIOUS
  <2>1. p = <<>> /\ x.queue = <<>>
    BY DEF SameLife, Phases
  <2> QED BY <2>1
<1>5. \A i, j \in 1..Len(n.queue) : n.queue[i] = "started" /\ n.queue[j] = "started" => i = j
  <2>1. \A i, j \in 1..Len(x.queue) : x.queue[i] = "started" /\ x.queue[j] = "started" => i = j
    BY DEF Phases
  <2> QED BY <1>3, <2>1
<1>6. \A i \in 1..Len(n.queue) : n.queue[i] = "finished" => n.child.end \in Over
  <2>1. \A i \in 1..Len(x.queue) : x.queue[i] = "finished" => x.child.end \in Over
    BY DEF Phases
  <2> QED BY <1>3, <2>1 DEF SameLife
<1>7. Heard(n)
  <2>1. \A i \in 1..Len(p) : p[i] \notin Ominous /\ p[i] # "WriteError"
    BY <1>1 DEF Noted, Ominous
  <2>2. SameEar(x, n)
    BY DEF SameLife, SameEar
  <2> QED BY <1>1, <2>1, <2>2, HeardMore DEF Phases
<1> QED BY <1>4, <1>5, <1>6, <1>7 DEF Phases, SameLife

(* A delivery and its notice to the event loop *)
Fed(x, n, ch, items) ==
    /\ n \in Sessions /\ n.act = x.act
    /\ n.child.eof = x.child.eof /\ n.child.status = x.child.status
    /\ n.child.said = x.child.said /\ n.child.end = x.child.end
    /\ n.child.unheard = x.child.unheard /\ n.child.deaf = x.child.deaf
    /\ n.child.given[ch] = IF x.child.eof[ch] THEN x.child.given[ch] ELSE x.child.given[ch] \o items
    /\ \A c \in Channels \ {ch} : n.child.given[c] = x.child.given[c]
    /\ Pending(n) \in Nat /\ Pending(n) + Len(Data(x)) = Pending(x) + Len(Data(n))
    /\ \E p \in Seq(Noted) : n.queue = x.queue \o p

LEMMA DeliverFacts ==
  ASSUME NEW x \in Sessions, NEW ch \in Channels, NEW items \in Seq(Nat)
  PROVE  Fed(x, Deliver(x, ch, items), ch, items) /\ Deliver(x, ch, items).proc = x.proc
<1> DEFINE e == IF ch = "stdin" THEN "bytesWrittenStdin" ELSE "bytesWrittenAux"
           p == IF ch = "command" \/ x.child.eof[ch] THEN <<>> ELSE [i \in DOMAIN items |-> e]
           v == IF x.child.eof[ch] THEN x.child.given[ch] ELSE x.child.given[ch] \o items
           k == [x.child EXCEPT !.given = [@ EXCEPT ![ch] = v]]
           n == Deliver(x, ch, items)
<1>0. Fields(x)
  BY AllFields
<1>1. n = [x EXCEPT !.child = k, !.queue = x.queue \o p]
  <2>1. x.queue \o <<>> = x.queue
    BY <1>0 DEF Fields
  <2> QED BY <2>1 DEF Deliver
<1>2. v \in Seq(Nat)
  BY <1>0 DEF Fields
<1>3. p \in Seq(Noted) /\ p \in Seq(Events) /\ (\A i \in 1..Len(p) : p[i] = e) /\ e \in Noted
      /\ Len(p) = IF ch = "command" \/ x.child.eof[ch] THEN 0 ELSE Len(items)
  <2>1. e \in Noted /\ e \in Events
    BY DEF Noted, Events, Relayed
  <2> HIDE DEF e
  <2> QED BY <2>1
<1>4. IF x.child.eof[ch] THEN Len(v) = Len(x.child.given[ch])
      ELSE Len(v) = Len(x.child.given[ch]) + Len(items)
  <2>1. x.child.given[ch] \in Seq(Nat)
    BY <1>0 DEF Fields
  <2> QED BY <2>1
<1> HIDE DEF n, v, p
<1>5. k \in Children /\ k.eof = x.child.eof /\ k.status = x.child.status /\ k.said = x.child.said
      /\ k.unheard = x.child.unheard /\ k.deaf = x.child.deaf
      /\ k.end = x.child.end /\ k.given[ch] = v /\ \A c \in Channels \ {ch} : k.given[c] = x.child.given[c]
  <2>1. [x.child.given EXCEPT ![ch] = v] \in [Channels -> Seq(Nat)]
        /\ [x.child.given EXCEPT ![ch] = v][ch] = v
        /\ \A c \in Channels \ {ch} : [x.child.given EXCEPT ![ch] = v][c] = x.child.given[c]
    BY <1>0, <1>2 DEF Fields
  <2> QED BY <1>0, <2>1 DEF Fields, Children
<1> HIDE DEF k
<1>6. x.queue \in Seq(Events) /\ x.queue \o p \in Seq(Events)
  BY <1>0, <1>3 DEF Fields
<1>7. n \in Sessions /\ n.child = k /\ n.queue = x.queue \o p /\ n.proc = x.proc /\ n.act = x.act
  BY <1>1, <1>5, <1>6 DEF Sessions
<1>8. Input(n) = Input(x) /\ Note(n) = Note(x) /\ Input(x) \in {"stdin", "aux"} /\ Input(x) \in Channels
      /\ Note(x) = IF Input(x) = "stdin" THEN "bytesWrittenStdin" ELSE "bytesWrittenAux"
  BY <1>7 DEF Input, Note, useAux, Channels
<1>9. Pending(n) = Pending(x) + Notes(p, Note(x)) /\ Pending(x) \in Nat /\ Notes(p, Note(x)) \in Nat
  <2>1. Notes(x.queue \o p, Note(x)) = Notes(x.queue, Note(x)) + Notes(p, Note(x))
        /\ Notes(x.queue, Note(x)) \in Nat /\ Notes(p, Note(x)) \in Nat
    BY <1>3, <1>6, NotesFacts
  <2> HIDE DEF Note
  <2> QED BY <1>7, <1>8, <2>1 DEF Pending
<1>10. Notes(p, Note(x)) + Len(Data(x)) = Len(Data(n))
  <2>1. CASE ch = Input(x)
    <3>1. e = Note(x) /\ ch # "command"
      BY <1>8, <2>1
    <3>2. Notes(p, Note(x)) = Len(p)
      BY <1>3, <3>1, NotesConst
    <3>3. Data(x) = x.child.given[ch] /\ Data(n) = v
      BY <1>5, <1>7, <1>8, <2>1 DEF Data
    <3>4. Len(x.child.given[ch]) \in Nat /\ Len(items) \in Nat
      BY <1>0 DEF Fields
    <3>5. CASE x.child.eof[ch]
      <4>1. Notes(p, Note(x)) = 0 /\ Len(Data(n)) = Len(Data(x)) /\ Len(Data(x)) \in Nat
        BY <1>3, <1>4, <3>2, <3>3, <3>4, <3>5
      <4> QED BY <4>1
    <3>6. CASE ~x.child.eof[ch]
      <4>1. Notes(p, Note(x)) = Len(items) /\ Len(Data(n)) = Len(Data(x)) + Len(items)
            /\ Len(Data(x)) \in Nat
        BY <1>3, <1>4, <3>1, <3>2, <3>3, <3>4, <3>6
      <4> QED BY <3>4, <4>1
    <3> QED BY <3>5, <3>6
  <2>2. CASE ch # Input(x)
    <3>1. Data(n) = Data(x)
      BY <1>5, <1>7, <1>8, <2>2 DEF Data
    <3>2. \A i \in 1..Len(p) : p[i] # Note(x)
      <4>1. CASE ch = "command"
        <5>1. Len(p) = 0
          BY <1>3, <4>1
        <5> QED BY <5>1
      <4>2. CASE ch # "command"
        <5>1. e # Note(x)
          BY <1>8, <2>2, <4>2 DEF Channels
        <5> QED BY <1>3, <5>1
      <4> QED BY <4>1, <4>2
    <3>3. Notes(p, Note(x)) = 0
      BY <1>3, <3>2, NotesConst
    <3>4. Len(Data(x)) \in Nat
      BY <1>0 DEF Fields
    <3> QED BY <3>1, <3>3, <3>4
  <2> QED BY <2>1, <2>2
<1>11. Pending(n) \in Nat /\ Pending(n) + Len(Data(x)) = Pending(x) + Len(Data(n))
  <2>1. Len(Data(x)) \in Nat
    BY <1>0 DEF Fields
  <2> HIDE DEF Note
  <2> QED BY <1>9, <1>10, <2>1
<1>12. \E q \in Seq(Noted) : n.queue = x.queue \o q
  BY <1>3, <1>7
<1>13. Fed(x, n, ch, items)
  BY <1>5, <1>7, <1>11, <1>12 DEF Fed, v
<1> QED BY <1>7, <1>13 DEF n

Flush(x, ch, items) == [Deliver(x, ch, items) EXCEPT !.proc.pre[ch] = <<>>]

LEMMA FlushFacts ==
  ASSUME NEW x \in Sessions, NEW ch \in Channels, NEW items \in Seq(Nat)
  PROVE  LET n == Flush(x, ch, items)
         IN  /\ Fed(x, n, ch, items) /\ n.proc.pre = [x.proc.pre EXCEPT ![ch] = <<>>]
             /\ n.proc.pre_close = x.proc.pre_close /\ SameLife(x, n)
<1> DEFINE y == Deliver(x, ch, items)
           h == [x.proc.pre EXCEPT ![ch] = <<>>]
           c == [x.proc EXCEPT !.pre = h]
           n == Flush(x, ch, items)
<1>1. Fed(x, y, ch, items) /\ y.proc = x.proc /\ y \in Sessions
  BY DeliverFacts DEF Fed
<1> HIDE DEF y
<1>2. n = [y EXCEPT !.proc = c]
  BY <1>1 DEF Flush, y
<1>3. h \in [Channels -> Seq(Nat)]
  BY AllFields DEF Fields
<1> HIDE DEF n, h
<1>4. c \in Procs /\ c.pre = h /\ c.pre_close = x.proc.pre_close /\ c.state = x.proc.state
      /\ c.startTrigger = x.proc.startTrigger /\ c.need_status = x.proc.need_status
      /\ c.fin_status = x.proc.fin_status /\ c.fin_process_success = x.proc.fin_process_success
  BY <1>3, SessionFields DEF Procs
<1> HIDE DEF c
<1>5. n \in Sessions /\ n.proc = c /\ n.act = y.act /\ n.queue = y.queue /\ n.child = y.child
  BY <1>1, <1>2, <1>4 DEF Sessions
<1>6. Pending(n) = Pending(y) /\ Data(n) = Data(y)
  BY <1>5 DEF Pending, Note, useAux, Data, Input
<1>7. Fed(x, n, ch, items)
  BY <1>1, <1>5, <1>6 DEF Fed
<1>8. SameLife(x, n)
  BY <1>4, <1>5, <1>7 DEF SameLife, Fed
<1> QED BY <1>4, <1>5, <1>7, <1>8 DEF n, h


(* What holds while proc_started() runs *)
Alive(x) ==
    /\ x \in Sessions /\ Phases(x) /\ Judged(x) /\ Started(x)
    /\ x.proc.state # "none" /\ ~x.proc.startTrigger

LEMMA FlushAlive ==
  ASSUME NEW x, Alive(x), NEW ch \in Channels, NEW items \in Seq(Nat)
  PROVE  Alive(Flush(x, ch, items))
<1> DEFINE n == Flush(x, ch, items)
<1>1. x \in Sessions /\ Fed(x, n, ch, items) /\ SameLife(x, n)
  BY FlushFacts DEF Alive
<1> HIDE DEF n
<1>2. PICK p \in Seq(Noted) : n.queue = x.queue \o p
  BY <1>1 DEF Fed
<1>3. Phases(n)
  BY <1>1, <1>2, GrownPhases DEF Alive
<1>4. Judged(n)
  BY <1>1, JudgedKept DEF Alive, Fed
<1>5. Started(n)
  <2>1. x.queue \in Seq(Events) /\ p \in Seq(Events) /\ \A i \in 1..Len(p) : p[i] # "started"
    BY <1>1, SessionFields DEF Noted, Events, Relayed
  <2>2. \A i \in 1..Len(x.queue) : x.queue[i] # "started"
    BY DEF Alive, Started
  <2>3. \A i \in 1..Len(n.queue) : n.queue[i] # "started"
    BY <1>2, <2>1, <2>2, MoreEvents
  <2> QED BY <1>1, <2>3 DEF Alive, Started, SameLife
<1>6. n \in Sessions /\ n.proc.state # "none" /\ ~n.proc.startTrigger
  BY <1>1 DEF Alive, Fed, SameLife
<1> QED BY <1>3, <1>4, <1>5, <1>6 DEF Alive, n

(* proc_started() *)
LEMMA StartedSound ==
  ASSUME NEW x, NEW a, Alive(x),
         ~a.crossed => /\ Data(x) = <<>> /\ ~x.child.eof[Input(x)] /\ Held(x) = Numbers(a.sent)
                       /\ x.proc.pre_close[Input(x)] => a.ended
  PROVE  LET n == proc_started(x)
         IN  /\ n \in Sessions /\ Sound(n, a)
             /\ Pending(n) \in Nat /\ Pending(n) + Len(Data(x)) = Pending(x) + Len(Data(n))
<1> DEFINE pre == x.proc.pre
           s1 == Flush(x, "stdin", pre["stdin"])
           s2 == Flush(s1, "aux", pre["aux"])
           s3 == Flush(s2, "command", pre["command"])
           z == [ch \in Channels |-> s3.child.eof[ch] \/ x.proc.pre_close[ch]]
           k == [s3.child EXCEPT !.eof = z]
           n == proc_started(x)
<1>1. n = [s3 EXCEPT !.child = k]
  BY DEF proc_started, Flush
<1>2. x \in Sessions /\ Fields(x) /\ "stdin" \in Channels /\ "aux" \in Channels /\ "command" \in Channels
      /\ pre["stdin"] \in Seq(Nat) /\ pre["aux"] \in Seq(Nat) /\ pre["command"] \in Seq(Nat)
  <2>1. x \in Sessions /\ Fields(x)
    BY AllFields DEF Alive
  <2> QED BY <2>1 DEF Fields, Channels
<1> HIDE DEF n, k, z, s3, s2, s1
<1>3. Fed(x, s1, "stdin", pre["stdin"]) /\ s1.proc.pre = [pre EXCEPT !["stdin"] = <<>>]
      /\ s1.proc.pre_close = x.proc.pre_close /\ Alive(s1) /\ s1 \in Sessions
  BY <1>2, FlushFacts, FlushAlive, ZenonT(40) DEF s1, Alive
<1>4. Fed(s1, s2, "aux", pre["aux"]) /\ s2.proc.pre = [s1.proc.pre EXCEPT !["aux"] = <<>>]
      /\ s2.proc.pre_close = s1.proc.pre_close /\ Alive(s2) /\ s2 \in Sessions
  <2> DEFINE v == pre["aux"]
  <2>1. v \in Seq(Nat)
    BY <1>2
  <2> HIDE DEF v, pre
  <2>2. Fed(s1, s2, "aux", v) /\ s2.proc.pre_close = s1.proc.pre_close
        /\ s2.proc.pre = [s1.proc.pre EXCEPT !["aux"] = <<>>]
    <3>1. s2 = Flush(s1, "aux", v) /\ "aux" \in Channels /\ s1 \in Sessions
      BY <1>2, <1>3 DEF s2, v
    <3>2. LET f == Flush(s1, "aux", v)
          IN  /\ Fed(s1, f, "aux", v) /\ f.proc.pre = [s1.proc.pre EXCEPT !["aux"] = <<>>]
              /\ f.proc.pre_close = s1.proc.pre_close
      BY <2>1, <3>1, FlushFacts, Zenon
    <3> QED BY <3>1, <3>2
  <2>3. Alive(s2)
    BY <1>2, <1>3, <2>1, FlushAlive DEF s2, v
  <2> QED BY <2>2, <2>3 DEF Alive, v
<1>5. Fed(s2, s3, "command", pre["command"]) /\ s3.proc.pre = [s2.proc.pre EXCEPT !["command"] = <<>>]
      /\ s3.proc.pre_close = s2.proc.pre_close /\ Alive(s3) /\ s3 \in Sessions
  <2> DEFINE v == pre["command"]
  <2>1. v \in Seq(Nat)
    BY <1>2
  <2> HIDE DEF v, pre
  <2>2. Fed(s2, s3, "command", v) /\ s3.proc.pre_close = s2.proc.pre_close
        /\ s3.proc.pre = [s2.proc.pre EXCEPT !["command"] = <<>>]
    <3>1. s3 = Flush(s2, "command", v) /\ "command" \in Channels /\ s2 \in Sessions
      BY <1>2, <1>4 DEF s3, v
    <3>2. LET f == Flush(s2, "command", v)
          IN  /\ Fed(s2, f, "command", v) /\ f.proc.pre = [s2.proc.pre EXCEPT !["command"] = <<>>]
              /\ f.proc.pre_close = s2.proc.pre_close
      BY <2>1, <3>1, FlushFacts, Zenon
    <3> QED BY <3>1, <3>2
  <2>3. Alive(s3)
    BY <1>2, <1>4, <2>1, FlushAlive DEF s3, v
  <2> QED BY <2>2, <2>3 DEF Alive, v
<1>6. /\ s3.act = x.act /\ s3.child.eof = x.child.eof /\ s3.proc.pre_close = x.proc.pre_close
      /\ Input(s3) = Input(x) /\ Note(s3) = Note(x) /\ Input(x) \in {"stdin", "aux"}
  <2>1. s3.act = x.act /\ s3.child.eof = x.child.eof /\ s3.proc.pre_close = x.proc.pre_close
    BY <1>3, <1>4, <1>5 DEF Fed
  <2> QED BY <2>1 DEF Input, Note, useAux
<1>7. Data(s3) = IF x.child.eof[Input(x)] THEN Data(x) ELSE Data(x) \o Held(x)
  <2>1. s1.child.eof = x.child.eof
    BY <1>3 DEF Fed
  <2>2. CASE Input(x) = "stdin"
    <3>1. s1.child.given["stdin"] = IF x.child.eof["stdin"] THEN x.child.given["stdin"]
                                    ELSE x.child.given["stdin"] \o pre["stdin"]
      BY <1>3 DEF Fed
    <3>2. s2.child.given["stdin"] = s1.child.given["stdin"] /\ s3.child.given["stdin"] = s2.child.given["stdin"]
      BY <1>4, <1>5 DEF Fed, Channels
    <3> QED BY <1>6, <2>2, <3>1, <3>2 DEF Data, Held
  <2>3. CASE Input(x) = "aux"
    <3>1. s2.child.given["aux"] = IF x.child.eof["aux"] THEN s1.child.given["aux"]
                                  ELSE s1.child.given["aux"] \o pre["aux"]
      BY <1>4, <2>1 DEF Fed
    <3>2. s1.child.given["aux"] = x.child.given["aux"] /\ s3.child.given["aux"] = s2.child.given["aux"]
      BY <1>3, <1>5 DEF Fed, Channels
    <3> QED BY <1>6, <2>3, <3>1, <3>2 DEF Data, Held
  <2> QED BY <1>6, <2>2, <2>3
<1>8. Held(s3) = <<>>
  <2>1. s3.proc.pre["stdin"] = <<>> /\ s3.proc.pre["aux"] = <<>>
    BY <1>2, <1>3, <1>4, <1>5 DEF Channels, Fields
  <2> HIDE DEF Input
  <2> QED BY <1>6, <2>1 DEF Held
<1>9. Pending(s3) \in Nat /\ Pending(s3) + Len(Data(x)) = Pending(x) + Len(Data(s3))
  <2>1. /\ Pending(s1) \in Nat /\ Pending(s1) + Len(Data(x)) = Pending(x) + Len(Data(s1))
        /\ Pending(s2) \in Nat /\ Pending(s2) + Len(Data(s1)) = Pending(s1) + Len(Data(s2))
        /\ Pending(s3) \in Nat /\ Pending(s3) + Len(Data(s2)) = Pending(s2) + Len(Data(s3))
    BY <1>3, <1>4, <1>5 DEF Fed
  <2>2. Len(Data(x)) \in Nat /\ Len(Data(s1)) \in Nat /\ Len(Data(s2)) \in Nat /\ Len(Data(s3)) \in Nat
    <3>1. Data(x) \in Seq(Nat) /\ Data(s1) \in Seq(Nat) /\ Data(s2) \in Seq(Nat) /\ Data(s3) \in Seq(Nat)
      BY <1>2, <1>3, <1>4, <1>5, AllFields DEF Fields
    <3> QED BY <3>1
  <2>3. Pending(x) \in Nat
    <3>1. x.queue \in Seq(Events)
      BY <1>2 DEF Fields
    <3> QED BY <3>1, NotesFacts DEF Pending
  <2> QED BY <2>1, <2>2, <2>3, SMTT(30)
<1>10. z \in [Channels -> BOOLEAN] /\ \A ch \in Channels : z[ch] = (x.child.eof[ch] \/ x.proc.pre_close[ch])
  BY <1>6 DEF z
<1>11. k \in Children /\ k.eof = z /\ k.given = s3.child.given /\ k.status = s3.child.status
       /\ k.said = s3.child.said /\ k.end = s3.child.end
       /\ k.unheard = s3.child.unheard /\ k.deaf = s3.child.deaf
  BY <1>5, <1>10, SessionFields DEF k, Children
<1>12. n \in Sessions /\ n.child = k /\ n.proc = s3.proc /\ n.queue = s3.queue /\ n.act = s3.act
  BY <1>1, <1>5, <1>11 DEF Sessions
<1>13. Input(n) = Input(x) /\ Note(n) = Note(x) /\ Data(n) = Data(s3) /\ Held(n) = <<>>
       /\ Pending(n) = Pending(s3)
  BY <1>6, <1>8, <1>11, <1>12 DEF Input, Note, useAux, Data, Held, Pending
<1>14. Phases(n) /\ Judged(n) /\ Started(n) /\ n.proc.state # "none"
  <2>1. SameLife(s3, n) /\ n.queue = s3.queue
    BY <1>11, <1>12 DEF SameLife
  <2>2. n.queue = s3.queue \o <<>> /\ <<>> \in Seq(Noted)
    BY <1>5, <2>1, SessionFields
  <2>3. Phases(n)
    BY <1>5, <2>1, <2>2, GrownPhases DEF Alive
  <2>4. Judged(n)
    BY <1>5, <1>11, <1>12, JudgedKept DEF Alive
  <2> QED BY <1>5, <1>12, <2>3, <2>4 DEF Alive, Started
<1>15. Feed(n, a)
  <2> SUFFICES ASSUME ~a.crossed PROVE InOrder(n, a)
    BY <1>14 DEF Feed
  <2>1. Data(n) = Numbers(a.sent)
    <3>1. Held(x) \in Seq(Nat) /\ Data(x) = <<>> /\ ~x.child.eof[Input(x)] /\ Held(x) = Numbers(a.sent)
      BY <1>2 DEF Fields
    <3>2. <<>> \o Held(x) = Held(x)
      BY <3>1
    <3> QED BY <1>7, <1>13, <3>1, <3>2
  <2>2. Data(n) \o Held(n) = Numbers(a.sent)
    <3>1. Data(n) \in Seq(Nat)
      BY <1>12, AllFields DEF Fields
    <3>2. Data(n) \o <<>> = Data(n)
      BY <3>1
    <3> QED BY <1>13, <2>1, <3>2
  <2>3. n.child.eof[Input(n)] => a.ended
    <3>1. Input(x) \in Channels
      BY <1>2 DEF Fields
    <3>2. z[Input(x)] = (x.child.eof[Input(x)] \/ x.proc.pre_close[Input(x)])
      BY <1>10, <3>1
    <3> QED BY <1>11, <1>12, <1>13, <3>2
  <2>4. n.proc.pre_close[Input(n)] => a.ended
    BY <1>6, <1>12, <1>13
  <2> QED BY <1>13, <1>14, <2>2, <2>3, <2>4 DEF InOrder
<1> QED BY <1>9, <1>12, <1>13, <1>14, <1>15 DEF Sound, n


LEMMA NotedStarted ==
  ASSUME NEW x \in Sessions, NEW n, NEW p \in Seq(Noted), n.queue = x.queue \o p,
         n.proc.startTrigger = x.proc.startTrigger, Started(x)
  PROVE  Started(n)
<1>1. x.queue \in Seq(Events) /\ p \in Seq(Events) /\ \A i \in 1..Len(p) : p[i] # "started"
  <2>1. x.queue \in Seq(Events)
    BY SessionFields
  <2>2. Noted \subseteq Events /\ "started" \notin Noted
    BY DEF Noted, Events, Relayed
  <2>3. p \in Seq(Events) /\ \A i \in 1..Len(p) : p[i] \in Noted
    BY <2>2
  <2> QED BY <2>1, <2>2, <2>3
<1>2. \A i \in 1..Len(x.queue) : x.queue[i] # "started"
  BY DEF Started
<1>3. \A i \in 1..Len(n.queue) : n.queue[i] # "started"
  BY <1>1, <1>2, MoreEvents
<1> QED BY <1>3 DEF Started

LEMMA NumbersNext ==
  ASSUME NEW m \in Nat, NEW d \in Seq(Nat), NEW h \in Seq(Nat), d \o h = Numbers(m)
  PROVE  d \o Append(h, m + 1) = Numbers(m + 1)
<1>1. Append(Numbers(m), m + 1) = Numbers(m + 1)
  BY DEF Numbers
<1>2. d \o Append(h, m + 1) = Append(d \o h, m + 1)
  OBVIOUS
<1> QED BY <1>1, <1>2

(* The input held back before the process runs *)
Holds(x, n) ==
    /\ n \in Sessions /\ n.act = x.act /\ n.queue = x.queue /\ n.child = x.child /\ SameLife(x, n)

LEMMA HoldsFacts ==
  ASSUME NEW x \in Sessions, NEW n, Holds(x, n), Phases(x), Judged(x), x.proc.state # "none"
  PROVE  /\ Phases(n) /\ Judged(n) /\ Started(n) = Started(x) /\ Data(n) = Data(x)
         /\ Pending(n) = Pending(x) /\ Input(n) = Input(x)
<1>1. n.queue = x.queue \o <<>> /\ <<>> \in Seq(Noted)
  BY SessionFields DEF Holds
<1>2. Phases(n)
  BY <1>1, GrownPhases DEF Holds
<1>3. Judged(n)
  BY JudgedKept DEF Holds
<1>4. Started(n) = Started(x)
  BY DEF Started, Holds, SameLife
<1>5. Data(n) = Data(x) /\ Pending(n) = Pending(x) /\ Input(n) = Input(x)
  BY DEF Holds, Data, Input, useAux, Pending, Note
<1> QED BY <1>2, <1>3, <1>4, <1>5

(* update() *)
LEMMA WriteSound ==
  ASSUME NEW x \in Sessions, NEW a, NEW b, Sound(x, a), a.sent \in Nat, ~a.ended,
         b.sent = a.sent + 1, ~b.ended,
         ~b.crossed => ~a.crossed /\ (x.proc.state = "Running" => Started(x))
  PROVE  LET n == write(x, Input(x), a.sent + 1)
         IN  /\ n \in Sessions /\ Sound(n, b)
             /\ Pending(n) \in Nat /\ Pending(n) + Len(Data(x)) = Pending(x) + Len(Data(n))
<1> DEFINE v == a.sent + 1
           i == Input(x)
           n == write(x, i, v)
<1>1. Fields(x) /\ i \in Channels /\ v \in Nat /\ Feed(x, a) /\ Phases(x) /\ Judged(x)
  BY AllFields DEF Fields, Sound
<1>2. Pending(x) \in Nat /\ Len(Data(x)) \in Nat /\ Data(x) \in Seq(Nat)
  <2>1. x.queue \in Seq(Events) /\ Data(x) \in Seq(Nat)
    BY <1>1 DEF Fields
  <2> QED BY <2>1, NotesFacts DEF Pending
<1>3. CASE x.proc.state = "none"
  <2>1. n = x
    BY <1>3 DEF write
  <2>2. Feed(x, b)
    BY <1>1, <1>3 DEF Feed
  <2> HIDE DEF n
  <2>3. n \in Sessions /\ Sound(n, b) /\ Pending(n) = Pending(x) /\ Data(n) = Data(x)
    BY <1>1, <2>1, <2>2 DEF Sound
  <2> QED BY <1>2, <2>3 DEF n
<1>4. CASE x.proc.state = "Running"
  <2>1. n = Deliver(x, i, <<v>>)
    BY <1>4 DEF write
  <2>2. Fed(x, n, i, <<v>>) /\ n.proc = x.proc
    <3>1. <<v>> \in Seq(Nat)
      BY <1>1
    <3> HIDE DEF n, v, i
    <3> QED BY <1>1, <2>1, <3>1, DeliverFacts
  <2> HIDE DEF n
  <2>3. n \in Sessions /\ n.act = x.act /\ Input(n) = i /\ n.child.eof = x.child.eof
        /\ n.child.status = x.child.status /\ n.child.said = x.child.said /\ SameLife(x, n)
    BY <2>2 DEF Fed, Input, useAux, SameLife
  <2>4. PICK p \in Seq(Noted) : n.queue = x.queue \o p
    BY <2>2 DEF Fed
  <2>5. ~x.proc.startTrigger
    BY <1>1, <1>4 DEF Phases
  <2>6. Phases(n)
    BY <1>1, <1>4, <2>3, <2>4, <2>5, GrownPhases
  <2>7. Judged(n)
    BY <1>1, <2>3, JudgedKept
  <2>8. Feed(n, b)
    <3>1. n.proc.state # "none"
      BY <1>4, <2>2
    <3> SUFFICES ASSUME ~b.crossed PROVE InOrder(n, b)
      BY <3>1 DEF Feed
    <3>2. InOrder(x, a) /\ Started(x)
      BY <1>1, <1>4 DEF Feed
    <3>3. Held(x) = <<>> /\ ~x.child.eof[i] /\ Data(x) \o Held(x) = Numbers(a.sent)
          /\ (x.proc.pre_close[i] => a.ended)
      BY <1>4, <3>2 DEF InOrder
    <3>4. Held(n) = <<>> /\ n.proc.pre_close[i] = x.proc.pre_close[i]
      BY <2>2, <2>3, <3>3 DEF Held
    <3>5. Data(n) = Data(x) \o <<v>>
      BY <2>2, <2>3, <3>3 DEF Data, Fed
    <3>6. Data(n) \o Held(n) = Numbers(b.sent)
      <4>1. Data(x) \o Append(Held(x), v) = Numbers(v)
        <5>1. Held(x) \in Seq(Nat)
          BY <1>1 DEF Fields
        <5> QED BY <1>2, <3>3, <5>1, NumbersNext
      <4>2. Append(Held(x), v) = <<v>>
        BY <3>3
      <4>3. Data(n) \in Seq(Nat)
        BY <2>3, AllFields DEF Fields
      <4>4. Data(n) \o <<>> = Data(n)
        BY <4>3
      <4> HIDE DEF v
      <4>5. Data(n) = Numbers(v)
        BY <3>5, <4>1, <4>2
      <4> QED BY <3>4, <4>4, <4>5 DEF v
    <3>7. ~n.child.eof[Input(n)]
      BY <2>3, <3>3
    <3>8. Started(n)
      BY <2>2, <2>4, <3>2, NotedStarted
    <3> HIDE DEF i
    <3> QED BY <2>3, <3>3, <3>4, <3>6, <3>7, <3>8 DEF InOrder
  <2>9. Pending(n) \in Nat /\ Pending(n) + Len(Data(x)) = Pending(x) + Len(Data(n))
    BY <2>2 DEF Fed
  <2> QED BY <2>3, <2>6, <2>7, <2>8, <2>9 DEF Sound, n
<1>5. CASE x.proc.state = "NotRunning"
  <2> DEFINE w == Append(x.proc.pre[i], v)
             h == [x.proc.pre EXCEPT ![i] = w]
             c == [x.proc EXCEPT !.pre = h]
  <2>1. n = [x EXCEPT !.proc = c]
    BY <1>5 DEF write
  <2>2. w \in Seq(Nat) /\ w = Append(Held(x), v)
    BY <1>1 DEF Fields, Held
  <2> HIDE DEF n, w, i, v
  <2>3. h \in [Channels -> Seq(Nat)] /\ h[i] = w
    BY <1>1, <2>2 DEF Fields
  <2> HIDE DEF h
  <2>4. c \in Procs /\ c.pre = h /\ c.pre_close = x.proc.pre_close /\ c.state = x.proc.state
        /\ c.startTrigger = x.proc.startTrigger /\ c.need_status = x.proc.need_status
        /\ c.fin_status = x.proc.fin_status /\ c.fin_process_success = x.proc.fin_process_success
    BY <2>3, SessionFields DEF Procs
  <2> HIDE DEF c
  <2>5. n \in Sessions /\ n.proc = c /\ n.act = x.act /\ n.queue = x.queue /\ n.child = x.child
    BY <2>1, <2>4 DEF Sessions
  <2>6. Holds(x, n)
    BY <2>4, <2>5 DEF Holds, SameLife
  <2>7. /\ Phases(n) /\ Judged(n) /\ Started(n) = Started(x) /\ Data(n) = Data(x)
        /\ Pending(n) = Pending(x) /\ Input(n) = i
    BY <1>1, <1>5, <2>6, HoldsFacts DEF i
  <2>8. Held(n) = Append(Held(x), v)
    BY <2>2, <2>3, <2>4, <2>5, <2>7 DEF Held
  <2>9. Feed(n, b)
    <3>1. n.proc.state = "NotRunning"
      BY <1>5, <2>4, <2>5
    <3> SUFFICES ASSUME ~b.crossed PROVE InOrder(n, b)
      BY <3>1 DEF Feed
    <3>2. InOrder(x, a)
      BY <1>1, <1>5 DEF Feed
    <3>3. Data(x) \o Held(x) = Numbers(a.sent) /\ ~x.child.eof[i] /\ ~x.proc.pre_close[i]
          /\ (~Started(x) => Data(x) = <<>>)
      BY <3>2 DEF InOrder, i
    <3>4. Data(n) \o Held(n) = Numbers(b.sent)
      <4>1. Held(x) \in Seq(Nat)
        BY <1>1 DEF Fields
      <4>2. Data(x) \o Append(Held(x), a.sent + 1) = Numbers(a.sent + 1)
        BY <1>2, <3>3, <4>1, NumbersNext
      <4> QED BY <2>7, <2>8, <4>2 DEF v
    <3> QED BY <2>4, <2>5, <2>7, <3>1, <3>3, <3>4 DEF InOrder
  <2> QED BY <1>2, <2>5, <2>7, <2>9 DEF Sound, n, i, v
<1> QED BY <1>1, <1>3, <1>4, <1>5 DEF Fields


(* end() *)
LEMMA CloseSound ==
  ASSUME NEW x \in Sessions, NEW a, NEW b, Sound(x, a), b.sent = a.sent, b.ended,
         ~b.crossed => ~a.crossed /\ (x.proc.state = "Running" => Started(x))
  PROVE  LET n == closeChannel(x, Input(x))
         IN  n \in Sessions /\ Sound(n, b) /\ Pending(n) = Pending(x) /\ Len(Data(n)) = Len(Data(x))
<1> DEFINE i == Input(x)
           n == closeChannel(x, i)
<1>1. Fields(x) /\ i \in Channels /\ Feed(x, a) /\ Phases(x) /\ Judged(x)
  BY AllFields DEF Fields, Sound
<1>2. CASE x.proc.state = "none"
  <2>1. n = x
    BY <1>2 DEF closeChannel
  <2>2. Feed(x, b)
    BY <1>1, <1>2 DEF Feed
  <2> HIDE DEF n
  <2> QED BY <1>1, <2>1, <2>2 DEF Sound, n
<1>3. CASE x.proc.state = "Running"
  <2> DEFINE z == [x.child.eof EXCEPT ![i] = TRUE]
             k == [x.child EXCEPT !.eof = z]
  <2>1. n = [x EXCEPT !.child = k]
    BY <1>3 DEF closeChannel
  <2>2. z \in [Channels -> BOOLEAN] /\ z[i] = TRUE
    BY <1>1 DEF Fields
  <2> HIDE DEF n, z
  <2>3. k \in Children /\ k.eof = z /\ k.given = x.child.given /\ k.status = x.child.status
        /\ k.said = x.child.said /\ k.end = x.child.end
        /\ k.unheard = x.child.unheard /\ k.deaf = x.child.deaf
    BY <2>2, SessionFields DEF Children
  <2> HIDE DEF k
  <2>4. n \in Sessions /\ n.proc = x.proc /\ n.act = x.act /\ n.queue = x.queue /\ n.child = k
    BY <2>1, <2>3 DEF Sessions
  <2>5. Input(n) = i /\ Data(n) = Data(x) /\ Held(n) = Held(x) /\ Pending(n) = Pending(x)
        /\ Started(n) = Started(x)
    BY <2>3, <2>4 DEF Input, Data, Held, Pending, Note, useAux, Started
  <2>6. Phases(n)
    <3>1. SameLife(x, n)
      BY <2>3, <2>4 DEF SameLife
    <3>2. n.queue = x.queue \o <<>> /\ <<>> \in Seq(Noted)
      BY <2>4, SessionFields
    <3> QED BY <1>1, <1>3, <3>1, <3>2, GrownPhases
  <2>7. Judged(n)
    BY <1>1, <2>3, <2>4, JudgedKept
  <2>8. Feed(n, b)
    <3>1. n.proc.state # "none"
      BY <1>3, <2>4
    <3> SUFFICES ASSUME ~b.crossed PROVE InOrder(n, b)
      BY <3>1 DEF Feed
    <3>2. InOrder(x, a) /\ Started(x)
      BY <1>1, <1>3 DEF Feed
    <3>3. Held(x) = <<>> /\ Data(x) \o Held(x) = Numbers(b.sent)
      BY <1>3, <3>2 DEF InOrder
    <3> QED BY <2>5, <3>2, <3>3 DEF InOrder
  <2> QED BY <2>4, <2>5, <2>6, <2>7, <2>8 DEF Sound, n
<1>4. CASE x.proc.state = "NotRunning"
  <2> DEFINE z == [x.proc.pre_close EXCEPT ![i] = TRUE]
             c == [x.proc EXCEPT !.pre_close = z]
  <2>1. n = [x EXCEPT !.proc = c]
    BY <1>4 DEF closeChannel
  <2>2. z \in [Channels -> BOOLEAN] /\ z[i] = TRUE
    BY <1>1 DEF Fields
  <2> HIDE DEF n, z
  <2>3. c \in Procs /\ c.pre = x.proc.pre /\ c.pre_close = z /\ c.state = x.proc.state
        /\ c.startTrigger = x.proc.startTrigger /\ c.need_status = x.proc.need_status
        /\ c.fin_status = x.proc.fin_status /\ c.fin_process_success = x.proc.fin_process_success
    BY <2>2, SessionFields DEF Procs
  <2> HIDE DEF c
  <2>4. n \in Sessions /\ n.proc = c /\ n.act = x.act /\ n.queue = x.queue /\ n.child = x.child
    BY <2>1, <2>3 DEF Sessions
  <2>5. Holds(x, n)
    BY <2>3, <2>4 DEF Holds, SameLife
  <2>6. /\ Phases(n) /\ Judged(n) /\ Started(n) = Started(x) /\ Data(n) = Data(x)
        /\ Pending(n) = Pending(x) /\ Input(n) = i
    BY <1>1, <1>4, <2>5, HoldsFacts
  <2>7. Held(n) = Held(x)
    BY <2>3, <2>4, <2>6 DEF Held
  <2>8. Feed(n, b)
    <3>1. n.proc.state = "NotRunning"
      BY <1>4, <2>3, <2>4
    <3> SUFFICES ASSUME ~b.crossed PROVE InOrder(n, b)
      BY <3>1 DEF Feed
    <3>2. InOrder(x, a)
      BY <1>1, <1>4 DEF Feed
    <3> QED BY <2>4, <2>6, <2>7, <3>1, <3>2 DEF InOrder
  <2> QED BY <2>4, <2>6, <2>8 DEF Sound, n
<1> QED BY <1>1, <1>2, <1>3, <1>4 DEF Fields

(* doStart() *)
LEMMA DoStartSound ==
  ASSUME NEW x \in Sessions, NEW a, Sound(x, a), x.proc.startTrigger, NEW started \in BOOLEAN
  PROVE  LET n == doStart(x, started)
         IN  n \in Sessions /\ Sound(n, a) /\ Pending(n) = Pending(x) /\ Len(Data(n)) = Len(Data(x))
<1> DEFINE st == IF started THEN "Running" ELSE "NotRunning"
           en == IF started THEN "no" ELSE "failed"
           ev == IF started THEN "started" ELSE "FailedToStart"
           c == [x.proc EXCEPT !.startTrigger = FALSE, !.state = st]
           k == [x.child EXCEPT !.end = en]
           q == Append(x.queue, ev)
           n == doStart(x, started)
<1>1. n = [x EXCEPT !.proc = c, !.child = k, !.queue = q]
  BY DEF doStart
<1>2. Feed(x, a) /\ Phases(x) /\ Judged(x)
  BY DEF Sound
<1>3. x.queue = <<>> /\ x.child.status = <<>> /\ ~x.proc.fin_process_success /\ x.proc.state = "NotRunning"
  BY <1>2 DEF Phases
<1>4. /\ st \in {"Running", "NotRunning"} /\ en \in Ends /\ en \in {"no", "failed"}
      /\ ev \in {"started", "FailedToStart"} /\ ev \in Events
      /\ st = "Running" => ev = "started" /\ en = "no"
  BY DEF Ends, Events, Relayed
<1>5. q = <<ev>> /\ q \in Seq(Events) /\ Len(q) = 1 /\ q[1] = ev
  <2> HIDE DEF ev
  <2> QED BY <1>3, <1>4
<1> HIDE DEF n, st, en, ev, q
<1>6. c \in Procs /\ c.pre = x.proc.pre /\ c.pre_close = x.proc.pre_close /\ c.state = st
      /\ ~c.startTrigger /\ c.need_status = x.proc.need_status
      /\ c.fin_status = x.proc.fin_status /\ c.fin_process_success = x.proc.fin_process_success
  BY <1>4, SessionFields DEF Procs
<1>7. k \in Children /\ k.eof = x.child.eof /\ k.given = x.child.given /\ k.status = x.child.status
      /\ k.said = x.child.said /\ k.end = en /\ k.unheard = x.child.unheard /\ k.deaf = x.child.deaf
  BY <1>4, SessionFields DEF Children
<1> HIDE DEF c, k
<1>8. n \in Sessions /\ n.proc = c /\ n.act = x.act /\ n.queue = q /\ n.child = k
  BY <1>1, <1>5, <1>6, <1>7 DEF Sessions
<1>9. Input(n) = Input(x) /\ Data(n) = Data(x) /\ Held(n) = Held(x) /\ Note(n) = Note(x)
  BY <1>6, <1>7, <1>8 DEF Input, Data, Held, Note, useAux
<1>10. Pending(n) = 0 /\ Pending(x) = 0
  <2>1. Note(x) \in {"bytesWrittenAux", "bytesWrittenStdin"}
    BY DEF Note
  <2>2. \A i \in 1..Len(q) : q[i] # Note(x)
    <3>1. ev # Note(x)
      BY <1>4, <2>1
    <3> QED BY <1>5, <3>1
  <2>3. Notes(q, Note(x)) = 0
    BY <1>5, <2>2, NotesConst
  <2>4. Notes(<<>>, Note(x)) = 0
    BY <1>5, NotesFacts
  <2> QED BY <1>3, <1>8, <1>9, <2>3, <2>4 DEF Pending
<1>11. Phases(n)
  <2>1. n.proc.state # "none" /\ n.proc.need_status /\ ~n.proc.startTrigger
    BY <1>2, <1>3, <1>4, <1>6, <1>8 DEF Phases
  <2>2. (n.proc.fin_status => n.child.status = <<>>) /\ ~n.proc.fin_process_success
    BY <1>3, <1>6, <1>7, <1>8
  <2>3. \A i \in 1..Len(n.queue) : i = 1 /\ n.queue[i] # "finished"
    BY <1>4, <1>5, <1>8
  <2>4. Heard(n)
    <3>1. Listening(x) /\ ~x.proc.fin_status
      BY <1>2 DEF Phases, Heard
    <3>2. /\ Listening(n) /\ ~n.proc.fin_status /\ n.proc.state = st /\ n.child.end = en
          /\ \A i \in 1..Len(n.queue) : n.queue[i] = ev
      BY <1>5, <1>6, <1>7, <1>8, <3>1 DEF Listening
    <3>3. n.proc.state = "Running" => n.child.end = "no" /\ ev = "started"
      BY <1>4, <3>2
    <3> QED BY <1>4, <2>1, <3>2, <3>3 DEF Heard, Ominous
  <2> QED BY <2>1, <2>2, <2>3, <2>4 DEF Phases
<1>12. Judged(n)
  BY <1>2, <1>7, <1>8, JudgedKept
<1>13. Feed(n, a)
  <2>1. n.proc.state # "none"
    BY <1>4, <1>6, <1>8
  <2> SUFFICES ASSUME ~a.crossed PROVE InOrder(n, a)
    BY <2>1 DEF Feed
  <2>2. InOrder(x, a) /\ ~Started(x)
    BY <1>2, <1>3 DEF Feed, Started
  <2>3. Data(x) = <<>> /\ ~x.child.eof[Input(x)] /\ Data(x) \o Held(x) = Numbers(a.sent)
        /\ (x.proc.pre_close[Input(x)] => a.ended)
    BY <2>2 DEF InOrder
  <2>4. n.proc.state = "Running" => ~Started(n)
    <3> SUFFICES ASSUME n.proc.state = "Running" PROVE ~Started(n)
      OBVIOUS
    <3>1. n.queue[1] = "started" /\ 1 \in 1..Len(n.queue)
      BY <1>4, <1>5, <1>6, <1>8
    <3> QED BY <3>1 DEF Started
  <2> QED BY <1>6, <1>7, <1>8, <1>9, <2>3, <2>4 DEF InOrder
<1> QED BY <1>8, <1>9, <1>10, <1>11, <1>12, <1>13 DEF Sound, n

(* GpgAction::start() *)
LEMMA StartActionSound ==
  ASSUME NEW k \in Kinds, NEW pipes \in BOOLEAN, NEW b, b.sent = 0
  PROVE  LET n == startAction(k, pipes)
         IN  n \in Sessions /\ Sound(n, b) /\ Pending(n) = 0 /\ Data(n) = <<>>
<1> DEFINE det == k = "VerifyDetached"
           pre == [ch \in Channels |-> IF det /\ ch = "stdin" THEN <<Other>> ELSE <<>>]
           clo == [ch \in Channels |-> det /\ ch = "stdin"]
           c == IF pipes THEN [NoProc EXCEPT !.state = "NotRunning", !.need_status = TRUE,
                                             !.startTrigger = TRUE, !.pre = pre, !.pre_close = clo]
                ELSE NoProc
           q == IF pipes THEN <<>> ELSE <<"startError">>
           n == startAction(k, pipes)
<1>1. n = [proc |-> c, act |-> NewAction(k), queue |-> q, child |-> NewChild]
  <2> DEFINE c0 == [NoProc EXCEPT !.state = "NotRunning", !.need_status = TRUE, !.startTrigger = TRUE]
             x1 == startProc(NewSession(k), pipes)
  <2>1. x1 = [proc |-> IF pipes THEN c0 ELSE NoProc, act |-> NewAction(k), queue |-> q,
              child |-> NewChild]
    <3>1. Append(<<>>, "startError") = <<"startError">>
      OBVIOUS
    <3> HIDE DEF c0
    <3>2. CASE ~pipes
      BY <3>1, <3>2 DEF startProc, NewSession
    <3>3. CASE pipes
      BY <3>3 DEF startProc, NewSession, c0
    <3> QED BY <3>2, <3>3
  <2>2. n = IF det THEN closeChannel(write(x1, "stdin", Other), "stdin") ELSE x1
    BY DEF startAction
  <2>3. /\ c0.state = "NotRunning" /\ c0.pre = [ch \in Channels |-> <<>>]
        /\ c0.pre_close = [ch \in Channels |-> FALSE] /\ NoProc.state = "none"
    BY DEF NoProc
  <2> HIDE DEF x1, n, q
  <2>4. CASE ~pipes
    <3>1. x1.proc.state = "none"
      BY <2>1, <2>3, <2>4
    <3>2. write(x1, "stdin", Other) = x1
      BY <3>1 DEF write
    <3>3. closeChannel(x1, "stdin") = x1
      BY <3>1 DEF closeChannel
    <3> QED BY <2>1, <2>2, <2>4, <3>2, <3>3
  <2>5. CASE pipes /\ ~det
    <3>1. pre = [ch \in Channels |-> <<>>] /\ clo = [ch \in Channels |-> FALSE]
      BY <2>5
    <3> HIDE DEF pre, clo
    <3>2. c = c0
      <4>1. c = [c0 EXCEPT !.pre = pre, !.pre_close = clo]
        BY <2>5
      <4>2. c0.pre = pre /\ c0.pre_close = clo
        BY <2>3, <3>1
      <4>3. c0 \in Procs
        <5>1. NoProc \in Procs
          BY DEF NoProc, Procs
        <5> QED BY <5>1 DEF Procs
      <4> HIDE DEF c, c0
      <4>4. [c0 EXCEPT !.pre = pre, !.pre_close = clo] = c0
        BY <4>2, <4>3 DEF Procs
      <4> QED BY <4>1, <4>4
    <3> HIDE DEF c, c0
    <3> QED BY <2>1, <2>2, <2>5, <3>2
  <2>6. CASE pipes /\ det
    <3> DEFINE p1 == [c0.pre EXCEPT !["stdin"] = <<Other>>]
               c1 == [c0 EXCEPT !.pre = p1]
               x2 == write(x1, "stdin", Other)
               p2 == [c0.pre_close EXCEPT !["stdin"] = TRUE]
    <3>1. p1 = pre
      BY <2>3, <2>6 DEF Channels
    <3>2. p2 = clo
      BY <2>3, <2>6 DEF Channels
    <3>3. x1.proc = c0 /\ c0.pre["stdin"] = <<>>
      BY <2>1, <2>3, <2>6 DEF Channels
    <3>4. Append(<<>>, Other) = <<Other>>
      OBVIOUS
    <3>5. x2 = [x1 EXCEPT !.proc = c1]
      BY <2>3, <3>3, <3>4 DEF write
    <3>6. c1.state = "NotRunning" /\ c1.pre_close = c0.pre_close /\ c = [c1 EXCEPT !.pre_close = p2]
      <4> HIDE DEF pre, clo, p1, p2
      <4> QED BY <2>6, <3>1, <3>2 DEF NoProc
    <3> HIDE DEF x2, c1, c, c0, p1
    <3>7. x2.proc = c1 /\ x2 = [proc |-> c1, act |-> NewAction(k), queue |-> q, child |-> NewChild]
      BY <2>1, <3>5
    <3>8. closeChannel(x2, "stdin") = [x2 EXCEPT !.proc = c]
      BY <3>6, <3>7 DEF closeChannel
    <3> QED BY <2>2, <2>6, <3>7, <3>8 DEF x2
  <2> QED BY <2>4, <2>5, <2>6
<1>2. pre \in [Channels -> Seq(Nat)] /\ clo \in [Channels -> BOOLEAN]
  BY DEF Other
<1>3. NewAction(k) \in Actions /\ NewAction(k).op = k
  BY DEF NewAction, Actions, Errors, Signatures
<1>4. NewChild \in Children /\ NewChild.given = [ch \in Channels |-> <<>>]
      /\ NewChild.eof = [ch \in Channels |-> FALSE] /\ NewChild.status = <<>>
      /\ NewChild.said = <<>> /\ NewChild.end = "no" /\ NewChild.unheard = <<>>
  BY DEF NewChild, Children, Ends
<1>5. NoProc \in Procs
  BY DEF NoProc, Procs
<1>6. q \in Seq(Events) /\ (pipes => q = <<>>) /\ (~pipes => q = <<"startError">>)
  <2>1. "startError" \in Events
    BY DEF Events, Posted
  <2>2. <<"startError">> \in Seq(Events) /\ <<>> \in Seq(Events)
    BY <2>1
  <2> QED BY <2>2
<1> HIDE DEF pre, clo, q, n
<1>7. c \in Procs /\ (~pipes => c = NoProc)
      /\ (pipes => /\ c.state = "NotRunning" /\ c.need_status /\ c.startTrigger /\ c.pre = pre
                   /\ c.pre_close = clo /\ ~c.fin_status /\ ~c.fin_process_success)
  BY <1>2, <1>5 DEF Procs, NoProc
<1> HIDE DEF c
<1>8. n \in Sessions /\ n.proc = c /\ n.act = NewAction(k) /\ n.queue = q /\ n.child = NewChild
  BY <1>1, <1>3, <1>4, <1>6, <1>7 DEF Sessions
<1>9. Input(n) = (IF det THEN "aux" ELSE "stdin") /\ Input(n) \in Channels
  BY <1>3, <1>8 DEF Input, useAux, Channels
<1>10. Data(n) = <<>> /\ ~n.child.eof[Input(n)]
  <2> HIDE DEF Input
  <2> QED BY <1>4, <1>8, <1>9 DEF Data
<1>11. Pending(n) = 0
  <2>1. \A i \in 1..Len(q) : q[i] # Note(n)
    BY <1>6 DEF Note
  <2> QED BY <1>6, <1>8, <2>1, NotesConst DEF Pending
<1>12. Phases(n)
  <2>1. CASE pipes
    <3>1. n.queue = <<>>
      BY <1>6, <1>8, <2>1
    <3>2. Heard(n)
      BY <1>4, <1>7, <1>8, <2>1, <3>1 DEF Heard, Listening
    <3> QED BY <1>4, <1>7, <1>8, <2>1, <3>1, <3>2 DEF Phases
  <2>2. CASE ~pipes
    <3>1. n.proc = NoProc /\ n.queue = <<"startError">> /\ n.child.status = <<>>
      BY <1>4, <1>6, <1>7, <1>8, <2>2
    <3>2. \A i \in 1..Len(n.queue) : n.queue[i] = "startError" /\ "startError" \in Posted
      BY <3>1 DEF Posted
    <3>3. Heard(n)
      BY <1>4, <1>8, <3>1, <3>2 DEF Heard, Listening, NoProc, Ominous
    <3> QED BY <3>1, <3>2, <3>3 DEF Phases, NoProc
  <2> QED BY <2>1, <2>2
<1>13. Judged(n)
  <2>1. Read(n) = <<>> /\ n.child.said = <<>> /\ n.child.status = <<>>
    <3>1. SubSeq(<<>>, 1, Len(<<>>) - Len(<<>>)) = <<>>
      OBVIOUS
    <3>2. n.child.said = <<>> /\ n.child.status = <<>>
      BY <1>4, <1>8
    <3> QED BY <3>1, <3>2, Zenon DEF Read
  <2>2. /\ n.act.badPassphrase = FALSE /\ n.act.curError = "Unknown" /\ ~n.act.decryptGood
        /\ ~n.act.signGood /\ n.act.verifyResult = "none"
    BY <1>8 DEF NewAction
  <2>3. \A S : LastOf(<<>>, S) = "none"
    BY DEF LastOf
  <2>4. Recorded(n.act, <<>>)
    <3>1. Unflawed(n.act, <<>>)
      BY <2>2, <2>3 DEF Unflawed
    <3> QED BY <2>2, <2>3, <3>1 DEF Recorded, Signature
  <2>5. <<>> = <<>> \o <<>> /\ Len(<<>>) <= Len(<<>>)
    OBVIOUS
  <2> QED BY <2>1, <2>4, <2>5 DEF Judged
<1>14. Feed(n, b)
  <2> SUFFICES ASSUME n.proc.state # "none" PROVE InOrder(n, b)
    BY <1>10 DEF Feed
  <2>1. pipes
    BY <1>7, <1>8 DEF NoProc
  <2>2. Held(n) = <<>> /\ ~n.proc.pre_close[Input(n)]
    <3>1. n.proc.pre = pre /\ n.proc.pre_close = clo
      BY <1>7, <1>8, <2>1
    <3>2. pre[Input(n)] = <<>> /\ clo[Input(n)] = FALSE
      <4> HIDE DEF Input
      <4> QED BY <1>9 DEF pre, clo
    <3> QED BY <3>1, <3>2 DEF Held
  <2>3. <<>> \o <<>> = Numbers(b.sent)
    BY DEF Numbers
  <2> QED BY <1>10, <2>2, <2>3 DEF InOrder
<1> QED BY <1>8, <1>10, <1>11, <1>12, <1>13, <1>14 DEF Sound, n


------------------------------------------------------------------------------
(* The verdict                                                             *)

LEMMA VerdictEarned ==
  ASSUME NEW x \in Sessions, Phases(x), Judged(x), x.proc.fin_status
  PROVE  /\ verdict(x) \in Outputs
         /\ verdict(x).success => Earned(x, TRUE, verdict(x).verifyResult)
<1> DEFINE a == x.act
           r == x.child.said
           v == verdict(x)
<1>1. a \in Actions /\ r \in Seq(StatusLines) /\ x.child.end \in Ends /\ DOMAIN r = 1..Len(r)
  <2>1. a \in Actions /\ r \in Seq(StatusLines) /\ x.child \in Children
    BY AllFields DEF Fields
  <2> QED BY <2>1 DEF Children
<1>2. x.child.status = <<>> /\ (x.proc.fin_process_success => x.child.end \in Over)
  BY DEF Phases
<1>3. Recorded(a, r)
  <2>1. Recorded(a, Read(x)) /\ r = Read(x) \o <<>>
    BY <1>2 DEF Judged
  <2>2. Read(x) = SubSeq(r, 1, Len(r) - Len(<<>>))
    BY <1>2 DEF Read
  <2>3. SubSeq(r, 1, Len(r) - Len(<<>>)) = r
    BY <1>1
  <2> QED BY <2>1, <2>2, <2>3
<1> DEFINE good == Succeeded(x)
<1>4. /\ x.proc.fin_process_success /\ ~a.badPassphrase /\ a.curError = "Unknown" =>
            v = Output(good, "Unknown", a.verifyResult)
      /\ ~(x.proc.fin_process_success /\ ~a.badPassphrase /\ a.curError = "Unknown") =>
            \E e \in Errors : v = Output(FALSE, e, a.verifyResult)
  <2>1. CASE ~x.proc.fin_process_success
    BY <2>1 DEF verdict, Errors
  <2>2. CASE x.proc.fin_process_success
    <3>1. v = processResult(x)
      BY <2>2 DEF verdict
    <3>2. CASE a.badPassphrase
      <4>1. v = Output(FALSE, "Passphrase", a.verifyResult)
        BY <3>1, <3>2 DEF processResult
      <4>2. "Passphrase" \in Errors
        BY DEF Errors
      <4> QED BY <3>2, <4>1, <4>2
    <3>3. CASE ~a.badPassphrase /\ a.curError # "Unknown"
      <4>1. v = Output(FALSE, a.curError, a.verifyResult)
        BY <3>1, <3>3 DEF processResult
      <4>2. a.curError \in Errors
        BY <1>1 DEF Actions
      <4> QED BY <3>3, <4>1, <4>2
    <3>4. CASE ~a.badPassphrase /\ a.curError = "Unknown"
      <4>1. v = Output(good, "Unknown", a.verifyResult)
        BY <3>1, <3>4 DEF processResult
      <4> QED BY <2>2, <3>4, <4>1
    <3> QED BY <3>2, <3>3, <3>4
  <2> QED BY <2>1, <2>2
<1>5. good \in BOOLEAN /\ a.verifyResult \in Signatures
  BY <1>1 DEF Actions, Succeeded
<1> HIDE DEF v, good
<1>6. v \in Outputs
  <2>1. \A f \in BOOLEAN, e \in Errors : Output(f, e, a.verifyResult) \in Outputs
    BY <1>5 DEF Output, Outputs
  <2>2. "Unknown" \in Errors /\ FALSE \in BOOLEAN
    BY DEF Errors
  <2> QED BY <1>4, <1>5, <2>1, <2>2
<1>7. ASSUME v.success PROVE Earned(x, TRUE, v.verifyResult)
  <2>1. \A f, e : Output(f, e, a.verifyResult).success = f
    BY DEF Output
  <2>2. x.proc.fin_process_success /\ ~a.badPassphrase /\ a.curError = "Unknown"
    BY <1>4, <1>7, <2>1
  <2>3. good /\ v.verifyResult = a.verifyResult
    BY <1>4, <1>7, <2>2 DEF Output
  <2>4. Unflawed(a, r) /\ a.verifyResult = Signature(LastOf(r, Verdicts))
    BY <1>3, <2>2 DEF Recorded
  <2>5. Flawless(r)
    <3>1. LastOf(r, {"GOOD_PASSPHRASE", "BAD_PASSPHRASE"}) # "BAD_PASSPHRASE"
      BY <1>3, <2>2 DEF Recorded
    <3>2. LastOf(r, {"NO_SECKEY", "DECRYPTION_OKAY"}) # "NO_SECKEY"
      BY <2>2, <2>4 DEF Unflawed
    <3>3. \A i \in DOMAIN r : /\ r[i] # "EXPKEYSIG"
                              /\ r[i] = "NODATA" => PassedOver(r, i)
      BY <1>1, <2>2, <2>4 DEF Unflawed
    <3> QED BY <3>1, <3>2, <3>3 DEF Flawless
  <2>6. /\ a.decryptGood => "DECRYPTION_OKAY" \in ToSet(r)
        /\ a.signGood => "SIG_CREATED" \in ToSet(r)
    BY <1>1, <1>3 DEF Recorded, ToSet
  <2>7. /\ a.verifyResult # "none" => LastOf(r, Verdicts) # "none"
        /\ a.verifyResult = "good" => LastOf(r, Verdicts) = "GOODSIG"
    BY <2>4 DEF Signature
  <2>8. x.child.end \in {"ok", "error", "crash"}
    BY <1>2, <2>2 DEF Over
  <2>9. Deserved(x)
    BY <2>3, <2>5, <2>6, <2>7, <2>8 DEF Deserved, good, Succeeded
  <2>10. Listening(x)
    BY DEF Phases, Heard
  <2> QED BY <2>3, <2>7, <2>9, <2>10 DEF Earned
<1> QED BY <1>6, <1>7 DEF v

LEMMA EarnedKept ==
  ASSUME NEW x, NEW n, n.child = x.child, n.act = x.act, NEW f, NEW e, Earned(x, f, e)
  PROVE  Earned(n, f, e)
  BY DEF Earned, Deserved, Listening

------------------------------------------------------------------------------
(* The stack                                                               *)

LEMMA MachineFields ==
  ASSUME NEW s \in Machines
  PROVE  /\ s.g \in Sessions /\ s.op \in OpStates /\ s.ctx \in ContextStates
         /\ s.msg \in MessageStates /\ s.asker \in [Prompts -> {"idle", "asking"}]
         /\ s.app \in AppStates
  BY DEF Machines

LEMMA UpdatedFields ==
  ASSUME NEW s \in Machines
  PROVE  LET u == updated(s) fin == s.ctx.finished w == s.ctx.wrote
             args == IF fin THEN <<>> ELSE s.msg.bytesWrittenArgs
         IN  /\ u \in Machines /\ u.g = s.g /\ u.op = s.op /\ u.asker = s.asker /\ u.app = s.app
             /\ u.ctx.finished = fin /\ u.ctx.wrote = 0
             /\ u.ctx.ok = (IF fin THEN FALSE ELSE s.ctx.ok)
             /\ u.msg.success = (IF fin THEN s.ctx.ok ELSE s.msg.success)
             /\ u.msg.signer = (IF fin /\ s.ctx.ok THEN s.ctx.signer ELSE s.msg.signer)
             /\ u.msg.bytesWrittenArgs = (IF w > 0 THEN Append(args, w) ELSE args)
             /\ u.msg.bytesWrittenTrigger = ((~fin /\ s.msg.bytesWrittenTrigger) \/ w > 0)
             /\ u.msg.finishedTrigger = ((~fin /\ s.msg.finishedTrigger) \/ fin)
<1> DEFINE fin == s.ctx.finished
           w == s.ctx.wrote
           c1 == [s.ctx EXCEPT !.out = FALSE, !.wrote = 0]
           in == s.msg.in \/ s.ctx.out
           m1 == [s.msg EXCEPT !.in = in]
           s1 == [s EXCEPT !.msg.in = @ \/ s.ctx.out, !.ctx.out = FALSE, !.ctx.wrote = 0]
           sg == IF s.ctx.ok THEN s.ctx.signer ELSE s.msg.signer
           er == errorCode(s.ctx.op_err)
           m2 == [m1 EXCEPT !.success = s.ctx.ok, !.errorCode = er, !.signer = sg]
           s2 == [s1 EXCEPT !.msg.success = s.ctx.ok, !.msg.errorCode = er,
                            !.msg.signer = IF s.ctx.ok THEN s.ctx.signer ELSE @]
           c3 == [c1 EXCEPT !.wrote = 0, !.ok = FALSE, !.signer = "none"]
           m3 == [m2 EXCEPT !.bytesWrittenArgs = <<>>, !.readyReadTrigger = FALSE,
                            !.bytesWrittenTrigger = FALSE, !.finishedTrigger = FALSE]
           s3 == IF ~fin THEN s1 ELSE msgReset(s2)
           u == updated(s)
<1>1. /\ s.ctx \in ContextStates /\ s.msg \in MessageStates
      /\ fin \in BOOLEAN /\ w \in Nat /\ s.ctx.ok \in BOOLEAN /\ s.ctx.out \in BOOLEAN
      /\ s.ctx.signer \in Signatures /\ s.ctx.op_err \in Errors
      /\ s.msg.signer \in Signatures /\ s.msg.in \in BOOLEAN
      /\ s.msg.bytesWrittenArgs \in Seq(Nat)
  <2>1. s.ctx \in ContextStates /\ s.msg \in MessageStates
    BY MachineFields
  <2> QED BY <2>1 DEF ContextStates, MessageStates
<1>2. in \in BOOLEAN /\ sg \in Signatures /\ er \in Errors \ {"Process", "DecryptNoKey"}
  BY <1>1 DEF errorCode, Errors
<1>3. s1 = [s EXCEPT !.ctx = c1, !.msg = m1]
  BY <1>1 DEF Machines, ContextStates, MessageStates
<1>4. c1 \in ContextStates /\ c1.finished = fin /\ c1.wrote = 0 /\ c1.ok = s.ctx.ok
  BY <1>1 DEF ContextStates
<1> HIDE DEF in, sg, er
<1>5. m1 \in MessageStates /\ m1.success = s.msg.success /\ m1.signer = s.msg.signer
      /\ m1.bytesWrittenArgs = s.msg.bytesWrittenArgs
      /\ m1.bytesWrittenTrigger = s.msg.bytesWrittenTrigger
      /\ m1.finishedTrigger = s.msg.finishedTrigger
  BY <1>1, <1>2 DEF MessageStates
<1> HIDE DEF c1, m1, s1
<1>6. s1 \in Machines /\ s1.ctx = c1 /\ s1.msg = m1 /\ s1.g = s.g /\ s1.op = s.op
      /\ s1.asker = s.asker /\ s1.app = s.app
  BY <1>3, <1>4, <1>5 DEF Machines
<1>7. s2 = [s1 EXCEPT !.ctx = c1, !.msg = m2]
  <2>1. sg = IF s.ctx.ok THEN s.ctx.signer ELSE m1.signer
    BY <1>5 DEF sg
  <2> QED BY <1>6, <2>1 DEF Machines
<1>8. m2 \in MessageStates /\ m2.success = s.ctx.ok /\ m2.signer = sg
  BY <1>1, <1>2, <1>5 DEF MessageStates
<1> HIDE DEF m2, s2
<1>9. s2 \in Machines /\ s2.ctx = c1 /\ s2.msg = m2 /\ s2.g = s.g /\ s2.op = s.op
      /\ s2.asker = s.asker /\ s2.app = s.app
  BY <1>4, <1>6, <1>7, <1>8 DEF Machines
<1>10. msgReset(s2) = [s2 EXCEPT !.ctx = c3, !.msg = m3]
  BY <1>9 DEF msgReset
<1>11. c3 \in ContextStates /\ c3.finished = fin /\ c3.wrote = 0 /\ c3.ok = FALSE
  BY <1>4 DEF ContextStates, Signatures
<1>12. m3 \in MessageStates /\ m3.success = s.ctx.ok /\ m3.signer = sg /\ m3.bytesWrittenArgs = <<>>
       /\ m3.bytesWrittenTrigger = FALSE /\ m3.finishedTrigger = FALSE
  <2>1. <<>> \in Seq(Nat)
    OBVIOUS
  <2>2. m3 \in MessageStates
    BY <1>8, <2>1 DEF MessageStates
  <2> QED BY <1>8, <2>2 DEF MessageStates
<1> HIDE DEF c3, m3
<1> DEFINE c4 == IF fin THEN c3 ELSE c1
           m4 == IF fin THEN m3 ELSE m1
<1>13. s3 \in Machines /\ s3.ctx = c4 /\ s3.msg = m4 /\ s3.g = s.g /\ s3.op = s.op
       /\ s3.asker = s.asker /\ s3.app = s.app
  <2>1. CASE ~fin
    BY <1>6, <2>1
  <2>2. CASE fin
    <3> DEFINE z == msgReset(s2)
    <3>1. z = [s2 EXCEPT !.ctx = c3, !.msg = m3]
      BY <1>10
    <3> HIDE DEF z
    <3>2. z \in Machines /\ z.ctx = c3 /\ z.msg = m3 /\ z.g = s2.g /\ z.op = s2.op
          /\ z.asker = s2.asker /\ z.app = s2.app
      BY <1>9, <1>11, <1>12, <3>1 DEF Machines
    <3> QED BY <1>9, <2>2, <3>2 DEF z
  <2> QED BY <2>1, <2>2
<1>14. c4 \in ContextStates /\ c4.finished = fin /\ c4.wrote = 0
       /\ c4.ok = (IF fin THEN FALSE ELSE s.ctx.ok)
  BY <1>4, <1>11
<1>15. m4 \in MessageStates /\ m4.success = (IF fin THEN s.ctx.ok ELSE s.msg.success)
       /\ m4.signer = (IF fin /\ s.ctx.ok THEN s.ctx.signer ELSE s.msg.signer)
       /\ m4.bytesWrittenArgs = (IF fin THEN <<>> ELSE s.msg.bytesWrittenArgs)
       /\ m4.bytesWrittenTrigger = (~fin /\ s.msg.bytesWrittenTrigger)
       /\ m4.finishedTrigger = (~fin /\ s.msg.finishedTrigger)
  <2>1. s.msg.bytesWrittenTrigger \in BOOLEAN /\ s.msg.finishedTrigger \in BOOLEAN
    BY <1>1 DEF MessageStates
  <2>2. CASE fin
    BY <1>12, <2>2 DEF sg
  <2>3. CASE ~fin
    BY <1>5, <2>1, <2>3
  <2> QED BY <2>2, <2>3
<1> HIDE DEF s3, c4, m4
<1> DEFINE rr == m4.readyReadTrigger \/ s.ctx.out
           ar == IF w > 0 THEN Append(m4.bytesWrittenArgs, w) ELSE m4.bytesWrittenArgs
           bt == m4.bytesWrittenTrigger \/ w > 0
           ft == m4.finishedTrigger \/ fin
           m5 == [m4 EXCEPT !.readyReadTrigger = rr, !.bytesWrittenArgs = ar,
                            !.bytesWrittenTrigger = bt, !.finishedTrigger = ft]
<1>16. u = [s3 EXCEPT !.ctx = c4, !.msg = m5]
  <2>1. u = [s3 EXCEPT !.msg.readyReadTrigger = @ \/ s.ctx.out,
                     !.msg.bytesWrittenArgs = IF w > 0 THEN Append(@, w) ELSE @,
                     !.msg.bytesWrittenTrigger = @ \/ w > 0,
                     !.msg.finishedTrigger = @ \/ fin]
    BY DEF updated, s3, s2, s1, er
  <2>2. m5 = [s3.msg EXCEPT !.readyReadTrigger = rr, !.bytesWrittenArgs = ar,
                            !.bytesWrittenTrigger = bt, !.finishedTrigger = ft]
    BY <1>13
  <2>3. u = [s3 EXCEPT !.msg = m5]
    BY <1>13, <1>15, <2>1, <2>2, ZenonT(40) DEF Machines, MessageStates
  <2> HIDE DEF m5, u
  <2> QED BY <1>13, <2>3 DEF Machines
<1>17. rr \in BOOLEAN /\ ar \in Seq(Nat) /\ bt \in BOOLEAN /\ ft \in BOOLEAN
  BY <1>1, <1>15 DEF MessageStates
<1> HIDE DEF rr, ar, bt, ft, u
<1>18. m5 \in MessageStates /\ m5.success = m4.success /\ m5.signer = m4.signer
       /\ m5.bytesWrittenArgs = ar /\ m5.bytesWrittenTrigger = bt /\ m5.finishedTrigger = ft
  BY <1>15, <1>17 DEF MessageStates
<1> HIDE DEF m5
<1>19. u \in Machines /\ u.ctx = c4 /\ u.msg = m5 /\ u.g = s.g /\ u.op = s.op
       /\ u.asker = s.asker /\ u.app = s.app
  BY <1>13, <1>14, <1>16, <1>18 DEF Machines
<1>20. bt = ((~fin /\ s.msg.bytesWrittenTrigger) \/ w > 0) /\ ft = ((~fin /\ s.msg.finishedTrigger) \/ fin)
  BY <1>15 DEF bt, ft
<1>21. ar = (IF w > 0 THEN Append(IF fin THEN <<>> ELSE s.msg.bytesWrittenArgs, w)
             ELSE IF fin THEN <<>> ELSE s.msg.bytesWrittenArgs)
  BY <1>15 DEF ar
<1> QED BY <1>14, <1>15, <1>18, <1>19, <1>20, <1>21 DEF u


LEMMA CountFields ==
  ASSUME NEW s \in Machines
  PROVE  /\ s.app.reported \in Nat /\ s.ctx.wrote \in Nat /\ s.msg.bytesWrittenArgs \in Seq(Nat)
         /\ Total(s.msg.bytesWrittenArgs) \in Nat /\ Pending(s.g) \in Nat
         /\ Data(s.g) \in Seq(Nat) /\ Len(Data(s.g)) \in Nat
<1>1. s.g \in Sessions /\ s.ctx \in ContextStates /\ s.msg \in MessageStates /\ s.app \in AppStates
  BY MachineFields
<1>2. s.app.reported \in Nat /\ s.ctx.wrote \in Nat /\ s.msg.bytesWrittenArgs \in Seq(Nat)
  BY <1>1 DEF ContextStates, MessageStates, AppStates
<1>3. Total(s.msg.bytesWrittenArgs) \in Nat
  BY <1>2, TotalNat
<1>4. s.g.queue \in Seq(Events) /\ Data(s.g) \in Seq(Nat)
  BY <1>1, AllFields DEF Fields
<1>5. Pending(s.g) \in Nat
  BY <1>4, NotesFacts DEF Pending
<1> QED BY <1>2, <1>3, <1>4, <1>5

LEMMA UpdatedCounted ==
  ASSUME NEW s \in Machines, Counted(s)
  PROVE  Counted(updated(s))
<1> DEFINE u == updated(s)
           fin == s.ctx.finished
           w == s.ctx.wrote
           args == IF fin THEN <<>> ELSE s.msg.bytesWrittenArgs
           ar == IF w > 0 THEN Append(args, w) ELSE args
<1>1. u.g = s.g /\ u.app = s.app /\ u.ctx.wrote = 0 /\ u.msg.bytesWrittenArgs = ar
      /\ u.msg.bytesWrittenTrigger = ((~fin /\ s.msg.bytesWrittenTrigger) \/ w > 0)
  BY UpdatedFields
<1>2. /\ s.app.reported \in Nat /\ w \in Nat /\ s.msg.bytesWrittenArgs \in Seq(Nat)
      /\ Total(s.msg.bytesWrittenArgs) \in Nat /\ Pending(s.g) \in Nat /\ Len(Data(s.g)) \in Nat
  BY CountFields
<1>3. s.app.reported + Total(s.msg.bytesWrittenArgs) + w + Pending(s.g) <= Len(Data(s.g))
      /\ (s.msg.bytesWrittenTrigger => s.msg.bytesWrittenArgs # <<>>)
  BY DEF Counted
<1> HIDE DEF u
<1>4. args \in Seq(Int) /\ Total(args) \in Nat /\ Total(args) <= Total(s.msg.bytesWrittenArgs)
  <2>1. <<>> \in Seq(Int) /\ 0 \in Int /\ s.msg.bytesWrittenArgs \in Seq(Int)
    BY <1>2
  <2>2. Total(<<>>) = 0
    BY <2>1, TotalAppend
  <2>3. CASE fin
    BY <1>2, <2>1, <2>2, <2>3
  <2>4. CASE ~fin
    BY <1>2, <2>1, <2>4
  <2> QED BY <2>3, <2>4
<1> HIDE DEF args, w
<1>5. Total(ar) = Total(args) + w
  <2>1. CASE w > 0
    <3>1. w \in Int
      BY <1>2
    <3>2. Total(Append(args, w)) = Total(args) + w
      BY <1>4, <3>1, TotalAppend
    <3> QED BY <2>1, <3>2
  <2>2. CASE ~(w > 0)
    <3>1. w = 0
      BY <1>2, <2>2
    <3>2. ar = args
      BY <2>2
    <3> HIDE DEF ar
    <3> QED BY <1>4, <3>1, <3>2
  <2> QED BY <2>1, <2>2
<1>6. u.msg.bytesWrittenTrigger => ar # <<>>
  <2>1. ASSUME w > 0 PROVE ar # <<>>
    <3>1. w \in Int /\ ar = Append(args, w)
      BY <1>2, <2>1
    <3>2. Append(args, w) # <<>>
      BY <1>4, <3>1
    <3> QED BY <3>1, <3>2
  <2>2. ~fin /\ ~(w > 0) => ar = s.msg.bytesWrittenArgs
    BY DEF args
  <2> HIDE DEF ar
  <2> QED BY <1>1, <1>3, <2>1, <2>2
<1> HIDE DEF ar
<1>7. s.app.reported + Total(ar) + 0 + Pending(s.g) <= Len(Data(s.g))
  BY <1>2, <1>3, <1>4, <1>5
<1> QED BY <1>1, <1>6, <1>7 DEF Counted, u

(* updated() of an operation that is over *)
LEMMA UpdatedEnd ==
  ASSUME NEW s \in Machines, s.ctx.finished, ~s.op.act, s.g.proc = NoProc, s.g.queue = <<>>,
         s.op.events = <<>>, s.op.output.success => Earned(s.g, TRUE, s.op.output.verifyResult),
         s.ctx.ok => Earned(s.g, TRUE, s.ctx.signer), Earned(s.g, FALSE, s.msg.signer),
         Counted(s), s.app.told = 0 \/ s.app.late
  PROVE  updated(s) \in Machines /\ Good(updated(s))
<1> DEFINE u == updated(s)
<1>1. /\ u \in Machines /\ u.g = s.g /\ u.op = s.op /\ u.app = s.app /\ u.ctx.ok = FALSE
      /\ u.msg.success = s.ctx.ok
      /\ u.msg.signer = (IF s.ctx.ok THEN s.ctx.signer ELSE s.msg.signer)
  BY UpdatedFields
<1>2. Counted(u)
  BY UpdatedCounted
<1> HIDE DEF u
<1>3. Earned(u.g, u.msg.success, u.msg.signer)
  <2>1. CASE s.ctx.ok
    BY <1>1, <2>1 DEF Earned
  <2>2. CASE ~s.ctx.ok
    BY <1>1, <2>2 DEF Earned
  <2> QED BY <2>1, <2>2
<1>4. Ended(u)
  <2>1. u.app.late \/ u.app.told = 0
    BY <1>1
  <2> QED BY <1>1, <1>3, <2>1 DEF Ended
<1> QED BY <1>1, <1>2, <1>4 DEF Good, Rest, u

(* updated() while the operation runs *)
LEMMA UpdatedBusy ==
  ASSUME NEW s \in Machines, Good(s), s.op.act
  PROVE  updated(s) \in Machines /\ Good(updated(s))
<1> DEFINE u == updated(s)
<1>1. ~s.ctx.finished /\ Busy(s)
  BY DEF Good, Busy, Calm
<1>2. /\ u \in Machines /\ u.g = s.g /\ u.op = s.op /\ u.app = s.app /\ u.ctx.finished = s.ctx.finished
      /\ u.ctx.ok = s.ctx.ok /\ u.msg.success = s.msg.success /\ u.msg.signer = s.msg.signer
      /\ u.msg.finishedTrigger = s.msg.finishedTrigger
  <2>1. s.msg.finishedTrigger \in BOOLEAN
    BY MachineFields DEF MessageStates
  <2> QED BY <1>1, <2>1, UpdatedFields
<1>3. Counted(u)
  BY UpdatedCounted DEF Good, Rest
<1> HIDE DEF u
<1>4. Busy(u)
  BY <1>1, <1>2 DEF Busy, Calm
<1> QED BY <1>2, <1>3, <1>4 DEF Good, Rest, u

------------------------------------------------------------------------------
(* The end of the action                                                   *)

Stopped(s, o) ==
    [s EXCEPT !.g = [s.g EXCEPT !.proc = NoProc, !.queue = <<>>],
              !.op = [s.op EXCEPT !.act = FALSE, !.output = o,
                                  !.result = s.g.child.output /\ ~useAux(s.g)]]

LEMMA StoppedFields ==
  ASSUME NEW s \in Machines, NEW o \in Outputs
  PROVE  LET n == Stopped(s, o)
         IN  /\ n \in Machines /\ n.ctx = s.ctx /\ n.msg = s.msg /\ n.app = s.app /\ n.asker = s.asker
             /\ n.g.proc = NoProc /\ n.g.queue = <<>> /\ n.g.child = s.g.child /\ n.g.act = s.g.act
             /\ n.op.act = FALSE /\ n.op.output = o /\ n.op.events = s.op.events
             /\ Data(n.g) = Data(s.g) /\ Pending(n.g) = 0
<1> DEFINE n == Stopped(s, o)
           x == [s.g EXCEPT !.proc = NoProc, !.queue = <<>>]
           res == s.g.child.output /\ ~useAux(s.g)
           p == [s.op EXCEPT !.act = FALSE, !.output = o, !.result = res]
<1>1. n = [s EXCEPT !.g = x, !.op = p]
  BY DEF Stopped
<1>2. s.g \in Sessions /\ s.op \in OpStates /\ res \in BOOLEAN
  <2>1. s.g \in Sessions /\ s.op \in OpStates
    BY MachineFields
  <2>2. s.g.child.output \in BOOLEAN
    BY <2>1, SessionFields DEF Children
  <2> QED BY <2>1, <2>2
<1>3. x \in Sessions /\ x.proc = NoProc /\ x.queue = <<>> /\ x.child = s.g.child /\ x.act = s.g.act
  <2>1. NoProc \in Procs
    BY DEF NoProc, Procs
  <2>2. <<>> \in Seq(Events)
    OBVIOUS
  <2> HIDE DEF res
  <2> QED BY <1>2, <2>1, <2>2 DEF Sessions
<1> HIDE DEF res
<1>4. p \in OpStates /\ p.act = FALSE /\ p.output = o /\ p.events = s.op.events
  BY <1>2 DEF OpStates
<1> HIDE DEF x, p, n
<1>5. /\ n \in Machines /\ n.ctx = s.ctx /\ n.msg = s.msg /\ n.app = s.app /\ n.asker = s.asker
      /\ n.g = x /\ n.op = p
  BY <1>1, <1>3, <1>4 DEF Machines
<1>6. Data(n.g) = Data(s.g)
  BY <1>3, <1>5 DEF Data, Input, useAux
<1>7. Pending(n.g) = 0
  <2>1. <<>> \in Seq(Events)
    OBVIOUS
  <2> QED BY <1>3, <1>5, <2>1, NotesFacts DEF Pending
<1> QED BY <1>3, <1>4, <1>5, <1>6, <1>7 DEF n


LEMMA StoppedCounted ==
  ASSUME NEW s \in Machines, NEW n \in Machines, Counted(s), n.ctx.wrote = s.ctx.wrote,
         n.msg = s.msg, n.app.reported = s.app.reported, Data(n.g) = Data(s.g), Pending(n.g) = 0
  PROVE  Counted(n)
<1>1. /\ s.app.reported \in Nat /\ s.ctx.wrote \in Nat
      /\ Total(s.msg.bytesWrittenArgs) \in Nat /\ Pending(s.g) \in Nat /\ Len(Data(s.g)) \in Nat
  BY CountFields
<1>2. s.app.reported + Total(s.msg.bytesWrittenArgs) + s.ctx.wrote + Pending(s.g) <= Len(Data(s.g))
      /\ (s.msg.bytesWrittenTrigger => s.msg.bytesWrittenArgs # <<>>)
  BY DEF Counted
<1>3. s.app.reported + Total(s.msg.bytesWrittenArgs) + s.ctx.wrote + 0 <= Len(Data(s.g))
  BY <1>1, <1>2
<1> QED BY <1>2, <1>3 DEF Counted

(* complete() *)
LEMMA CompleteFields ==
  ASSUME NEW s \in Machines
  PROVE  LET n == complete(s)
         IN  /\ n \in Machines /\ n.msg = s.msg /\ n.app = s.app /\ n.g = s.g /\ n.asker = s.asker
             /\ n.op.act = s.op.act /\ n.op.output = s.op.output /\ n.op.events = s.op.events
             /\ n.ctx.finished = TRUE /\ n.ctx.ok = s.op.output.success /\ n.ctx.wrote = s.ctx.wrote
             /\ n.ctx.ok => n.ctx.signer = s.op.output.verifyResult
<1> DEFINE o == s.op.output
           ou == IF o.success THEN s.op.result ELSE s.ctx.out
           re == IF o.success THEN FALSE ELSE s.op.result
           si == IF o.success THEN o.verifyResult ELSE s.ctx.signer
           er == IF o.success THEN s.ctx.op_err ELSE o.errorCode
           c == [s.ctx EXCEPT !.finished = TRUE, !.ok = o.success, !.out = ou, !.signer = si,
                              !.op_err = er]
           p == [s.op EXCEPT !.result = re]
           n == complete(s)
<1>1. s.op \in OpStates /\ s.ctx \in ContextStates /\ o \in Outputs
  BY MachineFields DEF OpStates
<1>2. n = [s EXCEPT !.ctx = c, !.op = p]
  BY <1>1 DEF complete, Machines, ContextStates, OpStates
<1>3. /\ o.success \in BOOLEAN /\ ou \in BOOLEAN /\ re \in BOOLEAN /\ si \in Signatures
      /\ er \in Errors
  <2>1. o.success \in BOOLEAN /\ o.verifyResult \in Signatures /\ o.errorCode \in Errors
    BY <1>1 DEF Outputs
  <2>2. s.ctx.out \in BOOLEAN /\ s.ctx.signer \in Signatures /\ s.ctx.op_err \in Errors
        /\ s.op.result \in BOOLEAN
    BY <1>1 DEF ContextStates, OpStates
  <2> QED BY <2>1, <2>2
<1>4. o.success => si = o.verifyResult
  OBVIOUS
<1> HIDE DEF ou, re, si, er, n, o
<1>5. c \in ContextStates /\ c.finished = TRUE /\ c.ok = o.success /\ c.wrote = s.ctx.wrote
      /\ c.signer = si
  BY <1>1, <1>3 DEF ContextStates
<1>6. p \in OpStates /\ p.act = s.op.act /\ p.output = s.op.output /\ p.events = s.op.events
  BY <1>1, <1>3 DEF OpStates
<1> HIDE DEF c, p
<1>7. n \in Machines /\ n.msg = s.msg /\ n.app = s.app /\ n.g = s.g /\ n.asker = s.asker
      /\ n.ctx = c /\ n.op = p
  BY <1>2, <1>5, <1>6 DEF Machines
<1> QED BY <1>4, <1>5, <1>6, <1>7 DEF n, o

(* act_finished() *)
LEMMA FinishGood ==
  ASSUME NEW s \in Machines, s.app.mode = app.mode, Running, NEW o \in Outputs,
         o.success => Earned(s.g, TRUE, o.verifyResult), Listening(s.g), Calm(s), Rest(s)
  PROVE  act_finished(s, o) \in Machines /\ Good(act_finished(s, o))
<1> DEFINE e == Stopped(s, o)
           n == act_finished(s, o)
<1>1. n = IF Waiting THEN [e EXCEPT !.op.events = Append(@, "finished")] ELSE updated(complete(e))
  <2> DEFINE d == [s EXCEPT !.g.proc = NoProc, !.g.queue = <<>>,
                            !.op = [@ EXCEPT !.act = FALSE, !.output = o,
                                             !.result = s.g.child.output /\ ~useAux(s.g)]]
  <2>1. d = e
    BY MachineFields DEF Stopped, Machines, Sessions
  <2>2. n = IF Waiting THEN [d EXCEPT !.op.events = Append(@, "finished")] ELSE updated(complete(d))
    BY DEF act_finished
  <2> HIDE DEF d, e, n
  <2> QED BY <2>1, <2>2
<1>2. /\ e \in Machines /\ e.ctx = s.ctx /\ e.msg = s.msg /\ e.app = s.app /\ e.asker = s.asker
      /\ e.g.proc = NoProc /\ e.g.queue = <<>> /\ e.g.child = s.g.child /\ e.g.act = s.g.act
      /\ e.op.act = FALSE /\ e.op.output = o /\ e.op.events = s.op.events
      /\ Data(e.g) = Data(s.g) /\ Pending(e.g) = 0
  BY StoppedFields
<1> HIDE DEF e, n
<1>3. o.success => Earned(e.g, TRUE, o.verifyResult)
  BY <1>2, EarnedKept
<1>4. Earned(e.g, FALSE, s.msg.signer) /\ Earned(e.g, s.msg.success, s.msg.signer)
  BY <1>2 DEF Earned, Listening, Calm
<1>5. Counted(s)
  BY DEF Rest
<1>6. CASE Waiting
  <2> DEFINE q == Append(e.op.events, "finished")
             p == [e.op EXCEPT !.events = q]
  <2>1. n = [e EXCEPT !.op = p]
    BY <1>1, <1>6
  <2>2. e.op \in OpStates /\ e.op.events \in Seq(Prompts \cup {"finished"})
    BY <1>2, MachineFields DEF OpStates
  <2>3. q \in Seq(Prompts \cup {"finished"}) /\ EndsIn(q)
    <3>1. NoEnd(e.op.events)
      BY <1>2 DEF Calm
    <3>2. q \in Seq(Prompts \cup {"finished"}) /\ Len(q) = Len(e.op.events) + 1 /\ q # <<>>
          /\ q[Len(q)] = "finished" /\ Len(q) - 1 = Len(e.op.events)
          /\ \A i \in 1..Len(e.op.events) : q[i] = e.op.events[i]
      BY <2>2
    <3> QED BY <3>1, <3>2 DEF EndsIn, NoEnd
  <2> HIDE DEF q
  <2>4. p \in OpStates /\ p.act = FALSE /\ p.output = o /\ p.events = q
    BY <1>2, <2>2, <2>3 DEF OpStates
  <2> HIDE DEF p
  <2>5. n \in Machines /\ n.ctx = e.ctx /\ n.msg = e.msg /\ n.app = e.app /\ n.g = e.g /\ n.op = p
    BY <1>2, <2>1, <2>4 DEF Machines
  <2>6. Counted(n)
    BY <1>2, <1>5, <2>5, StoppedCounted
  <2>7. n.app.told = 0 /\ ~n.msg.finishedTrigger /\ n.app.mode = "waiting" /\ ~n.ctx.ok
    BY <1>2, <1>6, <2>5 DEF Calm, Rest, Waiting
  <2>8. Ended(n)
    BY <1>2, <1>3, <1>4, <2>3, <2>4, <2>5, <2>7 DEF Ended
  <2>9. Good(n)
    BY <2>4, <2>5, <2>6, <2>7, <2>8 DEF Good, Rest
  <2> QED BY <2>5, <2>9 DEF n
<1>7. CASE ~Waiting
  <2> DEFINE c == complete(e)
  <2>1. /\ c \in Machines /\ c.msg = e.msg /\ c.app = e.app /\ c.g = e.g
        /\ c.op.act = e.op.act /\ c.op.output = e.op.output /\ c.op.events = e.op.events
        /\ c.ctx.finished = TRUE /\ c.ctx.ok = e.op.output.success /\ c.ctx.wrote = e.ctx.wrote
        /\ c.ctx.ok => c.ctx.signer = e.op.output.verifyResult
    BY <1>2, CompleteFields
  <2>2. n = updated(c)
    BY <1>1, <1>7
  <2> HIDE DEF c
  <2>3. Counted(c)
    BY <1>2, <1>5, <2>1, StoppedCounted
  <2>4. c.op.events = <<>>
    <3>1. s.app.mode \in {"calls", "waiting", "dead"}
      BY MachineFields DEF AppStates
    <3> QED BY <1>2, <1>7, <2>1, <3>1 DEF Rest, Waiting, Running
  <2>5. c.app.told = 0
    BY <1>2, <2>1 DEF Calm
  <2>6. c.ctx.ok => Earned(c.g, TRUE, c.ctx.signer)
    BY <1>2, <1>3, <2>1
  <2>7. c.op.output.success => Earned(c.g, TRUE, c.op.output.verifyResult)
    BY <1>2, <1>3, <2>1
  <2>8. Earned(c.g, FALSE, c.msg.signer)
    BY <1>2, <1>4, <2>1
  <2>9. c.ctx.finished /\ ~c.op.act /\ c.g.proc = NoProc /\ c.g.queue = <<>>
    BY <1>2, <2>1
  <2>10. updated(c) \in Machines /\ Good(updated(c))
    BY <2>1, <2>3, <2>4, <2>5, <2>6, <2>7, <2>8, <2>9, UpdatedEnd
  <2> QED BY <2>2, <2>10 DEF n
<1> QED BY <1>6, <1>7


(* Progress of the session under an action *)
Under(s) == s \in Machines /\ s.app.mode = app.mode /\ Running /\ s.op.act /\ Calm(s) /\ Rest(s)

LEMMA UnderGood ==
  ASSUME NEW s, Under(s), Sound(s.g, s.app)
  PROVE  s \in Machines /\ Good(s)
  BY DEF Under, Good, Busy

LEMMA SessionStep ==
  ASSUME NEW s, Under(s), NEW x \in Sessions,
         \/ Pending(x) + Len(Data(s.g)) = Pending(s.g) + Len(Data(x))
         \/ Pending(x) = Pending(s.g) /\ Len(Data(x)) = Len(Data(s.g))
         \/ Pending(s.g) = 1 + Pending(x) /\ Len(Data(x)) = Len(Data(s.g))
  PROVE  LET n == [s EXCEPT !.g = x]
         IN  Under(n) /\ n.g = x /\ n.app = s.app
<1> DEFINE n == [s EXCEPT !.g = x]
<1>1. s \in Machines
  BY DEF Under
<1>2. /\ n \in Machines /\ n.g = x /\ n.app = s.app /\ n.op = s.op /\ n.ctx = s.ctx
      /\ n.msg = s.msg
  BY <1>1 DEF Machines
<1> HIDE DEF n
<1>3. /\ s.app.reported \in Nat /\ s.ctx.wrote \in Nat
      /\ Total(s.msg.bytesWrittenArgs) \in Nat /\ Pending(s.g) \in Nat /\ Len(Data(s.g)) \in Nat
  BY <1>1, CountFields
<1>4. Pending(x) \in Nat /\ Len(Data(x)) \in Nat
  BY <1>2, CountFields
<1>5. s.app.reported + Total(s.msg.bytesWrittenArgs) + s.ctx.wrote + Pending(s.g) <= Len(Data(s.g))
      /\ (s.msg.bytesWrittenTrigger => s.msg.bytesWrittenArgs # <<>>)
  BY DEF Under, Rest, Counted
<1>6. s.app.reported + Total(s.msg.bytesWrittenArgs) + s.ctx.wrote + Pending(x) <= Len(Data(x))
  BY <1>3, <1>4, <1>5, SMTT(30)
<1>7. Counted(n)
  BY <1>2, <1>5, <1>6 DEF Counted
<1>8. Calm(n) /\ Rest(n)
  BY <1>2, <1>7 DEF Under, Calm, Rest
<1> QED BY <1>2, <1>8 DEF Under, n

LEMMA ResetForgotten ==
  ASSUME NEW s \in Machines, NEW o
  PROVE  act_finished([s EXCEPT !.g = reset(s.g)], o) = act_finished(s, o)
<1> DEFINE y == [s EXCEPT !.g = reset(s.g)]
           d(z) == [z EXCEPT !.g.proc = NoProc, !.g.queue = <<>>,
                             !.op = [@ EXCEPT !.act = FALSE, !.output = o,
                                              !.result = z.g.child.output /\ ~useAux(z.g)]]
<1>1. \A z : act_finished(z, o) = IF Waiting THEN [d(z) EXCEPT !.op.events = Append(@, "finished")]
                                  ELSE updated(complete(d(z)))
  BY DEF act_finished
<1>2. d(y) = d(s)
  <2>1. s.g \in Sessions
    BY MachineFields
  <2> DEFINE r == reset(s.g)
  <2>2. r.child = s.g.child /\ r.act = s.g.act
        /\ [r EXCEPT !.proc = NoProc, !.queue = <<>>] = [s.g EXCEPT !.proc = NoProc, !.queue = <<>>]
    BY <2>1 DEF reset, Sessions
  <2>3. y.g = r /\ y.op = s.op /\ y = [s EXCEPT !.g = r]
    BY DEF Machines
  <2>4. useAux(r) = useAux(s.g)
    BY <2>2 DEF useAux
  <2> HIDE DEF r, y
  <2> DEFINE w == [s.g EXCEPT !.proc = NoProc, !.queue = <<>>]
             res == s.g.child.output /\ ~useAux(s.g)
             p == [s.op EXCEPT !.act = FALSE, !.output = o, !.result = res]
  <2>5. d(s) = [s EXCEPT !.g = w, !.op = p]
    BY DEF Machines
  <2>6. d(y) = [y EXCEPT !.g = [r EXCEPT !.proc = NoProc, !.queue = <<>>],
                         !.op = [s.op EXCEPT !.act = FALSE, !.output = o,
                                             !.result = r.child.output /\ ~useAux(r)]]
    BY <2>3 DEF Machines
  <2>7. (r.child.output /\ ~useAux(r)) = res
    BY <2>2, <2>4
  <2>8. d(y) = [y EXCEPT !.g = w, !.op = p]
    BY <2>2, <2>6, <2>7
  <2> HIDE DEF w, p, d
  <2> QED BY <2>3, <2>5, <2>8 DEF Machines
<1> HIDE DEF d, y
<1>3. act_finished(y, o) = act_finished(s, o)
  BY <1>1, <1>2
<1> QED BY <1>3 DEF y

(* doTryDone() *)
LEMMA DoneGood ==
  ASSUME NEW s, Under(s), Sound(s.g, s.app)
  PROVE  doTryDone(s) \in Machines /\ Good(doTryDone(s))
<1>1. s \in Machines /\ s.g \in Sessions /\ Phases(s.g) /\ Judged(s.g)
  BY MachineFields DEF Under, Sound
<1>2. CASE ~CanBeDone(s.g)
  <2>1. doTryDone(s) = s
    BY <1>2 DEF doTryDone
  <2> QED BY <2>1, UnderGood
<1>3. CASE CanBeDone(s.g)
  <2> DEFINE o == verdict(s.g)
  <2>1. s.g.proc.fin_process /\ s.g.proc.fin_status
    <3>1. s.g.proc.fin_process /\ (s.g.proc.need_status => s.g.proc.fin_status)
      BY <1>3 DEF CanBeDone
    <3>2. s.g.proc.state # "none"
      BY <1>1, <3>1 DEF Phases, NoProc
    <3> QED BY <1>1, <3>1, <3>2 DEF Phases
  <2>2. o \in Outputs /\ (o.success => Earned(s.g, TRUE, o.verifyResult))
    BY <1>1, <2>1, VerdictEarned
  <2>3. doTryDone(s) = act_finished([s EXCEPT !.g = reset(s.g)], o)
    BY <1>3 DEF doTryDone
  <2> HIDE DEF o
  <2>4. doTryDone(s) = act_finished(s, o)
    BY <1>1, <2>3, ResetForgotten
  <2>5. act_finished(s, o) \in Machines /\ Good(act_finished(s, o))
    BY <1>1, <2>2, FinishGood DEF Under, Phases, Heard
  <2> QED BY <2>4, <2>5
<1> QED BY <1>2, <1>3

(* The flags of GPGProc *)
LEMMA FlagSession ==
  ASSUME NEW x \in Sessions, NEW a, Sound(x, a), x.proc.state # "none",
         NEW c \in Procs, c.state = x.proc.state, c.startTrigger = x.proc.startTrigger,
         c.pre = x.proc.pre, c.pre_close = x.proc.pre_close, c.need_status = x.proc.need_status,
         c.fin_process_success => x.child.end \in Over,
         c.fin_status => x.proc.fin_status
                         \/ (~x.proc.startTrigger /\ (x.proc.state = "Running" => x.child.deaf))
  PROVE  LET n == [x EXCEPT !.proc = c]
         IN  /\ n \in Sessions /\ n.proc = c /\ n.child = x.child /\ n.act = x.act
             /\ Feed(n, a) /\ Judged(n) /\ Pending(n) = Pending(x) /\ Len(Data(n)) = Len(Data(x))
             /\ (c.fin_status => x.child.status = <<>>) => Sound(n, a)
             /\ Phases(Emptied(n))
<1> DEFINE n == [x EXCEPT !.proc = c]
           y == Emptied(n)
<1>1. n \in Sessions /\ n.proc = c /\ n.child = x.child /\ n.act = x.act /\ n.queue = x.queue
  BY DEF Sessions
<1> HIDE DEF n
<1>2. Feed(x, a) /\ Phases(x) /\ Judged(x)
  BY DEF Sound
<1>3. SameFeed(x, n)
  BY <1>1 DEF SameFeed, Data, Held, Input, useAux, Started
<1>4. Feed(n, a)
  BY <1>2, <1>3, FeedKept
<1>5. Judged(n)
  BY <1>1, <1>2, JudgedKept
<1>6. Pending(n) = Pending(x) /\ Data(n) = Data(x)
  BY <1>1 DEF Pending, Note, useAux, Data, Input
<1>7. /\ y.proc = c /\ y.queue = x.queue /\ y.child.status = <<>> /\ y.child.end = x.child.end
      /\ y.child.unheard = x.child.unheard /\ y.child.deaf = x.child.deaf
  BY <1>1, EmptiedFields
<1> HIDE DEF y
<1>8. c.need_status
  BY <1>2 DEF Phases
<1>h. Heard(x)
  BY <1>2 DEF Phases
<1>i. Heard(y)
  BY <1>7, <1>h DEF Heard, Listening
<1>j. Heard(n)
  BY <1>1, <1>h DEF Heard, Listening
<1>9. Phases(y)
  BY <1>2, <1>7, <1>8, <1>i DEF Phases, Over
<1>10. (c.fin_status => x.child.status = <<>>) => Phases(n)
  BY <1>1, <1>2, <1>8, <1>j DEF Phases, Over
<1> QED BY <1>1, <1>4, <1>5, <1>6, <1>9, <1>10 DEF Sound, n, y


(* proc_finished() and proc_error() *)
LEMMA ProcEndedGood ==
  ASSUME NEW s, Under(s), Sound(s.g, s.app), s.g.proc.state # "none", ~s.g.proc.startTrigger,
         NEW success \in BOOLEAN, success => s.g.child.end \in Over,
         s.g.proc.state = "Running" => s.g.child.deaf
  PROVE  procEnded(s, success) \in Machines /\ Good(procEnded(s, success))
<1> DEFINE n == procEnded(s, success)
           c1 == [s.g.proc EXCEPT !.fin_process = TRUE, !.fin_process_success = success]
           c2 == [c1 EXCEPT !.fin_status = TRUE]
           c3 == [c2 EXCEPT !.doneTrigger = TRUE]
           x1 == [s.g EXCEPT !.proc = c1]
           x2 == [s.g EXCEPT !.proc = c2]
           x3 == [s.g EXCEPT !.proc = c3]
<1>1. s \in Machines /\ s.g \in Sessions /\ s.g.proc \in Procs
  BY MachineFields, SessionFields DEF Under
<1>2. n = IF s.g.proc.fin_status THEN doTryDone([s EXCEPT !.g = x1])
          ELSE IF s.g.child.status = <<>> THEN doTryDone([s EXCEPT !.g = x2])
          ELSE [s EXCEPT !.g = readStatus(x3)]
  <2> DEFINE e == [s EXCEPT !.g.proc = [@ EXCEPT !.fin_process = TRUE, !.fin_process_success = success]]
             w == [e EXCEPT !.g.proc.fin_status = TRUE]
  <2>1. e = [s EXCEPT !.g = x1]
    OBVIOUS
  <2> HIDE DEF e, c1
  <2>2. e.g = x1 /\ x1.proc = c1
    BY <1>1, <2>1 DEF Machines, Sessions
  <2>3. w = [e EXCEPT !.g = [x1 EXCEPT !.proc = c2]]
    BY <2>2
  <2>4. [x1 EXCEPT !.proc = c2] = x2
    BY <1>1 DEF Sessions
  <2> HIDE DEF w, c2, x1
  <2>5. w = [s EXCEPT !.g = x2]
    BY <1>1, <2>1, <2>3, <2>4 DEF Machines
  <2>6. w.g = x2 /\ x2.proc = c2
    BY <1>1, <2>5 DEF Machines, Sessions
  <2>7. [x2 EXCEPT !.proc.doneTrigger = TRUE] = x3
    BY <1>1, <2>6 DEF Sessions
  <2>8. [w EXCEPT !.g = readStatus([@ EXCEPT !.proc.doneTrigger = TRUE])] = [s EXCEPT !.g = readStatus(x3)]
    <3> HIDE DEF x2, x3
    <3>1. [w EXCEPT !.g = readStatus([@ EXCEPT !.proc.doneTrigger = TRUE])] = [w EXCEPT !.g = readStatus(x3)]
      BY <2>6, <2>7
    <3> QED BY <1>1, <2>5, <3>1 DEF Machines
  <2>9. n = IF s.g.proc.fin_status THEN doTryDone(e)
            ELSE IF s.g.child.status = <<>> THEN doTryDone(w)
            ELSE [w EXCEPT !.g = readStatus([@ EXCEPT !.proc.doneTrigger = TRUE])]
    BY DEF procEnded, e, w
  <2> HIDE DEF n, x2, x3
  <2> QED BY <2>1, <2>5, <2>8, <2>9
<1>3. /\ c1 \in Procs /\ c2 \in Procs /\ c3 \in Procs
      /\ \A c \in {c1, c2, c3} :
           /\ c.state = s.g.proc.state /\ c.startTrigger = s.g.proc.startTrigger
           /\ c.pre = s.g.proc.pre /\ c.pre_close = s.g.proc.pre_close
           /\ c.need_status = s.g.proc.need_status /\ c.fin_process_success = success
      /\ c1.fin_status = s.g.proc.fin_status
  BY <1>1 DEF Procs
<1>4. Phases(s.g)
  BY DEF Sound
<1> HIDE DEF c1, c2, c3, n
<1>5. /\ x1 \in Sessions /\ Pending(x1) = Pending(s.g) /\ Len(Data(x1)) = Len(Data(s.g))
      /\ Sound(x1, s.app)
  <2>1. c1.fin_status => s.g.child.status = <<>>
    BY <1>3, <1>4 DEF Phases
  <2> QED BY <1>1, <1>3, <2>1, FlagSession
<1>6. /\ x2 \in Sessions /\ Pending(x2) = Pending(s.g) /\ Len(Data(x2)) = Len(Data(s.g))
      /\ s.g.child.status = <<>> => Sound(x2, s.app)
  BY <1>1, <1>3, FlagSession
<1>7. /\ x3 \in Sessions /\ Pending(x3) = Pending(s.g) /\ Len(Data(x3)) = Len(Data(s.g))
      /\ Feed(x3, s.app) /\ Judged(x3) /\ Phases(Emptied(x3)) /\ x3.proc = c3
  BY <1>1, <1>3, FlagSession
<1> HIDE DEF x1, x2, x3
<1>8. CASE s.g.proc.fin_status
  <2> DEFINE z == [s EXCEPT !.g = x1]
  <2>1. Under(z) /\ z.g = x1 /\ z.app = s.app
    BY <1>5, SessionStep
  <2> HIDE DEF z
  <2>2. doTryDone(z) \in Machines /\ Good(doTryDone(z))
    BY <1>5, <2>1, DoneGood
  <2> QED BY <1>2, <1>8, <2>2 DEF n, z
<1>9. CASE ~s.g.proc.fin_status /\ s.g.child.status = <<>>
  <2> DEFINE z == [s EXCEPT !.g = x2]
  <2>1. Under(z) /\ z.g = x2 /\ z.app = s.app
    BY <1>6, SessionStep
  <2> HIDE DEF z
  <2>2. doTryDone(z) \in Machines /\ Good(doTryDone(z))
    BY <1>6, <1>9, <2>1, DoneGood
  <2> QED BY <1>2, <1>9, <2>2 DEF n, z
<1>10. CASE ~s.g.proc.fin_status /\ s.g.child.status # <<>>
  <2> DEFINE r == readStatus(x3)
             z == [s EXCEPT !.g = r]
  <2>1. x3.proc.state # "none" /\ ~x3.proc.startTrigger
    BY <1>3, <1>7
  <2>2. r \in Sessions /\ Sound(r, s.app) /\ Pending(r) = Pending(x3) /\ Len(Data(r)) = Len(Data(x3))
    BY <1>7, <2>1, ReadStatusSound
  <2> HIDE DEF r
  <2>3. Under(z) /\ z.g = r /\ z.app = s.app
    BY <1>7, <2>2, SessionStep
  <2> HIDE DEF z
  <2>4. z \in Machines /\ Good(z)
    BY <2>2, <2>3, UnderGood
  <2> QED BY <1>2, <1>10, <2>4 DEF n, z, r
<1> QED BY <1>8, <1>9, <1>10

(* act_needPassphrase() and act_needCard() *)
LEMMA NeedGood ==
  ASSUME NEW s, Under(s), Sound(s.g, s.app), NEW e \in Prompts
  PROVE  act_need(s, e) \in Machines /\ Good(act_need(s, e))
<1> DEFINE n == act_need(s, e)
<1>1. s \in Machines /\ s.op \in OpStates /\ s.asker \in [Prompts -> {"idle", "asking"}]
  BY MachineFields DEF Under
<1>2. CASE Waiting
  <2> DEFINE q == Append(s.op.events, e)
             p == [s.op EXCEPT !.events = q]
  <2>1. n = [s EXCEPT !.op = p]
    BY <1>2 DEF act_need
  <2>2. s.op.events \in Seq(Prompts \cup {"finished"}) /\ NoEnd(s.op.events)
    BY <1>1 DEF OpStates, Under, Calm
  <2>3. q \in Seq(Prompts \cup {"finished"}) /\ NoEnd(q)
    <3>1. q \in Seq(Prompts \cup {"finished"}) /\ Len(q) = Len(s.op.events) + 1 /\ q[Len(q)] = e
          /\ \A i \in 1..Len(s.op.events) : q[i] = s.op.events[i]
      BY <2>2
    <3>2. \A i \in 1..Len(q) : i = Len(q) \/ i \in 1..Len(s.op.events)
      BY <3>1
    <3> HIDE DEF q
    <3> QED BY <2>2, <3>1, <3>2 DEF NoEnd
  <2> HIDE DEF q, n
  <2>4. p \in OpStates /\ p.act = s.op.act /\ p.events = q
    BY <1>1, <2>3 DEF OpStates
  <2> HIDE DEF p
  <2>5. n \in Machines /\ n.g = s.g /\ n.op = p /\ n.ctx = s.ctx /\ n.msg = s.msg /\ n.app = s.app
    BY <1>1, <2>1, <2>4 DEF Machines
  <2>6. Rest(n)
    BY <1>2, <2>5 DEF Rest, Under, Counted, Waiting
  <2>7. Calm(n)
    BY <2>3, <2>4, <2>5 DEF Calm, Under
  <2>8. Good(n)
    BY <2>4, <2>5, <2>6, <2>7 DEF Good, Busy, Under
  <2> QED BY <2>5, <2>8 DEF n
<1>3. CASE ~Waiting
  <2> DEFINE k == [s.asker EXCEPT ![e] = "asking"]
  <2>1. n = [s EXCEPT !.asker = k]
    BY <1>3 DEF act_need
  <2>2. k \in [Prompts -> {"idle", "asking"}]
    BY <1>1
  <2> HIDE DEF k, n
  <2>3. n \in Machines /\ n.g = s.g /\ n.op = s.op /\ n.ctx = s.ctx /\ n.msg = s.msg /\ n.app = s.app
    BY <1>1, <2>1, <2>2 DEF Machines
  <2>4. Good(n)
    BY <2>3 DEF Good, Busy, Calm, Rest, Counted, Under
  <2> QED BY <2>3, <2>4 DEF n
<1> QED BY <1>2, <1>3

------------------------------------------------------------------------------
(* New objects, and the end that seterror() makes                          *)

LEMMA NewSessionFacts ==
  ASSUME NEW k \in Kinds
  PROVE  LET x == NewSession(k)
         IN  /\ x \in Sessions /\ x.proc = NoProc /\ x.queue = <<>>
             /\ Data(x) = <<>> /\ Pending(x) = 0 /\ Listening(x)
<1> DEFINE x == NewSession(k)
<1>1. x.proc = NoProc /\ x.queue = <<>> /\ x.child = NewChild /\ x.act = NewAction(k)
      /\ x = [proc |-> NoProc, act |-> NewAction(k), queue |-> <<>>, child |-> NewChild]
  BY DEF NewSession
<1>2. NoProc \in Procs
  BY DEF NoProc, Procs
<1>3. NewAction(k) \in Actions
  BY DEF NewAction, Actions, Errors, Signatures
<1>4. <<>> \in Seq(Events) /\ <<>> \in Seq(Nat) /\ <<>> \in Seq(StatusLines)
  OBVIOUS
<1>5. NewChild \in Children
  BY <1>4 DEF NewChild, Children, Ends
<1> HIDE DEF x
<1>6. x \in Sessions
  BY <1>1, <1>2, <1>3, <1>4, <1>5 DEF Sessions
<1>7. Data(x) = <<>>
  <2>1. Input(x) \in Channels
    BY DEF Input, Channels
  <2> QED BY <1>1, <2>1 DEF Data, NewChild
<1>8. Pending(x) = 0
  BY <1>1, <1>4, NotesFacts DEF Pending
<1>9. Listening(x)
  BY <1>1 DEF Listening, NewChild
<1> QED BY <1>1, <1>6, <1>7, <1>8, <1>9 DEF x

LEMMA NoneTotal == Total(<<>>) = 0
<1>1. <<>> \in Seq(Int) /\ 0 \in Int
  OBVIOUS
<1> QED BY <1>1, TotalAppend

LEMMA FreshGood ==
  ASSUME NEW k \in Kinds, NEW a \in AppStates, a.told = 0, a.reported = 0,
         NEW r \in [Prompts -> {"idle", "asking"}]
  PROVE  LET s == [g |-> NewSession(k), op |-> NewOp, ctx |-> NewContext, msg |-> NewMessage,
                   asker |-> r, app |-> a]
         IN  s \in Machines /\ Good(s)
<1> DEFINE s == [g |-> NewSession(k), op |-> NewOp, ctx |-> NewContext, msg |-> NewMessage,
                 asker |-> r, app |-> a]
<1>1. /\ s.g \in Sessions /\ s.g.proc = NoProc /\ s.g.queue = <<>>
      /\ Data(s.g) = <<>> /\ Pending(s.g) = 0 /\ Listening(s.g)
  BY NewSessionFacts
<1>2. NewOp \in OpStates
  <2>1. <<>> \in Seq(Prompts \cup {"finished"})
    OBVIOUS
  <2>2. NoOutput \in Outputs
    BY DEF NoOutput, Outputs, Output, Errors, Signatures
  <2> QED BY <2>1, <2>2 DEF NewOp, OpStates
<1>3. NewContext \in ContextStates
  BY DEF NewContext, ContextStates, Errors, Signatures
<1>4. NewMessage \in MessageStates
  <2>1. <<>> \in Seq(Nat)
    OBVIOUS
  <2> QED BY <2>1 DEF NewMessage, MessageStates, Errors, Signatures
<1>5. s.op = NewOp /\ s.ctx = NewContext /\ s.msg = NewMessage /\ s.app = a
  OBVIOUS
<1>6. s \in Machines
  <2> DEFINE x == NewSession(k)
  <2>1. x \in Sessions
    BY <1>1
  <2> HIDE DEF x
  <2> QED BY <1>2, <1>3, <1>4, <2>1 DEF Machines, x
<1> HIDE DEF s
<1>7. ~s.op.act /\ s.op.events = <<>> /\ ~s.op.output.success
  BY <1>5 DEF NewOp, NoOutput, Output
<1>8. ~s.ctx.ok /\ s.ctx.wrote = 0 /\ ~s.msg.success /\ s.msg.signer = "none"
      /\ s.msg.bytesWrittenArgs = <<>> /\ ~s.msg.bytesWrittenTrigger
  BY <1>5 DEF NewContext, NewMessage
<1>9. Counted(s)
  BY <1>1, <1>5, <1>8, NoneTotal DEF Counted
<1>10. Ended(s)
  BY <1>1, <1>5, <1>7, <1>8 DEF Ended, Earned
<1> QED BY <1>6, <1>7, <1>8, <1>9, <1>10 DEF Good, Rest, s

LEMMA DeadGood == /\ NewState \in Machines /\ Good(NewState)
                  /\ Dead \in Machines /\ Good(Dead)
<1> DEFINE k == CHOOSE o \in Ops : TRUE
           r == [p \in Prompts |-> "idle"]
           d == [NewApp EXCEPT !.mode = "dead"]
<1>1. k \in Kinds
  BY OpsAssumption
<1> HIDE DEF k
<1>2. NewApp \in AppStates /\ NewApp.told = 0 /\ NewApp.reported = 0
  BY DEF NewApp, AppStates
<1>3. d \in AppStates /\ d.told = 0 /\ d.reported = 0
  BY DEF NewApp, AppStates
<1>4. r \in [Prompts -> {"idle", "asking"}]
  OBVIOUS
<1> HIDE DEF r
<1>5. NewState = [g |-> NewSession(k), op |-> NewOp, ctx |-> NewContext, msg |-> NewMessage,
                  asker |-> r, app |-> NewApp]
  BY DEF NewState, k, r
<1>6. Dead = [g |-> NewSession(k), op |-> NewOp, ctx |-> NewContext, msg |-> NewMessage,
              asker |-> r, app |-> d]
  BY <1>5 DEF Dead
<1> HIDE DEF d
<1>7. NewState \in Machines /\ Good(NewState)
  BY <1>1, <1>2, <1>4, <1>5, FreshGood
<1>8. Dead \in Machines /\ Good(Dead)
  BY <1>1, <1>3, <1>4, <1>6, FreshGood
<1> QED BY <1>7, <1>8

LEMMA InitGood == MsgInit => IInv
<1> SUFFICES ASSUME MsgInit PROVE IInv
  OBVIOUS
<1>1. State = NewState
  <2>1. NewState = [g |-> NewState.g, op |-> NewState.op, ctx |-> NewState.ctx,
                    msg |-> NewState.msg, asker |-> NewState.asker, app |-> NewState.app]
    BY DEF NewState
  <2> QED BY <2>1 DEF State, MsgInit
<1> QED BY <1>1, DeadGood DEF IInv

LEMMA BecomeState ==
  ASSUME NEW t, t \in Machines, Good(t), Become(t)
  PROVE  IInv'
<1>1. g' = t.g /\ op' = t.op /\ ctx' = t.ctx /\ msg' = t.msg /\ asker' = t.asker /\ app' = t.app
  BY DEF Become
<1>2. t = [g |-> t.g, op |-> t.op, ctx |-> t.ctx, msg |-> t.msg, asker |-> t.asker, app |-> t.app]
  BY DEF Machines
<1>3. State' = t
  BY <1>1, <1>2 DEF State
<1> QED BY <1>3 DEF IInv

------------------------------------------------------------------------------
(* The event loop                                                          *)

LEMMA StateFields ==
  /\ State.g = g /\ State.op = op /\ State.ctx = ctx /\ State.msg = msg
  /\ State.asker = asker /\ State.app = app
  BY DEF State

(* With a process, or an event for it, there is an action *)
LEMMA ActBusy ==
  ASSUME IInv
  PROVE  /\ State \in Machines /\ Good(State) /\ g \in Sessions /\ Fields(g)
         /\ op.act /\ Running => Under(State) /\ Sound(g, app)
         /\ ~op.act => g.proc = NoProc /\ g.queue = <<>>
<1>1. State \in Machines /\ Good(State)
  BY DEF IInv
<1>2. g \in Sessions
  BY <1>1, StateFields, MachineFields
<1>3. ASSUME op.act, Running PROVE Under(State) /\ Sound(g, app)
  BY <1>1, <1>3, StateFields DEF Good, Busy, Under
<1>4. ~op.act => g.proc = NoProc /\ g.queue = <<>>
  BY <1>1, StateFields DEF Good, Ended
<1> QED BY <1>1, <1>2, <1>3, <1>4, AllFields

LEMMA SessionMove ==
  ASSUME IInv, Running, op.act, NEW x \in Sessions, Sound(x, app),
         \/ Pending(x) + Len(Data(g)) = Pending(g) + Len(Data(x))
         \/ Pending(x) = Pending(g) /\ Len(Data(x)) = Len(Data(g))
  PROVE  [State EXCEPT !.g = x] \in Machines /\ Good([State EXCEPT !.g = x])
<1> DEFINE n == [State EXCEPT !.g = x]
<1>1. Under(State)
  BY ActBusy
<1>2. Under(n) /\ n.g = x /\ n.app = State.app
  BY <1>1, StateFields, SessionStep
<1> HIDE DEF n
<1>3. n \in Machines /\ Good(n)
  BY <1>2, StateFields, UnderGood
<1> QED BY <1>3 DEF n

LEMMA SessionKept ==
  ASSUME IInv, Running, op.act, NEW x \in Sessions, Sound(x, app),
         \/ Pending(x) + Len(Data(g)) = Pending(g) + Len(Data(x))
         \/ Pending(x) = Pending(g) /\ Len(Data(x)) = Len(Data(g)),
         Become([State EXCEPT !.g = x])
  PROVE  IInv'
<1> DEFINE n == [State EXCEPT !.g = x]
<1>1. n \in Machines /\ Good(n) /\ Become(n)
  BY SessionMove
<1> HIDE DEF n
<1> QED BY <1>1, BecomeState

LEMMA DoStartKept == IInv /\ DoStart => IInv'
<1> SUFFICES ASSUME IInv, DoStart PROVE IInv'
  OBVIOUS
<1>1. Running /\ g.proc.startTrigger
  BY DEF DoStart
<1>2. op.act
  BY <1>1, ActBusy DEF NoProc
<1>3. g \in Sessions /\ Sound(g, app)
  BY <1>1, <1>2, ActBusy
<1>4. PICK started \in BOOLEAN : Become([State EXCEPT !.g = doStart(g, started)])
  BY DEF DoStart
<1> DEFINE x == doStart(g, started)
<1>5. x \in Sessions /\ Sound(x, app) /\ Pending(x) = Pending(g) /\ Len(Data(x)) = Len(Data(g))
  BY <1>1, <1>3, DoStartSound
<1>6. Become([State EXCEPT !.g = x])
  BY <1>4
<1> HIDE DEF x
<1> QED BY <1>1, <1>2, <1>5, <1>6, SessionKept

LEMMA StatusReadKept == IInv /\ StatusRead => IInv'
<1> SUFFICES ASSUME IInv, StatusRead PROVE IInv'
  OBVIOUS
<1>1. Running /\ g.proc.state # "none" /\ ~g.proc.fin_status /\ g.child.status # <<>>
  BY DEF StatusRead
<1>2. op.act
  BY <1>1, ActBusy DEF NoProc
<1>3. g \in Sessions /\ Sound(g, app) /\ Fields(g)
  BY <1>1, <1>2, ActBusy
<1>4. ~g.proc.startTrigger
  BY <1>1, <1>3 DEF Sound, Phases
<1>5. Phases(Emptied(g))
  <2> DEFINE y == Emptied(g)
  <2>1. y.proc = g.proc /\ y.queue = g.queue /\ y.child.status = <<>> /\ y.child.end = g.child.end
        /\ y.child.unheard = g.child.unheard /\ y.child.deaf = g.child.deaf
    BY <1>3, EmptiedFields
  <2> HIDE DEF y
  <2>2. Heard(y)
    BY <1>3, <2>1, HeardSame DEF Sound, Phases, SameEar
  <2>3. Phases(y)
    BY <1>3, <2>1, <2>2 DEF Sound, Phases
  <2> QED BY <2>3 DEF y
<1> DEFINE x == readStatus(g)
<1>6. x \in Sessions /\ Sound(x, app) /\ Pending(x) = Pending(g) /\ Len(Data(x)) = Len(Data(g))
  BY <1>1, <1>3, <1>4, <1>5, ReadStatusSound DEF Sound
<1>7. Become([State EXCEPT !.g = x])
  BY DEF StatusRead
<1> HIDE DEF x
<1> QED BY <1>1, <1>2, <1>6, <1>7, SessionKept

(* doTryDone() after a change of the flags *)
LEMMA FlaggedDone ==
  ASSUME IInv, Running, g.proc.state # "none",
         NEW c \in Procs, c.state = g.proc.state, c.startTrigger = g.proc.startTrigger,
         c.pre = g.proc.pre, c.pre_close = g.proc.pre_close, c.need_status = g.proc.need_status,
         c.fin_process_success = g.proc.fin_process_success,
         c.fin_status => g.child.status = <<>>,
         c.fin_status => g.proc.fin_status
                         \/ (~g.proc.startTrigger /\ (g.proc.state = "Running" => g.child.deaf))
  PROVE  LET n == [State EXCEPT !.g = [g EXCEPT !.proc = c]]
         IN  doTryDone(n) \in Machines /\ Good(doTryDone(n))
<1>1. op.act
  BY ActBusy DEF NoProc
<1>2. g \in Sessions /\ Sound(g, app) /\ Under(State)
  BY <1>1, ActBusy
<1> DEFINE x == [g EXCEPT !.proc = c]
           n == [State EXCEPT !.g = x]
<1>3. c.fin_process_success => g.child.end \in Over
  BY <1>2 DEF Sound, Phases
<1>4. /\ x \in Sessions /\ Pending(x) = Pending(g) /\ Len(Data(x)) = Len(Data(g))
      /\ Sound(x, app)
  BY <1>2, <1>3, FlagSession
<1> HIDE DEF x
<1>5. Under(n) /\ n.g = x /\ n.app = State.app
  BY <1>2, <1>4, StateFields, SessionStep
<1> HIDE DEF n
<1>6. doTryDone(n) \in Machines /\ Good(doTryDone(n))
  BY <1>4, <1>5, StateFields, DoneGood
<1> QED BY <1>6 DEF n, x

LEMMA StatusClosedKept == IInv /\ StatusClosed => IInv'
<1> SUFFICES ASSUME IInv, StatusClosed PROVE IInv'
  OBVIOUS
<1>1. Running /\ g.proc.state # "none" /\ g.child.status = <<>> /\ g.child.end # "no"
  BY DEF StatusClosed
<1>2. op.act
  BY <1>1, ActBusy DEF NoProc
<1>3. g \in Sessions /\ Sound(g, app) /\ g.proc \in Procs
  BY <1>1, <1>2, ActBusy, SessionFields
<1>4. ~g.proc.startTrigger /\ g.proc.state # "Running"
  BY <1>1, <1>3 DEF Sound, Phases, Heard
<1> DEFINE c == [g.proc EXCEPT !.fin_status = TRUE]
           n == [State EXCEPT !.g = [g EXCEPT !.proc = c]]
<1>5. c \in Procs /\ c.state = g.proc.state /\ c.startTrigger = g.proc.startTrigger
      /\ c.pre = g.proc.pre /\ c.pre_close = g.proc.pre_close /\ c.need_status = g.proc.need_status
      /\ c.fin_process_success = g.proc.fin_process_success
  BY <1>3 DEF Procs
<1>6. [State EXCEPT !.g.proc.fin_status = TRUE] = n
  BY DEF State
<1>7. Become(doTryDone(n))
  BY <1>6 DEF StatusClosed
<1> HIDE DEF c
<1>8. doTryDone(n) \in Machines /\ Good(doTryDone(n))
  BY <1>1, <1>4, <1>5, FlaggedDone
<1> HIDE DEF n
<1> QED BY <1>7, <1>8, BecomeState

LEMMA DoneKept == IInv /\ Done => IInv'
<1> SUFFICES ASSUME IInv, Done PROVE IInv'
  OBVIOUS
<1>1. Running /\ g.proc.doneTrigger
  BY DEF Done
<1>2. op.act
  BY <1>1, ActBusy DEF NoProc
<1>3. g \in Sessions /\ Sound(g, app) /\ Under(State) /\ g.proc \in Procs
  BY <1>1, <1>2, ActBusy, SessionFields
<1>4. g.proc.state # "none"
  BY <1>1, <1>3 DEF Sound, Phases, NoProc
<1> DEFINE c == [g.proc EXCEPT !.doneTrigger = FALSE]
           x == [g EXCEPT !.proc = c]
           n == [State EXCEPT !.g = x]
<1>5. c \in Procs /\ c.state = g.proc.state /\ c.startTrigger = g.proc.startTrigger
      /\ c.pre = g.proc.pre /\ c.pre_close = g.proc.pre_close /\ c.need_status = g.proc.need_status
      /\ c.fin_process_success = g.proc.fin_process_success /\ c.fin_status = g.proc.fin_status
      /\ c.fin_process = g.proc.fin_process
  BY <1>3 DEF Procs
<1>6. [State EXCEPT !.g.proc.doneTrigger = FALSE] = n
  BY DEF State
<1>7. Become(doTryDone(n))
  BY <1>6 DEF Done
<1>8. g.proc.fin_status => g.child.status = <<>>
  BY <1>3 DEF Sound, Phases
<1> HIDE DEF c
<1>9. doTryDone(n) \in Machines /\ Good(doTryDone(n))
  BY <1>1, <1>4, <1>5, <1>8, FlaggedDone
<1> HIDE DEF n
<1> QED BY <1>7, <1>9, BecomeState

(* aux_error() and command_error() *)
LEMMA PipeErrorKept == IInv /\ PipeError => IInv'
<1> SUFFICES ASSUME IInv, PipeError PROVE IInv'
  OBVIOUS
<1>1. Running /\ g.proc.state # "none"
  BY DEF PipeError
<1>2. op.act
  BY <1>1, ActBusy DEF NoProc
<1>3. g \in Sessions /\ Under(State) /\ State \in Machines /\ Listening(State.g)
  BY <1>1, <1>2, ActBusy, StateFields DEF Sound, Phases, Heard
<1> DEFINE o == Output(FALSE, "Process", g.act.verifyResult)
           n == act_finished(State, o)
<1>4. o \in Outputs /\ ~o.success
  <2>1. g.act.verifyResult \in Signatures
    BY <1>3, SessionFields DEF Actions
  <2> QED BY <2>1 DEF Output, Outputs, Errors
<1>5. Become(act_finished([State EXCEPT !.g = reset(g)], o))
  BY DEF PipeError
<1> HIDE DEF o
<1>6. act_finished([State EXCEPT !.g = reset(State.g)], o) = n
  BY <1>3, ResetForgotten
<1>7. Become(n)
  BY <1>5, <1>6, StateFields
<1>8. n \in Machines /\ Good(n)
  BY <1>3, <1>4, FinishGood DEF Under
<1> HIDE DEF n
<1> QED BY <1>7, <1>8, BecomeState

(* proc_bytesWrittenStdin() and proc_bytesWrittenAux() of the event that   *)
(* the input waits for: the count moves from the queue to the context      *)
LEMMA CountedWrite ==
  ASSUME NEW s, Under(s), Sound(s.g, s.app),
         s.app.reported + Total(s.msg.bytesWrittenArgs) + s.ctx.wrote + 1 + Pending(s.g)
            <= Len(Data(s.g))
  PROVE  LET n == [s EXCEPT !.ctx.wrote = @ + 1]
         IN  n \in Machines /\ Good(n)
<1> DEFINE c == [s.ctx EXCEPT !.wrote = @ + 1]
           n == [s EXCEPT !.ctx.wrote = @ + 1]
<1>1. s \in Machines /\ s.ctx \in ContextStates
  BY MachineFields DEF Under
<1>2. c \in ContextStates /\ c.wrote = s.ctx.wrote + 1 /\ c.finished = s.ctx.finished
      /\ c.ok = s.ctx.ok
  BY <1>1 DEF ContextStates
<1>3. n = [s EXCEPT !.ctx = c]
  OBVIOUS
<1> HIDE DEF c, n
<1>4. n \in Machines /\ n.g = s.g /\ n.op = s.op /\ n.msg = s.msg /\ n.app = s.app /\ n.ctx = c
  BY <1>1, <1>2, <1>3 DEF Machines
<1>5. s.app.reported + Total(s.msg.bytesWrittenArgs) + (s.ctx.wrote + 1) + Pending(s.g)
        <= Len(Data(s.g))
  BY <1>1, CountFields
<1>6. Counted(n)
  BY <1>2, <1>4, <1>5 DEF Counted, Under, Rest
<1>7. Under(n)
  BY <1>2, <1>4, <1>6 DEF Under, Calm, Rest
<1>8. n \in Machines /\ Good(n)
  BY <1>4, <1>7, UnderGood
<1> QED BY <1>8 DEF n

LEMMA BytesWrittenGood ==
  ASSUME NEW s, Under(s), Sound(s.g, s.app), NEW ch \in {"stdin", "aux"},
         ch = Input(s.g) =>
            s.app.reported + Total(s.msg.bytesWrittenArgs) + s.ctx.wrote + 1 + Pending(s.g)
               <= Len(Data(s.g))
  PROVE  bytesWritten(s, ch) \in Machines /\ Good(bytesWritten(s, ch))
<1>1. channel(s) = Input(s.g)
  BY DEF channel, Input
<1>2. CASE Waiting \/ ch # channel(s)
  <2>1. bytesWritten(s, ch) = s
    BY <1>2 DEF bytesWritten
  <2> QED BY <2>1, UnderGood
<1>3. CASE ~(Waiting \/ ch # channel(s))
  <2>1. bytesWritten(s, ch) = [s EXCEPT !.ctx.wrote = @ + 1]
    BY <1>3 DEF bytesWritten
  <2> QED BY <1>1, <1>3, <2>1, CountedWrite
<1> QED BY <1>2, <1>3

(* The slots *)
LEMMA SlotCases ==
  ASSUME NEW s, NEW e \in Events
  PROVE  \/ e = "started" /\ Slot(s, e) = [s EXCEPT !.g = proc_started(@)]
         \/ e = "bytesWrittenStdin" /\ Slot(s, e) = bytesWritten(s, "stdin")
         \/ e = "bytesWrittenAux" /\ Slot(s, e) = bytesWritten(s, "aux")
         \/ e = "readyReadStdout" /\ Slot(s, e) = readyReadStdout(s)
         \/ e = "finished" /\ Slot(s, e) = procEnded(s, TRUE)
         \/ e \in Prompts /\ Slot(s, e) = act_need(s, e)
         \/ e = "startError" /\ Slot(s, e) = act_finished(s, Output(FALSE, "Process", "none"))
         \/ e \in {"Crashed", "FailedToStart", "WriteError"} /\ Slot(s, e) = procEnded(s, FALSE)
<1>1. CASE e = "started"
  BY <1>1 DEF Slot, Prompts
<1>2. CASE e = "bytesWrittenStdin"
  BY <1>2 DEF Slot, Prompts
<1>3. CASE e = "bytesWrittenAux"
  BY <1>3 DEF Slot, Prompts
<1>4. CASE e = "readyReadStdout"
  BY <1>4 DEF Slot, Prompts
<1>5. CASE e = "finished"
  BY <1>5 DEF Slot, Prompts
<1>6. CASE e \in Prompts
  BY <1>6 DEF Slot, Prompts
<1>7. CASE e = "startError"
  BY <1>7 DEF Slot, Prompts
<1>8. CASE e \in {"Crashed", "FailedToStart", "WriteError"}
  BY <1>8 DEF Slot, Prompts
<1>9. \/ e \in {"started", "bytesWrittenStdin", "bytesWrittenAux", "readyReadStdout", "finished"}
      \/ e \in Prompts \/ e = "startError" \/ e \in {"Crashed", "FailedToStart", "WriteError"}
  BY DEF Events, Relayed, Posted
<1> QED BY <1>1, <1>2, <1>3, <1>4, <1>5, <1>6, <1>7, <1>8, <1>9

LEMMA HandleStarted ==
  ASSUME IInv, Running, g.queue # <<>>, Head(g.queue) = "started"
  PROVE  LET n == [State EXCEPT !.g = proc_started(Popped(g))]
         IN  n \in Machines /\ Good(n)
<1> DEFINE y == Popped(g)
           x == proc_started(y)
<1>1. op.act
  BY ActBusy
<1>2. g \in Sessions /\ Sound(g, app)
  BY <1>1, ActBusy
<1>3. y \in Sessions /\ y.proc = g.proc /\ y.act = g.act /\ y.child = g.child /\ Head(g.queue) = g.queue[1]
      /\ Len(g.queue) = Len(Tail(g.queue)) + 1 /\ g.queue \in Seq(Events) /\ Tail(g.queue) \in Seq(Events)
  BY <1>2, PoppedFields
<1>4. /\ Phases(y) /\ Judged(y) /\ ~g.proc.startTrigger
      /\ Pending(g) = (IF Head(g.queue) = Note(g) THEN 1 ELSE 0) + Pending(y) /\ Pending(y) \in Nat
      /\ Len(Data(y)) = Len(Data(g)) /\ ~Started(g) /\ Started(y)
  BY <1>2, PoppedFacts
<1>5. Pending(y) = Pending(g)
  <2>1. Head(g.queue) # Note(g)
    BY DEF Note
  <2> QED BY <1>4, <2>1
<1>6. g.proc.state # "none"
  <2>1. 1 \in 1..Len(g.queue)
    BY <1>3
  <2> QED BY <1>2, <1>3, <2>1 DEF Sound, Phases, Posted, Prompts
<1> HIDE DEF y
<1>7. Alive(y)
  BY <1>3, <1>4, <1>6 DEF Alive
<1>8. Input(y) = Input(g) /\ Data(y) = Data(g) /\ Held(y) = Held(g)
  BY <1>3 DEF Input, Data, Held, useAux
<1>9. ASSUME ~app.crossed
      PROVE  /\ Data(y) = <<>> /\ ~y.child.eof[Input(y)] /\ Held(y) = Numbers(app.sent)
             /\ y.proc.pre_close[Input(y)] => app.ended
  <2>1. InOrder(g, app)
    BY <1>2, <1>6, <1>9 DEF Sound, Feed
  <2>2. Data(g) = <<>> /\ ~g.child.eof[Input(g)] /\ Data(g) \o Held(g) = Numbers(app.sent)
        /\ (g.proc.pre_close[Input(g)] => app.ended)
    BY <1>4, <2>1 DEF InOrder
  <2>3. Held(g) \in Seq(Nat)
    BY <1>2, AllFields DEF Fields
  <2>4. Held(g) = <<>> \o Held(g)
    BY <2>3
  <2> QED BY <1>3, <1>8, <2>2, <2>4
<1>10. /\ x \in Sessions /\ Sound(x, app)
       /\ Pending(x) \in Nat /\ Pending(x) + Len(Data(y)) = Pending(y) + Len(Data(x))
  BY <1>7, <1>9, StartedSound
<1> HIDE DEF x
<1>11. Pending(x) + Len(Data(g)) = Pending(g) + Len(Data(x))
  BY <1>4, <1>5, <1>10
<1>12. [State EXCEPT !.g = x] \in Machines /\ Good([State EXCEPT !.g = x])
  BY <1>1, <1>10, <1>11, SessionMove
<1> QED BY <1>12 DEF x, y

LEMMA HandleOther ==
  ASSUME IInv, Running, g.queue # <<>>, Head(g.queue) # "started"
  PROVE  LET n == Slot([State EXCEPT !.g = Popped(g)], Head(g.queue))
         IN  n \in Machines /\ Good(n)
<1> DEFINE y == Popped(g)
           e == Head(g.queue)
           s == [State EXCEPT !.g = y]
           n == Slot(s, e)
<1>1. op.act
  BY ActBusy
<1>2. g \in Sessions /\ Sound(g, app) /\ Under(State) /\ State \in Machines
  BY <1>1, ActBusy
<1>3. y \in Sessions /\ y.proc = g.proc /\ y.act = g.act /\ y.child = g.child /\ e = g.queue[1]
      /\ Len(g.queue) = Len(Tail(g.queue)) + 1 /\ g.queue \in Seq(Events) /\ Tail(g.queue) \in Seq(Events)
  BY <1>2, PoppedFields
<1>4. /\ Phases(y) /\ Judged(y) /\ ~g.proc.startTrigger /\ e \in Events
      /\ Pending(g) = (IF e = Note(g) THEN 1 ELSE 0) + Pending(y) /\ Pending(y) \in Nat
      /\ Len(Data(y)) = Len(Data(g)) /\ Note(y) = Note(g) /\ Feed(y, app)
  BY <1>2, PoppedFacts
<1>5. 1 \in 1..Len(g.queue)
  BY <1>3
<1>6. e \in Relayed => g.proc.state # "none"
  BY <1>2, <1>3, <1>5 DEF Sound, Phases, Posted, Prompts, Relayed
<1>7. /\ e = "finished" => g.child.end \in Over
      /\ e \in Ominous \cup {"WriteError"} => (g.proc.state = "Running" => g.child.deaf)
  BY <1>2, <1>3, <1>5 DEF Sound, Phases, Heard
<1> HIDE DEF y, e
<1>8. Sound(y, app)
  BY <1>4 DEF Sound
<1>9. Under(s) /\ s.g = y /\ s.app = State.app /\ s \in Machines /\ s.ctx = State.ctx /\ s.msg = State.msg
  <2>1. CASE e = Note(g)
    <3>1. Pending(g) = 1 + Pending(y)
      BY <1>4, <2>1
    <3>2. Under(s) /\ s.g = y /\ s.app = State.app
      BY <1>2, <1>3, <1>4, <3>1, StateFields, SessionStep
    <3> QED BY <3>2 DEF Under, State
  <2>2. CASE e # Note(g)
    <3>1. Pending(y) = Pending(g)
      BY <1>4, <2>2
    <3>2. Under(s) /\ s.g = y /\ s.app = State.app
      BY <1>2, <1>3, <1>4, <3>1, StateFields, SessionStep
    <3> QED BY <3>2 DEF Under, State
  <2> QED BY <2>1, <2>2
<1> HIDE DEF s
<1>10. Sound(s.g, s.app)
  BY <1>8, <1>9, StateFields
<1>11. s.g.proc = g.proc /\ s.g.child = g.child
  BY <1>3, <1>9
<1>12. e = Note(g) =>
         s.app.reported + Total(s.msg.bytesWrittenArgs) + s.ctx.wrote + 1 + Pending(s.g)
            <= Len(Data(s.g))
  <2>1. Counted(State)
    BY <1>2 DEF Under, Rest
  <2>2. app.reported + Total(msg.bytesWrittenArgs) + ctx.wrote + Pending(g) <= Len(Data(g))
    BY <2>1, StateFields DEF Counted
  <2>3. app.reported \in Nat /\ Total(msg.bytesWrittenArgs) \in Nat /\ ctx.wrote \in Nat
    BY <1>2, StateFields, CountFields
  <2>4. e = Note(g) => Pending(g) = 1 + Pending(y)
    BY <1>4
  <2>5. Len(Data(g)) \in Nat
    BY <1>2, StateFields, CountFields
  <2>6. e = Note(g) => app.reported + Total(msg.bytesWrittenArgs) + ctx.wrote + 1 + Pending(y)
                         <= Len(Data(y))
    BY <1>4, <2>2, <2>3, <2>4, <2>5
  <2> QED BY <1>9, <2>6, StateFields
<1>13. Input(s.g) = "stdin" => Note(g) = "bytesWrittenStdin"
  BY <1>3, <1>9 DEF Input, Note, useAux
<1>14. Input(s.g) = "aux" => Note(g) = "bytesWrittenAux"
  BY <1>3, <1>9 DEF Input, Note, useAux
<1>15. CASE e = "bytesWrittenStdin" /\ n = bytesWritten(s, "stdin")
  BY <1>9, <1>10, <1>12, <1>13, <1>15, BytesWrittenGood DEF e, s, y
<1>16. CASE e = "bytesWrittenAux" /\ n = bytesWritten(s, "aux")
  BY <1>9, <1>10, <1>12, <1>14, <1>16, BytesWrittenGood DEF e, s, y
<1>17. s \in Machines /\ Good(s) /\ s.op.act
  BY <1>9, <1>10, UnderGood DEF Under
<1>18. CASE e = "readyReadStdout" /\ n = readyReadStdout(s)
  <2>1. n = s \/ n = updated(s)
    BY <1>18 DEF readyReadStdout
  <2>2. updated(s) \in Machines /\ Good(updated(s))
    BY <1>17, UpdatedBusy
  <2> HIDE DEF n
  <2>3. n \in Machines /\ Good(n)
    BY <1>17, <2>1, <2>2
  <2> QED BY <2>3 DEF n, s, e, y
<1>19. CASE e = "finished" /\ n = procEnded(s, TRUE)
  <2>1. s.g.proc.state # "none" /\ ~s.g.proc.startTrigger /\ s.g.child.end \in Over
    BY <1>4, <1>6, <1>7, <1>11, <1>19 DEF Relayed
  <2>a. s.g.proc.state = "Running" => s.g.child.deaf
    BY <1>7, <1>11, <1>19 DEF Ominous
  <2>2. procEnded(s, TRUE) \in Machines /\ Good(procEnded(s, TRUE))
    BY <1>9, <1>10, <2>1, <2>a, ProcEndedGood
  <2> HIDE DEF n
  <2>3. n \in Machines /\ Good(n)
    BY <1>19, <2>2
  <2> QED BY <2>3 DEF n, s, e, y
<1>20. CASE e \in Prompts /\ n = act_need(s, e)
  <2>1. act_need(s, e) \in Machines /\ Good(act_need(s, e))
    BY <1>9, <1>10, <1>20, NeedGood
  <2> HIDE DEF n
  <2>2. n \in Machines /\ Good(n)
    BY <1>20, <2>1
  <2> QED BY <2>2 DEF n, s, e, y
<1>21. CASE e = "startError" /\ n = act_finished(s, Output(FALSE, "Process", "none"))
  <2> DEFINE o == Output(FALSE, "Process", "none")
  <2>1. o \in Outputs /\ ~o.success
    BY DEF Output, Outputs, Errors, Signatures
  <2>2. n = act_finished(s, o)
    BY <1>21
  <2> HIDE DEF o, n
  <2>3. act_finished(s, o) \in Machines /\ Good(act_finished(s, o))
    BY <1>9, <1>10, <2>1, FinishGood DEF Under, Sound, Phases, Heard
  <2>4. n \in Machines /\ Good(n)
    BY <2>2, <2>3
  <2> QED BY <2>4 DEF n, s, e, y
<1>22. CASE e \in {"Crashed", "FailedToStart", "WriteError"} /\ n = procEnded(s, FALSE)
  <2>1. s.g.proc.state # "none" /\ ~s.g.proc.startTrigger
    BY <1>4, <1>6, <1>11, <1>22 DEF Relayed
  <2>a. s.g.proc.state = "Running" => s.g.child.deaf
    BY <1>7, <1>11, <1>22 DEF Ominous
  <2>2. procEnded(s, FALSE) \in Machines /\ Good(procEnded(s, FALSE))
    BY <1>9, <1>10, <2>1, <2>a, ProcEndedGood
  <2> HIDE DEF n
  <2>3. n \in Machines /\ Good(n)
    BY <1>22, <2>2
  <2> QED BY <2>3 DEF n, s, e, y
<1>23. e # "started"
  BY DEF e
<1>24. \/ e = "bytesWrittenStdin" /\ n = bytesWritten(s, "stdin")
       \/ e = "bytesWrittenAux" /\ n = bytesWritten(s, "aux")
       \/ e = "readyReadStdout" /\ n = readyReadStdout(s)
       \/ e = "finished" /\ n = procEnded(s, TRUE)
       \/ e \in Prompts /\ n = act_need(s, e)
       \/ e = "startError" /\ n = act_finished(s, Output(FALSE, "Process", "none"))
       \/ e \in {"Crashed", "FailedToStart", "WriteError"} /\ n = procEnded(s, FALSE)
  BY <1>4, <1>23, SlotCases
<1> QED BY <1>15, <1>16, <1>18, <1>19, <1>20, <1>21, <1>22, <1>24

LEMMA HandleEventKept == IInv /\ HandleEvent => IInv'
<1> SUFFICES ASSUME IInv, HandleEvent PROVE IInv'
  OBVIOUS
<1>1. Running /\ g.queue # <<>> /\ Become(Slot([State EXCEPT !.g.queue = Tail(@)], Head(g.queue)))
  BY DEF HandleEvent
<1> DEFINE s == [State EXCEPT !.g = Popped(g)]
           n == Slot(s, Head(g.queue))
<1>2. [State EXCEPT !.g.queue = Tail(@)] = s
  BY DEF State, Popped
<1>3. Become(n)
  BY <1>1, <1>2
<1>4. CASE Head(g.queue) = "started"
  <2> DEFINE x == [State EXCEPT !.g = proc_started(Popped(g))]
  <2>1. x \in Machines /\ Good(x)
    BY <1>1, <1>4, HandleStarted
  <2>2. n = [s EXCEPT !.g = proc_started(@)]
    <3>1. "started" \in Events
      BY DEF Events, Relayed
    <3> HIDE DEF s
    <3>2. Slot(s, "started") = [s EXCEPT !.g = proc_started(@)]
      BY <3>1, SlotCases DEF Prompts
    <3> QED BY <1>4, <3>2
  <2>3. n = x
    BY <2>2 DEF State
  <2> HIDE DEF n, x
  <2> QED BY <1>3, <2>1, <2>3, BecomeState
<1>5. CASE Head(g.queue) # "started"
  <2>1. n \in Machines /\ Good(n)
    BY <1>1, <1>5, HandleOther
  <2> HIDE DEF n
  <2> QED BY <1>3, <2>1, BecomeState
<1> QED BY <1>4, <1>5

------------------------------------------------------------------------------
(* The gpg program                                                         *)

LEMMA ChildMove ==
  ASSUME IInv, ChildRuns, NEW x \in Sessions, Sound(x, app), Pending(x) = Pending(g),
         Len(Data(x)) = Len(Data(g)), g' = x, UNCHANGED <<op, ctx, msg, asker, app>>
  PROVE  IInv'
<1>1. Running /\ g.proc.state = "Running"
  BY DEF ChildRuns
<1>2. op.act
  BY <1>1, ActBusy DEF NoProc
<1>3. Become([State EXCEPT !.g = x])
  <2> DEFINE t == [State EXCEPT !.g = x]
  <2>1. t.g = x /\ t.op = op /\ t.ctx = ctx /\ t.msg = msg /\ t.asker = asker /\ t.app = app
    BY DEF State
  <2> HIDE DEF t
  <2>2. Become(t)
    BY <2>1 DEF Become
  <2> QED BY <2>2 DEF t
<1> QED BY <1>1, <1>2, <1>3, SessionKept

LEMMA ChildSound ==
  ASSUME IInv, ChildRuns
  PROVE  g \in Sessions /\ Sound(g, app) /\ g.proc.state = "Running"
<1>1. Running /\ g.proc.state = "Running"
  BY DEF ChildRuns
<1>2. op.act
  BY <1>1, ActBusy DEF NoProc
<1> QED BY <1>1, <1>2, ActBusy

LEMMA ChildPosts ==
  ASSUME IInv, ChildRuns, UNCHANGED <<op, ctx, msg, asker, app>>,
         NEW k \in Children, k.status = g.child.status, k.said = g.child.said,
         k.given = g.child.given, k.eof = g.child.eof, k.end = g.child.end,
         NEW p \in Seq({"readyReadStdout", "WriteError"}),
         g' = [g EXCEPT !.child = k, !.queue = g.queue \o p],
         k.unheard # <<>> => k.deaf, g.child.deaf => k.deaf,
         \A i \in 1..Len(p) : p[i] = "WriteError" => k.deaf
  PROVE  IInv'
<1> DEFINE x == [g EXCEPT !.child = k, !.queue = g.queue \o p]
<1>1. g \in Sessions /\ Sound(g, app) /\ g.proc.state = "Running"
  BY ChildSound
<1>2. p \in Seq(Events) /\ \A i \in 1..Len(p) : p[i] \notin Ominous
  BY DEF Events, Relayed, Ominous
<1>3. g.queue \in Seq(Events) /\ g.queue \o p \in Seq(Events)
  BY <1>1, <1>2, SessionFields
<1>4. /\ x.child = k /\ x.proc = g.proc /\ x.queue = g.queue \o p /\ Listening(x)
  BY <1>1 DEF Sessions, Listening
<1>5. Heard(x)
  <2>1. Heard(g)
    BY <1>1 DEF Sound, Phases
  <2>2. /\ \A i \in 1..Len(x.queue) : x.queue[i] = IF i <= Len(g.queue) THEN g.queue[i] ELSE p[i - Len(g.queue)]
        /\ \A i \in 1..Len(x.queue) : IF i <= Len(g.queue) THEN i \in 1..Len(g.queue)
                                      ELSE i - Len(g.queue) \in 1..Len(p)
    BY <1>2, <1>3, <1>4, MoreEvents
  <2> HIDE DEF x
  <2>3. \A i \in 1..Len(x.queue) : /\ x.queue[i] \in Ominous => x.proc.state # "Running"
                                   /\ x.queue[i] = "WriteError" => x.child.deaf
    BY <1>2, <1>4, <2>1, <2>2 DEF Heard
  <2> QED BY <1>1, <1>4, <2>1, <2>3 DEF Heard
<1>6. x \in Sessions /\ Sound(x, app) /\ Pending(x) = Pending(g) /\ Len(Data(x)) = Len(Data(g))
  BY <1>1, <1>5, PostSound
<1>7. g' = x
  OBVIOUS
<1> HIDE DEF x
<1> QED BY <1>6, <1>7, ChildMove

LEMMA ChildSaysKept == IInv /\ ChildSays => IInv'
<1> SUFFICES ASSUME IInv, ChildSays PROVE IInv'
  OBVIOUS
<1>1. ChildRuns /\ UNCHANGED <<op, ctx, msg, asker, app>>
  BY DEF ChildSays
<1>2. PICK l \in Lines :
        g' = IF g.proc.fin_status THEN [g EXCEPT !.child.unheard = Append(@, l)]
             ELSE [g EXCEPT !.child.status = Append(@, l), !.child.said = Append(@, l)]
  BY DEF ChildSays
<1>3. l \in StatusLines
  BY LinesAssumption
<1>4. CASE ~g.proc.fin_status
  <2> DEFINE x == [g EXCEPT !.child.status = Append(@, l), !.child.said = Append(@, l)]
  <2>1. x \in Sessions /\ Sound(x, app) /\ Pending(x) = Pending(g) /\ Len(Data(x)) = Len(Data(g))
    BY <1>1, <1>3, <1>4, ChildSound, SaysSound
  <2>2. g' = x
    BY <1>2, <1>4
  <2> HIDE DEF x
  <2> QED BY <1>1, <2>1, <2>2, ChildMove
<1>5. CASE g.proc.fin_status
  <2> DEFINE u == Append(g.child.unheard, l)
             k == [g.child EXCEPT !.unheard = u]
             p == <<>>
  <2>1. g \in Sessions /\ g.child \in Children
    BY <1>1, ChildSound, SessionFields
  <2>2. u \in Seq(StatusLines)
    BY <1>3, <2>1 DEF Children
  <2>3. g' = [g EXCEPT !.child = k]
    BY <1>2, <1>5
  <2> HIDE DEF u
  <2>4. /\ k \in Children /\ k.status = g.child.status /\ k.said = g.child.said
        /\ k.given = g.child.given /\ k.eof = g.child.eof /\ k.end = g.child.end
        /\ k.deaf = g.child.deaf
    BY <2>1, <2>2 DEF Children
  <2>5. p \in Seq({"readyReadStdout", "WriteError"}) /\ g.queue \o p = g.queue
    BY <2>1, SessionFields
  <2> HIDE DEF k, p
  <2>6. g' = [g EXCEPT !.child = k, !.queue = g.queue \o p]
    BY <2>1, <2>3, <2>5 DEF Sessions
  <2>7. k.deaf
    BY <1>1, <1>5, <2>4, ChildSound DEF Sound, Phases, Heard
  <2>8. Len(p) = 0
    BY DEF p
  <2> QED BY <1>1, <2>4, <2>5, <2>6, <2>7, <2>8, ChildPosts
<1> QED BY <1>4, <1>5

LEMMA ChildWritesKept == IInv /\ ChildWrites => IInv'
<1> SUFFICES ASSUME IInv, ChildWrites PROVE IInv'
  OBVIOUS
<1> DEFINE k == [g.child EXCEPT !.output = TRUE]
           p == <<"readyReadStdout">>
<1>1. /\ ChildRuns /\ UNCHANGED <<op, ctx, msg, asker, app>>
      /\ g' = [g EXCEPT !.child = k, !.queue = Append(@, "readyReadStdout")]
  BY DEF ChildWrites
<1>2. g \in Sessions /\ g.child \in Children /\ g.queue \in Seq(Events)
  BY <1>1, ChildSound, SessionFields
<1>3. /\ k \in Children /\ k.status = g.child.status /\ k.said = g.child.said
      /\ k.given = g.child.given /\ k.eof = g.child.eof /\ k.end = g.child.end
      /\ k.unheard = g.child.unheard /\ k.deaf = g.child.deaf
  BY <1>2 DEF Children
<1>4. p \in Seq({"readyReadStdout", "WriteError"}) /\ Append(g.queue, "readyReadStdout") = g.queue \o p
      /\ Len(p) = 1 /\ p[1] # "WriteError"
  BY <1>2 DEF Events, Relayed
<1> HIDE DEF k, p
<1>5. g' = [g EXCEPT !.child = k, !.queue = g.queue \o p]
  BY <1>1, <1>4
<1>6. g.child.unheard # <<>> => g.child.deaf
  BY <1>1, ChildSound DEF Sound, Phases, Heard, Listening
<1>7. \A i \in 1..Len(p) : p[i] # "WriteError"
  BY <1>4
<1>8. (k.unheard # <<>> => k.deaf) /\ (g.child.deaf => k.deaf)
  BY <1>3, <1>6
<1> QED BY <1>1, <1>3, <1>4, <1>5, <1>7, <1>8, ChildPosts

LEMMA WriteFailsKept == IInv /\ WriteFails => IInv'
<1> SUFFICES ASSUME IInv, WriteFails PROVE IInv'
  OBVIOUS
<1> DEFINE k == [g.child EXCEPT !.deaf = TRUE]
           p == <<"WriteError">>
<1>1. /\ ChildRuns /\ UNCHANGED <<op, ctx, msg, asker, app>>
      /\ g' = [g EXCEPT !.child = k, !.queue = Append(@, "WriteError")]
  BY DEF WriteFails
<1>2. g \in Sessions /\ g.child \in Children /\ g.queue \in Seq(Events)
  BY <1>1, ChildSound, SessionFields
<1>3. /\ k \in Children /\ k.status = g.child.status /\ k.said = g.child.said
      /\ k.given = g.child.given /\ k.eof = g.child.eof /\ k.end = g.child.end
      /\ k.deaf
  BY <1>2 DEF Children
<1>4. p \in Seq({"readyReadStdout", "WriteError"}) /\ Append(g.queue, "WriteError") = g.queue \o p
  BY <1>2 DEF Events, Relayed
<1> HIDE DEF k, p
<1>5. g' = [g EXCEPT !.child = k, !.queue = g.queue \o p]
  BY <1>1, <1>4
<1> QED BY <1>1, <1>3, <1>4, <1>5, ChildPosts

LEMMA ChildEndsKept ==
  ASSUME IInv, NEW how \in Over, NEW p \in Seq(Silent), ChildEnds(how, p),
         \A i \in 1..Len(p) : p[i] # "WriteError"
  PROVE  IInv'
<1> DEFINE x == [g EXCEPT !.child.end = how, !.proc.state = "NotRunning", !.queue = @ \o p]
<1>1. ChildRuns /\ g' = x /\ UNCHANGED <<op, ctx, msg, asker, app>>
  BY DEF ChildEnds
<1>2. x \in Sessions /\ Sound(x, app) /\ Pending(x) = Pending(g) /\ Len(Data(x)) = Len(Data(g))
  BY <1>1, ChildSound, EndSound
<1> HIDE DEF x
<1> QED BY <1>1, <1>2, ChildMove

LEMMA ChildOverKept == IInv /\ (ChildExits \/ ChildFails) => IInv'
<1> SUFFICES ASSUME IInv, ChildExits \/ ChildFails PROVE IInv'
  OBVIOUS
<1> DEFINE f == <<"finished">>
           c == <<"Crashed", "finished">>
<1>1. /\ f \in Seq(Silent) /\ c \in Seq(Silent)
      /\ \A i \in 1..Len(f) : f[i] # "WriteError"
      /\ \A i \in 1..Len(c) : c[i] # "WriteError"
  BY DEF Silent, Events, Relayed
<1>2. (\E how \in {"ok", "error"} : ChildEnds(how, f)) \/ ChildEnds("error", f) \/ ChildEnds("crash", c)
  BY DEF ChildExits, ChildFails
<1> HIDE DEF f, c
<1>3. {"ok", "error", "crash"} = Over
  BY DEF Over
<1> QED BY <1>1, <1>2, <1>3, ChildEndsKept

------------------------------------------------------------------------------
(* Signals to the application                                              *)

(* Sound() reads three members of the application's record *)
LEMMA SoundApp ==
  ASSUME NEW x, NEW a, NEW b, Sound(x, a), b.sent = a.sent, b.ended = a.ended,
         b.crossed = a.crossed
  PROVE  Sound(x, b)
  BY DEF Sound, Feed, InOrder

LEMMA MachineBecome ==
  ASSUME NEW n \in Machines, g' = n.g, op' = n.op, ctx' = n.ctx, msg' = n.msg, asker' = n.asker,
         app' = n.app
  PROVE  Become(n)
  BY DEF Become

LEMMA ReadyReadKept == IInv /\ ReadyRead => IInv'
<1> SUFFICES ASSUME IInv, ReadyRead PROVE IInv'
  OBVIOUS
<1> DEFINE m == [msg EXCEPT !.readyReadTrigger = FALSE]
           n == [g |-> g, op |-> op, ctx |-> ctx, msg |-> m, asker |-> asker, app |-> app]
<1>1. g' = g /\ op' = op /\ ctx' = ctx /\ msg' = m /\ asker' = asker /\ app' = app
  BY DEF ReadyRead
<1>2. /\ ctx \in ContextStates /\ msg \in MessageStates /\ app \in AppStates
      /\ asker \in [Prompts -> {"idle", "asking"}] /\ Good(State)
      /\ g \in Sessions /\ op \in OpStates
  BY StateFields, MachineFields DEF IInv
<1>3. m \in MessageStates /\ m.success = msg.success /\ m.signer = msg.signer
      /\ m.bytesWrittenArgs = msg.bytesWrittenArgs /\ m.bytesWrittenTrigger = msg.bytesWrittenTrigger
      /\ m.finishedTrigger = msg.finishedTrigger
  BY <1>2 DEF MessageStates
<1> HIDE DEF m
<1>4. /\ n \in Machines /\ Become(n) /\ n.g = g /\ n.op = op /\ n.ctx = ctx /\ n.msg = m
      /\ n.app = app
  <2>1. n.g = g /\ n.op = op /\ n.ctx = ctx /\ n.msg = m /\ n.asker = asker /\ n.app = app
    OBVIOUS
  <2>2. n \in Machines
    BY <1>2, <1>3 DEF Machines
  <2> HIDE DEF n
  <2>3. Become(n)
    BY <1>1, <2>1, <2>2, MachineBecome
  <2> QED BY <2>1, <2>2, <2>3
<1> HIDE DEF n
<1>5. Busy(State) => Busy(n)
  BY <1>3, <1>4, StateFields DEF Busy, Calm
<1>6. Ended(State) => Ended(n)
  BY <1>3, <1>4, StateFields DEF Ended
<1>7. Rest(n)
  BY <1>2, <1>3, <1>4, StateFields DEF Good, Rest, Counted
<1>8. Good(n)
  BY <1>2, <1>4, <1>5, <1>6, <1>7, StateFields DEF Good
<1> QED BY <1>4, <1>8, BecomeState

LEMMA BytesWrittenKept == IInv /\ BytesWritten => IInv'
<1> SUFFICES ASSUME IInv, BytesWritten PROVE IInv'
  OBVIOUS
<1> DEFINE t == Tail(msg.bytesWrittenArgs)
           h == Head(msg.bytesWrittenArgs)
           m == [msg EXCEPT !.bytesWrittenTrigger = FALSE, !.bytesWrittenArgs = Tail(@)]
           a == [app EXCEPT !.reported = @ + Head(msg.bytesWrittenArgs)]
           n == [g |-> g, op |-> op, ctx |-> ctx, msg |-> m, asker |-> asker, app |-> a]
<1>1. /\ g' = g /\ op' = op /\ ctx' = ctx /\ msg' = m /\ asker' = asker /\ app' = a
      /\ msg.bytesWrittenTrigger
  BY DEF BytesWritten
<1>2. /\ ctx \in ContextStates /\ msg \in MessageStates /\ app \in AppStates
      /\ asker \in [Prompts -> {"idle", "asking"}] /\ Good(State) /\ State \in Machines
      /\ g \in Sessions /\ op \in OpStates
  BY StateFields, MachineFields DEF IInv
<1>3. Counted(State)
  BY <1>2 DEF Good, Rest
<1>4. msg.bytesWrittenArgs \in Seq(Nat) /\ msg.bytesWrittenArgs # <<>>
  BY <1>1, <1>2, <1>3, StateFields DEF Counted, MessageStates
<1>5. t \in Seq(Nat) /\ h \in Nat
  BY <1>4
<1>6. Total(msg.bytesWrittenArgs) = h + Total(t)
  <2>1. msg.bytesWrittenArgs \in Seq(Int)
    BY <1>4
  <2> QED BY <1>4, <2>1, TotalTail
<1> HIDE DEF t, h
<1>7. m = [msg EXCEPT !.bytesWrittenTrigger = FALSE, !.bytesWrittenArgs = t] /\ a = [app EXCEPT !.reported = @ + h]
  BY DEF t, h
<1> HIDE DEF m, a
<1>8. m \in MessageStates /\ m.success = msg.success /\ m.signer = msg.signer
      /\ m.bytesWrittenArgs = t /\ ~m.bytesWrittenTrigger
      /\ m.finishedTrigger = msg.finishedTrigger
  BY <1>2, <1>5, <1>7 DEF MessageStates
<1>9. /\ a \in AppStates /\ a.reported = app.reported + h /\ a.told = app.told /\ a.late = app.late
      /\ a.mode = app.mode /\ a.sent = app.sent /\ a.ended = app.ended /\ a.crossed = app.crossed
  BY <1>2, <1>5, <1>7 DEF AppStates
<1>10. /\ n \in Machines /\ Become(n) /\ n.g = g /\ n.op = op /\ n.ctx = ctx /\ n.msg = m
       /\ n.app = a
  <2>1. n.g = g /\ n.op = op /\ n.ctx = ctx /\ n.msg = m /\ n.asker = asker /\ n.app = a
    OBVIOUS
  <2>2. n \in Machines
    BY <1>2, <1>8, <1>9 DEF Machines
  <2> HIDE DEF n
  <2>3. Become(n)
    BY <1>1, <2>1, <2>2, MachineBecome
  <2> QED BY <2>1, <2>2, <2>3
<1> HIDE DEF n
<1>11. Busy(State) => Busy(n)
  <2>1. Sound(g, app) => Sound(g, a)
    BY <1>9, SoundApp
  <2> QED BY <1>8, <1>9, <1>10, <2>1, StateFields DEF Busy, Calm
<1>12. Ended(State) => Ended(n)
  BY <1>8, <1>9, <1>10, StateFields DEF Ended
<1>13. Counted(n)
  <2>1. app.reported \in Nat /\ ctx.wrote \in Nat /\ Pending(g) \in Nat /\ Len(Data(g)) \in Nat
    BY <1>2, StateFields, CountFields
  <2>2. Total(t) \in Nat
    BY <1>5, TotalNat
  <2>3. app.reported + Total(msg.bytesWrittenArgs) + ctx.wrote + Pending(g) <= Len(Data(g))
    BY <1>3, StateFields DEF Counted
  <2>4. (app.reported + h) + Total(t) + ctx.wrote + Pending(g) <= Len(Data(g))
    BY <1>5, <1>6, <2>1, <2>2, <2>3
  <2> QED BY <1>8, <1>9, <1>10, <2>4 DEF Counted
<1>14. Rest(n)
  BY <1>2, <1>9, <1>10, <1>13, StateFields DEF Good, Rest
<1>15. Good(n)
  BY <1>2, <1>10, <1>11, <1>12, <1>14, StateFields DEF Good
<1> QED BY <1>10, <1>15, BecomeState

LEMMA FinishedKept == IInv /\ Finished => IInv'
<1> SUFFICES ASSUME IInv, Finished PROVE IInv'
  OBVIOUS
<1> DEFINE m == [msg EXCEPT !.finishedTrigger = FALSE]
           a == [app EXCEPT !.told = @ + 1, !.open = FALSE]
           n == [g |-> g, op |-> op, ctx |-> ctx, msg |-> m, asker |-> asker, app |-> a]
<1>1. /\ g' = g /\ op' = op /\ ctx' = ctx /\ msg' = m /\ asker' = asker /\ app' = a
      /\ msg.finishedTrigger /\ app.mode = "calls"
  BY DEF Finished
<1>2. /\ ctx \in ContextStates /\ msg \in MessageStates /\ app \in AppStates
      /\ asker \in [Prompts -> {"idle", "asking"}] /\ Good(State)
      /\ g \in Sessions /\ op \in OpStates
  BY StateFields, MachineFields DEF IInv
<1>3. m \in MessageStates /\ m.success = msg.success /\ m.signer = msg.signer
      /\ m.bytesWrittenArgs = msg.bytesWrittenArgs /\ m.bytesWrittenTrigger = msg.bytesWrittenTrigger
      /\ ~m.finishedTrigger
  BY <1>2 DEF MessageStates
<1>4. a \in AppStates /\ a.reported = app.reported /\ a.told = app.told + 1 /\ a.late = app.late
      /\ a.mode = app.mode
  <2>1. app.told \in Nat /\ app.told + 1 \in Nat
    BY <1>2 DEF AppStates
  <2> DEFINE t == app.told + 1
  <2>2. a = [app EXCEPT !.told = t, !.open = FALSE] /\ t \in Nat
    BY <2>1
  <2> HIDE DEF t, a
  <2>3. a \in AppStates
    BY <1>2, <2>2 DEF AppStates
  <2>4. a.told = t /\ a.reported = app.reported /\ a.late = app.late /\ a.mode = app.mode
    BY <1>2, <2>2 DEF AppStates
  <2> QED BY <2>3, <2>4 DEF t
<1> HIDE DEF m, a
<1>5. n.g = g /\ n.op = op /\ n.ctx = ctx /\ n.msg = m /\ n.asker = asker /\ n.app = a
  OBVIOUS
<1>6. n \in Machines
  BY <1>2, <1>3, <1>4 DEF Machines
<1> HIDE DEF n
<1>7. Become(n)
  BY <1>1, <1>5, <1>6, MachineBecome
<1>8. ~op.act
  BY <1>1, <1>2, StateFields DEF Good, Busy, Calm
<1>9. Ended(State) /\ op.events = <<>>
  BY <1>1, <1>2, <1>8, StateFields DEF Good, Rest
<1>10. app.late \/ app.told = 0
  BY <1>1, <1>9, StateFields DEF Ended, EndsIn
<1>11. Ended(n)
  <2>1. n.op.events = <<>> /\ (n.app.late \/ (n.app.told = 1 /\ ~n.msg.finishedTrigger))
    BY <1>3, <1>4, <1>5, <1>9, <1>10
  <2> QED BY <1>3, <1>5, <1>9, <2>1, StateFields DEF Ended
<1>12. Rest(n)
  BY <1>2, <1>3, <1>4, <1>5, StateFields DEF Good, Rest, Counted
<1>13. Good(n)
  BY <1>5, <1>8, <1>11, <1>12 DEF Good
<1> QED BY <1>6, <1>7, <1>13, BecomeState

LEMMA WaitKept == IInv /\ waitForFinished => IInv'
<1> SUFFICES ASSUME IInv, waitForFinished PROVE IInv'
  OBVIOUS
<1> DEFINE a == [app EXCEPT !.mode = "waiting"]
           n == [g |-> g, op |-> op, ctx |-> ctx, msg |-> msg, asker |-> asker, app |-> a]
<1>1. g' = g /\ op' = op /\ ctx' = ctx /\ msg' = msg /\ asker' = asker /\ app' = a
  BY DEF waitForFinished
<1>2. /\ ctx \in ContextStates /\ msg \in MessageStates /\ app \in AppStates
      /\ asker \in [Prompts -> {"idle", "asking"}] /\ Good(State)
      /\ g \in Sessions /\ op \in OpStates
  BY StateFields, MachineFields DEF IInv
<1>3. /\ a \in AppStates /\ a.reported = app.reported /\ a.told = app.told /\ a.late = app.late
      /\ a.mode = "waiting" /\ a.sent = app.sent /\ a.ended = app.ended /\ a.crossed = app.crossed
  BY <1>2 DEF AppStates
<1> HIDE DEF a
<1>4. n.g = g /\ n.op = op /\ n.ctx = ctx /\ n.msg = msg /\ n.asker = asker /\ n.app = a
  OBVIOUS
<1>5. n \in Machines
  BY <1>2, <1>3 DEF Machines
<1> HIDE DEF n
<1>6. Become(n)
  BY <1>1, <1>4, <1>5, MachineBecome
<1>7. Busy(State) => Busy(n)
  <2>1. Sound(g, app) => Sound(g, a)
    BY <1>3, SoundApp
  <2> QED BY <1>3, <1>4, <2>1, StateFields DEF Busy, Calm
<1>8. Ended(State) => Ended(n)
  BY <1>3, <1>4, StateFields DEF Ended
<1>9. Rest(n)
  BY <1>2, <1>3, <1>4, StateFields DEF Good, Rest, Counted
<1>10. Good(n)
  BY <1>2, <1>4, <1>7, <1>8, <1>9, StateFields DEF Good
<1> QED BY <1>5, <1>6, <1>10, BecomeState

------------------------------------------------------------------------------
(* Calls of the application                                                *)

LEMMA MsgResetFields ==
  ASSUME IInv
  PROVE  LET r == msgReset(State)
         IN  /\ r \in Machines /\ r.g = g /\ r.op = op /\ r.asker = asker /\ r.app = app
             /\ r.ctx.wrote = 0 /\ r.ctx.ok = FALSE /\ r.ctx.finished = ctx.finished
<1> DEFINE c == [ctx EXCEPT !.wrote = 0, !.ok = FALSE, !.signer = "none"]
           m == [msg EXCEPT !.bytesWrittenArgs = <<>>, !.readyReadTrigger = FALSE,
                            !.bytesWrittenTrigger = FALSE, !.finishedTrigger = FALSE]
           r == msgReset(State)
<1>1. r = [State EXCEPT !.ctx = c, !.msg = m]
  BY StateFields DEF msgReset
<1>2. State \in Machines /\ ctx \in ContextStates /\ msg \in MessageStates
  BY StateFields, MachineFields DEF IInv
<1>3. c \in ContextStates /\ c.wrote = 0 /\ c.ok = FALSE /\ c.finished = ctx.finished
  BY <1>2 DEF ContextStates, Signatures
<1>4. m \in MessageStates
  <2>1. <<>> \in Seq(Nat)
    OBVIOUS
  <2> QED BY <1>2, <2>1 DEF MessageStates
<1> HIDE DEF c, m, r
<1>5. r \in Machines /\ r.g = State.g /\ r.op = State.op /\ r.ctx = c /\ r.asker = State.asker
      /\ r.app = State.app
  BY <1>1, <1>2, <1>3, <1>4 DEF Machines
<1> QED BY <1>3, <1>5, StateFields DEF r

LEMMA NewMessageFacts ==
  /\ NewMessage \in MessageStates /\ ~NewMessage.success /\ NewMessage.signer = "none"
  /\ ~NewMessage.finishedTrigger /\ ~NewMessage.bytesWrittenTrigger
  /\ NewMessage.bytesWrittenArgs = <<>>
<1>1. <<>> \in Seq(Nat)
  OBVIOUS
<1> QED BY <1>1 DEF NewMessage, MessageStates, Errors, Signatures

LEMMA ResetKept == IInv /\ Reset => IInv'
<1> SUFFICES ASSUME IInv, Reset PROVE IInv'
  OBVIOUS
<1> DEFINE r == msgReset(State)
           a == [app EXCEPT !.open = FALSE]
           c == r.ctx
           n == [r EXCEPT !.msg = NewMessage, !.app.open = FALSE]
<1>1. app.mode = "calls" /\ Become(n)
  BY DEF Reset
<1>2. /\ r \in Machines /\ r.g = g /\ r.op = op /\ r.asker = asker /\ r.app = app
      /\ c.wrote = 0 /\ c.ok = FALSE /\ c.finished = ctx.finished
  BY MsgResetFields
<1> HIDE DEF r, c
<1>3. n = [r EXCEPT !.msg = NewMessage, !.app = a]
  BY <1>2 DEF Machines
<1>4. app \in AppStates /\ Good(State) /\ State \in Machines
  BY StateFields, MachineFields DEF IInv
<1>5. c \in ContextStates /\ r.ctx = c
  BY <1>2, MachineFields DEF c
<1>6. /\ a \in AppStates /\ a.reported = app.reported /\ a.told = app.told /\ a.late = app.late
      /\ a.mode = app.mode /\ a.sent = app.sent /\ a.ended = app.ended /\ a.crossed = app.crossed
  BY <1>4 DEF AppStates
<1>7. NewMessage \in MessageStates /\ ~NewMessage.success /\ NewMessage.signer = "none"
      /\ ~NewMessage.finishedTrigger /\ ~NewMessage.bytesWrittenTrigger
      /\ NewMessage.bytesWrittenArgs = <<>>
  BY NewMessageFacts
<1> HIDE DEF a, n
<1>8. n \in Machines /\ n.msg = NewMessage /\ n.app = a /\ n.g = r.g /\ n.op = r.op /\ n.ctx = r.ctx
  BY <1>2, <1>3, <1>6, <1>7 DEF Machines
<1>9. n.g = g /\ n.op = op /\ n.ctx = c
  BY <1>2, <1>5, <1>8
<1>10. Busy(State) => Busy(n)
  <2>1. Sound(g, app) => Sound(g, a)
    BY <1>6, SoundApp
  <2> QED BY <1>2, <1>6, <1>7, <1>8, <1>9, <2>1, StateFields DEF Busy, Calm
<1>11. op.events = <<>>
  BY <1>1, <1>4, StateFields DEF Good, Rest
<1>12. Ended(State) => Ended(n)
  <2>1. ASSUME Ended(State) PROVE app.late \/ app.told = 0 \/ app.told = 1
    BY <2>1, StateFields DEF Ended
  <2> QED BY <1>6, <1>7, <1>8, <1>9, <1>11, <2>1, StateFields DEF Ended, Earned
<1>13. Counted(n)
  <2>1. /\ app.reported \in Nat /\ Total(msg.bytesWrittenArgs) \in Nat /\ ctx.wrote \in Nat
        /\ Pending(g) \in Nat /\ Len(Data(g)) \in Nat
    BY <1>4, StateFields, CountFields
  <2>2. app.reported + Total(msg.bytesWrittenArgs) + ctx.wrote + Pending(g) <= Len(Data(g))
    BY <1>4, StateFields DEF Good, Rest, Counted
  <2>3. app.reported + 0 + 0 + Pending(g) <= Len(Data(g))
    BY <2>1, <2>2
  <2> QED BY <1>2, <1>6, <1>7, <1>8, <1>9, <2>3, NoneTotal DEF Counted
<1>14. Rest(n)
  BY <1>2, <1>9, <1>11, <1>13 DEF Rest
<1>15. Good(n)
  BY <1>4, <1>9, <1>10, <1>12, <1>14, StateFields DEF Good
<1> QED BY <1>1, <1>8, <1>15, BecomeState

LEMMA StartKept == IInv /\ Start => IInv'
<1> SUFFICES ASSUME IInv, Start PROVE IInv'
  OBVIOUS
<1>1. PICK k \in Ops, pipes \in BOOLEAN :
         Become([msgReset(State) EXCEPT
             !.msg = NewMessage, !.ctx.finished = FALSE,
             !.op = [NewOp EXCEPT !.act = TRUE],
             !.g = startAction(k, pipes),
             !.app = [NewApp EXCEPT !.starts = app.starts + 1, !.open = TRUE]])
  BY DEF Start
<1> DEFINE r == msgReset(State)
           x == startAction(k, pipes)
           o == [NewOp EXCEPT !.act = TRUE]
           c == [r.ctx EXCEPT !.finished = FALSE]
           a == [NewApp EXCEPT !.starts = app.starts + 1, !.open = TRUE]
           n == [r EXCEPT !.msg = NewMessage, !.ctx.finished = FALSE, !.op = o, !.g = x, !.app = a]
<1>2. Become(n)
  BY <1>1
<1>3. r \in Machines /\ r.ctx \in ContextStates /\ r.ctx.wrote = 0 /\ r.ctx.ok = FALSE
  BY MsgResetFields, MachineFields
<1>4. a \in AppStates /\ a.reported = 0 /\ a.told = 0 /\ a.sent = 0
  <2> DEFINE t == app.starts + 1
  <2>1. t \in Nat
    BY StateFields, MachineFields DEF AppStates, IInv
  <2>2. a = [NewApp EXCEPT !.starts = t, !.open = TRUE]
    OBVIOUS
  <2> HIDE DEF t, a
  <2> QED BY <2>1, <2>2 DEF AppStates, NewApp
<1>5. o \in OpStates /\ o.act /\ o.events = <<>>
  <2>1. <<>> \in Seq(Prompts \cup {"finished"})
    OBVIOUS
  <2>2. NoOutput \in Outputs
    BY DEF NoOutput, Outputs, Output, Errors, Signatures
  <2> QED BY <2>1, <2>2 DEF NewOp, OpStates
<1>6. x \in Sessions /\ Sound(x, a) /\ Pending(x) = 0 /\ Data(x) = <<>>
  <2>1. k \in Kinds
    BY OpsAssumption
  <2> HIDE DEF a
  <2> QED BY <1>4, <2>1, StartActionSound
<1> HIDE DEF r, x, o, a
<1>7. c \in ContextStates /\ c.wrote = 0 /\ c.ok = FALSE /\ c.finished = FALSE
  BY <1>3 DEF ContextStates
<1>8. n = [r EXCEPT !.msg = NewMessage, !.ctx = c, !.op = o, !.g = x, !.app = a]
  BY <1>3 DEF Machines
<1> HIDE DEF c, n
<1>9. n \in Machines /\ n.g = x /\ n.op = o /\ n.ctx = c /\ n.msg = NewMessage /\ n.app = a
  BY <1>3, <1>4, <1>5, <1>6, <1>7, <1>8, NewMessageFacts DEF Machines
<1>10. Busy(n)
  BY <1>4, <1>5, <1>6, <1>7, <1>9, NewMessageFacts DEF Busy, Calm, NoEnd
<1>11. Counted(n)
  <2>1. Len(Data(x)) = 0
    BY <1>6
  <2> QED BY <1>4, <1>6, <1>7, <1>9, <2>1, NoneTotal, NewMessageFacts DEF Counted
<1>12. Good(n)
  BY <1>5, <1>7, <1>9, <1>10, <1>11 DEF Good, Rest
<1> QED BY <1>2, <1>9, <1>12, BecomeState

LEMMA CallMove ==
  ASSUME IInv, Running, op.act, NEW x \in Sessions, NEW b \in AppStates, Sound(x, b),
         b.mode = app.mode, b.told = app.told, b.reported = app.reported,
         \/ Pending(x) + Len(Data(g)) = Pending(g) + Len(Data(x))
         \/ Pending(x) = Pending(g) /\ Len(Data(x)) = Len(Data(g))
  PROVE  LET n == [State EXCEPT !.g = x, !.app = b] IN n \in Machines /\ Good(n)
<1> DEFINE m == [State EXCEPT !.g = x]
           n == [State EXCEPT !.g = x, !.app = b]
<1>1. Under(State)
  BY ActBusy
<1>2. Under(m) /\ m.g = x /\ m.app = State.app
  BY <1>1, StateFields, SessionStep
<1>3. n = [m EXCEPT !.app = b]
  OBVIOUS
<1>4. m \in Machines
  BY <1>2 DEF Under
<1> HIDE DEF m, n
<1>5. n \in Machines /\ n.g = m.g /\ n.op = m.op /\ n.ctx = m.ctx /\ n.msg = m.msg /\ n.app = b
  BY <1>3, <1>4 DEF Machines
<1>6. Under(n)
  BY <1>2, <1>5, StateFields DEF Under, Calm, Rest, Counted
<1>7. n \in Machines /\ Good(n)
  BY <1>2, <1>5, <1>6, UnderGood
<1> QED BY <1>7 DEF n

(* Outside Crossing, a process that runs has seen proc_started() *)
LEMMA NotCrossing ==
  ASSUME IInv, Running, op.act, ~Crossing, g.proc.state = "Running"
  PROVE  Started(g)
<1>1. g \in Sessions /\ Sound(g, app) /\ g.queue \in Seq(Events)
  BY ActBusy, SessionFields
<1>2. ~g.proc.startTrigger
  BY <1>1 DEF Sound, Phases
<1>3. "started" \notin ToSet(g.queue)
  BY DEF Crossing
<1>4. \A i \in 1..Len(g.queue) : g.queue[i] # "started"
  BY <1>1, <1>3 DEF ToSet
<1> QED BY <1>2, <1>4 DEF Started

LEMMA UpdateKept == IInv /\ Update => IInv'
<1> SUFFICES ASSUME IInv, Update PROVE IInv'
  OBVIOUS
<1> DEFINE cr == app.crossed \/ Crossing
           x == write(g, Input(g), app.sent + 1)
           b == [app EXCEPT !.sent = @ + 1, !.crossed = cr]
           n == [State EXCEPT !.g = x, !.app = b]
<1>1. /\ app.mode = "calls" /\ ~app.ended
      /\ Become(IF ~op.act THEN Dead
                ELSE [State EXCEPT !.g = write(g, channel(State), app.sent + 1),
                                   !.app.sent = @ + 1, !.app.crossed = @ \/ Crossing])
  BY DEF Update
<1>2. Running
  BY <1>1 DEF Running
<1>3. CASE ~op.act
  <2>1. Become(Dead)
    BY <1>1, <1>3
  <2> QED BY <2>1, DeadGood, BecomeState
<1>4. CASE op.act
  <2>1. channel(State) = Input(g)
    BY StateFields DEF channel, Input
  <2>2. Become(n)
    <3>1. Become([State EXCEPT !.g = x, !.app.sent = @ + 1, !.app.crossed = @ \/ Crossing])
      BY <1>1, <1>4, <2>1
    <3> HIDE DEF x
    <3>2. [State EXCEPT !.g = x, !.app.sent = @ + 1, !.app.crossed = @ \/ Crossing] = n
      BY DEF State
    <3> QED BY <3>1, <3>2
  <2>3. app \in AppStates /\ app.sent \in Nat /\ app.crossed \in BOOLEAN
    BY StateFields, MachineFields DEF IInv, AppStates
  <2>4. cr \in BOOLEAN /\ (~cr => ~app.crossed /\ ~Crossing)
    BY <2>3
  <2> HIDE DEF cr
  <2>5. /\ b \in AppStates /\ b.sent = app.sent + 1 /\ b.ended = app.ended /\ b.crossed = cr
        /\ b.mode = app.mode /\ b.told = app.told /\ b.reported = app.reported
    <3> DEFINE t == app.sent + 1
    <3>1. t \in Nat /\ b = [app EXCEPT !.sent = t, !.crossed = cr]
      BY <2>3
    <3> HIDE DEF t, b
    <3>2. b \in AppStates
      BY <2>3, <2>4, <3>1 DEF AppStates
    <3>3. /\ b.sent = t /\ b.ended = app.ended /\ b.crossed = cr
          /\ b.mode = app.mode /\ b.told = app.told /\ b.reported = app.reported
      BY <2>3, <3>1 DEF AppStates
    <3> QED BY <3>2, <3>3 DEF t
  <2> HIDE DEF b
  <2>6. ~b.crossed => ~app.crossed /\ (g.proc.state = "Running" => Started(g))
    BY <1>2, <1>4, <2>4, <2>5, NotCrossing
  <2>7. g \in Sessions /\ Sound(g, app)
    BY <1>2, <1>4, ActBusy
  <2>8. /\ x \in Sessions /\ Sound(x, b)
        /\ Pending(x) \in Nat /\ Pending(x) + Len(Data(g)) = Pending(g) + Len(Data(x))
    BY <1>1, <2>3, <2>5, <2>6, <2>7, WriteSound
  <2> HIDE DEF x
  <2>9. n \in Machines /\ Good(n)
    BY <1>2, <1>4, <2>5, <2>8, CallMove
  <2> HIDE DEF n
  <2> QED BY <2>2, <2>9, BecomeState
<1> QED BY <1>3, <1>4

LEMMA EndKept == IInv /\ End => IInv'
<1> SUFFICES ASSUME IInv, End PROVE IInv'
  OBVIOUS
<1> DEFINE cr == app.crossed \/ Crossing
           x == closeChannel(g, Input(g))
           b == [app EXCEPT !.ended = TRUE, !.crossed = cr]
           n == [State EXCEPT !.g = x, !.app = b]
<1>1. /\ app.mode = "calls"
      /\ Become(IF ~op.act THEN Dead
                ELSE [State EXCEPT !.g = closeChannel(g, channel(State)),
                                   !.app.ended = TRUE, !.app.crossed = @ \/ Crossing])
  BY DEF End
<1>2. Running
  BY <1>1 DEF Running
<1>3. CASE ~op.act
  <2>1. Become(Dead)
    BY <1>1, <1>3
  <2> QED BY <2>1, DeadGood, BecomeState
<1>4. CASE op.act
  <2>1. channel(State) = Input(g)
    BY StateFields DEF channel, Input
  <2>2. Become(n)
    <3>1. Become([State EXCEPT !.g = x, !.app.ended = TRUE, !.app.crossed = @ \/ Crossing])
      BY <1>1, <1>4, <2>1
    <3> HIDE DEF x
    <3>2. [State EXCEPT !.g = x, !.app.ended = TRUE, !.app.crossed = @ \/ Crossing] = n
      BY DEF State
    <3> QED BY <3>1, <3>2
  <2>3. app \in AppStates /\ app.crossed \in BOOLEAN
    BY StateFields, MachineFields DEF IInv, AppStates
  <2>4. cr \in BOOLEAN /\ (~cr => ~app.crossed /\ ~Crossing)
    BY <2>3
  <2> HIDE DEF cr
  <2>5. /\ b \in AppStates /\ b.sent = app.sent /\ b.ended = TRUE /\ b.crossed = cr
        /\ b.mode = app.mode /\ b.told = app.told /\ b.reported = app.reported
    BY <2>3, <2>4 DEF AppStates
  <2> HIDE DEF b
  <2>6. ~b.crossed => ~app.crossed /\ (g.proc.state = "Running" => Started(g))
    BY <1>2, <1>4, <2>4, <2>5, NotCrossing
  <2>7. g \in Sessions /\ Sound(g, app)
    BY <1>2, <1>4, ActBusy
  <2>8. x \in Sessions /\ Sound(x, b) /\ Pending(x) = Pending(g) /\ Len(Data(x)) = Len(Data(g))
    BY <2>5, <2>6, <2>7, CloseSound
  <2> HIDE DEF x
  <2>9. n \in Machines /\ Good(n)
    BY <1>2, <1>4, <2>5, <2>8, CallMove
  <2> HIDE DEF n
  <2> QED BY <2>2, <2>9, BecomeState
<1> QED BY <1>3, <1>4

------------------------------------------------------------------------------
(* Answers of the user, and the waiter                                     *)

LEMMA SeterrorFields ==
  ASSUME NEW s \in Machines
  PROVE  LET n == seterror(s)
         IN  /\ n \in Machines /\ n.msg = s.msg /\ n.app = s.app /\ n.op = NewOp
             /\ n.g.proc = NoProc /\ n.g.queue = <<>> /\ n.g.child = s.g.child /\ n.g.act = s.g.act
             /\ n.ctx.finished = TRUE /\ n.ctx.ok = FALSE /\ n.ctx.wrote = s.ctx.wrote
             /\ Data(n.g) = Data(s.g) /\ Pending(n.g) = 0
<1> DEFINE x == [s.g EXCEPT !.proc = NoProc, !.queue = <<>>]
           c == [s.ctx EXCEPT !.finished = TRUE, !.ok = FALSE, !.op_err = "Unknown"]
           n == seterror(s)
<1>1. s.g \in Sessions /\ s.ctx \in ContextStates
  BY MachineFields
<1>2. n = [s EXCEPT !.g = x, !.op = NewOp, !.ctx = c]
  BY DEF seterror, Machines
<1>3. <<>> \in Seq(Events) /\ <<>> \in Seq(Prompts \cup {"finished"})
  OBVIOUS
<1>4. NoProc \in Procs
  BY DEF NoProc, Procs
<1>5. x \in Sessions /\ x.proc = NoProc /\ x.queue = <<>> /\ x.child = s.g.child /\ x.act = s.g.act
  BY <1>1, <1>3, <1>4 DEF Sessions
<1>6. c \in ContextStates /\ c.finished = TRUE /\ c.ok = FALSE /\ c.wrote = s.ctx.wrote
  BY <1>1 DEF ContextStates, Errors
<1>7. NewOp \in OpStates
  <2>1. NoOutput \in Outputs
    BY DEF NoOutput, Outputs, Output, Errors, Signatures
  <2> QED BY <1>3, <2>1 DEF NewOp, OpStates
<1> HIDE DEF x, c, n
<1>8. n \in Machines /\ n.g = x /\ n.op = NewOp /\ n.ctx = c /\ n.msg = s.msg /\ n.app = s.app
  BY <1>2, <1>5, <1>6, <1>7 DEF Machines
<1>9. Data(n.g) = Data(s.g)
  BY <1>5, <1>8 DEF Data, Input, useAux
<1>10. Pending(n.g) = 0
  BY <1>3, <1>5, <1>8, NotesFacts DEF Pending
<1> QED BY <1>5, <1>6, <1>8, <1>9, <1>10 DEF n

LEMMA CallsFields ==
  ASSUME NEW s \in Machines
  PROVE  LET n == [s EXCEPT !.app.mode = "calls"]
         IN  /\ n \in Machines /\ n.g = s.g /\ n.op = s.op /\ n.ctx = s.ctx /\ n.msg = s.msg
             /\ n.app.told = s.app.told /\ n.app.late = s.app.late
             /\ n.app.reported = s.app.reported
<1> DEFINE a == [s.app EXCEPT !.mode = "calls"]
           n == [s EXCEPT !.app.mode = "calls"]
<1>1. s.app \in AppStates
  BY MachineFields
<1>2. n = [s EXCEPT !.app = a]
  OBVIOUS
<1>3. a \in AppStates /\ a.told = s.app.told /\ a.late = s.app.late /\ a.reported = s.app.reported
  BY <1>1 DEF AppStates
<1> HIDE DEF a, n
<1>4. n \in Machines /\ n.g = s.g /\ n.op = s.op /\ n.ctx = s.ctx /\ n.msg = s.msg /\ n.app = a
  BY <1>2, <1>3 DEF Machines
<1> QED BY <1>3, <1>4 DEF n

LEMMA SeterrorGood ==
  ASSUME NEW s \in Machines, Counted(s), Earned(s.g, FALSE, s.msg.signer),
         s.app.told = 0 \/ s.app.late
  PROVE  /\ updated(seterror(s)) \in Machines /\ Good(updated(seterror(s)))
         /\ Return(seterror(s)) \in Machines /\ Good(Return(seterror(s)))
<1> DEFINE e == seterror(s)
           n == [e EXCEPT !.app.mode = "calls"]
<1>1. /\ e \in Machines /\ e.msg = s.msg /\ e.app = s.app /\ e.op = NewOp
      /\ e.g.proc = NoProc /\ e.g.queue = <<>> /\ e.g.child = s.g.child /\ e.g.act = s.g.act
      /\ e.ctx.finished = TRUE /\ e.ctx.ok = FALSE /\ e.ctx.wrote = s.ctx.wrote
      /\ Data(e.g) = Data(s.g) /\ Pending(e.g) = 0
  BY SeterrorFields
<1>2. ~NewOp.act /\ NewOp.events = <<>> /\ ~NewOp.output.success
  BY DEF NewOp, NoOutput, Output
<1> HIDE DEF e
<1>3. Counted(e)
  BY <1>1, StoppedCounted
<1>4. Earned(e.g, FALSE, e.msg.signer)
  BY <1>1, EarnedKept
<1>5. updated(e) \in Machines /\ Good(updated(e))
  BY <1>1, <1>2, <1>3, <1>4, UpdatedEnd
<1>6. /\ n \in Machines /\ n.g = e.g /\ n.op = e.op /\ n.ctx = e.ctx /\ n.msg = e.msg
      /\ n.app.told = e.app.told /\ n.app.late = e.app.late /\ n.app.reported = e.app.reported
  BY <1>1, CallsFields
<1>7. Return(e) = updated(n)
  BY DEF Return
<1> HIDE DEF n
<1>8. Counted(n)
  BY <1>3, <1>6 DEF Counted
<1>9. updated(n) \in Machines /\ Good(updated(n))
  <2>1. /\ n.ctx.finished /\ ~n.ctx.ok /\ ~n.op.act /\ n.op.events = <<>> /\ ~n.op.output.success
        /\ n.g.proc = NoProc /\ n.g.queue = <<>>
    BY <1>1, <1>2, <1>6
  <2>2. Earned(n.g, FALSE, n.msg.signer)
    BY <1>4, <1>6
  <2>3. n.app.told = 0 \/ n.app.late
    BY <1>1, <1>6
  <2> QED BY <1>6, <1>8, <2>1, <2>2, <2>3, UpdatedEnd
<1> QED BY <1>5, <1>7, <1>9 DEF e

(* submitPassphrase() and cardOkay() *)
LEMMA AnsweredGood ==
  ASSUME NEW s, NEW k \in Prompts, s.op.act => Under(s) /\ Sound(s.g, s.app)
  PROVE  Answered(s, k) \in Machines /\ Good(Answered(s, k))
<1>1. CASE ~s.op.act
  <2>1. Answered(s, k) = Dead
    BY <1>1 DEF Answered
  <2> QED BY <2>1, DeadGood
<1>2. CASE s.op.act
  <2> DEFINE x == answer(s.g, k)
             n == [s EXCEPT !.g = x]
  <2>1. Answered(s, k) = n
    BY <1>2 DEF Answered
  <2>2. s.g \in Sessions
    BY <1>2, MachineFields DEF Under
  <2>3. x \in Sessions /\ Sound(x, s.app) /\ Pending(x) = Pending(s.g) /\ Len(Data(x)) = Len(Data(s.g))
    BY <1>2, <2>2, AnswerSound
  <2> HIDE DEF x
  <2>4. Under(n) /\ n.g = x /\ n.app = s.app
    BY <1>2, <2>3, SessionStep
  <2> HIDE DEF n
  <2>5. n \in Machines /\ Good(n)
    BY <2>3, <2>4, UnderGood
  <2> QED BY <2>1, <2>5
<1> QED BY <1>1, <1>2

LEMMA RespondKept == IInv /\ Respond => IInv'
<1> SUFFICES ASSUME IInv, Respond PROVE IInv'
  OBVIOUS
<1>1. app.mode = "calls"
  BY DEF Respond
<1>2. PICK k \in Prompts :
         \/ Become(updated(seterror([[State EXCEPT !.asker[k] = "idle"] EXCEPT !.app.late = @ \/ ~op.act])))
         \/ Become(Answered([State EXCEPT !.asker[k] = "idle"], k))
  BY DEF Respond
<1> DEFINE r == [asker EXCEPT ![k] = "idle"]
           late == app.late \/ ~op.act
           a == [app EXCEPT !.late = late]
           s == [State EXCEPT !.asker[k] = "idle"]
           u == [s EXCEPT !.app.late = @ \/ ~op.act]
<1>3. /\ State \in Machines /\ Good(State) /\ app \in AppStates
      /\ asker \in [Prompts -> {"idle", "asking"}] /\ op \in OpStates
  BY StateFields, MachineFields DEF IInv
<1>4. r \in [Prompts -> {"idle", "asking"}]
  BY <1>3
<1>5. s = [State EXCEPT !.asker = r]
  BY StateFields
<1> HIDE DEF r, s
<1>6. /\ s \in Machines /\ s.g = State.g /\ s.op = State.op /\ s.ctx = State.ctx
      /\ s.msg = State.msg /\ s.app = State.app
  BY <1>3, <1>4, <1>5 DEF Machines
<1>7. Good(s)
  BY <1>3, <1>6 DEF Good, Busy, Calm, Ended, Rest, Counted
<1>8. CASE Become(updated(seterror(u)))
  <2>1. late \in BOOLEAN /\ a \in AppStates /\ a.told = app.told /\ a.reported = app.reported
        /\ a.late = late
    <3>1. late \in BOOLEAN
      BY <1>3 DEF AppStates, OpStates
    <3> HIDE DEF late
    <3> QED BY <1>3, <3>1 DEF AppStates
  <2>2. u = [s EXCEPT !.app = a]
    BY <1>6, StateFields
  <2> HIDE DEF a, u
  <2>3. /\ u \in Machines /\ u.g = s.g /\ u.op = s.op /\ u.ctx = s.ctx /\ u.msg = s.msg
        /\ u.app = a
    BY <1>6, <2>1, <2>2 DEF Machines
  <2>4. Counted(u)
    BY <1>6, <1>7, <2>1, <2>3, StateFields DEF Good, Rest, Counted
  <2>5. u.app.told = 0 \/ u.app.late
    <3>1. op.act => app.told = 0
      BY <1>3, StateFields DEF Good, Busy, Calm
    <3> QED BY <2>1, <2>3, <3>1
  <2>6. Earned(u.g, FALSE, u.msg.signer)
    <3>1. op.act => msg.signer = "none"
      BY <1>3, StateFields DEF Good, Busy, Calm
    <3>2. ~op.act => Earned(g, msg.success, msg.signer)
      BY <1>3, StateFields DEF Good, Ended
    <3>3. op.act => Listening(g)
      BY <1>3, StateFields DEF Good, Busy, Sound, Phases, Heard
    <3>4. Earned(g, FALSE, msg.signer)
      BY <3>1, <3>2, <3>3 DEF Earned
    <3> QED BY <1>6, <2>3, <3>4, StateFields
  <2> DEFINE n == updated(seterror(u))
  <2>7. n \in Machines /\ Good(n)
    BY <2>3, <2>4, <2>5, <2>6, SeterrorGood
  <2>8. Become(n)
    BY <1>8 DEF u
  <2> HIDE DEF n
  <2> QED BY <2>7, <2>8, BecomeState
<1>9. CASE Become(Answered(s, k))
  <2>1. s.op.act => Under(s) /\ Sound(s.g, s.app)
    <3>1. Running
      BY <1>1 DEF Running
    <3> QED BY <1>6, <1>7, <3>1, StateFields DEF Good, Busy, Under
  <2> DEFINE n == Answered(s, k)
  <2>2. n \in Machines /\ Good(n)
    BY <2>1, AnsweredGood
  <2>3. Become(n)
    BY <1>9
  <2> HIDE DEF n
  <2> QED BY <2>2, <2>3, BecomeState
<1>10. Become(updated(seterror(u))) \/ Become(Answered(s, k))
  BY <1>2 DEF s
<1> QED BY <1>8, <1>9, <1>10

(* What the waiter knows while there is an event *)
LEMMA WaiterFacts ==
  ASSUME IInv, Waiting, op.events # <<>>
  PROVE  /\ Running /\ app.told = 0 /\ Counted(State) /\ Earned(g, FALSE, msg.signer)
         /\ op.act => NoEnd(op.events)
         /\ ~op.act => EndsIn(op.events) /\ Ended(State)
<1>1. Good(State) /\ Running
  BY DEF IInv, Waiting, Running
<1>2. Counted(State)
  BY <1>1 DEF Good, Rest
<1>3. op.act => NoEnd(op.events) /\ app.told = 0 /\ msg.signer = "none" /\ Listening(g)
  BY <1>1, StateFields DEF Good, Busy, Calm, Sound, Phases, Heard
<1>4. ~op.act => EndsIn(op.events) /\ Ended(State) /\ app.told = 0 /\ Earned(g, msg.success, msg.signer)
  BY <1>1, StateFields DEF Good, Ended
<1>5. Earned(g, FALSE, msg.signer)
  BY <1>3, <1>4 DEF Earned
<1> QED BY <1>1, <1>2, <1>3, <1>4, <1>5

(* The waiter takes an event, and the asker changes *)
LEMMA TakenFields ==
  ASSUME IInv, Waiting, op.events # <<>>, NEW r \in [Prompts -> {"idle", "asking"}]
  PROVE  LET s == [State EXCEPT !.op = [op EXCEPT !.events = Tail(op.events)], !.asker = r]
         IN  /\ s \in Machines /\ s.g = g /\ s.ctx = ctx /\ s.msg = msg /\ s.app = app
             /\ s.op.act = op.act /\ s.op.output = op.output /\ s.op.events = Tail(op.events)
             /\ Counted(s) /\ (op.act => Under(s) /\ Sound(s.g, s.app))
<1> DEFINE q == op.events
           t == Tail(q)
           o == [op EXCEPT !.events = t]
           s == [State EXCEPT !.op = o, !.asker = r]
<1>1. State \in Machines /\ Good(State) /\ op \in OpStates
  BY StateFields, MachineFields DEF IInv
<1>2. q \in Seq(Prompts \cup {"finished"}) /\ q # <<>>
  BY <1>1 DEF OpStates
<1>3. t \in Seq(Prompts \cup {"finished"}) /\ Len(t) = Len(q) - 1 /\ \A i \in 1..Len(t) : t[i] = q[i + 1]
      /\ Len(q) \in Nat
  BY <1>2
<1> HIDE DEF t
<1>4. o \in OpStates /\ o.act = op.act /\ o.output = op.output /\ o.events = t
  BY <1>1, <1>3 DEF OpStates
<1> HIDE DEF o, s
<1>5. s = [State EXCEPT !.op = o, !.asker = r]
  BY DEF s
<1>6. /\ s \in Machines /\ s.g = State.g /\ s.ctx = State.ctx /\ s.msg = State.msg /\ s.app = State.app
      /\ s.op = o
  BY <1>1, <1>4, <1>5 DEF Machines
<1>7. Counted(s)
  BY <1>6, WaiterFacts DEF Counted
<1>8. NoEnd(q) => NoEnd(t)
  <2>1. \A i \in 1..Len(t) : i + 1 \in 1..Len(q)
    BY <1>3
  <2> HIDE DEF q
  <2> QED BY <1>3, <2>1 DEF NoEnd
<1>9. ASSUME op.act PROVE Under(s) /\ Sound(s.g, s.app)
  <2>1. Under(State) /\ Sound(g, app) /\ Running
    BY <1>9, ActBusy, WaiterFacts
  <2>2. NoEnd(t)
    BY <1>8, <1>9, WaiterFacts
  <2>3. Calm(s)
    BY <1>4, <1>6, <2>1, <2>2 DEF Under, Calm
  <2>4. Rest(s)
    BY <1>6, <1>7, <2>1, StateFields DEF Under, Rest, Waiting
  <2> QED BY <1>4, <1>6, <1>9, <2>1, <2>3, <2>4, StateFields DEF Under
<1> QED BY <1>4, <1>6, <1>7, <1>9, StateFields DEF s, o, t

LEMMA WaitEnds ==
  ASSUME IInv, Waiting, op.events # <<>>, Head(op.events) = "finished",
         Become(Return(complete([State EXCEPT !.op.events = Tail(@)])))
  PROVE  IInv'
<1> DEFINE q == op.events
           s == [State EXCEPT !.op = [op EXCEPT !.events = Tail(op.events)], !.asker = asker]
           c == complete(s)
           n == [c EXCEPT !.app.mode = "calls"]
<1>1. State \in Machines /\ op \in OpStates /\ asker \in [Prompts -> {"idle", "asking"}]
  BY StateFields, MachineFields DEF IInv
<1>2. q \in Seq(Prompts \cup {"finished"}) /\ q # <<>> /\ Head(q) = q[1] /\ Len(q) \in Nat /\ Len(q) >= 1
      /\ q[1] \notin Prompts
  <2>1. q \in Seq(Prompts \cup {"finished"})
    BY <1>1 DEF OpStates
  <2>2. q # <<>> /\ Head(q) = q[1] /\ Len(q) \in Nat /\ Len(q) >= 1
    BY <2>1
  <2>3. q[1] = "finished"
    BY <2>2
  <2> QED BY <2>1, <2>2, <2>3 DEF Prompts
<1>3. ~op.act
  <2>1. ~NoEnd(q)
    BY <1>2 DEF NoEnd
  <2> QED BY <2>1, WaiterFacts
<1>4. Ended(State) /\ EndsIn(q)
  BY <1>3, WaiterFacts
<1>5. Len(q) = 1
  <2>1. ~(1 \in 1..(Len(q) - 1))
    BY <1>2, <1>4 DEF EndsIn
  <2> DEFINE k == Len(q)
  <2>2. k \in Nat /\ k >= 1 /\ ~(1 \in 1..(k - 1))
    BY <1>2, <2>1
  <2> HIDE DEF k
  <2>3. k = 1
    BY <2>2
  <2> QED BY <2>3 DEF k
<1>6. Tail(q) = <<>>
  <2> DEFINE t == Tail(q)
  <2>1. t \in Seq(Prompts \cup {"finished"}) /\ Len(t) = 0
    BY <1>2, <1>5
  <2> HIDE DEF t
  <2>2. t = <<>>
    BY <2>1
  <2> QED BY <2>2 DEF t
<1>7. /\ s \in Machines /\ s.g = g /\ s.ctx = ctx /\ s.msg = msg /\ s.app = app
      /\ s.op.act = op.act /\ s.op.output = op.output /\ s.op.events = Tail(op.events)
      /\ Counted(s)
  BY <1>1, TakenFields
<1>8. [State EXCEPT !.op.events = Tail(@)] = s
  <2> DEFINE o == [op EXCEPT !.events = Tail(op.events)]
  <2>1. [State EXCEPT !.op.events = Tail(@)] = [State EXCEPT !.op = o]
    BY StateFields
  <2> HIDE DEF o
  <2>2. [State EXCEPT !.op = o] = [State EXCEPT !.op = o, !.asker = asker]
    BY <1>1, StateFields DEF Machines
  <2> QED BY <2>1, <2>2 DEF o
<1> HIDE DEF s
<1>9. /\ c \in Machines /\ c.msg = s.msg /\ c.app = s.app /\ c.g = s.g
      /\ c.op.act = s.op.act /\ c.op.output = s.op.output /\ c.op.events = s.op.events
      /\ c.ctx.finished = TRUE /\ c.ctx.ok = s.op.output.success /\ c.ctx.wrote = s.ctx.wrote
      /\ c.ctx.ok => c.ctx.signer = s.op.output.verifyResult
  BY <1>7, CompleteFields
<1>10. Become(updated(n))
  BY <1>8 DEF Return
<1> HIDE DEF c
<1>11. /\ n \in Machines /\ n.g = c.g /\ n.op = c.op /\ n.ctx = c.ctx /\ n.msg = c.msg
       /\ n.app.told = c.app.told /\ n.app.late = c.app.late /\ n.app.reported = c.app.reported
  BY <1>9, CallsFields
<1> HIDE DEF n
<1>12. Counted(n)
  BY <1>7, <1>9, <1>11 DEF Counted
<1>13. g.proc = NoProc /\ g.queue = <<>> /\ (op.output.success => Earned(g, TRUE, op.output.verifyResult))
  BY <1>4, StateFields DEF Ended
<1>14. /\ n.ctx.finished /\ ~n.op.act /\ n.g.proc = NoProc /\ n.g.queue = <<>> /\ n.op.events = <<>>
       /\ n.app.told = 0
  BY <1>3, <1>6, <1>7, <1>9, <1>11, <1>13, WaiterFacts
<1>15. n.op.output.success => Earned(n.g, TRUE, n.op.output.verifyResult)
  BY <1>7, <1>9, <1>11, <1>13
<1>16. n.ctx.ok => Earned(n.g, TRUE, n.ctx.signer)
  BY <1>7, <1>9, <1>11, <1>13
<1>17. Earned(n.g, FALSE, n.msg.signer)
  BY <1>7, <1>9, <1>11, WaiterFacts
<1>18. updated(n) \in Machines /\ Good(updated(n))
  BY <1>11, <1>12, <1>14, <1>15, <1>16, <1>17, UpdatedEnd
<1> QED BY <1>10, <1>18, BecomeState

LEMMA WaitPrompt ==
  ASSUME IInv, Waiting, op.events # <<>>, NEW e \in Prompts, NEW v \in {"idle", "asking"},
         \/ Become(Return(seterror([[State EXCEPT !.op.events = Tail(@)] EXCEPT !.asker[e] = v])))
         \/ Become(Answered([[State EXCEPT !.op.events = Tail(@)] EXCEPT !.asker[e] = v], e))
  PROVE  IInv'
<1> DEFINE o == [op EXCEPT !.events = Tail(op.events)]
           r == [asker EXCEPT ![e] = v]
           s == [State EXCEPT !.op = o, !.asker = r]
           w == [[State EXCEPT !.op.events = Tail(@)] EXCEPT !.asker[e] = v]
<1>1. State \in Machines /\ asker \in [Prompts -> {"idle", "asking"}]
  BY StateFields, MachineFields DEF IInv
<1>2. r \in [Prompts -> {"idle", "asking"}]
  BY <1>1
<1>3. w = s
  <2> DEFINE y == [State EXCEPT !.op.events = Tail(@)]
  <2>1. y = [State EXCEPT !.op = o]
    BY StateFields
  <2> HIDE DEF o, y
  <2>2. y.asker = State.asker
    BY <1>1, <2>1 DEF Machines
  <2>3. w = [y EXCEPT !.asker = r]
    BY <2>2, StateFields DEF y
  <2> HIDE DEF r, w
  <2>4. [[State EXCEPT !.op = o] EXCEPT !.asker = r] = s
    OBVIOUS
  <2> QED BY <2>1, <2>3, <2>4
<1>4. Become(Return(seterror(s))) \/ Become(Answered(s, e))
  <2>1. Become(Return(seterror(w))) \/ Become(Answered(w, e))
    OBVIOUS
  <2> HIDE DEF s, w
  <2> QED BY <1>3, <2>1
<1> HIDE DEF r
<1>5. /\ s \in Machines /\ s.g = g /\ s.msg = msg /\ s.app = app /\ s.op.act = op.act
      /\ Counted(s) /\ (op.act => Under(s) /\ Sound(s.g, s.app))
  BY <1>2, TakenFields
<1> HIDE DEF s
<1>6. Return(seterror(s)) \in Machines /\ Good(Return(seterror(s)))
  <2>1. s.app.told = 0 /\ Earned(s.g, FALSE, s.msg.signer)
    BY <1>5, WaiterFacts
  <2> QED BY <1>5, <2>1, SeterrorGood
<1>7. Answered(s, e) \in Machines /\ Good(Answered(s, e))
  BY <1>5, AnsweredGood
<1> DEFINE n1 == Return(seterror(s))
           n2 == Answered(s, e)
<1>8. n1 \in Machines /\ Good(n1) /\ n2 \in Machines /\ Good(n2) /\ (Become(n1) \/ Become(n2))
  BY <1>4, <1>6, <1>7
<1> HIDE DEF n1, n2
<1> QED BY <1>8, BecomeState

LEMMA WaitStepKept == IInv /\ WaitStep => IInv'
<1> SUFFICES ASSUME IInv, WaitStep PROVE IInv'
  OBVIOUS
<1> DEFINE s == [State EXCEPT !.op.events = Tail(@)]
<1>1. /\ Waiting /\ op.events # <<>>
      /\ \/ Head(op.events) = "finished" /\ Become(Return(complete(s)))
         \/ \E e \in Prompts, v \in {"idle", "asking"} :
              \/ Become(Return(seterror([s EXCEPT !.asker[e] = v])))
              \/ Become(Answered([s EXCEPT !.asker[e] = v], e))
  <2>1. Waiting /\ op.events # <<>>
    BY DEF WaitStep
  <2> DEFINE e == Head(op.events)
  <2>2. \/ e = "finished" /\ Become(Return(complete(s)))
        \/ e = "needPassphrase" /\ Become(Return(seterror([s EXCEPT !.asker[e] = "idle"])))
        \/ e = "needPassphrase" /\ Become(Answered([s EXCEPT !.asker[e] = "idle"], e))
        \/ e = "needCard" /\ Become(Return(seterror([s EXCEPT !.asker[e] = "asking"])))
        \/ e = "needCard" /\ Become(Answered([s EXCEPT !.asker[e] = "asking"], e))
    BY DEF WaitStep
  <2> HIDE DEF s, e
  <2>3. "needPassphrase" \in Prompts /\ "needCard" \in Prompts
    BY DEF Prompts
  <2> QED BY <2>1, <2>2, <2>3 DEF e
<1>2. CASE Head(op.events) = "finished" /\ Become(Return(complete(s)))
  BY <1>1, <1>2, WaitEnds
<1>3. CASE \E e \in Prompts, v \in {"idle", "asking"} :
              \/ Become(Return(seterror([s EXCEPT !.asker[e] = v])))
              \/ Become(Answered([s EXCEPT !.asker[e] = v], e))
  <2>1. PICK e \in Prompts, v \in {"idle", "asking"} :
              \/ Become(Return(seterror([s EXCEPT !.asker[e] = v])))
              \/ Become(Answered([s EXCEPT !.asker[e] = v], e))
    BY <1>3
  <2> QED BY <1>1, <2>1, WaitPrompt
<1> QED BY <1>1, <1>2, <1>3

------------------------------------------------------------------------------
(* The invariant, and what it says                                         *)

LEMMA StutterKept == IInv /\ UNCHANGED vars => IInv'
<1> SUFFICES ASSUME IInv, UNCHANGED vars PROVE IInv'
  OBVIOUS
<1>1. State' = State
  BY DEF vars, State
<1> QED BY <1>1 DEF IInv

LEMMA StepKept == IInv /\ [MsgNext]_vars => IInv'
  BY DoStartKept, HandleEventKept, StatusReadKept, StatusClosedKept, DoneKept, PipeErrorKept,
     ReadyReadKept, BytesWrittenKept, FinishedKept, StartKept, UpdateKept, EndKept, ResetKept,
     WaitKept, WaitStepKept, RespondKept, ChildSaysKept, ChildWritesKept, ChildOverKept,
     WriteFailsKept, StutterKept DEF MsgNext

(* IInv, the inductive invariant: the members of the whole stack have      *)
(* their types; while GpgOp has an action its session is sound and nothing *)
(* is told of an end; without one the end is earned and told at most once. *)
THEOREM StackIsSound == MsgSpec => []IInv
  BY InitGood, StepKept, PTL DEF MsgSpec

(* success() is TRUE, and a signature called good, only by the verdict on  *)
(* this operation's own gpg process, after its end and by all the status   *)
(* lines it wrote while the plugin listened (GPGProc::doTryDone(),         *)
(* GpgAction::processResult()); it stops listening to a gpg that still     *)
(* speaks only after that gpg has stopped reading (proc_error()).          *)
THEOREM VerdictsAreDeserved == MsgSpec => []SuccessDeserved
<1>1. IInv => SuccessDeserved
  <2> SUFFICES ASSUME IInv PROVE SuccessDeserved
    OBVIOUS
  <2>1. CASE op.act
    BY <2>1, StateFields DEF IInv, Good, Busy, Calm, Sound, Phases, Heard, Listening, SuccessDeserved
  <2>2. CASE ~op.act
    BY <2>2, StateFields DEF IInv, Good, Ended, Earned, Listening, SuccessDeserved
  <2> QED BY <2>1, <2>2
<1> QED BY <1>1, StackIsSound, PTL

(* finished() is signalled once for an operation, unless the user refuses  *)
(* a prompt of an operation that is over (asker_responseReady()).          *)
THEOREM EndIsToldOnce == MsgSpec => []ToldOnce
<1>1. IInv => ToldOnce
  <2> SUFFICES ASSUME IInv, app.told > 1 PROVE app.late
    BY DEF ToldOnce
  <2>1. CASE op.act
    <3>1. app.told = 0
      BY <2>1, StateFields DEF IInv, Good, Busy, Calm
    <3> QED BY <3>1
  <2>2. CASE ~op.act
    <3>1. app.late \/ app.told = 0 \/ app.told = 1
      BY <2>2, StateFields DEF IInv, Good, Ended
    <3> QED BY <3>1
  <2> QED BY <2>1, <2>2
<1> QED BY <1>1, StackIsSound, PTL

(* t_bytesWritten() always finds an argument, and bytesWritten() never     *)
(* reports more than the gpg process was given.                            *)
THEOREM BytesAreHonest == MsgSpec => []BytesHonest
<1>1. IInv => BytesHonest
  <2> SUFFICES ASSUME IInv PROVE BytesHonest
    OBVIOUS
  <2>1. State \in Machines /\ Counted(State)
    BY DEF IInv, Good, Rest
  <2>2. /\ app.reported \in Nat /\ ctx.wrote \in Nat /\ Total(msg.bytesWrittenArgs) \in Nat
        /\ Pending(g) \in Nat /\ Len(Data(g)) \in Nat
    BY <2>1, StateFields, CountFields
  <2>3. /\ app.reported + Total(msg.bytesWrittenArgs) + ctx.wrote + Pending(g) <= Len(Data(g))
        /\ msg.bytesWrittenTrigger => msg.bytesWrittenArgs # <<>>
    BY <2>1, StateFields DEF Counted
  <2>4. app.reported + Total(msg.bytesWrittenArgs) + ctx.wrote <= Len(Data(g))
    BY <2>2, <2>3
  <2>5. channel(State) = Input(g)
    BY StateFields DEF channel, Input
  <2> QED BY <2>3, <2>4, <2>5 DEF BytesHonest, Data
<1> QED BY <1>1, StackIsSound, PTL

(* The gpg process reads the chunks in the order of update(), and the end  *)
(* of its input after the last of them, unless a call of the application   *)
(* fell between doStart() and the queued proc_started().                   *)
THEOREM InputArrivesInOrder == MsgSpec => []InputInOrder
<1>1. IInv => InputInOrder
  <2> DEFINE d == Data(g)
             h == Held(g)
  <2> SUFFICES ASSUME IInv, op.act, ~app.crossed
               PROVE  /\ d = [i \in 1..Len(d) |-> i]
                      /\ g.child.eof[Input(g)] => app.ended /\ Len(d) = app.sent
    <3>1. channel(State) = Input(g)
      BY StateFields DEF channel, Input
    <3> QED BY <3>1 DEF InputInOrder, Data
  <2>1. g \in Sessions /\ Feed(g, app) /\ app.sent \in Nat
    <3>1. Feed(g, app)
      BY StateFields DEF IInv, Good, Busy, Sound
    <3> QED BY <3>1, StateFields, MachineFields DEF IInv, AppStates
  <2>2. d \in Seq(Nat) /\ h \in Seq(Nat)
    BY <2>1, AllFields DEF Fields
  <2>3. CASE g.proc.state = "none"
    <3>1. d = <<>> /\ ~g.child.eof[Input(g)]
      BY <2>1, <2>3 DEF Feed
    <3> HIDE DEF d
    <3> QED BY <3>1
  <2>4. CASE g.proc.state # "none"
    <3>1. d \o h = Numbers(app.sent) /\ (g.child.eof[Input(g)] => app.ended /\ h = <<>>)
      BY <2>1, <2>4 DEF Feed, InOrder
    <3> HIDE DEF d, h
    <3>2. Len(d) + Len(h) = app.sent /\ \A i \in 1..Len(d) : d[i] = i
      <4>1. Len(d \o h) = app.sent
        BY <2>1, <3>1 DEF Numbers
      <4>2. Len(d \o h) = Len(d) + Len(h)
        BY <2>2
      <4>3. ASSUME NEW i \in 1..Len(d) PROVE d[i] = i
        <5>1. (d \o h)[i] = d[i] /\ i \in 1..Len(d \o h)
          BY <2>2
        <5>2. \A j \in 1..Len(d \o h) : (d \o h)[j] = j
          BY <3>1, <4>1 DEF Numbers
        <5> QED BY <5>1, <5>2
      <4> QED BY <4>1, <4>2, <4>3
    <3>3. d = [i \in 1..Len(d) |-> i]
      BY <2>2, <3>2
    <3>4. h = <<>> => Len(d) = app.sent
      BY <2>2, <3>2
    <3> QED BY <3>1, <3>3, <3>4
  <2> QED BY <2>3, <2>4
<1> QED BY <1>1, StackIsSound, PTL

(* The members of the plugin's classes and of SecureMessage::Private have  *)
(* their types, and only documented error codes reach the application.     *)
THEOREM TypesAreKept == MsgSpec => []TypeOK
<1>1. IInv => TypeOK
  <2> SUFFICES ASSUME IInv PROVE TypeOK
    OBVIOUS
  <2>1. /\ g \in Sessions /\ op \in OpStates /\ ctx \in ContextStates /\ msg \in MessageStates
        /\ asker \in [Prompts -> {"idle", "asking"}] /\ app \in AppStates
    BY StateFields, MachineFields DEF IInv
  <2>2. g.proc \in Procs /\ g.act \in Actions /\ g.queue \in Seq(Events) /\ g.child \in Children
    BY <2>1, SessionFields
  <2>3. \A i \in DOMAIN g.queue : g.queue[i] \in Relayed \cup Posted
    <3> HIDE DEF Events
    <3>1. \A i \in DOMAIN g.queue : g.queue[i] \in Events
      BY <2>2
    <3> QED BY <3>1 DEF Events
  <2>4. g.child.end \in Ends
    BY <2>2 DEF Children
  <2>5. op.output \in Outputs /\ op.act \in BOOLEAN /\ op.events \in Seq(Prompts \cup {"finished"})
    BY <2>1 DEF OpStates
  <2>6. \A i \in DOMAIN op.events : op.events[i] \in Prompts \cup {"finished"}
    BY <2>5
  <2>7. ctx.op_err \in Errors /\ ctx.wrote \in Nat
    BY <2>1 DEF ContextStates
  <2>8. msg.errorCode \in Errors \ {"Process", "DecryptNoKey"} /\ msg.signer \in Signatures
    BY <2>1 DEF MessageStates
  <2>9. app.mode \in {"calls", "waiting", "dead"} /\ app.told \in Nat
    BY <2>1 DEF AppStates
  <2> QED BY <2>1, <2>2, <2>3, <2>4, <2>5, <2>6, <2>7, <2>8, <2>9 DEF TypeOK
<1> QED BY <1>1, StackIsSound, PTL
==============================================================================
