----------------------------- MODULE SASLProofs -----------------------------
(***************************************************************************)
(* Proofs about module SASL, for every value of its constants.             *)
(***************************************************************************)
EXTENDS SASL, SequenceTheorems, TLAPS

------------------------------------------------------------------------------
(* The inductive invariant, of the members D, I and C of SASL::Private and *)
(* of the provider, and of the history x.                                  *)

(* out_pending may be any integer here; Flow bounds it *)
IntBuffers == [in : Nat, out : Nat, to_net : Nat, from_net : Nat, out_pending : Int,
               to_net_encoded : Int]

Types(D, I, C, x) == D \in Privates /\ I \in IntBuffers /\ C \in Contexts /\ x \in Histories

(* signals of the security layer that wait *)
DataOnly(q) == q \in Seq({"ReadyRead", "ReadyReadOutgoing"})

(* How far the authentication is: what may run and what may wait *)
Phase(D, x) ==
    /\ D.actionQueue # <<>> => D.op = "none"
    /\ D.authed => /\ x.turn \in {"open", "failed"} /\ D.op \in {"none", "OpUpdate"} /\ x.begun
                   /\ DataOnly(D.actionQueue)
    /\ ~D.authed => /\ x.turn # "open" /\ D.op # "OpUpdate" /\ ~D.need_update
                    /\ D.actionQueue \in {<<>>, <<"Authenticated">>}
    /\ D.actionQueue = <<"Authenticated">> => x.begun
    /\ x.turn \in {"first", "step", "params"} => D.op = "none"

(* What the application was asked, and whether the session was announced *)
Asked(D, x) ==
    /\ x.turn \in {"first", "step"} => x.begun
    /\ D.op \in {"OpServerFirstStep", "OpNextStep"} => x.begun
    /\ D.server => /\ x.turn = "params" => x.begun
                   /\ D.op = "OpTryAgain" => x.begun
                   /\ D.op = "OpStart" => ~x.begun
    /\ ~D.server => /\ D.first => ~x.begun
                    /\ D.op # "none" /\ ~D.first => x.begun
                    /\ x.turn = "params" /\ ~D.first => x.begun

(* The plaintext the provider has and has not encoded *)
Owed(D, C) == IF D.op = "OpUpdate" THEN C.app ELSE 0

Counted(D, I, C) ==
    /\ D.errorCode = "none" => I.out_pending = Owed(D, C)
    /\ I.out_pending >= Owed(D, C)

(* The provider's side of an operation *)
Provider(D, C, x) ==
    /\ D.op = "OpUpdate" /\ C.app > 0 => C.result_to_net # "empty"
    /\ C.result_to_net = "own" => D.authed /\ (D.op = "OpUpdate" \/ x.turn = "failed")
    /\ D.op # "none" => C.posted > 0 \/ x.mute

(* Data that wait are owed an update *)
Late(I, x) == x.late /\ I.from_net > 0

Waits(D, I, x) ==
    /\ D.authed /\ I.out > 0 => D.need_update
    /\ Late(I, x) => D.need_update

(* Signals and updates that wait have something that will run them *)
Armed(D) ==
    /\ D.actionQueue # <<>> => D.trigger
    /\ D.need_update => D.trigger \/ D.op # "none" \/ D.errorCode # "none"

Core(D, I, C, x) ==
    Types(D, I, C, x) /\ Phase(D, x) /\ Asked(D, x) /\ Counted(D, I, C) /\ Provider(D, C, x)

Good(D, I, C, x) == Core(D, I, C, x) /\ Waits(D, I, x) /\ Armed(D)

IInv == Good(d, io, c, h) /\ (h.late => io.from_net > 0) /\ sig \in Sigs

Machines == [d : Privates, io : IntBuffers, c : Contexts, sig : Sigs]

(* The history once the application has heard the signal s *)
Told(s, x) ==
    [x EXCEPT !.turn = Turn(s, @), !.begun = @ \/ s \in {"clientStarted", "serverStarted"}]

------------------------------------------------------------------------------
(* Steps of the handlers                                                   *)

LEMMA ToldFacts ==
  ASSUME NEW s \in Sigs, NEW x \in Histories
  PROVE  /\ Told(s, x) \in Histories /\ Told(s, x).late = x.late /\ Told(s, x).mute = x.mute
         /\ Told(s, x).turn = Turn(s, x.turn)
         /\ Told(s, x).begun = (x.begun \/ s \in {"clientStarted", "serverStarted"})
         /\ s \in {"none", "readyRead", "readyReadOutgoing"} => Told(s, x) = x
<1> DEFINE b == x.begun \/ s \in {"clientStarted", "serverStarted"}
           u == Turn(s, x.turn)
<1>1. b \in BOOLEAN
  OBVIOUS
<1>2. u \in {"none", "first", "step", "params", "open", "failed"}
  BY DEF Turn, Histories
<1>3. Told(s, x) = [x EXCEPT !.turn = u, !.begun = b]
  BY DEF Told
<1>4. s \in {"none", "readyRead", "readyReadOutgoing"} => u = x.turn /\ b = x.begun
  BY DEF Turn, Histories
<1> HIDE DEF b, u
<1>5. /\ Told(s, x) \in Histories /\ Told(s, x).late = x.late /\ Told(s, x).mute = x.mute
      /\ Told(s, x).turn = u /\ Told(s, x).begun = b
  BY <1>1, <1>2, <1>3 DEF Histories
<1>6. (u = x.turn /\ b = x.begun) => Told(s, x) = x
  BY <1>3, ZenonT(40) DEF Histories
<1> QED
  BY <1>4, <1>5, <1>6 DEF b, u

LEMMA BecomeGood ==
  ASSUME NEW m \in Machines, NEW x \in Histories, Become(m, x),
         Good(m.d, m.io, m.c, Told(m.sig, x))
  PROVE  IInv'
<1> DEFINE y == Told(m.sig, x)
           l == x.late /\ m.io.from_net > 0
<1>1. /\ y \in Histories /\ y.late = x.late /\ y.mute = x.mute /\ y.turn = Turn(m.sig, x.turn)
      /\ y.begun = (x.begun \/ m.sig \in {"clientStarted", "serverStarted"}) /\ m.sig \in Sigs
  BY ToldFacts DEF Machines
<1>2. h' = [x EXCEPT !.turn = Turn(m.sig, @), !.begun = @ \/ m.sig \in {"clientStarted", "serverStarted"},
                     !.late = @ /\ m.io.from_net > 0]
  BY DEF Become
<1>3. h' = [x EXCEPT !.turn = y.turn, !.begun = y.begun, !.late = l]
  BY <1>1, <1>2
<1>4. l \in BOOLEAN
  OBVIOUS
<1>5. d' = m.d /\ io' = m.io /\ c' = m.c /\ sig' = m.sig
  BY DEF Become
<1>6. Good(m.d, m.io, m.c, y)
  OBVIOUS
<1> HIDE DEF y
<1>7. /\ h' \in Histories /\ h'.late = l /\ h'.mute = x.mute /\ h'.turn = y.turn /\ h'.begun = y.begun
  BY <1>1, <1>3, <1>4 DEF Histories
<1> HIDE DEF l
<1>8. l = (y.late /\ m.io.from_net > 0)
  BY <1>1 DEF l
<1>9. Types(d', io', c', h')
  BY <1>5, <1>6, <1>7 DEF Good, Core, Types
<1>10. Phase(d', h') /\ Asked(d', h')
  BY <1>5, <1>6, <1>7 DEF Good, Core, Phase, Asked
<1>11. Counted(d', io', c') /\ Provider(d', c', h')
  BY <1>1, <1>5, <1>6, <1>7 DEF Good, Core, Counted, Provider
<1>12. Waits(d', io', h') /\ Armed(d')
  BY <1>5, <1>6, <1>7, <1>8 DEF Good, Waits, Late, Armed
<1>13. IInv' = (Good(d', io', c', h') /\ (h'.late => io'.from_net > 0) /\ sig' \in Sigs)
  BY DEF IInv
<1> QED
  BY <1>1, <1>5, <1>7, <1>8, <1>9, <1>10, <1>11, <1>12, <1>13 DEF Good, Core

LEMMA CUpdateFacts ==
  ASSUME NEW y \in Contexts, NEW net \in Nat, NEW app \in Nat
  PROVE  LET C == CUpdate(y, net, app)
         IN /\ C \in Contexts /\ C.posted = y.posted + 1 /\ C.app = app
            /\ C.result_to_net = IF app > 0 THEN "own" ELSE y.result_to_net
<1> DEFINE r == IF app > 0 THEN "own" ELSE y.result_to_net
           p == y.posted + 1
<1>1. r \in {"empty", "own", "old"} /\ p \in Nat
  BY DEF Contexts
<1>2. CUpdate(y, net, app) = [y EXCEPT !.net = net, !.app = app, !.posted = p, !.result_to_net = r]
  BY DEF CUpdate
<1> HIDE DEF r, p
<1>3. LET C == [y EXCEPT !.net = net, !.app = app, !.posted = p, !.result_to_net = r]
      IN C \in Contexts /\ C.posted = p /\ C.app = app /\ C.result_to_net = r
  BY <1>1 DEF Contexts
<1> QED
  BY <1>2, <1>3 DEF r, p

LEMMA BufferFacts ==
  ASSUME NEW b \in IntBuffers, NEW p \in Int
  PROVE  LET I == [b EXCEPT !.out_pending = p, !.from_net = 0, !.out = 0]
         IN I \in IntBuffers /\ I.out = 0 /\ I.from_net = 0 /\ I.out_pending = p
  BY DEF IntBuffers

(* update() when the operation can be started, and when it cannot *)
LEMMA UpdateRuns ==
  ASSUME NEW m \in Machines, m.d.authed, m.d.actionQueue = <<>>, m.d.op = "none"
  PROVE  LET n == update(m)
         IN /\ n \in Machines /\ n.sig = m.sig
            /\ n.d = [m.d EXCEPT !.need_update = FALSE, !.op = "OpUpdate"]
            /\ n.io.out = 0 /\ n.io.from_net = 0 /\ n.io.out_pending = m.io.out_pending + m.io.out
            /\ n.c.posted = m.c.posted + 1 /\ n.c.app = m.io.out
            /\ n.c.result_to_net = IF m.io.out > 0 THEN "own" ELSE m.c.result_to_net
<1> DEFINE D == [m.d EXCEPT !.need_update = FALSE, !.op = "OpUpdate"]
           I == [m.io EXCEPT !.out_pending = @ + m.io.out, !.from_net = 0, !.out = 0]
           C == CUpdate(m.c, m.io.from_net, m.io.out)
           n == [m EXCEPT !.d = D, !.io = I, !.c = C]
<1>0. m.d \in Privates /\ m.io \in IntBuffers /\ m.c \in Contexts
  BY DEF Machines
<1>1. update(m) = n
  BY DEF update, Machines
<1>2. D \in Privates
  BY <1>0 DEF Privates, Ops
<1>3. I \in IntBuffers /\ I.out = 0 /\ I.from_net = 0 /\ I.out_pending = m.io.out_pending + m.io.out
  <2>1. m.io.out_pending + m.io.out \in Int
    BY <1>0 DEF IntBuffers
  <2> QED
    BY <1>0, <2>1, BufferFacts
<1>4. C \in Contexts /\ C.posted = m.c.posted + 1 /\ C.app = m.io.out
      /\ C.result_to_net = IF m.io.out > 0 THEN "own" ELSE m.c.result_to_net
  <2>1. m.io.from_net \in Nat /\ m.io.out \in Nat
    BY <1>0 DEF IntBuffers
  <2> QED
    BY <1>0, <2>1, CUpdateFacts, ZenonT(40)
<1> HIDE DEF D, I, C
<1>5. n \in Machines /\ n.d = D /\ n.io = I /\ n.c = C /\ n.sig = m.sig
  BY <1>2, <1>3, <1>4 DEF Machines
<1> QED
  BY <1>1, <1>3, <1>4, <1>5 DEF D

LEMMA UpdateDefers ==
  ASSUME NEW m \in Machines, m.d.authed, m.d.actionQueue # <<>> \/ m.d.op # "none"
  PROVE  LET n == update(m)
         IN /\ n \in Machines /\ n.sig = m.sig /\ n.io = m.io /\ n.c = m.c
            /\ n.d = [m.d EXCEPT !.need_update = TRUE]
<1> DEFINE D == [m.d EXCEPT !.need_update = TRUE]
<1>1. update(m) = [m EXCEPT !.d = D]
  BY DEF update, Machines
<1>2. D \in Privates
  BY DEF Machines, Privates
<1> HIDE DEF D
<1>3. [m EXCEPT !.d = D] \in Machines
  BY <1>2 DEF Machines
<1> QED
  BY <1>1, <1>2, <1>3 DEF Machines, D

LEMMA UpdateGood ==
  ASSUME NEW m \in Machines, NEW x, Core(m.d, m.io, m.c, x), Late(m.io, x) => m.d.authed
  PROVE  LET n == update(m)
         IN /\ n \in Machines /\ n.sig = m.sig
            /\ Core(n.d, n.io, n.c, x) /\ Waits(n.d, n.io, x)
            /\ (m.d.actionQueue # <<>> => m.d.trigger) => Armed(n.d)
            /\ n.d.actionQueue = m.d.actionQueue
<1> DEFINE n == update(m)
<1>0. m.d \in Privates /\ m.io \in IntBuffers /\ m.c \in Contexts /\ x \in Histories
  BY DEF Machines, Core, Types
<1>1. CASE ~m.d.authed
  <2>1. n = m
    BY <1>1 DEF update
  <2>2. Waits(m.d, m.io, x) /\ ~m.d.need_update
    BY <1>1 DEF Waits, Core, Phase
  <2> QED
    BY <2>1, <2>2 DEF Armed
<1>2. CASE m.d.authed /\ (m.d.actionQueue # <<>> \/ m.d.op # "none")
  <2>1. n \in Machines /\ n.sig = m.sig /\ n.io = m.io /\ n.c = m.c /\ n.d = [m.d EXCEPT !.need_update = TRUE]
    BY <1>2, UpdateDefers
  <2> HIDE DEF n
  <2>2. /\ n.d.need_update /\ n.d.authed /\ n.d.op = m.d.op /\ n.d.actionQueue = m.d.actionQueue
        /\ n.d.server = m.d.server /\ n.d.first = m.d.first /\ n.d.errorCode = m.d.errorCode
        /\ n.d.trigger = m.d.trigger /\ n.d \in Privates
    BY <1>0, <1>2, <2>1 DEF Privates
  <2>3. Phase(n.d, x) /\ Asked(n.d, x)
    BY <1>2, <2>2 DEF Core, Phase, Asked
  <2>4. Counted(n.d, n.io, n.c) /\ Provider(n.d, n.c, x) /\ Types(n.d, n.io, n.c, x)
    BY <1>2, <2>1, <2>2 DEF Core, Counted, Owed, Provider, Types
  <2>5. Waits(n.d, n.io, x) /\ ((m.d.actionQueue # <<>> => m.d.trigger) => Armed(n.d))
    BY <1>2, <2>2 DEF Waits, Armed
  <2> QED
    BY <2>1, <2>2, <2>3, <2>4, <2>5 DEF Core, n
<1>3. CASE m.d.authed /\ m.d.actionQueue = <<>> /\ m.d.op = "none"
  <2>1. /\ n \in Machines /\ n.sig = m.sig
        /\ n.d = [m.d EXCEPT !.need_update = FALSE, !.op = "OpUpdate"]
        /\ n.io.out = 0 /\ n.io.from_net = 0 /\ n.io.out_pending = m.io.out_pending + m.io.out
        /\ n.c.posted = m.c.posted + 1 /\ n.c.app = m.io.out
        /\ n.c.result_to_net = IF m.io.out > 0 THEN "own" ELSE m.c.result_to_net
    BY <1>3, UpdateRuns
  <2> HIDE DEF n
  <2>2. /\ ~n.d.need_update /\ n.d.authed /\ n.d.op = "OpUpdate" /\ n.d.actionQueue = <<>>
        /\ n.d.server = m.d.server /\ n.d.first = m.d.first /\ n.d.errorCode = m.d.errorCode
        /\ n.d \in Privates /\ n.io \in IntBuffers /\ n.c \in Contexts
    BY <1>0, <1>3, <2>1 DEF Privates, Ops, Machines
  <2>3. Phase(n.d, x) /\ Asked(n.d, x)
    BY <1>3, <2>2 DEF Core, Phase, Asked
  <2>4. m.io.out \in Nat /\ m.io.out_pending \in Int /\ m.c.posted \in Nat
    BY <1>0 DEF IntBuffers, Contexts
  <2>5. Counted(n.d, n.io, n.c)
    BY <1>3, <2>1, <2>2, <2>4 DEF Core, Counted, Owed
  <2>6. Provider(n.d, n.c, x) /\ Types(n.d, n.io, n.c, x)
    BY <1>0, <1>3, <2>1, <2>2, <2>4 DEF Provider, Types
  <2>7. Waits(n.d, n.io, x) /\ Armed(n.d)
    BY <2>1, <2>2 DEF Waits, Late, Armed
  <2> QED
    BY <1>3, <2>1, <2>2, <2>3, <2>5, <2>6, <2>7 DEF Core, n
<1> QED
  BY <1>1, <1>2, <1>3 DEF Core, Phase

(* What a signal may mean for a session with the history x *)
Order(s, x) ==
    /\ s \in {"nextStep", "authCheck", "authenticated"} => x.begun
    /\ s \in {"clientStarted", "serverStarted"} => ~x.begun
    /\ s \in {"readyRead", "readyReadOutgoing"} => x.turn \in {"open", "failed"}
    /\ x.turn = "open" => s \notin AuthSignals

Result(n, x) ==
    n \in Machines /\ Good(n.d, n.io, n.c, Told(n.sig, x)) /\ Order(n.sig, x)

LEMMA SilentResult ==
  ASSUME NEW n \in Machines, NEW x \in Histories, n.sig = "none", Good(n.d, n.io, n.c, x)
  PROVE  Result(n, x)
  BY ToldFacts DEF Result, Order, AuthSignals, Sigs

(* The members that no signal touches *)
Same(D, E) ==
    /\ D.op = E.op /\ D.server = E.server /\ D.first = E.first /\ D.errorCode = E.errorCode

(* processNextAction() takes the first signal out of the queue *)
LEMMA TakeFirst ==
  ASSUME NEW m \in Machines, m.d.actionQueue # <<>>
  PROVE  \E D \in Privates :
            /\ processNextAction(m) = Perform([m EXCEPT !.d = D], Head(m.d.actionQueue))
            /\ [m EXCEPT !.d = D] \in Machines
            /\ Same(D, m.d) /\ D.authed = m.d.authed /\ D.need_update = m.d.need_update
            /\ D.actionQueue = Tail(m.d.actionQueue)
            /\ D.actionQueue # <<>> \/ D.need_update => D.trigger
<1> DEFINE b == m.d.trigger \/ Tail(m.d.actionQueue) # <<>> \/ m.d.need_update
           rest == Tail(m.d.actionQueue)
           D == [m.d EXCEPT !.actionQueue = rest, !.trigger = b]
<1>0. m.d \in Privates
  BY DEF Machines
<1>1. b \in BOOLEAN /\ rest \in Seq(Actions) /\ (rest # <<>> \/ m.d.need_update => b)
  BY <1>0 DEF Privates
<1>2. processNextAction(m) = Perform([m EXCEPT !.d = D], Head(m.d.actionQueue))
  BY DEF processNextAction, Machines
<1> HIDE DEF b, rest
<1>3. /\ D \in Privates /\ Same(D, m.d) /\ D.authed = m.d.authed /\ D.need_update = m.d.need_update
      /\ D.actionQueue = rest /\ D.trigger = b
  BY <1>0, <1>1 DEF Privates, Same
<1>4. [m EXCEPT !.d = D] \in Machines
  BY <1>3 DEF Machines
<1> QED
  BY <1>1, <1>2, <1>3, <1>4 DEF rest

LEMMA ProcessData ==
  ASSUME NEW m \in Machines, NEW x, Core(m.d, m.io, m.c, x), Waits(m.d, m.io, x),
         m.sig = "none", m.d.authed, m.d.actionQueue # <<>>
  PROVE  Result(processNextAction(m), x)
<1> DEFINE q == m.d.actionQueue
<1>0. m.d \in Privates /\ x \in Histories /\ DataOnly(q)
  BY DEF Core, Types, Phase
<1>1. Head(q) \in {"ReadyRead", "ReadyReadOutgoing"} /\ DataOnly(Tail(q))
  BY <1>0 DEF DataOnly
<1>2. PICK D \in Privates :
            /\ processNextAction(m) = Perform([m EXCEPT !.d = D], Head(q))
            /\ [m EXCEPT !.d = D] \in Machines
            /\ Same(D, m.d) /\ D.authed = m.d.authed /\ D.need_update = m.d.need_update
            /\ D.actionQueue = Tail(q)
            /\ D.actionQueue # <<>> \/ D.need_update => D.trigger
  BY TakeFirst
<1> DEFINE u == [m EXCEPT !.d = D]
           n == processNextAction(m)
<1>3. u \in Machines /\ u.d = D /\ u.io = m.io /\ u.c = m.c
  BY <1>2 DEF Machines
<1>4. n = Perform(u, Head(q))
  BY <1>2
<1> HIDE DEF u
<1>5. PICK g \in {"readyRead", "readyReadOutgoing"} : n = [u EXCEPT !.sig = g]
  BY <1>1, <1>4 DEF Perform
<1>6. n \in Machines /\ n.d = D /\ n.io = m.io /\ n.c = m.c /\ n.sig \in {"readyRead", "readyReadOutgoing"}
  BY <1>3, <1>5 DEF Machines, Sigs
<1> HIDE DEF n
<1>7. Phase(D, x) /\ Asked(D, x)
  BY <1>0, <1>1, <1>2 DEF Core, Phase, Asked, Same, DataOnly
<1>8. Counted(D, m.io, m.c) /\ Provider(D, m.c, x) /\ Types(D, m.io, m.c, x)
  BY <1>2 DEF Core, Counted, Owed, Provider, Types, Same
<1>9. Waits(D, m.io, x) /\ Armed(D)
  BY <1>2 DEF Waits, Armed
<1>10. Told(n.sig, x) = x
  BY <1>0, <1>6, ToldFacts DEF Machines
<1>11. Order(n.sig, x)
  BY <1>6 DEF Order, AuthSignals, Core, Phase
<1> QED
  BY <1>6, <1>7, <1>8, <1>9, <1>10, <1>11 DEF Result, Good, Core, n

LEMMA ProcessAuthenticated ==
  ASSUME NEW m \in Machines, NEW x, Types(m.d, m.io, m.c, x), Counted(m.d, m.io, m.c),
         m.sig = "none", ~m.d.authed, m.d.actionQueue = <<"Authenticated">>, m.d.op = "none",
         ~m.d.need_update, ~Late(m.io, x), m.c.result_to_net # "own", Asked(m.d, x), x.begun,
         x.turn # "open"
  PROVE  Result(processNextAction(m), x)
<1> DEFINE q == m.d.actionQueue
<1>0. m.d \in Privates /\ x \in Histories
  BY DEF Types
<1>1. Head(q) = "Authenticated" /\ Tail(q) = <<>> /\ q # <<>>
  OBVIOUS
<1>2. PICK D \in Privates :
            /\ processNextAction(m) = Perform([m EXCEPT !.d = D], Head(q))
            /\ [m EXCEPT !.d = D] \in Machines
            /\ Same(D, m.d) /\ D.authed = m.d.authed /\ D.need_update = m.d.need_update
            /\ D.actionQueue = Tail(q)
            /\ D.actionQueue # <<>> \/ D.need_update => D.trigger
  BY <1>1, TakeFirst
<1> DEFINE u == [m EXCEPT !.d = D]
           n == processNextAction(m)
           waiting == m.io.out > 0
           b == D.trigger \/ waiting
           E == [D EXCEPT !.authed = TRUE, !.need_update = waiting, !.trigger = b]
<1>3. u \in Machines /\ u.d = D /\ u.io = m.io /\ u.c = m.c
  BY <1>2 DEF Machines
<1>4. n = Authenticated(u)
  BY <1>1, <1>2 DEF Perform
<1> HIDE DEF u, n
<1>5. n = [u EXCEPT !.d = [D EXCEPT !.authed = TRUE, !.need_update = @ \/ waiting, !.trigger = @ \/ waiting],
                    !.sig = "authenticated"]
  BY <1>3, <1>4 DEF Authenticated, Machines
<1>6. waiting \in BOOLEAN /\ b \in BOOLEAN /\ (D.need_update \/ waiting) = waiting
  BY <1>2
<1>7. n = [u EXCEPT !.d = E, !.sig = "authenticated"]
  BY <1>5, <1>6
<1> HIDE DEF waiting, b
<1>8. /\ E \in Privates /\ E.authed /\ E.need_update = waiting /\ E.trigger = b /\ Same(E, D)
      /\ E.actionQueue = <<>>
  BY <1>1, <1>2, <1>6 DEF Privates, Same
<1> HIDE DEF E
<1>9. n \in Machines /\ n.d = E /\ n.io = m.io /\ n.c = m.c /\ n.sig = "authenticated"
  BY <1>3, <1>7, <1>8 DEF Machines, Sigs, AuthSignals
<1> DEFINE y == Told(n.sig, x)
<1>10. y \in Histories /\ y.turn = "open" /\ y.begun /\ y.late = x.late
  BY <1>0, <1>9, ToldFacts DEF Machines, Turn
<1> HIDE DEF y
<1>11. E.op = "none" /\ E.server = m.d.server /\ E.first = m.d.first /\ E.errorCode = m.d.errorCode
  BY <1>2, <1>8 DEF Same
<1>12. Phase(E, y) /\ Asked(E, y)
  BY <1>8, <1>10, <1>11 DEF Phase, Asked, DataOnly
<1>13. Counted(E, m.io, m.c) /\ Provider(E, m.c, y) /\ Types(E, m.io, m.c, y)
  BY <1>8, <1>10, <1>11 DEF Counted, Owed, Provider, Types
<1>14. Waits(E, m.io, y) /\ Armed(E)
  BY <1>8, <1>10, <1>11 DEF Waits, Late, Armed, waiting, b
<1>15. Order(n.sig, x)
  BY <1>9 DEF Order
<1> QED
  BY <1>9, <1>12, <1>13, <1>14, <1>15 DEF Result, Good, Core, n, y

(* A signal of the authentication that is not the last one *)
LEMMA ProcessStep ==
  ASSUME NEW m \in Machines, NEW x, Types(m.d, m.io, m.c, x), Counted(m.d, m.io, m.c),
         m.sig = "none", ~m.d.authed, m.d.op = "none",
         ~m.d.need_update, ~Late(m.io, x), m.c.result_to_net # "own",
         NEW a \in {"ClientStarted", "NextStep"},
         m.d.actionQueue \in {<<a>>, <<a, "Authenticated">>}, x.turn # "open",
         a = "ClientStarted" => ~x.begun, a = "NextStep" => x.begun,
         ~m.d.server => ~m.d.first
  PROVE  Result(processNextAction(m), x)
<1> DEFINE q == m.d.actionQueue
<1>0. m.d \in Privates /\ x \in Histories
  BY DEF Types
<1>1. Head(q) = a /\ Tail(q) \in {<<>>, <<"Authenticated">>} /\ q # <<>>
  <2>1. CASE q = <<a>>
    BY <2>1
  <2>2. CASE q = <<a, "Authenticated">>
    <3>1. Head(q) = a /\ q # <<>>
      BY <2>2
    <3>2. Tail(q) = <<"Authenticated">>
      BY <2>2
    <3> QED
      BY <3>1, <3>2
  <2> QED
    BY <2>1, <2>2
<1>2. PICK D \in Privates :
            /\ processNextAction(m) = Perform([m EXCEPT !.d = D], Head(q))
            /\ [m EXCEPT !.d = D] \in Machines
            /\ Same(D, m.d) /\ D.authed = m.d.authed /\ D.need_update = m.d.need_update
            /\ D.actionQueue = Tail(q)
            /\ D.actionQueue # <<>> \/ D.need_update => D.trigger
  BY <1>1, TakeFirst
<1> DEFINE u == [m EXCEPT !.d = D]
           n == processNextAction(m)
           g == IF a = "NextStep" THEN "nextStep" ELSE "clientStarted"
<1>3. u \in Machines /\ u.d = D /\ u.io = m.io /\ u.c = m.c
  BY <1>2 DEF Machines
<1>4. n = [u EXCEPT !.sig = g]
  BY <1>1, <1>2 DEF Perform
<1> HIDE DEF u, n
<1>5. n \in Machines /\ n.d = D /\ n.io = m.io /\ n.c = m.c /\ n.sig = g /\ g \in Sigs
  BY <1>3, <1>4 DEF Machines, Sigs, AuthSignals
<1> DEFINE y == Told(g, x)
<1>6. y \in Histories /\ y.turn = "step" /\ y.begun /\ y.late = x.late
  <2>1. y \in Histories /\ y.late = x.late /\ y.turn = Turn(g, x.turn)
        /\ y.begun = (x.begun \/ g \in {"clientStarted", "serverStarted"})
    BY <1>0, <1>5, ToldFacts
  <2>2. CASE a = "NextStep"
    <3>1. g = "nextStep" /\ Turn(g, x.turn) = "step"
      BY <2>2 DEF Turn
    <3> QED
      BY <2>1, <2>2, <3>1
  <2>3. CASE a = "ClientStarted"
    <3>1. g = "clientStarted" /\ Turn(g, x.turn) = "step"
      BY <2>3 DEF Turn
    <3> QED
      BY <2>1, <2>3, <3>1
  <2> QED
    BY <2>2, <2>3
<1> HIDE DEF y
<1>7. D.op = "none" /\ D.server = m.d.server /\ D.first = m.d.first /\ D.errorCode = m.d.errorCode
  BY <1>2 DEF Same
<1>8. Phase(D, y) /\ Asked(D, y)
  BY <1>1, <1>2, <1>6, <1>7 DEF Phase, Asked
<1>9. Counted(D, m.io, m.c) /\ Provider(D, m.c, y) /\ Types(D, m.io, m.c, y)
  BY <1>6, <1>7 DEF Counted, Owed, Provider, Types
<1>10. Waits(D, m.io, y) /\ Armed(D)
  BY <1>2, <1>6, <1>7 DEF Waits, Late, Armed
<1>11. Order(n.sig, x)
  BY <1>5 DEF Order
<1> QED
  BY <1>5, <1>8, <1>9, <1>10, <1>11 DEF Result, Good, Core, n, y

(* processNextAction() keeps the invariant, whatever waits *)
LEMMA ProcessGood ==
  ASSUME NEW m \in Machines, NEW x, Core(m.d, m.io, m.c, x), Waits(m.d, m.io, x), m.sig = "none"
  PROVE  Result(processNextAction(m), x)
<1> DEFINE q == m.d.actionQueue
<1>0. m.d \in Privates /\ x \in Histories
  BY DEF Core, Types
<1>1. CASE q = <<>> /\ m.d.need_update
  <2> DEFINE n == update(m)
  <2>1. Late(m.io, x) => m.d.authed
    BY DEF Core, Phase, Waits
  <2>2. n \in Machines /\ n.sig = "none" /\ Good(n.d, n.io, n.c, x)
    BY <1>1, <2>1, UpdateGood DEF Good
  <2>3. processNextAction(m) = n
    BY <1>1 DEF processNextAction
  <2> QED
    BY <1>0, <2>2, <2>3, SilentResult
<1>2. CASE q = <<>> /\ ~m.d.need_update
  <2>1. processNextAction(m) = m
    BY <1>2 DEF processNextAction
  <2>2. Good(m.d, m.io, m.c, x)
    BY <1>2 DEF Good, Armed
  <2> QED
    BY <1>0, <2>1, <2>2, SilentResult
<1>3. CASE q # <<>> /\ m.d.authed
  BY <1>3, ProcessData
<1>4. CASE q # <<>> /\ ~m.d.authed
  <2>1. q = <<"Authenticated">> /\ ~m.d.need_update /\ m.d.op = "none" /\ x.begun /\ x.turn # "open"
    BY <1>4 DEF Core, Phase
  <2>2. ~Late(m.io, x) /\ m.c.result_to_net # "own"
    BY <1>4, <2>1 DEF Core, Waits, Provider
  <2>3. Types(m.d, m.io, m.c, x) /\ Counted(m.d, m.io, m.c) /\ Asked(m.d, x)
    BY DEF Core
  <2> QED
    BY <1>4, <2>1, <2>2, <2>3, ProcessAuthenticated
<1> QED
  BY <1>0, <1>1, <1>2, <1>3, <1>4 DEF Privates

(* error(): the session is over *)
LEMMA FailResult ==
  ASSUME NEW m \in Machines, NEW x, Types(m.d, m.io, m.c, x), NEW e \in {"Init", "Handshake", "Crypt"},
         m.d.op = "none", m.d.actionQueue = <<>>, ~m.d.authed => ~m.d.need_update,
         m.d.authed => x.begun, ~m.d.server /\ m.d.first => ~x.begun,
         m.io.out_pending >= 0, m.c.result_to_net = "own" => m.d.authed, Waits(m.d, m.io, x)
  PROVE  Result(Fail(m, e), x)
<1> DEFINE D == [m.d EXCEPT !.errorCode = e]
           n == Fail(m, e)
<1>0. m.d \in Privates /\ x \in Histories /\ m.io \in IntBuffers
  BY DEF Types
<1>1. /\ D \in Privates /\ D.errorCode = e /\ D.op = m.d.op /\ D.actionQueue = m.d.actionQueue
      /\ D.authed = m.d.authed /\ D.need_update = m.d.need_update /\ D.server = m.d.server
      /\ D.first = m.d.first /\ D.trigger = m.d.trigger
  BY <1>0 DEF Privates
<1>2. n = [m EXCEPT !.d = D, !.sig = "error"]
  BY DEF Fail, Machines
<1> HIDE DEF D, n
<1>3. n \in Machines /\ n.d = D /\ n.io = m.io /\ n.c = m.c /\ n.sig = "error"
  BY <1>1, <1>2 DEF Machines, Sigs
<1> DEFINE y == Told(n.sig, x)
<1>4. y \in Histories /\ y.turn = "failed" /\ y.begun = x.begun /\ y.late = x.late
  <2>1. Turn("error", x.turn) = "failed"
    BY DEF Turn
  <2>2. y \in Histories /\ y.late = x.late /\ y.turn = Turn("error", x.turn)
        /\ y.begun = (x.begun \/ "error" \in {"clientStarted", "serverStarted"})
    <3>1. y = Told("error", x) /\ "error" \in Sigs
      BY <1>3 DEF Sigs
    <3> HIDE DEF y
    <3> QED
      BY <1>0, <3>1, ToldFacts
  <2>3. x.begun \in BOOLEAN
    BY <1>0 DEF Histories
  <2> QED
    BY <2>1, <2>2, <2>3
<1> HIDE DEF y
<1>5. Phase(D, y) /\ Asked(D, y)
  BY <1>1, <1>4 DEF Phase, Asked, DataOnly
<1>6. Counted(D, m.io, m.c) /\ Provider(D, m.c, y) /\ Types(D, m.io, m.c, y)
  BY <1>1, <1>4 DEF Counted, Owed, Provider, Types
<1>7. Waits(D, m.io, y) /\ Armed(D)
  BY <1>1, <1>4 DEF Waits, Late, Armed
<1>8. Order(n.sig, x)
  BY <1>3 DEF Order, AuthSignals
<1> QED
  BY <1>3, <1>5, <1>6, <1>7, <1>8 DEF Result, Good, Core, n, y

(* A question to the application *)
LEMMA AskResult ==
  ASSUME NEW m \in Machines, NEW x, Types(m.d, m.io, m.c, x), Counted(m.d, m.io, m.c),
         NEW g \in {"nextStep", "authCheck", "needParams", "serverStarted"},
         m.d.op = "none", m.d.actionQueue = <<>>, ~m.d.authed, ~m.d.need_update,
         ~Late(m.io, x), m.c.result_to_net # "own", x.turn # "open",
         g \in {"nextStep", "authCheck"} => x.begun,
         g = "needParams" => ~m.d.server,
         g = "serverStarted" => m.d.server /\ ~x.begun,
         ~m.d.server => m.d.first = ~x.begun
  PROVE  Result([m EXCEPT !.sig = g], x)
<1> DEFINE D == m.d
           n == [m EXCEPT !.sig = g]
<1>0. m.d \in Privates /\ x \in Histories /\ m.io \in IntBuffers
  BY DEF Types
<1>1. n \in Machines /\ n.d = D /\ n.io = m.io /\ n.c = m.c /\ n.sig = g /\ g \in Sigs
  BY DEF Machines, Sigs, AuthSignals
<1> DEFINE y == Told(g, x)
<1> HIDE DEF n
<1>2. /\ y \in Histories /\ y.late = x.late /\ y.turn \in {"first", "step", "params"}
      /\ y.begun = (x.begun \/ g = "serverStarted")
      /\ g = "serverStarted" => y.turn = "first"
      /\ g = "nextStep" => y.turn = "step"
  <2>1. y \in Histories /\ y.late = x.late /\ y.turn = Turn(g, x.turn)
        /\ y.begun = (x.begun \/ g \in {"clientStarted", "serverStarted"})
    BY <1>0, <1>1, ToldFacts
  <2> HIDE DEF y
  <2>2. CASE g = "nextStep"
    BY <2>1, <2>2 DEF Turn
  <2>3. CASE g = "authCheck"
    BY <2>1, <2>3 DEF Turn
  <2>4. CASE g = "needParams"
    BY <2>1, <2>4 DEF Turn
  <2>5. CASE g = "serverStarted"
    BY <2>1, <2>5 DEF Turn
  <2> QED
    BY <2>2, <2>3, <2>4, <2>5
<1> HIDE DEF y
<1>3. y.turn \in {"first", "step"} => y.begun
  <2>1. g \in {"nextStep", "serverStarted", "authCheck"} => y.begun
    BY <1>2
  <2>2. g = "needParams" => y.turn = "params"
    BY <1>0, <1>1, ToldFacts DEF Turn, y
  <2> QED
    BY <2>1, <2>2
<1>4. Phase(D, y)
  BY <1>2 DEF Phase
<1>5. Asked(D, y)
  <2>1. m.d.server => y.begun
    BY <1>2
  <2>2. ~m.d.server => m.d.first = ~y.begun
    BY <1>0, <1>2 DEF Histories
  <2> QED
    BY <1>3, <2>1, <2>2 DEF Asked
<1>6. Counted(D, m.io, m.c) /\ Provider(D, m.c, y) /\ Types(D, m.io, m.c, y)
  BY <1>2 DEF Counted, Owed, Provider, Types
<1>7. Waits(D, m.io, y) /\ Armed(D)
  BY <1>2 DEF Waits, Late, Armed
<1>8. Order(g, x)
  BY DEF Order
<1> QED
  BY <1>1, <1>4, <1>5, <1>6, <1>7, <1>8 DEF Result, Good, Core, n, y

LEMMA Pair ==
  ASSUME NEW a, NEW b
  PROVE  <<a>> \o <<b>> = <<a, b>>
<1> DEFINE S == {a, b}
           s == <<a>>
           t == <<b>>
           u == s \o t
<1>1. s \in Seq(S) /\ t \in Seq(S) /\ Len(s) = 1 /\ Len(t) = 1 /\ s[1] = a /\ t[1] = b
  OBVIOUS
<1> HIDE DEF S, s, t
<1>2. u \in Seq(S) /\ Len(u) = 2 /\ u[1] = a /\ u[2] = b
  BY <1>1, ConcatProperties
<1> HIDE DEF u
<1>3. u = <<a, b>>
  BY <1>2
<1> QED
  BY <1>3 DEF u, s, t

(* What is put into the empty queue *)
LEMMA Queued ==
  ASSUME NEW a, NEW b, NEW p \in BOOLEAN
  PROVE  /\ <<>> \o (When(p, a) \o <<b>>) = IF p THEN <<a, b>> ELSE <<b>>
         /\ <<>> \o (<<b>> \o When(p, a)) = IF p THEN <<b, a>> ELSE <<b>>
         /\ <<>> \o <<b>> = <<b>>
<1>1. <<>> \o <<b>> = <<b>> /\ <<b>> \o <<>> = <<b>>
  OBVIOUS
<1>2. <<a>> \o <<b>> = <<a, b>> /\ <<b>> \o <<a>> = <<b, a>>
  BY Pair
<1>3. <<>> \o <<a, b>> = <<a, b>> /\ <<>> \o <<b, a>> = <<b, a>>
  OBVIOUS
<1>4. CASE p
  BY <1>2, <1>3, <1>4 DEF When
<1>5. CASE ~p
  BY <1>1, <1>5 DEF When
<1> QED
  BY <1>1, <1>4, <1>5

LEMMA WhenSeq ==
  ASSUME NEW S, NEW a \in S, NEW p \in BOOLEAN
  PROVE  When(p, a) \in Seq(S)
  BY DEF When

LEMMA WhenAction ==
  ASSUME NEW a \in Actions, NEW p \in BOOLEAN
  PROVE  When(p, a) \in Seq(Actions)
  BY WhenSeq

LEMMA EnqueueFacts ==
  ASSUME NEW m \in Machines, NEW as \in Seq(Actions)
  PROVE  LET n == Enqueue(m, as)
         IN /\ n \in Machines /\ n.io = m.io /\ n.c = m.c /\ n.sig = m.sig
            /\ n.d.actionQueue = m.d.actionQueue \o as /\ Same(n.d, m.d)
            /\ n.d.authed = m.d.authed /\ n.d.need_update = m.d.need_update
<1> DEFINE q == m.d.actionQueue \o as
           D == [m.d EXCEPT !.actionQueue = q]
<1>0. m.d \in Privates
  BY DEF Machines
<1>1. Enqueue(m, as) = [m EXCEPT !.d = D]
  BY DEF Enqueue, Machines
<1>2. q \in Seq(Actions)
  <2>1. m.d.actionQueue \in Seq(Actions)
    BY <1>0 DEF Privates
  <2> QED
    BY <2>1, ConcatProperties
<1> HIDE DEF q
<1>3. /\ D \in Privates /\ D.actionQueue = q /\ Same(D, m.d) /\ D.authed = m.d.authed
      /\ D.need_update = m.d.need_update
  BY <1>0, <1>2 DEF Privates, Same
<1> HIDE DEF D
<1> QED
  BY <1>1, <1>3 DEF Machines, q

------------------------------------------------------------------------------
(* The provider's answers                                                  *)

LEMMA AnswerFields ==
  ASSUME NEW r, NEW b \in BOOLEAN, NEW a, NEW y, NEW o, o = Answer(r, b, a, y)
  PROVE  o.result = r /\ o.data \in BOOLEAN /\ o.toApp = a /\ o.c = y
  BY DEF Answer

(* An answer C of a provider that was C0 *)
Kept(C, C0) == C \in Contexts /\ C.app = C0.app /\ C.posted = C0.posted

LEMMA TryAgainAnswers ==
  ASSUME NEW y \in Contexts
  PROVE  /\ \A o \in clientTryAgain(y) :
               /\ o.result \in {"Error", "Params", "Continue", "Success"} /\ o.data \in BOOLEAN
               /\ Kept(o.c, y) /\ o.c.result_to_net = y.result_to_net
         /\ \A o \in serverTryAgain(y) :
               /\ o.result \in {"Error", "AuthCheck", "Continue", "Success"} /\ o.data \in BOOLEAN
               /\ Kept(o.c, y) /\ o.c.result_to_net = y.result_to_net
<1>1. ASSUME NEW o \in clientTryAgain(y)
      PROVE  /\ o.result \in {"Error", "Params", "Continue", "Success"} /\ o.data \in BOOLEAN
             /\ Kept(o.c, y) /\ o.c.result_to_net = y.result_to_net
  <2>1. PICK r \in {"Error", "Params", "Continue", "Success"}, b \in BOOLEAN : o = Answer(r, b, 0, y)
    BY <1>1 DEF clientTryAgain
  <2> QED
    BY <2>1, AnswerFields DEF Kept
<1>2. ASSUME NEW o \in serverTryAgain(y)
      PROVE  /\ o.result \in {"Error", "AuthCheck", "Continue", "Success"} /\ o.data \in BOOLEAN
             /\ Kept(o.c, y) /\ o.c.result_to_net = y.result_to_net
  <2>1. CASE y.ca_skip
    <3> DEFINE z == [y EXCEPT !.ca_skip = FALSE]
               r == IF y.last_ok THEN "Success" ELSE "Continue"
    <3>1. o \in {Answer(r, b, 0, z) : b \in BOOLEAN}
      BY <1>2, <2>1 DEF serverTryAgain, HeldBack
    <3>2. Kept(z, y) /\ z.result_to_net = y.result_to_net
      BY DEF Contexts, Kept
    <3>3. r \in {"Success", "Continue"}
      OBVIOUS
    <3> HIDE DEF z, r
    <3>4. PICK b \in BOOLEAN : o = Answer(r, b, 0, z)
      BY <1>2, <3>1
    <3> QED
      BY <3>2, <3>3, <3>4, AnswerFields
  <2>2. CASE ~y.ca_skip
    <3> DEFINE z(b) == [y EXCEPT !.ca_done = TRUE, !.ca_skip = TRUE, !.last_ok = b]
    <3>1. \A b \in BOOLEAN : Kept(z(b), y) /\ z(b).result_to_net = y.result_to_net
      BY DEF Contexts, Kept
    <3>2. o \in ServerStep(y) \/ o \in AuthCheck(y)
      BY <1>2, <2>2 DEF serverTryAgain
    <3>3. ASSUME o \in ServerStep(y)
          PROVE  \E r \in {"Error", "Continue", "Success"}, b \in BOOLEAN : o = Answer(r, b, 0, y)
      BY <3>3 DEF ServerStep
    <3>4. ASSUME o \in AuthCheck(y)
          PROVE  \E b \in BOOLEAN : o = Answer("AuthCheck", FALSE, 0, z(b))
      BY <3>4 DEF AuthCheck
    <3> HIDE DEF z
    <3>5. CASE o \in ServerStep(y)
      <4>1. PICK r \in {"Error", "Continue", "Success"}, b \in BOOLEAN : o = Answer(r, b, 0, y)
        BY <3>3, <3>5
      <4> QED
        BY <4>1, AnswerFields DEF Kept
    <3>6. CASE o \in AuthCheck(y)
      <4>1. PICK b \in BOOLEAN : o = Answer("AuthCheck", FALSE, 0, z(b))
        BY <3>4, <3>6
      <4>2. PICK f \in BOOLEAN : o = Answer("AuthCheck", f, 0, z(b))
        BY <4>1, Zenon
      <4>3. Kept(z(b), y) /\ z(b).result_to_net = y.result_to_net
        BY <3>1, <4>1
      <4> QED
        BY <4>2, <4>3, AnswerFields
    <3> QED
      BY <1>2, <3>2, <3>5, <3>6
  <2> QED
    BY <2>1, <2>2
<1> QED
  BY <1>1, <1>2

LEMMA UpdateAnswered ==
  ASSUME NEW y \in Contexts, NEW o \in UpdateAnswers(y)
  PROVE  /\ o.toApp \in {0, 1} /\ Kept(o.c, y)
         /\ o.c.result_to_net \in {y.result_to_net, "empty"}
         /\ o.result = "Success" => o.c = y
<1> DEFINE r == IF y.app > 0 THEN "empty" ELSE y.result_to_net
           z == [y EXCEPT !.result_to_net = r]
<1>0. r \in {y.result_to_net, "empty"} /\ r \in {"empty", "own", "old"}
  BY DEF Contexts
<1>1. UpdateAnswers(y) = {Answer("Success", FALSE, a, y) : a \in {n \in {0, 1} : n <= y.net}}
                         \cup {Answer("Error", FALSE, 0, y), Answer("Error", FALSE, 0, z)}
  BY DEF UpdateAnswers
<1> HIDE DEF r
<1>2. Kept(z, y) /\ z.result_to_net = r
  BY <1>0 DEF Contexts, Kept
<1>3. Kept(y, y)
  BY DEF Kept
<1> HIDE DEF z
<1>4. CASE o \in {Answer("Success", FALSE, a, y) : a \in {n \in {0, 1} : n <= y.net}}
  <2>1. PICK a \in {0, 1} : o = Answer("Success", FALSE, a, y)
    BY <1>4
  <2>2. PICK f \in BOOLEAN : o = Answer("Success", f, a, y)
    BY <2>1, Zenon
  <2> QED
    BY <1>3, <2>2, AnswerFields
<1>5. CASE o \in {Answer("Error", FALSE, 0, y), Answer("Error", FALSE, 0, z)}
  <2>1. PICK w \in {y, z}, f \in BOOLEAN : o = Answer("Error", f, 0, w)
    BY <1>5, Zenon
  <2> QED
    BY <1>0, <1>2, <1>3, <2>1, AnswerFields
<1> QED
  BY <1>1, <1>4, <1>5

------------------------------------------------------------------------------
(* sasl_resultsReady()                                                     *)

(* The session as it is when the answer to an operation of the             *)
(* authentication is read: nothing else runs, waits or is owed.            *)
Idle(m, x) ==
    /\ Types(m.d, m.io, m.c, x) /\ Counted(m.d, m.io, m.c)
    /\ m.d.op = "none" /\ m.d.actionQueue = <<>> /\ ~m.d.authed /\ ~m.d.need_update
    /\ ~Late(m.io, x) /\ m.c.result_to_net # "own" /\ x.turn # "open"

LEMMA IdleAsks ==
  ASSUME NEW m \in Machines, NEW x, Idle(m, x),
         NEW g \in {"nextStep", "authCheck", "needParams", "serverStarted"},
         g \in {"nextStep", "authCheck"} => x.begun,
         g = "needParams" => ~m.d.server,
         g = "serverStarted" => m.d.server /\ ~x.begun,
         ~m.d.server => m.d.first = ~x.begun
  PROVE  Result([m EXCEPT !.sig = g], x)
  BY AskResult DEF Idle

LEMMA IdleFails ==
  ASSUME NEW m \in Machines, NEW x, Idle(m, x), NEW e \in {"Init", "Handshake", "Crypt"},
         ~m.d.server => m.d.first = ~x.begun
  PROVE  Result(Fail(m, e), x)
<1>1. m.io.out_pending >= 0 /\ Waits(m.d, m.io, x)
  BY DEF Idle, Counted, Owed, Waits
<1> QED
  BY <1>1, FailResult DEF Idle

(* The authentication has succeeded, with or without a last step *)
LEMMA IdleSucceeds ==
  ASSUME NEW m \in Machines, NEW x, Idle(m, x), m.sig = "none", x.begun,
         ~m.d.server => ~m.d.first, x.turn \notin {"first", "step", "params"},
         NEW as, as \in {<<"Authenticated">>, <<"NextStep", "Authenticated">>},
         NEW bs, <<>> \o bs = as, bs \in Seq(Actions)
  PROVE  Result(processNextAction(Enqueue(m, bs)), x)
<1> DEFINE n == Enqueue(m, bs)
<1>0. m.d.actionQueue \o bs = as
  BY DEF Idle
<1>1. /\ n \in Machines /\ n.io = m.io /\ n.c = m.c /\ n.sig = "none"
      /\ n.d.actionQueue = as /\ Same(n.d, m.d) /\ n.d.authed = m.d.authed
      /\ n.d.need_update = m.d.need_update
  BY <1>0, EnqueueFacts
<1> HIDE DEF n
<1>2. Types(n.d, n.io, n.c, x) /\ Counted(n.d, n.io, n.c)
  BY <1>1 DEF Idle, Types, Counted, Owed, Same, Machines
<1>3. CASE as = <<"Authenticated">>
  <2>1. Asked(n.d, x)
    BY <1>1 DEF Idle, Asked, Same
  <2> QED
    BY <1>1, <1>2, <1>3, <2>1, ProcessAuthenticated DEF Idle, Same, n
<1>4. CASE as = <<"NextStep", "Authenticated">>
  <2>1. ~n.d.server => ~n.d.first
    BY <1>1 DEF Same
  <2> DEFINE a == "NextStep"
  <2>2. a \in {"ClientStarted", "NextStep"} /\ n.d.actionQueue \in {<<a>>, <<a, "Authenticated">>}
        /\ (a = "ClientStarted" => ~x.begun)
    BY <1>1, <1>4
  <2> HIDE DEF a
  <2> QED
    BY <1>1, <1>2, <2>1, <2>2, ProcessStep DEF Idle, Same, n
<1> QED
  BY <1>3, <1>4

LEMMA ServerAnswered ==
  ASSUME NEW m \in Machines, NEW x, Idle(m, x), m.sig = "none", m.d.server, x.begun,
         x.turn \notin {"first", "step", "params"}, NEW o,
         o.result \in {"Error", "AuthCheck", "Continue", "Success"}, o.data \in BOOLEAN
  PROVE  Result(serverResults(m, o), x)
<1>1. CASE o.result = "Continue"
  <2>1. serverResults(m, o) = [m EXCEPT !.sig = "nextStep"]
    BY <1>1 DEF serverResults
  <2> QED
    BY <2>1, IdleAsks
<1>2. CASE o.result = "AuthCheck"
  <2>1. serverResults(m, o) = [m EXCEPT !.sig = "authCheck"]
    BY <1>2 DEF serverResults
  <2> QED
    BY <2>1, IdleAsks
<1>3. CASE o.result = "Error"
  <2>1. serverResults(m, o) = Fail(m, "Handshake")
    BY <1>3 DEF serverResults
  <2> QED
    BY <2>1, IdleFails
<1>4. CASE o.result = "Success"
  <2> DEFINE p == ~m.d.disableServerSendLast /\ o.data
             bs == When(p, "NextStep") \o <<"Authenticated">>
             as == IF p THEN <<"NextStep", "Authenticated">> ELSE <<"Authenticated">>
  <2>1. serverResults(m, o) = processNextAction(Enqueue(m, bs))
    BY <1>4 DEF serverResults
  <2>2. p \in BOOLEAN
    OBVIOUS
  <2> HIDE DEF p
  <2>3. <<>> \o bs = as
    BY <2>2, Queued
  <2>4. as \in {<<"Authenticated">>, <<"NextStep", "Authenticated">>}
    OBVIOUS
  <2>5. bs \in Seq(Actions)
    <3>1. When(p, "NextStep") \in Seq(Actions) /\ <<"Authenticated">> \in Seq(Actions)
      BY <2>2, WhenAction DEF Actions
    <3> QED
      BY <3>1, ConcatProperties
  <2> HIDE DEF bs, as
  <2> QED
    BY <2>1, <2>3, <2>4, <2>5, IdleSucceeds
<1> QED
  BY <1>1, <1>2, <1>3, <1>4

LEMMA ClientAnswered ==
  ASSUME NEW m \in Machines, NEW x, Idle(m, x), m.sig = "none", ~m.d.server, m.d.first = ~x.begun,
         x.turn \notin {"first", "step", "params"}, NEW o,
         o.result \in {"Error", "Params", "Continue", "Success"}, o.data \in BOOLEAN
  PROVE  Result(clientResults(m, o), x)
<1>0. m.d \in Privates /\ x \in Histories
  BY DEF Idle, Types
<1>1. CASE o.result = "Error"
  <2> DEFINE e == IF m.d.first THEN "Init" ELSE "Handshake"
  <2>1. clientResults(m, o) = Fail(m, e) /\ e \in {"Init", "Handshake", "Crypt"}
    BY <1>1 DEF clientResults
  <2> HIDE DEF e
  <2> QED
    BY <2>1, IdleFails
<1>2. CASE o.result = "Params"
  <2>1. clientResults(m, o) = [m EXCEPT !.sig = "needParams"]
    BY <1>2 DEF clientResults
  <2> QED
    BY <2>1, IdleAsks
<1>3. CASE o.result = "Continue" /\ ~m.d.first
  <2>1. clientResults(m, o) = [m EXCEPT !.sig = "nextStep"]
    BY <1>3 DEF clientResults
  <2> QED
    BY <1>0, <1>3, <2>1, IdleAsks DEF Histories
<1>4. CASE o.result = "Success" /\ ~m.d.first
  <2> DEFINE p == o.data
             bs == When(p, "NextStep") \o <<"Authenticated">>
             as == IF p THEN <<"NextStep", "Authenticated">> ELSE <<"Authenticated">>
  <2>1. clientResults(m, o) = processNextAction(Enqueue(m, bs))
    BY <1>4 DEF clientResults
  <2>2. p \in BOOLEAN
    OBVIOUS
  <2> HIDE DEF p
  <2>3. <<>> \o bs = as
    BY <2>2, Queued
  <2>4. as \in {<<"Authenticated">>, <<"NextStep", "Authenticated">>}
    OBVIOUS
  <2>5. bs \in Seq(Actions)
    <3>1. When(p, "NextStep") \in Seq(Actions) /\ <<"Authenticated">> \in Seq(Actions)
      BY <2>2, WhenAction DEF Actions
    <3> QED
      BY <3>1, ConcatProperties
  <2> HIDE DEF bs, as
  <2>6. x.begun
    BY <1>0, <1>4 DEF Histories
  <2> QED
    BY <1>4, <2>1, <2>3, <2>4, <2>5, <2>6, IdleSucceeds
<1>5. CASE o.result \in {"Continue", "Success"} /\ m.d.first
  <2> DEFINE D == [m.d EXCEPT !.first = FALSE]
             u == [m EXCEPT !.d = D]
             p == o.result = "Success"
             bs == <<"ClientStarted">> \o When(p, "Authenticated")
             n == Enqueue(u, bs)
  <2>1. clientResults(m, o) = processNextAction(n)
    BY <1>5 DEF clientResults, Machines
  <2>2. /\ D \in Privates /\ D.op = m.d.op /\ D.server = m.d.server /\ ~D.first
        /\ D.errorCode = m.d.errorCode /\ D.authed = m.d.authed /\ D.need_update = m.d.need_update
        /\ D.actionQueue = m.d.actionQueue
    BY <1>0 DEF Privates
  <2> HIDE DEF D
  <2>3. u \in Machines /\ u.d = D /\ u.io = m.io /\ u.c = m.c /\ u.sig = "none"
    BY <2>2 DEF Machines
  <2>4. p \in BOOLEAN
    OBVIOUS
  <2> HIDE DEF p, u
  <2>5. bs \in Seq(Actions)
    <3>1. When(p, "Authenticated") \in Seq(Actions) /\ <<"ClientStarted">> \in Seq(Actions)
      BY <2>4, WhenAction DEF Actions
    <3> QED
      BY <3>1, ConcatProperties
  <2>6. <<>> \o bs \in {<<"ClientStarted">>, <<"ClientStarted", "Authenticated">>}
    <3>1. <<>> \o bs = IF p THEN <<"ClientStarted", "Authenticated">> ELSE <<"ClientStarted">>
      BY <2>4, Queued
    <3> HIDE DEF bs
    <3> QED
      BY <2>4, <3>1
  <2> HIDE DEF bs
  <2>7. /\ n \in Machines /\ n.io = m.io /\ n.c = m.c /\ n.sig = "none"
        /\ n.d.actionQueue = <<>> \o bs /\ Same(n.d, D) /\ n.d.authed = D.authed
        /\ n.d.need_update = D.need_update
    <3>1. /\ n \in Machines /\ n.io = u.io /\ n.c = u.c /\ n.sig = u.sig
          /\ n.d.actionQueue = u.d.actionQueue \o bs /\ Same(n.d, u.d) /\ n.d.authed = u.d.authed
          /\ n.d.need_update = u.d.need_update
      BY <2>3, <2>5, EnqueueFacts
    <3>2. u.d.actionQueue = <<>>
      BY <2>2, <2>3 DEF Idle
    <3> HIDE DEF n
    <3> QED
      BY <2>3, <3>1, <3>2
  <2> HIDE DEF n
  <2>8. Types(n.d, n.io, n.c, x) /\ Counted(n.d, n.io, n.c)
    BY <2>2, <2>7 DEF Idle, Types, Counted, Owed, Same, Machines
  <2> DEFINE a == "ClientStarted"
  <2>9. a \in {"ClientStarted", "NextStep"} /\ n.d.actionQueue \in {<<a>>, <<a, "Authenticated">>}
        /\ (a = "NextStep" => x.begun) /\ ~x.begun
    BY <1>0, <1>5, <2>6, <2>7 DEF Histories
  <2> HIDE DEF a
  <2>10. /\ n.d.op = "none" /\ ~n.d.authed /\ ~n.d.need_update /\ ~n.d.first
    BY <2>2, <2>7 DEF Idle, Same
  <2> QED
    BY <2>1, <2>7, <2>8, <2>9, <2>10, ProcessStep DEF Idle
<1> QED
  BY <1>0, <1>1, <1>2, <1>3, <1>4, <1>5 DEF Privates

(* updateResults(): the provider has encoded and decoded.  The count of    *)
(* what it had not encoded comes back to zero, unless an error kept it up. *)
LEMMA LayerAnswered ==
  ASSUME NEW m \in Machines, NEW x, Types(m.d, m.io, m.c, x), Asked(m.d, x), Waits(m.d, m.io, x),
         m.sig = "none", m.d.op = "none", m.d.authed, m.d.actionQueue = <<>>, x.begun,
         x.turn \in {"open", "failed"}, m.io.out_pending >= m.c.app,
         m.d.errorCode = "none" => m.io.out_pending = m.c.app,
         NEW o, o.toApp \in {0, 1},
         o.result = "Success" /\ m.c.app > 0 => m.c.result_to_net # "empty"
  PROVE  Result(updateResults(m, o), x)
<1>0. m.d \in Privates /\ m.io \in IntBuffers /\ m.c \in Contexts /\ x \in Histories
  BY DEF Types
<1>a. m.io.out_pending \in Int /\ m.c.app \in Nat /\ m.io.to_net_encoded \in Int
      /\ m.io.in \in Nat /\ m.io.to_net \in Nat
  BY <1>0 DEF IntBuffers, Contexts
<1>1. CASE o.result # "Success"
  <2>1. updateResults(m, o) = Fail(m, "Crypt")
    BY <1>1 DEF updateResults
  <2>2. m.io.out_pending >= 0
    BY <1>a
  <2>3. ~m.d.server /\ m.d.first => ~x.begun
    BY DEF Asked
  <2> QED
    BY <2>1, <2>2, <2>3, FailResult
<1>2. CASE o.result = "Success"
  <2> DEFINE some == m.c.result_to_net # "empty"
             enc == IF some THEN m.c.app ELSE -1
             pending == Unsettled(m, enc)
             sent == m.io.to_net_encoded + enc
             got == m.io.in + o.toApp
             net == IF some THEN m.io.to_net + 1 ELSE m.io.to_net
             I == [m.io EXCEPT !.to_net = net, !.in = got, !.out_pending = pending, !.to_net_encoded = sent]
             C == [m.c EXCEPT !.result_to_net = "empty"]
             u == [m EXCEPT !.io = I, !.c = C]
             bs == When(some, "ReadyReadOutgoing") \o When(o.toApp > 0, "ReadyRead")
             n == Enqueue(u, bs)
             more == pending > 0 \/ m.io.out > 0
  <2>1. updateResults(m, o) = processNextAction(IF more THEN update(n) ELSE n)
    BY <1>2 DEF updateResults, Machines
  <2>2. some \in BOOLEAN /\ (o.toApp > 0) \in BOOLEAN /\ enc \in Int /\ sent \in Int /\ got \in Nat /\ net \in Nat
    BY <1>a
  <2>3. /\ pending \in Int /\ pending = m.io.out_pending - m.c.app
    BY <1>2, <1>a DEF Unsettled
  <2>4. pending >= 0 /\ (m.d.errorCode = "none" => pending = 0)
    BY <1>a, <2>3
  <2> HIDE DEF pending, sent, got, net, enc, more
  <2>5. /\ I \in IntBuffers /\ I.out = m.io.out /\ I.from_net = m.io.from_net /\ I.out_pending = pending
    BY <1>0, <2>2, <2>3 DEF IntBuffers
  <2>6. C \in Contexts /\ C.result_to_net = "empty"
    BY <1>0 DEF Contexts
  <2> HIDE DEF I, C
  <2>7. u \in Machines /\ u.d = m.d /\ u.io = I /\ u.c = C /\ u.sig = "none"
    BY <2>5, <2>6 DEF Machines
  <2> HIDE DEF u, some
  <2>8. bs \in Seq(Actions) /\ DataOnly(<<>> \o bs)
    <3> DEFINE S == {"ReadyRead", "ReadyReadOutgoing"}
               p == o.toApp > 0
    <3>0. p \in BOOLEAN /\ some \in BOOLEAN
      BY <2>2
    <3> HIDE DEF p
    <3>1. When(some, "ReadyReadOutgoing") \in Seq(S) /\ When(p, "ReadyRead") \in Seq(S)
      BY <3>0, WhenSeq
    <3>2. When(some, "ReadyReadOutgoing") \in Seq(Actions) /\ When(p, "ReadyRead") \in Seq(Actions)
      BY <3>0, WhenAction DEF Actions
    <3>3. bs = When(some, "ReadyReadOutgoing") \o When(p, "ReadyRead")
      BY DEF p
    <3> HIDE DEF bs
    <3>4. bs \in Seq(S) /\ bs \in Seq(Actions)
      BY <3>1, <3>2, <3>3, ConcatProperties
    <3>5. <<>> \o bs = bs
      BY <3>4, ConcatEmptySeq
    <3> QED
      BY <3>4, <3>5 DEF DataOnly
  <2> HIDE DEF bs
  <2>9. /\ n \in Machines /\ n.io = I /\ n.c = C /\ n.sig = "none"
        /\ n.d.actionQueue = m.d.actionQueue \o bs /\ Same(n.d, m.d) /\ n.d.authed
        /\ n.d.need_update = m.d.need_update
    <3>1. /\ n \in Machines /\ n.io = u.io /\ n.c = u.c /\ n.sig = u.sig
          /\ n.d.actionQueue = u.d.actionQueue \o bs /\ Same(n.d, u.d) /\ n.d.authed = u.d.authed
          /\ n.d.need_update = u.d.need_update
      BY <2>7, <2>8, EnqueueFacts
    <3> HIDE DEF n
    <3> QED
      BY <2>7, <3>1
  <2> HIDE DEF n
  <2>10. DataOnly(n.d.actionQueue) /\ n.d.op = "none" /\ n.d.errorCode = m.d.errorCode
         /\ n.d.server = m.d.server /\ n.d.first = m.d.first
    BY <2>8, <2>9 DEF Same
  <2>11. Phase(n.d, x) /\ Asked(n.d, x)
    <3>1. n.d.actionQueue = <<"Authenticated">> => x.begun
      OBVIOUS
    <3> QED
      BY <2>9, <2>10 DEF Phase, Asked
  <2>12. Counted(n.d, n.io, n.c) /\ Provider(n.d, n.c, x) /\ Types(n.d, n.io, n.c, x)
    <3>1. n.d \in Privates
      BY <2>9 DEF Machines
    <3>2. Types(n.d, n.io, n.c, x)
      BY <1>0, <2>5, <2>6, <2>9, <3>1 DEF Types
    <3>3. Counted(n.d, n.io, n.c)
      BY <2>4, <2>5, <2>9, <2>10 DEF Counted, Owed
    <3>4. Provider(n.d, n.c, x)
      BY <2>6, <2>9, <2>10 DEF Provider
    <3> QED
      BY <3>2, <3>3, <3>4
  <2>13. Waits(n.d, n.io, x)
    BY <2>5, <2>9 DEF Waits, Late
  <2>14. Core(n.d, n.io, n.c, x)
    BY <2>11, <2>12 DEF Core
  <2>15. CASE more
    <3>1. /\ update(n) \in Machines /\ update(n).sig = "none"
          /\ Core(update(n).d, update(n).io, update(n).c, x) /\ Waits(update(n).d, update(n).io, x)
      BY <2>9, <2>14, UpdateGood
    <3>2. updateResults(m, o) = processNextAction(update(n))
      BY <2>1, <2>15
    <3> DEFINE k == update(n)
    <3> HIDE DEF k
    <3> QED
      BY <3>1, <3>2, ProcessGood
  <2>16. CASE ~more
    <3>1. updateResults(m, o) = processNextAction(n)
      BY <2>1, <2>16
    <3> QED
      BY <2>9, <2>13, <2>14, <3>1, ProcessGood
  <2> QED
    BY <2>15, <2>16
<1> QED
  BY <1>1, <1>2

(* The session when a completion arrives: it may have been the last one *)
Before(m, x) ==
    /\ Types(m.d, m.io, m.c, x) /\ Phase(m.d, x) /\ Asked(m.d, x) /\ Counted(m.d, m.io, m.c)
    /\ Waits(m.d, m.io, x) /\ Armed(m.d) /\ m.sig = "none"
    /\ m.d.op = "OpUpdate" /\ m.c.app > 0 => m.c.result_to_net # "empty"
    /\ m.c.result_to_net = "own" => m.d.authed /\ (m.d.op = "OpUpdate" \/ x.turn = "failed")

LEMMA Cleared ==
  ASSUME NEW m \in Machines, NEW y \in Contexts
  PROVE  LET n == [m EXCEPT !.c = y, !.d.op = "none"]
         IN /\ n \in Machines /\ n.io = m.io /\ n.c = y /\ n.sig = m.sig
            /\ n.d.op = "none" /\ n.d.actionQueue = m.d.actionQueue /\ n.d.authed = m.d.authed
            /\ n.d.need_update = m.d.need_update /\ n.d.server = m.d.server /\ n.d.first = m.d.first
            /\ n.d.errorCode = m.d.errorCode /\ n.d.trigger = m.d.trigger
<1> DEFINE D == [m.d EXCEPT !.op = "none"]
           n == [m EXCEPT !.c = y, !.d.op = "none"]
<1>1. n = [m EXCEPT !.c = y, !.d = D]
  BY DEF Machines
<1>2. /\ D \in Privates /\ D.op = "none" /\ D.actionQueue = m.d.actionQueue /\ D.authed = m.d.authed
      /\ D.need_update = m.d.need_update /\ D.server = m.d.server /\ D.first = m.d.first
      /\ D.errorCode = m.d.errorCode /\ D.trigger = m.d.trigger
  BY DEF Machines, Privates
<1> HIDE DEF D, n
<1>3. n \in Machines /\ n.io = m.io /\ n.c = y /\ n.sig = m.sig /\ n.d = D
  BY <1>1, <1>2 DEF Machines
<1> QED
  BY <1>2, <1>3 DEF n

LEMMA AnswerGood ==
  ASSUME NEW m \in Machines, NEW x, Before(m, x), NEW o \in Answers(m)
  PROVE  Result(sasl_resultsReady(m, o), x)
<1> DEFINE n == [m EXCEPT !.c = o.c, !.d.op = "none"]
<1>0. /\ m.d \in Privates /\ m.io \in IntBuffers /\ m.c \in Contexts /\ x \in Histories
      /\ m.d.op \in Ops \cup {"none"} /\ m.c.app \in Nat /\ m.io.out_pending \in Int
  BY DEF Before, Types, Privates, Contexts, IntBuffers
<1>1. CASE m.d.op = "none"
  <2>1. o = Answer("Success", FALSE, 0, m.c)
    BY <1>1 DEF Answers
  <2>2. o.c = m.c
    BY <2>1 DEF Answer
  <2>3. /\ n \in Machines /\ n.io = m.io /\ n.c = m.c /\ n.sig = "none"
        /\ n.d.op = m.d.op /\ n.d.actionQueue = m.d.actionQueue /\ n.d.authed = m.d.authed
        /\ n.d.need_update = m.d.need_update /\ n.d.server = m.d.server /\ n.d.first = m.d.first
        /\ n.d.errorCode = m.d.errorCode /\ n.d.trigger = m.d.trigger
    <3>1. o.c \in Contexts /\ m.sig = "none"
      BY <1>0, <2>2 DEF Before
    <3>2. /\ n \in Machines /\ n.io = m.io /\ n.c = o.c /\ n.sig = m.sig
          /\ n.d.op = "none" /\ n.d.actionQueue = m.d.actionQueue /\ n.d.authed = m.d.authed
          /\ n.d.need_update = m.d.need_update /\ n.d.server = m.d.server /\ n.d.first = m.d.first
          /\ n.d.errorCode = m.d.errorCode /\ n.d.trigger = m.d.trigger
      BY <3>1, Cleared
    <3> HIDE DEF n
    <3> QED
      BY <1>1, <2>2, <3>1, <3>2
  <2>4. sasl_resultsReady(m, o) = n
    BY <1>1 DEF sasl_resultsReady
  <2> HIDE DEF n
  <2>5. Phase(n.d, x) /\ Asked(n.d, x) /\ Armed(n.d)
    BY <1>1, <2>3 DEF Before, Phase, Asked, Armed
  <2>6. Types(n.d, n.io, n.c, x) /\ Counted(n.d, n.io, n.c) /\ Provider(n.d, n.c, x) /\ Waits(n.d, n.io, x)
    BY <1>0, <1>1, <2>3 DEF Before, Types, Counted, Owed, Provider, Waits, Late, Machines
  <2> QED
    BY <1>0, <2>3, <2>4, <2>5, <2>6, SilentResult DEF Good, Core
<1>2. CASE m.d.op = "OpUpdate"
  <2>1. o \in UpdateAnswers(m.c)
    BY <1>2 DEF Answers
  <2>2. /\ o.toApp \in {0, 1} /\ Kept(o.c, m.c) /\ o.c.result_to_net \in {m.c.result_to_net, "empty"}
        /\ o.result = "Success" => o.c = m.c
    BY <1>0, <2>1, UpdateAnswered
  <2>3. /\ n \in Machines /\ n.io = m.io /\ n.c = o.c /\ n.sig = "none"
        /\ n.d.op = "none" /\ n.d.actionQueue = m.d.actionQueue /\ n.d.authed = m.d.authed
        /\ n.d.need_update = m.d.need_update /\ n.d.server = m.d.server /\ n.d.first = m.d.first
        /\ n.d.errorCode = m.d.errorCode
    BY <2>2, Cleared, ZenonT(40) DEF Before, Kept
  <2>4. sasl_resultsReady(m, o) = updateResults(n, o)
    BY <1>2 DEF sasl_resultsReady
  <2> HIDE DEF n
  <2>5. Types(n.d, n.io, n.c, x) /\ Waits(n.d, n.io, x)
    BY <1>0, <2>2, <2>3 DEF Before, Types, Waits, Machines, Kept
  <2>6. n.d.authed /\ n.d.actionQueue = <<>> /\ x.begun /\ x.turn \in {"open", "failed"}
    BY <1>2, <2>3 DEF Before, Phase
  <2>7. Asked(n.d, x)
    BY <1>2, <2>3 DEF Before, Asked
  <2>8. /\ n.io.out_pending >= n.c.app
        /\ n.d.errorCode = "none" => n.io.out_pending = n.c.app
    BY <1>0, <1>2, <2>2, <2>3 DEF Before, Counted, Owed, Kept
  <2>9. o.result = "Success" /\ n.c.app > 0 => n.c.result_to_net # "empty"
    BY <1>2, <2>2, <2>3 DEF Before
  <2> QED
    BY <2>2, <2>3, <2>4, <2>5, <2>6, <2>7, <2>8, <2>9, LayerAnswered
<1>3. ASSUME m.d.op \notin {"none", "OpUpdate"}, Kept(o.c, m.c), o.c.result_to_net = m.c.result_to_net
      PROVE  /\ n \in Machines /\ Idle(n, x) /\ n.sig = "none" /\ n.d.server = m.d.server
             /\ x.turn \notin {"first", "step", "params"}
             /\ m.d.server /\ m.d.op = "OpStart" => ~x.begun
             /\ m.d.server /\ m.d.op # "OpStart" => x.begun
             /\ ~m.d.server => n.d.first = ~x.begun
  <2>3. /\ n \in Machines /\ n.io = m.io /\ n.c = o.c /\ n.sig = "none"
        /\ n.d.op = "none" /\ n.d.actionQueue = m.d.actionQueue /\ n.d.authed = m.d.authed
        /\ n.d.need_update = m.d.need_update /\ n.d.server = m.d.server /\ n.d.first = m.d.first
        /\ n.d.errorCode = m.d.errorCode
    BY <1>3, Cleared DEF Before, Kept
  <2> HIDE DEF n
  <2>4. Types(n.d, n.io, n.c, x)
    BY <1>0, <1>3, <2>3 DEF Types, Machines, Kept
  <2>5. ~m.d.authed /\ m.d.actionQueue = <<>> /\ ~m.d.need_update /\ x.turn # "open"
        /\ x.turn \notin {"first", "step", "params"}
    BY <1>3 DEF Before, Phase
  <2>6. Counted(n.d, n.io, n.c)
    BY <1>0, <1>3, <2>3 DEF Before, Counted, Owed, Kept
  <2>7. ~Late(n.io, x) /\ n.c.result_to_net # "own"
    BY <1>3, <2>3, <2>5 DEF Before, Waits
  <2>8. Idle(n, x)
    BY <2>3, <2>4, <2>5, <2>6, <2>7 DEF Idle
  <2>9. /\ m.d.server /\ m.d.op = "OpStart" => ~x.begun
        /\ m.d.server /\ m.d.op # "OpStart" => x.begun
    <3>1. m.d.op \in {"OpStart", "OpServerFirstStep", "OpNextStep", "OpTryAgain"}
      BY <1>0, <1>3 DEF Ops
    <3>2. m.d.server /\ m.d.op = "OpStart" => ~x.begun
      BY DEF Before, Asked
    <3>3. m.d.server /\ m.d.op \in {"OpServerFirstStep", "OpNextStep", "OpTryAgain"} => x.begun
      BY DEF Before, Asked
    <3> QED
      BY <3>1, <3>2, <3>3
  <2>10. m.d.first \in BOOLEAN /\ x.begun \in BOOLEAN
    BY <1>0 DEF Privates, Histories
  <2>11. ~m.d.server => m.d.first = ~x.begun
    BY <1>3, <2>10 DEF Before, Asked
  <2> QED
    BY <2>3, <2>5, <2>8, <2>9, <2>11
<1>4. CASE m.d.op = "OpStart" /\ m.d.server
  <2>1. PICK r \in {"Success", "Error"} : o = Answer(r, FALSE, 0, m.c)
    BY <1>4 DEF Answers
  <2>2. o.c = m.c /\ o.result = r
    BY <2>1 DEF Answer
  <2>3. n \in Machines /\ Idle(n, x) /\ ~x.begun /\ n.d.server
    BY <1>0, <1>3, <1>4, <2>2 DEF Kept
  <2>4. CASE r = "Success"
    <3>1. sasl_resultsReady(m, o) = [n EXCEPT !.sig = "serverStarted"]
      BY <1>4, <2>2, <2>4 DEF sasl_resultsReady
    <3> HIDE DEF n
    <3> QED
      BY <2>3, <3>1, IdleAsks
  <2>5. CASE r = "Error"
    <3>1. sasl_resultsReady(m, o) = Fail(n, "Init")
      BY <1>4, <2>2, <2>5 DEF sasl_resultsReady
    <3> HIDE DEF n
    <3> QED
      BY <2>3, <3>1, IdleFails
  <2> QED
    BY <2>4, <2>5
<1>5. CASE m.d.op \notin {"none", "OpUpdate", "OpStart"} /\ m.d.server
  <2>1. o \in serverTryAgain(m.c)
    BY <1>5 DEF Answers
  <2>2. /\ o.result \in {"Error", "AuthCheck", "Continue", "Success"} /\ o.data \in BOOLEAN
        /\ Kept(o.c, m.c) /\ o.c.result_to_net = m.c.result_to_net
    BY <1>0, <2>1, TryAgainAnswers
  <2>3. sasl_resultsReady(m, o) = serverResults(n, o)
    BY <1>5 DEF sasl_resultsReady
  <2>4. n \in Machines /\ Idle(n, x) /\ x.begun /\ n.d.server /\ n.sig = "none"
        /\ x.turn \notin {"first", "step", "params"}
    BY <1>3, <1>5, <2>2
  <2> HIDE DEF n
  <2> QED
    BY <2>2, <2>3, <2>4, ServerAnswered
<1>6. CASE m.d.op \notin {"none", "OpUpdate"} /\ ~m.d.server
  <2>1. o \in clientTryAgain(m.c)
    BY <1>6 DEF Answers
  <2>2. /\ o.result \in {"Error", "Params", "Continue", "Success"} /\ o.data \in BOOLEAN
        /\ Kept(o.c, m.c) /\ o.c.result_to_net = m.c.result_to_net
    BY <1>0, <2>1, TryAgainAnswers
  <2>3. sasl_resultsReady(m, o) = clientResults(n, o)
    BY <1>6 DEF sasl_resultsReady
  <2>4. n \in Machines /\ Idle(n, x) /\ ~n.d.server /\ n.sig = "none" /\ n.d.first = ~x.begun
        /\ x.turn \notin {"first", "step", "params"}
    BY <1>3, <1>6, <2>2
  <2> HIDE DEF n
  <2> QED
    BY <2>2, <2>3, <2>4, ClientAnswered
<1> QED
  BY <1>0, <1>1, <1>2, <1>4, <1>5, <1>6

------------------------------------------------------------------------------
(* The actions                                                             *)

LEMMA BecomeResult ==
  ASSUME NEW m, NEW x \in Histories, Become(m, x), Result(m, x)
  PROVE  IInv' /\ Order(sig', x)
<1>1. sig' = m.sig
  BY DEF Become
<1> QED
  BY <1>1, BecomeGood DEF Result

LEMMA SilentStep ==
  ASSUME NEW m \in Machines, NEW x \in Histories, Become(m, x), m.sig = "none", Good(m.d, m.io, m.c, x)
  PROVE  IInv' /\ Order(sig', h)
<1>1. IInv'
  BY SilentResult, BecomeResult
<1>2. sig' = "none"
  BY DEF Become
<1> QED
  BY <1>1, <1>2 DEF Order, AuthSignals

LEMMA NowFacts ==
  ASSUME IInv
  PROVE  /\ Now \in Machines /\ Now.d = d /\ Now.io = io /\ Now.c = c /\ Now.sig = "none"
         /\ d \in Privates /\ io \in IntBuffers /\ c \in Contexts /\ h \in Histories
  BY DEF IInv, Good, Core, Types, Now, Machines, Sigs

LEMMA ResetFacts ==
  ASSUME NEW m \in Machines
  PROVE  /\ reset(m) \in Machines /\ reset(m).d = InitPrivate /\ reset(m).io = InitBuffers
         /\ reset(m).sig = m.sig /\ reset(m).c.result_to_net # "own" /\ reset(m).c.posted = m.c.posted
<1> DEFINE C == CReset(m.c)
           r == IF m.c.result_to_net = "own" THEN "old" ELSE m.c.result_to_net
<1>1. r \in {"empty", "own", "old"} /\ r # "own"
  BY DEF Machines, Contexts
<1>2. C = [m.c EXCEPT !.result_to_net = r]
  BY DEF CReset
<1> HIDE DEF r
<1>3. C \in Contexts /\ C.result_to_net = r /\ C.posted = m.c.posted
  BY <1>1, <1>2 DEF Machines, Contexts
<1>4. reset(m) = [m EXCEPT !.c = C, !.d = InitPrivate, !.io = InitBuffers]
  BY DEF reset
<1> HIDE DEF C
<1>5. InitPrivate \in Privates /\ InitBuffers \in IntBuffers
  BY DEF InitPrivate, InitBuffers, Privates, IntBuffers
<1> DEFINE P == InitPrivate
           B == InitBuffers
<1> HIDE DEF P, B
<1> QED
  BY <1>1, <1>3, <1>4, <1>5 DEF Machines

LEMMA StartFacts ==
  ASSUME NEW m \in Machines, NEW server \in BOOLEAN, NEW last \in BOOLEAN, m.d = InitPrivate
  PROVE  LET n == start(m, server, last)
         IN /\ n \in Machines /\ n.io = m.io /\ n.sig = m.sig /\ n.d.server = server /\ n.d.first
            /\ n.d.op = "OpStart" /\ n.d.actionQueue = <<>> /\ ~n.d.need_update /\ ~n.d.authed
            /\ n.d.errorCode = "none"
            /\ n.c.result_to_net = m.c.result_to_net /\ n.c.posted = m.c.posted + 1
<1> DEFINE n == start(m, server, last)
           p == m.c.posted + 1
           C == [m.c EXCEPT !.ca_done = FALSE, !.ca_skip = FALSE, !.posted = p]
           D == [m.d EXCEPT !.server = server, !.disableServerSendLast = last, !.op = "OpStart", !.first = TRUE]
<1>1. n = [m EXCEPT !.d = D, !.c = C]
  BY DEF start, CStart, Machines
<1>2. m.c \in Contexts /\ p \in Nat
  BY DEF Machines, Contexts
<1> HIDE DEF p
<1>3. C \in Contexts /\ C.result_to_net = m.c.result_to_net /\ C.posted = p
  BY <1>2 DEF Contexts
<1>4. /\ D \in Privates /\ D.server = server /\ D.first /\ D.op = "OpStart"
      /\ D.actionQueue = m.d.actionQueue /\ D.need_update = m.d.need_update /\ D.authed = m.d.authed
      /\ D.errorCode = m.d.errorCode
  BY DEF Machines, Privates, Ops
<1> HIDE DEF C, D, n
<1>5. n \in Machines /\ n.io = m.io /\ n.sig = m.sig /\ n.d = D /\ n.c = C
  BY <1>1, <1>3, <1>4 DEF Machines
<1>6. m.d.actionQueue = <<>> /\ ~m.d.need_update /\ ~m.d.authed /\ m.d.errorCode = "none"
  BY DEF InitPrivate
<1> QED
  BY <1>3, <1>4, <1>5, <1>6 DEF n, p

(* a session that has just been started or reset *)
LEMMA FreshGood ==
  ASSUME NEW n \in Machines, NEW x \in Histories, n.io = InitBuffers,
         x.turn = "none", ~x.begun, ~x.late,
         n.d.op \in {"none", "OpStart"}, n.d.actionQueue = <<>>, ~n.d.need_update, ~n.d.authed,
         n.d.op = "OpStart" => n.d.first /\ (n.c.posted > 0 \/ x.mute),
         n.c.result_to_net # "own"
  PROVE  Good(n.d, n.io, n.c, x)
<1>1. n.d \in Privates /\ n.io \in IntBuffers /\ n.c \in Contexts
  BY DEF Machines
<1>2. n.io.out_pending = 0 /\ n.io.out = 0
  BY DEF InitBuffers
<1>3. Phase(n.d, x) /\ Asked(n.d, x)
  BY DEF Phase, Asked
<1>4. Counted(n.d, n.io, n.c) /\ Provider(n.d, n.c, x) /\ Types(n.d, n.io, n.c, x)
  BY <1>1, <1>2 DEF Counted, Owed, Provider, Types
<1>5. Waits(n.d, n.io, x) /\ Armed(n.d)
  BY DEF Waits, Late, Armed
<1> QED
  BY <1>3, <1>4, <1>5 DEF Good, Core

LEMMA StepStart ==
  ASSUME IInv, NEW server \in BOOLEAN, NEW last \in BOOLEAN,
         \/ Become(start(reset(Now), server, last), InitHistory)
         \/ Become([start(reset(Now), server, last) EXCEPT !.c.posted = c.posted],
                   [InitHistory EXCEPT !.mute = TRUE])
  PROVE  IInv' /\ Order(sig', h)
<1> DEFINE m == reset(Now)
           n == start(m, server, last)
<1>1. /\ m \in Machines /\ m.d = InitPrivate /\ m.io = InitBuffers /\ m.sig = "none"
      /\ m.c.result_to_net # "own" /\ m.c.posted = c.posted /\ c.posted \in Nat
  BY NowFacts, ResetFacts DEF Contexts
<1> HIDE DEF m
<1>2. /\ n \in Machines /\ n.io = InitBuffers /\ n.sig = "none" /\ n.d.server = server /\ n.d.first
      /\ n.d.op = "OpStart" /\ n.d.actionQueue = <<>> /\ ~n.d.need_update /\ ~n.d.authed
      /\ n.c.result_to_net # "own" /\ n.c.posted = c.posted + 1
  BY <1>1, StartFacts
<1> HIDE DEF n
<1>3. CASE Become(n, InitHistory)
  <2> DEFINE x == InitHistory
  <2>1. x \in Histories /\ x.turn = "none" /\ ~x.begun /\ ~x.late
    BY DEF InitHistory, Histories
  <2> HIDE DEF x
  <2>2. Good(n.d, n.io, n.c, x)
    BY <1>1, <1>2, <2>1, FreshGood
  <2> QED
    BY <1>2, <1>3, <2>1, <2>2, SilentStep DEF x
<1>4. CASE Become([n EXCEPT !.c.posted = c.posted], [InitHistory EXCEPT !.mute = TRUE])
  <2> DEFINE x == [InitHistory EXCEPT !.mute = TRUE]
             C == [n.c EXCEPT !.posted = c.posted]
             k == [n EXCEPT !.c = C]
  <2>1. x \in Histories /\ x.turn = "none" /\ ~x.begun /\ ~x.late /\ x.mute
    BY DEF InitHistory, Histories
  <2>2. [n EXCEPT !.c.posted = c.posted] = k
    BY <1>2 DEF Machines
  <2>3. C \in Contexts /\ C.result_to_net # "own"
    BY <1>1, <1>2 DEF Machines, Contexts
  <2> HIDE DEF x, C
  <2>4. k \in Machines /\ k.d = n.d /\ k.io = n.io /\ k.c = C /\ k.sig = "none"
    BY <1>2, <2>3 DEF Machines
  <2> HIDE DEF k
  <2>5. Good(k.d, k.io, k.c, x)
    BY <1>2, <2>1, <2>3, <2>4, FreshGood
  <2> QED
    BY <1>4, <2>1, <2>2, <2>4, <2>5, SilentStep DEF x
<1> QED
  BY <1>3, <1>4 DEF n, m

LEMMA StepReset ==
  ASSUME IInv, Reset
  PROVE  IInv' /\ Order(sig', h)
<1> DEFINE m == reset(Now)
           x == InitHistory
<1>1. /\ m \in Machines /\ m.d = InitPrivate /\ m.io = InitBuffers /\ m.sig = "none"
      /\ m.c.result_to_net # "own"
  BY NowFacts, ResetFacts
<1>2. x \in Histories /\ x.turn = "none" /\ ~x.begun /\ ~x.late
  BY DEF InitHistory, Histories
<1>3. m.d.op = "none" /\ m.d.actionQueue = <<>> /\ ~m.d.need_update /\ ~m.d.authed
  BY <1>1 DEF InitPrivate
<1>4. Become(m, x)
  BY DEF Reset
<1> HIDE DEF m, x
<1>5. Good(m.d, m.io, m.c, x)
  BY <1>1, <1>2, <1>3, FreshGood
<1> QED
  BY <1>1, <1>2, <1>4, <1>5, SilentStep

LEMMA StepReply ==
  ASSUME IInv, NEW turn \in {"first", "step", "params"},
         NEW op \in {"OpServerFirstStep", "OpNextStep", "OpTryAgain"}, Reply(turn, op),
         op = "OpTryAgain" <=> turn = "params"
  PROVE  IInv' /\ Order(sig', h)
<1> DEFINE x == [h EXCEPT !.turn = "none"]
           p == c.posted + 1
           C == [c EXCEPT !.posted = p]
           D == [d EXCEPT !.op = op]
           m == [Now EXCEPT !.d = D, !.c = C]
<1>0. /\ Now \in Machines /\ Now.d = d /\ Now.io = io /\ Now.c = c /\ Now.sig = "none"
      /\ d \in Privates /\ io \in IntBuffers /\ c \in Contexts /\ h \in Histories
  BY NowFacts
<1>1. h.turn = turn /\ d.actionQueue = <<>> /\ Become(call(Now, op), x)
  BY DEF Reply
<1>2. d.op = "none" /\ ~d.authed /\ ~d.need_update
  BY <1>1 DEF IInv, Good, Core, Phase
<1>3. call(Now, op) = m
  BY <1>0, <1>2 DEF call, Now
<1>4. x \in Histories /\ x.turn = "none" /\ x.begun = h.begun /\ x.late = h.late /\ x.mute = h.mute
  BY <1>0 DEF Histories
<1>5. p \in Nat /\ p > 0
  BY <1>0 DEF Contexts
<1> HIDE DEF p
<1>6. C \in Contexts /\ C.posted = p /\ C.app = c.app /\ C.result_to_net = c.result_to_net
  BY <1>0, <1>5 DEF Contexts
<1>7. /\ D \in Privates /\ D.op = op /\ D.actionQueue = <<>> /\ D.authed = d.authed
      /\ D.need_update = d.need_update /\ D.server = d.server /\ D.first = d.first
      /\ D.errorCode = d.errorCode
  BY <1>0, <1>1 DEF Privates, Ops
<1> HIDE DEF x, C, D
<1>8. m \in Machines /\ m.d = D /\ m.io = io /\ m.c = C /\ m.sig = "none"
  BY <1>0, <1>6, <1>7 DEF Machines
<1> HIDE DEF m
<1>9. Phase(D, x)
  BY <1>2, <1>4, <1>7 DEF Phase
<1>10. Asked(D, x)
  BY <1>1, <1>2, <1>4, <1>7 DEF IInv, Good, Core, Asked
<1>11. Counted(D, io, C) /\ Types(D, io, C, x)
  BY <1>0, <1>2, <1>4, <1>6, <1>7 DEF IInv, Good, Core, Counted, Owed, Types
<1>12. Provider(D, C, x)
  BY <1>2, <1>5, <1>6, <1>7 DEF IInv, Good, Core, Provider
<1>13. Waits(D, io, x) /\ Armed(D)
  BY <1>2, <1>4, <1>7 DEF IInv, Good, Waits, Late, Armed
<1> QED
  BY <1>1, <1>3, <1>4, <1>8, <1>9, <1>10, <1>11, <1>12, <1>13, SilentStep DEF Good, Core

(* only out_pending of the buffers, and not late of the history, is in Core *)
LEMMA CoreBuffers ==
  ASSUME NEW D, NEW I, NEW C, NEW x, Core(D, I, C, x), NEW J \in IntBuffers, NEW y \in Histories,
         J.out_pending = I.out_pending, y.turn = x.turn, y.begun = x.begun, y.mute = x.mute
  PROVE  Core(D, J, C, y)
<1>1. Types(D, J, C, y) /\ Counted(D, J, C)
  BY DEF Core, Types, Counted
<1>2. Phase(D, y) /\ Asked(D, y)
  BY DEF Core, Phase, Asked
<1>3. Provider(D, C, y)
  BY DEF Core, Provider
<1> QED
  BY <1>1, <1>2, <1>3 DEF Core

LEMMA UpdateStep ==
  ASSUME NEW m \in Machines, NEW x \in Histories, Core(m.d, m.io, m.c, x), Late(m.io, x) => m.d.authed,
         Armed(m.d), m.sig = "none", Become(update(m), x)
  PROVE  IInv' /\ Order(sig', h)
<1> DEFINE n == update(m)
<1>1. n \in Machines /\ n.sig = "none" /\ Good(n.d, n.io, n.c, x)
  BY UpdateGood DEF Good, Armed
<1> HIDE DEF n
<1> QED
  BY <1>1, SilentStep DEF n

LEMMA StepWrite ==
  ASSUME IInv, Write
  PROVE  IInv' /\ Order(sig', h)
<1> DEFINE k == io.out + 1
           I == [io EXCEPT !.out = k]
           m == [Now EXCEPT !.io = I]
<1>0. /\ Now \in Machines /\ Now.d = d /\ Now.io = io /\ Now.c = c /\ Now.sig = "none"
      /\ d \in Privates /\ io \in IntBuffers /\ c \in Contexts /\ h \in Histories
  BY NowFacts
<1>1. Become(update([Now EXCEPT !.io.out = @ + 1]), h)
  BY DEF Write
<1>2. [Now EXCEPT !.io.out = @ + 1] = m
  BY <1>0 DEF Machines, Now
<1>3. k \in Nat
  BY <1>0 DEF IntBuffers
<1> HIDE DEF k
<1>4. I \in IntBuffers /\ I.out_pending = io.out_pending /\ I.from_net = io.from_net
  BY <1>0, <1>3 DEF IntBuffers
<1> HIDE DEF I
<1>5. m \in Machines /\ m.d = d /\ m.io = I /\ m.c = c /\ m.sig = "none"
  BY <1>0, <1>4 DEF Machines
<1> HIDE DEF m
<1>6. Core(d, I, c, h)
  BY <1>0, <1>4, CoreBuffers DEF IInv, Good
<1>7. Late(I, h) => d.authed
  BY <1>4 DEF IInv, Good, Core, Phase, Waits, Late
<1>8. Armed(d)
  BY DEF IInv, Good
<1> QED
  BY <1>0, <1>1, <1>2, <1>5, <1>6, <1>7, <1>8, UpdateStep

LEMMA StepWriteIncoming ==
  ASSUME IInv, WriteIncoming
  PROVE  IInv' /\ Order(sig', h)
<1> DEFINE k == io.from_net + 1
           I == [io EXCEPT !.from_net = k]
           m == [Now EXCEPT !.io = I]
           l == h.late \/ d.authed
           x == [h EXCEPT !.late = l]
<1>0. /\ Now \in Machines /\ Now.d = d /\ Now.io = io /\ Now.c = c /\ Now.sig = "none"
      /\ d \in Privates /\ io \in IntBuffers /\ c \in Contexts /\ h \in Histories
  BY NowFacts
<1>1. Become(update([Now EXCEPT !.io.from_net = @ + 1]), x)
  BY DEF WriteIncoming
<1>2. [Now EXCEPT !.io.from_net = @ + 1] = m
  BY <1>0 DEF Machines, Now
<1>3. k \in Nat /\ l \in BOOLEAN
  BY <1>0 DEF IntBuffers
<1>4. l => d.authed
  BY DEF IInv, Good, Core, Phase, Waits, Late
<1> HIDE DEF k, l
<1>5. I \in IntBuffers /\ I.out_pending = io.out_pending
  BY <1>0, <1>3 DEF IntBuffers
<1>6. x \in Histories /\ x.turn = h.turn /\ x.begun = h.begun /\ x.mute = h.mute /\ x.late = l
  BY <1>0, <1>3 DEF Histories
<1> HIDE DEF I, x
<1>7. m \in Machines /\ m.d = d /\ m.io = I /\ m.c = c /\ m.sig = "none"
  BY <1>0, <1>5 DEF Machines
<1> HIDE DEF m
<1>8. Core(d, I, c, x)
  BY <1>5, <1>6, CoreBuffers DEF IInv, Good
<1>9. Late(I, x) => d.authed
  BY <1>4, <1>6 DEF Late
<1>10. Armed(d)
  BY DEF IInv, Good
<1> QED
  BY <1>1, <1>2, <1>6, <1>7, <1>8, <1>9, <1>10, UpdateStep

LEMMA StepTaken ==
  ASSUME IInv, NEW I \in IntBuffers, I.out_pending = io.out_pending, I.out = io.out,
         I.from_net = io.from_net, Become([Now EXCEPT !.io = I], h)
  PROVE  IInv' /\ Order(sig', h)
<1> DEFINE m == [Now EXCEPT !.io = I]
<1>0. /\ Now \in Machines /\ Now.d = d /\ Now.io = io /\ Now.c = c /\ Now.sig = "none"
      /\ d \in Privates /\ io \in IntBuffers /\ c \in Contexts /\ h \in Histories
  BY NowFacts
<1>1. m \in Machines /\ m.d = d /\ m.io = I /\ m.c = c /\ m.sig = "none"
  BY <1>0 DEF Machines
<1>2. Core(d, I, c, h)
  BY <1>0, CoreBuffers DEF IInv, Good
<1>3. Waits(d, I, h) /\ Armed(d)
  BY DEF IInv, Good, Waits, Late
<1> HIDE DEF m
<1> QED
  BY <1>0, <1>1, <1>2, <1>3, SilentStep DEF Good, m

LEMMA StepRead ==
  ASSUME IInv, Read \/ ReadOutgoing
  PROVE  IInv' /\ Order(sig', h)
<1>0. Now.io = io /\ io \in IntBuffers
  BY NowFacts
<1>1. CASE Read
  <2> DEFINE I == [io EXCEPT !.in = 0]
  <2>1. I \in IntBuffers /\ I.out_pending = io.out_pending /\ I.out = io.out /\ I.from_net = io.from_net
    BY <1>0 DEF IntBuffers
  <2>2. Become([Now EXCEPT !.io = I], h)
    BY <1>0, <1>1 DEF Read, Now
  <2> HIDE DEF I
  <2> QED
    BY <2>1, <2>2, StepTaken
<1>2. CASE ReadOutgoing
  <2> DEFINE I == [io EXCEPT !.to_net = 0, !.to_net_encoded = 0]
  <2>1. I \in IntBuffers /\ I.out_pending = io.out_pending /\ I.out = io.out /\ I.from_net = io.from_net
    <3> DEFINE z == 0
               J == [io EXCEPT !.to_net = z, !.to_net_encoded = z]
    <3>1. z \in Nat /\ z \in Int
      OBVIOUS
    <3> HIDE DEF z
    <3>2. J \in IntBuffers /\ J.out_pending = io.out_pending /\ J.out = io.out /\ J.from_net = io.from_net
      BY <1>0, <3>1 DEF IntBuffers
    <3> QED
      BY <3>2 DEF z
  <2>2. Become([Now EXCEPT !.io = I], h)
    BY <1>0, <1>2 DEF ReadOutgoing, Now
  <2> HIDE DEF I
  <2> QED
    BY <2>1, <2>2, StepTaken
<1> QED
  BY <1>1, <1>2

LEMMA StepResults ==
  ASSUME IInv, ResultsReady
  PROVE  IInv' /\ Order(sig', h)
<1> DEFINE p == c.posted - 1
           C == [c EXCEPT !.posted = p]
           m == [Now EXCEPT !.c = C]
<1>0. /\ Now \in Machines /\ Now.d = d /\ Now.io = io /\ Now.c = c /\ Now.sig = "none"
      /\ d \in Privates /\ io \in IntBuffers /\ c \in Contexts /\ h \in Histories
  BY NowFacts
<1>1. [Now EXCEPT !.c.posted = @ - 1] = m
  BY <1>0 DEF Machines, Now
<1>2. PICK o \in Answers(m) : Become(sasl_resultsReady(m, o), h)
  BY <1>1 DEF ResultsReady
<1>3. p \in Nat
  BY <1>0 DEF ResultsReady, Contexts
<1> HIDE DEF p
<1>4. C \in Contexts /\ C.app = c.app /\ C.result_to_net = c.result_to_net
  BY <1>0, <1>3 DEF Contexts
<1> HIDE DEF C
<1>5. m \in Machines /\ m.d = d /\ m.io = io /\ m.c = C /\ m.sig = "none"
  BY <1>0, <1>4 DEF Machines
<1> HIDE DEF m
<1>6. Types(d, io, C, h) /\ Phase(d, h) /\ Asked(d, h) /\ Waits(d, io, h) /\ Armed(d)
  BY <1>0, <1>4 DEF IInv, Good, Core, Types
<1>7. Counted(d, io, C)
  BY <1>4 DEF IInv, Good, Core, Counted, Owed
<1>8. /\ d.op = "OpUpdate" /\ C.app > 0 => C.result_to_net # "empty"
      /\ C.result_to_net = "own" => d.authed /\ (d.op = "OpUpdate" \/ h.turn = "failed")
  BY <1>4 DEF IInv, Good, Core, Provider
<1>9. Before(m, h)
  BY <1>5, <1>6, <1>7, <1>8 DEF Before
<1>10. Result(sasl_resultsReady(m, o), h)
  BY <1>2, <1>5, <1>9, AnswerGood
<1> QED
  BY <1>0, <1>2, <1>10, BecomeResult

LEMMA StepNextAction ==
  ASSUME IInv, doNextAction
  PROVE  IInv' /\ Order(sig', h)
<1> DEFINE D == [d EXCEPT !.trigger = FALSE]
           m == [Now EXCEPT !.d = D]
<1>0. /\ Now \in Machines /\ Now.d = d /\ Now.io = io /\ Now.c = c /\ Now.sig = "none"
      /\ d \in Privates /\ io \in IntBuffers /\ c \in Contexts /\ h \in Histories
  BY NowFacts
<1>1. [Now EXCEPT !.d.trigger = FALSE] = m
  BY <1>0 DEF Machines, Now
<1>2. Become(processNextAction(m), h)
  BY <1>1 DEF doNextAction
<1>3. /\ D \in Privates /\ Same(D, d) /\ D.authed = d.authed /\ D.need_update = d.need_update
      /\ D.actionQueue = d.actionQueue
  BY <1>0 DEF Privates, Same
<1> HIDE DEF D
<1>4. m \in Machines /\ m.d = D /\ m.io = io /\ m.c = c /\ m.sig = "none"
  BY <1>0, <1>3 DEF Machines
<1> HIDE DEF m
<1>5. Types(D, io, c, h) /\ Counted(D, io, c) /\ Provider(D, c, h) /\ Waits(D, io, h)
  BY <1>0, <1>3 DEF IInv, Good, Core, Types, Counted, Owed, Provider, Waits, Same
<1>6. Phase(D, h) /\ Asked(D, h)
  BY <1>3 DEF IInv, Good, Core, Phase, Asked, Same
<1>7. Result(processNextAction(m), h)
  BY <1>4, <1>5, <1>6, ProcessGood DEF Core
<1> QED
  BY <1>0, <1>2, <1>7, BecomeResult

LEMMA StepUnchanged ==
  ASSUME IInv, UNCHANGED vars
  PROVE  IInv'
  BY DEF IInv, vars

LEMMA InitGood ==
  ASSUME Init
  PROVE  IInv
<1>1. d \in Privates /\ io \in IntBuffers /\ c \in Contexts /\ h \in Histories /\ sig \in Sigs
  BY DEF Init, InitPrivate, InitBuffers, InitContext, InitHistory, Privates, IntBuffers, Contexts,
         Histories, Sigs
<1>2. Phase(d, h) /\ Asked(d, h)
  BY DEF Init, InitPrivate, InitHistory, Phase, Asked
<1>3. Counted(d, io, c) /\ Provider(d, c, h)
  BY DEF Init, InitPrivate, InitBuffers, InitContext, Counted, Owed, Provider
<1>4. Waits(d, io, h) /\ Armed(d) /\ ~h.late
  BY DEF Init, InitPrivate, InitHistory, Waits, Late, Armed
<1> QED
  BY <1>1, <1>2, <1>3, <1>4 DEF IInv, Good, Core, Types

LEMMA NextGood ==
  ASSUME IInv, Next
  PROVE  IInv' /\ Order(sig', h)
<1>1. CASE startClient
  BY <1>1, StepStart DEF startClient
<1>2. CASE \E b \in BOOLEAN : startServer(b)
  BY <1>2, StepStart DEF startServer
<1>3. CASE startServerMute
  BY <1>3, StepStart DEF startServerMute
<1>4. CASE Reset
  BY <1>4, StepReset
<1>5. CASE putServerFirstStep
  BY <1>5, StepReply DEF putServerFirstStep
<1>6. CASE putStep
  BY <1>6, StepReply DEF putStep
<1>7. CASE tryAgain
  BY <1>7, StepReply DEF tryAgain
<1>8. CASE Write
  BY <1>8, StepWrite
<1>9. CASE WriteIncoming
  BY <1>9, StepWriteIncoming
<1>10. CASE Read \/ ReadOutgoing
  BY <1>10, StepRead
<1>11. CASE ResultsReady
  BY <1>11, StepResults
<1>12. CASE doNextAction
  BY <1>12, StepNextAction
<1> QED
  BY <1>1, <1>2, <1>3, <1>4, <1>5, <1>6, <1>7, <1>8, <1>9, <1>10, <1>11, <1>12 DEF Next

LEMMA Inductive == Spec => []IInv
<1>1. Init => IInv
  BY InitGood
<1>2. IInv /\ [Next]_vars => IInv'
  BY NextGood, StepUnchanged
<1> QED
  BY <1>1, <1>2, PTL DEF Spec

------------------------------------------------------------------------------
(* The theorems                                                            *)

(* The members of SASL::Private and of the provider keep their types;      *)
(* out_pending, a difference of what was given and what was encoded, never *)
(* goes below zero.                                                        *)
THEOREM TypesAreKept == Spec => []TypeOK
<1>1. IInv => TypeOK
  <2> SUFFICES ASSUME IInv PROVE TypeOK
    OBVIOUS
  <2>1. d \in Privates /\ io \in IntBuffers /\ c \in Contexts /\ h \in Histories /\ sig \in Sigs
    BY DEF IInv, Good, Core, Types
  <2>2. io.out_pending >= 0
    BY <2>1 DEF IInv, Good, Core, Counted, Owed, Contexts, IntBuffers
  <2>3. io \in Buffers
    BY <2>1, <2>2 DEF IntBuffers, Buffers
  <2> QED
    BY <2>1, <2>3 DEF TypeOK
<1> QED
  BY <1>1, Inductive, PTL

(* An operation that SASL waits for always has a completion on its way,    *)
(* even when one left over from before a reset() was taken for it.         *)
THEOREM ResultsAreOnTheirWay == Spec => []ResultOnItsWay
<1>1. IInv => ResultOnItsWay
  BY DEF IInv, Good, Core, Provider, ResultOnItsWay
<1> QED
  BY <1>1, Inductive, PTL

(* An application that answers the signal it got last is never ignored by  *)
(* putStep(), putServerFirstStep() or continueAfterParams().               *)
THEOREM RepliesAreTaken == Spec => []RepliesTaken
<1>1. IInv => RepliesTaken
  BY DEF IInv, Good, Core, Phase, RepliesTaken
<1> QED
  BY <1>1, Inductive, PTL

(* The security layer never stops with a signal that waits, an update that *)
(* is owed, or data that nobody will hand to the provider.                 *)
THEOREM NothingStalls == Spec => []NoStall
<1>1. IInv => NoStall
  <2> SUFFICES ASSUME IInv, d.authed, d.op = "none", ~d.trigger, d.errorCode = "none"
               PROVE  d.actionQueue = <<>> /\ ~d.need_update /\ io.out = 0 /\ io.out_pending = 0 /\ ~h.late
    BY DEF NoStall
  <2>1. d.actionQueue = <<>> /\ ~d.need_update
    BY DEF IInv, Good, Armed
  <2>2. io.out \in Nat /\ h.late \in BOOLEAN
    BY DEF IInv, Good, Core, Types, IntBuffers, Histories
  <2>3. io.out = 0 /\ ~h.late
    BY <2>1, <2>2 DEF IInv, Good, Waits, Late
  <2>4. io.out_pending = 0
    BY DEF IInv, Good, Core, Counted, Owed
  <2> QED
    BY <2>1, <2>3, <2>4
<1> QED
  BY <1>1, Inductive, PTL

(* After an answer to update() nothing of the session is left in the       *)
(* provider that a later update would send, except after an error.         *)
THEOREM OutputIsTaken == Spec => []OutputTaken
<1>1. IInv => OutputTaken
  BY DEF IInv, Good, Core, Provider, OutputTaken
<1> QED
  BY <1>1, Inductive, PTL

(* The signals of a session come in their order: the start before the      *)
(* steps, authenticated() once and last, data only after it.               *)
THEOREM SignalsInOrder == Spec => AuthOrder
<1>1. IInv /\ [Next]_vars =>
        [/\ sig' \in {"nextStep", "authCheck", "authenticated"} => h.begun
         /\ sig' \in {"clientStarted", "serverStarted"} => ~h.begun
         /\ sig' \in {"readyRead", "readyReadOutgoing"} => h.turn \in {"open", "failed"}
         /\ h.turn = "open" => sig' \notin AuthSignals]_vars
  BY NextGood DEF Order
<1> QED
  BY <1>1, Inductive, PTL DEF Spec, AuthOrder
==============================================================================
