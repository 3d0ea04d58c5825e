----------------------------- MODULE EventBroker -----------------------------
(***************************************************************************)
(* Password and token questions (qca_core.cpp): EventGlobal, the static    *)
(* functions handler_* and asker_* that work on it under g_event_mutex,    *)
(* and the two classes that call them from any thread, EventHandler and    *)
(* AskerPrivate (PasswordAsker and TokenAsker).                            *)
(*                                                                         *)
(* What runs under the mutex is one step.  A step of the broker is an      *)
(* operator from s = [g, hs, as] to the next such record.  Positions       *)
(* in the list of handlers count from 1.  Objects are reused: a handler    *)
(* destroyed and started again stands for a new one, an asker that asks    *)
(* again also for a new one at the same address.  Definitions named        *)
(* Operation_Slip are mistakes one could make in the code of Operation;    *)
(* only mutants use them.                                                  *)
(***************************************************************************)
EXTENDS Integers, Sequences, SequencesExt, Lists

CONSTANTS
    Handlers,       \* EventHandler objects
    Askers,         \* PasswordAsker and TokenAsker objects
    MaxQuestions,   \* bound: questions in one behaviour
    MaxStarts       \* bound: handlers started in one behaviour

ASSUME BrokerAssumption ==
    /\ Handlers # {} /\ Askers # {}
    /\ MaxQuestions \in Nat /\ MaxStarts \in Nat

VARIABLES
    g,        \* *g_event; on is FALSE while g_event is null
    hs,       \* the handlers: phase, posted ask() calls, activeIds
    as,       \* the askers
    starts,   \* history: handlers started
    asked     \* history: questions asked

vars == <<g, hs, as, starts, asked>>

Globals ==
    [on : BOOLEAN,
     handlers : Seq([h : Handlers, ids : Seq(Nat)]),
     askers : Seq([a : Askers, id : Nat, pos : Nat, tried : SUBSET Handlers]),
     next_id : Nat]

HandlerStates ==
    [phase : {"off", "started", "dying"}, inbox : Seq(Nat), activeIds : Seq(Nat)]

(* pc is where the asker's thread is: "cancelling" between the test of     *)
(* done and asker_cancel(), "waiting" inside w.wait(), "woken" between     *)
(* wakeOne() and the return of wait().  posted counts the queued           *)
(* emitResponseReady() calls.  History: id is the id of the latest         *)
(* question, cancelled says that asker_cancel() ran for it before any      *)
(* answer, again that an item of an earlier question was still listed when *)
(* it was asked, tried (above) holds the handlers that were asked an item. *)
AskerStates ==
    [done : BOOLEAN, accepted : BOOLEAN,
     pc : {"idle", "cancelling", "waiting", "woken"},
     posted : Nat, id : Nat, cancelled : BOOLEAN, again : BOOLEAN]

NoGlobal == [on |-> FALSE, handlers |-> <<>>, askers |-> <<>>, next_id |-> 0]
NewHandler == [phase |-> "off", inbox |-> <<>>, activeIds |-> <<>>]
NewAsker == [done |-> TRUE, accepted |-> FALSE, pc |-> "idle", posted |-> 0,
             id |-> 0, cancelled |-> FALSE, again |-> FALSE]

Now == [g |-> g, hs |-> hs, as |-> as]

Become(s) == g' = s.g /\ hs' = s.hs /\ as' = s.as

Without(ids, id) == Keep(ids, ToSet(ids) \ {id})

(* SubSeq has TLC evaluate the sequence at once *)
Each(Op(_), seq) == SubSeq([i \in DOMAIN seq |-> Op(seq[i])], 1, Len(seq))

------------------------------------------------------------------------------
waiting(x) == x.pc \in {"waiting", "woken"}

Respond_AlwaysPosts(x, ok) ==
    [x EXCEPT !.accepted = @ \/ ok, !.done = TRUE, !.posted = @ + 1]

(* AskerPrivate::set_accepted() and set_rejected() *)
Respond(x, ok) ==
    [x EXCEPT !.accepted = @ \/ ok, !.done = TRUE,
              !.pc = IF waiting(x) THEN "woken" ELSE @,
              !.posted = IF waiting(x) THEN @ ELSE @ + 1]

findHandlerItem(s, h) == SelectInSeq(s.g.handlers, LAMBDA x : x.h = h)
findAskerItem(s, a) == SelectInSeq(s.g.askers, LAMBDA x : x.a = a)
findAskerItemById(s, id) == SelectInSeq(s.g.askers, LAMBDA x : x.id = id)

ask(s, i) ==
    LET x == s.g.askers[i]
        h == s.g.handlers[x.pos].h
    IN [s EXCEPT !.g.handlers[x.pos].ids = Append(@, x.id),
                 !.g.askers[i].tried = @ \cup {h},
                 !.hs[h].inbox = Append(@, x.id)]

(* on to the next handler, or the official reject *)
reject(s, i) ==
    LET x == s.g.askers[i]
    IN IF x.pos < Len(s.g.handlers)
       THEN ask([s EXCEPT !.g.askers[i].pos = @ + 1], i)
       ELSE [s EXCEPT !.g.askers = RemoveAt(@, i),
                      !.as[x.a] = Respond(@, FALSE)]

(* the position is always -1, the end of the list *)
handler_add(s, h) ==
    LET t == IF s.g.on THEN s ELSE [s EXCEPT !.g = [NoGlobal EXCEPT !.on = TRUE]]
    IN [t EXCEPT !.g.handlers = Append(@, [h |-> h, ids |-> <<>>])]

Shifted_NotAt(x, at, h) ==
    [x EXCEPT !.pos = IF @ > at THEN @ - 1 ELSE @, !.tried = @ \ {h}]

(* an asker item after the removal of handler h at position at *)
Shifted(x, at, h) ==
    [x EXCEPT !.pos = IF @ >= at THEN @ - 1 ELSE @, !.tried = @ \ {h}]

RejectAll_None(s, ids) == s

RejectAll(s, ids) ==
    LET after[n \in 0 .. Len(ids)] ==
            IF n = 0 THEN s
            ELSE reject(after[n - 1], findAskerItemById(after[n - 1], ids[n]))
    IN  after[Len(ids)]

handler_remove(s, h) ==
    LET at == findHandlerItem(s, h)
        ids == s.g.handlers[at].ids
        t == RejectAll([s EXCEPT !.g.handlers = RemoveAt(@, at),
                                 !.g.askers = Each(LAMBDA x : Shifted(x, at, h), @)],
                       ids)
    IN IF t.g.handlers = <<>> THEN [t EXCEPT !.g = NoGlobal] ELSE t

(* the asker item stays in the list *)
handler_accept(s, h, id) ==
    LET at == findHandlerItem(s, h)
        i == findAskerItemById(s, id)
    IN IF i = 0 THEN s
       ELSE [s EXCEPT !.g.handlers[at].ids = Without(@, id),
                      !.as[s.g.askers[i].a] = Respond(@, TRUE)]

handler_reject(s, h, id) ==
    LET at == findHandlerItem(s, h)
        i == findAskerItemById(s, id)
    IN IF i = 0 THEN s
       ELSE reject([s EXCEPT !.g.handlers[at].ids = Without(@, id)], i)

(* with no handler there is nobody to ask *)
asker_ask(s, a) ==
    ask([s EXCEPT !.g.askers = Append(@, [a |-> a, id |-> s.g.next_id, pos |-> 1,
                                          tried |-> {}]),
                  !.g.next_id = @ + 1], Len(s.g.askers) + 1)

asker_cancel_KeepsIds(s, a) ==
    LET i == findAskerItem(s, a)
    IN IF i = 0 THEN s ELSE [s EXCEPT !.g.askers = RemoveAt(@, i)]

asker_cancel_KeepsItem(s, a) ==
    LET i == findAskerItem(s, a)
        dropped(x) == [x EXCEPT !.ids = Without(@, s.g.askers[i].id)]
    IN IF i = 0 THEN s ELSE [s EXCEPT !.g.handlers = Each(dropped, @)]

(* the first item of this asker, which may be one that was accepted *)
asker_cancel(s, a) ==
    LET i == findAskerItem(s, a)
        dropped(x) == [x EXCEPT !.ids = Without(@, s.g.askers[i].id)]
    IN IF i = 0 THEN s
       ELSE [s EXCEPT !.g.handlers = Each(dropped, @),
                      !.g.askers = RemoveAt(@, i)]

------------------------------------------------------------------------------
Init ==
    /\ g = NoGlobal
    /\ hs = [h \in Handlers |-> NewHandler]
    /\ as = [a \in Askers |-> NewAsker]
    /\ starts = 0 /\ asked = 0

(* EventHandler *)
start(h) ==
    /\ hs[h].phase = "off"
    /\ starts < MaxStarts /\ starts' = starts + 1
    /\ Become(handler_add([Now EXCEPT !.hs[h].phase = "started"], h))
    /\ UNCHANGED asked

(* the slot ask() *)
eventReady(h) ==
    /\ hs[h].phase = "started" /\ hs[h].inbox # <<>>
    /\ hs' = [hs EXCEPT ![h].inbox = Tail(@),
                        ![h].activeIds = Append(@, Head(hs[h].inbox))]
    /\ UNCHANGED <<g, as, starts, asked>>

(* submitPassword() and tokenOkay() *)
submit(h, id) ==
    /\ hs[h].phase = "started" /\ Contains(hs[h].activeIds, id)
    /\ Become(handler_accept([Now EXCEPT !.hs[h].activeIds = Without(@, id)], h, id))
    /\ UNCHANGED <<starts, asked>>

decline(h, id) ==
    /\ hs[h].phase = "started" /\ Contains(hs[h].activeIds, id)
    /\ Become(handler_reject([Now EXCEPT !.hs[h].activeIds = Without(@, id)], h, id))
    /\ UNCHANGED <<starts, asked>>

(* ~EventHandler(): other threads run between its calls; the posted calls  *)
(* of a deleted object are dropped                                         *)
destroy(h) ==
    /\ hs[h].phase = "started"
    /\ hs' = [hs EXCEPT ![h].phase = "dying"]
    /\ UNCHANGED <<g, as, starts, asked>>

destroyReject(h) ==
    /\ hs[h].phase = "dying" /\ hs[h].activeIds # <<>>
    /\ Become(handler_reject([Now EXCEPT !.hs[h].activeIds = Tail(@)], h,
                             Head(hs[h].activeIds)))
    /\ UNCHANGED <<starts, asked>>

destroyRemove(h) ==
    /\ hs[h].phase = "dying" /\ hs[h].activeIds = <<>>
    /\ Become([handler_remove(Now, h) EXCEPT !.hs[h] = NewHandler])
    /\ UNCHANGED <<starts, asked>>

(* PasswordAsker and TokenAsker, in the asker's thread *)
askQuestion(a) ==
    /\ as[a].pc = "idle" /\ (as[a].done \/ as[a].cancelled)
    /\ asked < MaxQuestions /\ asked' = asked + 1
    /\ LET fresh == [as[a] EXCEPT !.accepted = FALSE, !.done = ~g.on, !.id = g.next_id,
                                  !.posted = IF g.on THEN @ ELSE @ + 1,
                                  !.cancelled = FALSE,
                                  !.again = findAskerItem(Now, a) # 0]
           s == [Now EXCEPT !.as[a] = fresh]
       IN Become(IF g.on THEN asker_ask(s, a) ELSE s)
    /\ UNCHANGED starts

(* done is read outside g_event_mutex: an answer may come in between *)
cancel(a) ==
    /\ as[a].pc = "idle" /\ ~as[a].done
    /\ as' = [as EXCEPT ![a].pc = "cancelling"]
    /\ UNCHANGED <<g, hs, starts, asked>>

cancelLocked(a) ==
    /\ as[a].pc = "cancelling"
    /\ Become(asker_cancel([Now EXCEPT !.as[a].pc = "idle",
                                       !.as[a].cancelled = ~as[a].done], a))
    /\ UNCHANGED <<starts, asked>>

waitForResponse(a) ==
    /\ as[a].pc = "idle" /\ ~as[a].done
    /\ as' = [as EXCEPT ![a].pc = "waiting"]
    /\ UNCHANGED <<g, hs, starts, asked>>

wake(a) ==
    /\ as[a].pc = "woken"
    /\ as' = [as EXCEPT ![a].pc = "idle"]
    /\ UNCHANGED <<g, hs, starts, asked>>

emitResponseReady(a) ==
    /\ as[a].pc = "idle" /\ as[a].posted > 0
    /\ as' = [as EXCEPT ![a].posted = @ - 1]
    /\ UNCHANGED <<g, hs, starts, asked>>

(* one step of the thread handler h lives in *)
handlerThread(h) ==
    \/ eventReady(h) \/ destroyReject(h) \/ destroyRemove(h)
    \/ \E id \in 0 .. MaxQuestions : submit(h, id) \/ decline(h, id)

Next ==
    \/ \E h \in Handlers : start(h) \/ destroy(h) \/ handlerThread(h)
    \/ \E a \in Askers :
          \/ askQuestion(a) \/ cancel(a) \/ cancelLocked(a)
          \/ waitForResponse(a) \/ wake(a) \/ emitResponseReady(a)

Spec == Init /\ [][Next]_vars

(* The thread of a handler keeps running while it has anything to do: its  *)
(* event loop delivers, the user answers what eventReady() showed, a       *)
(* destructor that began returns.  A woken thread goes on.                 *)
Fairness ==
    /\ \A h \in Handlers : WF_vars(handlerThread(h))
    /\ \A a \in Askers : WF_vars(wake(a))

FairSpec == Spec /\ Fairness

------------------------------------------------------------------------------
(* The lists of EventGlobal and the members of the two classes have the    *)
(* types of their declarations; handler_pos is never below the list.       *)
TypeOK ==
    /\ g \in Globals
    /\ hs \in [Handlers -> HandlerStates]
    /\ as \in [Askers -> AskerStates]
    /\ starts \in 0 .. MaxStarts /\ asked \in 0 .. MaxQuestions

Holds(k, id) == Contains(g.handlers[k].ids, id)

(* The assertions asker_at != -1 of handler_remove(): every id a handler   *)
(* is responsible for belongs to one asker item, and that item's           *)
(* handler_pos leads back to the handler, through every insertion,         *)
(* removal, rejection and cancellation.                                    *)
RoutesAgree ==
    /\ \A k \in DOMAIN g.handlers : \A n \in DOMAIN g.handlers[k].ids :
          \E i \in DOMAIN g.askers :
             g.askers[i].id = g.handlers[k].ids[n] /\ g.askers[i].pos = k
    /\ \A i, j \in DOMAIN g.askers : g.askers[i].id = g.askers[j].id => i = j

(* A question that is not cancelled leaves the list, with the official     *)
(* reject, only when every handler that is then registered was asked: none *)
(* is passed over while handlers come and go and the stored positions      *)
(* shift.                                                                  *)
RejectedByAll ==
    [][\A x \in ToSet(g.askers) :
          \/ \E y \in ToSet(g'.askers) : y.id = x.id
          \/ as[x.a].pc = "cancelling" /\ as'[x.a].pc = "idle"
          \/ {y.h : y \in ToSet(g'.handlers)} \subseteq x.tried]_vars

(* A question that is neither answered nor cancelled is in the hands of    *)
(* some handler: posted to it, shown to its application, or about to be    *)
(* taken from it by its destructor.                                        *)
NoLostQuestion ==
    \A a \in Askers :
        ~as[a].done /\ ~as[a].cancelled =>
           \E k \in DOMAIN g.handlers :
              LET h == hs[g.handlers[k].h]
              IN /\ Holds(k, as[a].id)
                 /\ \/ Contains(h.inbox, as[a].id)
                    \/ Contains(h.activeIds, as[a].id)

(* waitForResponse() for a question that was not cancelled returns,        *)
(* whatever handlers are destroyed or added meanwhile.                     *)
WaitEnds ==
    \A a \in Askers :
        (as[a].pc = "waiting" /\ ~as[a].cancelled) ~> (as[a].pc = "idle")

(* qca_core.h on accepted(): it is false when the cancel() function was    *)
(* called.  A cancelled question is not accepted any more, in whatever     *)
(* thread a handler holds it, unless the list still had the item of an     *)
(* earlier, accepted question of the asker: asker_cancel() removes that    *)
(* one.  (A cancel() that came after the answer does not count here.)      *)
CancelledNotAccepted ==
    \A a \in Askers : as[a].cancelled /\ as[a].accepted => as[a].again
==============================================================================
