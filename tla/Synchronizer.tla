----------------------------- MODULE Synchronizer -----------------------------
(***************************************************************************)
(* Synchronizer (support/synchronizer.cpp): waitForCondition() lends its   *)
(* object to a worker thread and blocks until the object, there, calls     *)
(* conditionMet(), or until a timeout.  One mutex m and one wait condition *)
(* w serve both directions.                                                *)
(*                                                                         *)
(* The object has a timer, and other threads post notices to it; the slot  *)
(* of each calls conditionMet().  The caller holds m only inside a step,   *)
(* so held says that the worker has it.  A thread in waiters sleeps in     *)
(* w.wait(); one that has left waiters needs m to go on.  Qt's event loops *)
(* deliver posted events one by one.                                       *)
(* Definitions named Operation_Slip are mistakes one could make in the     *)
(* code of Operation; only mutants use them.                               *)
(***************************************************************************)
EXTENDS SafeTimer

CONSTANTS
    Kinds,        \* the objects that wait, see ObjectKinds
    Slots,        \* what the slot of timeout() may do with the timer
    MaxMoves      \* bound: unanswered moves of the object when a call begins

(* the object is a single-shot or a repeating SafeTimer, which has no      *)
(* TimerFixer, or it is another object with a timer of its own             *)
ObjectKinds == {"single", "repeating", "other"}

ASSUME SynchronizerAssumption ==
    /\ Kinds \subseteq ObjectKinds /\ Kinds # {} /\ "none" \in Slots
    /\ MaxMoves \in Nat

VARIABLES
    pc,        \* where the two threads are
    waiters,   \* threads asleep in w.wait()
    held,      \* m is locked by the worker, between its steps
    d,         \* Synchronizer::Private
    kind,      \* what the object is
    thread,    \* the thread the object lives in
    ev,        \* the worker's event loop: posted quit() calls, exit flag
    call,      \* the call of waitForCondition() that runs, or the latest
    t,         \* the SafeTimer of the object
    f,         \* the object's own timer and its TimerFixer
    notices,   \* posted events of the object
    hist       \* history: see Histories

vars == <<kind, pc, waiters, held, d, thread, ev, call, t, f, notices, hist>>

Threads == {"caller", "worker"}

CallerPlaces == {"idle", "starting", "ready", "moved", "waiting", "quitting",
                 "returning", "joining"}
WorkerPlaces == {"off", "boot", "parked", "exec", "running", "flush", "flushed", "back"}

Privates == [active : BOOLEAN, do_quit : BOOLEAN, cond_met : BOOLEAN, loop : BOOLEAN]

(* early: a call timed out while the worker it had woken was not yet       *)
(* running its loop, and since then the worker has not come to rest        *)
(* between two calls; stale: the call began with the quit() of an earlier  *)
(* one still posted; met: conditionMet() took effect during the call;      *)
(* twice: the object was moved again before its TimerFixer had answered    *)
(* the previous move                                                       *)
Histories == [early : BOOLEAN, stale : BOOLEAN, met : BOOLEAN, twice : BOOLEAN]

Init ==
    /\ pc = [caller |-> "idle", worker |-> "off"]
    /\ waiters = {} /\ held = FALSE
    /\ d = [active |-> FALSE, do_quit |-> FALSE, cond_met |-> FALSE, loop |-> FALSE]
    /\ thread = "caller"
    /\ ev = [quits |-> 0, exit |-> FALSE]
    /\ call = [timed |-> FALSE, expired |-> FALSE, noticed |-> TRUE]
    /\ kind \in Kinds
    /\ t = NewSafeTimer(kind = "single")
    /\ f = NewFixedObject
    /\ notices = 0
    /\ hist = [early |-> FALSE, stale |-> FALSE, met |-> FALSE, twice |-> FALSE]

At(th, place) == pc[th] = place
Goto(th, place) == pc' = [pc EXCEPT ![th] = place]

objectVars == <<kind, thread, t, f, notices>>

(* w.wakeOne() *)
AfterWakeOne(ws, woken) ==
    \/ ws = {} /\ woken = {}
    \/ \E x \in ws : woken = ws \ {x}

------------------------------------------------------------------------------
(* The caller's thread *)

(* waitForCondition() begins: start() when the worker does not run yet *)
Start ==
    /\ At("caller", "idle") /\ ~d.active /\ ~held
    /\ d' = [d EXCEPT !.active = TRUE, !.do_quit = FALSE]
    /\ pc' = [caller |-> "starting", worker |-> "boot"]
    /\ waiters' = waiters \cup {"caller"}
    /\ UNCHANGED <<held, ev, call, objectVars, hist>>

Started ==
    /\ At("caller", "starting") /\ "caller" \notin waiters /\ ~held
    /\ Goto("caller", "ready")
    /\ UNCHANGED <<waiters, held, d, ev, call, objectVars, hist>>

(* obj->moveToThread(), without effect when the object is there already *)
MoveTo(th) ==
    /\ thread' = th
    /\ t' = IF thread = th THEN t ELSE threadChange(t)
    /\ f' = IF thread = th \/ kind # "other" THEN f ELSE fixerThreadChange(f)
    /\ UNCHANGED kind

waitForCondition(timed) ==
    /\ At("caller", "ready") \/ (At("caller", "idle") /\ d.active)
    /\ f.fixes <= MaxMoves /\ t.fixes <= MaxMoves
    /\ d' = [d EXCEPT !.cond_met = FALSE]
    /\ MoveTo("worker")
    /\ call' = [timed |-> timed, expired |-> FALSE, noticed |-> notices > 0]
    /\ hist' = [early |-> hist.early /\ "worker" \notin waiters, stale |-> ev.quits > 0,
                met |-> FALSE, twice |-> hist.twice \/ f'.fixes > 1]
    /\ Goto("caller", "moved")
    /\ UNCHANGED <<waiters, held, ev, notices>>

WakeWorker ==
    /\ At("caller", "moved") /\ ~held
    /\ \E ws \in SUBSET Threads :
           AfterWakeOne(waiters, ws) /\ waiters' = ws \cup {"caller"}
    /\ Goto("caller", "waiting")
    /\ UNCHANGED <<held, d, ev, call, objectVars, hist>>

(* the time given to w.wait() is over *)
TimeOut ==
    /\ At("caller", "waiting") /\ call.timed /\ "caller" \in waiters
    /\ waiters' = waiters \ {"caller"}
    /\ call' = [call EXCEPT !.expired = TRUE]
    /\ UNCHANGED <<pc, held, d, objectVars, ev, hist>>

(* what the timeout of a call without a loop means: the call did wake the  *)
(* worker, which has not taken m since                                     *)
TooEarly == call.expired /\ ~d.loop /\ At("worker", "parked") /\ "worker" \notin waiters

Return ==
    /\ Goto("caller", "returning")
    /\ hist' = [hist EXCEPT !.early = @ \/ TooEarly]
    /\ UNCHANGED <<waiters, held, d, ev, call, objectVars>>

AfterWait_NoQuit ==
    At("caller", "waiting") /\ "caller" \notin waiters /\ ~held /\ Return

(* w.wait() is over and m locked again: after a timeout with a running     *)
(* loop, tell it to quit and wait for the worker                           *)
AfterWait ==
    /\ At("caller", "waiting") /\ "caller" \notin waiters /\ ~held
    /\ IF call.expired /\ d.loop
       THEN /\ ev' = [ev EXCEPT !.quits = @ + 1]
            /\ waiters' = waiters \cup {"caller"}
            /\ Goto("caller", "quitting")
            /\ UNCHANGED <<held, d, call, objectVars, hist>>
       ELSE Return

AfterQuit ==
    /\ At("caller", "quitting") /\ "caller" \notin waiters /\ ~held
    /\ Return

(* return cond_met *)
Returned ==
    /\ At("caller", "returning")
    /\ Goto("caller", "idle")
    /\ UNCHANGED <<waiters, held, d, ev, call, objectVars, hist>>

Stop_NoWake ==
    /\ At("caller", "idle") /\ d.active /\ ~held
    /\ d' = [d EXCEPT !.do_quit = TRUE]
    /\ Goto("caller", "joining")
    /\ UNCHANGED <<waiters, held, ev, call, objectVars, hist>>

(* the destructor: stop() *)
Stop ==
    /\ At("caller", "idle") /\ d.active /\ ~held
    /\ d' = [d EXCEPT !.do_quit = TRUE]
    /\ AfterWakeOne(waiters, waiters')
    /\ Goto("caller", "joining")
    /\ UNCHANGED <<held, ev, call, objectVars, hist>>

Joined ==
    /\ At("caller", "joining") /\ At("worker", "off")
    /\ d' = [d EXCEPT !.active = FALSE]
    /\ Goto("caller", "idle")
    /\ UNCHANGED <<waiters, held, ev, call, objectVars, hist>>

------------------------------------------------------------------------------
(* The worker's thread, run() *)

(* w.wakeOne() of the loop's end and of its head, w.wait() *)
Park(wakes) ==
    /\ \E ws \in SUBSET Threads :
          /\ IF wakes = 1 THEN AfterWakeOne(waiters, ws)
             ELSE \E us \in SUBSET Threads : AfterWakeOne(waiters, us) /\ AfterWakeOne(us, ws)
          /\ waiters' = ws \cup {"worker"}
    /\ Goto("worker", "parked")
    /\ held' = FALSE

Boot ==
    /\ At("worker", "boot") /\ ~held
    /\ Park(1)
    /\ UNCHANGED <<d, ev, call, objectVars, hist>>

(* w.wait() is over: leave, or start the event loop with m locked *)
Wake ==
    /\ At("worker", "parked") /\ "worker" \notin waiters /\ ~held
    /\ IF d.do_quit
       THEN /\ Goto("worker", "off")
            /\ ev' = [quits |-> 0, exit |-> FALSE]
            /\ UNCHANGED <<d, held>>
       ELSE /\ Goto("worker", "exec")
            /\ d' = [d EXCEPT !.loop = TRUE]
            /\ ev' = [ev EXCEPT !.exit = FALSE]
            /\ held' = TRUE
    /\ UNCHANGED <<waiters, call, objectVars, hist>>

(* events posted to the objects of the worker's thread *)
ObjectPosted == t.fixes > 0 \/ f.rereg # {} \/ f.fixes > 0 \/ notices > 0
Posted == ev.quits > 0 \/ (thread = "worker" /\ ObjectPosted)

(* agent_started() is posted after what the object brought along *)
agent_started ==
    /\ At("worker", "exec") /\ ~Posted
    /\ Goto("worker", "running")
    /\ held' = FALSE
    /\ UNCHANGED <<waiters, d, ev, call, objectVars, hist>>

QuitEvent ==
    /\ pc.worker \in {"exec", "running", "flush"} /\ ev.quits > 0
    /\ ev' = [quits |-> ev.quits - 1, exit |-> TRUE]
    /\ UNCHANGED <<pc, waiters, held, d, call, objectVars, hist>>

LeaveLoop ==
    /\ At("worker", "running") /\ ev.exit
    /\ Goto("worker", "flush")
    /\ UNCHANGED <<waiters, held, d, ev, call, objectVars, hist>>

(* sendPostedEvents() has delivered everything *)
Flushed ==
    /\ At("worker", "flush") /\ ~Posted
    /\ Goto("worker", "flushed")
    /\ UNCHANGED <<waiters, held, d, ev, call, objectVars, hist>>

MoveBack ==
    /\ At("worker", "flushed")
    /\ MoveTo("caller")
    /\ hist' = [hist EXCEPT !.twice = @ \/ f'.fixes > 1]
    /\ Goto("worker", "back")
    /\ UNCHANGED <<waiters, held, d, ev, call, notices>>

SessionOver_Sleeps ==
    /\ At("worker", "back") /\ ~held
    /\ d' = [d EXCEPT !.loop = FALSE]
    /\ Goto("worker", "parked") /\ waiters' = waiters \cup {"worker"}
    /\ UNCHANGED <<held, ev, call, objectVars, hist>>

SessionOver ==
    /\ At("worker", "back") /\ ~held
    /\ d' = [d EXCEPT !.loop = FALSE]
    /\ Park(2)
    /\ ev' = [ev EXCEPT !.exit = FALSE]
    /\ hist' = [hist EXCEPT !.early = @ /\ pc.caller \notin {"idle", "returning"}]
    /\ UNCHANGED <<call, objectVars>>

------------------------------------------------------------------------------
(* Events of the object, in the thread it lives in *)

(* the thread delivers posted events; outside of a flush also timers *)
Delivers ==
    \/ thread = "caller" /\ At("caller", "idle")
    \/ thread = "worker" /\ pc.worker \in {"exec", "running", "flush"}
Polls ==
    \/ thread = "caller" /\ At("caller", "idle")
    \/ thread = "worker" /\ At("worker", "running")

conditionMet_Late ==
    IF d.loop
    THEN /\ ev' = [ev EXCEPT !.exit = TRUE] /\ UNCHANGED d
         /\ hist' = [hist EXCEPT !.met = TRUE]
    ELSE UNCHANGED <<d, ev, hist>>

conditionMet ==
    IF d.loop
    THEN /\ ev' = [ev EXCEPT !.exit = TRUE]
         /\ d' = [d EXCEPT !.cond_met = TRUE]
         /\ hist' = [hist EXCEPT !.met = TRUE]
    ELSE UNCHANGED <<d, ev, hist>>

threadsStay == UNCHANGED <<kind, pc, waiters, held, call, thread>>

FixTimer ==
    /\ Delivers /\ t.fixes > 0
    /\ t' = fixTimer(t)
    /\ UNCHANGED <<d, ev, hist, f, notices>> /\ threadsStay

ReregisterTimers ==
    /\ Delivers /\ f.rereg # {}
    /\ f' = reregisterTimers(f)
    /\ UNCHANGED <<d, ev, hist, t, notices>> /\ threadsStay

FixTimers ==
    /\ Delivers /\ f.fixes > 0 /\ f.rereg = {}
    /\ f' = fixTimers(f)
    /\ UNCHANGED <<d, ev, hist, t, notices>> /\ threadsStay

Notice ==
    /\ Delivers /\ notices > 0
    /\ notices' = notices - 1
    /\ conditionMet
    /\ UNCHANGED <<t, f>> /\ threadsStay

SafeTimeout ==
    /\ Polls
    /\ \E slot \in Slots :
          \/ t.timer /\ t' = timerEvent(t, slot)
          \/ t.fixer /\ t' = fixerEvent(t, slot)
    /\ conditionMet
    /\ UNCHANGED <<f, notices>> /\ threadsStay

(* a timer event of the object goes through the filter of the TimerFixer;  *)
(* the object stops the timer it recognises                                *)
OwnTimeout ==
    /\ Polls
    /\ \E id \in f.reg :
          /\ f' = IF id = f.own THEN objStop(handleTimerEvent(f, id))
                  ELSE handleTimerEvent(f, id)
          /\ IF id = f.own THEN conditionMet ELSE UNCHANGED <<d, ev, hist>>
    /\ UNCHANGED <<t, notices>> /\ threadsStay

(* the event loop is about to block *)
ed_aboutToBlock ==
    /\ Polls /\ f.ed /\ kind = "other"
    /\ f' = updateTimerList(f)
    /\ UNCHANGED <<d, ev, hist, t, notices>> /\ threadsStay

(* the caller starts and stops the timers of its object; bound: its own    *)
(* timer only while TimerFixer has answered every move                     *)
UseTimers ==
    /\ At("caller", "idle") /\ thread = "caller"
    /\ \/ kind # "other" /\ t' \in {startTimer(t), stopTimer(t)} /\ UNCHANGED f
       \/ kind = "other" /\ f.own = 0 /\ ~hist.twice /\ f' = objStart(f) /\ UNCHANGED t
    /\ UNCHANGED <<d, ev, hist, notices>> /\ threadsStay

(* another thread posts an event to the object; bound: once in a call *)
PostNotice ==
    /\ ~call.noticed
    /\ notices' = notices + 1
    /\ call' = [call EXCEPT !.noticed = TRUE]
    /\ UNCHANGED <<kind, pc, waiters, held, d, thread, ev, t, f, hist>>

CallerStep ==
    Started \/ WakeWorker \/ TimeOut \/ AfterWait \/ AfterQuit \/ Returned \/ Joined
WorkerStep ==
    Boot \/ Wake \/ agent_started \/ QuitEvent \/ LeaveLoop \/ Flushed \/ MoveBack \/ SessionOver
ObjectStep == FixTimer \/ ReregisterTimers \/ FixTimers \/ Notice

Next ==
    \/ Start \/ Stop \/ \E timed \in BOOLEAN : waitForCondition(timed)
    \/ CallerStep \/ WorkerStep \/ ObjectStep
    \/ SafeTimeout \/ OwnTimeout \/ ed_aboutToBlock
    \/ UseTimers \/ PostNotice

Spec == Init /\ [][Next]_vars

(* Both threads run, posted events are delivered, running timers expire *)
FairSpec ==
    /\ Spec
    /\ WF_vars(CallerStep) /\ WF_vars(WorkerStep) /\ WF_vars(ObjectStep)
    /\ WF_vars(At("caller", "ready") /\ \E timed \in BOOLEAN : waitForCondition(timed))
    /\ SF_vars(SafeTimeout) /\ SF_vars(OwnTimeout)

------------------------------------------------------------------------------
(* The members of Synchronizer::Private and of the object's timers have    *)
(* their types; no repair is answered more often than it was posted.       *)
TypeOK ==
    /\ pc.caller \in CallerPlaces /\ pc.worker \in WorkerPlaces
    /\ waiters \subseteq Threads /\ held \in BOOLEAN
    /\ kind \in ObjectKinds /\ d \in Privates /\ thread \in Threads
    /\ ev.quits \in Nat /\ ev.exit \in BOOLEAN
    /\ call \in [timed : BOOLEAN, expired : BOOLEAN, noticed : BOOLEAN]
    /\ t \in SafeTimers /\ f \in FixedObjects
    /\ notices \in Nat /\ hist \in Histories

(* When waitForCondition() has returned, the worker is done with the       *)
(* object: it lives in the caller's thread again, no loop is left that     *)
(* conditionMet() would quit, and the worker sleeps until the next call.   *)
(* The one exception is a call that timed out after it woke the worker and *)
(* before the worker took the mutex: then "the worker is done", as the     *)
(* code says here, is not so until the worker has come to rest again, and  *)
(* a call that begins before is excepted with it.                          *)
ObjectBack ==
    pc.caller \in {"idle", "returning"} /\ d.active /\ ~hist.early =>
        /\ thread = "caller" /\ ~d.loop
        /\ "worker" \in waiters

(* What waitForCondition() returns is whether conditionMet() was called    *)
(* during the call; without a timeout it does not return before, unless    *)
(* the call began with the quit() of an earlier timeout still posted.      *)
(* Calls that overlap with the worker of a call that timed out before its  *)
(* worker was running (early) are excepted.                                *)
ResultHonest ==
    pc.caller = "returning" /\ ~hist.early =>
        /\ d.cond_met = hist.met
        /\ d.cond_met \/ call.expired \/ hist.stale

(* Moving between the threads loses no timer: an active SafeTimer has a    *)
(* timer or a queued repair, and the object's own timer is registered, or  *)
(* will be, under the id by which the object recognises it, as long as     *)
(* each move is answered by fixTimers() before the next.                   *)
TimersKept == Backed(t) /\ (~hist.twice => Recognised(f))

(* A call with a timeout returns, also after calls that timed out early *)
TimedCallReturns == (pc.caller = "waiting" /\ call.timed) ~> pc.caller = "idle"

Ticking == t.isActive \/ (f.own # 0 /\ ~hist.twice)

(* A call without a timeout returns when one of the object's timers ran at *)
(* its beginning: the move to the worker does not cost the object the      *)
(* event it waits for.  The calls excepted in ResultHonest are also here.  *)
ConditionEndsWait ==
    (pc.caller = "waiting" /\ ~hist.early /\ Ticking) ~> pc.caller = "idle"

(* The destructor ends: the worker sees do_quit, whether it slept or was   *)
(* on its way to its loop for a call that had timed out too early.  A      *)
(* worker already in that loop is excepted: it would sleep once more       *)
(* before it looks at do_quit.                                             *)
StopEnds ==
    ( /\ pc.caller = "joining"
      /\ hist.early => At("worker", "parked") /\ "worker" \notin waiters ) ~> pc.caller = "idle"
==============================================================================
