------------------------------ MODULE SafeTimer ------------------------------
(***************************************************************************)
(* Timers of an object that is moved to another thread: SafeTimer, which   *)
(* brings its own timer back (qca_safetimer.cpp), and TimerFixer, which    *)
(* watches every other timer of the object (support/synchronizer.cpp).     *)
(* The modules that own such timers apply these operators.                 *)
(*                                                                         *)
(* A SafeTimer t: timer and fixer say that timerId and fixerTimerId are    *)
(* set, fixes counts the queued fixTimer() calls.  Intervals and elapsed   *)
(* times are left out; a running timer fires at some later time.           *)
(***************************************************************************)
EXTENDS Integers, FiniteSets, FiniteSetsExt

SafeTimers ==
    [timer : BOOLEAN, fixer : BOOLEAN, fixes : Nat, isActive : BOOLEAN,
     isSingleShot : BOOLEAN]

NewSafeTimer(single) ==
    [timer |-> FALSE, fixer |-> FALSE, fixes |-> 0, isActive |-> FALSE,
     isSingleShot |-> single]

stopTimer(t) == [t EXCEPT !.timer = FALSE, !.fixer = FALSE, !.isActive = FALSE]

startTimer(t) == [stopTimer(t) EXCEPT !.timer = TRUE, !.isActive = TRUE]

threadChange_Forgets(t) == [t EXCEPT !.timer = FALSE, !.fixer = FALSE]

(* ThreadChange reaches the SafeTimer and then its Private object; each    *)
(* kills its timer and posts fixTimer()                                    *)
threadChange(t) ==
    [t EXCEPT !.timer = FALSE, !.fixer = FALSE,
              !.fixes = @ + (IF t.timer THEN 1 ELSE 0) + (IF t.fixer THEN 1 ELSE 0)]

fixTimer(t) == [t EXCEPT !.fixes = @ - 1, !.fixer = TRUE]

(* What a slot of timeout() may do with the timer *)
slotCalls(t, slot) ==
    CASE slot = "start" -> startTimer(t)
      [] slot = "stop" -> stopTimer(t)
      [] OTHER -> t

(* SafeTimer::timerEvent() *)
timerEvent(t, slot) == slotCalls(IF t.isSingleShot THEN stopTimer(t) ELSE t, slot)

(* SafeTimer::Private::timerEvent(): the emulated timeout() *)
fixerEvent(t, slot) ==
    LET u == slotCalls([t EXCEPT !.fixer = FALSE], slot)
    IN IF t.isSingleShot THEN [u EXCEPT !.isActive = FALSE] ELSE startTimer(u)

(* A timer that counts as active has something left that fires it *)
Backed(t) == t.isActive => t.timer \/ t.fixer \/ t.fixes > 0

------------------------------------------------------------------------------
(* One QObject with timers of its own and the TimerFixer paired with it.   *)
(* own: the id the object knows its timer by, 0 when it has none; reg: the *)
(* ids registered with the dispatcher of its thread; rereg: the ids that   *)
(* Qt took along at a change of threads and registers again, or none;      *)
(* fixes: the queued fixTimers() calls; ed: the dispatcher is linked;      *)
(* known: the list timers, fixInterval those of it with that flag.         *)
Ids == 1 .. 3

FixedObjects ==
    [own : {0} \cup Ids, reg : SUBSET Ids, rereg : SUBSET Ids, fixes : Nat,
     ed : BOOLEAN, known : SUBSET Ids, fixInterval : SUBSET Ids]

NewFixedObject ==
    [own |-> 0, reg |-> {}, rereg |-> {}, fixes |-> 0, ed |-> TRUE, known |-> {},
     fixInterval |-> {}]

(* Qt: an id that no registered timer has, nor one that is on its way *)
FreshId(f) == Min(Ids \ (f.reg \cup f.rereg))

(* Qt: startTimer() and killTimer() of the object *)
objStart(f) ==
    LET id == FreshId(f)
    IN [f EXCEPT !.own = id, !.reg = @ \cup {id}]

objStop(f) == [f EXCEPT !.own = 0, !.reg = @ \ {f.own}]

(* removed timers leave the list, new ones enter it; without a dispatcher  *)
(* no timer is seen and all leave                                          *)
updateTimerList(f) ==
    LET seen == IF f.ed THEN f.reg ELSE {}
    IN [f EXCEPT !.known = seen, !.fixInterval = @ \cap seen]

(* ThreadChange: Qt unregisters the timers and posts their registration    *)
(* in the new thread; the fixer unlinks itself and posts fixTimers()       *)
fixerThreadChange(f) ==
    [f EXCEPT !.rereg = @ \cup f.reg, !.reg = {}, !.ed = FALSE, !.fixes = @ + 1]

(* Qt: _q_reregisterTimers() *)
reregisterTimers(f) == [f EXCEPT !.reg = @ \cup f.rereg, !.rereg = {}]

(* unregisterTimer() and registerTimer() give a listed timer another id *)
renewed(f, id) ==
    LET new == FreshId(f)
    IN [f EXCEPT !.reg = (@ \ {id}) \cup {new}, !.known = (@ \ {id}) \cup {new}]

renewAll(f) ==
    LET g == FoldSet(LAMBDA id, x : renewed(x, id), f, f.known)
    IN [g EXCEPT !.fixInterval = g.known]

fixTimers_LinksFirst(f) ==
    renewAll(updateTimerList([f EXCEPT !.fixes = @ - 1, !.ed = TRUE]))

(* fixTimers() updates the list before it links the dispatcher *)
fixTimers(f) ==
    renewAll([updateTimerList([f EXCEPT !.fixes = @ - 1]) EXCEPT !.ed = TRUE])

(* handleTimerEvent(): the event filter sees the event before the object *)
handleTimerEvent(f, id) ==
    IF id \in f.known /\ id \in f.fixInterval
    THEN [renewed(f, id) EXCEPT !.fixInterval = @ \ {id}]
    ELSE f

(* The object recognises its timer: it is registered, or on its way, under *)
(* the id the object knows                                                 *)
Recognised(f) == f.own # 0 => f.own \in f.reg \cup f.rereg
==============================================================================
