------------------------- MODULE SynchronizerProofs -------------------------
(***************************************************************************)
(* Proofs about module Synchronizer, for every value of its constants.     *)
(***************************************************************************)
EXTENDS Synchronizer, TLAPS

------------------------------------------------------------------------------
(* The inductive invariant                                                 *)

(* The types of everything but the object's own timer *)
Types ==
    /\ pc \in [caller : CallerPlaces, worker : WorkerPlaces]
    /\ waiters \subseteq Threads /\ held \in BOOLEAN
    /\ d \in Privates /\ thread \in Threads
    /\ ev \in [quits : Nat, exit : BOOLEAN]
    /\ call \in [timed : BOOLEAN, expired : BOOLEAN, noticed : BOOLEAN]
    /\ notices \in Nat /\ hist \in Histories

(* The worker sleeps and the object is the caller's *)
Resting ==
    /\ pc.worker = "parked" /\ waiters = {"worker"}
    /\ thread = "caller" /\ ~d.loop /\ ~held

(* The worker has been woken for a call and has not parked again *)
InSession ==
    \/ pc.worker = "parked" /\ thread = "worker" /\ ~d.loop /\ ~held
    \/ pc.worker = "exec" /\ thread = "worker" /\ d.loop /\ held
    \/ pc.worker \in {"running", "flush", "flushed"} /\ thread = "worker" /\ d.loop /\ ~held
    \/ pc.worker = "back" /\ thread = "caller" /\ d.loop /\ ~held

(* Where the two threads are at the same time *)
Stopped(place) ==
    /\ pc.caller = place /\ pc.worker = "off" /\ waiters = {}
    /\ thread = "caller" /\ ~d.loop /\ ~held

Booting ==
    /\ pc.caller = "starting" /\ pc.worker = "boot" /\ waiters = {"caller"}
    /\ thread = "caller" /\ ~d.loop /\ ~held

Lent ==
    /\ pc.caller = "moved" /\ pc.worker = "parked" /\ waiters = {"worker"}
    /\ thread = "worker" /\ ~d.loop /\ ~held

CallerWaits ==
    /\ InSession
    /\ \/ pc.caller = "waiting" /\ waiters = {"caller"}
       \/ pc.caller = "waiting" /\ waiters = {} /\ call.expired
       \/ pc.caller = "quitting" /\ pc.worker # "parked" /\ waiters = {"caller"} /\ call.expired

Joining ==
    /\ pc.caller = "joining" /\ pc.worker = "parked" /\ waiters = {}
    /\ thread = "caller" /\ ~d.loop /\ ~held

Places ==
    \/ ~d.active /\ Stopped("idle")
    \/ d.active /\ (Booting \/ Lent \/ CallerWaits)
    \/ d.active /\ Resting
       /\ pc.caller \in {"starting", "ready", "idle", "waiting", "quitting", "returning"}
    \/ d.active /\ d.do_quit /\ (Joining \/ Stopped("joining"))

(* Why a call may end *)
Deserved == d.cond_met \/ call.expired \/ hist.stale

Reasons ==
    /\ d.do_quit => pc.caller = "joining" \/ ~d.active
    /\ ev.exit => d.loop /\ Deserved
    /\ ev.quits > 0 => hist.stale \/ call.expired
    /\ pc.worker \in {"flush", "flushed", "back"} => Deserved
    /\ Resting /\ pc.caller \in {"waiting", "quitting", "returning"} => Deserved

(* What holds at any time, also while a call that timed out too early has  *)
(* left the worker on its own: it says how the two come together again     *)
Asleep == pc.worker = "parked" /\ "worker" \in waiters

Loose ==
    /\ "caller" \in waiters => pc.caller \in {"starting", "waiting", "quitting"}
    /\ "worker" \in waiters => pc.worker = "parked"
    /\ held => pc.worker = "exec"
    /\ d.loop <=> pc.worker \in {"exec", "running", "flush", "flushed", "back"}
    /\ pc.caller # "idle" \/ pc.worker # "off" => d.active
    /\ pc.worker = "boot" => pc.caller = "starting" /\ "caller" \in waiters
    /\ pc.caller = "starting" => pc.worker = "boot" \/ Asleep
    /\ pc.caller = "ready" => Asleep
    /\ pc.caller # "joining" /\ d.active => ~d.do_quit /\ pc.worker # "off"
    /\ ev.exit => d.loop
    /\ ev.quits > 0 => hist.stale \/ call.expired
    /\ pc.caller = "waiting" /\ "caller" \notin waiters => Asleep \/ call.expired
    /\ pc.caller = "quitting" /\ "caller" \notin waiters => Asleep
    /\ pc.caller = "returning" => Asleep \/ call.expired
    /\ pc.worker = "back" => thread = "caller" \/ pc.caller \in {"moved", "waiting", "quitting"}

IInv ==
    /\ Types
    /\ d.cond_met = hist.met
    /\ ~hist.early => Places /\ Reasons

------------------------------------------------------------------------------
LEMMA PcFacts ==
  ASSUME NEW p \in [caller : CallerPlaces, worker : WorkerPlaces]
  PROVE  /\ p["caller"] = p.caller /\ p["worker"] = p.worker
         /\ \A x \in CallerPlaces : [p EXCEPT !["caller"] = x] = [caller |-> x, worker |-> p.worker]
         /\ \A x \in WorkerPlaces : [p EXCEPT !["worker"] = x] = [caller |-> p.caller, worker |-> x]
  OBVIOUS

LEMMA InitIInv == Init => IInv
<1> SUFFICES ASSUME Init PROVE IInv
  OBVIOUS
<1>1. Types
  BY DEF Init, Types, CallerPlaces, WorkerPlaces, Threads, Privates, Histories
<1>2. d.cond_met = hist.met
  BY DEF Init
<1>3. ~d.active /\ Stopped("idle")
  BY DEF Init, Stopped
<1>4. Reasons
  BY <1>3 DEF Init, Reasons, Resting, Stopped
<1> QED
  BY <1>1, <1>2, <1>3, <1>4 DEF IInv, Places

LEMMA StartKeeps == IInv /\ Start => IInv'
<1> SUFFICES ASSUME IInv, Start PROVE IInv'
  OBVIOUS
<1>1. Types'
  BY DEF IInv, Start, Types, CallerPlaces, WorkerPlaces, Threads, Privates, Histories, objectVars
<1>2. (d.cond_met = hist.met)'
  BY DEF IInv, Types, Privates, Start
<1>3. ASSUME ~hist.early PROVE Stopped("idle") /\ Reasons
  BY <1>3 DEF IInv, Start, Places, Stopped, Booting, Lent, CallerWaits, Joining, At
<1>4. ASSUME ~hist.early PROVE d'.active /\ Booting' /\ Reasons'
  BY <1>3, <1>4 DEF Start, Stopped, Booting, Reasons, Resting, Deserved, IInv, Types, Privates, objectVars
<1> QED
  BY <1>1, <1>2, <1>4 DEF IInv, Places, Start

LEMMA StartedKeeps == IInv /\ Started => IInv'
<1> SUFFICES ASSUME IInv, Started PROVE IInv'
  OBVIOUS
<1>1. Types'
  BY PcFacts DEF IInv, Started, Goto, Types, CallerPlaces, objectVars
<1>2. (d.cond_met = hist.met)'
  BY DEF IInv, Started
<1>3. ASSUME ~hist.early PROVE d.active /\ Resting /\ Reasons
  BY <1>3 DEF IInv, Started, Places, Stopped, Booting, Lent, CallerWaits, Joining, At
<1>4. ASSUME ~hist.early PROVE d'.active /\ pc'.caller = "ready" /\ Resting' /\ Reasons'
  BY <1>3, <1>4, PcFacts DEF Started, At, Goto, CallerPlaces, Reasons, Resting, Deserved, IInv, Types, objectVars
<1> QED
  BY <1>1, <1>2, <1>4 DEF IInv, Places, Started

LEMMA waitForConditionKeeps ==
  ASSUME IInv, Loose, NEW timed \in BOOLEAN, waitForCondition(timed)
  PROVE  IInv'
<1>1. Types'
  <2>1. hist' \in Histories
    BY DEF IInv, Types, Histories, waitForCondition
  <2>2. d' \in Privates
    BY DEF IInv, Types, Privates, waitForCondition
  <2>3. call' \in [timed : BOOLEAN, expired : BOOLEAN, noticed : BOOLEAN]
    BY DEF waitForCondition
  <2> QED
    BY <2>1, <2>2, <2>3, PcFacts DEF IInv, waitForCondition, MoveTo, Goto, Types, CallerPlaces, Threads
<1>2. (d.cond_met = hist.met)'
  BY DEF IInv, waitForCondition, Types, Privates, Histories
<1>3. ~hist'.early => ~hist.early \/ "worker" \in waiters
  BY DEF waitForCondition
<1>4. ASSUME ~hist'.early
      PROVE  /\ d.active /\ ~d.do_quit /\ pc.worker = "parked" /\ waiters = {"worker"}
             /\ ~d.loop /\ ~held /\ ~ev.exit
  <2>1. CASE ~hist.early
    BY <2>1 DEF IInv, waitForCondition, Places, Reasons, Resting, Stopped, Booting, Lent, CallerWaits, Joining, At
  <2>2. CASE "worker" \in waiters
    <3>1. "caller" \notin waiters /\ waiters \subseteq {"caller", "worker"}
      BY PcFacts DEF Loose, waitForCondition, At, IInv, Types, Threads
    <3>2. waiters = {"worker"}
      BY <2>2, <3>1
    <3>3. pc.caller \in {"ready", "idle"} /\ (pc.caller = "idle" => d.active)
      BY PcFacts DEF waitForCondition, At, IInv, Types
    <3> QED
      BY <2>2, <3>2, <3>3 DEF Loose
  <2> QED
    BY <1>3, <1>4, <2>1, <2>2
<1>5. ASSUME ~hist'.early PROVE d'.active /\ Lent' /\ Reasons'
  <2>1. pc' = [caller |-> "moved", worker |-> "parked"]
    BY <1>4, <1>5, PcFacts DEF waitForCondition, Goto, CallerPlaces, IInv, Types
  <2>2. hist'.stale = (ev.quits > 0) /\ ev' = ev /\ waiters' = waiters /\ held' = held /\ thread' = "worker"
    BY DEF waitForCondition, MoveTo
  <2>3. d'.active = d.active /\ d'.do_quit = d.do_quit /\ d'.loop = d.loop
    BY DEF waitForCondition, IInv, Types, Privates
  <2> QED
    BY <1>4, <1>5, <2>1, <2>2, <2>3 DEF Lent, Reasons, Resting
<1> QED
  BY <1>1, <1>2, <1>5 DEF IInv, Places

LEMMA WakeFacts ==
  /\ \A ws : AfterWakeOne({}, ws) => ws = {}
  /\ \A x, ws : AfterWakeOne({x}, ws) => ws = {}
  BY DEF AfterWakeOne

LEMMA WakeWorkerKeeps == IInv /\ WakeWorker => IInv'
<1> SUFFICES ASSUME IInv, WakeWorker PROVE IInv'
  OBVIOUS
<1>1. Types'
  BY PcFacts DEF IInv, WakeWorker, Goto, Types, CallerPlaces, Threads, objectVars
<1>2. (d.cond_met = hist.met)' /\ hist'.early = hist.early
  BY DEF IInv, WakeWorker, Types, Privates, Histories
<1>3. ASSUME ~hist.early PROVE d.active /\ Lent /\ Reasons
  BY <1>3 DEF IInv, WakeWorker, Places, Stopped, Booting, Lent, CallerWaits, Joining, At, Resting
<1>4. ASSUME ~hist.early PROVE waiters' = {"caller"}
  BY <1>3, <1>4, WakeFacts DEF WakeWorker, Lent
<1>5. ASSUME ~hist.early PROVE d'.active /\ CallerWaits' /\ Reasons'
  BY <1>3, <1>4, <1>5, PcFacts DEF WakeWorker, At, Goto, CallerPlaces, Lent, CallerWaits, InSession, Reasons, Resting, Deserved, IInv, Types, Privates, Histories, objectVars
<1> QED
  BY <1>1, <1>2, <1>5 DEF IInv, Places

LEMMA TimeOutKeeps == IInv /\ TimeOut => IInv'
<1> SUFFICES ASSUME IInv, TimeOut PROVE IInv'
  OBVIOUS
<1>1. Types'
  BY DEF IInv, TimeOut, Types, Threads, objectVars
<1>2. (d.cond_met = hist.met)' /\ hist'.early = hist.early
  BY DEF IInv, TimeOut, Types, Privates, Histories
<1>3. ASSUME ~hist.early PROVE d.active /\ CallerWaits /\ Reasons
  BY <1>3 DEF IInv, TimeOut, Places, Stopped, Booting, Lent, CallerWaits, Joining, At, Resting
<1>4. ASSUME ~hist.early PROVE d'.active /\ CallerWaits' /\ Reasons'
  BY <1>3, <1>4 DEF TimeOut, At, CallerWaits, InSession, Reasons, Resting, Deserved, IInv, Types, Privates, Histories, objectVars
<1> QED
  BY <1>1, <1>2, <1>4 DEF IInv, Places

LEMMA ReturnedKeeps == IInv /\ Returned => IInv'
<1> SUFFICES ASSUME IInv, Returned PROVE IInv'
  OBVIOUS
<1>1. Types'
  BY PcFacts DEF IInv, Returned, Goto, Types, CallerPlaces, objectVars
<1>2. (d.cond_met = hist.met)' /\ hist'.early = hist.early
  BY DEF IInv, Returned, Types, Privates, Histories
<1>3. ASSUME ~hist.early PROVE d.active /\ Resting /\ Reasons
  BY <1>3 DEF IInv, Returned, Places, Stopped, Booting, Lent, CallerWaits, Joining, At, Resting
<1>4. ASSUME ~hist.early PROVE d'.active /\ pc'.caller = "idle" /\ Resting' /\ Reasons'
  BY <1>3, <1>4, PcFacts DEF Returned, At, Goto, CallerPlaces, Reasons, Resting, Deserved, IInv, Types, Privates, Histories, objectVars
<1> QED
  BY <1>1, <1>2, <1>4 DEF IInv, Places

LEMMA WakeTypes ==
  ASSUME NEW ws \in SUBSET Threads, NEW us, AfterWakeOne(ws, us)
  PROVE  us \in SUBSET Threads
  BY DEF AfterWakeOne

LEMMA StopKeeps == IInv /\ Stop => IInv'
<1> SUFFICES ASSUME IInv, Stop PROVE IInv'
  OBVIOUS
<1>1. Types'
  BY PcFacts, WakeTypes DEF IInv, Stop, Goto, Types, CallerPlaces, Privates, objectVars
<1>2. (d.cond_met = hist.met)' /\ hist'.early = hist.early
  BY DEF IInv, Stop, Types, Privates, Histories
<1>3. ASSUME ~hist.early PROVE d.active /\ Resting /\ Reasons
  BY <1>3 DEF IInv, Stop, Places, Stopped, Booting, Lent, CallerWaits, Joining, At, Resting
<1>4. ASSUME ~hist.early PROVE waiters' = {}
  BY <1>3, <1>4, WakeFacts DEF Stop, Resting
<1>5. ASSUME ~hist.early PROVE d'.active /\ d'.do_quit /\ Joining' /\ Reasons'
  BY <1>3, <1>4, <1>5, PcFacts DEF Stop, At, Goto, CallerPlaces, Joining, Reasons, Resting, Deserved, IInv, Types, Privates, Histories, objectVars
<1> QED
  BY <1>1, <1>2, <1>5 DEF IInv, Places

LEMMA JoinedKeeps == IInv /\ Joined => IInv'
<1> SUFFICES ASSUME IInv, Joined PROVE IInv'
  OBVIOUS
<1>1. Types'
  BY PcFacts DEF IInv, Joined, Goto, Types, CallerPlaces, Privates, objectVars
<1>2. (d.cond_met = hist.met)' /\ hist'.early = hist.early
  BY DEF IInv, Joined, Types, Privates, Histories
<1>3. ASSUME ~hist.early PROVE d.active /\ Stopped("joining") /\ Reasons
  BY <1>3 DEF IInv, Joined, Places, Stopped, Booting, Lent, CallerWaits, Joining, At, Resting, InSession
<1>4. ASSUME ~hist.early PROVE ~d'.active /\ Stopped("idle")' /\ Reasons'
  BY <1>3, <1>4, PcFacts DEF Joined, At, Goto, CallerPlaces, Stopped, Reasons, Resting, Deserved, IInv, Types, Privates, Histories, objectVars
<1> QED
  BY <1>1, <1>2, <1>4 DEF IInv, Places

LEMMA BootKeeps == IInv /\ Boot => IInv'
<1> SUFFICES ASSUME IInv, Boot PROVE IInv'
  OBVIOUS
<1>1. Types'
  BY PcFacts DEF IInv, Boot, Park, Goto, Types, WorkerPlaces, Threads, objectVars
<1>2. (d.cond_met = hist.met)' /\ hist'.early = hist.early
  BY DEF IInv, Boot, Types, Privates, Histories
<1>3. ASSUME ~hist.early PROVE d.active /\ Booting /\ Reasons
  BY <1>3 DEF IInv, Boot, Places, Stopped, Booting, Lent, CallerWaits, Joining, At, Resting, InSession
<1>4. ASSUME ~hist.early PROVE waiters' = {"worker"}
  BY <1>3, <1>4, WakeFacts DEF Boot, Booting, Park
<1>5. ASSUME ~hist.early PROVE d'.active /\ pc'.caller = "starting" /\ Resting' /\ Reasons'
  BY <1>3, <1>4, <1>5, PcFacts DEF Boot, At, Park, Goto, WorkerPlaces, Booting, Reasons, Resting, Deserved, IInv, Types, Privates, Histories, objectVars
<1> QED
  BY <1>1, <1>2, <1>5 DEF IInv, Places

LEMMA agent_startedKeeps == IInv /\ agent_started => IInv'
<1> SUFFICES ASSUME IInv, agent_started PROVE IInv'
  OBVIOUS
<1>1. Types'
  BY PcFacts DEF IInv, agent_started, Goto, Types, WorkerPlaces, objectVars
<1>2. (d.cond_met = hist.met)' /\ hist'.early = hist.early
  BY DEF IInv, agent_started, Types, Privates, Histories
<1>3. ASSUME ~hist.early PROVE d.active /\ CallerWaits /\ Reasons
  BY <1>3 DEF IInv, agent_started, Places, Stopped, Booting, Lent, CallerWaits, Joining, At, Resting
<1>4. ASSUME ~hist.early PROVE d'.active /\ CallerWaits' /\ Reasons'
  BY <1>3, <1>4, PcFacts DEF agent_started, At, Goto, WorkerPlaces, CallerWaits, InSession, Reasons, Resting, Deserved, IInv, Types, Privates, Histories, objectVars
<1> QED
  BY <1>1, <1>2, <1>4 DEF IInv, Places

LEMMA LeaveLoopKeeps == IInv /\ LeaveLoop => IInv'
<1> SUFFICES ASSUME IInv, LeaveLoop PROVE IInv'
  OBVIOUS
<1>1. Types'
  BY PcFacts DEF IInv, LeaveLoop, Goto, Types, WorkerPlaces, objectVars
<1>2. (d.cond_met = hist.met)' /\ hist'.early = hist.early
  BY DEF IInv, LeaveLoop, Types, Privates, Histories
<1>3. ASSUME ~hist.early PROVE d.active /\ CallerWaits /\ Reasons
  BY <1>3 DEF IInv, LeaveLoop, Places, Stopped, Booting, Lent, CallerWaits, Joining, At, Resting
<1>4. ASSUME ~hist.early PROVE d'.active /\ CallerWaits' /\ Reasons'
  BY <1>3, <1>4, PcFacts DEF LeaveLoop, At, Goto, WorkerPlaces, CallerWaits, InSession, Reasons, Resting, Deserved, IInv, Types, Privates, Histories, objectVars
<1> QED
  BY <1>1, <1>2, <1>4 DEF IInv, Places

LEMMA FlushedKeeps == IInv /\ Flushed => IInv'
<1> SUFFICES ASSUME IInv, Flushed PROVE IInv'
  OBVIOUS
<1>1. Types'
  BY PcFacts DEF IInv, Flushed, Goto, Types, WorkerPlaces, objectVars
<1>2. (d.cond_met = hist.met)' /\ hist'.early = hist.early
  BY DEF IInv, Flushed, Types, Privates, Histories
<1>3. ASSUME ~hist.early PROVE d.active /\ CallerWaits /\ Reasons
  BY <1>3 DEF IInv, Flushed, Places, Stopped, Booting, Lent, CallerWaits, Joining, At, Resting
<1>4. ASSUME ~hist.early PROVE d'.active /\ CallerWaits' /\ Reasons'
  BY <1>3, <1>4, PcFacts DEF Flushed, At, Goto, WorkerPlaces, CallerWaits, InSession, Reasons, Resting, Deserved, IInv, Types, Privates, Histories, objectVars
<1> QED
  BY <1>1, <1>2, <1>4 DEF IInv, Places

LEMMA QuitEventKeeps == IInv /\ QuitEvent => IInv'
<1> SUFFICES ASSUME IInv, QuitEvent PROVE IInv'
  OBVIOUS
<1>1. Types'
  BY DEF IInv, QuitEvent, Types, objectVars
<1>2. (d.cond_met = hist.met)' /\ hist'.early = hist.early
  BY DEF IInv, QuitEvent, Types, Privates, Histories
<1>3. ASSUME ~hist.early PROVE d.active /\ CallerWaits /\ d.loop /\ Reasons
  BY <1>3 DEF IInv, QuitEvent, Places, Stopped, Booting, Lent, CallerWaits, Joining, At, Resting, InSession
<1>4. ASSUME ~hist.early PROVE d'.active /\ CallerWaits' /\ Reasons'
  BY <1>3, <1>4 DEF QuitEvent, At, CallerWaits, InSession, Reasons, Resting, Deserved, IInv, Types, Privates, Histories, objectVars
<1> QED
  BY <1>1, <1>2, <1>4 DEF IInv, Places

LEMMA SessionOverKeeps == IInv /\ Loose /\ SessionOver => IInv'
<1> SUFFICES ASSUME IInv, Loose, SessionOver PROVE IInv'
  OBVIOUS
<1>1. Types'
  <2>1. hist' \in Histories
    BY DEF IInv, Types, Histories, SessionOver
  <2> QED
    BY <2>1, PcFacts DEF IInv, SessionOver, Park, Goto, Types, WorkerPlaces, Threads, Privates, objectVars
<1>2. /\ (d.cond_met = hist.met)' /\ hist'.stale = hist.stale
      /\ ~hist'.early => ~hist.early \/ pc.caller \in {"idle", "returning"}
  BY DEF IInv, SessionOver, Types, Privates, Histories
<1>3. ASSUME ~hist.early PROVE d.active /\ CallerWaits /\ Reasons
  BY <1>3 DEF IInv, SessionOver, Places, Stopped, Booting, Lent, CallerWaits, Joining, At, Resting
<1>4. ASSUME ~hist.early PROVE waiters' = {"worker"}
  BY <1>3, <1>4, WakeFacts DEF SessionOver, CallerWaits, Park
<1>5. ASSUME ~hist.early PROVE d'.active /\ pc'.caller \in {"waiting", "quitting"} /\ Resting' /\ Reasons'
  BY <1>2, <1>3, <1>4, <1>5, PcFacts DEF SessionOver, At, Park, Goto, WorkerPlaces, CallerWaits, InSession, Reasons, Resting, Deserved, IInv, Types, Privates, Histories, objectVars
<1>6. ASSUME pc.caller \in {"idle", "returning"}
      PROVE  d'.active /\ pc'.caller = pc.caller /\ Resting' /\ Reasons'
  <2>1. pc.worker = "back" /\ pc' = [caller |-> pc.caller, worker |-> "parked"]
    BY PcFacts DEF SessionOver, At, Park, Goto, WorkerPlaces, IInv, Types
  <2>2. waiters = {} /\ thread = "caller" /\ d.active /\ ~d.do_quit
    BY <1>6, <2>1 DEF Loose, IInv, Types, Threads
  <2>3. waiters' = {"worker"}
    BY <2>2, WakeFacts DEF SessionOver, Park
  <2>4. /\ d'.active = d.active /\ d'.do_quit = d.do_quit /\ d'.cond_met = d.cond_met /\ ~d'.loop
        /\ ~held' /\ thread' = thread /\ call' = call /\ ev'.quits = ev.quits /\ ~ev'.exit
    BY DEF SessionOver, Park, IInv, Types, Privates, objectVars
  <2>5. pc.caller = "returning" => call.expired
    BY <2>1 DEF Loose, Asleep
  <2>6. Resting'
    BY <2>1, <2>2, <2>3, <2>4 DEF Resting
  <2>7. ev.quits > 0 => hist.stale \/ call.expired
    BY DEF Loose
  <2> QED
    BY <1>2, <1>6, <2>1, <2>2, <2>4, <2>5, <2>6, <2>7 DEF Reasons, Deserved
<1> QED
  BY <1>1, <1>2, <1>5, <1>6 DEF IInv, Places

LEMMA ReturnKeeps ==
  ASSUME IInv, Return, pc.caller \in {"waiting", "quitting"}, "caller" \notin waiters, ~d.loop \/ ~call.expired
  PROVE  IInv'
<1>1. Types'
  <2>1. hist' \in Histories
    BY DEF IInv, Types, Histories, Return
  <2> QED
    BY <2>1, PcFacts DEF IInv, Return, Goto, Types, CallerPlaces, objectVars
<1>2. (d.cond_met = hist.met)' /\ (~hist'.early => ~hist.early /\ ~TooEarly)
  BY DEF IInv, Return, Types, Histories
<1>3. hist'.stale = hist.stale
  BY DEF IInv, Return, Types, Histories
<1>4. ASSUME ~hist'.early PROVE d.active /\ Resting /\ Reasons
  <2>1. ~CallerWaits
    <3>1. CASE pc.worker = "parked"
      BY <1>2, <1>4, <3>1, PcFacts DEF CallerWaits, InSession, TooEarly, At, IInv, Types
    <3>2. CASE pc.worker # "parked"
      BY <3>2 DEF CallerWaits, InSession
    <3> QED
      BY <3>1, <3>2
  <2> QED
    BY <1>2, <1>4, <2>1 DEF IInv, Places, Stopped, Booting, Lent, Joining
<1>5. ASSUME ~hist'.early PROVE d'.active /\ pc'.caller = "returning" /\ Resting' /\ Reasons'
  BY <1>2, <1>3, <1>4, <1>5, PcFacts DEF Return, Goto, CallerPlaces, Reasons, Resting, Deserved, IInv, Types, objectVars
<1> QED
  BY <1>1, <1>2, <1>5 DEF IInv, Places

LEMMA AfterQuitKeeps == IInv /\ Loose /\ AfterQuit => IInv'
  BY ReturnKeeps, PcFacts DEF AfterQuit, At, IInv, Types, Loose, Asleep

LEMMA AfterWaitKeeps == IInv /\ AfterWait => IInv'
<1> SUFFICES ASSUME IInv, AfterWait PROVE IInv'
  OBVIOUS
<1>1. CASE ~(call.expired /\ d.loop)
  BY <1>1, ReturnKeeps, PcFacts DEF AfterWait, At, IInv, Types
<1>2. CASE call.expired /\ d.loop
  <2>0. /\ ev' = [ev EXCEPT !.quits = @ + 1] /\ waiters' = waiters \cup {"caller"}
        /\ pc' = [pc EXCEPT !["caller"] = "quitting"]
        /\ UNCHANGED <<held, d, call, thread, notices, hist>>
    BY <1>2 DEF AfterWait, Goto, objectVars
  <2>1. Types'
    <3>1. waiters' \subseteq Threads /\ ev' \in [quits : Nat, exit : BOOLEAN]
      BY <2>0 DEF IInv, Types, Threads
    <3> QED
      BY <2>0, <3>1, PcFacts DEF IInv, Types, CallerPlaces
  <2>2. (d.cond_met = hist.met)' /\ hist' = hist
    BY <1>2 DEF IInv, AfterWait
  <2>3. ASSUME ~hist.early PROVE d.active /\ CallerWaits /\ waiters = {} /\ Reasons
    BY <1>2, <2>3 DEF IInv, AfterWait, Places, Stopped, Booting, Lent, CallerWaits, Joining, At, Resting
  <2>4. ASSUME ~hist.early PROVE d'.active /\ CallerWaits' /\ Reasons'
    BY <1>2, <2>0, <2>3, <2>4, PcFacts DEF AfterWait, CallerPlaces, CallerWaits, InSession, Reasons, Resting,
       Deserved, IInv, Types
  <2> QED
    BY <2>1, <2>2, <2>4 DEF IInv, Places
<1> QED
  BY <1>1, <1>2

LEMMA WakeKeeps == IInv /\ Wake => IInv'
<1> SUFFICES ASSUME IInv, Wake PROVE IInv'
  OBVIOUS
<1>1. CASE d.do_quit
  <2>0. /\ pc' = [pc EXCEPT !["worker"] = "off"] /\ ev' = [quits |-> 0, exit |-> FALSE]
        /\ UNCHANGED <<waiters, held, d, call, thread, notices, hist>>
    BY <1>1 DEF Wake, Goto, objectVars
  <2>1. Types'
    BY <2>0, PcFacts DEF IInv, Types, WorkerPlaces
  <2>2. (d.cond_met = hist.met)' /\ hist' = hist
    BY <1>1 DEF IInv, Wake
  <2>3. ASSUME ~hist.early PROVE d.active /\ Joining /\ Reasons
    BY <1>1, <2>3 DEF IInv, Wake, Places, Reasons, Stopped, Booting, Lent, CallerWaits, Joining, At, Resting
  <2>4. ASSUME ~hist.early PROVE d'.active /\ d'.do_quit /\ Stopped("joining")' /\ Reasons'
    <3>1. pc' = [caller |-> pc.caller, worker |-> "off"]
      BY <2>0, PcFacts DEF WorkerPlaces, IInv, Types
    <3>2. ~ev'.exit /\ ~(ev'.quits > 0)
      BY <2>0
    <3>3. Stopped("joining")'
      BY <2>0, <2>3, <2>4, <3>1 DEF Joining, Stopped
    <3> QED
      BY <1>1, <2>0, <2>3, <2>4, <3>1, <3>2, <3>3 DEF Joining, Reasons, Resting
  <2> QED
    BY <2>1, <2>2, <2>4 DEF IInv, Places
<1>2. CASE ~d.do_quit
  <2>0. /\ At("worker", "parked") /\ pc' = [pc EXCEPT !["worker"] = "exec"]
        /\ ev' = [ev EXCEPT !.exit = FALSE]
        /\ d' = [d EXCEPT !.loop = TRUE] /\ held' = TRUE
        /\ UNCHANGED <<waiters, call, thread, notices, hist>>
    BY <1>2 DEF Wake, Goto, objectVars
  <2>1. Types'
    BY <2>0, PcFacts DEF IInv, Types, WorkerPlaces, Privates
  <2>2. (d.cond_met = hist.met)' /\ hist' = hist
    BY <1>2 DEF IInv, Wake, Types, Privates
  <2>3. ASSUME ~hist.early PROVE d.active /\ CallerWaits /\ Reasons
    BY <1>2, <2>3 DEF IInv, Wake, Places, Reasons, Stopped, Booting, Lent, CallerWaits, Joining, At, Resting
  <2>4. ASSUME ~hist.early PROVE d'.active /\ CallerWaits' /\ Reasons'
    BY <2>0, <2>3, <2>4, PcFacts DEF At, WorkerPlaces, CallerWaits, InSession, Reasons, Resting,
       Deserved, IInv, Types, Privates
  <2> QED
    BY <2>1, <2>2, <2>4 DEF IInv, Places
<1> QED
  BY <1>1, <1>2

LEMMA MoveBackKeeps == IInv /\ MoveBack => IInv'
<1> SUFFICES ASSUME IInv, MoveBack PROVE IInv'
  OBVIOUS
<1>1. Types'
  <2>1. hist' \in Histories
    BY DEF IInv, Types, Histories, MoveBack
  <2> QED
    BY <2>1, PcFacts DEF IInv, MoveBack, MoveTo, Goto, Types, WorkerPlaces, Threads
<1>2. (d.cond_met = hist.met)' /\ hist'.early = hist.early
  BY DEF IInv, MoveBack, Types, Privates, Histories
<1>3. ASSUME ~hist.early PROVE d.active /\ CallerWaits /\ Reasons
  BY <1>3 DEF IInv, MoveBack, Places, Stopped, Booting, Lent, CallerWaits, Joining, At, Resting
<1>4. ASSUME ~hist.early PROVE d'.active /\ CallerWaits' /\ Reasons'
  BY <1>3, <1>4, PcFacts DEF MoveBack, MoveTo, At, Goto, WorkerPlaces, CallerWaits, InSession, Reasons, Resting,
     Deserved, IInv, Types, Privates, Histories
<1> QED
  BY <1>1, <1>2, <1>4 DEF IInv, Places

LEMMA EventKeeps ==
  ASSUME IInv, threadsStay, notices' \in Nat, conditionMet \/ UNCHANGED <<d, ev, hist>>
  PROVE  IInv'
<1>1. CASE UNCHANGED <<d, ev, hist>>
  BY <1>1 DEF threadsStay, IInv, Types, Places, Reasons, Stopped, Booting, Lent, CallerWaits, Joining,
     InSession, Resting, Deserved
<1>2. CASE conditionMet /\ d.loop
  <2>1. Types'
    BY <1>2 DEF IInv, Types, Privates, Histories, conditionMet, threadsStay
  <2>2. /\ d'.active = d.active /\ d'.do_quit = d.do_quit /\ d'.loop = d.loop /\ d'.cond_met
        /\ hist'.early = hist.early /\ hist'.stale = hist.stale
        /\ (d.cond_met = hist.met)' /\ ev'.quits = ev.quits
    BY <1>2 DEF IInv, Types, Privates, Histories, conditionMet
  <2>3. Places => Places'
    BY <2>2 DEF threadsStay, Places, Stopped, Booting, Lent, CallerWaits, Joining, InSession, Resting
  <2>4. Reasons => Reasons'
    BY <1>2, <2>2 DEF threadsStay, Reasons, Resting, Deserved
  <2> QED
    BY <2>1, <2>2, <2>3, <2>4 DEF IInv
<1> QED
  BY <1>1, <1>2 DEF conditionMet

LEMMA FoldNothing ==
  ASSUME NEW base, NEW S, S = {}
  PROVE  FoldSet(LAMBDA id, x : renewed(x, id), base, S) = base
  BY DEF FoldSet, MapThenFoldSet

(* The object's own timer while every move was answered before the next:   *)
(* at most one fixTimers() is queued, it finds the dispatcher unlinked, so *)
(* it never renews an id, and the one timer there is is the object's       *)
Answering(g) ==
    /\ g \in FixedObjects
    /\ g.fixes \in {0, 1} /\ (g.fixes = 1 => ~g.ed)
    /\ g.fixInterval = {}
    /\ g.reg = {} \/ g.rereg = {}
    /\ g.reg \cup g.rereg = {g.own} \ {0}

TInv == t \in SafeTimers /\ Backed(t) /\ (~hist.twice => Answering(f))

LEMMA SafeTimerKept ==
  ASSUME NEW x \in SafeTimers, Backed(x)
  PROVE  /\ threadChange(x) \in SafeTimers /\ Backed(threadChange(x))
         /\ x.fixes > 0 => fixTimer(x) \in SafeTimers /\ Backed(fixTimer(x))
         /\ startTimer(x) \in SafeTimers /\ Backed(startTimer(x))
         /\ stopTimer(x) \in SafeTimers /\ Backed(stopTimer(x))
<1>1. threadChange(x) \in SafeTimers /\ Backed(threadChange(x))
  <2> DEFINE n == x.fixes + (IF x.timer THEN 1 ELSE 0) + (IF x.fixer THEN 1 ELSE 0)
  <2>1. n \in Nat /\ (x.timer \/ x.fixer \/ x.fixes > 0 => n > 0)
    BY DEF SafeTimers
  <2>2. threadChange(x) = [x EXCEPT !.timer = FALSE, !.fixer = FALSE, !.fixes = n]
    BY DEF threadChange
  <2> HIDE DEF n
  <2> QED
    BY <2>1, <2>2 DEF SafeTimers, Backed
<1>2. ASSUME x.fixes > 0 PROVE fixTimer(x) \in SafeTimers /\ Backed(fixTimer(x))
  <2> DEFINE n == x.fixes - 1
  <2>1. n \in Nat
    BY <1>2 DEF SafeTimers
  <2>2. fixTimer(x) = [x EXCEPT !.fixes = n, !.fixer = TRUE]
    BY DEF fixTimer
  <2> HIDE DEF n
  <2> QED
    BY <2>1, <2>2 DEF SafeTimers, Backed
<1>3. startTimer(x) \in SafeTimers /\ Backed(startTimer(x))
  BY DEF SafeTimers, Backed, startTimer, stopTimer
<1>4. stopTimer(x) \in SafeTimers /\ Backed(stopTimer(x))
  BY DEF SafeTimers, Backed, stopTimer
<1> QED
  BY <1>1, <1>2, <1>3, <1>4

LEMMA SlotKeeps ==
  ASSUME NEW x \in SafeTimers, NEW slot
  PROVE  /\ slotCalls(x, slot) \in SafeTimers
         /\ Backed(x) => Backed(slotCalls(x, slot))
         /\ slotCalls(x, slot).isSingleShot = x.isSingleShot
  BY DEF SafeTimers, Backed, slotCalls, startTimer, stopTimer

LEMMA SafeTimeoutKept ==
  ASSUME NEW x \in SafeTimers, Backed(x), NEW slot
  PROVE  /\ timerEvent(x, slot) \in SafeTimers /\ Backed(timerEvent(x, slot))
         /\ fixerEvent(x, slot) \in SafeTimers /\ Backed(fixerEvent(x, slot))
<1>1. timerEvent(x, slot) \in SafeTimers /\ Backed(timerEvent(x, slot))
  BY SafeTimerKept, SlotKeeps DEF timerEvent
<1>2. [x EXCEPT !.fixer = FALSE] \in SafeTimers
  BY DEF SafeTimers
<1>3. fixerEvent(x, slot) \in SafeTimers /\ Backed(fixerEvent(x, slot))
  BY <1>2, SlotKeeps DEF fixerEvent, SafeTimers, Backed, startTimer, stopTimer
<1> QED
  BY <1>1, <1>3

LEMMA FreshFacts ==
  ASSUME NEW g, Answering(g), g.own = 0
  PROVE  FreshId(g) \in Ids /\ FreshId(g) # 0
<1>1. Ids \ (g.reg \cup g.rereg) = Ids
  BY DEF Answering
<1>2. Min(Ids) \in Ids
  <2>1. 1 \in Ids /\ \A y \in Ids : 1 <= y
    BY DEF Ids
  <2> QED
    BY <2>1 DEF Min
<1> QED
  BY <1>1, <1>2 DEF FreshId, Ids

LEMMA FixTimersKeeps ==
  ASSUME NEW g, Answering(g), g.fixes > 0, g.rereg = {}
  PROVE  Answering(fixTimers(g))
<1> DEFINE u == [g EXCEPT !.fixes = @ - 1]
           v == updateTimerList(u)
           h == [v EXCEPT !.ed = TRUE]
<1>1. /\ u \in FixedObjects /\ u.fixes = 0 /\ ~u.ed /\ u.fixInterval = {}
      /\ u.own = g.own /\ u.reg = g.reg /\ u.rereg = {}
  BY DEF Answering, FixedObjects
<1> HIDE DEF u
<1>2. /\ v \in FixedObjects /\ v.fixes = 0 /\ v.known = {} /\ v.fixInterval = {}
      /\ v.own = g.own /\ v.reg = g.reg /\ v.rereg = {}
  BY <1>1 DEF FixedObjects, updateTimerList
<1> HIDE DEF v
<1>3. /\ h \in FixedObjects /\ h.fixes = 0 /\ h.known = {}
      /\ h.own = g.own /\ h.reg = g.reg /\ h.rereg = {}
  BY <1>2 DEF FixedObjects
<1>4. fixTimers(g) = renewAll(h)
  BY DEF fixTimers, u, v
<1> HIDE DEF h
<1>5. renewAll(h) = [h EXCEPT !.fixInterval = {}]
  BY <1>3, FoldNothing DEF renewAll
<1> QED
  BY <1>3, <1>4, <1>5 DEF Answering, FixedObjects

LEMMA OwnTimerKept ==
  ASSUME NEW g, Answering(g)
  PROVE  /\ g.fixes = 0 => Answering(fixerThreadChange(g))
         /\ Answering(reregisterTimers(g))
         /\ g.own = 0 => Answering(objStart(g))
         /\ Answering(updateTimerList(g))
         /\ \A id : Answering(handleTimerEvent(g, id))
         /\ g.own \in g.reg => Answering(objStop(handleTimerEvent(g, g.own)))
<1>1. g.fixes = 0 => Answering(fixerThreadChange(g))
  <2> SUFFICES ASSUME g.fixes = 0 PROVE Answering(fixerThreadChange(g))
    OBVIOUS
  <2> DEFINE R == g.rereg \cup g.reg
             h == [g EXCEPT !.rereg = R, !.reg = {}, !.ed = FALSE, !.fixes = 1]
  <2>1. R \in SUBSET Ids /\ R = {g.own} \ {0}
    BY DEF Answering, FixedObjects
  <2>2. fixerThreadChange(g) = h
    BY DEF fixerThreadChange
  <2> HIDE DEF R
  <2>3. h \in FixedObjects /\ h.own = g.own /\ h.reg = {} /\ h.rereg = R /\ h.fixes = 1 /\ ~h.ed
        /\ h.fixInterval = g.fixInterval
    BY <2>1 DEF Answering, FixedObjects
  <2> QED
    BY <2>1, <2>2, <2>3 DEF Answering
<1>2. Answering(reregisterTimers(g))
  BY DEF Answering, FixedObjects, reregisterTimers
<1>3. g.own = 0 => Answering(objStart(g))
  BY FreshFacts DEF Answering, FixedObjects, objStart
<1>4. Answering(updateTimerList(g))
  BY DEF Answering, FixedObjects, updateTimerList
<1>5. \A id : handleTimerEvent(g, id) = g
  BY DEF handleTimerEvent, Answering
<1>6. g.own \in g.reg => Answering(objStop(g))
  BY DEF Answering, FixedObjects, objStop
<1> QED
  BY <1>1, <1>2, <1>3, <1>4, <1>5, <1>6

LEMMA MoveKeeps ==
  ASSUME IInv, TInv, NEW th, MoveTo(th),
         hist'.twice = (hist.twice \/ f'.fixes > 1)
  PROVE  TInv'
<1>1. t' \in SafeTimers /\ Backed(t')
  BY SafeTimerKept DEF TInv, MoveTo
<1>2. ASSUME ~hist'.twice PROVE Answering(f')
  <2>1. ~hist.twice /\ Answering(f) /\ ~(f'.fixes > 1)
    BY <1>2 DEF TInv
  <2>2. CASE f' = f
    BY <2>1, <2>2
  <2>3. CASE f' = fixerThreadChange(f)
    <3>1. f'.fixes = f.fixes + 1 /\ f.fixes \in {0, 1}
      BY <2>1, <2>3 DEF fixerThreadChange, Answering, FixedObjects
    <3>2. f.fixes = 0
      BY <2>1, <3>1
    <3> QED
      BY <2>1, <2>3, <3>2, OwnTimerKept
  <2> QED
    BY <2>2, <2>3 DEF MoveTo
<1> QED
  BY <1>1, <1>2 DEF TInv

------------------------------------------------------------------------------
LEMMA ObjectEventsKeep ==
  ASSUME IInv,
         \/ ObjectStep \/ SafeTimeout \/ OwnTimeout \/ ed_aboutToBlock \/ UseTimers
  PROVE  IInv'
<1>1. threadsStay
  BY DEF ObjectStep, FixTimer, ReregisterTimers, FixTimers, Notice, SafeTimeout, OwnTimeout, ed_aboutToBlock,
     UseTimers
<1>2. notices' = notices \/ (notices > 0 /\ notices' = notices - 1)
  BY DEF ObjectStep, FixTimer, ReregisterTimers, FixTimers, Notice, SafeTimeout, OwnTimeout, ed_aboutToBlock,
     UseTimers
<1>3. notices' \in Nat
  BY <1>2 DEF IInv, Types
<1>4. conditionMet \/ UNCHANGED <<d, ev, hist>>
  BY DEF ObjectStep, FixTimer, ReregisterTimers, FixTimers, Notice, SafeTimeout, OwnTimeout, ed_aboutToBlock,
     UseTimers
<1> QED
  BY <1>1, <1>3, <1>4, EventKeeps

LEMMA PostNoticeKeeps == IInv /\ PostNotice => IInv'
<1> SUFFICES ASSUME IInv, PostNotice PROVE IInv'
  OBVIOUS
<1>1. Types' /\ call'.expired = call.expired
  <2>1. call' \in [timed : BOOLEAN, expired : BOOLEAN, noticed : BOOLEAN] /\ call'.expired = call.expired
    BY DEF IInv, Types, PostNotice
  <2>2. notices' \in Nat
    BY DEF IInv, Types, PostNotice
  <2> QED
    BY <2>1, <2>2 DEF IInv, Types, PostNotice
<1>2. Places => Places'
  BY <1>1 DEF PostNotice, Places, Stopped, Booting, Lent, CallerWaits, Joining, InSession, Resting
<1>3. Reasons => Reasons'
  BY <1>1 DEF PostNotice, Reasons, Resting, Deserved
<1> QED
  BY <1>1, <1>2, <1>3 DEF IInv, PostNotice

LEMMA StutterKeeps == IInv /\ UNCHANGED vars => IInv'
  BY DEF vars, IInv, Types, Places, Reasons, Stopped, Booting, Lent, CallerWaits, Joining, InSession, Resting,
     Deserved

LEMMA NextLoose == IInv /\ Loose /\ [Next]_vars => Loose'
<1> SUFFICES ASSUME IInv, Loose, [Next]_vars PROVE Loose'
  OBVIOUS
<1> USE DEF Loose, Asleep, At, Goto, CallerPlaces, WorkerPlaces, Privates
<1>0. Types
  BY DEF IInv
<1>1. CASE Start
  BY <1>0, <1>1, PcFacts DEF Start, Types, objectVars, Threads
<1>2. CASE Stop
  BY <1>0, <1>2, PcFacts DEF Stop, Types, objectVars, AfterWakeOne
<1>3. ASSUME NEW timed \in BOOLEAN, waitForCondition(timed) PROVE Loose'
  BY <1>0, <1>3, PcFacts DEF waitForCondition, MoveTo, Types, Histories
<1>4. CASE Started
  BY <1>0, <1>4, PcFacts DEF Started, Types, objectVars
<1>5. CASE WakeWorker
  BY <1>0, <1>5, PcFacts DEF WakeWorker, Types, objectVars, AfterWakeOne
<1>6. CASE TimeOut
  BY <1>0, <1>6, PcFacts DEF TimeOut, Types, objectVars
<1>7. CASE AfterWait
  <2>0. pc.caller = "waiting" /\ "caller" \notin waiters
    BY <1>0, <1>7, PcFacts DEF AfterWait, Types
  <2>1. CASE call.expired /\ d.loop
    <3>1. /\ pc' = [caller |-> "quitting", worker |-> pc.worker]
          /\ waiters' = waiters \cup {"caller"} /\ UNCHANGED <<held, d, call, thread, hist>>
      BY <1>0, <1>7, <2>1, PcFacts DEF AfterWait, Types, objectVars
    <3>2. ev'.exit = ev.exit
      BY <1>0, <1>7, <2>1 DEF AfterWait, Types
    <3> QED
      BY <2>0, <2>1, <3>1, <3>2
  <2>2. CASE ~(call.expired /\ d.loop)
    <3>1. /\ pc' = [caller |-> "returning", worker |-> pc.worker]
          /\ UNCHANGED <<waiters, held, d, ev, call, thread>>
      BY <1>0, <1>7, <2>2, PcFacts DEF AfterWait, Return, Types, objectVars
    <3>2. hist'.stale = hist.stale
      BY <1>0, <1>7, <2>2 DEF AfterWait, Return, Types, Histories
    <3> QED
      BY <2>0, <2>2, <3>1, <3>2
  <2> QED
    BY <2>1, <2>2
<1>8. CASE AfterQuit
  <2>1. /\ pc.caller = "quitting" /\ pc' = [caller |-> "returning", worker |-> pc.worker]
        /\ "caller" \notin waiters /\ UNCHANGED <<waiters, held, d, ev, call, thread>>
    BY <1>0, <1>8, PcFacts DEF AfterQuit, Return, Types, objectVars
  <2>2. hist'.stale = hist.stale
    BY <1>0, <1>8 DEF AfterQuit, Return, Types, Histories
  <2> QED
    BY <2>1, <2>2
<1>9. CASE Returned
  BY <1>0, <1>9, PcFacts DEF Returned, Types, objectVars
<1>10. CASE Joined
  BY <1>0, <1>10, PcFacts DEF Joined, Types, objectVars
<1>11. CASE Boot
  BY <1>0, <1>11, PcFacts DEF Boot, Park, Types, objectVars, AfterWakeOne
<1>12. CASE Wake
  <2>1. CASE d.do_quit
    <3>1. /\ pc.worker = "parked" /\ pc' = [caller |-> pc.caller, worker |-> "off"]
          /\ "worker" \notin waiters /\ UNCHANGED <<waiters, held, d, call, thread, hist>>
          /\ ~ev'.exit /\ ~(ev'.quits > 0)
      <4> HIDE DEF Loose
      <4>1. pc \in [caller : CallerPlaces, worker : WorkerPlaces] /\ pc["worker"] = "parked"
            /\ pc' = [pc EXCEPT !["worker"] = "off"]
        BY <1>0, <1>12, <2>1 DEF Wake, Types
      <4>2. /\ "worker" \notin waiters /\ UNCHANGED <<waiters, held, d, call, thread, hist>>
            /\ ~ev'.exit /\ ~(ev'.quits > 0)
        BY <1>12, <2>1 DEF Wake, objectVars
      <4> QED
        BY <4>1, <4>2, PcFacts
    <3>2. d.active /\ pc.caller = "joining"
      BY <2>1, <3>1
    <3> QED
      BY <3>1, <3>2
  <2>2. CASE ~d.do_quit
    <3>1. /\ pc.worker = "parked" /\ pc' = [caller |-> pc.caller, worker |-> "exec"]
          /\ "worker" \notin waiters /\ UNCHANGED <<waiters, call, thread, hist>>
          /\ ~ev'.exit /\ ev'.quits = ev.quits
          /\ d'.loop /\ d'.active = d.active /\ ~d'.do_quit
      <4> HIDE DEF Loose
      <4>1. pc \in [caller : CallerPlaces, worker : WorkerPlaces] /\ pc["worker"] = "parked"
            /\ pc' = [pc EXCEPT !["worker"] = "exec"]
        BY <1>0, <1>12, <2>2 DEF Wake, Types
      <4>2. /\ "worker" \notin waiters /\ UNCHANGED <<waiters, call, thread, hist>>
            /\ ~ev'.exit /\ ev'.quits = ev.quits
            /\ d'.loop /\ d'.active = d.active /\ ~d'.do_quit
        BY <1>0, <1>12, <2>2 DEF Wake, Types, objectVars
      <4> QED
        BY <4>1, <4>2, PcFacts
    <3> QED
      BY <3>1
  <2> QED
    BY <2>1, <2>2
<1>13. CASE agent_started \/ LeaveLoop \/ Flushed
  <2>1. PICK w \in {"running", "flush", "flushed"} :
            /\ pc.worker \in {"exec", "running", "flush"} /\ pc' = [caller |-> pc.caller, worker |-> w]
            /\ UNCHANGED <<waiters, d, ev, call, thread, hist>>
    BY <1>0, <1>13, PcFacts DEF agent_started, LeaveLoop, Flushed, Types, objectVars
  <2>2. held' => held /\ pc.worker # "exec"
    BY <1>0, <1>13, PcFacts DEF agent_started, LeaveLoop, Flushed, Types
  <2> QED
    BY <2>1, <2>2
<1>14. CASE QuitEvent
  BY <1>0, <1>14, PcFacts DEF QuitEvent, Types, objectVars
<1>15. CASE MoveBack
  BY <1>0, <1>15, PcFacts DEF MoveBack, MoveTo, Types, Histories
<1>16. CASE SessionOver
  <2>1. /\ pc.worker = "back" /\ pc' = [caller |-> pc.caller, worker |-> "parked"]
        /\ ~held' /\ UNCHANGED <<call, thread>> /\ ~ev'.exit /\ ev'.quits = ev.quits
    BY <1>0, <1>16, PcFacts DEF SessionOver, Park, Types, objectVars
  <2>2. hist'.stale = hist.stale /\ ~d'.loop /\ d'.active = d.active /\ d'.do_quit = d.do_quit
    BY <1>0, <1>16 DEF SessionOver, Types, Histories
  <2>3. "worker" \in waiters' /\ ("caller" \in waiters' => "caller" \in waiters)
    BY <1>16 DEF SessionOver, Park, AfterWakeOne
  <2> QED
    BY <2>1, <2>2, <2>3
<1>17. CASE ObjectStep \/ SafeTimeout \/ OwnTimeout \/ ed_aboutToBlock \/ UseTimers
  BY <1>0, <1>17 DEF ObjectStep, FixTimer, ReregisterTimers, FixTimers, Notice, SafeTimeout, OwnTimeout,
     ed_aboutToBlock, UseTimers, conditionMet, threadsStay, Types, Histories
<1>18. CASE PostNotice \/ UNCHANGED vars
  BY <1>0, <1>18 DEF PostNotice, vars, Types
<1> QED
  BY <1>1, <1>2, <1>3, <1>4, <1>5, <1>6, <1>7, <1>8, <1>9, <1>10, <1>11, <1>12, <1>13, <1>14, <1>15, <1>16,
     <1>17, <1>18 DEF Next, CallerStep, WorkerStep

LEMMA NextIInv == IInv /\ Loose /\ [Next]_vars => IInv'
<1> SUFFICES ASSUME IInv, Loose, [Next]_vars PROVE IInv'
  OBVIOUS
<1>1. CASE Start \/ Stop \/ \E timed \in BOOLEAN : waitForCondition(timed)
  BY <1>1, StartKeeps, StopKeeps, waitForConditionKeeps
<1>2. CASE CallerStep
  BY <1>2, StartedKeeps, WakeWorkerKeeps, TimeOutKeeps, AfterWaitKeeps, AfterQuitKeeps, ReturnedKeeps,
     JoinedKeeps DEF CallerStep
<1>3. CASE WorkerStep
  BY <1>3, BootKeeps, WakeKeeps, agent_startedKeeps, QuitEventKeeps, LeaveLoopKeeps, FlushedKeeps, MoveBackKeeps,
     SessionOverKeeps DEF WorkerStep
<1>4. CASE ObjectStep \/ SafeTimeout \/ OwnTimeout \/ ed_aboutToBlock \/ UseTimers
  BY <1>4, ObjectEventsKeep
<1>5. CASE PostNotice
  BY <1>5, PostNoticeKeeps
<1>6. CASE UNCHANGED vars
  BY <1>6, StutterKeeps
<1> QED
  BY <1>1, <1>2, <1>3, <1>4, <1>5, <1>6 DEF Next

LEMMA InvariantIInv == Spec => [](IInv /\ Loose)
<1>1. Init => Loose
  BY DEF Init, Loose, Asleep
<1> QED
  BY <1>1, InitIInv, NextIInv, NextLoose, PTL DEF Spec

LEMMA InitTInv == Init => TInv
<1> SUFFICES ASSUME Init PROVE TInv
  OBVIOUS
<1>1. t \in SafeTimers /\ Backed(t)
  BY DEF Init, NewSafeTimer, SafeTimers, Backed
<1>2. Answering(f)
  BY DEF Init, NewFixedObject, FixedObjects, Answering, Ids
<1> QED
  BY <1>1, <1>2 DEF TInv

LEMMA ConditionMetTwice ==
  ASSUME IInv, conditionMet \/ UNCHANGED <<d, ev, hist>>
  PROVE  hist'.twice = hist.twice
  BY DEF conditionMet, IInv, Types, Histories

LEMMA NextTInv == IInv /\ TInv /\ [Next]_vars => TInv'
<1> SUFFICES ASSUME IInv, TInv, [Next]_vars PROVE TInv'
  OBVIOUS
<1>1. ASSUME UNCHANGED <<t, f>>, hist'.twice = hist.twice PROVE TInv'
  BY <1>1 DEF TInv
<1>2. CASE Start \/ Stop
  BY <1>1, <1>2 DEF Start, Stop, objectVars
<1>3. ASSUME NEW timed \in BOOLEAN, waitForCondition(timed) PROVE TInv'
  <2>1. hist'.twice = (hist.twice \/ f'.fixes > 1)
    BY <1>3 DEF waitForCondition, IInv, Types, Histories
  <2> QED
    BY <1>3, <2>1, MoveKeeps DEF waitForCondition
<1>4. CASE MoveBack
  <2>1. hist'.twice = (hist.twice \/ f'.fixes > 1)
    BY <1>4 DEF MoveBack, IInv, Types, Histories
  <2> QED
    BY <1>4, <2>1, MoveKeeps DEF MoveBack
<1>5. CASE CallerStep
  <2>1. UNCHANGED <<t, f>>
    BY <1>5 DEF CallerStep, Started, WakeWorker, TimeOut, AfterWait, AfterQuit, Return, Returned, Joined, objectVars
  <2>2. hist'.twice = hist.twice
    BY <1>5 DEF CallerStep, Started, WakeWorker, TimeOut, AfterWait, AfterQuit, Return, Returned, Joined,
       IInv, Types, Histories
  <2> QED
    BY <1>1, <2>1, <2>2
<1>6. CASE WorkerStep /\ ~MoveBack
  BY <1>1, <1>6 DEF WorkerStep, Boot, Wake, agent_started, QuitEvent, LeaveLoop, Flushed, SessionOver, objectVars,
     IInv, Types, Histories
<1>7. CASE FixTimer
  BY <1>7, SafeTimerKept DEF FixTimer, TInv
<1>8. CASE ReregisterTimers
  BY <1>8, OwnTimerKept DEF ReregisterTimers, TInv
<1>9. CASE FixTimers
  BY <1>9, FixTimersKeeps DEF FixTimers, TInv
<1>10. CASE Notice
  BY <1>1, <1>10, ConditionMetTwice DEF Notice
<1>11. CASE SafeTimeout
  BY <1>11, SafeTimeoutKept, ConditionMetTwice DEF SafeTimeout, TInv
<1>12. CASE OwnTimeout
  <2>1. hist'.twice = hist.twice
    BY <1>12, ConditionMetTwice DEF OwnTimeout
  <2>2. ASSUME Answering(f) PROVE Answering(f')
    <3>1. PICK id \in f.reg : f' = IF id = f.own THEN objStop(handleTimerEvent(f, id)) ELSE handleTimerEvent(f, id)
      BY <1>12 DEF OwnTimeout
    <3> QED
      BY <2>2, <3>1, OwnTimerKept
  <2> QED
    BY <1>12, <2>1, <2>2 DEF TInv, OwnTimeout
<1>13. CASE ed_aboutToBlock
  BY <1>13, OwnTimerKept DEF ed_aboutToBlock, TInv
<1>14. CASE UseTimers
  BY <1>14, OwnTimerKept, SafeTimerKept DEF UseTimers, TInv
<1>15. CASE PostNotice \/ UNCHANGED vars
  BY <1>1, <1>15 DEF PostNotice, vars
<1> QED
  BY <1>2, <1>3, <1>4, <1>5, <1>6, <1>7, <1>8, <1>9, <1>10, <1>11, <1>12, <1>13, <1>14, <1>15
     DEF Next, ObjectStep

------------------------------------------------------------------------------
(* When waitForCondition() has returned, the worker of the Synchronizer is *)
(* done with the object, for every sequence of calls, timeouts, posted     *)
(* events and timers, except from a call that timed out while the worker   *)
(* it had woken was not yet in its loop until the worker is at rest again. *)
THEOREM ObjectComesBack == Spec => []ObjectBack
<1>1. IInv => ObjectBack
  BY DEF IInv, Places, Stopped, Booting, Lent, CallerWaits, Joining, Resting, ObjectBack
<1> QED
  BY <1>1, InvariantIInv, PTL

(* The value waitForCondition() returns says whether conditionMet() was    *)
(* called during the call, and a call without a timeout does not return    *)
(* before, unless it began with the quit() of an earlier timeout posted to *)
(* the worker's loop, or overlaps with the worker of a call that timed out *)
(* too early.                                                              *)
THEOREM ResultIsHonest == Spec => []ResultHonest
<1>1. IInv => ResultHonest
  BY DEF IInv, Places, Stopped, Booting, Lent, CallerWaits, Joining, Reasons, Deserved, ResultHonest
<1> QED
  BY <1>1, InvariantIInv, PTL

(* However often the object moves between the threads, an active SafeTimer *)
(* keeps a timer or a queued repair, and the timer of another object stays *)
(* registered under the id the object knows as long as fixTimers() answers *)
(* every move before the next.                                             *)
THEOREM TimersAreKept == Spec => []TimersKept
<1>1. TInv => TimersKept
  BY DEF TInv, Answering, Recognised, TimersKept
<1> QED
  BY <1>1, InitTInv, NextTInv, InvariantIInv, PTL DEF Spec
==============================================================================
