------------------------------ MODULE SyncThread ------------------------------
(***************************************************************************)
(* SyncThread (support/syncthread.cpp): a thread with an event loop, whose *)
(* owner starts and stops it and in which other threads have slots called. *)
(* Everybody who waits sleeps on one wait condition w, under one mutex m.  *)
(* KeyStoreThread (qca_keystore.cpp) puts call_mutex around call().        *)
(*                                                                         *)
(* m is free between the steps of this module.  The wait set holds who     *)
(* sleeps; who has left it goes on.  What the called slot computes is the  *)
(* argument of call_do.                                                    *)
(***************************************************************************)
EXTENDS Integers, Sequences, FiniteSets

CONSTANT Callers   \* threads that call

VARIABLES
    st,     \* the thread, its owner, its wait condition, call_mutex
    calls   \* the calls: where each caller is, what it asked and what it got

syncVars == <<st, calls>>

NoOne == <<>>
Owner == <<"owner">>

NewThread ==
    [run |-> "off", owner |-> "none", waiters |-> {}, posted |-> <<>>,
     last_ret |-> <<>>, call_mutex |-> NoOne]

NoCall == [pc |-> "idle", arg |-> <<>>, ret |-> <<>>]

SyncInit == st = NewThread /\ calls = [c \in Callers |-> NoCall]

(* w.wakeOne() *)
WakeOne(s) == IF s.waiters = {} THEN {s}
              ELSE {[s EXCEPT !.waiters = @ \ {x}] : x \in s.waiters}

(* start() *)
startThread ==
    /\ st.run = "off" /\ st.owner = "none"
    /\ st' = [st EXCEPT !.run = "boot", !.owner = "starting", !.waiters = @ \cup {Owner}]
    /\ UNCHANGED calls

(* run() up to agent_started(), which calls atStart() *)
agentStarted ==
    /\ st.run = "boot"
    /\ st' \in WakeOne([st EXCEPT !.run = "on"])
    /\ UNCHANGED calls

(* start() and stop() after their wait; stop() joins the thread *)
ownerWoken ==
    /\ Owner \notin st.waiters
    /\ \/ st.owner = "starting" /\ st' = [st EXCEPT !.owner = "started"]
       \/ st.owner = "stopping" /\ st.run = "off" /\ st' = [st EXCEPT !.owner = "none"]
    /\ UNCHANGED calls

(* stop() *)
stopThread ==
    /\ st.run = "on" /\ st.owner = "started"
    /\ st' = [st EXCEPT !.posted = Append(@, Owner), !.owner = "stopping",
                        !.waiters = @ \cup {Owner}]
    /\ UNCHANGED calls

(* the posted quit(): the end of run(), which calls atEnd() *)
endThread ==
    /\ st.run = "on" /\ st.posted # <<>> /\ Head(st.posted) = Owner
    /\ st' \in WakeOne([st EXCEPT !.run = "off", !.posted = <<>>])
    /\ UNCHANGED calls

(* trackercall(): call_mutex *)
beginCall(c, arg) ==
    /\ calls[c].pc = "idle"
    /\ calls' = [calls EXCEPT ![c] = [pc |-> "wanted", arg |-> arg, ret |-> <<>>]]
    /\ UNCHANGED st

lockCall_Unlocked(c) ==
    /\ calls[c].pc = "wanted" /\ st.run = "on"
    /\ calls' = [calls EXCEPT ![c].pc = "waiting"]
    /\ st' = [st EXCEPT !.call_mutex = c, !.posted = Append(@, c),
                        !.waiters = @ \cup {c}]

(* call(): post call_do() and sleep *)
lockCall(c) ==
    /\ calls[c].pc = "wanted" /\ st.call_mutex = NoOne /\ st.run = "on"
    /\ calls' = [calls EXCEPT ![c].pc = "waiting"]
    /\ st' = [st EXCEPT !.call_mutex = c, !.posted = Append(@, c),
                        !.waiters = @ \cup {c}]

call_do_NoWake(ret) ==
    /\ st' = [st EXCEPT !.posted = Tail(@), !.last_ret = ret]
    /\ UNCHANGED calls

(* call_do() of the caller at the head, whose slot returns ret *)
call_do(ret) ==
    /\ st' \in WakeOne([st EXCEPT !.posted = Tail(@), !.last_ret = ret])
    /\ UNCHANGED calls

CallPosted == st.run = "on" /\ st.posted # <<>> /\ Head(st.posted) # Owner

(* call() after its wait, trackercall() after call() *)
endCall(c) ==
    /\ calls[c].pc = "waiting" /\ c \notin st.waiters
    /\ calls' = [calls EXCEPT ![c].pc = "done", ![c].ret = st.last_ret]
    /\ st' = [st EXCEPT !.last_ret = <<>>, !.call_mutex = NoOne]
==============================================================================
