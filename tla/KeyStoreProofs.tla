--------------------------- MODULE KeyStoreProofs ---------------------------
(***************************************************************************)
(* Proofs about modules KeyStore and SyncThread, for every value of their  *)
(* constants.                                                              *)
(***************************************************************************)
EXTENDS KeyStore, Induction

------------------------------------------------------------------------------
(* The inductive invariants                                                *)

(* The fields the proofs look at have their types; what the others hold is *)
(* left open                                                               *)
StFields ==
    st \in [run : {"off", "boot", "on"}, owner : {"none", "starting", "started", "stopping"},
            waiters : {st.waiters}, posted : {st.posted}, last_ret : {st.last_ret},
            call_mutex : {st.call_mutex}]

CallRecord(x) == x \in [pc : {"idle", "wanted", "waiting", "done"}, arg : {x.arg}, ret : {x.ret}]

CallFields ==
    /\ calls = [c \in Callers |-> calls[c]]
    /\ \A c \in Callers : CallRecord(calls[c])

TrkRecord(x) ==
    x \in [sources : {x.sources}, busySources : {x.busySources}, items : {x.items},
           tracker_id_at : {x.tracker_id_at}, busy : BOOLEAN, posts : Nat, notify : BOOLEAN]

MgrRecord(m) ==
    m \in [pc : {"none", "connected", "idle", "waiting", "woken", "updating"},
           busy : BOOLEAN, newbusy : BOOLEAN, items : {m.items}, pending : BOOLEAN,
           reg : {m.reg}, unaware : {m.unaware}, stale : {m.stale}]

Fields == StFields /\ CallFields /\ TrkRecord(trk) /\ MgrRecord(mgr)

(* Nobody sleeps and nothing is posted *)
Quiet == st.waiters = {} /\ st.posted = <<>> /\ st.call_mutex = NoOne

(* c holds call_mutex: it sleeps and its slot is posted, or the slot has   *)
(* returned to it                                                          *)
Calling(c) ==
    /\ st.call_mutex = c /\ calls[c].pc = "waiting"
    /\ \/ st.waiters = {c} /\ st.posted = <<c>>
       \/ st.waiters = {} /\ st.posted = <<>> /\ st.last_ret # <<>> /\ st.last_ret[1] = c

(* Where the owner is in start() and stop(), and the thread *)
OwnerPlaces ==
    \/ st.owner = "none" /\ st.run = "off" /\ Quiet
    \/ st.owner = "starting" /\ st.run = "boot" /\ st.posted = <<>> /\ st.waiters = {Owner}
       /\ st.call_mutex = NoOne
    \/ st.owner = "starting" /\ st.run = "on" /\ Quiet
    \/ st.owner = "started" /\ st.run = "on" /\ (Quiet \/ \E c \in Callers : Calling(c))
    \/ st.owner = "stopping" /\ st.run = "on" /\ st.posted = <<Owner>> /\ st.waiters = {Owner}
       /\ st.call_mutex = NoOne
    \/ st.owner = "stopping" /\ st.run = "off" /\ Quiet

(* One call at a time waits, and only of a manager's objects *)
CallPlaces ==
    /\ \A c \in Callers : calls[c].pc = "waiting" => st.call_mutex = c
    /\ mgr.pc # "none" => st.owner = "started"
    /\ mgr.pc = "none" => \A c \in Callers : calls[c].pc = "idle"

SInv == Fields /\ OwnerPlaces /\ CallPlaces /\ OwnAnswer

(* do_update() has the right flag, or comes again *)
CInv ==
    /\ CopyOnItsWay
    /\ mgr.pc = "updating" /\ mgr.newbusy # trk.busy => trk.posts > 0 \/ mgr.pending

(* Who waits for the end of a start that is over has been told *)
WInv ==
    mgr.pc = "waiting" =>
        trk.busySources # {} \/ trk.notify \/ (~trk.busy /\ trk.posts > 0)

------------------------------------------------------------------------------
(* The thread, its owner and its callers                                   *)

(* A caller is neither the owner nor nobody *)
LEMMA CallerFacts == \A c \in Callers : c # Owner /\ c # NoOne
  BY KeyStoreAssumption DEF Owner, NoOne

LEMMA WakeFacts ==
  ASSUME NEW s, NEW r \in WakeOne(s)
  PROVE  /\ s.waiters = {} => r = s
         /\ \A x : s.waiters = {x} => r = [s EXCEPT !.waiters = {}]
<1>1. ASSUME NEW x, s.waiters = {x} PROVE r = [s EXCEPT !.waiters = {}]
  <2>1. PICK y \in s.waiters : r = [s EXCEPT !.waiters = @ \ {y}]
    BY <1>1 DEF WakeOne
  <2>2. s.waiters \ {y} = {}
    BY <1>1
  <2> QED
    BY <2>1, <2>2
<1> QED
  BY <1>1 DEF WakeOne

(* A step that leaves the thread and the calls alone *)
LEMMA RestKeeps ==
  ASSUME SInv, UNCHANGED <<st, calls>>, TrkRecord(trk'), MgrRecord(mgr'),
         mgr'.pc = "none" <=> mgr.pc = "none"
  PROVE  SInv'
  BY DEF SInv, Fields, StFields, CallFields, OwnerPlaces, Quiet, Calling, CallPlaces, OwnAnswer

(* start() *)
LEMMA ensure_initKeeps == SInv /\ ensure_init => SInv'
<1> SUFFICES ASSUME SInv, ensure_init PROVE SInv'
  OBVIOUS
<1>0. UNCHANGED <<calls, trk, mgr>>
  BY DEF ensure_init, startThread
<1>1. st.run = "off" /\ st.owner = "none" /\ Quiet
  BY DEF ensure_init, startThread, SInv, OwnerPlaces
<1>2. /\ st'.run = "boot" /\ st'.owner = "starting" /\ st'.waiters = {Owner}
      /\ st'.posted = <<>> /\ st'.call_mutex = NoOne
  BY <1>1 DEF ensure_init, startThread, SInv, Fields, StFields, Quiet
<1>3. StFields'
  BY DEF ensure_init, startThread, SInv, Fields, StFields
<1> QED
  BY <1>0, <1>1, <1>2, <1>3 DEF SInv, Fields, CallFields, OwnerPlaces, CallPlaces, OwnAnswer, Quiet

(* run() up to agent_started() *)
LEMMA agentStartedKeeps ==
  ASSUME SInv, agentStarted, UNCHANGED <<trk, mgr>>
  PROVE  SInv'
<1> DEFINE s == [st EXCEPT !.run = "on"]
<1>1. st.run = "boot" /\ st.owner = "starting" /\ st.posted = <<>> /\ st.waiters = {Owner} /\ st.call_mutex = NoOne
  BY DEF agentStarted, SInv, OwnerPlaces
<1>2. s.waiters = {Owner} /\ st' \in WakeOne(s)
  BY <1>1 DEF agentStarted, SInv, Fields, StFields
<1>3. st' = [s EXCEPT !.waiters = {}]
  BY <1>2, WakeFacts
<1>4. st'.run = "on" /\ st'.owner = "starting" /\ Quiet'
  BY <1>1, <1>3 DEF SInv, Fields, StFields, Quiet
<1>5. StFields'
  BY <1>3 DEF SInv, Fields, StFields
<1> QED
  BY <1>1, <1>4, <1>5 DEF agentStarted, SInv, Fields, CallFields, OwnerPlaces, CallPlaces, OwnAnswer, Quiet

(* start() and stop() after their wait *)
LEMMA ownerWokenKeeps ==
  ASSUME SInv, ownerWoken, UNCHANGED <<trk, mgr>>
  PROVE  SInv'
<1>1. StFields'
  BY DEF ownerWoken, SInv, Fields, StFields
<1>2. \/ st.owner = "starting" /\ st.run = "on" /\ Quiet /\ st'.owner = "started"
      \/ st.owner = "stopping" /\ st.run = "off" /\ Quiet /\ st'.owner = "none"
  BY DEF ownerWoken, SInv, Fields, StFields, OwnerPlaces
<1>3. /\ st'.run = st.run /\ st'.waiters = st.waiters /\ st'.posted = st.posted
      /\ st'.call_mutex = st.call_mutex
  BY DEF ownerWoken, SInv, Fields, StFields
<1>4. OwnerPlaces'
  BY <1>2, <1>3 DEF OwnerPlaces, Quiet
<1> QED
  BY <1>1, <1>2, <1>3, <1>4 DEF ownerWoken, SInv, Fields, CallFields, CallPlaces, OwnAnswer

(* stop() *)
LEMMA shutdownKeeps == SInv /\ shutdown => SInv'
<1> SUFFICES ASSUME SInv, shutdown PROVE SInv'
  OBVIOUS
<1>0. UNCHANGED <<calls, trk, mgr>> /\ mgr.pc = "none"
  BY DEF shutdown, stopThread
<1>1. st.run = "on" /\ st.owner = "started"
  BY DEF shutdown, stopThread
<1>2. Quiet
  BY <1>0, <1>1 DEF SInv, OwnerPlaces, CallPlaces, Calling
<1>3. Append(<<>>, Owner) = <<Owner>>
  OBVIOUS
<1>4. /\ st'.run = "on" /\ st'.owner = "stopping" /\ st'.waiters = {Owner}
      /\ st'.posted = <<Owner>> /\ st'.call_mutex = NoOne
  BY <1>1, <1>2, <1>3 DEF shutdown, stopThread, SInv, Fields, StFields, Quiet
<1>5. StFields'
  BY DEF shutdown, stopThread, SInv, Fields, StFields
<1> QED
  BY <1>0, <1>2, <1>4, <1>5 DEF SInv, Fields, CallFields, OwnerPlaces, CallPlaces, OwnAnswer, Quiet

(* The end of run(): only stop() has posted it *)
LEMMA endThreadFacts ==
  ASSUME SInv, endThread
  PROVE  /\ st.owner = "stopping" /\ st.run = "on" /\ mgr.pc = "none"
         /\ StFields' /\ st'.run = "off" /\ st'.owner = "stopping" /\ Quiet'
<1> DEFINE s == [st EXCEPT !.run = "off", !.posted = <<>>]
<1>1. st.run = "on" /\ st.posted # <<>> /\ Head(st.posted) = Owner
  BY DEF endThread
<1>2. \A c \in Callers : Head(<<c>>) # Owner
  BY CallerFacts
<1>3. st.owner = "stopping" /\ st.posted = <<Owner>> /\ st.waiters = {Owner} /\ st.call_mutex = NoOne
  BY <1>1, <1>2 DEF SInv, OwnerPlaces, Quiet, Calling
<1>4. s.waiters = {Owner} /\ st' \in WakeOne(s)
  BY <1>3 DEF endThread, SInv, Fields, StFields
<1>5. st' = [s EXCEPT !.waiters = {}]
  BY <1>4, WakeFacts
<1>6. st'.run = "off" /\ st'.owner = "stopping" /\ Quiet'
  BY <1>3, <1>5 DEF SInv, Fields, StFields, Quiet
<1>7. StFields'
  BY <1>5 DEF SInv, Fields, StFields
<1> QED
  BY <1>1, <1>3, <1>6, <1>7 DEF SInv, CallPlaces

LEMMA ThreadEndsKeeps == SInv /\ ThreadEnds => SInv'
<1> SUFFICES ASSUME SInv, ThreadEnds PROVE SInv'
  OBVIOUS
<1>1. endThread /\ UNCHANGED <<calls, mgr>>
  BY DEF ThreadEnds, endThread
<1>2. TrkRecord(trk')
  BY DEF ThreadEnds, NewTracker, TrkRecord
<1> QED
  BY <1>1, <1>2, endThreadFacts DEF SInv, Fields, CallFields, OwnerPlaces, CallPlaces, OwnAnswer, Quiet

(* A record of a call with another pc, or with another answer too *)
LEMMA CallUpdate ==
  ASSUME CallFields, NEW c \in Callers, NEW x, CallRecord(x), calls' = [calls EXCEPT ![c] = x]
  PROVE  CallFields' /\ calls'[c] = x /\ \A b \in Callers : b # c => calls'[b] = calls[b]
<1>1. calls'[c] = x /\ \A b \in Callers : b # c => calls'[b] = calls[b]
  BY DEF CallFields
<1>2. calls' = [b \in Callers |-> calls'[b]]
  BY DEF CallFields
<1> QED
  BY <1>1, <1>2 DEF CallFields

LEMMA lockCallKeeps ==
  ASSUME SInv, NEW c \in Callers, lockCall(c), UNCHANGED <<trk, mgr>>
  PROVE  SInv'
<1> DEFINE x == [calls[c] EXCEPT !.pc = "waiting"]
<1>1. CallRecord(x) /\ x.pc = "waiting" /\ calls' = [calls EXCEPT ![c] = x] /\ calls[c].pc = "wanted"
  BY DEF lockCall, SInv, Fields, CallFields, CallRecord
<1> HIDE DEF x
<1>2. CallFields' /\ calls'[c] = x /\ \A b \in Callers : b # c => calls'[b] = calls[b]
  BY <1>1, CallUpdate DEF SInv, Fields
<1>3. mgr.pc # "none" /\ st.owner = "started" /\ st.run = "on" /\ Quiet
  BY <1>1, CallerFacts DEF SInv, CallPlaces, OwnerPlaces, Calling, lockCall, NoOne
<1>4. Append(<<>>, c) = <<c>>
  OBVIOUS
<1>5. /\ st'.run = "on" /\ st'.owner = "started" /\ st'.waiters = {c}
      /\ st'.posted = <<c>> /\ st'.call_mutex = c
  BY <1>3, <1>4 DEF lockCall, SInv, Fields, StFields, Quiet
<1>6. StFields'
  BY DEF lockCall, SInv, Fields, StFields
<1>7. OwnerPlaces'
  BY <1>1, <1>2, <1>5 DEF OwnerPlaces, Calling
<1>8. CallPlaces'
  BY <1>1, <1>2, <1>3, <1>5, CallerFacts DEF SInv, CallPlaces, Quiet
<1>9. OwnAnswer'
  BY <1>1, <1>2 DEF SInv, OwnAnswer
<1> QED
  BY <1>2, <1>6, <1>7, <1>8, <1>9 DEF SInv, Fields

LEMMA endCallKeeps ==
  ASSUME SInv, NEW c \in Callers, endCall(c), UNCHANGED <<trk, mgr>>
  PROVE  SInv'
<1> DEFINE x == [calls[c] EXCEPT !.pc = "done", !.ret = st.last_ret]
<1>1. CallRecord(x) /\ x.pc = "done" /\ x.ret = st.last_ret
  BY DEF SInv, Fields, CallFields, CallRecord
<1>2. calls' = [calls EXCEPT ![c] = x] /\ calls[c].pc = "waiting" /\ c \notin st.waiters
  BY DEF endCall, SInv, Fields, CallFields
<1> HIDE DEF x
<1>3. CallFields' /\ calls'[c] = x /\ \A b \in Callers : b # c => calls'[b] = calls[b]
  BY <1>1, <1>2, CallUpdate DEF SInv, Fields
<1>4. mgr.pc # "none" /\ st.owner = "started" /\ st.run = "on" /\ st.call_mutex = c
  BY <1>2 DEF SInv, CallPlaces, OwnerPlaces
<1>5. Calling(c)
  BY <1>4, CallerFacts DEF SInv, OwnerPlaces, Calling, Quiet
<1>6. st.waiters = {} /\ st.posted = <<>> /\ st.last_ret # <<>> /\ st.last_ret[1] = c
  BY <1>2, <1>5 DEF Calling
<1>7. st'.run = "on" /\ st'.owner = "started" /\ Quiet'
  BY <1>4, <1>6 DEF endCall, SInv, Fields, StFields, Quiet
<1>8. StFields'
  BY DEF endCall, SInv, Fields, StFields
<1>9. OwnerPlaces'
  BY <1>7 DEF OwnerPlaces
<1>10. CallPlaces'
  BY <1>1, <1>3, <1>4, <1>7 DEF SInv, CallPlaces
<1>11. OwnAnswer'
  BY <1>1, <1>3, <1>6 DEF SInv, OwnAnswer
<1> QED
  BY <1>3, <1>8, <1>9, <1>10, <1>11 DEF SInv, Fields

LEMMA CallSlotKeeps == SInv /\ CallSlot => SInv'
<1> SUFFICES ASSUME SInv, CallSlot PROVE SInv'
  OBVIOUS
<1>1. st.run = "on" /\ st.posted # <<>> /\ Head(st.posted) # Owner
  BY DEF CallSlot, CallPosted
<1>2. PICK c \in Callers : Calling(c) /\ st.posted = <<c>> /\ st.waiters = {c} /\ st.owner = "started"
  BY <1>1 DEF SInv, OwnerPlaces, Quiet, Calling
<1>3. Head(st.posted) = c /\ Tail(st.posted) = <<>>
  BY <1>2
<1> DEFINE r == <<c, entryList(calls[c].arg)>>
           s == [st EXCEPT !.posted = <<>>, !.last_ret = r]
<1>4. r # <<>> /\ r[1] = c
  OBVIOUS
<1>5. st' \in WakeOne(s) /\ UNCHANGED <<calls, trk, mgr>>
  BY <1>3 DEF CallSlot, call_do
<1> HIDE DEF r
<1>6. s.waiters = {c}
  BY <1>2 DEF SInv, Fields, StFields
<1>7. st' = [s EXCEPT !.waiters = {}]
  BY <1>5, <1>6, WakeFacts
<1>8. /\ st'.run = "on" /\ st'.owner = "started" /\ st'.waiters = {} /\ st'.posted = <<>>
      /\ st'.last_ret = r /\ st'.call_mutex = st.call_mutex
  BY <1>1, <1>2, <1>7 DEF SInv, Fields, StFields
<1>9. StFields'
  BY <1>7 DEF SInv, Fields, StFields
<1>10. OwnerPlaces'
  BY <1>2, <1>4, <1>5, <1>8 DEF OwnerPlaces, Calling
<1>11. CallPlaces' /\ OwnAnswer' /\ CallFields'
  BY <1>2, <1>5, <1>8 DEF SInv, CallPlaces, OwnAnswer, Fields, CallFields
<1> QED
  BY <1>5, <1>9, <1>10, <1>11 DEF SInv, Fields

(* The application's thread starts calls and ends calls that are done *)
CallsFrom(idle) ==
    \A c \in Callers :
        \/ calls'[c] = calls[c]
        \/ calls[c].pc \in idle /\ calls'[c].pc \in {"idle", "wanted"}

LEMMA AppKeeps ==
  ASSUME SInv, UNCHANGED st, CallFields', TrkRecord(trk'), MgrRecord(mgr'), mgr.pc # "none",
         CallsFrom({"idle", "done"}),
         mgr'.pc = "none" => \A c \in Callers : calls'[c].pc = "idle"
  PROVE  SInv'
<1>1. OwnerPlaces'
  <2>1. CASE Quiet
    BY <2>1 DEF SInv, OwnerPlaces, Quiet, CallPlaces
  <2>2. ASSUME NEW c \in Callers, Calling(c) PROVE Calling(c)'
    BY <2>2 DEF Calling, CallsFrom
  <2> QED
    BY <2>1, <2>2 DEF SInv, OwnerPlaces, CallPlaces
<1>2. CallPlaces'
  BY DEF SInv, CallPlaces, CallsFrom
<1>3. OwnAnswer'
  BY DEF SInv, OwnAnswer, CallsFrom
<1> QED
  BY <1>1, <1>2, <1>3 DEF SInv, Fields, StFields

LEMMA NewCallFacts ==
  ASSUME NEW a
  PROVE  CallRecord([pc |-> "wanted", arg |-> a, ret |-> <<>>]) /\ CallRecord(NoCall)
  BY DEF CallRecord, NoCall

LEMMA beginCallKeeps ==
  ASSUME SInv, NEW c \in Callers, NEW a, beginCall(c, a), UNCHANGED <<trk, mgr>>, mgr.pc # "none"
  PROVE  SInv'
<1> DEFINE x == [pc |-> "wanted", arg |-> a, ret |-> <<>>]
<1>1. CallRecord(x) /\ x.pc = "wanted" /\ calls[c].pc = "idle" /\ calls' = [calls EXCEPT ![c] = x] /\ UNCHANGED st
  BY NewCallFacts DEF beginCall
<1> HIDE DEF x
<1>2. CallFields' /\ calls'[c] = x /\ \A b \in Callers : b # c => calls'[b] = calls[b]
  BY <1>1, CallUpdate DEF SInv, Fields
<1>3. CallsFrom({"idle", "done"})
  BY <1>1, <1>2 DEF CallsFrom
<1> QED
  BY <1>1, <1>2, <1>3, AppKeeps DEF SInv, Fields

LEMMA op_finishedKeeps ==
  ASSUME SInv, NEW k \in KS, op_finished(k) \/ write_finished(k)
  PROVE  SInv'
<1> DEFINE y == [pc |-> "wanted", arg |-> ks[k].trackerId, ret |-> <<>>]
<1>1. CallRecord(NoCall) /\ CallRecord(y) /\ NoCall.pc = "idle" /\ y.pc = "wanted"
  BY NewCallFacts DEF NoCall
<1> HIDE DEF y
<1>2. PICK c \in Callers, x \in {NoCall, y} : calls[c].pc = "done" /\ calls' = [calls EXCEPT ![c] = x]
  BY KeyStoreAssumption DEF op_finished, write_finished, ListOp, y
<1>3. UNCHANGED <<st, trk, mgr>> /\ mgr.pc = "idle"
  BY DEF op_finished, write_finished
<1>4. CallFields' /\ calls'[c] = x /\ \A b \in Callers : b # c => calls'[b] = calls[b]
  BY <1>1, <1>2, CallUpdate DEF SInv, Fields
<1>5. CallsFrom({"idle", "done"})
  BY <1>1, <1>2, <1>4 DEF CallsFrom
<1> QED
  BY <1>3, <1>4, <1>5, AppKeeps DEF SInv, Fields

(* The destructors of the manager and of a KeyStore *)
LEMMA deletedKeeps ==
  ASSUME SInv, NEW S, UNCHANGED <<st, trk>>, MgrRecord(mgr'), mgr.pc = "idle",
         calls' = [c \in Callers |-> IF c \in S THEN NoCall ELSE calls[c]],
         \A c \in Callers : c \in S => calls[c].pc \in {"idle", "done"},
         mgr'.pc = "none" => S = Callers
  PROVE  SInv'
<1>1. CallRecord(NoCall) /\ NoCall.pc = "idle"
  BY NewCallFacts DEF NoCall
<1>2. \A c \in Callers : calls'[c] = IF c \in S THEN NoCall ELSE calls[c]
  OBVIOUS
<1>3. CallFields'
  <2>1. calls' = [c \in Callers |-> calls'[c]]
    BY <1>2
  <2> QED
    BY <1>1, <1>2, <2>1 DEF SInv, Fields, CallFields
<1>4. CallsFrom({"idle", "done"})
  BY <1>1, <1>2 DEF CallsFrom
<1> QED
  BY <1>1, <1>2, <1>3, <1>4, AppKeeps DEF SInv, Fields

LEMMA removeTargetKeeps == SInv /\ removeTarget => SInv'
<1> SUFFICES ASSUME SInv, removeTarget PROVE SInv'
  OBVIOUS
<1>1. MgrRecord(mgr') /\ UNCHANGED <<st, trk>> /\ mgr.pc = "idle"
  BY DEF removeTarget, NoManager, MgrRecord
<1>2. calls' = [c \in Callers |-> IF c \in Callers THEN NoCall ELSE calls[c]]
  BY DEF removeTarget
<1>3. \A c \in Callers : c \in Callers => calls[c].pc \in {"idle", "done"}
  BY DEF removeTarget
<1> QED
  BY <1>1, <1>2, <1>3, deletedKeeps

LEMMA deleteKeyStoreKeeps ==
  ASSUME SInv, NEW k \in KS, deleteKeyStore(k)
  PROVE  SInv'
<1>1. MgrRecord(mgr') /\ mgr'.pc = "idle" /\ UNCHANGED <<st, trk>> /\ mgr.pc = "idle"
  BY DEF deleteKeyStore, SInv, Fields, MgrRecord
<1>2. calls' = [c \in Callers |-> IF c \in OpsOf(k) THEN NoCall ELSE calls[c]]
  BY DEF deleteKeyStore, OpsOf
<1>3. \A c \in Callers : c \in OpsOf(k) => calls[c].pc \in {"idle", "done"}
  BY DEF deleteKeyStore
<1> QED
  BY <1>1, <1>2, <1>3, deletedKeeps

LEMMA do_updateKeeps == SInv /\ do_update => SInv'
<1> SUFFICES ASSUME SInv, do_update PROVE SInv'
  OBVIOUS
<1>1. MgrRecord(mgr') /\ mgr'.pc = "idle" /\ UNCHANGED <<st, trk>> /\ mgr.pc = "updating"
  BY DEF do_update, SInv, Fields, MgrRecord
<1>2. PICK S : (\A k \in S : startsList(k)) /\ calls' = NewListCalls(S)
  BY DEF do_update
<1>3. ASSUME NEW c \in Callers
      PROVE  /\ CallRecord(calls'[c])
             /\ \/ calls'[c] = calls[c]
                \/ calls[c].pc = "idle" /\ calls'[c].pc = "wanted"
  <2>1. CASE c[2] = "list" /\ c[1] \in S
    <3>1. c = ListOp(c[1])
      BY <2>1, KeyStoreAssumption DEF ListOp
    <3>2. calls[c].pc = "idle"
      BY <1>2, <2>1, <3>1 DEF startsList, have_entryList_op
    <3>3. calls'[c] = [pc |-> "wanted", arg |-> ks[c[1]].trackerId, ret |-> <<>>]
      BY <1>2, <2>1 DEF NewListCalls
    <3> QED
      BY <3>2, <3>3, NewCallFacts
  <2>2. CASE ~(c[2] = "list" /\ c[1] \in S)
    BY <1>2, <2>2 DEF NewListCalls, SInv, Fields, CallFields
  <2> QED
    BY <2>1, <2>2
<1>4. CallFields'
  <2>1. calls' = [c \in Callers |-> calls'[c]]
    BY <1>2 DEF NewListCalls
  <2> QED
    BY <1>3, <2>1 DEF CallFields
<1>5. CallsFrom({"idle", "done"})
  BY <1>3 DEF CallsFrom
<1> QED
  BY <1>1, <1>4, <1>5, AppKeeps DEF SInv, Fields

------------------------------------------------------------------------------
(* The tracker and the manager                                             *)

Awaited(x) == x.busySources # {} \/ x.notify \/ (~x.busy /\ x.posts > 0)

(* The tracker posts an update with whatever it changes, and forgets no    *)
(* news that a manager waits for                                           *)
Tells(x, y) ==
    /\ TrkRecord(y) /\ y.posts >= x.posts
    /\ y.items # x.items \/ y.busy # x.busy => y.posts > 0
    /\ Awaited(x) => Awaited(y)

LEMMA notifyFacts ==
  ASSUME NEW x, TrkRecord(x)
  PROVE  /\ TrkRecord(notifyIfNotBusy(x)) /\ notifyIfNotBusy(x).posts >= x.posts
         /\ notifyIfNotBusy(x).items = x.items /\ Awaited(notifyIfNotBusy(x))
         /\ notifyIfNotBusy(x).busy # x.busy => notifyIfNotBusy(x).posts > 0
<1>1. CASE x.busySources = {}
  <2> DEFINE u == [x EXCEPT !.busy = FALSE]
  <2>1. TrkRecord(u) /\ u.posts = x.posts /\ u.items = x.items /\ ~u.busy /\ u.posts \in Nat
    BY DEF TrkRecord
  <2> HIDE DEF u
  <2>2. TrkRecord(updated_p(u)) /\ updated_p(u).posts = u.posts + 1 /\ updated_p(u).items = u.items
        /\ ~updated_p(u).busy
    BY <2>1 DEF TrkRecord, updated_p
  <2>3. notifyIfNotBusy(x) = updated_p(u)
    BY <1>1 DEF notifyIfNotBusy, u
  <2> QED
    BY <2>1, <2>2, <2>3 DEF Awaited
<1>2. CASE x.busySources # {}
  BY <1>2 DEF notifyIfNotBusy, Awaited, TrkRecord
<1> QED
  BY <1>1, <1>2

LEMMA updated_pFacts ==
  ASSUME NEW x, TrkRecord(x)
  PROVE  /\ TrkRecord(updated_p(x)) /\ updated_p(x).posts = x.posts + 1 /\ x.posts \in Nat
         /\ updated_p(x).items = x.items /\ updated_p(x).busy = x.busy
         /\ updated_p(x).busySources = x.busySources /\ updated_p(x).notify = x.notify
  BY DEF TrkRecord, updated_p

LEMMA startProvidersFacts ==
  ASSUME NEW x, TrkRecord(x), NEW S
  PROVE  LET y == startProviders(x, S)
         IN /\ TrkRecord(y) /\ y.posts = x.posts /\ y.items = x.items /\ y.busy = x.busy
            /\ y.notify = x.notify /\ x.busySources \subseteq y.busySources
  BY DEF TrkRecord, startProviders

LEMMA updateStoresFacts ==
  ASSUME NEW x, TrkRecord(x), NEW s, NEW has
  PROVE  LET y == updateStores(x, s, has)
         IN /\ TrkRecord(y) /\ y.posts = x.posts /\ y.busy = x.busy
            /\ y.notify = x.notify /\ y.busySources = x.busySources
  BY DEF TrkRecord, updateStores

LEMMA startTells ==
  ASSUME TrkRecord(trk), start \/ \E s \in Sources : startOne(s)
  PROVE  Tells(trk, trk')
<1>1. CASE start
  <2> DEFINE y == startProviders(trk, world.plugins)
  <2>1. TrkRecord(y) /\ y.posts = trk.posts /\ y.items = trk.items /\ y.busy = trk.busy
    BY startProvidersFacts
  <2>2. trk' = notifyIfNotBusy(y)
    BY <1>1 DEF start
  <2> HIDE DEF y
  <2> QED
    BY <2>1, <2>2, notifyFacts DEF Tells
<1>2. ASSUME NEW s \in Sources, startOne(s) PROVE Tells(trk, trk')
  <2> DEFINE y == startProviders(trk, {s})
  <2>1. /\ TrkRecord(y) /\ y.posts = trk.posts /\ y.items = trk.items /\ y.busy = trk.busy
        /\ y.notify = trk.notify /\ trk.busySources \subseteq y.busySources
    BY startProvidersFacts
  <2>2. trk' = y
    BY <1>2 DEF startOne
  <2> HIDE DEF y
  <2>3. trk.posts \in Nat
    BY DEF TrkRecord
  <2> QED
    BY <2>1, <2>2, <2>3 DEF Tells, Awaited
<1> QED
  BY <1>1, <1>2

LEMMA busyTells ==
  ASSUME TrkRecord(trk), NEW s \in Sources, NEW has \in BOOLEAN,
         ksl_busyStart(s) \/ ksl_busyEnd(s, has)
  PROVE  Tells(trk, trk')
<1>0. trk.posts \in Nat
  BY DEF TrkRecord
<1>1. CASE ksl_busyStart(s)
  <2> DEFINE y == [trk EXCEPT !.busySources = @ \cup {s}]
  <2>1. TrkRecord(y) /\ y.posts = trk.posts /\ y.busySources # {}
    BY DEF TrkRecord
  <2>2. trk' = updated_p(y)
    BY <1>1 DEF ksl_busyStart
  <2> HIDE DEF y
  <2> QED
    BY <1>0, <2>1, <2>2, updated_pFacts DEF Tells, Awaited
<1>2. CASE ksl_busyEnd(s, has)
  <2> DEFINE y == [trk EXCEPT !.busySources = @ \ {s}]
             x == updateStores(y, s, has)
             z == [x EXCEPT !.busy = FALSE]
  <2>1. TrkRecord(y) /\ y.posts = trk.posts /\ y.busy = trk.busy
    BY DEF TrkRecord
  <2>2. trk' = IF x.busySources = {} THEN updated_p(z)
               ELSE IF x.items # trk.items THEN updated_p(x) ELSE x
    BY <1>2 DEF ksl_busyEnd
  <2> HIDE DEF y
  <2>3. TrkRecord(x) /\ x.posts = trk.posts /\ x.busy = trk.busy
    BY <2>1, updateStoresFacts
  <2> HIDE DEF x
  <2>4. TrkRecord(z) /\ z.posts = trk.posts /\ ~z.busy
    BY <2>3 DEF TrkRecord
  <2> HIDE DEF z
  <2>5. CASE x.busySources = {}
    BY <1>0, <2>2, <2>4, <2>5, updated_pFacts DEF Tells, Awaited
  <2>6. CASE x.busySources # {} /\ x.items # trk.items
    BY <1>0, <2>2, <2>3, <2>6, updated_pFacts DEF Tells, Awaited
  <2>7. CASE x.busySources # {} /\ x.items = trk.items
    BY <1>0, <2>2, <2>3, <2>7 DEF Tells, Awaited
  <2> QED
    BY <2>5, <2>6, <2>7
<1> QED
  BY <1>1, <1>2

LEMMA updatedTells ==
  ASSUME TrkRecord(trk), NEW s \in Sources, NEW has \in BOOLEAN,
         ksl_updated(s, has) \/ ksl_storeUpdated(s)
  PROVE  Tells(trk, trk')
<1>0. trk.posts \in Nat /\ Tells(trk, trk)
  BY DEF TrkRecord, Tells
<1>1. CASE ksl_updated(s, has)
  <2> DEFINE x == updateStores(trk, s, has)
  <2>1. /\ TrkRecord(x) /\ x.posts = trk.posts /\ x.busy = trk.busy
        /\ x.notify = trk.notify /\ x.busySources = trk.busySources
    BY updateStoresFacts
  <2>2. trk' = IF x.items # trk.items THEN updated_p(x) ELSE x
    BY <1>1 DEF ksl_updated
  <2> HIDE DEF x
  <2> QED
    BY <1>0, <2>1, <2>2, updated_pFacts DEF Tells, Awaited
<1>2. CASE ksl_storeUpdated(s)
  <2>1. PICK I : trk' = trk \/ trk' = updated_p([trk EXCEPT !.items = I])
    BY <1>2 DEF ksl_storeUpdated
  <2> DEFINE x == [trk EXCEPT !.items = I]
  <2>2. /\ TrkRecord(x) /\ x.posts = trk.posts /\ x.busy = trk.busy
        /\ x.notify = trk.notify /\ x.busySources = trk.busySources
    BY DEF TrkRecord
  <2>3. trk' = trk \/ trk' = updated_p(x)
    BY <2>1
  <2> HIDE DEF x
  <2> QED
    BY <1>0, <2>2, <2>3, updated_pFacts DEF Tells, Awaited
<1> QED
  BY <1>1, <1>2

LEMMA QueuedNotifyTells ==
  ASSUME TrkRecord(trk), QueuedNotify
  PROVE  Tells(trk, trk')
<1> DEFINE y == [trk EXCEPT !.notify = FALSE]
<1>1. TrkRecord(y) /\ y.posts = trk.posts /\ y.items = trk.items /\ y.busy = trk.busy
  BY DEF TrkRecord
<1>2. trk' = notifyIfNotBusy(y)
  BY DEF QueuedNotify
<1> HIDE DEF y
<1> QED
  BY <1>1, <1>2, notifyFacts DEF Tells

KInv == SInv /\ CInv /\ WInv

LEMMA TellsKeeps ==
  ASSUME KInv, UNCHANGED <<st, calls, mgr>>, Tells(trk, trk')
  PROVE  KInv'
<1>1. SInv'
  BY RestKeeps DEF KInv, SInv, Fields, Tells
<1>2. trk.posts \in Nat /\ trk'.posts \in Nat
  BY DEF KInv, SInv, Fields, Tells, TrkRecord
<1>3. CInv'
  BY <1>2 DEF KInv, CInv, CopyOnItsWay, UpdateOnItsWay, Tells
<1>4. WInv'
  BY DEF KInv, WInv, Tells, Awaited
<1> QED
  BY <1>1, <1>3, <1>4 DEF KInv

LEMMA updated_lockedKeeps == KInv /\ updated_locked => KInv'
<1> SUFFICES ASSUME KInv, updated_locked PROVE KInv'
  OBVIOUS
<1>1. TrkRecord(trk) /\ MgrRecord(mgr) /\ trk.posts > 0 /\ trk.posts \in Nat
  BY DEF KInv, SInv, Fields, updated_locked, TrkRecord
<1>2. /\ TrkRecord(trk') /\ trk'.posts = trk.posts - 1 /\ trk'.busy = trk.busy /\ trk'.items = trk.items
      /\ trk'.notify = trk.notify /\ trk'.busySources = trk.busySources
  BY <1>1 DEF updated_locked, TrkRecord
<1>3. UNCHANGED <<st, calls>>
  BY DEF updated_locked
<1>4. CASE mgr.pc = "none"
  <2>1. mgr' = mgr
    BY <1>4 DEF updated_locked
  <2>2. SInv'
    BY <1>1, <1>2, <1>3, <2>1, RestKeeps DEF KInv
  <2> QED
    BY <1>4, <2>1, <2>2 DEF KInv, CInv, WInv, CopyOnItsWay
<1>5. CASE mgr.pc # "none" /\ ~(mgr.pc \in {"waiting", "woken"} /\ ~trk.busy)
  <2>1. mgr' = [mgr EXCEPT !.pending = TRUE]
    BY <1>5 DEF updated_locked, tracker_updated
  <2>2. MgrRecord(mgr') /\ mgr'.pc = mgr.pc /\ mgr'.pending
    BY <1>1, <2>1 DEF MgrRecord
  <2>3. SInv'
    BY <1>2, <1>3, <2>2, RestKeeps DEF KInv
  <2>4. CInv'
    BY <2>2 DEF CInv, CopyOnItsWay, UpdateOnItsWay
  <2>5. WInv'
    BY <1>2, <1>5, <2>2 DEF KInv, WInv
  <2> QED
    BY <2>3, <2>4, <2>5 DEF KInv
<1>6. CASE mgr.pc \in {"waiting", "woken"} /\ ~trk.busy
  <2> DEFINE told == [mgr EXCEPT !.pending = TRUE]
             U == HoldersOf(Gone(mgr.items, trk.items))
             L == ListersOf(Changed(mgr.items, trk.items))
  <2>1. MgrRecord(told) /\ told.pending
    BY <1>1 DEF MgrRecord
  <2>2. mgr' = [told EXCEPT !.pc = "woken", !.busy = FALSE, !.items = trk.items,
                            !.unaware = @ \cup U, !.stale = @ \cup L]
    BY <1>6 DEF updated_locked, tracker_updated
  <2> HIDE DEF told, U, L
  <2>5. MgrRecord(mgr') /\ mgr'.pc = "woken" /\ mgr'.pending
    BY <2>1, <2>2 DEF MgrRecord
  <2>6. SInv'
    BY <1>2, <1>3, <1>6, <2>5, RestKeeps DEF KInv
  <2> QED
    BY <2>5, <2>6 DEF KInv, CInv, WInv, CopyOnItsWay, UpdateOnItsWay
<1> QED
  BY <1>4, <1>5, <1>6

(* The application's thread: what changes of the manager alone *)
LEMMA ManagerKeeps ==
  ASSUME KInv, addTarget \/ sync \/ waitForBusyFinished \/ Woken \/ update
  PROVE  KInv'
<1>1. TrkRecord(trk) /\ MgrRecord(mgr) /\ UNCHANGED <<st, calls>>
  BY DEF KInv, SInv, Fields, addTarget, sync, waitForBusyFinished, Woken, update
<1>2. CASE addTarget
  <2>1. MgrRecord(mgr') /\ mgr'.pc = "connected" /\ UNCHANGED trk /\ st.owner = "started"
    BY <1>2 DEF addTarget, NoManager, MgrRecord
  <2>2. SInv'
    BY <1>1, <2>1 DEF KInv, SInv, Fields, StFields, CallFields, OwnerPlaces, Quiet, Calling, CallPlaces, OwnAnswer
  <2> QED
    BY <2>1, <2>2 DEF KInv, CInv, WInv, CopyOnItsWay
<1>3. CASE sync
  <2>1. /\ MgrRecord(mgr') /\ mgr'.pc = "idle" /\ mgr'.busy = trk.busy /\ mgr'.items = trk.items
        /\ UNCHANGED trk /\ mgr.pc = "connected"
    BY <1>1, <1>3 DEF sync, MgrRecord, TrkRecord
  <2>2. SInv'
    BY <1>1, <2>1, RestKeeps DEF KInv
  <2> QED
    BY <2>1, <2>2 DEF KInv, CInv, WInv, CopyOnItsWay
<1>4. CASE waitForBusyFinished
  <2>1. /\ MgrRecord(mgr') /\ mgr'.pc = (IF trk.busy THEN "waiting" ELSE "idle") /\ mgr'.busy = trk.busy
        /\ mgr'.items = mgr.items /\ mgr'.pending = mgr.pending /\ mgr.pc = "idle"
    BY <1>1, <1>4 DEF waitForBusyFinished, MgrRecord, TrkRecord
  <2>2. /\ TrkRecord(trk') /\ trk'.items = trk.items /\ trk'.busy = trk.busy /\ trk'.posts = trk.posts
        /\ trk.busy => trk'.notify
    BY <1>1, <1>4 DEF waitForBusyFinished, TrkRecord
  <2>3. SInv'
    BY <1>1, <2>1, <2>2, RestKeeps DEF KInv
  <2> QED
    BY <2>1, <2>2, <2>3 DEF KInv, CInv, WInv, CopyOnItsWay, UpdateOnItsWay
<1>5. CASE Woken
  <2>1. /\ MgrRecord(mgr') /\ mgr'.pc = "idle" /\ mgr'.busy = mgr.busy
        /\ mgr'.items = mgr.items /\ mgr'.pending = mgr.pending /\ UNCHANGED trk /\ mgr.pc = "woken"
    BY <1>1, <1>5 DEF Woken, MgrRecord
  <2>2. SInv'
    BY <1>1, <2>1, RestKeeps DEF KInv
  <2> QED
    BY <2>1, <2>2 DEF KInv, CInv, WInv, CopyOnItsWay, UpdateOnItsWay
<1>6. CASE update
  <2>1. /\ MgrRecord(mgr') /\ mgr'.pc = "updating" /\ mgr'.newbusy = trk.busy
        /\ UNCHANGED trk /\ mgr.pc = "idle"
    BY <1>1, <1>6 DEF update, MgrRecord, TrkRecord
  <2>2. SInv'
    BY <1>1, <2>1, RestKeeps DEF KInv
  <2> QED
    BY <2>1, <2>2 DEF KInv, CInv, WInv, CopyOnItsWay, UpdateOnItsWay
<1> QED
  BY <1>2, <1>3, <1>4, <1>5, <1>6

(* The steps that leave the two lists alone *)
LEMMA ListsStay ==
  ASSUME KInv, SInv', UNCHANGED trk,
         \/ mgr'.pc \in {"none", "connected"}
         \/ /\ mgr'.pc = mgr.pc /\ mgr'.items = mgr.items /\ mgr'.busy = mgr.busy
            /\ mgr'.pending = mgr.pending /\ mgr'.newbusy = mgr.newbusy
  PROVE  KInv'
  BY DEF KInv, CInv, WInv, CopyOnItsWay, UpdateOnItsWay

LEMMA newKeyStoreKeeps ==
  ASSUME KInv, NEW k, NEW i, newKeyStore(k, i)
  PROVE  KInv'
<1>1. /\ MgrRecord(mgr') /\ mgr'.pc = mgr.pc /\ mgr'.items = mgr.items /\ mgr'.busy = mgr.busy
      /\ mgr'.pending = mgr.pending /\ mgr'.newbusy = mgr.newbusy
  BY DEF newKeyStore, KInv, SInv, Fields, MgrRecord
<1>2. UNCHANGED <<st, calls, trk>>
  BY DEF newKeyStore
<1>3. SInv'
  BY <1>1, <1>2, RestKeeps DEF KInv, SInv, Fields
<1> QED
  BY <1>1, <1>2, <1>3, ListsStay

LEMMA deleteKeeps ==
  ASSUME KInv, NEW k \in KS, deleteKeyStore(k)
  PROVE  KInv'
<1>1. /\ mgr'.pc = mgr.pc /\ mgr'.items = mgr.items /\ mgr'.busy = mgr.busy
      /\ mgr'.pending = mgr.pending /\ mgr'.newbusy = mgr.newbusy
  BY DEF deleteKeyStore, KInv, SInv, Fields, MgrRecord
<1>2. UNCHANGED trk
  BY DEF deleteKeyStore
<1> QED
  BY <1>1, <1>2, deleteKeyStoreKeeps, ListsStay DEF KInv

LEMMA do_updateCopies == KInv /\ do_update => KInv'
<1> SUFFICES ASSUME KInv, do_update PROVE KInv'
  OBVIOUS
<1>1. /\ mgr'.pc = "idle" /\ mgr'.items = trk.items /\ mgr'.busy = mgr.newbusy
      /\ mgr'.pending = mgr.pending
  BY DEF do_update, KInv, SInv, Fields, MgrRecord
<1>2. UNCHANGED trk /\ mgr.pc = "updating"
  BY DEF do_update
<1>3. SInv'
  BY do_updateKeeps DEF KInv
<1> QED
  BY <1>1, <1>2, <1>3 DEF KInv, CInv, WInv, CopyOnItsWay, UpdateOnItsWay

------------------------------------------------------------------------------
LEMMA InitKInv == Init => KInv
<1> SUFFICES ASSUME Init PROVE KInv
  OBVIOUS
<1>1. \A c \in Callers : calls[c] = NoCall
  BY DEF Init, SyncInit
<1>2. CallFields /\ (\A c \in Callers : calls[c].pc = "idle")
  BY <1>1, NewCallFacts DEF Init, SyncInit, CallFields, NoCall
<1>3. StFields /\ TrkRecord(trk) /\ MgrRecord(mgr) /\ mgr.pc = "none"
  BY DEF Init, SyncInit, NewThread, NewTracker, NoManager, StFields, TrkRecord, MgrRecord
<1>4. OwnerPlaces
  BY DEF Init, SyncInit, NewThread, OwnerPlaces, Quiet
<1> QED
  BY <1>2, <1>3, <1>4 DEF KInv, SInv, Fields, CallPlaces, OwnAnswer, CInv, WInv, CopyOnItsWay

LEMMA WorldStays == Spec => [](world \in Worlds)
<1>1. Init => world \in Worlds
  BY DEF Init
<1>2. world \in Worlds /\ [Next]_vars => (world \in Worlds)'
  BY DEF Next, vars
<1> QED
  BY <1>1, <1>2, PTL DEF Spec

LEMMA NextKInv == world \in Worlds /\ KInv /\ [Next]_vars => KInv'
<1> SUFFICES ASSUME world \in Worlds, KInv, [Next]_vars PROVE KInv'
  OBVIOUS
<1>0. SInv /\ TrkRecord(trk) /\ MgrRecord(mgr) /\ (SInv' /\ UNCHANGED <<trk, mgr>> => KInv')
  BY ListsStay DEF KInv, SInv, Fields
<1>1. CASE ThreadStep
  BY <1>0, <1>1, agentStartedKeeps, ownerWokenKeeps, lockCallKeeps, endCallKeeps DEF ThreadStep
<1>2. CASE QueuedNotify
  BY <1>0, <1>2, QueuedNotifyTells, TellsKeeps DEF QueuedNotify
<1>3. CASE updated_locked
  BY <1>3, updated_lockedKeeps
<1>4. CASE CallSlot
  BY <1>0, <1>4, CallSlotKeeps DEF CallSlot
<1>5. CASE ThreadEnds
  <2>1. mgr'.pc = "none"
    BY <1>0, <1>5, endThreadFacts DEF ThreadEnds
  <2> QED
    BY <1>0, <1>5, <2>1, ThreadEndsKeeps DEF KInv, CInv, WInv, CopyOnItsWay
<1>6. CASE ManagerStep
  BY <1>6, ManagerKeeps, do_updateCopies DEF ManagerStep
<1>7. CASE ObjectStep
  <2>1. UNCHANGED <<trk, mgr>>
    BY <1>7 DEF ObjectStep, op_finished, write_finished
  <2> QED
    BY <1>0, <1>7, <2>1, op_finishedKeeps DEF ObjectStep
<1>8. CASE SourceStep
  <2>1. UNCHANGED <<st, calls, mgr>>
    BY <1>8 DEF SourceStep, ksl_busyStart, ksl_storeUpdated, Edit, ksl_busyEnd, ksl_updated
  <2>2. PICK s \in Sources, has \in BOOLEAN :
           \/ ksl_busyStart(s) \/ ksl_busyEnd(s, has)
           \/ ksl_updated(s, has) \/ ksl_storeUpdated(s)
           \/ Edit(s)
    BY <1>8 DEF SourceStep
  <2>3. CASE Edit(s)
    <3>1. UNCHANGED trk /\ Tells(trk, trk)
      BY <1>0, <2>3 DEF Edit, Tells, TrkRecord
    <3> QED
      BY <2>1, <3>1, TellsKeeps
  <2> QED
    BY <1>0, <2>1, <2>2, <2>3, busyTells, updatedTells, TellsKeeps
<1>9. CASE UserStep
  <2>1. CASE ensure_init \/ shutdown
    <3>1. UNCHANGED <<trk, mgr>>
      BY <2>1 DEF ensure_init, shutdown
    <3> QED
      BY <1>0, <2>1, <3>1, ensure_initKeeps, shutdownKeeps
  <2>2. CASE start \/ \E s \in Sources : startOne(s)
    <3>1. UNCHANGED <<st, calls, mgr>>
      BY <2>2 DEF start, startOne
    <3> QED
      BY <1>0, <2>2, <3>1, startTells, TellsKeeps
  <2>3. CASE addTarget \/ waitForBusyFinished
    BY <2>3, ManagerKeeps
  <2>4. CASE removeTarget
    <3>1. UNCHANGED trk /\ mgr'.pc = "none"
      BY <2>4 DEF removeTarget, NoManager
    <3> QED
      BY <1>0, <2>4, <3>1, removeTargetKeeps, ListsStay
  <2>5. ASSUME NEW k \in world.objects, NEW i \in mgr.items, newKeyStore(k, i) PROVE KInv'
    BY <2>5, newKeyStoreKeeps
  <2>6. world.objects \subseteq KS /\ world.writers \subseteq KS
    BY KeyStoreAssumption
  <2>7. ASSUME NEW k \in world.objects, deleteKeyStore(k) PROVE KInv'
    BY <2>6, <2>7, deleteKeeps
  <2>8. ASSUME NEW k \in KS, startAsynchronousMode(k) \/ async_writeEntry(k) PROVE KInv'
    <3>1. mgr.pc = "idle" /\ UNCHANGED <<trk, mgr>>
      BY <2>8 DEF startAsynchronousMode, async_writeEntry
    <3>2. ListOp(k) \in Callers /\ <<k, "write">> \in Callers
      BY KeyStoreAssumption DEF ListOp
    <3>3. \/ beginCall(ListOp(k), ks[k].trackerId)
          \/ beginCall(<<k, "write">>, ks[k].trackerId)
      BY <2>8 DEF startAsynchronousMode, async_writeEntry
    <3> QED
      BY <1>0, <3>1, <3>2, <3>3, beginCallKeeps
  <2> QED
    BY <1>9, <2>1, <2>2, <2>3, <2>4, <2>5, <2>6, <2>7, <2>8 DEF UserStep
<1>10. CASE UNCHANGED vars
  BY <1>0, <1>10, RestKeeps DEF vars
<1> QED
  BY <1>1, <1>2, <1>3, <1>4, <1>5, <1>6, <1>7, <1>8, <1>9, <1>10 DEF Next, TrackerStep

LEMMA InvariantKInv == Spec => []KInv
  BY InitKInv, NextKInv, WorldStays, PTL DEF Spec

------------------------------------------------------------------------------
(* Whoever calls a slot of the tracker through trackercall() gets what its *)
(* own slot returned, although owner and callers share one wait condition  *)
(* and w.wakeOne() may wake any of them.                                   *)
THEOREM CallersGetTheirAnswers == Spec => []OwnAnswer
<1>1. KInv => OwnAnswer
  BY DEF KInv, SInv
<1> QED
  BY <1>1, InvariantKInv, PTL

(* Whoever sleeps in SyncThread::call() has its slot posted to the thread. *)
THEOREM CallsAreOnTheirWay == Spec => []CallOnItsWay
<1>1. KInv => CallOnItsWay
  <2> SUFFICES ASSUME KInv, NEW c \in st.waiters, c # Owner
               PROVE  \E n \in DOMAIN st.posted : st.posted[n] = c
    BY DEF CallOnItsWay
  <2>1. st.posted = <<c>>
    BY DEF KInv, SInv, OwnerPlaces, Quiet, Calling
  <2> QED
    BY <2>1
<1> QED
  BY <1>1, InvariantKInv, PTL

(* A manager's copy of the list of stores that is out of date is about to  *)
(* be updated: updated_p(), the single pending update() and do_update()    *)
(* between its two reads lose no change of the tracker's list.             *)
THEOREM CopiesAreOnTheirWay == Spec => []CopyOnItsWay
<1>1. KInv => CopyOnItsWay
  BY DEF KInv, CInv
<1> QED
  BY <1>1, InvariantKInv, PTL

(* Whoever sleeps in waitForBusyFinished() will hear of the end: a source  *)
(* is still busy, notifyIfNotBusy() is queued, or an update is posted.     *)
THEOREM WakesAreOnTheirWay == Spec => []WakeOnItsWay
<1>1. KInv => WakeOnItsWay
  BY DEF KInv, WInv, WakeOnItsWay
<1> QED
  BY <1>1, InvariantKInv, PTL


------------------------------------------------------------------------------
(* The lists and the KeyStore objects                                      *)

(* The ids of the tracker's items are its own and were given out *)
ItemsOK(x) ==
    /\ x.items \subseteq Items /\ x.tracker_id_at \in Nat /\ x.tracker_id_at > 0
    /\ \A i \in x.items : i.id > 0 /\ i.id < x.tracker_id_at
    /\ \A i, j \in x.items : i.id = j.id => i = j

(* c is the tracker's list, or an earlier one *)
CopyOf(c, x) ==
    /\ c \subseteq Items
    /\ \A y \in c : y.id > 0 /\ y.id < x.tracker_id_at
    /\ \A y \in c : \A i \in x.items : i.id = y.id => y.updateCount <= i.updateCount

ObjRecord(o) ==
    o \in [on : BOOLEAN, trackerId : Nat, async : BOOLEAN, need_update : BOOLEAN,
           latest : {o.latest}]

ObjFields(o) == o = [k \in KS |-> o[k]] /\ \A k \in KS : ObjRecord(o[k])

ProvRecord(p) == p \in [has : BOOLEAN, version : {p.version}, changed : BOOLEAN]

ProvFields(p) == p = [s \in Sources |-> p[s]] /\ \A s \in Sources : ProvRecord(p[s])

(* An object belongs to a manager that has its copy *)
NoneOn(m, o) == m.pc \in {"none", "connected"} => m.items = {} /\ \A k \in KS : ~o[k].on

(* The objects with a store are registered *)
Registered(r, o) == r \in Seq(KS) /\ ToSet(r) = {k \in KS : o[k].on /\ o[k].trackerId # 0}

Findable(m, k, o) == o.on /\ o.trackerId # 0 /\ k \notin m.unaware

(* an object that was told of every change *)
Current(m, k, o) == Findable(m, k, o) /\ k \notin m.stale

(* The store of an object that can be found is in the manager's copy *)
InCopy(m, o) == \A k \in KS : Findable(m, k, o[k]) => o[k].trackerId \in IdsOf(m.items)

LInv ==
    /\ ItemsOK(trk) /\ CopyOf(mgr.items, trk) /\ ObjFields(ks) /\ ProvFields(prov)
    /\ NoneOn(mgr, ks) /\ Registered(mgr.reg, ks) /\ InCopy(mgr, ks)

(* The list was asked for and the slot has not run; it has, and gave v *)
Asked(k) ==
    /\ \/ calls[ListOp(k)].pc = "wanted"
       \/ calls[ListOp(k)].pc = "waiting" /\ ListOp(k) \in st.waiters
    /\ calls[ListOp(k)].arg = ks[k].trackerId

Answered(k, v) ==
    \/ calls[ListOp(k)].pc = "waiting" /\ ListOp(k) \notin st.waiters /\ st.last_ret[2] = v
    \/ calls[ListOp(k)].pc = "done" /\ calls[ListOp(k)].ret[2] = v

(* The object k, whose store is i, has the present entries or will ask for *)
(* them                                                                    *)
FreshOrComing(k, i) ==
    \/ prov[i.src].changed
    \/ \E x \in mgr.items : x.id = i.id /\ x.updateCount < i.updateCount
    \/ have_entryList_op(k) /\ ks[k].need_update
    \/ Asked(k) \/ Answered(k, prov[i.src].version)
    \/ ~have_entryList_op(k) /\ ks[k].latest = prov[i.src].version

FInv ==
    \A k \in KS : \A i \in trk.items :
        Current(mgr, k, ks[k]) /\ ks[k].async /\ ks[k].trackerId = i.id => FreshOrComing(k, i)


LEMMA ItemFacts ==
  \A i \in Items : i.src \in Sources /\ i.id \in Nat /\ i.updateCount \in Nat
  BY DEF Items

(* unreg() takes out S and nothing else *)
LEMMA unregFacts ==
  ASSUME NEW m, m.reg \in Seq(KS), NEW o, NEW S
  PROVE  unreg(m, o, S) \in Seq(KS) /\ ToSet(unreg(m, o, S)) = ToSet(m.reg) \ S
<1> DEFINE ids == {o[k].trackerId : k \in S}
           left == Keep(m.reg, KS \ S)
           again == {k \in KS : o[k].trackerId \in ids}
           u == Keep(left, again)
           v == Keep(left, KS \ again)
<1>0. unreg(m, o, S) = Reverse(u) \o v
  BY DEF unreg
<1>1. again \subseteq KS
  OBVIOUS
<1> HIDE DEF ids, again
<1>2. left \in Seq(KS) /\ ToSet(left) = ToSet(m.reg) \cap (KS \ S)
  BY KeepElements
<1> HIDE DEF left
<1>3. u \in Seq(KS) /\ ToSet(u) = ToSet(left) \cap again
  BY <1>2, KeepElements
<1>4. v \in Seq(KS) /\ ToSet(v) = ToSet(left) \cap (KS \ again)
  BY <1>2, KeepElements
<1> HIDE DEF u, v
<1>5. Reverse(u) \in Seq(KS) /\ ToSet(Reverse(u)) = ToSet(u)
  BY <1>3, ReverseElements
<1>6. Reverse(u) \o v \in Seq(KS) /\ ToSet(Reverse(u) \o v) = ToSet(u) \cup ToSet(v)
  BY <1>4, <1>5, ConcatElements
<1>7. ToSet(m.reg) \subseteq KS
  BY DEF ToSet
<1> QED BY <1>0, <1>2, <1>3, <1>4, <1>6, <1>7

(* value() gives an object that is registered for the id, if there is one *)
LEMMA ValueForFacts ==
  ASSUME NEW m, m.reg \in Seq(KS), NEW o, NEW id
  PROVE  /\ \A k \in ValueFor(m, o, id) : k \in KS /\ k \in ToSet(m.reg) /\ o[k].trackerId = id
         /\ \A k \in ToSet(m.reg) : o[k].trackerId = id => ValueFor(m, o, id) # {}
<1> DEFINE mine == {k \in KS : o[k].trackerId = id}
           found == Keep(m.reg, mine)
<1>0. ValueFor(m, o, id) = IF found = <<>> THEN {} ELSE {Head(found)}
  BY DEF ValueFor
<1>1. \A k : k \in mine <=> k \in KS /\ o[k].trackerId = id
  OBVIOUS
<1>2. ToSet(m.reg) \subseteq KS
  BY DEF ToSet
<1> HIDE DEF mine
<1>3. found \in Seq(KS) /\ ToSet(found) = ToSet(m.reg) \cap mine
  BY KeepElements
<1> HIDE DEF found
<1>4. found # <<>> => Head(found) \in ToSet(found)
  BY <1>3, TailElements
<1>5. found = <<>> => ToSet(found) = {}
  BY DEF ToSet
<1>6. ASSUME NEW k \in ValueFor(m, o, id) PROVE k \in KS /\ k \in ToSet(m.reg) /\ o[k].trackerId = id
  BY <1>0, <1>1, <1>3, <1>4, <1>6
<1>7. ASSUME NEW k \in ToSet(m.reg), o[k].trackerId = id PROVE ValueFor(m, o, id) # {}
  BY <1>0, <1>1, <1>2, <1>3, <1>5, <1>7
<1> QED BY <1>6, <1>7

------------------------------------------------------------------------------
(* The tracker's list                                                      *)

SameItems(x, y) == y.items = x.items /\ y.tracker_id_at = x.tracker_id_at

LEMMA SameItemsKeeps ==
  ASSUME NEW x, NEW y, NEW c, SameItems(x, y), ItemsOK(x), CopyOf(c, x)
  PROVE  ItemsOK(y) /\ CopyOf(c, y)
  BY DEF SameItems, ItemsOK, CopyOf

LEMMA updated_pSame ==
  ASSUME NEW x, TrkRecord(x)
  PROVE  SameItems(x, updated_p(x))
  BY DEF TrkRecord, updated_p, SameItems

LEMMA notifySame ==
  ASSUME NEW x, TrkRecord(x)
  PROVE  SameItems(x, notifyIfNotBusy(x))
<1> DEFINE y == [x EXCEPT !.busy = FALSE]
<1>1. TrkRecord(y) /\ SameItems(x, y)
  BY DEF TrkRecord, SameItems
<1>2. notifyIfNotBusy(x) = IF x.busySources = {} THEN updated_p(y) ELSE x
  BY DEF notifyIfNotBusy
<1> HIDE DEF y
<1> QED BY <1>1, <1>2, updated_pSame DEF SameItems

(* A copy of the tracker's list is one *)
LEMMA CopyItself ==
  ASSUME NEW x, ItemsOK(x)
  PROVE  CopyOf(x.items, x)
<1>1. ASSUME NEW y \in x.items, NEW i \in x.items, i.id = y.id PROVE y.updateCount <= i.updateCount
  <2>1. y = i /\ y \in Items
    BY <1>1 DEF ItemsOK
  <2>2. y.updateCount \in Nat
    BY <2>1, ItemFacts
  <2> QED BY <2>1, <2>2
<1> QED BY <1>1 DEF ItemsOK, CopyOf

(* What updateStores() does to a list: items of s leave it, or one enters  *)
(* with an id that no copy has                                             *)
LEMMA updateStoresItems ==
  ASSUME NEW x, TrkRecord(x), ItemsOK(x), NEW c, CopyOf(c, x), NEW s \in Sources, NEW has \in BOOLEAN,
         NEW y, y = updateStores(x, s, has)
  PROVE  /\ TrkRecord(y) /\ ItemsOK(y) /\ CopyOf(c, y)
         /\ \A i \in y.items : i \in x.items \/ i.id \notin IdsOf(c)
         /\ ~has => \A i \in y.items : i.src # s
<1> DEFINE mine == {i \in x.items : i.src = s}
           new == [src |-> s, id |-> x.tracker_id_at, updateCount |-> 0]
<1>0. x.tracker_id_at \in Nat /\ x.tracker_id_at > 0 /\ x.items \subseteq Items
  BY DEF ItemsOK
<1>1. CASE ~has
  <2>1. y = [x EXCEPT !.items = @ \ mine]
    BY <1>1 DEF updateStores
  <2>2. TrkRecord(y) /\ y.items = x.items \ mine /\ y.tracker_id_at = x.tracker_id_at
    BY <2>1 DEF TrkRecord
  <2>3. \A i \in y.items : i \in x.items /\ i.src # s
    BY <2>2
  <2> HIDE DEF mine
  <2>4. ItemsOK(y)
    BY <2>2, <2>3 DEF ItemsOK
  <2>5. CopyOf(c, y)
    BY <2>2, <2>3 DEF CopyOf
  <2> QED BY <2>2, <2>3, <2>4, <2>5
<1>2. CASE has /\ mine = {}
  <2>1. y = [x EXCEPT !.items = @ \cup {new}, !.tracker_id_at = @ + 1]
    BY <1>2 DEF updateStores
  <2>2. TrkRecord(y) /\ y.items = x.items \cup {new} /\ y.tracker_id_at = x.tracker_id_at + 1
    BY <2>1 DEF TrkRecord
  <2>3. new \in Items /\ new.id = x.tracker_id_at
    BY <1>0 DEF Items
  <2> HIDE DEF mine, new
  <2>4. ASSUME NEW i, i \in Items, i.id > 0, i.id < x.tracker_id_at
        PROVE  i.id # new.id /\ i.id < y.tracker_id_at
    <3>1. i.id \in Nat
      BY <2>4, ItemFacts
    <3> QED BY <1>0, <2>2, <2>3, <2>4, <3>1
  <2>5. \A i \in x.items : i.id # new.id /\ i.id > 0 /\ i.id < y.tracker_id_at
    BY <2>4 DEF ItemsOK
  <2>6. new.id > 0 /\ new.id < y.tracker_id_at /\ y.tracker_id_at \in Nat /\ y.tracker_id_at > 0
    BY <1>0, <2>2, <2>3
  <2>7. ItemsOK(y)
    <3>1. \A i \in y.items : i.id > 0 /\ i.id < y.tracker_id_at
      BY <2>2, <2>5, <2>6
    <3>2. \A i, j \in y.items : i.id = j.id => i = j
      BY <2>2, <2>5, Zenon DEF ItemsOK
    <3> QED BY <1>0, <2>2, <2>3, <2>6, <3>1, <3>2 DEF ItemsOK
  <2>8. \A z \in c : z.id # new.id /\ z.id > 0 /\ z.id < y.tracker_id_at
    BY <2>4 DEF CopyOf
  <2>9. CopyOf(c, y)
    BY <2>2, <2>8 DEF CopyOf
  <2>10. \A i \in y.items : i \in x.items \/ i.id \notin IdsOf(c)
    BY <2>2, <2>8 DEF IdsOf
  <2> QED BY <1>2, <2>2, <2>7, <2>9, <2>10
<1>3. CASE has /\ mine # {}
  <2>1. y = x
    BY <1>3 DEF updateStores
  <2> QED BY <1>3, <2>1
<1> QED BY <1>1, <1>2, <1>3


(* What ksl_storeUpdated() does to a list: the items of s, and only they,  *)
(* are counted up                                                          *)
Counted(T, s) == {IF i.src = s THEN [i EXCEPT !.updateCount = @ + 1] ELSE i : i \in T}

LEMMA CountedItems ==
  ASSUME NEW x, ItemsOK(x), NEW c, CopyOf(c, x), NEW s, NEW y,
         y.items = Counted(x.items, s), y.tracker_id_at = x.tracker_id_at
  PROVE  /\ ItemsOK(y) /\ CopyOf(c, y)
         /\ \A i \in y.items : \/ i \in x.items /\ i.src # s
                               \/ i.id \in IdsOf(c) => \E z \in c : z.id = i.id /\ z.updateCount < i.updateCount
<1> DEFINE f(i) == IF i.src = s THEN [i EXCEPT !.updateCount = @ + 1] ELSE i
<1>1. \A i \in Items : /\ f(i) \in Items /\ f(i).id = i.id /\ f(i).src = i.src
                       /\ i.updateCount <= f(i).updateCount
                       /\ i.src = s => i.updateCount < f(i).updateCount
                       /\ i.src # s => f(i) = i
  BY DEF Items
<1>2. y.items = {f(i) : i \in x.items} /\ x.items \subseteq Items /\ c \subseteq Items
  BY DEF Counted, ItemsOK, CopyOf
<1> HIDE DEF f
<1>3. \A i \in y.items : \E j \in x.items : i = f(j)
  BY <1>2
<1>4. ItemsOK(y)
  <2>1. \A i \in y.items : i \in Items /\ i.id > 0 /\ i.id < y.tracker_id_at
    <3> SUFFICES ASSUME NEW i \in y.items PROVE i \in Items /\ i.id > 0 /\ i.id < y.tracker_id_at
      OBVIOUS
    <3>1. PICK j \in x.items : i = f(j)
      BY <1>3
    <3>2. j \in Items /\ j.id > 0 /\ j.id < y.tracker_id_at
      BY DEF ItemsOK
    <3> QED BY <1>1, <3>1, <3>2
  <2>2. ASSUME NEW i \in y.items, NEW j \in y.items, i.id = j.id PROVE i = j
    <3>1. PICK a \in x.items : i = f(a)
      BY <1>3
    <3>2. PICK b \in x.items : j = f(b)
      BY <1>3
    <3>3. a.id = b.id
      BY <1>1, <1>2, <2>2, <3>1, <3>2
    <3>4. a = b
      BY <3>3 DEF ItemsOK
    <3> QED BY <3>1, <3>2, <3>4
  <2> QED BY <2>1, <2>2 DEF ItemsOK
<1>5. ASSUME NEW z \in c, NEW i \in y.items, i.id = z.id
      PROVE  /\ z.updateCount <= i.updateCount
             /\ i.src = s => z.updateCount < i.updateCount
  <2>1. PICK j \in x.items : i = f(j)
    BY <1>3
  <2>2. j \in Items /\ z \in Items /\ i \in Items
    BY <1>1, <1>2, <2>1
  <2>3. z.updateCount <= j.updateCount
    BY <1>1, <1>5, <2>1, <2>2 DEF CopyOf
  <2>4. j.updateCount <= i.updateCount /\ (i.src = s => j.updateCount < i.updateCount)
    BY <1>1, <2>1, <2>2
  <2>5. z.updateCount \in Nat /\ j.updateCount \in Nat /\ i.updateCount \in Nat
    BY <2>2, ItemFacts
  <2> QED BY <2>3, <2>4, <2>5
<1>6. CopyOf(c, y)
  BY <1>5 DEF CopyOf
<1>7. ASSUME NEW i \in y.items
      PROVE  \/ i \in x.items /\ i.src # s
             \/ i.id \in IdsOf(c) => \E z \in c : z.id = i.id /\ z.updateCount < i.updateCount
  <2>1. PICK j \in x.items : i = f(j)
    BY <1>3
  <2>2. CASE i.src # s
    <3>1. j \in Items /\ j.src # s
      BY <1>1, <1>2, <2>1, <2>2
    <3>2. i = j
      BY <1>1, <2>1, <3>1
    <3> QED BY <2>2, <3>2
  <2>3. CASE i.src = s
    BY <1>5, <2>3 DEF IdsOf
  <2> QED BY <2>2, <2>3
<1> QED BY <1>4, <1>6, <1>7

(* A step of the tracker or its sources: the news of a store is to be      *)
(* heard of, or there is none                                              *)
LEMMA TrackerKeeps ==
  ASSUME LInv, FInv, UNCHANGED <<st, calls, mgr, ks>>,
         ItemsOK(trk'), CopyOf(mgr.items, trk'), ProvFields(prov'),
         \A i \in trk'.items : i.id \in IdsOf(mgr.items) =>
            \/ prov'[i.src].changed
            \/ \E x \in mgr.items : x.id = i.id /\ x.updateCount < i.updateCount
            \/ /\ i \in trk.items /\ prov'[i.src].version = prov[i.src].version
               /\ prov[i.src].changed => prov'[i.src].changed
  PROVE  LInv' /\ FInv'
<1>1. LInv'
  BY DEF LInv, NoneOn, Registered, InCopy, Findable, ObjFields
<1>2. FInv'
  <2> SUFFICES ASSUME NEW k \in KS, NEW i \in trk'.items,
                      Current(mgr, k, ks[k]), ks[k].async, ks[k].trackerId = i.id
               PROVE  FreshOrComing(k, i)'
    BY DEF FInv
  <2>1. i.id \in IdsOf(mgr.items)
    BY DEF LInv, InCopy, Current
  <2>2. CASE prov'[i.src].changed
    BY <2>2 DEF FreshOrComing
  <2>3. CASE \E x \in mgr.items : x.id = i.id /\ x.updateCount < i.updateCount
    BY <2>3 DEF FreshOrComing
  <2>4. CASE /\ i \in trk.items /\ prov'[i.src].version = prov[i.src].version
             /\ prov[i.src].changed => prov'[i.src].changed
    <3>1. FreshOrComing(k, i)
      BY <2>4 DEF FInv
    <3> QED BY <2>4, <3>1 DEF FreshOrComing, Asked, Answered, have_entryList_op
  <2> QED BY <2>1, <2>2, <2>3, <2>4
<1> QED BY <1>1, <1>2

(* A step that changes neither the list nor the sources *)
LEMMA SameTrackerKeeps ==
  ASSUME LInv, FInv, UNCHANGED <<st, calls, prov, mgr, ks>>, SameItems(trk, trk')
  PROVE  LInv' /\ FInv'
<1>1. ItemsOK(trk') /\ CopyOf(mgr.items, trk') /\ ProvFields(prov')
  BY SameItemsKeeps DEF LInv
<1>2. trk'.items = trk.items
  BY DEF SameItems
<1> QED BY <1>1, <1>2, TrackerKeeps


LEMMA startListKeeps ==
  ASSUME TrkRecord(trk), LInv, FInv, start \/ (\E s \in Sources : startOne(s)) \/ QueuedNotify
  PROVE  LInv' /\ FInv'
<1>1. \E y : TrkRecord(y) /\ SameItems(trk, y) /\ (trk' = y \/ trk' = notifyIfNotBusy(y))
  <2>1. ASSUME NEW S PROVE TrkRecord(startProviders(trk, S)) /\ SameItems(trk, startProviders(trk, S))
    BY DEF TrkRecord, startProviders, SameItems
  <2>2. TrkRecord([trk EXCEPT !.notify = FALSE]) /\ SameItems(trk, [trk EXCEPT !.notify = FALSE])
    BY DEF TrkRecord, SameItems
  <2> QED BY <2>1, <2>2 DEF start, startOne, QueuedNotify
<1>2. PICK y : TrkRecord(y) /\ SameItems(trk, y) /\ (trk' = y \/ trk' = notifyIfNotBusy(y))
  BY <1>1
<1>3. SameItems(y, notifyIfNotBusy(y))
  BY <1>2, notifySame
<1>4. SameItems(trk, trk')
  BY <1>2, <1>3 DEF SameItems
<1>5. UNCHANGED <<st, calls, prov, mgr, ks>>
  BY DEF start, startOne, QueuedNotify
<1> QED BY <1>4, <1>5, SameTrackerKeeps

LEMMA busyStartListKeeps ==
  ASSUME TrkRecord(trk), LInv, FInv, NEW s, ksl_busyStart(s)
  PROVE  LInv' /\ FInv'
<1> DEFINE y == [trk EXCEPT !.busySources = @ \cup {s}]
<1>1. TrkRecord(y) /\ SameItems(trk, y)
  BY DEF TrkRecord, SameItems
<1>2. trk' = updated_p(y) /\ UNCHANGED <<st, calls, prov, mgr, ks>>
  BY DEF ksl_busyStart
<1> HIDE DEF y
<1>3. SameItems(y, updated_p(y))
  BY <1>1, updated_pSame
<1>4. SameItems(trk, trk')
  BY <1>1, <1>2, <1>3 DEF SameItems
<1> QED BY <1>2, <1>4, SameTrackerKeeps

(* A source finds its store or loses it *)
LEMMA StoresKeep ==
  ASSUME TrkRecord(trk), LInv, FInv, NEW s \in Sources, NEW has \in BOOLEAN, UNCHANGED <<st, calls, mgr, ks>>,
         ListChanges(s, has),
         NEW y, TrkRecord(y), SameItems(trk, y), SameItems(updateStores(y, s, has), trk')
  PROVE  LInv' /\ FInv'
<1> DEFINE x == updateStores(y, s, has)
           c == mgr.items
<1>1. ItemsOK(y) /\ CopyOf(c, y)
  BY SameItemsKeeps DEF LInv
<1>2. /\ TrkRecord(x) /\ ItemsOK(x) /\ CopyOf(c, x)
      /\ \A i \in x.items : i \in y.items \/ i.id \notin IdsOf(c)
      /\ ~has => \A i \in x.items : i.src # s
  BY <1>1, updateStoresItems
<1>3. SameItems(x, trk')
  OBVIOUS
<1> HIDE DEF x
<1>4. ItemsOK(trk') /\ CopyOf(c, trk')
  BY <1>2, <1>3, SameItemsKeeps
<1>5. \A i \in trk'.items : i.id \in IdsOf(c) => i \in trk.items /\ i.src \in Sources /\ (i.src = s => has)
  <2>1. \A i \in trk.items : i.src \in Sources
    BY ItemFacts DEF LInv, ItemsOK
  <2> QED BY <1>2, <1>3, <2>1 DEF SameItems
<1>6. /\ prov' = [prov EXCEPT ![s].has = has, ![s].changed = @ /\ has]
      /\ prov = [r \in Sources |-> prov[r]] /\ \A r \in Sources : ProvRecord(prov[r])
  BY DEF ListChanges, LInv, ProvFields
<1>7. prov' = [r \in Sources |-> IF r = s THEN [has |-> has, version |-> prov[s].version, changed |-> prov[s].changed /\ has]
                                 ELSE prov[r]]
  <2> DEFINE p == [prov EXCEPT ![s].has = has]
             b == prov[s].changed /\ has
  <2>1. /\ p = [r \in Sources |-> IF r = s THEN [has |-> has, version |-> prov[s].version, changed |-> prov[s].changed]
                                  ELSE prov[r]]
    BY <1>6 DEF ProvRecord
  <2>2. prov' = [p EXCEPT ![s].changed = @ /\ has]
    BY <1>6
  <2> HIDE DEF p
  <2>3. p[s].changed = prov[s].changed
    BY <2>1
  <2>4. prov' = [p EXCEPT ![s].changed = b]
    BY <2>2, <2>3, Zenon
  <2> HIDE DEF b
  <2>5. prov' = [r \in Sources |-> IF r = s THEN [has |-> has, version |-> prov[s].version, changed |-> b]
                                  ELSE prov[r]]
    BY <2>1, <2>4
  <2> QED BY <2>5 DEF b
<1>8. prov[s].changed \in BOOLEAN
  BY <1>6 DEF ProvRecord
<1>9. ASSUME NEW r \in Sources PROVE /\ ProvRecord(prov'[r]) /\ prov'[r].version = prov[r].version
                                     /\ r # s \/ has => prov'[r].changed = prov[r].changed
  <2>1. CASE r = s
    <3>1. prov'[r] = [has |-> has, version |-> prov[s].version, changed |-> prov[s].changed /\ has]
      BY <1>7, <2>1
    <3> QED BY <1>8, <2>1, <3>1 DEF ProvRecord
  <2>2. CASE r # s
    <3>1. prov'[r] = prov[r]
      BY <1>7, <2>2
    <3> QED BY <1>6, <3>1
  <2> QED BY <2>1, <2>2
<1>10. ProvFields(prov')
  BY <1>7, <1>9 DEF ProvFields
<1>11. \A i \in trk'.items : i.id \in IdsOf(c) =>
            /\ i \in trk.items /\ prov'[i.src].version = prov[i.src].version
            /\ prov[i.src].changed => prov'[i.src].changed
  BY <1>5, <1>9
<1> HIDE DEF c
<1> QED BY <1>4, <1>10, <1>11, TrackerKeeps DEF c

LEMMA busyEndListKeeps ==
  ASSUME TrkRecord(trk), LInv, FInv, NEW s \in Sources, NEW has \in BOOLEAN,
         ksl_busyEnd(s, has) \/ ksl_updated(s, has)
  PROVE  LInv' /\ FInv'
<1>0. UNCHANGED <<st, calls, mgr, ks>> /\ ListChanges(s, has)
  BY DEF ksl_busyEnd, ksl_updated
<1>1. CASE ksl_busyEnd(s, has)
  <2> DEFINE y == [trk EXCEPT !.busySources = @ \ {s}]
             x == updateStores(y, s, has)
             z == [x EXCEPT !.busy = FALSE]
  <2>1. TrkRecord(y) /\ SameItems(trk, y)
    BY DEF TrkRecord, SameItems
  <2>2. trk' = updated_p(z) \/ trk' = updated_p(x) \/ trk' = x
    BY <1>1 DEF ksl_busyEnd
  <2> HIDE DEF y
  <2>3. TrkRecord(x)
    BY <2>1, updateStoresFacts
  <2> HIDE DEF x
  <2>4. TrkRecord(z) /\ SameItems(x, z)
    BY <2>3 DEF TrkRecord, SameItems
  <2> HIDE DEF z
  <2>5. SameItems(z, updated_p(z)) /\ SameItems(x, updated_p(x))
    BY <2>3, <2>4, updated_pSame
  <2>6. SameItems(x, trk')
    BY <2>2, <2>4, <2>5 DEF SameItems
  <2> QED BY <1>0, <2>1, <2>6, StoresKeep DEF x
<1>2. CASE ksl_updated(s, has)
  <2> DEFINE x == updateStores(trk, s, has)
  <2>1. trk' = updated_p(x) \/ trk' = x
    BY <1>2 DEF ksl_updated
  <2>2. TrkRecord(x)
    BY updateStoresFacts
  <2> HIDE DEF x
  <2>3. SameItems(x, updated_p(x)) /\ SameItems(trk, trk)
    BY <2>2, updated_pSame DEF SameItems
  <2>4. SameItems(x, trk')
    BY <2>1, <2>3 DEF SameItems
  <2> QED BY <1>0, <2>3, <2>4, StoresKeep DEF x
<1> QED BY <1>1, <1>2

(* The content of a store changes, and later its source says so *)
LEMMA EditListKeeps ==
  ASSUME LInv, FInv, NEW s \in Sources, Edit(s)
  PROVE  LInv' /\ FInv'
<1>1. UNCHANGED <<st, calls, trk, mgr, ks>>
  BY DEF Edit
<1>2. /\ prov' = [prov EXCEPT ![s].version = @ + 1, ![s].changed = TRUE]
      /\ prov = [r \in Sources |-> prov[r]] /\ \A r \in Sources : ProvRecord(prov[r])
  BY DEF Edit, LInv, ProvFields
<1>3. ASSUME NEW r \in Sources PROVE ProvRecord(prov'[r]) /\ (prov'[r].changed \/ prov'[r] = prov[r])
  BY <1>2 DEF ProvRecord
<1>4. ProvFields(prov')
  BY <1>2, <1>3 DEF ProvFields
<1>5. \A i \in trk'.items : i \in trk.items /\ i.src \in Sources
  BY <1>1, ItemFacts DEF LInv, ItemsOK
<1>6. ItemsOK(trk') /\ CopyOf(mgr.items, trk')
  BY <1>1 DEF LInv
<1> QED BY <1>1, <1>3, <1>4, <1>5, <1>6, TrackerKeeps

LEMMA storeUpdatedListKeeps ==
  ASSUME TrkRecord(trk), LInv, FInv, NEW s \in Sources, ksl_storeUpdated(s)
  PROVE  LInv' /\ FInv'
<1>1. UNCHANGED <<st, calls, mgr, ks>>
  BY DEF ksl_storeUpdated
<1>2. /\ prov' = [prov EXCEPT ![s].changed = FALSE]
      /\ prov = [r \in Sources |-> prov[r]] /\ \A r \in Sources : ProvRecord(prov[r])
  BY DEF ksl_storeUpdated, LInv, ProvFields
<1>3. ASSUME NEW r \in Sources PROVE /\ ProvRecord(prov'[r]) /\ (r # s => prov'[r] = prov[r])
  BY <1>2 DEF ProvRecord
<1>4. ProvFields(prov')
  BY <1>2, <1>3 DEF ProvFields
<1>5. ItemsOK(trk) /\ CopyOf(mgr.items, trk)
  BY DEF LInv
<1>6. /\ ItemsOK(trk') /\ CopyOf(mgr.items, trk')
      /\ \A i \in trk'.items :
            \/ i \in trk.items /\ i.src # s
            \/ i.id \in IdsOf(mgr.items) => \E x \in mgr.items : x.id = i.id /\ x.updateCount < i.updateCount
  <2>1. CASE \E i \in trk.items : i.src = s
    <3> DEFINE y == [trk EXCEPT !.items = Counted(trk.items, s)]
    <3>1. trk' = updated_p(y)
      BY <2>1 DEF ksl_storeUpdated, Counted
    <3>2. TrkRecord(y) /\ y.items = Counted(trk.items, s) /\ y.tracker_id_at = trk.tracker_id_at
      BY DEF TrkRecord
    <3> HIDE DEF y
    <3>3. SameItems(y, updated_p(y))
      BY <3>2, updated_pSame
    <3>4. trk'.items = Counted(trk.items, s) /\ trk'.tracker_id_at = trk.tracker_id_at
      BY <3>1, <3>2, <3>3 DEF SameItems
    <3> QED BY <1>5, <3>4, CountedItems
  <2>2. CASE ~\E i \in trk.items : i.src = s
    <3>1. trk' = trk
      BY <2>2 DEF ksl_storeUpdated
    <3> QED BY <1>5, <2>2, <3>1
  <2> QED BY <2>1, <2>2
<1>7. \A i \in trk'.items : i.src \in Sources
  BY <1>6, ItemFacts DEF ItemsOK
<1>8. \A i \in trk'.items : i.id \in IdsOf(mgr.items) =>
            \/ \E x \in mgr.items : x.id = i.id /\ x.updateCount < i.updateCount
            \/ i \in trk.items /\ prov'[i.src] = prov[i.src]
  BY <1>3, <1>6, <1>7
<1> QED BY <1>1, <1>4, <1>6, <1>8, TrackerKeeps


------------------------------------------------------------------------------
(* The manager                                                             *)

(* An object that nothing happens to, with a source that nothing happens to *)
LEMMA FreshStays ==
  ASSUME NEW k \in KS, NEW i, FreshOrComing(k, i), prov'[i.src] = prov[i.src], mgr'.items = mgr.items,
         calls'[ListOp(k)] = calls[ListOp(k)], ks'[k] = ks[k],
         calls[ListOp(k)].pc = "waiting" => /\ ListOp(k) \in st'.waiters <=> ListOp(k) \in st.waiters
                                            /\ st'.last_ret = st.last_ret
  PROVE  FreshOrComing(k, i)'
<1>1. prov[i.src].changed => FreshOrComing(k, i)'
  BY DEF FreshOrComing
<1>2. (\E x \in mgr.items : x.id = i.id /\ x.updateCount < i.updateCount) => FreshOrComing(k, i)'
  BY DEF FreshOrComing
<1>3. have_entryList_op(k) /\ ks[k].need_update => FreshOrComing(k, i)'
  BY DEF FreshOrComing, have_entryList_op
<1>4. Asked(k) => FreshOrComing(k, i)'
  BY DEF FreshOrComing, Asked
<1>5. Answered(k, prov[i.src].version) => FreshOrComing(k, i)'
  BY DEF FreshOrComing, Answered
<1>6. ~have_entryList_op(k) /\ ks[k].latest = prov[i.src].version => FreshOrComing(k, i)'
  BY DEF FreshOrComing, have_entryList_op
<1> QED BY <1>1, <1>2, <1>3, <1>4, <1>5, <1>6 DEF FreshOrComing

(* The state of the lists where no object is on *)
LEMMA NobodyOn ==
  ASSUME ItemsOK(trk'), CopyOf(mgr'.items, trk'), ObjFields(ks'), ProvFields(prov'),
         \A k \in KS : ~ks'[k].on, Registered(mgr'.reg, ks'),
         mgr'.pc \in {"none", "connected"} => mgr'.items = {}
  PROVE  LInv' /\ FInv'
<1>1. NoneOn(mgr', ks') /\ InCopy(mgr', ks')
  BY DEF NoneOn, InCopy, Findable
<1>2. LInv'
  BY <1>1 DEF LInv
<1>3. FInv'
  BY DEF FInv, Current, Findable
<1> QED BY <1>2, <1>3

LEMMA NobodyRegistered ==
  ASSUME NEW o, \A k \in KS : ~o[k].on
  PROVE  Registered(<<>>, o)
<1>1. ToSet(<<>>) = {}
  BY DEF ToSet
<1> QED BY <1>1 DEF Registered

(* A step that changes the place of the manager only *)
LEMMA PlaceKeeps ==
  ASSUME LInv, FInv, UNCHANGED <<st, calls, prov, ks>>, SameItems(trk, trk'), mgr'.items = mgr.items,
         mgr'.reg = mgr.reg, mgr'.unaware = mgr.unaware, mgr'.stale = mgr.stale, NoneOn(mgr', ks)
  PROVE  LInv' /\ FInv'
<1>1. ItemsOK(trk') /\ CopyOf(mgr'.items, trk')
  BY SameItemsKeeps DEF LInv
<1>2. LInv'
  BY <1>1 DEF LInv, ObjFields, ProvFields, NoneOn, Registered, InCopy, Findable
<1>3. FInv'
  <2> SUFFICES ASSUME NEW k \in KS, NEW i \in trk'.items,
                      Current(mgr', k, ks[k]), ks[k].async, ks[k].trackerId = i.id
               PROVE  FreshOrComing(k, i)'
    BY DEF FInv
  <2>1. FreshOrComing(k, i)
    BY DEF FInv, Current, Findable, SameItems
  <2> QED BY <2>1, FreshStays
<1> QED BY <1>2, <1>3

LEMMA PlaceListKeeps ==
  ASSUME TrkRecord(trk), MgrRecord(mgr), LInv, FInv, waitForBusyFinished \/ Woken \/ update
  PROVE  LInv' /\ FInv'
<1>1. UNCHANGED <<st, calls, prov, ks>>
  BY DEF waitForBusyFinished, Woken, update
<1>2. SameItems(trk, trk')
  BY DEF waitForBusyFinished, Woken, update, TrkRecord, SameItems
<1>3. mgr'.items = mgr.items /\ mgr'.reg = mgr.reg
      /\ mgr'.unaware = mgr.unaware /\ mgr'.stale = mgr.stale
  BY DEF waitForBusyFinished, Woken, update, MgrRecord
<1>4. mgr'.pc \in {"idle", "waiting", "updating"}
  <2>1. CASE waitForBusyFinished
    BY <2>1 DEF waitForBusyFinished, MgrRecord
  <2>2. CASE Woken
    BY <2>2 DEF Woken, MgrRecord
  <2>3. CASE update
    BY <2>3 DEF update, MgrRecord
  <2> QED BY <2>1, <2>2, <2>3
<1>5. NoneOn(mgr', ks)
  BY <1>4 DEF NoneOn
<1> QED BY <1>1, <1>2, <1>3, <1>5, PlaceKeeps

LEMMA syncListKeeps ==
  ASSUME MgrRecord(mgr), LInv, sync
  PROVE  LInv' /\ FInv'
<1>1. UNCHANGED <<trk, prov, ks>> /\ mgr.pc = "connected"
  BY DEF sync
<1>2. mgr'.items = trk.items /\ mgr'.reg = mgr.reg /\ mgr'.pc = "idle"
  BY DEF sync, MgrRecord
<1>3. \A k \in KS : ~ks[k].on
  BY <1>1 DEF LInv, NoneOn
<1>4. ItemsOK(trk) /\ CopyOf(trk.items, trk)
  BY CopyItself DEF LInv
<1>5. ObjFields(ks) /\ ProvFields(prov) /\ Registered(mgr.reg, ks)
  BY DEF LInv
<1> QED BY <1>1, <1>2, <1>3, <1>4, <1>5, NobodyOn

LEMMA addTargetListKeeps ==
  ASSUME LInv, addTarget
  PROVE  LInv' /\ FInv'
<1>1. UNCHANGED <<trk, prov, ks>> /\ mgr.pc = "none"
  BY DEF addTarget
<1>2. mgr'.items = {} /\ mgr'.reg = <<>>
  BY DEF addTarget, NoManager
<1>3. \A k \in KS : ~ks[k].on
  BY <1>1 DEF LInv, NoneOn
<1>4. ItemsOK(trk) /\ CopyOf({}, trk)
  BY DEF LInv, CopyOf
<1>5. ObjFields(ks) /\ ProvFields(prov) /\ Registered(<<>>, ks)
  BY <1>3, NobodyRegistered DEF LInv
<1> QED BY <1>1, <1>2, <1>3, <1>4, <1>5, NobodyOn

(* the thread's start and end, without a manager *)
LEMMA ThreadListKeeps ==
  ASSUME LInv, mgr.pc = "none", UNCHANGED <<trk, prov, mgr, ks>>
  PROVE  LInv' /\ FInv'
<1>1. \A k \in KS : ~ks[k].on
  BY DEF LInv, NoneOn
<1>2. ItemsOK(trk) /\ CopyOf(mgr.items, trk) /\ ObjFields(ks) /\ ProvFields(prov) /\ Registered(mgr.reg, ks) /\ NoneOn(mgr, ks)
  BY DEF LInv
<1>3. mgr.items = {}
  BY <1>2 DEF NoneOn
<1> QED BY <1>1, <1>2, <1>3, NobodyOn

LEMMA ThreadEndsListKeeps ==
  ASSUME LInv, mgr.pc = "none", ThreadEnds
  PROVE  LInv' /\ FInv'
<1>1. UNCHANGED <<mgr, ks>> /\ trk' = [NewTracker EXCEPT !.tracker_id_at = trk.tracker_id_at] /\ prov' = [s \in Sources |-> [prov[s] EXCEPT !.changed = FALSE]]
  BY DEF ThreadEnds
<1>2. (\A k \in KS : ~ks[k].on) /\ mgr.items = {}
  BY DEF LInv, NoneOn
<1>3. ItemsOK(trk') /\ CopyOf({}, trk')
  BY <1>1 DEF LInv, ItemsOK, CopyOf, NewTracker
<1>4. \A s \in Sources : ProvRecord(prov'[s])
  BY <1>1 DEF LInv, ProvFields, ProvRecord
<1>5. ProvFields(prov')
  BY <1>1, <1>4 DEF ProvFields
<1>6. ObjFields(ks) /\ Registered(mgr.reg, ks)
  BY DEF LInv
<1> QED BY <1>1, <1>2, <1>3, <1>5, <1>6, NobodyOn

(* The manager hears of an update; one that waits gets its copy *)
LEMMA updated_lockedListKeeps ==
  ASSUME TrkRecord(trk), MgrRecord(mgr), LInv, FInv, updated_locked
  PROVE  LInv' /\ FInv'
<1>1. UNCHANGED <<st, calls, prov, ks>>
  BY DEF updated_locked
<1>2. SameItems(trk, trk')
  BY DEF updated_locked, TrkRecord, SameItems
<1>3. CASE mgr.pc = "none"
  <2>1. mgr' = mgr
    BY <1>3 DEF updated_locked
  <2> QED BY <1>1, <1>2, <2>1, PlaceKeeps DEF LInv
<1>4. CASE mgr.pc # "none" /\ ~(mgr.pc \in {"waiting", "woken"} /\ ~trk.busy)
  <2>1. mgr' = [mgr EXCEPT !.pending = TRUE]
    BY <1>4 DEF updated_locked, tracker_updated
  <2>2. mgr'.pc = mgr.pc /\ mgr'.items = mgr.items /\ mgr'.reg = mgr.reg
      /\ mgr'.unaware = mgr.unaware /\ mgr'.stale = mgr.stale
    BY <2>1 DEF MgrRecord
  <2>3. NoneOn(mgr', ks)
    BY <2>2 DEF LInv, NoneOn
  <2> QED BY <1>1, <1>2, <2>2, <2>3, PlaceKeeps
<1>5. CASE mgr.pc \in {"waiting", "woken"} /\ ~trk.busy
  <2> DEFINE told == [mgr EXCEPT !.pending = TRUE]
             U == HoldersOf(Gone(mgr.items, trk.items))
             L == ListersOf(Changed(mgr.items, trk.items))
  <2>1. MgrRecord(told) /\ told.unaware = mgr.unaware /\ told.stale = mgr.stale /\ told.reg = mgr.reg
    BY DEF MgrRecord
  <2>2. mgr' = [told EXCEPT !.pc = "woken", !.busy = FALSE, !.items = trk.items,
                            !.unaware = @ \cup U, !.stale = @ \cup L]
    BY <1>5 DEF updated_locked, tracker_updated
  <2>3. \A k \in KS : ks[k].on /\ ks[k].trackerId \in IdsOf(mgr.items) /\ ks[k].trackerId \notin IdsOf(trk.items)
                          => k \in U
    BY DEF HoldersOf, Gone
  <2>4. \A k \in KS : \A x \in mgr.items : \A y \in trk.items :
            ks[k].on /\ ks[k].async /\ ks[k].trackerId = x.id /\ y.id = x.id /\ x.updateCount < y.updateCount
                => k \in L
    BY DEF HoldersOf, ListersOf, Changed
  <2> HIDE DEF told, U, L
  <2>5. /\ mgr'.pc = "woken" /\ mgr'.items = trk.items /\ mgr'.reg = mgr.reg
        /\ mgr'.unaware = mgr.unaware \cup U /\ mgr'.stale = mgr.stale \cup L
    BY <2>1, <2>2 DEF MgrRecord
  <2>6. NoneOn(mgr', ks)
    BY <2>5 DEF NoneOn
  <2>7. ItemsOK(trk') /\ CopyOf(mgr'.items, trk') /\ trk'.items = trk.items
    <3>1. CopyOf(trk.items, trk) /\ ItemsOK(trk)
      BY CopyItself DEF LInv
    <3> QED BY <1>2, <2>5, <3>1, SameItemsKeeps DEF SameItems
  <2>8. InCopy(mgr', ks)
    <3> SUFFICES ASSUME NEW k \in KS, Findable(mgr', k, ks[k]) PROVE ks[k].trackerId \in IdsOf(trk.items)
      BY <2>5 DEF InCopy
    <3>1. Findable(mgr, k, ks[k]) /\ k \notin U /\ ks[k].on
      BY <2>5 DEF Findable
    <3>2. ks[k].trackerId \in IdsOf(mgr.items)
      BY <3>1 DEF LInv, InCopy
    <3> QED BY <2>3, <3>1, <3>2
  <2>9. LInv'
    BY <1>1, <2>5, <2>6, <2>7, <2>8 DEF LInv, ObjFields, ProvFields, Registered
  <2>10. FInv'
    <3> SUFFICES ASSUME NEW k \in KS, NEW i \in trk.items,
                        Current(mgr', k, ks[k]), ks[k].async, ks[k].trackerId = i.id
                 PROVE  FreshOrComing(k, i)'
      BY <1>1, <2>7 DEF FInv
    <3>1. Current(mgr, k, ks[k]) /\ k \notin L /\ ks[k].on
      BY <2>5 DEF Current, Findable
    <3>2. FreshOrComing(k, i)
      BY <3>1 DEF FInv
    <3>3. ~\E x \in mgr.items : x.id = i.id /\ x.updateCount < i.updateCount
      BY <2>4, <3>1
    <3> QED BY <1>1, <3>2, <3>3 DEF FreshOrComing, Asked, Answered, have_entryList_op
  <2> QED BY <2>9, <2>10
<1> QED BY <1>3, <1>4, <1>5


------------------------------------------------------------------------------
(* The calls                                                               *)

LEMMA OpFacts ==
  ASSUME NEW k \in KS
  PROVE  /\ ListOp(k) \in Callers /\ <<k, "write">> \in Callers /\ ListOp(k) # <<k, "write">>
         /\ \A j \in KS : ListOp(j) = ListOp(k) => j = k
         /\ ListOp(k)[1] = k /\ ListOp(k)[2] = "list"
         /\ \A j \in KS : ListOp(j) # <<k, "write">>
  BY KeyStoreAssumption DEF ListOp

LEMMA ListsAlone ==
  ASSUME LInv, UNCHANGED <<trk, mgr, ks>>, ProvFields(prov')
  PROVE  LInv'
  BY DEF LInv, ItemsOK, CopyOf, ObjFields, NoneOn, Registered, InCopy, Findable

LEMMA lockCallListKeeps ==
  ASSUME SInv, LInv, FInv, NEW c \in Callers, lockCall(c), UNCHANGED <<trk, prov, mgr, ks>>
  PROVE  LInv' /\ FInv'
<1>1. LInv'
  BY ListsAlone DEF LInv, ProvFields
<1> DEFINE x == [calls[c] EXCEPT !.pc = "waiting"]
<1>2. CallRecord(x) /\ x.pc = "waiting" /\ x.arg = calls[c].arg /\ calls' = [calls EXCEPT ![c] = x] /\ calls[c].pc = "wanted"
  BY DEF lockCall, SInv, Fields, CallFields, CallRecord
<1> HIDE DEF x
<1>3. calls'[c] = x /\ \A b \in Callers : b # c => calls'[b] = calls[b]
  BY <1>2, CallUpdate DEF SInv, Fields
<1>4. c \in st'.waiters
  BY DEF lockCall, SInv, Fields, StFields
<1>5. \A b \in Callers : calls[b].pc # "waiting"
  BY CallerFacts DEF SInv, CallPlaces, lockCall
<1>6. FInv'
  <2> SUFFICES ASSUME NEW k \in KS, NEW i \in trk.items,
                      Current(mgr, k, ks[k]), ks[k].async, ks[k].trackerId = i.id
               PROVE  FreshOrComing(k, i)'
    BY DEF FInv
  <2>1. FreshOrComing(k, i)
    BY DEF FInv
  <2>2. ListOp(k) \in Callers
    BY OpFacts
  <2>3. CASE ListOp(k) # c
    BY <1>3, <1>5, <2>1, <2>2, <2>3, FreshStays
  <2>4. CASE ListOp(k) = c
    <3>1. ~Answered(k, prov[i.src].version) /\ have_entryList_op(k)
      BY <1>2, <2>4 DEF Answered, have_entryList_op
    <3>2. have_entryList_op(k)'
      BY <1>2, <1>3, <2>4 DEF have_entryList_op
    <3>3. Asked(k) => Asked(k)'
      BY <1>2, <1>3, <1>4, <2>4 DEF Asked
    <3> QED BY <2>1, <3>1, <3>2, <3>3 DEF FreshOrComing
  <2> QED BY <2>3, <2>4
<1> QED BY <1>1, <1>6

LEMMA endCallListKeeps ==
  ASSUME SInv, LInv, FInv, NEW c \in Callers, endCall(c), UNCHANGED <<trk, prov, mgr, ks>>
  PROVE  LInv' /\ FInv'
<1>1. LInv'
  BY ListsAlone DEF LInv, ProvFields
<1> DEFINE x == [calls[c] EXCEPT !.pc = "done", !.ret = st.last_ret]
<1>2. CallRecord(x) /\ x.pc = "done" /\ x.ret = st.last_ret
  BY DEF SInv, Fields, CallFields, CallRecord
<1>3. calls' = [calls EXCEPT ![c] = x] /\ calls[c].pc = "waiting" /\ c \notin st.waiters
  BY DEF endCall, SInv, Fields, CallFields
<1> HIDE DEF x
<1>4. calls'[c] = x /\ \A b \in Callers : b # c => calls'[b] = calls[b]
  BY <1>2, <1>3, CallUpdate DEF SInv, Fields
<1>5. \A b \in Callers : b # c => calls[b].pc # "waiting"
  BY <1>3 DEF SInv, CallPlaces
<1>6. FInv'
  <2> SUFFICES ASSUME NEW k \in KS, NEW i \in trk.items,
                      Current(mgr, k, ks[k]), ks[k].async, ks[k].trackerId = i.id
               PROVE  FreshOrComing(k, i)'
    BY DEF FInv
  <2>1. FreshOrComing(k, i)
    BY DEF FInv
  <2>2. ListOp(k) \in Callers
    BY OpFacts
  <2>3. CASE ListOp(k) # c
    BY <1>4, <1>5, <2>1, <2>2, <2>3, FreshStays
  <2>4. CASE ListOp(k) = c
    <3>1. ~Asked(k) /\ have_entryList_op(k)
      BY <1>3, <2>4 DEF Asked, have_entryList_op
    <3>2. have_entryList_op(k)'
      BY <1>2, <1>4, <2>4 DEF have_entryList_op
    <3>3. Answered(k, prov[i.src].version) => Answered(k, prov[i.src].version)'
      BY <1>2, <1>3, <1>4, <2>4 DEF Answered
    <3> QED BY <2>1, <3>1, <3>2, <3>3 DEF FreshOrComing
  <2> QED BY <2>3, <2>4
<1> QED BY <1>1, <1>6

(* A slot runs: entryList() reads the present entries, a write changes them *)
LEMMA CallSlotListKeeps ==
  ASSUME SInv, LInv, FInv, CallSlot
  PROVE  LInv' /\ FInv'
<1>1. st.run = "on" /\ st.posted # <<>> /\ Head(st.posted) # Owner
  BY DEF CallSlot, CallPosted
<1>2. PICK c \in Callers : Calling(c) /\ st.posted = <<c>> /\ st.waiters = {c}
  BY <1>1 DEF SInv, OwnerPlaces, Quiet, Calling
<1>3. Head(st.posted) = c /\ Tail(st.posted) = <<>>
  BY <1>2
<1>4. UNCHANGED <<calls, trk, mgr, ks>>
  BY DEF CallSlot, call_do
<1> DEFINE id == calls[c].arg
           r == <<c, entryList(id)>>
           s == [st EXCEPT !.posted = <<>>, !.last_ret = r]
<1>5. st' \in WakeOne(s)
  BY <1>3 DEF CallSlot, call_do
<1> HIDE DEF r
<1>6. s.waiters = {c}
  BY <1>2 DEF SInv, Fields, StFields
<1>7. st' = [s EXCEPT !.waiters = {}]
  BY <1>5, <1>6, WakeFacts
<1>8. st'.waiters = {} /\ st'.last_ret = r
  BY <1>7 DEF SInv, Fields, StFields
<1>9. r[2] = entryList(id)
  BY DEF r
<1>10. \A b \in Callers : b # c => calls[b].pc # "waiting"
  BY <1>2 DEF SInv, CallPlaces, Calling
<1>11. /\ prov = [z \in Sources |-> prov[z]] /\ \A z \in Sources : ProvRecord(prov[z])
  BY DEF LInv, ProvFields
<1>12. /\ prov' = [z \in Sources |-> prov'[z]]
       /\ \A z \in Sources : ProvRecord(prov'[z]) /\ (prov'[z].changed \/ prov'[z] = prov[z])
       /\ c[2] # "write" => prov' = prov
  <2>1. CASE c[2] # "write"
    <3>1. prov' = prov
      BY <1>3, <2>1 DEF CallSlot
    <3> QED BY <1>11, <2>1, <3>1
  <2>2. CASE c[2] = "write"
    <3> DEFINE w(z) == z \in SourceOf(id) /\ prov[z].has /\ prov[z].version < MaxVersion
    <3>1. prov' = [z \in Sources |-> IF w(z) THEN [prov[z] EXCEPT !.version = @ + 1, !.changed = TRUE] ELSE prov[z]]
      BY <1>3, <2>2 DEF CallSlot
    <3> HIDE DEF w
    <3>2. ASSUME NEW z \in Sources
          PROVE  /\ ProvRecord([prov[z] EXCEPT !.version = @ + 1, !.changed = TRUE])
                 /\ [prov[z] EXCEPT !.version = @ + 1, !.changed = TRUE].changed
      BY <1>11 DEF ProvRecord
    <3> QED BY <1>11, <2>2, <3>1, <3>2
  <2> QED BY <2>1, <2>2
<1>13. LInv'
  BY <1>4, <1>12, ListsAlone DEF ProvFields
<1>14. FInv'
  <2> SUFFICES ASSUME NEW k \in KS, NEW i \in trk.items,
                      Current(mgr, k, ks[k]), ks[k].async, ks[k].trackerId = i.id
               PROVE  FreshOrComing(k, i)'
    BY <1>4 DEF FInv
  <2>1. FreshOrComing(k, i)
    BY DEF FInv
  <2>2. ListOp(k) \in Callers /\ ListOp(k)[2] = "list"
    BY OpFacts
  <2>3. i.src \in Sources
    BY ItemFacts DEF LInv, ItemsOK
  <2>4. CASE prov'[i.src].changed
    BY <2>4 DEF FreshOrComing
  <2>5. CASE ListOp(k) # c /\ prov'[i.src] = prov[i.src]
    BY <1>4, <1>10, <2>1, <2>2, <2>5, FreshStays
  <2>6. CASE ListOp(k) = c
    <3>1. prov' = prov /\ calls[ListOp(k)].pc = "waiting" /\ ListOp(k) \in st.waiters
      BY <1>2, <1>12, <2>2, <2>6 DEF Calling
    <3>2. ~Answered(k, prov[i.src].version) /\ have_entryList_op(k) /\ have_entryList_op(k)'
      BY <1>4, <3>1 DEF Answered, have_entryList_op
    <3>3. ASSUME Asked(k) PROVE Answered(k, prov[i.src].version)'
      <4>1. id = i.id
        BY <2>6, <3>3 DEF Asked
      <4>2. \A j \in trk.items : j.id = i.id => j = i
        BY DEF LInv, ItemsOK
      <4> HIDE DEF id
      <4>3. ItemOf(trk.items, id) # {}
        BY <4>1 DEF ItemOf
      <4>4. (CHOOSE j \in trk.items : j.id = id) = i
        BY <4>1, <4>2
      <4>5. entryList(id) = prov[i.src].version
        BY <4>3, <4>4 DEF entryList
      <4>6. st'.last_ret[2] = prov'[i.src].version
        BY <1>8, <1>9, <3>1, <4>5
      <4> QED BY <1>4, <1>8, <3>1, <4>6 DEF Answered
    <3> QED BY <1>4, <2>1, <3>1, <3>2, <3>3 DEF FreshOrComing
  <2> QED BY <1>12, <2>3, <2>4, <2>5, <2>6
<1> QED BY <1>13, <1>14


------------------------------------------------------------------------------
(* The KeyStore objects                                                    *)

(* A step of the objects that keeps the tracker, the sources and the copy *)
LEMMA ObjectsKeep ==
  ASSUME LInv, UNCHANGED <<trk, prov>>, mgr'.items = mgr.items, mgr'.pc \notin {"none", "connected"},
         ObjFields(ks'), Registered(mgr'.reg, ks'), InCopy(mgr', ks')
  PROVE  LInv'
<1>1. NoneOn(mgr', ks')
  BY DEF NoneOn
<1> QED BY <1>1 DEF LInv, ItemsOK, CopyOf, ProvFields

LEMMA NoObjectFacts ==
  ObjRecord(NoObject) /\ ~NoObject.on /\ NoObject.trackerId = 0 /\ ~NoObject.async
  BY DEF NoObject, ObjRecord

LEMMA newKeyStoreListKeeps ==
  ASSUME MgrRecord(mgr), LInv, FInv, NEW k \in KS, NEW i \in mgr.items, newKeyStore(k, i)
  PROVE  LInv' /\ FInv'
<1> DEFINE o == [NoObject EXCEPT !.on = TRUE, !.trackerId = i.id]
<1>1. UNCHANGED <<st, calls, trk, prov>> /\ mgr.pc = "idle" /\ ~ks[k].on
  BY DEF newKeyStore
<1>2. mgr' = [mgr EXCEPT !.reg = <<k>> \o @, !.unaware = @ \ {k}, !.stale = @ \ {k}]
  BY DEF newKeyStore
<1>3. /\ mgr'.reg = <<k>> \o mgr.reg /\ mgr'.items = mgr.items /\ mgr'.pc = "idle"
      /\ mgr'.unaware = mgr.unaware \ {k} /\ mgr'.stale = mgr.stale \ {k}
  BY <1>1, <1>2 DEF MgrRecord
<1>4. ks' = [ks EXCEPT ![k] = o]
  BY DEF newKeyStore
<1>6. i.id \in Nat /\ i.id # 0 /\ i.id \in IdsOf(mgr.items)
  <2>1. i \in Items /\ i.id > 0
    BY DEF LInv, CopyOf
  <2> QED BY <2>1, ItemFacts DEF IdsOf
<1>8. ObjRecord(o) /\ o.on /\ o.trackerId = i.id /\ ~o.async
  BY <1>6 DEF NoObject, ObjRecord
<1> HIDE DEF o
<1>9. ks = [j \in KS |-> ks[j]] /\ \A j \in KS : ObjRecord(ks[j])
  BY DEF LInv, ObjFields
<1>10. \A j \in KS : j # k => ks'[j] = ks[j]
  BY <1>4, <1>9
<1>11. ks'[k] = o /\ ks' = [j \in KS |-> ks'[j]]
  BY <1>4, <1>9
<1>12. ObjFields(ks')
  BY <1>8, <1>9, <1>10, <1>11 DEF ObjFields
<1>13. Registered(mgr'.reg, ks')
  <2>1. mgr.reg \in Seq(KS) /\ ToSet(mgr.reg) = {j \in KS : ks[j].on /\ ks[j].trackerId # 0}
    BY DEF LInv, Registered
  <2>2. <<k>> \in Seq(KS) /\ ToSet(<<k>>) = {k}
    BY DEF ToSet
  <2>3. mgr'.reg \in Seq(KS) /\ ToSet(mgr'.reg) = {k} \cup ToSet(mgr.reg)
    <3>1. <<k>> \o mgr.reg \in Seq(KS) /\ ToSet(<<k>> \o mgr.reg) = ToSet(<<k>>) \cup ToSet(mgr.reg)
      <4> DEFINE u == <<k>>
                 w == mgr.reg
      <4>1. u \in Seq(KS) /\ w \in Seq(KS)
        BY <2>1, <2>2
      <4> HIDE DEF u, w
      <4>2. u \o w \in Seq(KS) /\ ToSet(u \o w) = ToSet(u) \cup ToSet(w)
        BY <4>1, ConcatElements
      <4> QED BY <4>2 DEF u, w
    <3> QED BY <1>3, <2>2, <3>1
  <2>4. \A j \in KS : j \in ToSet(mgr'.reg) <=> ks'[j].on /\ ks'[j].trackerId # 0
    <3> SUFFICES ASSUME NEW j \in KS PROVE j \in ToSet(mgr'.reg) <=> ks'[j].on /\ ks'[j].trackerId # 0
      OBVIOUS
    <3>1. CASE j = k
      BY <1>6, <1>8, <1>11, <2>3, <3>1
    <3>2. CASE j # k
      BY <1>10, <2>1, <2>3, <3>2
    <3> QED BY <3>1, <3>2
  <2>5. ToSet(mgr'.reg) \subseteq KS
    BY <2>1, <2>3
  <2> QED BY <2>3, <2>4, <2>5 DEF Registered
<1>15. ASSUME NEW j \in KS, j # k
       PROVE  /\ ks'[j] = ks[j]
              /\ Findable(mgr', j, ks'[j]) => Findable(mgr, j, ks[j])
              /\ Current(mgr', j, ks'[j]) => Current(mgr, j, ks[j])
  BY <1>3, <1>10, <1>15 DEF Findable, Current
<1>16. InCopy(mgr', ks')
  <2> SUFFICES ASSUME NEW j \in KS, Findable(mgr', j, ks'[j]) PROVE ks'[j].trackerId \in IdsOf(mgr.items)
    BY <1>3 DEF InCopy
  <2>1. CASE j = k
    BY <1>6, <1>8, <1>11, <2>1
  <2>2. CASE j # k
    BY <1>15, <2>2 DEF LInv, InCopy
  <2> QED BY <2>1, <2>2
<1>17. LInv'
  BY <1>1, <1>3, <1>12, <1>13, <1>16, ObjectsKeep
<1>18. FInv'
  <2> SUFFICES ASSUME NEW j \in KS, NEW x \in trk.items,
                      Current(mgr', j, ks'[j]), ks'[j].async, ks'[j].trackerId = x.id
               PROVE  FreshOrComing(j, x)'
    BY <1>1 DEF FInv
  <2>1. j # k
    BY <1>8, <1>11
  <2>2. ks'[j] = ks[j] /\ Current(mgr, j, ks[j])
    BY <1>15, <2>1
  <2>3. FreshOrComing(j, x)
    BY <2>2 DEF FInv
  <2> QED BY <1>1, <1>3, <2>2, <2>3, FreshStays
<1> QED BY <1>17, <1>18

LEMMA deleteKeyStoreListKeeps ==
  ASSUME MgrRecord(mgr), LInv, FInv, NEW k \in KS, deleteKeyStore(k)
  PROVE  LInv' /\ FInv'
<1>1. UNCHANGED <<st, trk, prov>> /\ mgr.pc = "idle"
  BY DEF deleteKeyStore
<1>2. mgr' = [mgr EXCEPT !.reg = unreg(mgr, ks, {k})]
  BY DEF deleteKeyStore
<1>3. mgr'.reg = unreg(mgr, ks, {k}) /\ mgr'.items = mgr.items /\ mgr'.pc = "idle"
      /\ mgr'.unaware = mgr.unaware /\ mgr'.stale = mgr.stale
  BY <1>1, <1>2 DEF MgrRecord
<1>4. ks = [j \in KS |-> ks[j]] /\ \A j \in KS : ObjRecord(ks[j])
  BY DEF LInv, ObjFields
<1>5. ks' = [ks EXCEPT ![k] = NoObject]
  BY DEF deleteKeyStore
<1>6. ks'[k] = NoObject /\ (\A j \in KS : j # k => ks'[j] = ks[j]) /\ ks' = [j \in KS |-> ks'[j]]
  BY <1>4, <1>5
<1>7. ObjFields(ks')
  BY <1>4, <1>6, NoObjectFacts DEF ObjFields
<1>8. Registered(mgr'.reg, ks')
  <2>1. mgr.reg \in Seq(KS) /\ ToSet(mgr.reg) = {j \in KS : ks[j].on /\ ks[j].trackerId # 0}
    BY DEF LInv, Registered
  <2>2. mgr'.reg \in Seq(KS) /\ ToSet(mgr'.reg) = ToSet(mgr.reg) \ {k}
    <3>1. mgr.reg \in Seq(KS)
      BY <2>1
    <3>2. unreg(mgr, ks, {k}) \in Seq(KS) /\ ToSet(unreg(mgr, ks, {k})) = ToSet(mgr.reg) \ {k}
      BY <3>1, unregFacts
    <3> QED BY <1>3, <3>2
  <2> QED BY <1>6, <2>1, <2>2, NoObjectFacts DEF Registered
<1>10. ASSUME NEW j \in KS, Findable(mgr', j, ks'[j])
       PROVE  /\ j # k /\ ks'[j] = ks[j] /\ Findable(mgr, j, ks[j])
              /\ Current(mgr', j, ks'[j]) => Current(mgr, j, ks[j])
  BY <1>3, <1>6, <1>10, NoObjectFacts DEF Findable, Current
<1>11. InCopy(mgr', ks')
  BY <1>3, <1>10 DEF LInv, InCopy
<1>12. LInv'
  BY <1>1, <1>3, <1>7, <1>8, <1>11, ObjectsKeep
<1>13. FInv'
  <2> SUFFICES ASSUME NEW j \in KS, NEW x \in trk.items,
                      Current(mgr', j, ks'[j]), ks'[j].async, ks'[j].trackerId = x.id
               PROVE  FreshOrComing(j, x)'
    BY <1>1 DEF FInv
  <2>1. j # k /\ ks'[j] = ks[j] /\ Current(mgr, j, ks[j])
    BY <1>10 DEF Current
  <2>2. FreshOrComing(j, x)
    BY <2>1 DEF FInv
  <2>3. calls'[ListOp(j)] = calls[ListOp(j)]
    BY <2>1, OpFacts DEF deleteKeyStore
  <2> QED BY <1>1, <1>3, <2>1, <2>2, <2>3, FreshStays
<1> QED BY <1>12, <1>13

LEMMA removeTargetListKeeps ==
  ASSUME LInv, removeTarget
  PROVE  LInv' /\ FInv'
<1>1. UNCHANGED <<trk, prov>> /\ mgr' = NoManager /\ ks' = [k \in KS |-> NoObject]
  BY DEF removeTarget
<1>2. mgr'.items = {} /\ mgr'.reg = <<>>
  BY <1>1 DEF NoManager
<1>3. ObjFields(ks') /\ \A k \in KS : ~ks'[k].on
  BY <1>1, NoObjectFacts DEF ObjFields
<1>4. Registered(<<>>, ks')
  BY <1>3, NobodyRegistered
<1>5. ItemsOK(trk) /\ ProvFields(prov) /\ CopyOf({}, trk)
  BY DEF LInv, CopyOf
<1> QED BY <1>1, <1>2, <1>3, <1>4, <1>5, NobodyOn


(* An object in asynchronous mode asks for its list, or writes *)
LEMMA beginCallListKeeps ==
  ASSUME SInv, LInv, FInv, NEW k \in KS, startAsynchronousMode(k) \/ async_writeEntry(k)
  PROVE  LInv' /\ FInv'
<1>0. ListOp(k) \in Callers /\ <<k, "write">> \in Callers /\ ListOp(k) # <<k, "write">>
  BY OpFacts
<1>1. CASE startAsynchronousMode(k)
  <2>1. UNCHANGED <<st, trk, prov, mgr>> /\ mgr.pc = "idle" /\ ks' = [ks EXCEPT ![k].async = TRUE, ![k].need_update = FALSE]
    BY <1>1 DEF startAsynchronousMode, beginCall
  <2> DEFINE c == [pc |-> "wanted", arg |-> ks[k].trackerId, ret |-> <<>>]
  <2>2. calls' = [calls EXCEPT ![ListOp(k)] = c]
    BY <1>1 DEF startAsynchronousMode, beginCall
  <2>3. CallRecord(c) /\ c.pc = "wanted" /\ c.arg = ks[k].trackerId
    BY DEF CallRecord
  <2> HIDE DEF c
  <2>4. calls'[ListOp(k)] = c /\ \A b \in Callers : b # ListOp(k) => calls'[b] = calls[b]
    BY <1>0, <2>2, <2>3, CallUpdate DEF SInv, Fields
  <2>5. ks = [j \in KS |-> ks[j]] /\ \A j \in KS : ObjRecord(ks[j])
    BY DEF LInv, ObjFields
  <2>6. /\ ks' = [j \in KS |-> ks'[j]] /\ \A j \in KS : j # k => ks'[j] = ks[j]
        /\ ObjRecord(ks'[k]) /\ ks'[k].on = ks[k].on /\ ks'[k].trackerId = ks[k].trackerId
    BY <2>1, <2>5 DEF ObjRecord
  <2>7. \A j \in KS : ObjRecord(ks'[j]) /\ ks'[j].on = ks[j].on /\ ks'[j].trackerId = ks[j].trackerId
    BY <2>5, <2>6
  <2>8. ObjFields(ks')
    BY <2>6, <2>7 DEF ObjFields
  <2>9. Registered(mgr.reg, ks')
    BY <2>7 DEF LInv, Registered
  <2>10. InCopy(mgr, ks')
    BY <2>7 DEF LInv, InCopy, Findable
  <2>11. LInv'
    BY <2>1, <2>8, <2>9, <2>10, ObjectsKeep
  <2>12. FInv'
    <3> SUFFICES ASSUME NEW j \in KS, NEW x \in trk.items,
                        Current(mgr, j, ks'[j]), ks'[j].async, ks'[j].trackerId = x.id
                 PROVE  FreshOrComing(j, x)'
      BY <2>1 DEF FInv
    <3>1. CASE j = k
      <4>1. Asked(k)'
        BY <2>3, <2>4, <2>6 DEF Asked
      <4> QED BY <3>1, <4>1 DEF FreshOrComing
    <3>2. CASE j # k
      <4>1. ks'[j] = ks[j] /\ FreshOrComing(j, x)
        BY <2>6, <3>2 DEF FInv
      <4>2. calls'[ListOp(j)] = calls[ListOp(j)]
        BY <2>4, <3>2, OpFacts
      <4> QED BY <2>1, <4>1, <4>2, FreshStays
    <3> QED BY <3>1, <3>2
  <2> QED BY <2>11, <2>12
<1>2. CASE async_writeEntry(k)
  <2>1. UNCHANGED <<st, trk, prov, mgr, ks>>
    BY <1>2 DEF async_writeEntry, beginCall
  <2> DEFINE c == [pc |-> "wanted", arg |-> ks[k].trackerId, ret |-> <<>>]
  <2>2. calls' = [calls EXCEPT ![<<k, "write">>] = c]
    BY <1>2 DEF async_writeEntry, beginCall
  <2>3. CallRecord(c)
    BY DEF CallRecord
  <2> HIDE DEF c
  <2>4. \A b \in Callers : b # <<k, "write">> => calls'[b] = calls[b]
    BY <1>0, <2>2, <2>3, CallUpdate DEF SInv, Fields
  <2>5. \A j \in KS : calls'[ListOp(j)] = calls[ListOp(j)]
    BY <2>4, OpFacts
  <2>6. LInv'
    BY <2>1, ListsAlone DEF LInv, ProvFields
  <2>7. FInv'
    <3> SUFFICES ASSUME NEW j \in KS, NEW x \in trk.items,
                        Current(mgr, j, ks[j]), ks[j].async, ks[j].trackerId = x.id
                 PROVE  FreshOrComing(j, x)'
      BY <2>1 DEF FInv
    <3>1. FreshOrComing(j, x)
      BY DEF FInv
    <3> QED BY <2>1, <2>5, <3>1, FreshStays
  <2> QED BY <2>6, <2>7
<1> QED BY <1>1, <1>2

LEMMA write_finishedListKeeps ==
  ASSUME SInv, LInv, FInv, NEW k \in KS, write_finished(k)
  PROVE  LInv' /\ FInv'
<1>1. UNCHANGED <<st, trk, prov, mgr, ks>> /\ calls' = [calls EXCEPT ![<<k, "write">>] = NoCall]
  BY DEF write_finished
<1>2. \A j \in KS : calls'[ListOp(j)] = calls[ListOp(j)]
  <2>1. CallRecord(NoCall) /\ <<k, "write">> \in Callers
    BY OpFacts DEF NoCall, CallRecord
  <2>2. \A b \in Callers : b # <<k, "write">> => calls'[b] = calls[b]
    BY <1>1, <2>1, CallUpdate DEF SInv, Fields
  <2> QED BY <2>2, OpFacts
<1>3. LInv'
  BY <1>1, ListsAlone DEF LInv, ProvFields
<1>4. FInv'
  <2> SUFFICES ASSUME NEW j \in KS, NEW x \in trk.items,
                      Current(mgr, j, ks[j]), ks[j].async, ks[j].trackerId = x.id
               PROVE  FreshOrComing(j, x)'
    BY <1>1 DEF FInv
  <2>1. FreshOrComing(j, x)
    BY DEF FInv
  <2> QED BY <1>1, <1>2, <2>1, FreshStays
<1> QED BY <1>3, <1>4

(* A list arrives: it is the present one, or asked for again, or its news  *)
(* is on its way                                                           *)
LEMMA op_finishedListKeeps ==
  ASSUME SInv, LInv, FInv, NEW k \in KS, op_finished(k)
  PROVE  LInv' /\ FInv'
<1>0. ListOp(k) \in Callers
  BY OpFacts
<1> DEFINE v == calls[ListOp(k)].ret[2]
           c == IF ks[k].need_update
                THEN [pc |-> "wanted", arg |-> ks[k].trackerId, ret |-> <<>>] ELSE NoCall
<1>1. UNCHANGED <<st, trk, prov, mgr>> /\ mgr.pc = "idle" /\ calls[ListOp(k)].pc = "done"
  BY DEF op_finished
<1>2. ks' = [ks EXCEPT ![k].latest = v, ![k].need_update = FALSE]
  BY DEF op_finished
<1>3. calls' = [calls EXCEPT ![ListOp(k)] = c]
  BY DEF op_finished
<1>4. /\ CallRecord(c)
      /\ ks[k].need_update => c.pc = "wanted" /\ c.arg = ks[k].trackerId
      /\ ~ks[k].need_update => c.pc = "idle"
  BY DEF CallRecord, NoCall
<1> HIDE DEF c
<1>5. calls'[ListOp(k)] = c /\ \A b \in Callers : b # ListOp(k) => calls'[b] = calls[b]
  BY <1>0, <1>3, <1>4, CallUpdate DEF SInv, Fields
<1>6. ks = [j \in KS |-> ks[j]] /\ \A j \in KS : ObjRecord(ks[j])
  BY DEF LInv, ObjFields
<1>7. /\ ks' = [j \in KS |-> ks'[j]] /\ \A j \in KS : j # k => ks'[j] = ks[j]
      /\ ObjRecord(ks'[k]) /\ ks'[k].on = ks[k].on /\ ks'[k].trackerId = ks[k].trackerId
      /\ ks'[k].latest = v /\ ks'[k].async = ks[k].async
  BY <1>2, <1>6 DEF ObjRecord
<1>8. \A j \in KS : ObjRecord(ks'[j]) /\ ks'[j].on = ks[j].on /\ ks'[j].trackerId = ks[j].trackerId
  BY <1>6, <1>7
<1>9. ObjFields(ks')
  BY <1>7, <1>8 DEF ObjFields
<1>10. Registered(mgr.reg, ks')
  BY <1>8 DEF LInv, Registered
<1>11. InCopy(mgr, ks')
  BY <1>8 DEF LInv, InCopy, Findable
<1>12. LInv'
  BY <1>1, <1>9, <1>10, <1>11, ObjectsKeep
<1>13. FInv'
  <2> SUFFICES ASSUME NEW j \in KS, NEW x \in trk.items,
                      Current(mgr, j, ks'[j]), ks'[j].async, ks'[j].trackerId = x.id
               PROVE  FreshOrComing(j, x)'
    BY <1>1 DEF FInv
  <2>0. FreshOrComing(j, x)
    BY <1>7, <1>8 DEF FInv, Current, Findable
  <2>1. CASE j = k
    <3>1. ~Asked(k) /\ have_entryList_op(k)
      BY <1>1 DEF Asked, have_entryList_op
    <3>2. CASE ks[k].need_update
      <4>1. Asked(k)'
        BY <1>4, <1>5, <1>7, <3>2 DEF Asked
      <4> QED BY <2>1, <4>1 DEF FreshOrComing
    <3>3. CASE ~ks[k].need_update /\ Answered(k, prov[x.src].version)
      <4>1. ~have_entryList_op(k)'
        BY <1>4, <1>5, <3>3 DEF have_entryList_op
      <4>2. ks'[k].latest = prov'[x.src].version
        BY <1>1, <1>7, <3>3 DEF Answered
      <4> QED BY <2>1, <4>1, <4>2 DEF FreshOrComing
    <3>4. CASE prov[x.src].changed \/ \E y \in mgr.items : y.id = x.id /\ y.updateCount < x.updateCount
      BY <1>1, <3>4 DEF FreshOrComing
    <3> QED BY <2>0, <2>1, <3>1, <3>2, <3>3, <3>4 DEF FreshOrComing
  <2>2. CASE j # k
    <3>1. ks'[j] = ks[j]
      BY <1>7, <2>2
    <3>2. calls'[ListOp(j)] = calls[ListOp(j)]
      BY <1>5, <2>2, OpFacts
    <3> QED BY <1>1, <2>0, <3>1, <3>2, FreshStays
  <2> QED BY <2>1, <2>2
<1> QED BY <1>12, <1>13


(* do_update(): who can be found is told of a change and of the end of its *)
(* store, and the copy becomes the present list                            *)
LEMMA do_updateListKeeps ==
  ASSUME MgrRecord(mgr), LInv, FInv, do_update
  PROVE  LInv' /\ FInv'
<1> DEFINE old == mgr.items
           new == trk.items
           gone == Gone(old, new)
           changed == Changed(old, new)
           U == PassedOver(HoldersOf(gone))
           L == PassedOver(ListersOf(changed))
           dead == UNION {ValueFor(mgr, ks, id) : id \in gone}
           told == UNION {ValueFor(mgr, ks, id) : id \in changed}
<1>1. mgr.pc = "updating" /\ UNCHANGED <<st, trk, prov>>
  BY DEF do_update
<1>2. mgr' = [mgr EXCEPT !.pc = "idle", !.busy = mgr.newbusy, !.newbusy = FALSE, !.items = new,
                         !.reg = unreg(mgr, ks, dead), !.unaware = @ \cup U, !.stale = (@ \ told) \cup L]
  BY DEF do_update
<1>3. ks' = [k \in KS |->
                IF k \in dead THEN [ks[k] EXCEPT !.trackerId = 0]
                ELSE IF k \in told /\ needsUpdate(k) THEN [ks[k] EXCEPT !.need_update = TRUE]
                ELSE ks[k]]
  BY DEF do_update
<1>4. calls' = NewListCalls({k \in told : startsList(k)})
  BY DEF do_update
<1>5. mgr.reg \in Seq(KS) /\ ToSet(mgr.reg) = {k \in KS : ks[k].on /\ ks[k].trackerId # 0}
  BY DEF LInv, Registered
<1>6. ASSUME NEW id
      PROVE  /\ \A k \in ValueFor(mgr, ks, id) : k \in KS /\ k \in ToSet(mgr.reg) /\ ks[k].trackerId = id
             /\ \A k \in ToSet(mgr.reg) : ks[k].trackerId = id => ValueFor(mgr, ks, id) # {}
  <2>1. mgr.reg \in Seq(KS)
    BY <1>5
  <2>2. ASSUME NEW m, NEW o, m.reg \in Seq(KS)
        PROVE  /\ \A k \in ValueFor(m, o, id) : k \in KS /\ k \in ToSet(m.reg) /\ o[k].trackerId = id
               /\ \A k \in ToSet(m.reg) : o[k].trackerId = id => ValueFor(m, o, id) # {}
    BY <2>2, ValueForFacts, ZenonT(40)
  <2> QED BY <2>1, <2>2, Zenon
<1>7. \A k \in dead : k \in KS /\ ks[k].on /\ ks[k].trackerId # 0 /\ ks[k].trackerId \in gone
  BY <1>5, <1>6
<1>8. ASSUME NEW k \in KS, ks[k].on, ks[k].trackerId # 0
      PROVE  k \in ValueFor(mgr, ks, ks[k].trackerId) \/ \E j \in ValueFor(mgr, ks, ks[k].trackerId) : j # k
  BY <1>5, <1>6, <1>8
<1>9. ASSUME NEW k \in KS, ks[k].on, ks[k].trackerId # 0
      PROVE  /\ ks[k].trackerId \in gone => k \in dead \/ k \in U
             /\ ks[k].trackerId \in changed /\ ks[k].async => k \in told \/ k \in L
  <2>1. CASE k \in ValueFor(mgr, ks, ks[k].trackerId)
    BY <2>1
  <2>2. CASE \E j \in ValueFor(mgr, ks, ks[k].trackerId) : j # k
    BY <1>9, <2>2 DEF PassedOver, HoldersOf, ListersOf
  <2> QED BY <1>8, <1>9, <2>1, <2>2
<1>10. ASSUME NEW k \in KS, NEW x \in old, NEW y \in new, ks[k].trackerId = x.id, y.id = x.id, x.updateCount < y.updateCount
       PROVE  ks[k].trackerId \in changed
  BY <1>10 DEF Changed
<1>11. \A id \in IdsOf(old) : id \in gone \/ id \in IdsOf(new)
  BY DEF Gone
<1> HIDE DEF gone, changed, dead, told, U, L
<1>13. /\ mgr'.pc = "idle" /\ mgr'.items = new /\ mgr'.reg = unreg(mgr, ks, dead)
       /\ mgr'.unaware = mgr.unaware \cup U /\ mgr'.stale = (mgr.stale \ told) \cup L
  BY <1>2 DEF MgrRecord
<1>14. ks = [j \in KS |-> ks[j]] /\ \A j \in KS : ObjRecord(ks[j])
  BY DEF LInv, ObjFields
<1>15. ASSUME NEW k \in KS
       PROVE  /\ ObjRecord(ks'[k]) /\ ks'[k].on = ks[k].on
              /\ ks'[k].async = ks[k].async
              /\ k \in dead => ks'[k].trackerId = 0
              /\ k \notin dead => ks'[k].trackerId = ks[k].trackerId
              /\ k \notin dead /\ k \in told /\ needsUpdate(k) => ks'[k].need_update
              /\ k \notin dead /\ ~(k \in told /\ needsUpdate(k)) => ks'[k] = ks[k]
  <2>0. ObjRecord(ks[k])
    BY <1>14
  <2>1. CASE k \in dead
    <3>1. ks'[k] = [ks[k] EXCEPT !.trackerId = 0]
      BY <1>3, <2>1
    <3> QED BY <2>0, <2>1, <3>1 DEF ObjRecord
  <2>2. CASE k \notin dead /\ k \in told /\ needsUpdate(k)
    <3>1. ks'[k] = [ks[k] EXCEPT !.need_update = TRUE]
      BY <1>3, <2>2
    <3> QED BY <2>0, <2>2, <3>1 DEF ObjRecord
  <2>3. CASE k \notin dead /\ ~(k \in told /\ needsUpdate(k))
    <3>1. ks'[k] = ks[k]
      BY <1>3, <2>3
    <3> QED BY <2>0, <2>3, <3>1
  <2> QED BY <2>1, <2>2, <2>3
<1>16. ObjFields(ks')
  BY <1>3, <1>15 DEF ObjFields
<1>17. Registered(mgr'.reg, ks')
  <2>1. unreg(mgr, ks, dead) \in Seq(KS) /\ ToSet(unreg(mgr, ks, dead)) = ToSet(mgr.reg) \ dead
    BY <1>5, unregFacts
  <2>2. \A k \in KS : k \in ToSet(mgr.reg) \ dead <=> ks'[k].on /\ ks'[k].trackerId # 0
    BY <1>5, <1>15
  <2>3. ToSet(mgr.reg) \ dead \subseteq KS
    BY <1>5
  <2> QED BY <1>13, <2>1, <2>2, <2>3 DEF Registered
<1>19. ASSUME NEW k \in KS, Findable(mgr', k, ks'[k])
       PROVE  k \notin dead /\ Findable(mgr, k, ks[k]) /\ ks'[k].trackerId = ks[k].trackerId /\ k \notin U
  BY <1>13, <1>15, <1>19 DEF Findable
<1>20. InCopy(mgr', ks')
  <2> SUFFICES ASSUME NEW k \in KS, Findable(mgr', k, ks'[k]) PROVE ks'[k].trackerId \in IdsOf(new)
    BY <1>13 DEF InCopy
  <2>1. k \notin dead /\ Findable(mgr, k, ks[k]) /\ ks'[k].trackerId = ks[k].trackerId /\ k \notin U
    BY <1>19
  <2>2. ks[k].trackerId \in IdsOf(old)
    BY <2>1 DEF LInv, InCopy
  <2> QED BY <1>9, <1>11, <2>1, <2>2 DEF Findable
<1>21. LInv'
  <2>1. CopyOf(trk.items, trk) /\ ItemsOK(trk) /\ ProvFields(prov)
    BY CopyItself DEF LInv
  <2>2. NoneOn(mgr', ks')
    BY <1>13 DEF NoneOn
  <2> QED BY <1>1, <1>13, <1>16, <1>17, <1>20, <2>1, <2>2 DEF LInv
<1>22. FInv'
  <2> SUFFICES ASSUME NEW k \in KS, NEW i \in new,
                      Current(mgr', k, ks'[k]), ks'[k].async, ks'[k].trackerId = i.id
               PROVE  FreshOrComing(k, i)'
    BY <1>1 DEF FInv
  <2>1. /\ k \notin dead /\ Findable(mgr, k, ks[k]) /\ ks[k].trackerId = i.id /\ ks[k].async
        /\ k \notin L /\ (k \notin told => k \notin mgr.stale)
    BY <1>13, <1>15, <1>19 DEF Current
  <2>2. k \notin told => FreshOrComing(k, i)
    BY <2>1 DEF FInv, Current
  <2>3. ListOp(k) \in Callers /\ ListOp(k)[1] = k /\ ListOp(k)[2] = "list"
    BY OpFacts
  <2> DEFINE S == {j \in told : startsList(j)}
  <2>4. k \in S <=> k \in told /\ startsList(k)
    OBVIOUS
  <2> HIDE DEF S
  <2>5. calls'[ListOp(k)] = IF k \in S THEN [pc |-> "wanted", arg |-> ks[k].trackerId, ret |-> <<>>]
                            ELSE calls[ListOp(k)]
    BY <1>4, <2>3 DEF NewListCalls, S
  <2>6. CASE k \in told /\ have_entryList_op(k)
    <3>1. needsUpdate(k) /\ ~startsList(k)
      BY <2>1, <2>6 DEF needsUpdate, startsList
    <3>2. ks'[k].need_update
      BY <1>15, <2>1, <2>6, <3>1
    <3>3. have_entryList_op(k)'
      BY <2>4, <2>5, <2>6, <3>1 DEF have_entryList_op
    <3> QED BY <3>2, <3>3 DEF FreshOrComing
  <2>7. CASE k \in told /\ ~have_entryList_op(k)
    <3>1. startsList(k)
      BY <2>1, <2>7 DEF startsList
    <3>2. calls'[ListOp(k)] = [pc |-> "wanted", arg |-> ks[k].trackerId, ret |-> <<>>]
      BY <2>4, <2>5, <2>7, <3>1
    <3>3. ks'[k].trackerId = ks[k].trackerId
      BY <1>15, <2>1
    <3>4. Asked(k)'
      BY <3>2, <3>3 DEF Asked
    <3> QED BY <3>4 DEF FreshOrComing
  <2>8. CASE k \notin told
    <3>1. ks'[k] = ks[k] /\ calls'[ListOp(k)] = calls[ListOp(k)]
      BY <1>15, <2>1, <2>4, <2>5, <2>8
    <3>2. ~\E x \in old : x.id = i.id /\ x.updateCount < i.updateCount
      BY <1>9, <1>10, <2>1, <2>8 DEF Findable
    <3>3. prov' = prov /\ st' = st
      BY <1>1
    <3>4. Asked(k) => Asked(k)'
      BY <3>1, <3>3 DEF Asked
    <3>5. Answered(k, prov[i.src].version) => Answered(k, prov[i.src].version)'
      BY <3>1, <3>3 DEF Answered
    <3>6. have_entryList_op(k)' <=> have_entryList_op(k)
      BY <3>1 DEF have_entryList_op
    <3> QED BY <2>2, <2>8, <3>1, <3>2, <3>3, <3>4, <3>5, <3>6 DEF FreshOrComing
  <2> QED BY <2>6, <2>7, <2>8
<1> QED BY <1>21, <1>22


------------------------------------------------------------------------------
LEMMA InitLists == Init => LInv /\ FInv
<1> SUFFICES ASSUME Init PROVE LInv /\ FInv
  OBVIOUS
<1>1. ks = [k \in KS |-> NoObject] /\ mgr = NoManager /\ trk = NewTracker
  BY DEF Init
<1>2. \A k \in KS : ks[k] = NoObject
  BY <1>1
<1>3. ObjFields(ks) /\ \A k \in KS : ~ks[k].on
  BY <1>1, <1>2, NoObjectFacts DEF ObjFields
<1>4. ItemsOK(trk) /\ CopyOf({}, trk)
  BY <1>1 DEF ItemsOK, CopyOf, NewTracker
<1>5. mgr.items = {} /\ mgr.reg = <<>>
  BY <1>1 DEF NoManager
<1>6. ProvFields(prov)
  BY DEF Init, ProvFields, ProvRecord
<1>7. Registered(mgr.reg, ks)
  BY <1>3, <1>5, NobodyRegistered
<1>8. NoneOn(mgr, ks) /\ InCopy(mgr, ks)
  BY <1>3, <1>5 DEF NoneOn, InCopy, Findable
<1>9. FInv
  BY <1>3 DEF FInv, Current, Findable
<1> QED BY <1>3, <1>4, <1>5, <1>6, <1>7, <1>8, <1>9 DEF LInv

LEMMA NextLists == world \in Worlds /\ KInv /\ LInv /\ FInv /\ [Next]_vars => LInv' /\ FInv'
<1> SUFFICES ASSUME world \in Worlds, KInv, LInv, FInv, [Next]_vars PROVE LInv' /\ FInv'
  OBVIOUS
<1>0. SInv /\ TrkRecord(trk) /\ MgrRecord(mgr)
  BY DEF KInv, SInv, Fields
<1>a. st.owner # "started" => mgr.pc = "none"
  BY <1>0 DEF SInv, CallPlaces
<1>1. CASE ThreadStep
  <2>1. UNCHANGED <<trk, prov, mgr, ks>>
    BY <1>1 DEF ThreadStep
  <2>2. CASE agentStarted \/ ownerWoken
    <3>1. st.owner # "started"
      BY <1>0, <2>2 DEF agentStarted, ownerWoken, SInv, OwnerPlaces
    <3> QED BY <1>a, <2>1, <3>1, ThreadListKeeps
  <2>3. ASSUME NEW c \in Callers, lockCall(c) PROVE LInv' /\ FInv'
    BY <1>0, <2>1, <2>3, lockCallListKeeps
  <2>4. ASSUME NEW c \in Callers, endCall(c) PROVE LInv' /\ FInv'
    BY <1>0, <2>1, <2>4, endCallListKeeps
  <2> QED BY <1>1, <2>2, <2>3, <2>4 DEF ThreadStep
<1>2. CASE QueuedNotify
  BY <1>0, <1>2, startListKeeps
<1>3. CASE updated_locked
  BY <1>0, <1>3, updated_lockedListKeeps
<1>4. CASE CallSlot
  BY <1>0, <1>4, CallSlotListKeeps
<1>5. CASE ThreadEnds
  <2>1. mgr.pc = "none"
    BY <1>0, <1>5, endThreadFacts DEF ThreadEnds
  <2> QED BY <1>5, <2>1, ThreadEndsListKeeps
<1>6. CASE ManagerStep
  BY <1>0, <1>6, syncListKeeps, PlaceListKeeps, do_updateListKeeps DEF ManagerStep
<1>7. CASE ObjectStep
  BY <1>0, <1>7, op_finishedListKeeps, write_finishedListKeeps DEF ObjectStep
<1>8. CASE SourceStep
  <2>1. PICK s \in Sources, has \in BOOLEAN :
           \/ ksl_busyStart(s) \/ ksl_busyEnd(s, has) \/ ksl_updated(s, has) \/ ksl_storeUpdated(s)
           \/ Edit(s)
    BY <1>8 DEF SourceStep
  <2> QED BY <1>0, <2>1, busyStartListKeeps, busyEndListKeeps, storeUpdatedListKeeps, EditListKeeps
<1>9. CASE UserStep
  <2>1. CASE ensure_init \/ shutdown
    <3>1. UNCHANGED <<trk, prov, mgr, ks>>
      BY <2>1 DEF ensure_init, shutdown
    <3>2. mgr.pc = "none"
      BY <1>a, <2>1 DEF ensure_init, startThread, shutdown
    <3> QED BY <3>1, <3>2, ThreadListKeeps
  <2>2. CASE start \/ \E s \in Sources : startOne(s)
    BY <1>0, <2>2, startListKeeps
  <2>3. CASE addTarget \/ waitForBusyFinished \/ removeTarget
    BY <1>0, <2>3, addTargetListKeeps, PlaceListKeeps, removeTargetListKeeps
  <2>4. world.objects \subseteq KS /\ world.writers \subseteq KS
    BY KeyStoreAssumption
  <2>5. ASSUME NEW k \in world.objects, NEW i \in mgr.items, newKeyStore(k, i) PROVE LInv' /\ FInv'
    BY <1>0, <2>4, <2>5, newKeyStoreListKeeps
  <2>6. ASSUME NEW k \in world.objects, deleteKeyStore(k) PROVE LInv' /\ FInv'
    BY <1>0, <2>4, <2>6, deleteKeyStoreListKeeps
  <2>7. ASSUME NEW k \in KS, startAsynchronousMode(k) \/ async_writeEntry(k) PROVE LInv' /\ FInv'
    BY <1>0, <2>7, beginCallListKeeps
  <2> QED BY <1>9, <2>1, <2>2, <2>3, <2>4, <2>5, <2>6, <2>7 DEF UserStep
<1>10. CASE UNCHANGED vars
  <2>1. UNCHANGED <<st, calls, prov, mgr, ks>> /\ SameItems(trk, trk')
    BY <1>10 DEF vars, SameItems
  <2> QED BY <2>1, SameTrackerKeeps
<1> QED
  BY <1>1, <1>2, <1>3, <1>4, <1>5, <1>6, <1>7, <1>8, <1>9, <1>10 DEF Next, TrackerStep

LEMMA InvariantLists == Spec => [](LInv /\ FInv)
<1>1. Init => LInv /\ FInv
  BY InitLists
<1>2. world \in Worlds /\ KInv /\ (LInv /\ FInv) /\ [Next]_vars => (LInv /\ FInv)'
  BY NextLists
<1> QED
  BY <1>1, <1>2, InvariantKInv, WorldStays, PTL DEF Spec

(* When no update is on its way to an idle manager, an object that has a   *)
(* store has it in the tracker's list: do_update() told the others that    *)
(* theirs is gone, save those whose store another object was told of, or   *)
(* went while waitForBusyFinished() replaced the copy.                     *)
THEOREM EndOfStoreIsTold == Spec => []GoneIsTold
<1>1. KInv /\ LInv /\ FInv => GoneIsTold
  <2> SUFFICES ASSUME KInv, LInv, ~UpdateOnItsWay, mgr.pc = "idle", NEW k \in KS, Found(k)
               PROVE  ks[k].trackerId \in IdsOf(trk.items)
    BY DEF GoneIsTold
  <2>1. mgr.items = trk.items
    BY DEF KInv, CInv, CopyOnItsWay
  <2>2. Findable(mgr, k, ks[k])
    BY DEF Found, Findable
  <2> QED BY <2>1, <2>2 DEF LInv, InCopy
<1> QED BY <1>1, InvariantKInv, InvariantLists, PTL

(* An asynchronous KeyStore that is not listing, and of whose store no     *)
(* news is on its way, holds the present entries: a change that falls      *)
(* between the slot's read and the queued op_finished() is asked for       *)
(* again, one that falls before do_update() is told by it.  The exceptions *)
(* are those of ListFresh: a change it was not told of, until the next.    *)
THEOREM ListsAreFresh == Spec => []ListFresh
<1>1. KInv /\ LInv /\ FInv => ListFresh
  <2> SUFFICES ASSUME KInv, LInv, FInv, ~UpdateOnItsWay, mgr.pc = "idle", NEW k \in KS, NEW i \in trk.items,
                      Found(k), ks[k].async, k \notin mgr.stale, ks[k].trackerId = i.id, ~have_entryList_op(k), ~prov[i.src].changed
               PROVE  ks[k].latest = prov[i.src].version
    BY DEF ListFresh
  <2>1. mgr.items = trk.items
    BY DEF KInv, CInv, CopyOnItsWay
  <2>2. Current(mgr, k, ks[k])
    BY DEF Found, Findable, Current
  <2>3. FreshOrComing(k, i)
    BY <2>2 DEF FInv
  <2>4. ~\E x \in mgr.items : x.id = i.id /\ x.updateCount < i.updateCount
    <3> SUFFICES ASSUME NEW x \in trk.items, x.id = i.id, x.updateCount < i.updateCount PROVE FALSE
      BY <2>1
    <3>1. x = i /\ i \in Items
      BY DEF LInv, ItemsOK
    <3>2. i.updateCount \in Nat
      BY <3>1, ItemFacts
    <3> QED BY <3>1, <3>2
  <2>5. ~Asked(k) /\ ~Answered(k, prov[i.src].version)
    BY DEF Asked, Answered, have_entryList_op
  <2> QED BY <2>3, <2>4, <2>5 DEF FreshOrComing
<1> QED BY <1>1, InvariantKInv, InvariantLists, PTL
==============================================================================
