------------------------------- MODULE KeyStore -------------------------------
(***************************************************************************)
(* Key stores (qca_keystore.cpp).  KeyStoreTracker lives in a SyncThread,  *)
(* hears of the key store lists of the providers and keeps the list of     *)
(* stores.  A KeyStoreManager keeps a copy of that list in a thread of the *)
(* application and tells its KeyStore objects what changed.  A KeyStore in *)
(* asynchronous mode reads and writes entries through a thread of its own  *)
(* for each operation.                                                     *)
(*                                                                         *)
(* Each source has at most one store at a time.  The content of a store is *)
(* a version number; names and read-only flags are left out.  trackerIds   *)
(* count from 1, 0 stands for -1.  Definitions named Operation_Slip are    *)
(* mistakes one could make in the code of Operation; only mutants use them.*)
(***************************************************************************)
EXTENDS SyncThread, SequencesExt, Lists

CONSTANTS
    Sources,     \* key store lists of the providers
    KS,          \* KeyStore objects
    Worlds,      \* instances: the plugins installed, the objects used, those that write
    MaxIds,      \* bound: trackerIds given out
    MaxVersion,  \* bound: changes of the content of a store
    MaxUpdates   \* bound: queued updated_locked() calls when a source acts

ASSUME KeyStoreAssumption ==
    /\ Callers = KS \X {"list", "write"}
    /\ Worlds \subseteq [plugins : SUBSET Sources, objects : SUBSET KS, writers : SUBSET KS]
    /\ MaxIds \in Nat /\ MaxVersion \in Nat /\ MaxUpdates \in Nat

VARIABLES
    world,  \* the instance
    trk,    \* KeyStoreTracker
    prov,   \* the sources: has a store, its content, signals to be emitted
    mgr,    \* KeyStoreManagerPrivate and where the application's thread is
    ks      \* the KeyStore objects

vars == <<world, st, calls, trk, prov, mgr, ks>>

Items == [src : Sources, id : Nat, updateCount : Nat]

(* posts: queued updated_locked() calls; notify: a queued                  *)
(* notifyIfNotBusy()                                                       *)
Trackers ==
    [sources : SUBSET Sources, busySources : SUBSET Sources, items : SUBSET Items,
     tracker_id_at : Nat, busy : BOOLEAN, posts : Nat, notify : BOOLEAN]

NewTracker ==
    [sources |-> {}, busySources |-> {}, items |-> {}, tracker_id_at |-> 1,
     busy |-> TRUE, posts |-> 0, notify |-> FALSE]

(* changed: the content changed and storeUpdated() was not emitted yet *)
Lists == [has : BOOLEAN, version : Nat, changed : BOOLEAN]

(* pc: "none", there is no manager; "connected", between addTarget() and   *)
(* sync(); "waiting" and "woken" in waitForBusyFinished(); "updating"      *)
(* inside update().  pending: an update() is queued.  reg: the KeyStore    *)
(* objects registered, latest first.  History: the objects that were never *)
(* told of the end of their store (unaware), or of the last change of one  *)
(* that they list (stale), because the copy was replaced under a wait, or  *)
(* because another object of the same store was told.                      *)
Managers ==
    [pc : {"none", "connected", "idle", "waiting", "woken", "updating"},
     busy : BOOLEAN, newbusy : BOOLEAN, items : SUBSET Items, pending : BOOLEAN,
     reg : Seq(KS), unaware : SUBSET KS, stale : SUBSET KS]

NoManager ==
    [pc |-> "none", busy |-> TRUE, newbusy |-> FALSE, items |-> {}, pending |-> FALSE,
     reg |-> <<>>, unaware |-> {}, stale |-> {}]

Objects ==
    [on : BOOLEAN, trackerId : Nat, async : BOOLEAN, need_update : BOOLEAN,
     latest : Int]

NoObject ==
    [on |-> FALSE, trackerId |-> 0, async |-> FALSE, need_update |-> FALSE,
     latest |-> -1]

Init ==
    /\ SyncInit
    /\ world \in Worlds
    /\ trk = NewTracker
    /\ prov = [s \in Sources |-> [has |-> FALSE, version |-> 0, changed |-> FALSE]]
    /\ mgr = NoManager
    /\ ks = [k \in KS |-> NoObject]

------------------------------------------------------------------------------
(* The tracker, in its thread *)

TrackerRuns == st.run = "on"

ItemOf(items, id) == {i \in items : i.id = id}
IdsOf(items) == {i.id : i \in items}

(* emit updated_p(), queued *)
updated_p(x) == [x EXCEPT !.posts = @ + 1]

(* startProvider() *)
startProviders(x, S) ==
    [x EXCEPT !.sources = @ \cup S, !.busySources = @ \cup (S \ x.sources)]

notifyIfNotBusy(x) ==
    IF x.busySources = {} THEN updated_p([x EXCEPT !.busy = FALSE]) ELSE x

(* start(), and scan(), which does it again; it notifies also when it      *)
(* found no new provider.  start(provider)                                 *)
start ==
    /\ TrackerRuns /\ trk.posts < MaxUpdates
    /\ trk' = notifyIfNotBusy(startProviders(trk, world.plugins))
    /\ UNCHANGED <<st, calls, prov, mgr, ks>>

startOne(s) ==
    /\ TrackerRuns /\ s \in world.plugins \ trk.sources
    /\ trk' = startProviders(trk, {s})
    /\ UNCHANGED <<st, calls, prov, mgr, ks>>

(* updateStores(): the item of a source whose store is gone leaves the     *)
(* list, a new store enters it with the next trackerId                     *)
updateStores(x, s, has) ==
    LET mine == {i \in x.items : i.src = s}
    IN CASE ~has -> [x EXCEPT !.items = @ \ mine]
         [] has /\ mine = {} ->
               [x EXCEPT !.items = @ \cup {[src |-> s, id |-> x.tracker_id_at, updateCount |-> 0]},
                         !.tracker_id_at = @ + 1]
         [] OTHER -> x

(* a source that finds its store, or loses it *)
ListChanges(s, has) ==
    /\ has => trk.tracker_id_at <= MaxIds
    /\ prov' = [prov EXCEPT ![s].has = has, ![s].changed = @ /\ has]

ksl_busyStart(s) ==
    /\ TrackerRuns /\ s \in trk.sources \ trk.busySources /\ trk.posts < MaxUpdates
    /\ trk' = updated_p([trk EXCEPT !.busySources = @ \cup {s}])
    /\ UNCHANGED <<st, calls, prov, mgr, ks>>

ksl_busyEnd_KeepsBusy(s, has) ==
    LET x == updateStores([trk EXCEPT !.busySources = @ \ {s}], s, has)
    IN /\ TrackerRuns /\ s \in trk.busySources /\ trk.posts < MaxUpdates
       /\ ListChanges(s, has)
       /\ trk' = IF x.items # trk.items
                 THEN updated_p([x EXCEPT !.busy = @ /\ x.busySources # {}])
                 ELSE [x EXCEPT !.busy = @ /\ x.busySources # {}]
       /\ UNCHANGED <<st, calls, mgr, ks>>

ksl_busyEnd(s, has) ==
    LET x == updateStores([trk EXCEPT !.busySources = @ \ {s}], s, has)
    IN /\ TrackerRuns /\ s \in trk.busySources /\ trk.posts < MaxUpdates
       /\ ListChanges(s, has)
       /\ trk' = IF x.busySources = {} THEN updated_p([x EXCEPT !.busy = FALSE])
                 ELSE IF x.items # trk.items THEN updated_p(x) ELSE x
       /\ UNCHANGED <<st, calls, mgr, ks>>

ksl_updated(s, has) ==
    LET x == updateStores(trk, s, has)
    IN /\ TrackerRuns /\ s \in trk.sources /\ prov[s].has # has /\ trk.posts < MaxUpdates
       /\ ListChanges(s, has)
       /\ trk' = IF x.items # trk.items THEN updated_p(x) ELSE x
       /\ UNCHANGED <<st, calls, mgr, ks>>

(* the content of a store changes; the source notices that later *)
Edit(s) ==
    /\ prov[s].has /\ prov[s].version < MaxVersion
    /\ prov' = [prov EXCEPT ![s].version = @ + 1, ![s].changed = TRUE]
    /\ UNCHANGED <<st, calls, trk, mgr, ks>>

ksl_storeUpdated(s) ==
    /\ TrackerRuns /\ s \in trk.sources /\ prov[s].changed /\ trk.posts < MaxUpdates
    /\ prov' = [prov EXCEPT ![s].changed = FALSE]
    /\ trk' = IF \E i \in trk.items : i.src = s
              THEN updated_p([trk EXCEPT !.items =
                       {IF i.src = s THEN [i EXCEPT !.updateCount = @ + 1] ELSE i : i \in @}])
              ELSE trk
    /\ UNCHANGED <<st, calls, mgr, ks>>

QueuedNotify ==
    /\ TrackerRuns /\ trk.notify
    /\ trk' = notifyIfNotBusy([trk EXCEPT !.notify = FALSE])
    /\ UNCHANGED <<st, calls, prov, mgr, ks>>

(* what became of the stores between two lists, and the objects of stores  *)
Gone(old, new) == IdsOf(old) \ IdsOf(new)

Changed(old, new) ==
    {i.id : i \in {x \in old : \E y \in new : y.id = x.id /\ x.updateCount < y.updateCount}}

HoldersOf(ids) == {k \in KS : ks[k].on /\ ks[k].trackerId \in ids}
ListersOf(ids) == {k \in HoldersOf(ids) : ks[k].async}

tracker_updated_OrWakes(m, x) ==
    CASE m.pc \notin {"waiting", "woken"} -> [m EXCEPT !.pending = TRUE]
      [] ~x.busy -> [m EXCEPT !.pc = "woken", !.busy = FALSE, !.items = x.items]
      [] OTHER -> m

(* KeyStoreManagerPrivate::tracker_updated(), called in this thread: post  *)
(* update() once; a waiting manager gets its copy here                     *)
tracker_updated(m, x) ==
    LET told == [m EXCEPT !.pending = TRUE]
    IN IF m.pc \in {"waiting", "woken"} /\ ~x.busy
       THEN [told EXCEPT !.pc = "woken", !.busy = FALSE, !.items = x.items,
                         !.unaware = @ \cup HoldersOf(Gone(m.items, x.items)),
                         !.stale = @ \cup ListersOf(Changed(m.items, x.items))]
       ELSE told

updated_locked ==
    /\ TrackerRuns /\ trk.posts > 0
    /\ trk' = [trk EXCEPT !.posts = @ - 1]
    /\ mgr' = IF mgr.pc = "none" THEN mgr ELSE tracker_updated(mgr, trk)
    /\ UNCHANGED <<st, calls, prov, ks>>

(* the slots entryList(), and writeEntry() or removeEntry(), called by     *)
(* trackercall(); arg is the trackerId                                     *)
entryList(id) ==
    IF ItemOf(trk.items, id) = {} THEN -1
    ELSE LET i == CHOOSE i \in trk.items : i.id = id IN prov[i.src].version

SourceOf(id) == {i.src : i \in ItemOf(trk.items, id)}

CallSlot ==
    LET c == Head(st.posted)
        id == calls[c].arg
    IN /\ CallPosted
       /\ call_do(<<c, entryList(id)>>)
       /\ prov' = IF c[2] = "write"
                  THEN [s \in Sources |->
                           IF s \in SourceOf(id) /\ prov[s].has /\ prov[s].version < MaxVersion
                           THEN [prov[s] EXCEPT !.version = @ + 1, !.changed = TRUE]
                           ELSE prov[s]]
                  ELSE prov
       /\ UNCHANGED <<trk, mgr, ks>>

------------------------------------------------------------------------------
(* The thread of the application: the manager *)

(* ensure_init(), the constructor: addTarget() and then sync() *)
ensure_init == startThread /\ UNCHANGED <<trk, prov, mgr, ks>>

addTarget ==
    /\ mgr.pc = "none" /\ st.owner = "started"
    /\ mgr' = [NoManager EXCEPT !.pc = "connected"]
    /\ UNCHANGED <<st, calls, trk, prov, ks>>

sync ==
    /\ mgr.pc = "connected"
    /\ mgr' = [mgr EXCEPT !.pc = "idle", !.busy = trk.busy, !.items = trk.items]
    /\ UNCHANGED <<st, calls, trk, prov, ks>>

waitForBusyFinished ==
    /\ mgr.pc = "idle"
    /\ mgr' = [mgr EXCEPT !.busy = trk.busy, !.pc = IF trk.busy THEN "waiting" ELSE @]
    /\ trk' = [trk EXCEPT !.notify = @ \/ trk.busy]
    /\ UNCHANGED <<st, calls, prov, ks>>

Woken ==
    /\ mgr.pc = "woken"
    /\ mgr' = [mgr EXCEPT !.pc = "idle"]
    /\ UNCHANGED <<st, calls, trk, prov, ks>>

(* update() up to the first read of do_update() *)
update ==
    /\ mgr.pc = "idle" /\ mgr.pending
    /\ mgr' = [mgr EXCEPT !.pending = FALSE, !.newbusy = trk.busy, !.pc = "updating"]
    /\ UNCHANGED <<st, calls, trk, prov, ks>>

(* unreg() of the objects in S inserts the others of the same trackerId    *)
(* again, latest first, which turns their order round                      *)
unreg(m, o, S) ==
    LET ids == {o[k].trackerId : k \in S}
        left == Keep(m.reg, KS \ S)
        again == {k \in KS : o[k].trackerId \in ids}
    IN Reverse(Keep(left, again)) \o Keep(left, KS \ again)

(* keyStoreForTrackerId.value(): the object registered last for an id *)
ValueFor(m, o, id) ==
    LET found == Keep(m.reg, {k \in KS : o[k].trackerId = id})
    IN IF found = <<>> THEN {} ELSE {Head(found)}

ListOp(k) == <<k, "list">>
have_entryList_op(k) == calls[ListOp(k)].pc # "idle"

(* handle_updated() *)
needsUpdate(k) == ks[k].async /\ have_entryList_op(k)
startsList(k) == ks[k].async /\ ~have_entryList_op(k)

NewListCalls(S) ==
    [c \in Callers |->
        IF c[2] = "list" /\ c[1] \in S
        THEN [pc |-> "wanted", arg |-> ks[c[1]].trackerId, ret |-> <<>>] ELSE calls[c]]

do_update_CopiesFirst ==
    /\ mgr.pc = "updating"
    /\ mgr' = [mgr EXCEPT !.pc = "idle", !.busy = mgr.newbusy, !.newbusy = FALSE,
                          !.items = trk.items]
    /\ UNCHANGED <<st, calls, trk, prov, ks>>

(* the objects whose news another object of the same store is told *)
PassedOver(S) == {k \in S : \E j \in ValueFor(mgr, ks, ks[k].trackerId) : j # k}

(* the rest of do_update(): what is gone, what changed, and the signals *)
do_update ==
    LET new == trk.items
        gone == Gone(mgr.items, new)
        changed == Changed(mgr.items, new)
        dead == UNION {ValueFor(mgr, ks, id) : id \in gone}
        told == UNION {ValueFor(mgr, ks, id) : id \in changed}
    IN /\ mgr.pc = "updating"
       /\ mgr' = [mgr EXCEPT !.pc = "idle", !.busy = mgr.newbusy, !.newbusy = FALSE, !.items = new,
                             !.reg = unreg(mgr, ks, dead),
                             !.unaware = @ \cup PassedOver(HoldersOf(gone)),
                             !.stale = (@ \ told) \cup PassedOver(ListersOf(changed))]
       /\ ks' = [k \in KS |->
                    IF k \in dead THEN [ks[k] EXCEPT !.trackerId = 0]
                    ELSE IF k \in told /\ needsUpdate(k) THEN [ks[k] EXCEPT !.need_update = TRUE]
                    ELSE ks[k]]
       /\ calls' = NewListCalls({k \in told : startsList(k)})
       /\ UNCHANGED <<st, trk, prov>>

OpsOf(k) == {c \in Callers : c[1] = k}

(* the manager's destructor deletes the KeyStore objects, its children,    *)
(* and they join their threads                                             *)
removeTarget ==
    /\ mgr.pc = "idle"
    /\ \A c \in Callers : calls[c].pc \in {"idle", "done"}
    /\ mgr' = NoManager
    /\ ks' = [k \in KS |-> NoObject]
    /\ calls' = [c \in Callers |-> NoCall]
    /\ UNCHANGED <<st, trk, prov>>

(* shutdown(), when no manager is left *)
shutdown ==
    /\ mgr.pc = "none" /\ stopThread
    /\ UNCHANGED <<trk, prov, mgr, ks>>

ThreadEnds ==
    /\ endThread
    /\ trk' = [NewTracker EXCEPT !.tracker_id_at = trk.tracker_id_at]
    /\ prov' = [s \in Sources |-> [prov[s] EXCEPT !.changed = FALSE]]
    /\ UNCHANGED <<mgr, ks>>

------------------------------------------------------------------------------
(* The thread of the application: KeyStore objects *)

newKeyStore(k, i) ==
    /\ mgr.pc = "idle" /\ ~ks[k].on
    /\ ks' = [ks EXCEPT ![k] = [NoObject EXCEPT !.on = TRUE, !.trackerId = i.id]]
    /\ mgr' = [mgr EXCEPT !.reg = <<k>> \o @, !.unaware = @ \ {k}, !.stale = @ \ {k}]
    /\ UNCHANGED <<st, calls, trk, prov>>

deleteKeyStore(k) ==
    /\ mgr.pc = "idle" /\ ks[k].on
    /\ \A c \in OpsOf(k) : calls[c].pc \in {"idle", "done"}
    /\ ks' = [ks EXCEPT ![k] = NoObject]
    /\ calls' = [c \in Callers |-> IF c[1] = k THEN NoCall ELSE calls[c]]
    /\ mgr' = [mgr EXCEPT !.reg = unreg(mgr, ks, {k})]
    /\ UNCHANGED <<st, trk, prov>>

startAsynchronousMode(k) ==
    /\ mgr.pc = "idle" /\ ks[k].on /\ ~ks[k].async
    /\ ks' = [ks EXCEPT ![k].async = TRUE, ![k].need_update = FALSE]
    /\ beginCall(ListOp(k), ks[k].trackerId)
    /\ UNCHANGED <<trk, prov, mgr>>

(* writeEntry() and removeEntry() in asynchronous mode *)
async_writeEntry(k) ==
    /\ mgr.pc = "idle" /\ ks[k].async
    /\ beginCall(<<k, "write">>, ks[k].trackerId)
    /\ UNCHANGED <<trk, prov, mgr, ks>>

op_finished_DropsNeed(k) ==
    LET r == calls[ListOp(k)].ret
    IN /\ mgr.pc = "idle" /\ calls[ListOp(k)].pc = "done"
       /\ ks' = [ks EXCEPT ![k].latest = r[2], ![k].need_update = FALSE]
       /\ calls' = [calls EXCEPT ![ListOp(k)] = NoCall]
       /\ UNCHANGED <<st, trk, prov, mgr>>

(* the queued op_finished() of an EntryList operation *)
op_finished(k) ==
    LET r == calls[ListOp(k)].ret
    IN /\ mgr.pc = "idle" /\ calls[ListOp(k)].pc = "done"
       /\ ks' = [ks EXCEPT ![k].latest = r[2],
                            ![k].need_update = FALSE]
       /\ calls' = [calls EXCEPT ![ListOp(k)] =
                        IF ks[k].need_update
                        THEN [pc |-> "wanted", arg |-> ks[k].trackerId, ret |-> <<>>]
                        ELSE NoCall]
       /\ UNCHANGED <<st, trk, prov, mgr>>

(* op_finished() of the other operations *)
write_finished(k) ==
    /\ mgr.pc = "idle" /\ calls[<<k, "write">>].pc = "done"
    /\ calls' = [calls EXCEPT ![<<k, "write">>] = NoCall]
    /\ UNCHANGED <<st, trk, prov, mgr, ks>>

------------------------------------------------------------------------------
ThreadStep ==
    /\ agentStarted \/ ownerWoken \/ \E c \in Callers : lockCall(c) \/ endCall(c)
    /\ UNCHANGED <<trk, prov, mgr, ks>>

TrackerStep == QueuedNotify \/ updated_locked \/ CallSlot \/ ThreadEnds

ManagerStep == sync \/ Woken \/ update \/ do_update

ObjectStep ==
    \E k \in KS : op_finished(k) \/ write_finished(k)

SourceStep ==
    \E s \in Sources :
        \/ ksl_busyStart(s) \/ ksl_storeUpdated(s) \/ Edit(s)
        \/ \E has \in BOOLEAN : ksl_busyEnd(s, has) \/ ksl_updated(s, has)

UserStep ==
    \/ ensure_init \/ start \/ (\E s \in Sources : startOne(s)) \/ addTarget
    \/ waitForBusyFinished \/ removeTarget \/ shutdown
    \/ \E k \in world.objects :
          \/ \E i \in mgr.items : newKeyStore(k, i)
          \/ deleteKeyStore(k) \/ startAsynchronousMode(k)
    \/ \E k \in world.writers : async_writeEntry(k)

Next ==
    /\ ThreadStep \/ TrackerStep \/ ManagerStep \/ ObjectStep \/ SourceStep \/ UserStep
    /\ UNCHANGED world

Spec == Init /\ [][Next]_vars

------------------------------------------------------------------------------
(* The lists of the tracker, of the manager and of the KeyStore objects    *)
(* have the types of their declarations.                                   *)
TypeOK ==
    /\ st.run \in {"off", "boot", "on"} /\ st.owner \in {"none", "starting", "started", "stopping"}
    /\ trk \in Trackers
    /\ prov \in [Sources -> Lists]
    /\ mgr.pc \in {"none", "connected", "idle", "waiting", "woken", "updating"}
    /\ mgr.reg \in Seq(KS) /\ mgr.items \subseteq Items
    /\ mgr.unaware \subseteq KS /\ mgr.stale \subseteq KS
    /\ ks \in [KS -> Objects]

(* Who got an answer from the thread got its own: one wait condition for   *)
(* all callers wakes the one whose slot has returned                       *)
OwnAnswer == \A c \in Callers : calls[c].pc = "done" => calls[c].ret # <<>> /\ calls[c].ret[1] = c

UpdateOnItsWay == trk.posts > 0 \/ mgr.pending \/ mgr.pc = "updating"

(* A manager's copy that differs from the tracker's list is about to be    *)
(* brought up to date: no update is lost between the thread that changes   *)
(* the list, the one notice that is posted at a time, and the reader       *)
CopyOnItsWay ==
    mgr.pc \notin {"none", "connected"} /\ (mgr.items # trk.items \/ mgr.busy # trk.busy)
        => UpdateOnItsWay

(* An object with a store of whose end it has been, or will be, told *)
Found(k) == ks[k].on /\ ks[k].trackerId # 0 /\ k \notin mgr.unaware

(* When no update is on its way, an object whose store is gone knows it,   *)
(* unless the store went while waitForBusyFinished() replaced the copy, or *)
(* another object of the same store was told of it instead                 *)
GoneIsTold ==
    ~UpdateOnItsWay /\ mgr.pc = "idle" =>
        \A k \in KS : Found(k) => ks[k].trackerId \in IdsOf(trk.items)

(* An asynchronous KeyStore that does nothing, and of whose store no news  *)
(* is on its way, holds the present entries: a change during an operation  *)
(* is not forgotten.  Excepted is an object that was not told of the last  *)
(* change, because it fell into a copy replaced by waitForBusyFinished()   *)
(* or another object of the same store was told; the next change it is     *)
(* told of ends the exception.                                             *)
ListFresh ==
    ~UpdateOnItsWay /\ mgr.pc = "idle" =>
        \A k \in KS : \A i \in trk.items :
            Found(k) /\ ks[k].async /\ k \notin mgr.stale /\ ks[k].trackerId = i.id
            /\ ~have_entryList_op(k) /\ ~prov[i.src].changed
                => ks[k].latest = prov[i.src].version

(* Who sleeps in waitForBusyFinished() is woken: a source is still busy    *)
(* and its end will be heard of, or the news is on its way                 *)
WakeOnItsWay ==
    mgr.pc = "waiting" => trk.busySources # {} \/ trk.notify \/ trk.posts > 0

(* Who waits for the thread has its slot posted there, or was woken *)
CallOnItsWay ==
    \A c \in st.waiters : c = Owner \/ \E n \in DOMAIN st.posted : st.posted[n] = c
==============================================================================
