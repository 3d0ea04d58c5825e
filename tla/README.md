# QCA in TLA+

QCA (the Qt Cryptographic Architecture) gives Qt applications cryptography through providers that are loaded as plugins. Most of the library's own logic is not cryptography. It is event-driven code: it stands between an application, a network and a provider, holds the questions of providers until a handler answers them, bridges threads, and keeps lists of keys up to date. That code is what this project models, with TLC configurations that check it on small instances and TLAPS proofs for the parts that can be proved for every instance.

Paths below are relative to `src/`; the core of the library is `src/src/`.

## Inventory

| Component | State | Operations | What is hard about it |
|---|---|---|---|
| `TLS` (`src/qca_securelayer.cpp`) | `TLS::Private`: session state, running operation, action queue, trigger, `need_update`, `maybe_input`, `blocked`, the buffers, the peer's certificate | `startClient`, `startServer`, `continueAfterStep`, `close`, `reset`, `write`, `writeIncoming`, `read`, `readOutgoing`, `readUnprocessed`, connecting and disconnecting of step signals, completions, timers | every call may come between any two callbacks, or from inside a slot; put-off work must not be forgotten |
| `TLSContext` in `plugins/qca-ossl` | mode, buffers of OpenSSL, generation counter of posted completions | `start`, `update`, `shutdown`, `reset` | answers are posted, not returned; several modes share `update` |
| `LayerTracker` | plaintext not yet encoded, list of (plain, encoded) items | `addPlain`, `specifyEncoded`, `finished` | acknowledgements end inside items |
| `SASL` and `saslContext` of `plugins/qca-cyrus-sasl` | as for TLS, with steps of an authentication | `startClient`, `startServer`, `putServerFirstStep`, `putStep`, `continueAfterParams`, `continueAfterAuthCheck`, the data calls, `reset` | posted completions survive a reset |
| Event broker (`src/qca_core.cpp`) | `EventGlobal`: handlers with the ids they hold, askers with a position in the list of handlers | `EventHandler::start`, `submitPassword`, `tokenOkay`, `reject`, its destructor; `ask`, `cancel`, `waitForResponse` of the askers | any thread, stored positions that shift, blocking without a timeout |
| `Synchronizer` and `TimerFixer` (`src/support/synchronizer.cpp`) | a worker thread, a mutex, one wait condition for both directions, the object and the thread it lives in | `waitForCondition`, `conditionMet`, the destructor; `threadChange`, `fixTimers` | a timeout races the worker's start; timers must survive two moves |
| `SafeTimer`, `SafeSocketNotifier` | a timer id and a flag to repair it after a change of threads | `start`, `stop`, `timerEvent`, thread change | an event between the change and the repair |
| `SyncThread` (`src/support/syncthread.cpp`) | a thread with an event loop, one wait condition for its owner and all callers | `start`, `stop`, `call` | one `wakeOne()` for several sleepers |
| Key stores (`src/qca_keystore.cpp`) | the tracker's list of stores in its thread, a copy in the manager, `KeyStore` objects with their entries | list and store updates, `start`, `sync`, `waitForBusyFinished`, asynchronous lists and writes | notices that are posted, put off or overtaken by a direct copy |
| `SecureMessage` (`src/qca_securemessage.cpp`) | one operation with a provider, accumulated results, three triggers | `start`, `update`, `end`, `waitForFinished`, `reset` | results of several completions reported by one trigger |
| GnuPG plugin (`plugins/qca-gnupg`) | `GPGProc` with a process and four pipes, `GpgAction`, `GpgOp`, `MyMessageContext` | start, input, status lines, prompts, the end | the end of the process and of its pipes come in any order; prompts outlive their operation |
| Plugin manager, global state, secure memory, default provider | lists under one mutex, reference counts, allocator | loading, priorities, `init` and `deinit` | sequential |
| Ciphers, hashes, keys, certificates, encrypted files, pipes, console, directory watch, logger, other plugins, tools | data types and I/O | wrappers of provider calls, file formats | little state of their own |

How the components interact:

* An application calls `TLS` or `SASL`. They call the provider's context, which answers inside the call and posts `resultsReady()` to the event loop. The handler of that signal changes the session, queues the signals the application has to see and emits one of them. A single-shot `SafeTimer`, the *action trigger*, emits the others one by one.
* A provider that needs a pass phrase or a token creates a `PasswordAsker` or `TokenAsker`. These go through the event broker to the `EventHandler` objects of the application, one after the other, with posted calls and one mutex.
* The key store tracker lives in a `SyncThread`. Blocking variants of asynchronous calls (`waitForResultsReady` and others) run the object in the thread of a `Synchronizer`.
* A `SecureMessage` hands an operation to the provider's `MessageContext`. The GnuPG plugin runs gpg for it, asks for passphrases and cards through askers of the event broker, and either signals events or returns them one by one from `waitForEvent()`.

What makes each component correct:

* **TLS and SASL.** A completion that is delivered belongs to the operation that is awaited, also after a reset. The provider is not driven while signals are to be delivered or the application holds the session. No data wait when nothing will move them. Signals come in the order of a session's life. The verdict about the peer is about this peer.
* **LayerTracker.** What it reports as written is what was acknowledged; nothing is lost or counted twice.
* **Event broker.** Stored positions and ids agree, no open question is lost, none is rejected while a registered handler was not asked, and a thread blocked for an answer is woken.
* **Synchronizer.** When `waitForCondition` returns, the object is back in its thread and the worker is parked; the result says whether the condition was met; no timer of the object is lost on the way; a call whose condition comes, or that has a timeout, returns.
* **SyncThread.** A caller gets the answer to its own call, and nobody sleeps whose call was served.
* **Key stores.** A manager's copy that differs from the tracker's list is about to be updated; an object whose store is gone learns it; an object that is not busy holds the present entries; whoever waits for the tracker is woken.
* **SecureMessage and GnuPG.** Success and good signatures rest on the operation's own process, its end and all its status lines; input arrives complete and in order; the end is told, and told once.

The list of hazards in `PROJECT.json` gives the lines where these can go wrong.

## Modules

| Module | Models |
|---|---|
| `TLSContext` | the TLS provider as qca-ossl implements it, as operators on the context record `c` |
| `TLS` | class `TLS`, extends `TLSContext` |
| `SecureSession` | abstract specification: the order of a session's signals |
| `LayerTracker` | class `LayerTracker`, operators and actions, extends `Sums` |
| `TLSLayer` | composition of `TLS` with its tracker |
| `TLSProofs` | types of `TLS`, the agreement of session and provider, that `TLS` implements `SecureSession`, and for streams no lost wakeup and the peer's identity |
| `TLSLayerProofs` | theorems about `TLSLayer`, extends `TLSProofs` and `Induction` |
| `EventBroker` | the broker, the handlers and the askers, extends `Lists` |
| `EventBrokerProofs` | theorems about `EventBroker`, extends `Induction` |
| `SASL` | class `SASL` with the provider of qca-cyrus-sasl |
| `SASLProofs` | theorems about `SASL` |
| `SafeTimer` | operators: a `SafeTimer`, and a `TimerFixer` with the timer it watches |
| `Synchronizer` | class `Synchronizer` with its worker thread and its object, extends `SafeTimer` |
| `SynchronizerProofs` | theorems about `Synchronizer` |
| `SyncThread` | class `SyncThread`, its owner and its callers |
| `KeyStore` | tracker, manager and `KeyStore` objects, extends `SyncThread` and `Lists` |
| `KeyStoreProofs` | theorems about `KeyStore` with its `SyncThread`, extends `Induction` |
| `GpgProc` | operators: `GPGProc` and `GpgAction` with the gpg program |
| `SecureMessage` | class `SecureMessage`, `MyMessageContext` and `GpgOp`, extends `GpgProc` and `Sums` |
| `SecureMessageProofs` | theorems about `SecureMessage` |
| `Sums`, `Lists`, `Induction` | sums of sequences, and lists with some elements left out, by recursive functions; induction over numbers, and the facts about sums, lists and greatest elements that rest on it |
| `MCTLS`, `MCEventBroker`, `MCSASL`, `MCSynchronizer`, `MCKeyStore`, `MCSecureMessage` | the modules TLC is started with |

A handler of a session is an operator from a record of all variables to the next such record. A C++ handler that calls `update()` and then `processNextAction()` is then the composition of two operators, and an action is `Become(handler(Now))`. A definition named `Operation_Slip`, such as `update_IgnoresQueue`, is a mistake one could make in the code of `Operation`. Nothing uses it but the entry of `PROJECT.json` that tests whether a property notices the mistake.

### TLS and TLSContext

The variables are `d` (session fields of `TLS::Private`), `io` (buffers), `peer` (what stays readable after a session), `c` (the provider), `conn` (which step signals have a slot) and `sig` (the signal of the latest step). Data are counts: bytes for streams, packets for datagrams.

Each public call is an action. `ResultsReady` delivers a completion, `doNextAction` is the action trigger, `tls_dtlsTimeout` the retransmission timer. A handler of the code emits at most one signal, as its last statement, so what a slot calls back is simply a later step. `blocked` is set when a step signal with a slot is emitted; `continueAfterStep` clears it.

The plugin computes its answer inside `start()` or `update()`, but the answer is not visible before `resultsReady()` is delivered. The model keeps the accepted call in `c.req` and picks the answer at delivery from `Outcomes(c)`: every return code the plugin distinguishes. `reset()` increments a generation counter, so a posted completion of an earlier generation does nothing; in the model `CReset` removes `c.req`. A few provider facts that matter:

* A server leaves `SSL_accept` once when the client hello names a host (`hello = "paused"`) and needs another `update()` without input.
* `result_encoded` is never initialised and keeps its value over updates that encode nothing. `Garbage` holds its first value, and `EncodedContexts` keeps the stale one.
* `result_plain` is written by an update in mode `Active` and taken by `to_app()`; no `reset()` clears it. `c.plain` is that buffer. When the session is reset while a call is not yet announced, the work of the call is done all the same, so `start` and `reset()` of the session begin with any of `Unannounced(c)`.
* What the handshake leaves in `rbio` is read by a later update without new input. `c.unread` says that there may be something; `Readable` is what `ActiveOutcomes` asks before it brings data or the end of the stream.
* `OsslDTLSContext::update()` announces nothing when its mode is `Idle`; `ResultsUnannounced` models it.
* qca-ossl never reports a server hello early, but the provider interface allows it. `EarlyHello = TRUE` includes that behaviour.

`DoHandshaken`, `DoClose`, `DoCheckPeerCertificate` and `DoHostNameReceived` are the branches of `processNextAction()`. `ClosingFinished`, `HandshakingFinished` and `ConnectedFinished` are the branches of `update_finished()`.

### LayerTracker and TLSLayer

`addPlain`, `specifyEncoded` and `finished` are translated as operators. The loop of `finished()` is a recursive function that takes a turn (`erase`) for each item in the list; turns after the one at which the code breaks change nothing, and what the code takes from the item it breaks at, `finished` takes from the first item left. `TLSLayer` connects them as the code does: `write()` adds plaintext, `readOutgoing()` specifies what it returns, with the count `to_net_encoded` as plaintext (a count that may be wrong, see below), and `convertBytesWritten()` acknowledges. The history variables `added`, `specified`, `acked` and `reported` are what a caller would have noted.

### EventBroker

The functions `handler_*`, `asker_*`, `ask` and `reject` run under `g_event_mutex`, so a call of one is one step; `ask` posts a call to the handler's thread, which the model keeps in `hs[h].inbox`. The destructor of a handler is several steps (`destroy`, `destroyReject` for each open id, `destroyRemove`), because other threads run in between. `cancel` is two steps, because it reads `done` before it takes the mutex. An asker's thread is `idle`, `cancelling`, `waiting` or `woken`. Objects are reused, and an asker may ask again when its question is answered or cancelled. In `handler_accept` and `handler_reject` an id without an asker item changes nothing, as in a release build; a debug build stops at an assertion there. That happens when a handler answers a question that was cancelled.

`Each` builds its sequence with `SubSeq`. TLC would otherwise keep the sequence as an unevaluated function while the record it came from is being changed.

### SASL

The module has the same structure as `TLS`, with provider and session in one module. Differences that matter: the cyrus plugin has no generation counter, so `c.posted` counts completions that a reset leaves posted; whichever arrives first is read as the answer of the operation that is running (the answer is ready by then, because the plugin computes inside the call). `result_to_net` is kept as `empty`, `own` or `old` to tell whose output it is. The variable `h` is history: whose turn it is, whether the session was started, whether data came late. The application answers each signal once, after the queued signals of the same completion were delivered. Parameters, constraints, mechanism names and channel binding are left out.

### SafeTimer and Synchronizer

The two threads have program counters in `pc`; `waiters` is the set of threads asleep on the one wait condition, `held` says that the worker keeps the mutex between its steps. The object is a single-shot or a repeating `SafeTimer` (`t`), or another object with a timer of its own and a `TimerFixer` (`f`). Its timers and posted notices call `conditionMet()`, and the slot of `timeout()` may start or stop the timer. Timers have no durations: a running timer fires some time, if the thread it belongs to runs its loop. Moving the object sends `ThreadChange`; the repair (`fixTimer()`, `fixTimers()`) is a queued call, and anything may come before it.

The history `early` says that a call returned because its time was over, while there was no loop to quit and the worker it had woken had not yet taken the mutex (`TooEarly`). It holds until the worker rests between two calls again, and a call that begins before that keeps it. A worker that is not at rest for any other reason is a violation of `ObjectBack`. `stale` says that the call began with the `quit()` of an earlier one still posted, `twice` that the object was moved again before `fixTimers()` ran. The properties make exactly these exceptions; what happens there is described below.

### SyncThread and KeyStore

`SyncThread` has the thread, the owner that starts and stops it, the set of sleepers and the queue of posted calls. `wakeOne()` wakes an arbitrary sleeper, so that the need for `call_mutex` shows. `KeyStore` fills in what runs in the thread: the tracker (`trk`) with its sources, busy sources, items and posted notices. `prov` are the key store lists of the plugins, which acquire and lose a store, change its content and signal it. `mgr` is the manager with the place of the application's thread, `ks` the `KeyStore` objects. An asynchronous list or write is a thread of its own that calls the tracker.

`start()` and `scan()` notify the manager also when they find no new source. `tracker_id_at` is a file-level static, so ids go on where they were when the thread is stopped and started again. Two histories name the objects the code passes over: `unaware`, those that were not told of the end of their store, and `stale`, those that were not told of the last change of a store they list. An object leaves `stale` with the next change it is told of, and both sets when it is made anew for a store.

Names and flags of stores are left out; the content of a store is a version number. `world` is a constant of a behaviour: which plugins are installed, which objects the application uses and which of them write.

### GpgProc and SecureMessage

A session `g` holds `GPGProc::Private` (`proc`), the `GpgAction` (`act`), the posted events (`queue`) and the gpg program (`child`), which is external: it writes status lines, prompts, reads input, writes output while it reads, may stop reading, and ends, well or badly. It goes on writing lines after the plugin has closed the status pipe; those are `child.unheard`, and `child.deaf` says that gpg had stopped reading, which is what closes the pipe of a running gpg (`proc_error()` with `WriteError`). `Deliver` is `QPipeEnd::write()` for the aux and command pipes, and the write to the process for stdin: what is written arrives at the other end, and the report of it comes later. `op` is `GpgOp`, `ctx` is `MyMessageContext`, `msg` is `SecureMessage::Private`. A slot and the signals it emits run to completion, so an action is one event, one call of the application or one step of the child or the user. Chunks of data are numbered. Where several status lines lead to the same branch one of them stands for the others.

`app` is the application with its history: `crossed` says that it called between `doStart()` and the queued `proc_started()`, `late` that a prompt was refused after the end of its operation, `mode = "dead"` that a call went through a null pointer.

## Runs

| Run | Bounds | Shows |
|---|---|---|
| `tls_client` | stream client, one unit in each buffer, matching certificate and that of another host, two step signals, early hello, `SSL_write` that may ask to read first | completions fit the operation (`ResultsExpected`), no lost wakeup (`NoStall`), `PeerIdentity`, refinement of `SecureSession` |
| `tls_server` | stream server with the host name step, under `FairSpec` | `NoStall` with the pause in the client hello, written data reach the provider (`AppDataFlows`), a paused handshake goes on (`PausedResumes`) |
| `tls_datagram` | client and server, two packets of input, the retransmission timer | `TypeOK`, the provider is left alone while signals wait (`QuietDuringOp`), the order of signals for DTLS |
| `tls_layer` | client with tracker, two items, acknowledgements of 1 and 2 bytes | `ReportExact`, `PlainConserved` |
| `close_race` | small client | a departure from the provider's documentation, below |
| `event_broker` | two handlers, two askers, three questions, three starts | `RoutesAgree`, `NoLostQuestion`, `CancelledNotAccepted`, `RejectedByAll` |
| `event_wait` | two handlers, one asker, two questions, `FairSpec` | `WaitEnds` |
| `sasl` | client and server, two units of output, two posted completions, `FairSpec` | `ResultOnItsWay`, `RepliesTaken`, `NoStall`, `OutputTaken`, `AuthOrder`, `WrittenFlows` |
| `synchronizer` | all kinds of objects and slots, one unanswered move when a call begins, calls without limit, `FairSpec` | `ObjectBack`, `ResultHonest`, `TimersKept`, `TimedCallReturns`, `ConditionEndsWait`, `StopEnds` |
| `keystore` | two plugins, or one plugin with one object that reads and writes, or with two that read; two trackerIds, one change of content of a source, one queued notice | `OwnAnswer`, `CallOnItsWay`, `CopyOnItsWay`, `WakeOnItsWay`, `GoneIsTold`, `ListFresh` |
| `gpg` | two operations on one message, verification and decryption, two chunks each, one status line | `InputInOrder`, `ToldOnce`, `BytesHonest` |
| `gpg_live` | one verification without data of its own, two lines out of a good and a bad verdict and two prompts, `MsgFairSpec` | `SuccessDeserved`, `OperationEnds` |

States and times with two workers: `keystore` 2.1 million states and `gpg` 3.0 million, one to two minutes each, `event_broker` about the same; `tls_client` 0.9 million, `tls_layer` 0.9 million, `tls_datagram` 0.5 million, about a minute; the liveness runs are smaller (`tls_server` 67,000, `synchronizer` 84,000, `gpg_live` 115,000) and also take up to a minute and a half.

Why these bounds are enough. The code of a session distinguishes an empty buffer from one that is not empty, and data that are in a buffer from data that arrive while an operation runs. One unit in each buffer with unlimited calls over time gives each combination; in the datagram run two packets are needed so that one is left when one is taken, in the SASL run two units of output so that one is pending while another is written. Sessions restart without limit, so leftovers of an earlier session are always included. `MaxDrift` bounds how far the counters that the code lets go below zero do so. Routing of questions changes when a handler before, at or after the stored position goes; two handlers with three starts give removal before, at and after a position and insertion in between, and three questions let an asker ask again while another waits. Two posted completions are one stale and one fresh. A stale `quit()`, a late return and a forgotten repair need two calls of `waitForCondition()` in a row; their number is not bounded. Two trackerIds let a store go and come back under a new id while the old one is still in a copy; two sources are needed so that one is still busy when the other is done. The `keystore` run with two changes of content (ten million states) also finds no error, but takes too long to be kept. Two operations on one message object are an old and a new one, and two chunks are what can change places, or be reported one by one. Two status lines are enough for one that contradicts the first, or that waits in the pipe, or is written to the closed pipe, when the process ends; the verdict of an operation does not depend on its data, and what an earlier operation leaves behind is in the theorem, which has no bounds. In `tls_layer` two items and acknowledgements of one and two bytes end inside, at the end of and beyond an item.

Deadlock is checked except in the runs of the broker and of gpg, where the bounds on questions, starts and lines end a behaviour, and of the synchronizer, where a call without a timeout and without a running timer waits for ever, as it does in the code.

### Fairness

`FairSpec` of `TLS` and `SASL` assumes that the Qt event loop delivers a posted completion and runs an expired timer, and that the application does what the documentation asks: it calls `continueAfterStep()` after a step signal, and reads data it was told about. The last matters only because the bounded buffers stop a completion from being delivered. Nothing is assumed of `write`, of the network or of `close`. `FairSpec` of `EventBroker` assumes that the thread of a handler goes on while it has something to do (it runs its event loop, its user answers in some way, a destructor that began ends) and that a woken thread continues. These are weak fairness.

`FairSpec` of `Synchronizer` assumes weak fairness of each step of the two threads and of the delivery of posted events to the object, and strong fairness of its timers: a running timer fires although the loop of its thread runs only now and then, because it is expired when the loop next polls. `MsgFairSpec` has weak fairness of the start and of the end of the process as `GPGProc` sees them (`DoStart`, `Done`, `Finished`), of the posted events, of the notifier of the status pipe, of the loop of `waitForFinished()`, of `end()`, of the user's answer and of the exit of a gpg that has all its input and waits for no answer. Nothing is assumed of crashes, of lines or of output.

## Departures from the documentation

`close_race` ends with a counterexample; it checks what the documentation of the provider interface says. `close()` sets the state to `Closing` at once. When an update is in flight, its `Success` is read as the end of the shutdown; `closed()` is emitted and the session reset although the provider has never run its shutdown.

Other observations. Where a property makes an exception, this is what happens in it.

TLS and SASL:

* On an idle connection `close()` calls `update()`, which returns because there is no input, no output and `maybe_input` is not set (`qca_securelayer.cpp:625`). The provider's shutdown does not run until the peer sends something.
* `reset()` of the provider is to "Reset the object to its initial state" (`qcaprovider.h:2330`), but `result_plain` survives it. When the session is reset, or closed, with decrypted data that are not announced yet, `write()` on the inactive session runs `update()` in mode `Idle`, and `to_app()` returns the old plaintext: `readyRead()` is emitted with no session. If a new session begins first, its first active update overwrites them. `SecureSession` allows this once for a session that was open (`Late`), and nothing else out of order.
* Data that came in the same chunk as the last flight of the handshake stay in the provider until the next update, because `DoHandshaken` flushes only what the session itself holds. `NoStall` is about the buffers of the session and does not see them.
* The trigger does not look at `blocked`: `handshaken()` or another queued step signal may be emitted while the application holds the session for an earlier one. `QuietDuringOp` shows that the provider, at least, is not driven then.
* `to_net_encoded` gets the value -1 that stands for "no output", and the stale `result_encoded` makes `out_pending` drift. The tracker tolerates both (`PlainConserved` holds), but the plaintext counts an application sees can be late or early.
* DTLS: packets that wait at the end of a handshake stay there until the next event, since the flush in `DoHandshaken` looks at the stream buffer only; and an update in mode `Idle` is never announced, so the session waits until it is reset. `NoStall` is checked for streams only for this reason.
* A server compares the client's certificate with the host name the client asked for. `PeerIdentity` is about clients.
* `resetState()` of the cyrus plugin clears `result_plain` three times and `result_to_net` never (`qca-cyrus-sasl.cpp:313`), so after a reset during an update the next session may send output of the previous one. `OutputTaken` calls such output `old` and shows that nothing else leaves output behind.
* `startServer()` of that plugin gives no completion when `sasl_listmech()` fails (`startServerMute`); network data given before `authenticated()` are not flushed by it; `putStep()` during an undecided `authCheck()` is taken as its continuation.

Event broker:

* `handler_accept()` leaves the item of the asker in the list. When the asker asks again and cancels, the first item found is the old one (`qca_core.cpp:1927`); the new question stays open and can be accepted later. This is the exception of `CancelledNotAccepted`; without an earlier answer a cancelled question stays cancelled.
* A `responseReady()` posted for an earlier answer may be delivered when a later question is open; `waitForResponse()` after `cancel()` blocks for ever.

Synchronizer and timers:

* A timeout that expires before the worker has taken the mutex finds no loop to quit. `waitForCondition()` returns while the worker begins to run the object in its own thread, although the comment at `synchronizer.cpp:411` says that the worker is done at this point (history `early`). When the `Synchronizer` is destroyed then, and the worker is already in its loop, it sleeps once more before it looks at `do_quit`; this is the exception of `StopEnds`.
* A `quit()` that is posted when the loop is already leaving stays queued and ends the next call early, with the result FALSE (history `stale`).
* `fixTimers()` updates its list while the dispatcher is unlinked. When the object is moved twice without an event loop in between, its own timer gets an id the object never learns of (history `twice`).
* `stop()` or `start()` of a `SafeTimer` between a move and the queued `fixTimer()` does not cancel the repair: a stopped timer may come back, a restarted one may run twice.

Key stores:

* `keyStoreForTrackerId.value()` finds one of several `KeyStore` objects of a store, so only one of them is told that the store changed or went (`qca_keystore.cpp:1498`, `1508`; the headers promise the signal to every object). The others are in `stale` or `unaware`.
* In `waitForBusyFinished()` `tracker_updated()` replaces the copy directly (line 1535); the later comparison with the new list sees no difference and announces nothing. The objects whose store changed or went in that stretch are in `stale` or `unaware`.
* After the first start the tracker is never busy again, so a `waitForBusyFinished()` after a later `start()` returns at once.
* `KeyStoreEntryWatcher` has a slot for stores that become unavailable that is connected to nothing.

SecureMessage and GnuPG:

* Between the end of the process and the delivery of `finished()` there is no action any more. `update()`, `end()` or the accepted answer to a late prompt then go through a null pointer (`mode = "dead"`).
* Data written between `doStart()` and the queued `proc_started()` go to the process directly and overtake the data kept in `pre_stdin` (`crossed`).
* A prompt refused after the end reports `finished()` again (`late`). A prompt of an earlier operation answers, or ends, the next one. `SecureMessage::reset()` does not stop gpg.
* `waitForFinished()` on an operation that is over does not return, and neither does one that is called while an event-driven prompt is open (`Stuck`). In wait mode the count of written bytes is not kept and `needCard` is not waited for: the loop goes on, and the operation ends.
* When gpg stops reading, `proc_error()` closes the status pipe of a program that still runs (`gpgproc.cpp:349`), and the `finished` of its exit then overwrites the failure (`fin_process_success`, lines 320 and 355). Lines in between go unread: `GOODSIG`, `WriteError`, `BADSIG` and a normal exit give a good signature. `SuccessDeserved` is about the lines the plugin could hear, and says that this is the only way not to hear one.
* There is one error code, `curError`, and the first error takes it. `DECRYPTION_OKAY` clears the code of `NO_SECKEY`; a `NODATA` (or `UNEXPECTED`) line between the two is forgotten with it, and the decryption counts as a success (`PassedOver`).
* A crash with status lines still in the pipe is reported as a normal end with the exit code. One trigger stands for all entries of `bytesWrittenArgs` and takes one of them. With two entries the second waits for a later update, and is lost if none comes. `BytesHonest` bounds what is reported from above and does not see it.

## Proofs

Every theorem is about the module's `Spec` (`LayerSpec` for `TLSLayer`), without bounds on steps, for every value of the constants that satisfies the module's assumptions. The method is the same everywhere: TLC checks the strengthened invariant on the module's run first (not `LayerInv`, whose quantifiers range over sequences of any length), one lemma per operator says what the operator preserves, and the step theorem has one case per action. Where handlers are operators on a record of all variables, the invariants are predicates on such records, so that a handler that calls another is proved by citing the lemma of the other.

### TLSProofs

* `TypeCorrect`: `Spec => []TypeOK`. The record of all variables has type `Machines`. There is a lemma per operator: what the provider's operators return (`ContextFacts`, `OutcomesType`), and that each handler maps `Machines` to `Machines` (`UpdateType`, `PerformType`, `ResultsReadyType` and so on).
* `ResultsAreExpected`: `Spec => []ResultsExpected`, the assertion `op != -1` of `tls_resultsReady()`. It is not inductive alone: a completion is delivered, the handler queues signals and calls `update()` again, and whether the new call is accepted depends on the queue and on `blocked`. The inductive invariant `Sound` adds `QuietDuringOp`.
* `ProviderIsQuiet`: `Spec => []QuietDuringOp`, from the same invariant.

Between the delivery of a completion and the next provider call, the machine satisfies `Calm`: neither side thinks an operation runs. In that stretch signals are queued, which would contradict `Sound` if an operation ran. `PerformCalm`, `EnqueueCalm` and `SettleCalm` say that the stretch stays calm, `CalmSound` that it may end at any point, `UpdateSound` and `NextActionSound` that the final call restores the invariant. `StepSound` combines them.

The last part of the module is the refinement.

* `SignalsComeInOrder`: `Spec => SessionSpec`, the refinement of `SecureSession`, for streams and datagrams.

The abstract session knows its state and the signal of the latest step. What the detailed session will emit is in its queue, so the invariant `Shape` adds to `Sound` what the queue may hold in which state: `Negotiating` (the step signals, with `handshaken()` last), `Transferring` and `Ending`; that the operation `start` runs exactly in the state `Initializing`; and that an inactive session has a dormant provider. `Allowed(s, t, g)` states the steps of `SecureSession` on two session states and a signal. Every handler satisfies `Result(s, n)`: `n` has `Shape`, and the step from `s` to `n` is allowed. The variable `left` of the abstract session is `c.plain > 0`. That it rises only in an open session (`LeftKept`), and that the one signal of an inactive session uses it up (`LateStep`), needs what the provider's operators do with `plain` in each mode. `AllowedIsSession` carries that over to the abstract next-state relation.

The module ends with two theorems about streams. They assume `Mode = "Stream"`, because the code does otherwise for datagrams (see the departures above).

* `NothingStalls`: `NoStall` always holds.
* `PeerIsTold`: `PeerIdentity` always holds.

The inductive invariant `StreamInv` has five parts besides `Sound` and `Shape`. `Agree`: session and provider agree on the side, the mode, the accepted call and the progress of the hello. `Known`: a client knows nothing of its peer and the signal that will make it look is queued if there is a certificate to look at, or its record is about the provider's certificate, compared with its host. `Resumed`: when a server stopped in the client hello, something will call `update()` again. `Noted`: data that wait without a running operation have `need_update` set, unless the application holds the session. `Armed`: a queue that is not empty, or an owed update, has the trigger armed. `NoStall` needs all of the last three: `update()` returns early for several reasons, and each of them must be one that a later event undoes.

### TLSLayerProofs

* `ReportsAreExact` (`ReportExact`) and `PlaintextIsConserved` (`PlainConserved`), always true of `LayerSpec`, for any sizes of the acknowledgements and any number of items.

`ReportExact` looks at sums only and is not inductive. `LayerInv` says how the list came about: either it is empty and everything specified is reported, or the items specified are those reported (`e`), then one item `x` of which `y` is left, then the items `t` that nobody has acknowledged a byte of, and the list is `y` followed by `t` (`Partial`). `y` has bytes left unless `x` had none. `LoopEnds` is an induction over the turns of the loop of `finished()`: what it has taken off and what is left make up the list it was given, and it ends at an item larger than the bytes that remain. `FinishedAccounted` then moves the boundary, inside the first item (`StayingAccounted`) or past some items (`TakingAccounted`). The plaintext of an item is an `Int`: `to_net_encoded` goes below zero, and `specifyEncoded()` only limits it from above. `LayerTyped` carries `TypeOK` over to `LayerSpec`, whose `convertBytesWritten()` is not a step of `TLS`.

### SASLProofs

* `TypesAreKept`: every variable has its type; in particular `out_pending` never goes below zero.
* `ResultsAreOnTheirWay` (`ResultOnItsWay`), `RepliesAreTaken` (`RepliesTaken`), `NothingStalls` (`NoStall`), `OutputIsTaken` (`OutputTaken`), and the action property `SignalsInOrder` (`AuthOrder`).

The invariant `Good` has these parts. `Phase` and `Asked`: which operations may run and which signals may wait before, during and after the authentication, and what the application was asked. `Counted`: `out_pending` is what the running update has been given and has not encoded. `Provider`: an operation has a completion posted, and output in the provider belongs to an update. `Waits`: data that wait are owed an update. `Armed`: queued signals and an owed update have a trigger or an operation that ends in one. `Order` states on two machines what `AuthOrder` states on two states; each handler is shown to give a `Result`, a machine that satisfies both. A completion that a reset left posted is the hard case: it is read as the answer of a later operation, and the completion of that one is then left over in its turn.

### SynchronizerProofs

* `ObjectComesBack` (`ObjectBack`) and `ResultIsHonest` (`ResultHonest`). Their invariant `IInv` says for each pair of places of the two threads who holds the mutex, who sleeps, where the object lives, whether the loop exists and whether a `quit()` is posted, with the histories `early` and `stale` for the two races the code has. The places (`Places`, `Reasons`) are claimed while `early` is false, so the proof has to show that a call which returns otherwise finds the worker asleep and the object given back, and that the worker is in such a place again when `early` ends.
* `TimersAreKept` (`TimersKept`). Its invariant `TInv` relates the active flag of a `SafeTimer`, its registered timer and the queued repair in the thread where the object now is, and the same for the list of a `TimerFixer`.

### KeyStoreProofs

* `CallersGetTheirAnswers` (`OwnAnswer`) and `CallsAreOnTheirWay` (`CallOnItsWay`), from the invariant `SInv`: at most one caller is inside `call_mutex`, so at most one of the thread's callers sleeps and only its slot can be posted. This is why one wait condition and `wakeOne()` are enough.
* `CopiesAreOnTheirWay` (`CopyOnItsWay`) and `WakesAreOnTheirWay` (`WakeOnItsWay`), from `CInv` and `WInv`: the tracker's change of its list and the posting of the notice, the flag `pending` of the manager and its direct reading inside `waitForBusyFinished()` are related in each place of the manager's thread.
* `EndOfStoreIsTold` (`GoneIsTold`), from `LInv`. trackerIds are given once (`ItemsOK`), the manager's copy is an earlier state of the tracker's list whose counts are not ahead of it (`CopyOf`), the registered objects are those with a store (`Registered`), and the store of an object that is not `unaware` (`Findable`) is in the copy (`InCopy`). So `do_update()`, which compares copy and list, sees the end of each such store, tells the object it finds and puts the others of the same id in `unaware`, and `CopyOnItsWay` says that the comparison is made.
* `ListsAreFresh` (`ListFresh`), from `FInv`. For an object that was told of the last change (`Current`) and its store one of six things holds (`FreshOrComing`): the source has not yet said that the content changed, the copy's count is behind the tracker's, the object has noted `need_update` for when its list arrives, the list is asked for and its slot has not run, the slot has run and returned the present entries, or the object has them. Each step of the source, the tracker, the thread, the manager and the object leads from one of these to another; those that could lose the change are the slot, between the read and the queued `op_finished()`, and the only notice that `update()` takes for several changes.

### EventBrokerProofs

* `BrokerInvariant` (the inductive invariant `IInv`) and from it `BrokerTypes` (`TypeOK`), `RoutesAlwaysAgree` (`RoutesAgree`), `NoQuestionLost` (`NoLostQuestion`), `CancelledNeverAccepted` (`CancelledNotAccepted`) and the action property `AlwaysRejectedByAll` (`RejectedByAll`), for any number of handlers, askers, questions and starts.

The lists of the broker are searched, appended to, filtered, and cut at any position, and no property can be proved about them one by one. The invariant is therefore stated on a view in which the lists of ids are sets: the handler at each position, the ids it holds, the ids posted or shown to it, the asker items. Its parts are: a handler is listed once (`Listed`); ids are given once and positions are inside the list (`Numbered`); the item of an id that a handler holds leads to that handler (`Routed`); what a handler holds it was given (`Delivered`), and what it was given and is still listed it holds (`Known`), so that an answer is taken from the right handler; every handler up to the position of an item was asked (`Passed`), which is what `RejectedByAll` needs when positions shift; an open question has an item that somebody holds (`InHands`); and the items of an asker are those of its present question, unless an earlier one was answered (`Own`). `Once` says that no list has an element twice and `Registered` that the handlers that exist are the listed ones.

Inside a step the invariant does not hold: `handler_remove()` takes the handler out first and then rejects the ids it held one by one, and each rejection may append to the list of another handler or cut the list of askers. `OnTheWay` describes this stretch with a set `O` of ids whose item is listed although nobody holds them. The view has one lemma for each elementary change (asking the next handler, the official reject, shifting, dropping an id), the lemmas about the operators say which change of the view an operator makes, and the loop of `handler_remove()` is an induction over the ids, each turn of which takes one out of `O`. Between two steps `O` is empty.

### Induction

Lemmas about recursive functions, for `SecureMessageProofs`, `TLSLayerProofs`, `EventBrokerProofs` and `KeyStoreProofs`. `LeastElement` (every non-empty set of natural numbers has a least element, from `WFMin` and `NatLessThanWellFounded` of the library) gives `NatSetInduction`: a set that holds 0 and with each number the next holds every natural number. It is stated for sets and not for predicates, because the provers cannot instantiate a predicate parameter. `Recursion` says that a function defined step by step along `0..n` exists and satisfies its equations. From these follow what `Total` does with `Append`, concatenation, `Tail` and constant sequences, that `Max` of a finite non-empty set of numbers is its greatest element, and which elements a list has after `Append`, `Tail`, `RemoveAt`, `Reverse`, concatenation and `Keep`.

### SecureMessageProofs

* `VerdictsAreDeserved` (`SuccessDeserved`), `InputArrivesInOrder` (`InputInOrder`), `EndIsToldOnce` (`ToldOnce`), `BytesAreHonest` (`BytesHonest`) and `TypesAreKept`, for any number of operations, chunks and status lines, all from `StackIsSound`.

The invariant `IInv` says that the state has type `Machines` and is `Good`. While `GpgOp` has an action, `Good` asks for `Sound`, which is about the process, and `Calm`, that nothing of an end has been said. `Sound` has three parts. `Feed`: the data the child has and the data held in `pre_stdin`, one after the other, are the numbers of the chunks given to `update()`; when `proc_started()` has run nothing is held, and before it nothing has arrived. `Phases`: which events may wait in which phase of the process; in particular `finished()` is queued, and success noted, only when the child has ended, and a status pipe marked as read to its end holds no line. Its part `Heard` says that the plugin stops listening to a running child only when the child has stopped reading, so no line goes unheard otherwise (`Listening`). `Judged`: the lines the child said are those read and those in the pipe, and the lines read have left their marks in the action (`Recorded`). `Recorded` cannot be about the verdict alone: `curError` forgets, so the invariant keeps what each of its values says of all lines read, and which of two contrary lines was the last. `ReadStatusFacts` is an induction over the lines that one call of `readAndProcessStatusData()` reads.

Without an action, `Ended` says that the verdict copied to the message and the output that `waitForFinished()` has still to fetch are earned, and that the end was told at most once, or is the last event the waiter will see. `Counted` holds throughout: the bytes reported, those in `bytesWrittenArgs`, those the context counted and those whose event is still queued are together no more than the child has. It is the reason for `BytesHonest`, which is not inductive, since it leaves out the queued events.

Of the assumptions, `OpsAssumption` (the operations are among those modelled, and there is one) and `LinesAssumption` are used.

## Only model-checked

* Liveness (`AppDataFlows`, `PausedResumes`, `WrittenFlows`, `WaitEnds`, `TimedCallReturns`, `ConditionEndsWait`, `StopEnds`, `OperationEnds`), because the prover does not handle fairness.
* `TypeOK` of `Synchronizer` and `KeyStore` is proved only so far as the other invariants use it; the runs spend their time on the other properties.

Every invariant and every action property of the passing runs has a theorem.

## Not modelled

* Contents of messages, certificates and keys; ciphers, hashes, MACs, key derivation and big integers, which are thin wrappers of providers; file formats and system stores.
* Pipes and console (`support/qpipe.cpp`, `support/console.cpp`): next in the plan. The pipes of gpg are represented in `GpgProc` by what arrives at the other end.
* In the GnuPG plugin: the key ring list and its watch (`mykeystorelist.cpp`, `ringwatch.cpp`), key operations. `lineconverter.cpp` is the identity on Unix (line 157), and the model counts bytes as that build does; the conversion of line ends and of byte counts on Windows (lines 134-155) is left out. In `SecureMessage`: S/MIME, where the provider's context answers inside the call. In the key stores: `KeyStoreEntryWatcher` and the entry objects. `SafeSocketNotifier`, which has the structure of `SafeTimer` without a timer.
* `SyncThread::stop()` concurrent with `call()`: the two share the wait condition and could take each other's wakeup, but the library only stops a thread nobody calls any more, and the model does the same.
* The plugin manager (sequential, under one mutex), the other plugins, directory watch and logger, tools and tests.
* OpenSSL, libsasl2, gpg, Qt's event loop and its timers are represented by what the code relies on.

## Plan

The order follows how much of the library depends on a component.

1. Done: `TLSContext`, `TLS`, `SecureSession`, `LayerTracker`, `TLSLayer`; `EventBroker`; `SASL`; `SafeTimer`, `Synchronizer`; `SyncThread`, `KeyStore`; `GpgProc`, `SecureMessage`.
2. Proofs, done: `TLSProofs`, `TLSLayerProofs`, `EventBrokerProofs`, `SASLProofs`, `SynchronizerProofs`, `KeyStoreProofs`, `SecureMessageProofs`.
3. `Console`: `QPipeEnd` with its read limit and its two buffers, `ConsoleThread` on `SyncThread`, `ConsoleReference` and `ConsolePrompt`. Questions: is input typed ahead of a prompt, or while `ConsoleReference::start()` looks at the thread, announced (`console.cpp:633`); are bytes that `setSecurityEnabled()` moves between the buffers kept when the input ends (`qpipe.cpp:1477` clears `secure` and leaves `sec_buf`); does `Console::release()` hand out what is left (`console.cpp:349` takes it before the worker has collected it).
4. The key ring list of the GnuPG plugin, whose listings run while the ring changes; text filters against a reference definition.
