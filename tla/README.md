# Verification of LoLa, the shared-memory binding of mw::com

`mw::com` is a communication middleware for services: a *skeleton* offers events, fields and
methods, *proxies* find the offered service and subscribe to its events. Its own binding, LoLa
("low latency", `src/mw/com/impl/bindings/lola`), exchanges the samples of an event through shared
memory without copies and without locks, tells consumers of new samples with messages between
processes, finds services through flag files, and lets either side crash and restart while the
other goes on. This directory holds TLA+ specifications of LoLa, the TLC configurations that
check them and proofs that TLAPS checks. Every definition is translated from the source;
`PROJECT.json` maps each one to the lines it models.

## Inventory

### Components, their state and operations

| Component | State | Operations | What makes it correct |
|---|---|---|---|
| Slot status word (`event_slot_status`) | 32-bit timestamp and 32-bit reference count in one 64-bit word | set, test, increment, decrement | the halves never carry into each other |
| Event data control (`event_data_control`, `transaction_log`, `slot_collector`, `skeleton_event.h`, `proxy_event.h`) | the array of status words and one transaction log per consumer, all in shared memory; the publisher's clock; the samples and allocations the users hold | `AllocateNextSlot`, `Send`, `Discard`, `GetNewSamples`, release of a `SamplePtr`, rollback, restart of the skeleton | a referenced slot is never rewritten; no reference is lost or forged, crashes included; samples come in order; calls return; an allocation finds a slot |
| Event data control composite | the control blocks for ASIL-B and QM consumers of one event, a flag that QM is ignored | the publisher's operations on both blocks at once | as above for both; a misbehaving QM consumer never stops ASIL-B consumers |
| Event subscription (`transaction_log_set`, `event_subscription_control`, the subscription states, `transaction_log_rollback_executor`) | the set of logs and its mutex, the packed counter of subscribers and samples, per process whether its rollback was prepared | register and unregister a log, subscribe, unsubscribe, rollback at the creation of a proxy | logs, counter and proxies agree; live logs are left alone, old ones are repaired or keep the proxy from being created |
| Subscription state machine and receive handlers (`subscription_state_machine`, `subscription_helpers`) | per proxy event: state, availability of the provider, stored handler, registration number, provider's pid | subscribe, unsubscribe, stop-offer, re-offer, set and unset the handler | the handler registered at the provider is the one the user set last |
| Event notification (`notify_event_handler`, `message_passing_control`) | handlers of the process, registrations at remote nodes with their counters, interested nodes | register, re-register, unregister, notify, outdated node | who is registered is notified; nobody calls a withdrawn handler |
| Message passing (`message_passing`) | the queue of the non-blocking sender, the sender's channel, the receiver's loop | send, reconnect, receive, stop | in order, bounded, never blocks an ASIL-B sender on a QM receiver |
| Uid to pid mapping | an array of (uid, pid, status) words in shared memory | `RegisterPid` | one entry per uid; the pid a predecessor used is handed back exactly once |
| Skeleton | existence and usage marker files with their locks, shared memory of the service, connected events | prepare and stop an offer, partial restart | memory in use is never removed, memory of a crashed skeleton is reused |
| Proxy | usage marker file, opened memory, its event bindings, find-service guard | create, service availability changes | never connected to memory that is being removed; every event follows the provider's availability |
| Service discovery client | flag files, watches, search requests, worker thread | offer, stop-offer, start and stop a search | handlers see what is offered, none is called after its search was stopped |
| Binding-independent layer (`proxy_base`, `skeleton_base`, ...) | whether the service is offered, events and fields of the service, sample trackers | offer, stop-offer, subscribe, unsubscribe | all elements are offered or none; no sample outlives its subscription |
| IPC tracing (`impl/tracing`, `lola/tracing`) | handles of registered memory, the sample parked per event, the skeleton's own transaction log, failure counters | register memory, trace a send, trace-done callback, trace local data | the subsystem never reads a slot that is rewritten; the log accounts for every reference |
| Runtime and configuration (`runtime.cpp`, `configuration`) | the stored and the running configuration, the lock after the first use | `Initialize`, `getInstance`, the parsers | what is accepted resolves, and the last accepted configuration is the one used |
| Identifiers, handles and factories (`instance_identifier`, `handle_type`, `plumbing`) | identifiers made from specifiers or from the text of another process | `Create`, serialise, make elements | a received identifier means to the receiver what it means to the sender |
| Memory sizes, ACLs, paths | none | arithmetic, text, system calls | not modelled, see the end |

### Interaction

The publisher and its consumers share the control block and never wait for each other: everything
they know of each other is in the slot status words. The consumer's log is written by the consumer
only, until it dies; its successor (a process with the same uid) finds the log, gives back the
references and the subscription and takes a log of its own. Logs are assigned under an
interprocess mutex. The limit on the samples of all subscribers, kept by the subscription counter,
is what the publisher's search for an unused slot relies on. Handlers, notifications, availability
of the provider and the creation of proxies all run on other threads than the users' calls.
Providers and consumers meet in three places besides the slots: in flag files, which the
discovery watches; in marker files, whose locks say who uses the memory; and in messages, which
carry notifications, registrations and outdated node ids. The tracing subsystem is one more
consumer of each traced event, with a transaction log of the skeleton.

### What is hard

Every shared word may change between a load and the exchange that uses it; a process may die
between any two accesses, and the next one must tell from the log alone what had happened; the
rollback itself may die; retries are bounded and the last one is special; counters sit at their
limits in normal operation; the proxies of one process share one identity. `PROJECT.json` lists
these hazards with their lines and the properties that watch them.

## Modules

### EventSlotStatus and EventDataControl

`EventSlotStatus` is the status word: a record of `ts` and `refs`, the two special words and the
carry of `Increment` and `Decrement` between the halves.

`EventDataControl` models the slots of one event, one publisher and any number of consumers, with
one action per access to shared memory. `slots` is `state_slots_`; `log[c][s]` are the two flags
of a `TransactionLogSlot`, named by what they mean; the locals of the loops in
`FindOldestUnusedSlot`, `ReferenceNextEvent` and `CollectSlots` are variables of their own.

| Code | Actions |
|---|---|
| `SkeletonEvent::Allocate`, `AllocateNextSlot`, `FindOldestUnusedSlot` | `Allocate`, `FindOldestUnusedSlot` (one load each), `LockSlot` (the exchange), `AllocateRetry` |
| `SkeletonEvent::Send` | `EventReady` |
| `~SampleAllocateePtr` | `Discard` |
| restart of the skeleton | `RemoveAllocationsForWriting`, `PrepareOffer` (clock from `GetLatestTimestamp`) |
| `ProxyEvent::GetNewSamples`, `ReferenceNextEvent` | `GetNewSamples`, `ScanSlot`, `NothingFound`, `ReferenceTransactionBegin`, `ReferenceSlot`, `ReferenceTransactionAbort`, `ReferenceTransactionCommit`, `Deliver` |
| `~SamplePtr`, `DereferenceEvent` | `ReleaseSample`, `DereferenceSlot`, `DereferenceTransactionCommit` |
| `RollbackIncrementTransactions` | `StartRollback`, `RollbackSlot`, `FinishRollback`, `Resubscribe` |

`PublisherCrash` and `ConsumerCrash` stand for no code: a process dies between any two steps. The
auxiliary variable `counted` records whose reference is part of which count, `leaked` that an
allocation reported failure with a slot locked. `ConcurrentRelease` says whether the user destroys
a `SamplePtr` while another of its threads is inside `GetNewSamples`.

### EventSlots, the abstract specification

`EventSlots` says what a control block promises, without words, scans, retries, logs or crashes: a
slot is free, in writing or ready; the writer takes a slot only while nobody reads it, and nobody
reads a slot the writer has. `EventDataControl` implements it (`ControlKeepsItsPromise`; the
readers of a slot are the consumers counted in it) and so does the ASIL-B side of the composite
(`AsilBKeepsItsPromise`; the stamp of a slot is that of the sample really in it).

### EventDataControlComposite

The two control blocks of an ASIL-B event, word by word: the search for a slot that is unused in
both, the two exchanges and the undoing of the first when the second fails, the retries, the
disconnection of the QM consumers and the fallback to the ASIL-B block alone, which scans word by
word and retries a bounded number of times (`FindOldestUnusedSlot`, `LockAlone`, `RetryAlone`); `Send` and the
destructor of a `SampleAllocateePtr`, which keeps a copy of the composite from the time of its
allocation; crash, restart and re-offer with the clean-up of both blocks. A consumer is the
increment and the decrement of a word here. The fallback may fail, and when it locks a slot in the
iteration that exhausts its retries it reports failure with the slot locked: the history variable `leaked` has
these slots. The exchange is weak and may fail by itself. `ReofferWithSamples` and `ReofferAfterDisconnect`
switch on two sequences of calls under which the properties fail (see below).

### EventSubscription

The set of logs, its mutex, the packed counter and the subscribe and unsubscribe paths of the
state machine for proxies spread over processes. A log is told by its process only, as in the
code. The reference entries of a log are abstracted to none, some (`held`) or an unfinished one
(`torn`), which is what a rollback tells apart; `EventDataControl` has their detail. Registration,
preparation and unregistration are single steps under the mutex; `RollbackProxyTransactions`
holds it over several. A process that dies inside a critical section releases the mutex or loses
it for good: the mutex library decides, so the model does both, and a lost mutex may stop
everyone, which is why these runs do not check for deadlock.

Left out here: receive handlers and the provider's availability, and the log of a
skeleton that traces its own event (`Tracing` has it).

### ProxyCreation

On top of `EventSubscription`: the first proxy of a process registers its pid under its uid in the
`UidPidMapping`, entry by entry (`TryUpdatePidForExistingUid`, `ClaimEntry`, `NextEntry`,
`SetStatusAndUidAtomic`), reports the pid it replaced to the provider (`NotifyOutdatedNodeId`), and
only then are the old logs marked. `CrashInRegistration` ends the process between any two of these.

### EventNotification

The receive handlers of one event in one consumer process. Each proxy event has its state machine
(`state`, `available`, `stored`, `number`, `sourcePid`); a call into it holds its mutex to the end,
which is `pc[p] # "idle"`, and walks through the locks and messages of the shared
`NotifyEventHandler` in steps of their own:

| Code | Actions |
|---|---|
| states of the state machine, `EventReceiveHandlerManager` | `Subscribe`, `Unsubscribe`, `SetReceiveHandler`, `UnsetReceiveHandler`, `StopOfferEvent`, `ReOfferEvent`; `Register`, `Unregister` choose the steps that follow |
| `ProxyEventBase::SetReceiveHandler`, `UnsetReceiveHandler` | `ExpireScope` before them |
| `NotifyEventHandler`, consumer | `SearchHandlerForNotification`, `UnregisterEventNotificationRemote`, `SendUnregister`, `RegisterEventNotification`, `RegisterEventNotificationRemote`, `ReregisterEventNotification`, `SendRegisterEventNotificationMessage` |
| `NotifyEventLocally` | `HandleNotifyEventMsg`, `HandlerReturns`, `CallNextHandler`, `NoHandlerLeft` |
| `NotifyEventHandler`, provider | `HandleRegisterNotificationMsg`, `HandleUnregisterNotificationMsg`, `NotifyEventRemote` |
| the provider's life | `StopOffer`, `Offer`, `ProviderCrash`, `ProviderRestart` |

A message reaches a provider that lives and is received in the order of sending (one thread
receives, as `message_passing/design/README.md` says); one to a pid that is gone is lost and
logged. Registration numbers start at 1 here, 0 is the empty optional. The discovery thread calls
one proxy at a time, in any order. `HandlerReadsState` says whether the user's handler asks its
proxy event for samples or its state.

Left out here: providers in the same process (the loop then runs in a thread pool), rejected
subscriptions (`EventSubscription` has them) and sending errors of a live provider. Outdated node
ids are in `ProxyCreation`, the channel itself in `MessagePassing`.

### PartialRestart

Skeletons and proxies of one service instance, the existence marker with its inodes and exclusive
locks, the usage marker with exclusive and shared locks, the flag of the discovery, and the three
shared memory objects, which are made, opened and removed one by one. A skeleton goes through
`Skeleton::Create` (`OpenExistenceMarker`, `LockExistenceMarker`), `PrepareOffer` with
`CreateSharedMemory` or `OpenSharedMemory`, `RegisterEvents`, `Offer`, `PrepareStopOffer` and its
destructor; a proxy through `LockUsageMarker`, `OpenControl`, `OpenData`, `Connect`, `FindEvents` and
`Disconnect`. `Proxy::Create` asks nothing of the offer: its handle may be of any age, so a proxy may lock the
usage marker whenever nobody holds it exclusively, before, during and after an offer, and then meets whatever
objects and events are there. `registered` has the events object by object, as `RegisterEvents` makes
or finds them and as the proxy looks them up. A crash may hit either side between any two steps: its locks go,
files and memory stay. `OverlappingExit` says whether a skeleton may be destroyed while another process creates
one for the same instance: the destructor waits for nobody, but with it a property fails (see below),
so it is off in the run and in the proofs.

### ServiceDiscovery

Providers that write and remove flag files, directory by directory and file by file
(`OfferService`, `StopOfferService`, crash); the kernel's event queue; and the client of one
consumer process: `StartFindService` by identifier with its crawl between taking the watches and reading the
files, `StopFindService`, the worker that reads events in batches and handles deletions before
creations, and the handlers, which may stop their own search. The two recursive mutexes,
`container_mutex_` and `worker_mutex_`, are variables. `Faults` bounds the failures of the file
system. An event names the watch it is of; when the worker removes a watch, its events that are
still queued or read lose that name (`Orphaned`), as its descriptor does not return, and are skipped.
`NoOne` stands for no thread, no search and no watch. The specification is `DiscoverySpec`, with
`DiscoveryInit`, `DiscoveryNext` and `DiscoveryTypeOK`: its proofs are in one module with those of
`PartialRestart`, which has the short names.

### MessagePassing

The channel from an ASIL-B process to QM processes on QNX. The sending side: the sender cache with
its mutex, the connecting constructor, `NonBlockingSender` with its queue and destructor, and the one worker
thread all senders share, with its retries. The receiving side: two listening threads that queue a
message, let the writer go on and then run handlers one at a time, and the destructor, which may come at
any time and sends each a stop message. Thread 0 that finds itself stopped when it last looks at its token, after
the destructor ran the callback it has installed, is `"overtaken"`: it leaves, and the message sent for it
stays. A blocking call of the operating system is a rendezvous with a thread in
`dispatch_block`. A message is its caller, the number of the call and the sender it was queued on;
`arrived` records what the kernel handed over, in that order. Messages are handled as they arrive
(`message_passing/design/README.md`, "processed in-order"); those of one caller also in the order of
its calls as long as it sends on the same sender. Across a replacement they are not: with a third
caller that still holds the removed sender, a message queued on it is overtaken by one that its
caller sends on the new sender.

### ServiceElements

The binding-independent layer: `SkeletonBase::OfferService` element by element with its failures,
`StopOfferService` and destruction; `Update` and the initial value of fields; the proxy's
`Subscribe`, `Unsubscribe`, `GetNewSamples` and the destruction of `SamplePtr`s on other threads
with the `SampleReferenceTracker`, whose quota check, callback and release are steps of their own;
and the handler with which the discovery reports the service. A slot is the timestamp in it here,
the memory is there or not. A proxy is destroyed after the destructors of its `SamplePtr`s have ended, which the
application has to see to: `~ProxyEventBase` looks at the tracker only (`proxy_event_base.cpp:95`).
The deferred value of a field always finds a slot, as a field that was never sent has none in use.

### Tracing

The trace points of the elements, the tracing runtime and its LoLa binding, with one sending
thread for each event, the trace-done callbacks of the subsystem's thread, its refusals (recoverable, fatal,
terminal), the registration of the memory with its second try, the skeleton's transaction log
step by step, offers, stop-offer, crash and rollback. The subsystem itself (`GenericTraceAPI`) is external.
The memory is registered only if it lies in typed memory (`typed`), which is asked for when something is
traced and not always given.
`OfferResults` says whether an offer may end half-way (a field without initial value); the run has both.

`disconnected` has the events whose QM consumers are disconnected (`EventDataControlComposite` has that
allocation). The subsystem references the slot through the QM control; from then on slots are
chosen by their ASIL-B word, so `Send` may take the slot that is being read, and begin a second transaction on its
log entry while the trace-done callback clears the first. `ReferenceTransactionBegin` has both outcomes of the
`AMP_PRECONDITION` there: a build that checks it ends the process (`state = "log in use"`), one that does
not goes on. The two flags of an entry are bit-fields of one byte (`transaction_log_slot.h:43`) that two threads then write
without a lock, a data race: what they become is any of `Flags`. `shared` has the events to which this
happened; the properties say nothing more of their logs.

### Configuration, Identifiers, Bindings

`Configuration` parses a document entry by entry, each chosen from the entries a document may hold,
well-formed or with a defect that ends the process; then the trace filter against it; then it sizes
and restricts the runtime. Each construction of a traced element of a skeleton registers it
(`RegisterServiceElement`), also a second time: the index it gets is never given back. `Identifiers` has the deployments, their JSON form (written and read by
different operators, as in the code), equality, compatibility, hashes and file names. `Bindings`
adds `InstanceIdentifier::Create` from the text of another process and the elements the factories
make; `ConfigurationIsConsistent` and the inductive invariant behind it are at its end. A JSON object is a function from its keys; texts and numbers are values.

### MC modules and proofs

`MCEventDataControl`, `MCEventSubscription`, `MCEventNotification`, `MCPartialRestart`,
`MCServiceDiscovery`, `MCServiceElements`, `MCTracing` and `MCConfiguration` give the constants their
values. `MCEventSubscription` and `MCEventNotification` choose one of two instances in the initial
state (the variables `registers` and `lone`), because both at once would be too many states.
`EventDataControlProofs`, `EventDataControlCompositeProofs`, `EventSubscriptionProofs`,
`EventNotificationProofs`, `MessagePassingProofs` and `ServiceElementsProofs` extend the module they
are named after with its theorems; `DiscoveryAndRestartProofs` does so for `PartialRestart` and
`ServiceDiscovery`, `TracingAndConfigurationProofs` for `Tracing` and `Bindings` (and with it
`Configuration` and `Identifiers`). The invariants they use are defined at the end of the
extended module, so that TLC can evaluate them too. `EventSubscriptionProofs` and
`EventNotificationProofs` start from `MCEventSubscription` and `MCEventNotification`, whose instances
two properties refer to; the first has the theorems about `ProxyCreation` as well.

## Runs

| Run | Checks | Bounds, and why they are enough |
|---|---|---|
| `control_crash` | `TypeOK`, `RefCountWithinLog`, `HeldSampleStable`, `RollbackLeavesNothing` | 2 consumers, 2 slots, 1 sample each, 2 crashes: a consumer's slot is recycled under the other's hands, and a rollback dies and is repeated |
| `control_sizing` | `FetchedRight`, `AllocationHasAFreeSlot`, `ControlKeepsItsPromise`, `CallsReturn` | 1 consumer with 2 samples and 1 allocation on exactly 3 slots, 4 timestamps, 1 crash: every slot is used and reused, `GetNewSamples` collects two samples, all retries are used |
| `composite` | `BlocksAgree`, `SamplesIntact`, `DisconnectionServesAsilB`, `AsilBKeepsItsPromise` | 3 slots, 2 allocations, 1 ASIL-B and 2 QM samples, 1 retry of the fallback, 1 crash or re-offer: two held QM samples and an allocation use up the slots, so QM is disconnected; the fallback succeeds, fails with a slot locked, or fails without |
| `subscription_shared` | `RestartsReported`, `CounterWithinBounds`, `LiveLogsSafe`, `SingleCreationLeavesNoOldLog` | 3 proxies in 2 processes compete for 2 logs and 2 samples, 2 crashes; or, in the second instance, one proxy in each process, 2 entries and 2 passes of `RegisterPid` |
| `notification_handlers` | `HandlersOwned`, `NoWithdrawnHandlerRuns`, `RegistrationsKept`, `EveryHandlerCalled` | 2 proxies of a provider that stays, or 1 proxy of one that stops, crashes and restarts; 3 registrations, 1 notification: a handler is replaced while the list is walked and the other is next or current |
| `discovery_search` | `NoOfferMissed`, `StoppedSearchesStaySilent`, `WatchesMatchSearches` | 1 instance offered twice, 2 searches for any instance and 1 for this one, batches of 2 events, 1 fault: watches are shared and given up in every order |
| `partial_restart` | `OneSkeletonPerInstance`, `ProviderAndUsersShareMemory`, `MemoryIsWhole` | 2 skeletons, 1 proxy per quality, 2 generations mapped at a time, 3 crashes: a crash while the memory is made, another while it is reused or removed, and one of a proxy in between |
| `message_passing` | `HandledRight`, `NothingLeftBehind`, `NothingUsedAfterFree`, `StopsAreReceived` | 2 callers, 3 calls, 2 senders, queues of 2 and 1, 2 retries: both queues are full, a sender is replaced while its queue is worked on, the receiver is destroyed at any time, while its threads start too |
| `service_elements` | `QuotaKept`, `SamplesStay`, `FieldShowsLastUpdate`, `OfferConsistent`, `PendingEnds` | 1 event, 2 fields, 1 of them watched with 2 samples of 3 slots, 5 updates, 2 offers: an offer fails half-way at the second field and is repeated |
| `tracing` | `TracingIsSafe`, `LogAccountsForReferences` | 1 event with both send points, 2 slots, 2 acceptable failures, 2 offers: a callback races the next send, with QM consumers connected or not, failures of sends and of local data add up, memory is reused or made anew. Events share only the switches and the registration; the proof has any number of them |
| `configuration` | `ConfigurationIsConsistent`, `OnlyRepeatsEndTheProcess`, `ListedUsersAreAdmitted` | documents of up to 2 types and 2 instances out of 11 and 20 kinds of entry, 5 global sections, 3 filter entries, 2 `Initialize` calls, 5 received identifiers and 6 texts that are none: two entries are enough for every check that compares entries |
| `field_reoffer` | `SubscribedFieldHasValue`, violated | as `service_elements` |

The bounds on timestamps, allocations held at once, crashes, offers and calls are guards of the
actions and constants of the modules. Several properties are conjunctions of named parts, each with
its own comment (`BlocksAgree`, `MemoryIsWhole`, `HandledRight`, `ConfigurationIsConsistent`, ...).

Deadlock is not checked where the system may stop: `subscription_shared` (a process that dies with
the mutex of the logs may lose it for everyone), `configuration` (the process may end),
`message_passing`, `tracing` and `service_elements` (the bounds on calls and offers use up), and
`discovery_search` (see `HandlersMayStop` below).

Fairness. `EventDataControl!FairSpec` assumes weak fairness for each thread that is inside a call,
one thread at a time and never across processes: the scheduler runs a thread that is not blocked,
and these calls block on nothing. `ServiceElements!FairSpec` assumes weak fairness of the discovery's
handler alone: its thread runs as long as the process. No fairness is assumed of a user's decision
to call, of a restart or of a crash. `MessagePassing!FairSpec` (threads that can go on do; the
kernel serves blocked clients in turn) is used for `CallsReturn` below, which no run lists.

### Disagreements

`field_reoffer` shows that a field does not always have a value, although
`design/events_fields/README.md` says so: `SkeletonFieldBase::PrepareOffer` sends the initial value
at the first offer only. After `StopOfferService` without proxies the memory is removed; the
next `OfferService` makes it anew and announces the service with an empty field. This is why
`FieldShowsLastUpdate` allows an empty field in memory made after the first offer.

The following were met while modelling. Each names the property that states what the code, a
comment or a document says and that does not hold for the model, or the lines, where it is no
question of interleavings. They have no runs of their own.

Slots and logs:

- `NoSlotLeaked`: the loop of `AllocateNextSlot` reports "empty" whenever the retry counter has
  reached its maximum, even when the last exchange locked a slot (`event_data_control.cpp:87`). The
  slot stays in writing until the skeleton restarts. Properties about free slots exclude this case
  through `leaked`. The fallback of the composite takes the same loop: `NoStrayLock` excepts the
  words in `leaked`, and `LeakedStayLocked` says that they are ASIL-B words, stay locked and are given to nobody.
- `LogPreconditionsHold` with `ConcurrentRelease`: `DereferenceEvent` subtracts the reference
  before it clears the log entry (`event_data_control.cpp:281`). Another thread of the same consumer
  that collects samples meanwhile can meet the entry and the precondition of
  `ReferenceTransactionBegin`.
- `TimestampsStayFresh`: the clock recovered by a restarted skeleton forgets the latest event when
  its slot was being rewritten at the crash; timestamps repeat (`event_slot_status.h:44`).
- `CreationLeavesNoOldLog`: `RollbackProxyTransactions` rolls back one log per call although its
  documentation says all (`transaction_log_set.h:133`); with two proxies in the crashed process, the
  second log stays until a second proxy is created.
- Unsubscribing while samples are held is declared illegal (`proxy_event_base.h`) and terminates
  the process, but after the subscription was withdrawn: the log it leaves violates the
  precondition of the rollback in the next process, which terminates as well.
- Composite: `qm_disconnect_` stays set over a re-offer (`skeleton_event.h:192`), so QM consumers are
  never served again, and with `ReofferAfterDisconnect` their old words are met again; a re-offer
  with samples in hand (`ReofferWithSamples`) frees the slots under them. After a disconnection,
  an ASIL-B write, a crash and a restart, QM words carry old timestamps over newer data.

Notification and messages:

- `RegistrationReachesProvider` with two proxies: register and unregister messages are sent after
  the lock of the counter was released (`notify_event_handler.cpp:431`). A withdrawal decided
  first may be sent last; the provider then forgets a consumer that has a handler, until all
  handlers are withdrawn. With one proxy it holds, restarts included.
- `HandlerMayReadState` with `HandlerReadsState`: `Unsubscribe` holds the mutex of the state machine
  and waits for the running handler, which waits for that mutex when it asks for samples or for the
  state (`notify_event_handler.cpp:338`).
- `RegistrationsCounted` with stop-offers: when a provider stops offering and offers again without a
  restart, `ReregisterEventNotification` counts the registration it finds once more (`:224`); the
  counter never returns to 0 and the provider is never told that nobody listens.
- `NoNodeForgotten`: a second crash between the exchange of the pids and `NotifyOutdatedNodeId`
  loses the report of the older pid (`transaction_log_rollback_executor.cpp:84`).
  `compare_exchange_weak` in `uid_pid_mapping.cpp` may also fail for no reason as often as
  there are retries; the caller then ends the process.
- `MessagePassing!CallsReturn` under `FairSpec`: the constructor of `Sender` waits for a node that is
  gone for as long as its stop source is not requested, which nobody does
  (`message_passing_control.h:100`), and holds `senders_qm_mutex_`: all later calls wait as well.
- `EveryStopIsReceived`: a receiver destroyed while thread 0 is between installing its stop callback and
  looking at its token (`receiver.h:219` and `238`) sends two stop messages where one thread is left, as thread 0
  does not enter its loop any more, and `~Receiver` blocks. `StopsAreReceived` has this one case
  (`"overtaken"`) as its exception.
- `resmgr_receiver_traits.cpp:140`: a failure half-way through `open_receiver` leaves the resources
  made before. `non_blocking_sender.h` speaks of a callable per element; the code loops in one.

Discovery and restart:

- `LinksAreNew`: two assertions of `LinkWatchWithSearchRequest` (`service_discovery_client.cpp:551`)
  fail when an instance directory comes up in an event that the crawl of the search has seen.
- `HandlersMayStop`: a handler may stop its own search (`design/service_discovery/README.md:222`),
  which takes `container_mutex_` while the worker's mutex is held; a user's call takes them in the
  other order (`service_discovery.cpp:117`).
- `NoStaleOffer`: when a flag file is created and removed within one batch of events, the deletion is
  handled first and the instance is then known for good (`service_discovery_client.cpp:364`).
- `ReusedMemoryIsComplete`: "Since the previous shared memory region is being currently used by proxies, it
  must have been properly created and OfferService finished" (`skeleton.cpp:475`). A proxy with an older handle
  locks the usage marker before it opens anything (`proxy.cpp:274`), so it may hold what a crashed provider
  left half made or half removed. The next skeleton then reopens that: an offer fails at a missing object, and a
  missing event terminates its process, as it does a proxy's (`proxy.cpp:180`). What remains true is
  in `MemoryIsWhole`: what is opened belongs together, and a bound ASIL-B proxy vouches for all events
  (a QM proxy does not for those of the ASIL-B control, which are registered last).
- `OneSkeletonPerInstance` with `OverlappingExit`: the destructor releases the lock on the existence
  marker before it removes the path. A second process may lock the file in between; a third then
  finds no file, makes a new one and locks that.
- `StartFindService` by `InstanceSpecifier` (`service_discovery.cpp:75`) stores its callback and its instances without
  `container_mutex_`, which all other operations on these containers take: a data race with any of them, whose
  outcome C++ leaves open. Only the overload by identifier is modelled.

Elements, tracing, configuration:

- `ReferencesWithinQuota`: a `SamplePtr` gives its quota back before its slot (order of its members),
  so a new sample may be fetched in between. `ReleasedBeforeUnsubscribed` without
  `WaitsForRelease`: a release on another thread may come after the log was given away.
- `~SkeletonBase` cleans up with elements that are gone already; an `OfferService` that fails leaves
  memory and markers; zero-copy `Send` does not look at `service_offered_flag_`; a
  `GetNewSamples` inside its own callback overwrites the `SlotCollector`'s array.
- `LogsAreEmptyWhenReset`, `LogUsedByOneThread`: the skeleton's transaction log is used by the sending
  thread and by the trace-done callback at once (`transaction_log_set.h:39`), and a stop-offer may
  find an entry whose release is under way. With QM consumers connected they work on different entries, except
  while the callback is between the decrement of a slot and the end of its transaction
  (`event_data_control.cpp:281`): the slot is free then, a send may take it and meet the entry.
  Once QM consumers are disconnected, the send may also take the slot the subsystem still reads: the reference is in the QM word
  (`skeleton_event_tracing.h:87`), the allocation looks at ASIL-B alone (`event_data_control_composite.cpp:160`),
  and the sample is rewritten while it is traced. A build that checks `AMP_PRECONDITION` ends the
  process at `transaction_log.cpp:95`, another goes on with a log that says nothing any more.
- `OpenSharedMemoryForData` calls the optional trace callback without looking (`skeleton.cpp:698`): typed memory that is reopened when all
  trace points are off ends the process (`state = "no callback"`).
- `FailedRegistrationIsRetried`: a failed
  registration of the memory is stored under the identifier all elements share and looked up under
  that of an element, so the announced second try (`tracing_runtime.cpp:377`) never takes place.
  `RegisteredOnce`: a second offer after one that failed half-way registers twice and terminates.
  `TracedMemoryIsRegistered` excepts, through `again`, the offer that is repeated after it ended half-way: if its memory
  is made anew and the registration is refused, the handle of the old memory stays in use
  (`tracing_runtime.cpp:374`).
  Further: the data-loss flag is no atomic, `TraceSendWithAllocate` drops silently, memory is not
  unregistered when all points are off, and two trace-done calls for one sample race.
- `TracersNeverEndTheProcess`: each construction of a traced skeleton event or field registers it
  (`skeleton_event.h:123`, `skeleton_event_tracing.cpp:92` and `126`), and `current_service_element_idx_` only grows
  (`tracing_runtime.cpp:123`), while as many sample pointers are set up as there are elements to trace. An application that destroys a
  skeleton and creates it again meets `std::terminate`. `OnlyRepeatsEndTheProcess` says that
  nothing else does.
- `UnlistedInstancesStayOpen`: an instance without lists should leave its endpoint open
  (`configuration/Readme.md:48`); the receiver is shared, and another instance's list closes it.
- `LolaEventInstanceDeployment::SetTracingEnabled` is never called (`design/ipc_tracing/README.md:371`).
  `InstanceIdentifier::configuration_` points to the configuration that `getInstance` moves away
  (`runtime.cpp:319`), and a second `Initialize` replaces it too: `Create` works between `Initialize`
  and `getInstance` only, and terminates for a type or specifier that is configured already.
- The filter parser dereferences the end iterator for an element without short name, and
  `ParseServiceTypeDeployment` does so for a type without bindings; service ids, and pairs of service
  and instance id, are not checked for duplicates; `operator<` of identifiers is no order (nothing
  sorts by it) and equality of blank instance ids is not symmetric; the tracing flag is
  lost in serialisation; `Create` does not compare ASIL levels.

## What is proved

For every value of the constants the assumptions allow (any number of slots, consumers, proxies,
processes, retries and crashes):

| Module | Theorems about properties of runs | Under |
|---|---|---|
| `EventDataControlProofs` | `TypeCorrect`, `ReferencesRecoverable`, `SamplesStable`, `RollbackComplete`, `PromiseKept` | |
| | `FetchCorrect` | `~ConcurrentRelease` |
| | `AllocationSucceeds` | `~ConcurrentRelease`, `SlotsSuffice` |
| `EventDataControlCompositeProofs` | `BlocksInStep`, `SamplesStayIntact`, `AsilBPromiseKept` | `~ReofferWithSamples`, `~ReofferAfterDisconnect` |
| | `DisconnectionWorks` | the same, and `SlotsSuffice` |
| `EventSubscriptionProofs` | `LogsSafe`, `SingleCreationsAreComplete`, `CounterKeepsBounds`, `RestartsAreAlwaysReported` | |
| `EventNotificationProofs` | `HandlersHaveOwners`, `WithdrawnHandlersStayQuiet`, `EveryHandlerIsCalled`, `RegistrationsAreKept` | |
| `DiscoveryAndRestartProofs` | `InstanceHasOneSkeleton`, `MemoryIsShared`, `MemoryStaysWhole` | `~OverlappingExit` |
| | `NoOfferIsMissed`, `SearchesStaySilent`, `WatchesAndSearchesMatch` | |
| `TracingAndConfigurationProofs` | `LogAccounts`, `TracingStaysSafe`, `TracersAreProvidedFor`, `ListedUsersAdmitted` | |
| | `ConfigurationConsistent` | `NothingIsNoConfiguration` |
| `MessagePassingProofs` | `HandlingIsRight`, `NothingIsLeftBehind`, `NothingIsUsedAfterFree`, `StopMessagesAreReceived` | |
| `ServiceElementsProofs` | `QuotaIsKept`, `SamplesRemain`, `FieldsShowLastUpdate`, `OffersConsistent` | |

A hypothesis of the last column is a switch of its module whose other position is an environment in
which the property fails (see the disagreements above), or the sizing rule the code documents; the
runs use the same. Some properties name an exception in themselves, each a disagreement above: `BlocksAgree` the
slots in `leaked`, `StopsAreReceived` the overtaken thread, those of `Tracing` the events in `shared` and
`disconnected` and the offers in `again`, `OnlyRepeatsEndTheProcess` the repeated registration. Further theorems state the inductive invariants and their parts: `CountsCorrect`,
`SubscriptionsCorrect`, `CounterHasRoom`, `LogsEmptyWhenReused`, `NotificationTypeCorrect`,
`CompositeInvariantHolds`, `RestartInvariantHolds`, `DiscoveryInvariants`, `DiscoveryTypes`,
`TracingInvariantHolds`, `MessageInvariantHolds`, `ElementInvariantHolds`. `RegistrationsAreCounted` states the first half of
`RegistrationsKept` without the instances, as `Spec /\ []ProviderStays => []RegistrationsCounted`. No proof assumes more of
a constant than the `ASSUME` of its module, but for `NothingIsNoConfiguration`: the value that stands
for an absent optional is not a record with the fields of a `Configuration`, which holds of the model
value of the run but is nothing TLC can evaluate. For the configuration the assumptions are
`DocumentAssumption` (lists are finite, entries have values of the right kind, an instance enables
tracing for elements it lists only) and `TextAssumption` (the texts of other processes are those of
identifiers that resolve there, or not readable as one).

The argument for the slots: that a slot's count equals the number of consumers counted in it
(`CountsExact`) is not inductive, because a decrement is only harmless when the consumer really is
counted, which its log tells before and after, but not during, a transaction. `CountInvariant`
therefore says for each position of a consumer what its log and `counted` must be
(`CollectorLogged`, `ReleaseLogged`, `SamplesLogged`), what a log entry tells by itself
(`LogRecordsCounted`), that what the publisher writes to belongs to nobody else
(`WriterOwnsSlots`), and how far a rollback has come (`RollbackProgress`). Each part is preserved
with the help of the others. The assumption `Cardinality(Consumers) < RefCountMax` keeps the
count from carrying into the timestamp; in the code the count has 32 bits.

The argument for subscriptions: the counter equals the number of logs whose subscription is
counted; where a proxy is determines the state of its log (`LogFollowsProxy`); logs and
rollbacks of different proxies are disjoint (`LogsOwned`) because a rollback works only on marked
logs under the mutex (`MutexHeld`) and a process marks logs only before its first proxy has one.
`NoSubscriberOverflow` follows as there are only as many logs as subscribers allowed.

The samples in the counter are a sum over the logs it counts, which a fold computes and no induction
is at hand for. `TotalCountsUnits` replaces the sum by the cardinality of a set (`Units`, one pair for
each sample): were it wrong, a smallest set with another sum would have an element without which the
sum is right. `SamplesInvariant` then says that the counter has the units of the counted logs,
and the units of the subscribed proxies are among them, as their logs are different ones.

The argument for the pids: only a process itself writes the entry of its uid, so what the entry says
follows from the step its process is at (`EntriesFollowRegistration`): none of its own while it
scans, a half-written one when it has claimed, its current pid when it reports or is
registered, which it is whenever its logs are marked. A node the provider knows is in an entry or
about to be reported (`NodeKept`), except for those in `forgotten`. The first part is needed for the
second, because an entry that is taken over hands back the one pid the provider may still know.
`RestartsReachProvider` states the result for `CreationSpec`, with any number of processes, entries
and passes; `RestartsAreAlwaysReported` carries it over to the behaviours that are model-checked.

The argument for handlers: `HandlersOwned` only fails when a call registers for a proxy that already
has a number or that is not subscribed, so `CallsFollowState` says at which steps of a call the
proxy has no number and that a call which will register belongs to a proxy that is subscribed.
Numbers are fresh because all of them are at most `lastNumber`, which is part of `TypeOK`. A handler
that runs is in the list because changes of the list wait for it, and its scope is not expired
because the expiry does.

The refinement (`PromiseKept`) maps a status word to the state and the timestamp of its slot and the
readers to the consumers counted in it. Only the exchanges of the publisher and of the consumers,
`Send`, `Discard` and the decrements are steps of `EventSlots`, the rest stutters. It needs
`CountsExact`, to see that a slot that is taken has no reader, and `CountedArePublished`, so that
giving back the last reference does not turn a slot free.

`FetchInvariant` explains `FetchedRight` for one collecting consumer: the slots it collected and those
its user holds are different ones, which the log shows (`CollectsAlone`, `LogEntriesKnown`); the
timestamps of what it holds are at most `lastTs`, those of what it collected lie above the next
candidate (`StampsDivide`, `CandidateNew`), although the candidate's status was read long ago.
Without the exclusion of concurrent releases `LogEntriesKnown` fails, as described above.
`BudgetInvariant` balances the guards of a subscription against its references. With `SlotsSuffice`
an allocation then finds a slot by counting: the consumers use at most as many slots as they have
permits, the publisher fewer than `MaxAllocations`.

`CompositeInvariant` says for each step of an allocation who owns the lock of which block: between
the two exchanges the allocation itself (`LocksOwned`), afterwards the pointer given out, which
knows whether it was allocated in ASIL-B only (`DisconnectKnown`); a word in writing without either is one that
a failed fallback left (`leaked`), and it is in ASIL-B only, so that the rest of the argument does not meet it
(`LeakedStayLocked`). The refinement hides the QM block;
what makes it hold is that `AsilBSamplesIntact` ties the timestamp of a word to the sample in the
slot at every step of `Send` (`SendingSound`).

`RestartInvariant` follows the two marker files: who has the existence marker open has the file the
path names, and one of them locks it (`MarkerHeld`, needed for any number of inodes); a proxy's
shared lock on the usage marker excludes that the memory it mapped is removed (`UsageHeld`). As a proxy may
come at any time, nothing says that what it maps is complete; but what is there was made together
(`OneGeneration`, because memory is only made after all that is old was removed), and its events are there in the order of
their registration (`RegisteredInOrder`). So what a proxy opened is there for as long as it has it
(`UsersOnMemory`), and the provider's objects are those that are there, at each step of making,
opening or removing them (`ProviderOnMemory`).

The discovery has three invariants. `SearchInvariant`: the step a thread is at tells which mutexes it
has (`MutexesHeld`), a handler runs under `worker_mutex_` and an ongoing search has its callback
(`SearchesHaveCallbacks`); so the callback that `StopFindService` removes under both mutexes is
neither running nor wanted, except by the handler that stops its own search.
`WatchInvariant`: `WatchesMatchSearches` becomes inductive with what a crawl has found so far, which
is watched and belongs to the search's target (`CrawlsAreWatched`), and with the events, each of
the watch that the kernel has for it or of none (`EventsAreOfWatches`). `OfferInvariant`: what is
offered is in the cache or its creation is still pending (`OfferedAreKnown`), the same for what a
search was told (`LinkedAreTold`) and for directories a search for any instance is not linked
with (`DirectoriesAreLinked`). Deletions are handled before the creations of their batch, so these
would not last without `DeletionsAreFollowed`: as long as a flag file exists, behind each queued deletion
of its name there is a creation. That in turn is because a provider removes what it finds before it makes a file, and has one of each
quality (`OneFileEach`). With no event left, only the first alternatives remain, which is
`NoOfferMissed`. `OfferInvariant` is asked only until an assertion of
`LinkWatchWithSearchRequest` fails, as the process ends then.

`TracingInvariant` says, for each event whose log no two threads have used at once, which of the sender and the
trace-done callback owns the entry of the parked sample (`SenderOwnsEntry`, `ParkedEntry`), and that all other
entries are empty (`EntriesCleared`). It holds over a disconnection: a send that takes the parked slot finds an
entry that is not empty, and the event is in `shared` from then on. `ThreadsTogether` is what remains true of such
an event. `FailuresCounted` bounds the counter by the failures under way.
`LogAccounts` needs nothing else; the handle passed to the subsystem also needs `HandleKnown`.

`MessageInvariant` has three parts. `ReceiverInvariant`: one listening thread owns the queue, and what
arrived is what was handled, what is being handled and the queue, in that order. `SenderInvariant`:
each queue with messages has exactly one task, before whose end its sender is not freed, and callers
hold references. `OrderInvariant`: no message occurs twice in the queues and what arrived, except the one
that was written and is not yet removed, and earlier calls come first. `StopsMatchThreads` counts
the stop messages still to come against the threads still to leave, whatever stage the threads are at when the
destructor starts; a thread that was overtaken is one message without a thread.

`ElementInvariant` has a part for each side and one for the memory between them. Of the provider:
what is announced was prepared, in memory that exists (`OfferComplete`), a field waits with the value
its memory does not have yet (`FieldsShown`), and the clock of an element is past its slots
(`StampsIssued`), also after it was started anew from them. Of the consumer: the guards of a tracker
are free, in the call or in samples (`GuardsAccounted`), which needs that what is collected was not
seen before (`CollectedOnce`) and that at most n samples have fewer than n newer ones
(`NewestCounted`). Of the memory: a proxy keeps it and it keeps the proxy's samples. The quota
does not need that the application waits for the destructors of its `SamplePtr`s before it
unsubscribes; `WaitsForRelease` is either value.

Two smaller invariants: `WalkInvariant`, that a notification has called every handler due up to the
one called last, since new handlers get higher numbers; and `LoneLogs`, that a process with one proxy
has at most one log, marked whenever the proxy is about to be created.

The argument for registrations has a case for each instance. `CountInvariant` counts the proxies at a
provider that stays, where nothing is renewed. `LoneInvariant` follows the one proxy that is used
through stop-offers, crashes and restarts: while its call is over its entry has a count and the pid
it knows, so that a renewal finds the entry and sends to a new pid; no entry has the pid of a
provider yet to come; and a provider in the entry, alive, has been told or is about to be
(`WillBeInterested`, what it has heard once its queue is empty). With two proxies the second
statement fails, since the counter and the messages are not in step (see the hazards).

`BindingsInvariant` has a part for each stage of a configuration. `LifecycleInvariant` says who holds
it at each phase, `ConfigurationInvariant` what is known of it: at all times it is finite, of its type, and what it
traces is an element of an instance (`IsSane`); while it is read, the ids of a type are unique (`AsParsed`);
after the cross checks its instances resolve in its types, and all but those that
`InstanceIdentifier::Create` added have a Lola binding and no higher quality than the process
(`IsConsistent`). `Create` preserves it, as the received identifier resolves in the configuration
it comes from and its type and specifier are new here. `ReceivedInvariant` needs that what is read from the text of an identifier
is what was written: the lemmas ending in `Back` show it for each part of a deployment, for
reader and writer as they are in the code, the tracing flags aside, which the text does not have.
`BoundInvariant` then has the same ids, and thus the same files, at sender and receiver.

The samples to be traced are counted with the instances of one trace point for each element, whichever
the unordered map has first. `FilterInvariant` says why that is no mistake: a trace point is in
the filter for all instances that trace its element or for none, so each choice counts the same
instances, and every element that registers is one of them (`RegisteredFit`); as long as each has registered once, who
registers next finds a place (`TracersStep`). For the users, the fold over the instances gives in any order what their lists
have together, or everyone if one of them is empty (`AllowedIsUnion`, where an induction is
replaced by a smallest set of positions for which the fold differs).

Only model-checked, and why: `CallsReturn` and `PendingEnds` (liveness under fairness), and
`SubscribedFieldHasValue`, which the code violates.

## Plan

Modelling that is left: `FindService`, the shutdown of the discovery and the overflow of its event
queue; providers in the consumer's own process; POSIX message queues; zero-copy `Allocate` and
`Send` and moves of proxies and skeletons in `ServiceElements`; two instances in
`discovery_search`.

## Not modelled

The estimation and the simulation of the size of the shared memory (arithmetic over `sizeof` and
the bookkeeping of an allocator, `skeleton.cpp` 173 to 275 and 755 to 848), offsets and containers in shared memory, the text
of paths, ACLs (the operating system's), C++ type erasure and dispatch without state, the JSON text
itself, logging, and the contents of the tracing meta information. They are
sequential, have no state that changes, or belong to libraries outside the repository.

Parts of modelled operations that are left out: the end of the worker's executor, at which `SendInternal` submits no more tasks
(`non_blocking_sender.cpp:107`), which comes with the end of the runtime; a binding whose `PrepareOffer` fails on a file or a marker
before any element is prepared (`skeleton.cpp:445` and `536`; in `PartialRestart` `CreateFails` and `OpenSharedMemory` have it, in
`ServiceElements` an offer fails at its elements; `FinalizeOffer` of LoLa cannot fail, `skeleton.cpp:488`); and
`StartFindService` by `InstanceSpecifier` (see above).
