------------------------------ MODULE Tracing ------------------------------
(***************************************************************************)
(* IPC tracing of one providing process: the trace points of the service   *)
(* elements (impl/tracing/skeleton_event_tracing.h, proxy_event_tracing),   *)
(* the tracing runtime (impl/tracing/tracing_runtime.cpp) and its LoLa      *)
(* binding (impl/bindings/lola/tracing/tracing_runtime.cpp).                *)
(*                                                                         *)
(* The tracing subsystem is a consumer of each traced event: TraceSend      *)
(* references the slot just sent through the skeleton's own transaction     *)
(* log, parks the reference in type_erased_sample_ptrs_ and calls the       *)
(* GenericTraceAPI (external), which reads the slot until it invokes the    *)
(* TraceDone callback on a thread of its own.  The process may crash at any *)
(* step; its successor rolls the transaction log back.                      *)
(***************************************************************************)
EXTENDS Integers, FiniteSets

CONSTANTS
    Events,        \* traced events and fields of the skeleton; one sending thread each
    Configured,    \* for each event the trace points enabled by the trace filter configuration
    SlotCount,     \* slots of each event
    LocalPoints,   \* trace points of proxy events and fields: no shared memory involved
    MaxFailures,   \* MAX_CONSECUTIVE_ACCEPTABLE_TRACE_FAILURES
    OfferResults,  \* how OfferService may end: see OfferService
    MaxOffers      \* bound: offers, over all lives of the process

ASSUME ConstantsAssumption ==
    /\ Events # {} /\ IsFiniteSet(Events)
    /\ Configured \in [Events -> (SUBSET {"send", "send_with_allocate"}) \ {{}}]
    /\ OfferResults \subseteq {"offered", "prepared"}
    /\ SlotCount \in Nat \ {0} /\ MaxFailures \in Nat \ {0} /\ MaxOffers \in Nat

Slots      == 1..SlotCount
None       == 0                           \* no slot
SendPoints == {"send", "send_with_allocate"}
ApiErrors  == {"recoverable", "fatal", "terminal"}
ApiResults == {"ok"} \cup ApiErrors
Stages     == {"idle", "begin", "increment", "commit", "trace", "call", "drop", "dereference",
               "dereferenced", "process"}
Outcomes   == ApiResults \cup {"busy", "disabled", "unregistered"}

VARIABLES
    \* the process
    state,     \* "stopped", "prepared" (offering failed half-way), "offered", or how it terminated
    is_tracing_enabled,
    consecutive_failure_counter,
    data_loss_flag,
    enabled,   \* tracing_data_: for each event the trace points that are switched on
    local,     \* the local trace points that are switched on
    handle,    \* shm_object_handle_map_: generation of the registered memory, 0 for none
    cached,    \* failed_shm_object_registration_cache_: the keys of its entries
    sample,    \* type_erased_sample_ptrs_: the slot parked for each event
    sender,    \* for each event its sending thread: stage, slot, trace point, and what Trace returned
    callback,  \* for each event the stage of its TraceDone callback
    \* the shared memory of the service
    memory,    \* generation of the shared memory objects, 0 before the first
    refs,      \* references of the tracing subsystem in the slot status words
    log,       \* skeleton_tracing_transaction_log_: the flags "begin" and "end" set for each slot
    active,    \* ... and is_active_
    typed,     \* IsShmInTypedMemory: the data object lies in typed memory
    disconnected, \* ignore_qm_control_: events whose QM consumers are disconnected
    \* the tracing subsystem
    reading,   \* the slot the subsystem reads for each event
    offers,    \* bound only
    stuck,     \* history: a rollback of the log was given up
    again,     \* history: an offer that had failed half-way was repeated
    shared     \* history: events of whose log two threads used one entry at once

binding == <<handle, cached>>
service == <<state, binding, memory, active, typed, disconnected, offers, stuck, again, shared>>
switches == <<is_tracing_enabled, consecutive_failure_counter, data_loss_flag>>
runtime == <<switches, enabled, local>>
vars    == <<service, runtime, sample, sender, callback, refs, log, reading>>

Idle      == [stage |-> "idle", slot |-> None, point |-> "send", result |-> "ok"]
NewLog    == [e \in Events |-> [s \in Slots |-> {}]]
ShmKey    == "all elements"     \* kDummyElementNameForShmRegisterCallback

NoSamples    == [e \in Events |-> None]
IdleSenders  == [e \in Events |-> Idle]
IdleCallback == [e \in Events |-> "idle"]

\* Tracing starts switched off if the process cannot register as a client.
Init ==
    /\ state = "stopped" /\ is_tracing_enabled \in BOOLEAN
    /\ consecutive_failure_counter = 0 /\ data_loss_flag = FALSE
    /\ enabled = Configured /\ local = LocalPoints
    /\ handle = 0 /\ cached = {}
    /\ sample = NoSamples /\ sender = IdleSenders /\ callback = IdleCallback
    /\ memory = 0 /\ typed = FALSE /\ disconnected = {}
    /\ offers = 0 /\ stuck = FALSE /\ again = FALSE /\ shared = {}
    /\ refs = [e \in Events |-> [s \in Slots |-> 0]]
    /\ log = NewLog
    /\ active = [e \in Events |-> FALSE]
    /\ reading = NoSamples

-----------------------------------------------------------------------------
(* Offering: the shared memory is registered with the subsystem, then each *)
(* event gets its transaction log.                                         *)

\* IsTracingEnabledForInstance: some event still has a trace point switched on
Traced == \E e \in Events : enabled[e] # {}

\* TracingRuntime::RegisterShmObject, answered with r, for the memory of generation g
Registers == Traced /\ is_tracing_enabled

Registration(r, g) ==
    [handle  |-> IF Registers /\ r = "ok" THEN g ELSE handle,
     cached  |-> IF Registers /\ r = "recoverable" THEN cached \cup {ShmKey} ELSE cached,
     enabled |-> is_tracing_enabled /\ ~(Registers /\ r = "terminal")]

NoRegistration == [handle |-> handle, cached |-> cached, enabled |-> is_tracing_enabled]

\* Both maps of the binding refuse a second entry for the same memory: std::terminate.
RegisteredTwice(r) ==
    Registers /\ ((r = "ok" /\ handle # 0) \/ (r = "recoverable" /\ cached # {}))

\* RollbackIncrementTransactions goes through the slots in order and gives up
\* at the first one whose transaction did not complete.
Unfinished(e) == {s \in Slots : Cardinality(log[e][s]) = 1}

RolledBack(e) ==
    {s \in Slots : log[e][s] = {"begin", "end"} /\ \A u \in Unfinished(e) : s < u}

\* Register in reopened memory: roll an active log back; where that fails the
\* log stays as it is.
RollbackSkeletonTracingTransactions ==
    LET undone(e, s) == active[e] /\ s \in RolledBack(e)
    IN  /\ refs' = [e \in Events |-> [s \in Slots |-> refs[e][s] - IF undone(e, s) THEN 1 ELSE 0]]
        /\ log'  = [e \in Events |-> [s \in Slots |-> IF undone(e, s) THEN {} ELSE log[e][s]]]

RollbackFails == \E e \in Events : active[e] /\ Unfinished(e) # {}

CreateLogs ==
    /\ refs' = [e \in Events |-> [s \in Slots |-> 0]]
    /\ log' = NewLog

\* Typed memory is asked for when something is traced, and not always given.
TypedMemory(reopen) ==
    IF reopen THEN {typed} ELSE IF Traced THEN BOOLEAN ELSE {FALSE}

\* How the registration of the memory may end the process: typed memory is
\* reopened and nothing is traced any more, so there is no callback to call, or
\* the memory is registered a second time.
Ends(t, r) ==
    CASE t /\ ~Traced -> {"no callback"}
      [] t /\ Traced /\ RegisteredTwice(r) -> {"registered twice"}
      [] OTHER -> {}

\* OfferService, to its end (result "offered") or only up to a field that has
\* no initial value ("prepared", to be called again).  The memory is reopened
\* while proxies still use it, else created anew.  The events' control blocks
\* are put together anew: QM consumers are connected.
OfferService(result, reopen) ==
    /\ state \in {"stopped", "prepared"} /\ offers < MaxOffers
    /\ reopen => memory # 0
    /\ offers' = offers + 1
    /\ memory' = IF reopen THEN memory ELSE memory + 1
    /\ again' = (again \/ state = "prepared")
    /\ \E r \in ApiResults, t \in TypedMemory(reopen) :
         LET registration == IF t THEN Registration(r, memory') ELSE NoRegistration
         IN  /\ typed' = t
             /\ \/ /\ state' \in Ends(t, r)
                   /\ UNCHANGED <<is_tracing_enabled, handle, cached, refs, log, active, stuck,
                                  disconnected, shared>>
                \/ /\ Ends(t, r) = {}
                   /\ state' = result
                   /\ handle' = registration.handle
                   /\ cached' = registration.cached
                   /\ is_tracing_enabled' = (registration.enabled /\ ~(reopen /\ RollbackFails))
                   /\ stuck' = (reopen /\ (stuck \/ RollbackFails))
                   /\ IF reopen THEN RollbackSkeletonTracingTransactions ELSE CreateLogs
                   /\ active' = [e \in Events |-> TRUE]
                   /\ disconnected' = {}
                   /\ shared' = IF reopen THEN shared ELSE {e \in shared : sample[e] # None}
    /\ UNCHANGED <<consecutive_failure_counter, data_loss_flag, enabled, local, sample, sender,
                   callback, reading>>

\* TracingRuntime::UnregisterShmObject
UnregisterShmObject ==
    IF ~Registers THEN UNCHANGED <<handle, cached, is_tracing_enabled>>
    ELSE IF handle = 0 THEN cached' = cached \ {ShmKey} /\ UNCHANGED <<handle, is_tracing_enabled>>
    ELSE /\ handle' = 0 /\ UNCHANGED cached
         /\ \E r \in ApiResults : is_tracing_enabled' = (r # "terminal")

\* StopOfferService, called while no event is being sent: each event gives its
\* transaction log back, which must be empty; then the memory is unregistered.
StopOfferService ==
    /\ state = "offered" /\ \A e \in Events : sender[e] = Idle
    /\ IF \E e \in Events, s \in Slots : log[e][s] # {}
       THEN state' = "log not empty" /\ UNCHANGED <<active, handle, cached, is_tracing_enabled>>
       ELSE /\ state' = "stopped"
            /\ active' = [e \in Events |-> FALSE]
            /\ UnregisterShmObject
    /\ UNCHANGED <<consecutive_failure_counter, data_loss_flag, enabled, local, sample, sender,
                   callback, memory, typed, disconnected, refs, log, reading, offers, stuck,
                   again, shared>>

-----------------------------------------------------------------------------
(* Sending a traced sample.                                                *)

At(e, stage) == sender[e].stage = stage

Goto(e, stage) == sender' = [sender EXCEPT ![e].stage = stage]

\* Trace returned (or is going to return once the sample is dropped)
Returned(e, stage, result) ==
    sender' = [sender EXCEPT ![e].stage = stage, ![e].result = result]

Own(e) == sender[e].slot

\* The flags of an entry share a byte, which is read and written unguarded: as
\* long as two threads are at work on an entry they may come out anyhow.
Flags == SUBSET {"begin", "end"}

Referencing == {"increment", "commit", "trace", "drop", "dereference", "dereferenced"}

Contended(e) == e \in shared /\ Own(e) = sample[e] /\ sender[e].stage \in Referencing

SetLog(e, s, flags) ==
    \E f \in IF Contended(e) THEN Flags ELSE {flags} : log' = [log EXCEPT ![e][s] = f]

\* Send publishes a sample in a slot nobody references and calls the callback
\* of CreateTracingSendCallback or CreateTracingSendWithAllocateCallback.  If the
\* allocation of the slot finds none free for both quality types, it disconnects
\* the event's QM consumers, and slots are chosen by their ASIL-B references
\* alone from then on, which the tracing subsystem has none of.
Send(e) ==
    /\ state = "offered" /\ At(e, "idle")
    /\ disconnected' \in {disconnected, disconnected \cup {e}}
    /\ \E s \in Slots, p \in enabled[e] :
         /\ e \in disconnected' \/ refs[e][s] = 0
         /\ sender' = [sender EXCEPT ![e] = [stage |-> "begin", slot |-> s, point |-> p, result |-> "ok"]]
    /\ UNCHANGED <<state, binding, memory, active, typed, offers, stuck, again, shared,
                   runtime, sample, callback, refs, log, reading>>

\* ReferenceSpecificEvent: begin, increment, commit.  That the entry is free is a
\* precondition: a build that checks it ends the process, one that does not goes
\* on with an entry that another thread still works on, or that a predecessor
\* left.
ReferenceTransactionBegin(e) ==
    /\ At(e, "begin")
    /\ \/ /\ log[e][Own(e)] # {}
          /\ state' = "log in use"
          /\ UNCHANGED <<log, sender, shared>>
       \/ /\ shared' = IF log[e][Own(e)] = {} THEN shared ELSE shared \cup {e}
          /\ SetLog(e, Own(e), log[e][Own(e)] \cup {"begin"})
          /\ Goto(e, "increment")
          /\ UNCHANGED state
    /\ UNCHANGED <<binding, memory, active, typed, disconnected, offers, stuck, again, runtime,
                   sample, callback, reading, refs>>

ReferenceSlot(e) ==
    /\ At(e, "increment")
    /\ refs' = [refs EXCEPT ![e][Own(e)] = @ + 1]
    /\ Goto(e, "commit")
    /\ UNCHANGED <<service, runtime, sample, callback, reading, log>>

ReferenceTransactionCommit(e) ==
    /\ At(e, "commit")
    /\ SetLog(e, Own(e), log[e][Own(e)] \cup {"end"})
    /\ Goto(e, "trace")
    /\ UNCHANGED <<service, runtime, sample, callback, reading, refs>>

\* No reference: the slot's QM word is in writing, invalid or at the limit of its
\* counter before anything is logged, or the consumers of the event changed the
\* word too often.  TraceSend records the loss, TraceSendWithAllocate returns
\* silently.
ReferenceTransactionAbort(e) ==
    /\ \/ At(e, "begin") /\ UNCHANGED log
       \/ At(e, "increment") /\ SetLog(e, Own(e), log[e][Own(e)] \ {"begin"})
    /\ data_loss_flag' = (data_loss_flag \/ (sender[e].point = "send" /\ is_tracing_enabled))
    /\ sender' = [sender EXCEPT ![e] = Idle]
    /\ UNCHANGED <<service, is_tracing_enabled, consecutive_failure_counter, enabled, local,
                   sample, callback, refs, reading>>

NeverActive(e) == FALSE

IsServiceElementTracingActive(e) == sample[e] # None

GetShmObjectHandle == handle

\* GetCachedFileDescriptorForReregisteringShmObject looks the element up by its own
\* identifier, the entry is stored under the identifier shared by all elements:
\* it is never found, and the second registration in Trace is never reached.
HasCachedFileDescriptor(e) == e \in cached

\* TracingRuntime::Trace, first half.  A TraceDone callback that is clearing the
\* parked sample holds the lock of the element.
Trace(e) ==
    /\ At(e, "trace") /\ callback[e] = "idle"
    /\ \/ /\ ~is_tracing_enabled
          /\ Returned(e, "drop", "disabled")
          /\ UNCHANGED <<data_loss_flag, sample>>
       \/ /\ is_tracing_enabled /\ IsServiceElementTracingActive(e)
          /\ data_loss_flag' = TRUE
          /\ Returned(e, "drop", "busy")
          /\ UNCHANGED sample
       \/ /\ is_tracing_enabled /\ ~IsServiceElementTracingActive(e)
          /\ GetShmObjectHandle = 0 /\ ~HasCachedFileDescriptor(e)
          /\ Returned(e, "drop", "unregistered")
          /\ UNCHANGED <<data_loss_flag, sample>>
       \/ /\ is_tracing_enabled /\ ~IsServiceElementTracingActive(e)
          /\ GetShmObjectHandle # 0
          /\ sample' = [sample EXCEPT ![e] = Own(e)]     \* SetTypeErasedSamplePtr
          /\ Goto(e, "call")
          /\ UNCHANGED data_loss_flag
    /\ UNCHANGED <<service, is_tracing_enabled, consecutive_failure_counter, enabled, local,
                   callback, refs, log, reading>>

\* The call of the GenericTraceAPI: accepted, the subsystem reads the slot from
\* now on; refused, the parked sample is taken back and dropped.
CallGenericTraceApi(e) ==
    /\ At(e, "call")
    /\ \/ /\ reading' = [reading EXCEPT ![e] = Own(e)]
          /\ Returned(e, "process", "ok")
          /\ UNCHANGED sample
       \/ /\ sample' = [sample EXCEPT ![e] = None]
          /\ \E r \in ApiErrors : Returned(e, "drop", r)
          /\ UNCHANGED reading
    /\ UNCHANGED <<service, runtime, callback, refs, log>>

ReleaseWithoutLogging(e) ==
    /\ At(e, "drop")
    /\ refs' = [refs EXCEPT ![e][Own(e)] = @ - 1]
    /\ Goto(e, "process")
    /\ UNCHANGED <<service, runtime, sample, callback, log, reading>>

\* A sample that is not parked is released: DereferenceEvent
Release(e) ==
    /\ \/ /\ At(e, "drop")
          /\ SetLog(e, Own(e), log[e][Own(e)] \ {"begin"})
          /\ Goto(e, "dereference")
          /\ UNCHANGED refs
       \/ /\ At(e, "dereference")
          /\ refs' = [refs EXCEPT ![e][Own(e)] = @ - 1]
          /\ Goto(e, "dereferenced")
          /\ UNCHANGED log
       \/ /\ At(e, "dereferenced")
          /\ SetLog(e, Own(e), log[e][Own(e)] \ {"end"})
          /\ Goto(e, "process")
          /\ UNCHANGED refs
    /\ UNCHANGED <<service, runtime, sample, callback, reading>>

\* ProcessTraceCallResult: what a result of the GenericTraceAPI does to the runtime
TooManyFailures == consecutive_failure_counter + 1 >= MaxFailures

ProcessTraceCallResult(r) ==
    CASE r = "ok" ->
            data_loss_flag' = FALSE /\ consecutive_failure_counter' = 0 /\ UNCHANGED is_tracing_enabled
      [] r = "terminal" ->
            is_tracing_enabled' = FALSE /\ UNCHANGED <<data_loss_flag, consecutive_failure_counter>>
      [] r \in {"recoverable", "fatal"} ->
            /\ data_loss_flag' = TRUE
            /\ consecutive_failure_counter' = consecutive_failure_counter + 1
            /\ is_tracing_enabled' = (is_tracing_enabled /\ ~TooManyFailures)
      [] OTHER -> UNCHANGED <<is_tracing_enabled, consecutive_failure_counter, data_loss_flag>>

\* UpdateTracingDataFromTraceResult: the trace points left of points, where p was traced
LeftEnabled(points, p, r) ==
    CASE r \in {"terminal", "disabled"} -> {}
      [] r \in {"recoverable", "fatal"} /\ TooManyFailures -> {}
      [] r = "fatal" /\ ~TooManyFailures -> points \ {p}
      [] r = "unregistered" -> points \ {p}
      [] OTHER -> points

TraceReturns(e) ==
    /\ At(e, "process")
    /\ ProcessTraceCallResult(sender[e].result)
    /\ enabled' = [enabled EXCEPT ![e] = LeftEnabled(@, sender[e].point, sender[e].result)]
    /\ sender' = [sender EXCEPT ![e] = Idle]
    /\ UNCHANGED <<service, local, sample, callback, refs, log, reading>>

\* TracingRuntime::Trace of local data: the subsystem copies it, nothing is parked.
LocalResults == IF is_tracing_enabled THEN ApiResults ELSE {"disabled"}

\* The trace points of proxy events and fields: TraceSubscribe, TraceUnsubscribe, ...
TraceLocal(p) ==
    /\ p \in local
    /\ \E r \in LocalResults :
         ProcessTraceCallResult(r) /\ local' = LeftEnabled(local, p, r)
    /\ UNCHANGED <<service, enabled, sample, sender, callback, refs, log, reading>>

-----------------------------------------------------------------------------
(* The TraceDone callback, on a thread of the subsystem.                   *)

TraceDone(e) ==
    /\ \/ /\ reading[e] # None /\ callback[e] = "idle" /\ IsServiceElementTracingActive(e)
          /\ reading' = [reading EXCEPT ![e] = None]
          /\ SetLog(e, sample[e], log[e][sample[e]] \ {"begin"})
          /\ callback' = [callback EXCEPT ![e] = "dereference"]
          /\ UNCHANGED <<sample, refs>>
       \/ /\ callback[e] = "dereference"
          /\ refs' = [refs EXCEPT ![e][sample[e]] = @ - 1]
          /\ callback' = [callback EXCEPT ![e] = "dereferenced"]
          /\ UNCHANGED <<sample, log, reading>>
       \/ /\ callback[e] = "dereferenced"
          /\ SetLog(e, sample[e], log[e][sample[e]] \ {"end"})
          /\ sample' = [sample EXCEPT ![e] = None]
          /\ callback' = [callback EXCEPT ![e] = "idle"]
          /\ UNCHANGED <<refs, reading>>
    /\ UNCHANGED <<service, runtime, sender>>

\* The process ends without clean-up, at any step, and is started again; what the
\* subsystem still had to read of it is given up.
Crash ==
    /\ offers < MaxOffers /\ offers > 0
    /\ state' = "stopped" /\ is_tracing_enabled' \in BOOLEAN
    /\ consecutive_failure_counter' = 0 /\ data_loss_flag' = FALSE
    /\ enabled' = Configured /\ local' = LocalPoints
    /\ handle' = 0 /\ cached' = {}
    /\ sample' = NoSamples /\ sender' = IdleSenders /\ callback' = IdleCallback
    /\ reading' = NoSamples
    /\ disconnected' = {} /\ again' = FALSE
    /\ UNCHANGED <<memory, typed, refs, log, active, offers, stuck, shared>>

Running == state \in {"stopped", "prepared", "offered"}

SenderStep(e) ==
    \/ Send(e) \/ ReferenceTransactionBegin(e) \/ ReferenceSlot(e)
    \/ ReferenceTransactionCommit(e) \/ ReferenceTransactionAbort(e)
    \/ Trace(e) \/ CallGenericTraceApi(e) \/ Release(e) \/ TraceReturns(e)

Next ==
    \/ \E reopen \in BOOLEAN, result \in OfferResults : OfferService(result, reopen)
    \/ StopOfferService
    \/ \E e \in Events : Running /\ SenderStep(e)
    \/ \E e \in Events : Running /\ TraceDone(e)
    \/ \E p \in LocalPoints : Running /\ TraceLocal(p)
    \/ Crash

Spec == Init /\ [][Next]_vars

-----------------------------------------------------------------------------
(* Properties                                                              *)

\* Type invariant: the runtime, the log and the parked samples stay within their
\* types.
TypeOK ==
    /\ state \in {"stopped", "prepared", "offered", "no callback", "registered twice",
                  "log not empty", "log in use"}
    /\ is_tracing_enabled \in BOOLEAN /\ data_loss_flag \in BOOLEAN
    /\ consecutive_failure_counter \in 0..(MaxFailures + Cardinality(Events))
    /\ enabled \in [Events -> SUBSET SendPoints] /\ local \subseteq LocalPoints
    /\ memory \in 0..MaxOffers /\ handle \in 0..memory /\ cached \subseteq {ShmKey}
    /\ sample \in [Events -> Slots \cup {None}] /\ reading \in [Events -> Slots \cup {None}]
    /\ sender \in [Events -> [stage : Stages, slot : Slots \cup {None}, point : SendPoints,
                              result : Outcomes]]
    /\ callback \in [Events -> {"idle", "dereference", "dereferenced"}]
    /\ refs \in [Events -> [Slots -> Int]]
    /\ log \in [Events -> [Slots -> Flags]]
    /\ active \in [Events -> BOOLEAN] /\ typed \in BOOLEAN /\ disconnected \subseteq Events
    /\ offers \in 0..MaxOffers
    /\ stuck \in BOOLEAN /\ again \in BOOLEAN /\ shared \subseteq Events

\* The subsystem reads the slot parked for its event only.  Unless two threads
\* have used one entry of the event's log, that slot carries the reference taken
\* for it, whatever other sends of the event are traced, dropped or refused
\* meanwhile; and no send takes it for another sample as long as the event's QM
\* consumers are connected.  Once they are not, nothing keeps the slot.
TracedSamplesStay ==
    \A e \in Events : reading[e] # None =>
        /\ sample[e] = reading[e]
        /\ e \notin shared => refs[e][reading[e]] > 0
        /\ e \notin shared \cup disconnected => ~(At(e, "begin") /\ Own(e) = reading[e])

\* The transaction log always tells how to undo the references: a completed
\* entry stands for exactly one, an empty entry for none, and no entry for more.
\* So a restarted process that rolls back releases what its predecessor held and
\* nothing else, even after an earlier rollback was given up.  A log of which two
\* threads used an entry at once is excepted: it says nothing any more.
LogAccountsForReferences ==
    \A e \in Events \ shared, s \in Slots :
        /\ log[e][s] = {"begin", "end"} => refs[e][s] = 1
        /\ log[e][s] = {} => refs[e][s] = 0
        /\ refs[e][s] \in 0..1

\* Between two sends the tracing subsystem occupies at most one slot of an
\* event, the one slot that is added to the configured number for it, unless a
\* log was used by two threads or a rollback was given up.
TracerHoldsOneSlot ==
    \A e \in Events \ shared : state = "offered" /\ At(e, "idle") /\ ~stuck
        => Cardinality({s \in Slots : refs[e][s] > 0}) <= 1

\* A sample is only handed to the subsystem with the handle of the memory it
\* lies in: registration survives neither a stop-offer nor a restart, even if
\* trace points were switched off in between.  An offer that is repeated after it
\* failed half-way may leave the handle of the memory of the first attempt.
TracedMemoryIsRegistered ==
    ~again => \A e \in Events : At(e, "call") => handle = memory

\* What the subsystem is given is there: the memory is registered, the sample
\* stays, and no more slots are occupied than were added for it.
TracingIsSafe == TypeOK /\ TracedSamplesStay /\ TracerHoldsOneSlot /\ TracedMemoryIsRegistered

-----------------------------------------------------------------------------
(* The inductive invariant behind the properties.                          *)

Entry(e, s, flags, n) == log[e][s] = flags /\ refs[e][s] = n

\* A sending thread works on a slot of its own choice for a trace point that is
\* on; the subsystem reads no slot but the parked one, and has none yet while it
\* is called.
ThreadsTogether(e) ==
    /\ ~At(e, "idle") => Own(e) # None /\ sender[e].point \in enabled[e]
    /\ At(e, "call") => sample[e] = Own(e) /\ reading[e] = None /\ callback[e] = "idle"
    /\ callback[e] # "idle" => sample[e] # None /\ reading[e] = None
    /\ reading[e] # None => sample[e] = reading[e]
    /\ state \in {"stopped", "prepared"} => At(e, "idle")
    /\ state = "offered" => active[e]

\* A sending thread knows what the entry of its slot looks like, whatever the
\* callback does meanwhile to the entry of the parked sample.
SenderOwnsEntry(e) ==
    LET s == Own(e)
    IN  /\ At(e, "begin") /\ e \notin disconnected => refs[e][s] = 0
        /\ At(e, "increment") => Entry(e, s, {"begin"}, 0)
        /\ At(e, "commit") => Entry(e, s, {"begin"}, 1)
        /\ At(e, "trace") \/ At(e, "drop") => Entry(e, s, {"begin", "end"}, 1)
        /\ At(e, "dereference") => Entry(e, s, {"end"}, 1)
        /\ At(e, "dereferenced") => Entry(e, s, {"end"}, 0)
        /\ sender[e].stage \in Referencing => sample[e] # s

\* The entry of the parked sample is the callback's.
ParkedEntry(e) ==
    LET s == sample[e]
    IN  /\ s # None /\ callback[e] = "idle" => Entry(e, s, {"begin", "end"}, 1)
        /\ s # None /\ callback[e] = "dereference" => Entry(e, s, {"end"}, 1)
        /\ s # None /\ callback[e] = "dereferenced" => Entry(e, s, {"end"}, 0)

\* Nothing is under way while the service is not offered, and an inactive log
\* is empty.  While it is offered, an entry nobody works on is empty, unless a
\* predecessor left one that could not be rolled back.
EntriesCleared(e) ==
    /\ state \in {"stopped", "prepared"} => sample[e] = None
    /\ ~active[e] => \A s \in Slots : Entry(e, s, {}, 0)
    /\ state = "offered" /\ ~stuck => \A s \in Slots \ {sample[e]} :
           (s = Own(e) /\ sender[e].stage \in Referencing) \/ Entry(e, s, {}, 0)

\* Once tracing is switched off, only calls that were made before fail.
Failing == {e \in Events : At(e, "call") \/ sender[e].result \in {"recoverable", "fatal"}}

FailuresCounted ==
    /\ is_tracing_enabled => consecutive_failure_counter < MaxFailures
    /\ consecutive_failure_counter + Cardinality(Failing) <= MaxFailures + Cardinality(Events)

TracingInvariant ==
    /\ LogAccountsForReferences
    /\ \A e \in Events : ThreadsTogether(e)
    /\ \A e \in Events \ shared : SenderOwnsEntry(e) /\ ParkedEntry(e) /\ EntriesCleared(e)
    /\ FailuresCounted /\ memory <= offers

\* A handle of other memory is kept only while nothing is traced, and none is
\* left to be registered over.
HandleKnown ==
    ~again =>
        /\ handle # 0 /\ handle # memory => ~Registers
        /\ state = "stopped" /\ Registers => handle = 0
        /\ TracedMemoryIsRegistered

-----------------------------------------------------------------------------
(* What the code says and does not do                                      *)

\* "Cannot Reset TransactionLog as it still contains some old transactions."
\* (transaction_log_set.cpp): a service is stopped only with empty tracing logs.
LogsAreEmptyWhenReset == state = "log not empty" => stuck

\* "Each TransactionLog will be used by a single Proxy service element in a
\* single thread." (transaction_log_set.h) and the preconditions of
\* ReferenceTransactionBegin (transaction_log.cpp): when a send begins to
\* reference its slot, nobody else is at work on the entry of that slot.
LogUsedByOneThread == state = "log in use" \/ shared # {} => stuck

\* "Will retry once on next Trace call referring to this ShmObject."
\* (tracing_runtime.cpp): no trace point is switched off while the memory waits
\* for a second registration.
FailedRegistrationIsRetried ==
    \A e \in Events : sender[e].result = "unregistered" => cached = {}

\* "Could not insert shm object handle ... into map. Terminating.": the memory of
\* a service is registered once.
RegisteredOnce == state # "registered twice"
=============================================================================
