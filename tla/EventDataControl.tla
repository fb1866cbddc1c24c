-------------------------- MODULE EventDataControl --------------------------
(***************************************************************************)
(* The shared-memory control block of one event: an array of slot status   *)
(* words that one skeleton (the publisher) and several proxies (the        *)
(* consumers) update with atomic operations only, and the transaction log  *)
(* each consumer keeps next to it so that a restarted consumer can give    *)
(* back the references of its crashed predecessor.                         *)
(*                                                                         *)
(* Every action makes at most one access to the slot array (one load, one  *)
(* compare-exchange, one fetch_sub or one store), so every interleaving of *)
(* the lock-free code is a behaviour of this module.  Steps that touch     *)
(* only a process's own variables are merged with the access before them.  *)
(***************************************************************************)
EXTENDS EventSlotStatus, Integers, Sequences, FiniteSets

CONSTANTS
    Consumers,             \* the subscribed proxies
    NumSlots,              \* number of slots of the event
    MaxSamples,            \* per consumer: max_sample_count of its subscription
    MaxAllocations,        \* bound: SampleAllocateePtrs the user holds at a time
    MaxAllocateRetries,    \* MAX_ALLOCATE_RETRIES
    MaxReferenceRetries,   \* MAX_REFERENCE_RETRIES
    MaxCrashes,            \* bound: process crashes in a behaviour
    ConcurrentRelease      \* may a SamplePtr be destroyed while another thread
                           \* of the consumer is inside GetNewSamples?

ASSUME ControlAssumption ==
    /\ IsFiniteSet(Consumers)
    /\ Cardinality(Consumers) < RefCountMax
    /\ NumSlots \in Nat \ {0}
    /\ MaxSamples \in [Consumers -> Nat \ {0}]
    /\ MaxAllocations \in Nat
    /\ MaxAllocateRetries \in Nat
    /\ MaxReferenceRetries \in Nat \ {0}
    /\ MaxCrashes \in Nat
    /\ ConcurrentRelease \in BOOLEAN

Slots == 0 .. NumSlots - 1

(* An empty optional<SlotIndexType>.                                       *)
NoSlot == NumSlots

(* The two flags of a TransactionLogSlot, (begin, end): "free" is (0,0),   *)
(* "incrementing" (1,0), "referenced" (1,1) and "decrementing" (0,1).      *)
LogStates == {"free", "incrementing", "referenced", "decrementing"}

VARIABLES
    slots,         \* state_slots_, in shared memory
    log,           \* log[c][s]: reference_count_slots_, in shared memory
    \* the publisher
    ppc,           \* where the skeleton is
    ptry,          \* retry_counter of AllocateNextSlot
    pidx,          \* scan position of FindOldestUnusedSlot
    psel,          \* selected_index; the slot being sent after EventReady
    poldest,       \* oldest_time_stamp of FindOldestUnusedSlot
    allocated,     \* slots the user owns through SampleAllocateePtrs
    currentTs,     \* current_timestamp_
    leaked,        \* auxiliary: an allocation reported failure with a slot locked
    \* the consumers
    cpc,           \* where the thread that calls GetNewSamples is
    ctry,          \* counter of ReferenceNextEvent
    cidx,          \* scan position, and position of the rollback
    ccand,         \* possible_index
    cstat,         \* candidate_slot_status
    cmax,          \* guards reserved for this GetNewSamples call
    chigh,         \* current_highest of CollectSlots
    collected,     \* collected_slots_, newest first
    lastTs,        \* last_ts_ of the SlotCollector
    held,          \* slots the user owns through SamplePtrs
    tracker,       \* available_samples_ of the SampleReferenceTracker
    rpc,           \* where a DereferenceEvent in progress is
    rslot,         \* the slot it releases
    counted,       \* auxiliary: slots whose count includes this consumer
    crashes        \* processes crashed so far

slotVars == <<slots, log, counted>>
pubVars == <<ppc, ptry, pidx, psel, poldest, allocated, currentTs, leaked>>
scanVars == <<ctry, cidx, ccand, cstat>>
collectVars == <<cmax, chigh, collected, lastTs>>
sampleVars == <<held, tracker>>
releaseVars == <<rpc, rslot>>
conVars == <<cpc, scanVars, collectVars, sampleVars, releaseVars>>
vars == <<slotVars, pubVars, conVars, crashes>>

PubStates == {"idle", "find", "sent", "down"}
ConStates ==
    {"idle", "scan", "cas", "commit", "deliver", "crashed", "rollback", "failed"}
ReleaseStates == {"idle", "subtract", "finish"}

(* The process of consumer c runs and its proxy is subscribed.             *)
Running(c) == cpc[c] \in {"idle", "scan", "cas", "commit", "deliver"}

Init ==
    /\ slots = [s \in Slots |-> INVALID]
    /\ log = [c \in Consumers |-> [s \in Slots |-> "free"]]
    /\ ppc = "idle" /\ ptry = 0 /\ pidx = 0 /\ psel = NoSlot
    /\ poldest = TimestampMax /\ allocated = {} /\ currentTs = 1
    /\ leaked = FALSE
    /\ cpc = [c \in Consumers |-> "idle"]
    /\ ctry = [c \in Consumers |-> 0]
    /\ cidx = [c \in Consumers |-> 0]
    /\ ccand = [c \in Consumers |-> NoSlot]
    /\ cstat = [c \in Consumers |-> INVALID]
    /\ cmax = [c \in Consumers |-> 0]
    /\ chigh = [c \in Consumers |-> TimestampMax]
    /\ collected = [c \in Consumers |-> <<>>]
    /\ lastTs = [c \in Consumers |-> 0]
    /\ held = [c \in Consumers |-> {}]
    /\ tracker = MaxSamples
    /\ rpc = [c \in Consumers |-> "idle"]
    /\ rslot = [c \in Consumers |-> NoSlot]
    /\ counted = [c \in Consumers |-> {}]
    /\ crashes = 0

-----------------------------------------------------------------------------
(* The publisher: AllocateNextSlot, Send, ~SampleAllocateePtr, crash and   *)
(* restart.                                                                *)

(* FindOldestUnusedSlot starts from an empty selection.  Outside the scan  *)
(* its locals rest at these values.                                        *)
StartFind ==
    /\ pidx' = 0
    /\ psel' = NoSlot
    /\ poldest' = TimestampMax

(* AllocateNextSlot is called.                                             *)
Allocate ==
    /\ ppc = "idle"
    /\ Cardinality(allocated) < MaxAllocations
    /\ ppc' = "find"
    /\ ptry' = 0
    /\ StartFind
    /\ UNCHANGED <<slotVars, allocated, currentTs, leaked, conVars, crashes>>

(* One load of FindOldestUnusedSlot: an invalid slot ends the scan, an     *)
(* unused one is remembered when it is the oldest so far.                  *)
FindOldestUnusedSlot ==
    /\ ppc = "find" /\ pidx < NumSlots
    /\ LET st == slots[pidx]
           better == ~IsUsed(st) /\ st.ts < poldest
       IN  /\ pidx' = IF IsInvalid(st) THEN NumSlots ELSE pidx + 1
           /\ psel' = IF IsInvalid(st) \/ better THEN pidx ELSE psel
           /\ poldest' = IF ~IsInvalid(st) /\ better THEN st.ts ELSE poldest
    /\ UNCHANGED <<slotVars, ppc, ptry, allocated, currentTs, leaked, conVars, crashes>>

(* The selected slot is loaded again and compare-exchanged to IN_WRITING.  *)
(* A change between the load and the exchange makes the exchange fail,     *)
(* which the weak exchange may also do by itself: both are AllocateRetry.  *)
(* Leaving the loop with retry_counter at its limit reports failure, even  *)
(* when the exchange of that last iteration succeeded.                     *)
LockSlot ==
    /\ ppc = "find" /\ pidx = NumSlots
    /\ psel # NoSlot
    /\ ~IsUsed(slots[psel])
    /\ slots' = [slots EXCEPT ![psel] = IN_WRITING]
    /\ ppc' = "idle" /\ ptry' = 0 /\ StartFind
    /\ IF ptry >= MaxAllocateRetries
       THEN allocated' = allocated /\ leaked' = TRUE
       ELSE allocated' = allocated \union {psel} /\ leaked' = leaked
    /\ UNCHANGED <<log, counted, currentTs, conVars, crashes>>

(* Mutant: the retry counter is not advanced.                              *)
AllocateRetryForever ==
    /\ ppc = "find" /\ pidx = NumSlots
    /\ StartFind
    /\ UNCHANGED <<ppc, ptry, slotVars, allocated, currentTs, leaked, conVars,
                   crashes>>

(* No slot was found, it is no longer unused, or the exchange failed.      *)
AllocateRetry ==
    /\ ppc = "find" /\ pidx = NumSlots
    /\ StartFind
    /\ IF ptry < MaxAllocateRetries
       THEN ppc' = ppc /\ ptry' = ptry + 1
       ELSE ppc' = "idle" /\ ptry' = 0
    /\ UNCHANGED <<slotVars, allocated, currentTs, leaked, conVars, crashes>>

(* Send of an allocated sample: a new timestamp, and the plain store of    *)
(* EventReady.  Bound: currentTs stays below the 32-bit wrap-around.       *)
EventReady(s) ==
    /\ ppc = "idle" /\ s \in allocated
    /\ currentTs + 1 < TimestampMax
    /\ currentTs' = currentTs + 1
    /\ slots' = [slots EXCEPT ![s] = [ts |-> currentTs + 1, refs |-> 0]]
    /\ ppc' = "sent" /\ psel' = s
    /\ UNCHANGED <<log, counted, ptry, pidx, poldest, allocated, leaked, conVars, crashes>>

(* Mutant: a slot that was never sent is not given back.                   *)
DiscardNothing(st) == st

(* The status Discard leaves: ready events are kept.                       *)
DiscardedStatus(st) == IF IsInWriting(st) THEN INVALID ELSE st

(* ~SampleAllocateePtr, at the end of Send or without a Send: the slot is  *)
(* given back unless it is ready already.                                  *)
Discard(s) ==
    /\ s \in allocated
    /\ ppc = "idle" \/ (ppc = "sent" /\ psel = s)
    /\ slots' = [slots EXCEPT ![s] = DiscardedStatus(@)]
    /\ allocated' = allocated \ {s}
    /\ ppc' = "idle" /\ psel' = NoSlot
    /\ UNCHANGED <<log, counted, ptry, pidx, poldest, currentTs, leaked, conVars, crashes>>

(* The skeleton's process dies; the slots stay as they are.                *)
PublisherCrash ==
    /\ ppc # "down"
    /\ crashes < MaxCrashes /\ crashes' = crashes + 1
    /\ ppc' = "down"
    /\ allocated' = {}
    /\ ptry' = 0 /\ StartFind
    /\ UNCHANGED <<slotVars, currentTs, leaked, conVars>>

(* Mutant: the search for the latest timestamp starts from 0.              *)
GetLatestTimestampFromZero(sl) ==
    LET stamps == {0} \union {sl[s].ts : s \in {r \in Slots :
                       ~IsInvalid(sl[r]) /\ ~IsInWriting(sl[r])}}
    IN  CHOOSE t \in stamps : \A u \in stamps : u <= t

(* The latest timestamp of a slot that is neither invalid nor in writing,  *)
(* and at least 1.                                                         *)
GetLatestTimestamp(sl) ==
    LET stamps == {1} \union {sl[s].ts : s \in {r \in Slots :
                       ~IsInvalid(sl[r]) /\ ~IsInWriting(sl[r])}}
    IN  CHOOSE t \in stamps : \A u \in stamps : u <= t

(* RemoveAllocationsForWriting.                                            *)
RemoveAllocationsForWriting ==
    [s \in Slots |-> IF IsInWriting(slots[s]) THEN INVALID ELSE slots[s]]

(* A restarted skeleton opens the shared memory that proxies still use,    *)
(* removes the write locks of its predecessor and continues after the      *)
(* latest timestamp.  Slots in writing are touched by nobody else and      *)
(* consumers tell them from invalid ones nowhere, so the loops over the    *)
(* slots are one step.                                                     *)
PrepareOffer ==
    /\ ppc = "down"
    /\ ppc' = "idle"
    /\ slots' = RemoveAllocationsForWriting
    /\ currentTs' = GetLatestTimestamp(slots')
    /\ UNCHANGED <<log, counted, ptry, pidx, psel, poldest, allocated, leaked,
                   conVars, crashes>>

-----------------------------------------------------------------------------
(* The consumers: GetNewSamples, the destruction of a SamplePtr, crash and *)
(* rollback, a new subscription.                                           *)

(* One call of ReferenceNextEvent, or one retry inside it, scans all slots *)
(* from the first one for the latest event after lastTs.                   *)
StartScan(c, tries) ==
    /\ ctry' = [ctry EXCEPT ![c] = tries]
    /\ cidx' = [cidx EXCEPT ![c] = 0]
    /\ ccand' = [ccand EXCEPT ![c] = NoSlot]
    /\ cstat' = [cstat EXCEPT ![c] = [ts |-> lastTs[c], refs |-> 0]]

(* Between calls the locals of the scan rest at fixed values.              *)
ResetScan(c) ==
    /\ ctry' = [ctry EXCEPT ![c] = 0]
    /\ cidx' = [cidx EXCEPT ![c] = 0]
    /\ ccand' = [ccand EXCEPT ![c] = NoSlot]
    /\ cstat' = [cstat EXCEPT ![c] = INVALID]

(* GetNewSamples(n): the tracker hands out min(n, available) guards, and   *)
(* CollectSlots asks for at most that many samples.                        *)
GetNewSamples(c, n) ==
    /\ cpc[c] = "idle" /\ (ConcurrentRelease \/ rpc[c] = "idle")
    /\ n \in 1 .. tracker[c]
    /\ tracker' = [tracker EXCEPT ![c] = @ - n]
    /\ cmax' = [cmax EXCEPT ![c] = n]
    /\ chigh' = [chigh EXCEPT ![c] = TimestampMax]
    /\ collected' = [collected EXCEPT ![c] = <<>>]
    /\ cpc' = [cpc EXCEPT ![c] = "scan"]
    /\ StartScan(c, 0)
    /\ UNCHANGED <<slotVars, pubVars, crashes, lastTs, held, releaseVars>>

(* One load of the scan in ReferenceNextEvent.                             *)
ScanSlot(c) ==
    /\ cpc[c] = "scan" /\ cidx[c] < NumSlots
    /\ LET st == slots[cidx[c]]
           newer == IsTimeStampBetween(st, cstat[c].ts, chigh[c])
       IN  /\ ccand' = [ccand EXCEPT ![c] = IF newer THEN cidx[c] ELSE @]
           /\ cstat' = [cstat EXCEPT ![c] = IF newer THEN st ELSE @]
    /\ cidx' = [cidx EXCEPT ![c] = @ + 1]
    /\ UNCHANGED <<slotVars, pubVars, crashes, cpc, ctry, collectVars, sampleVars, releaseVars>>

(* The scan found no event: CollectSlots ends.                             *)
NothingFound(c) ==
    /\ cpc[c] = "scan" /\ cidx[c] = NumSlots /\ ccand[c] = NoSlot
    /\ cpc' = [cpc EXCEPT ![c] = "deliver"]
    /\ UNCHANGED <<slotVars, pubVars, crashes, scanVars, collectVars, sampleVars, releaseVars>>

(* ReferenceTransactionBegin for the candidate; its precondition is        *)
(* LogPreconditionsHold.                                                   *)
ReferenceTransactionBegin(c) ==
    /\ cpc[c] = "scan" /\ cidx[c] = NumSlots /\ ccand[c] # NoSlot
    /\ log[c][ccand[c]] = "free"
    /\ log' = [log EXCEPT ![c][ccand[c]] = "incrementing"]
    /\ cpc' = [cpc EXCEPT ![c] = "cas"]
    /\ UNCHANGED <<slots, counted, pubVars, crashes, scanVars, collectVars, sampleVars,
                   releaseVars>>

(* The compare-exchange of the candidate's status succeeds.                *)
ReferenceSlot(c) ==
    /\ cpc[c] = "cas"
    /\ slots[ccand[c]] = cstat[c]
    /\ slots' = [slots EXCEPT ![ccand[c]] = Increment(cstat[c])]
    /\ counted' = [counted EXCEPT ![c] = @ \union {ccand[c]}]
    /\ cpc' = [cpc EXCEPT ![c] = "commit"]
    /\ UNCHANGED <<log, pubVars, crashes, scanVars, collectVars, sampleVars, releaseVars>>

(* The exchange fails, as a weak one may at any time, and the transaction  *)
(* is aborted.  A crash between the two leaves the log as a crash before   *)
(* the exchange does.  After the last retry CollectSlots ends.             *)
ReferenceTransactionAbort(c) ==
    /\ cpc[c] = "cas"
    /\ log' = [log EXCEPT ![c][ccand[c]] = "free"]
    /\ IF ctry[c] + 1 < MaxReferenceRetries
       THEN cpc' = [cpc EXCEPT ![c] = "scan"] /\ StartScan(c, ctry[c] + 1)
       ELSE cpc' = [cpc EXCEPT ![c] = "deliver"] /\ UNCHANGED scanVars
    /\ UNCHANGED <<slots, counted, pubVars, crashes, collectVars, sampleVars, releaseVars>>

(* ReferenceTransactionCommit; CollectSlots reads the timestamp back and   *)
(* continues below it until it has enough.                                 *)
ReferenceTransactionCommit(c) ==
    /\ cpc[c] = "commit"
    /\ log' = [log EXCEPT ![c][ccand[c]] = "referenced"]
    /\ collected' = [collected EXCEPT ![c] = Append(@, ccand[c])]
    /\ chigh' = [chigh EXCEPT ![c] = slots[ccand[c]].ts]
    /\ IF Len(collected[c]) + 1 < cmax[c]
       THEN cpc' = [cpc EXCEPT ![c] = "scan"] /\ StartScan(c, 0)
       ELSE cpc' = [cpc EXCEPT ![c] = "deliver"] /\ UNCHANGED scanVars
    /\ UNCHANGED <<slots, counted, pubVars, crashes, cmax, lastTs, sampleVars, releaseVars>>

CollectedSlots(c) == {collected[c][i] : i \in 1 .. Len(collected[c])}

(* GetNewSamplesSlotIndices moves lastTs to the highest timestamp it       *)
(* collected, the samples go to the receiver oldest first, and the guards  *)
(* that were not needed return to the tracker.                             *)
Deliver(c) ==
    /\ cpc[c] = "deliver"
    /\ LET stamps == {lastTs[c]} \union {slots[s].ts : s \in CollectedSlots(c)}
       IN  lastTs' = [lastTs EXCEPT ![c] =
                        CHOOSE t \in stamps : \A u \in stamps : u <= t]
    /\ held' = [held EXCEPT ![c] = @ \union CollectedSlots(c)]
    /\ tracker' = [tracker EXCEPT ![c] = @ + cmax[c] - Len(collected[c])]
    /\ cmax' = [cmax EXCEPT ![c] = 0]
    /\ chigh' = [chigh EXCEPT ![c] = TimestampMax]
    /\ collected' = [collected EXCEPT ![c] = <<>>]
    /\ ResetScan(c)
    /\ cpc' = [cpc EXCEPT ![c] = "idle"]
    /\ UNCHANGED <<slotVars, pubVars, crashes, releaseVars>>

(* ~SamplePtr: the guard, declared after the binding's pointer, goes back  *)
(* to the tracker first; then DereferenceEvent begins.                     *)
ReleaseSample(c, s) ==
    /\ Running(c) /\ rpc[c] = "idle" /\ (ConcurrentRelease \/ cpc[c] = "idle")
    /\ s \in held[c]
    /\ held' = [held EXCEPT ![c] = @ \ {s}]
    /\ tracker' = [tracker EXCEPT ![c] = @ + 1]
    /\ log' = [log EXCEPT ![c][s] = "decrementing"]
    /\ rpc' = [rpc EXCEPT ![c] = "subtract"]
    /\ rslot' = [rslot EXCEPT ![c] = s]
    /\ UNCHANGED <<slots, counted, pubVars, crashes, cpc, scanVars, collectVars>>

(* DereferenceEventWithoutTransactionLogging: an atomic fetch_sub.         *)
DereferenceSlot(c) ==
    /\ rpc[c] = "subtract"
    /\ slots' = [slots EXCEPT ![rslot[c]] = Decrement(@)]
    /\ counted' = [counted EXCEPT ![c] = @ \ {rslot[c]}]
    /\ rpc' = [rpc EXCEPT ![c] = "finish"]
    /\ UNCHANGED <<log, pubVars, crashes, cpc, scanVars, collectVars, sampleVars, rslot>>

DereferenceTransactionCommit(c) ==
    /\ rpc[c] = "finish"
    /\ log' = [log EXCEPT ![c][rslot[c]] = "free"]
    /\ rpc' = [rpc EXCEPT ![c] = "idle"]
    /\ rslot' = [rslot EXCEPT ![c] = NoSlot]
    /\ UNCHANGED <<slots, counted, pubVars, crashes, cpc, scanVars, collectVars, sampleVars>>

(* What the death of its process leaves of consumer c: the shared memory.  *)
LoseProcess(c, state) ==
    /\ cpc' = [cpc EXCEPT ![c] = state]
    /\ ResetScan(c)
    /\ cmax' = [cmax EXCEPT ![c] = 0]
    /\ chigh' = [chigh EXCEPT ![c] = TimestampMax]
    /\ collected' = [collected EXCEPT ![c] = <<>>]
    /\ lastTs' = [lastTs EXCEPT ![c] = 0]
    /\ held' = [held EXCEPT ![c] = {}]
    /\ tracker' = [tracker EXCEPT ![c] = MaxSamples[c]]
    /\ rpc' = [rpc EXCEPT ![c] = "idle"]
    /\ rslot' = [rslot EXCEPT ![c] = NoSlot]
    /\ UNCHANGED <<slotVars, pubVars>>

(* A consumer dies at any point of its own or of a rollback.               *)
ConsumerCrash(c) ==
    /\ Running(c) \/ cpc[c] = "rollback"
    /\ crashes < MaxCrashes /\ crashes' = crashes + 1
    /\ LoseProcess(c, "crashed")

(* The new process creates its proxy: RollbackIncrementTransactions walks  *)
(* the log its predecessor left.                                           *)
StartRollback(c) ==
    /\ cpc[c] = "crashed"
    /\ cpc' = [cpc EXCEPT ![c] = "rollback"]
    /\ UNCHANGED <<slotVars, pubVars, crashes, scanVars, collectVars, sampleVars, releaseVars>>

(* Mutant: the rollback stops before the last slot.                        *)
RollbackEndEarly(i) == i = NumSlots - 1

(* The end of the loop in RollbackIncrementTransactions.                   *)
RollbackEnd(i) == i = NumSlots

(* A log slot of the rollback: a recorded reference is given back like any *)
(* other, an empty one is passed over, an unfinished one ends the rollback *)
(* with kCouldNotRestartProxy.                                             *)
RollbackSlot(c) ==
    /\ cpc[c] = "rollback" /\ rpc[c] = "idle" /\ ~RollbackEnd(cidx[c])
    /\ cidx' = [cidx EXCEPT ![c] = @ + 1]
    /\ \/ /\ log[c][cidx[c]] = "free"
          /\ UNCHANGED <<log, cpc, releaseVars>>
       \/ /\ log[c][cidx[c]] = "referenced"
          /\ log' = [log EXCEPT ![c][cidx[c]] = "decrementing"]
          /\ rpc' = [rpc EXCEPT ![c] = "subtract"]
          /\ rslot' = [rslot EXCEPT ![c] = cidx[c]]
          /\ UNCHANGED cpc
       \/ /\ log[c][cidx[c]] \in {"incrementing", "decrementing"}
          /\ cpc' = [cpc EXCEPT ![c] = "failed"]
          /\ UNCHANGED <<log, releaseVars>>
    /\ UNCHANGED <<slots, counted, pubVars, crashes, ctry, ccand, cstat, collectVars,
                   sampleVars>>

(* The rollback is done and the new proxy subscribes.                      *)
FinishRollback(c) ==
    /\ cpc[c] = "rollback" /\ rpc[c] = "idle" /\ RollbackEnd(cidx[c])
    /\ LoseProcess(c, "idle")
    /\ UNCHANGED crashes

(* Unsubscribe, which requires that no SamplePtr is left, and a new        *)
(* Subscribe: the new SlotCollector starts from timestamp 0.               *)
Resubscribe(c) ==
    /\ cpc[c] = "idle" /\ rpc[c] = "idle" /\ held[c] = {}
    /\ lastTs' = [lastTs EXCEPT ![c] = 0]
    /\ UNCHANGED <<slotVars, pubVars, crashes, cpc, scanVars, cmax, chigh, collected,
                   sampleVars, releaseVars>>

-----------------------------------------------------------------------------
PublisherStep ==
    \/ FindOldestUnusedSlot
    \/ LockSlot
    \/ AllocateRetry

ConsumerStep(c) ==
    \/ ScanSlot(c)
    \/ NothingFound(c)
    \/ ReferenceTransactionBegin(c)
    \/ ReferenceSlot(c)
    \/ ReferenceTransactionAbort(c)
    \/ ReferenceTransactionCommit(c)
    \/ Deliver(c)
    \/ DereferenceSlot(c)
    \/ DereferenceTransactionCommit(c)
    \/ RollbackSlot(c)
    \/ FinishRollback(c)

Next ==
    \/ Allocate
    \/ PublisherStep
    \/ \E s \in Slots : EventReady(s) \/ Discard(s)
    \/ PublisherCrash
    \/ PrepareOffer
    \/ \E c \in Consumers :
          \/ \E n \in 1 .. MaxSamples[c] : GetNewSamples(c, n)
          \/ ConsumerStep(c)
          \/ \E s \in Slots : ReleaseSample(c, s)
          \/ ConsumerCrash(c)
          \/ StartRollback(c)
          \/ Resubscribe(c)

Spec == Init /\ [][Next]_vars

(* A thread that is inside a call keeps running while its process lives;   *)
(* nothing is assumed of the other processes, of the users or of restarts. *)
FairSpec ==
    /\ Spec
    /\ WF_vars(PublisherStep)
    /\ \A c \in Consumers : WF_vars(ConsumerStep(c))

-----------------------------------------------------------------------------
SharedTypeOK ==
    /\ slots \in [Slots -> SlotStatus]
    /\ log \in [Consumers -> [Slots -> LogStates]]
    /\ counted \in [Consumers -> SUBSET Slots]
    /\ crashes \in 0 .. MaxCrashes

PublisherTypeOK ==
    /\ ppc \in PubStates
    /\ ptry \in 0 .. MaxAllocateRetries
    /\ pidx \in 0 .. NumSlots
    /\ psel \in Slots \union {NoSlot}
    /\ poldest \in Timestamps
    /\ allocated \in SUBSET Slots
    /\ currentTs \in Timestamps \ {0}
    /\ leaked \in BOOLEAN

ScanTypeOK ==
    /\ cpc \in [Consumers -> ConStates]
    /\ ctry \in [Consumers -> 0 .. MaxReferenceRetries]
    /\ cidx \in [Consumers -> 0 .. NumSlots]
    /\ ccand \in [Consumers -> Slots \union {NoSlot}]
    /\ cstat \in [Consumers -> SlotStatus]

CollectTypeOK ==
    /\ cmax \in [Consumers -> Nat]
    /\ chigh \in [Consumers -> Timestamps]
    /\ collected \in [Consumers -> Seq(Slots)]
    /\ lastTs \in [Consumers -> Timestamps]

SampleTypeOK ==
    /\ held \in [Consumers -> SUBSET Slots]
    /\ tracker \in [Consumers -> Int]
    /\ rpc \in [Consumers -> ReleaseStates]
    /\ rslot \in [Consumers -> Slots \union {NoSlot}]

(* Every variable stays in its type.  The clock of the publisher is never  *)
(* 0, which would publish an event that looks like an invalid slot, and no *)
(* loop runs past its retries or its slots.                                *)
TypeOK ==
    /\ SharedTypeOK
    /\ PublisherTypeOK
    /\ ScanTypeOK
    /\ CollectTypeOK
    /\ SampleTypeOK

(* The consumers whose log for slot s is in one of the given states.       *)
LoggedIn(s, states) == {c \in Consumers : log[c][s] \in states}

(* The reference count of a slot never loses a reference a log records,    *)
(* and never holds one that no log knows of: what a rollback can repair is *)
(* all there is, whatever processes crashed and wherever.  A slot being    *)
(* written is referenced by nobody.                                        *)
RefCountWithinLog ==
    \A s \in Slots :
        IF IsInWriting(slots[s])
        THEN LoggedIn(s, {"referenced"}) = {}
        ELSE /\ Cardinality(LoggedIn(s, {"referenced"})) <= slots[s].refs
             /\ slots[s].refs <= Cardinality(LoggedIn(s, LogStates \ {"free"}))

(* The AMP_PRECONDITIONs of the transaction log hold wherever the code is  *)
(* about to check them: a consumer never begins to reference a slot its    *)
(* log has an entry for, commits or aborts only what it began, and         *)
(* releases only what it committed.                                        *)
LogPreconditionsHold ==
    \A c \in Consumers :
        /\ cpc[c] = "scan" /\ cidx[c] = NumSlots /\ ccand[c] # NoSlot
              => log[c][ccand[c]] = "free"
        /\ cpc[c] \in {"cas", "commit"} => log[c][ccand[c]] = "incrementing"
        /\ \A s \in held[c] : log[c][s] = "referenced"
        /\ rpc[c] = "finish" => log[c][rslot[c]] = "decrementing"

(* What one GetNewSamples call is about to hand out are distinct events,   *)
(* newest first, each newer than everything handed out before it in this   *)
(* subscription.                                                           *)
DeliveredInOrder ==
    \A c \in Consumers :
        cpc[c] = "deliver" =>
            \A i \in 1 .. Len(collected[c]) :
                /\ slots[collected[c][i]].ts > lastTs[c]
                /\ i > 1 => slots[collected[c][i]].ts < slots[collected[c][i - 1]].ts

(* GetNewSamples delivers in order and the assertions of the transaction   *)
(* log it relies on hold, through a crash and the rollback after it.       *)
FetchedRight == DeliveredInOrder /\ LogPreconditionsHold

(* The sizing rule of AllocateNextSlot: with a slot per sample the         *)
(* consumers may hold and one per allocation, every moment of an           *)
(* allocation has an unused slot (unless a failed allocation kept one).    *)
AllocationHasAFreeSlot ==
    ppc = "find" /\ ~leaked => \E s \in Slots : ~IsUsed(slots[s])

(* The timestamps a publisher issues are newer than what any consumer has  *)
(* been handed out, also after a restart that recovers the clock from the  *)
(* slots: an event with an older timestamp would never be delivered.       *)
TimestampsStayFresh ==
    ppc # "down" /\ ~leaked => \A c \in Consumers : lastTs[c] <= currentTs

(* No step of anybody overwrites or recycles a slot that a consumer's user *)
(* holds a SamplePtr to.                                                   *)
HeldSampleStable ==
    [][\A c \in Consumers : \A s \in held[c] \intersect held'[c] :
          /\ slots'[s].ts = slots[s].ts
          /\ ~IsInWriting(slots'[s]) /\ ~IsInvalid(slots'[s])]_vars

(* A rollback that succeeds leaves no trace of the crashed process: its    *)
(* log is empty and no slot counts a reference of it.                      *)
RollbackLeavesNothing ==
    [][\A c \in Consumers :
          cpc[c] = "rollback" /\ cpc'[c] = "idle"
             => \A s \in Slots : log'[c][s] = "free" /\ s \notin counted'[c]]_vars

(* AllocateNextSlot, GetNewSamples, the release of a sample and a rollback *)
(* return whatever the other processes do ("wait-free"): the retries are   *)
(* bounded, so nobody's progress depends on anybody else's.                *)
CallsReturn ==
    /\ (ppc = "find") ~> (ppc # "find")
    /\ \A c \in Consumers :
          /\ (cpc[c] = "scan") ~> (cpc[c] \in {"idle", "crashed"})
          /\ (rpc[c] = "subtract") ~> (rpc[c] = "idle")
          /\ (cpc[c] = "rollback") ~> (cpc[c] \in {"idle", "failed", "crashed"})

(* AllocateNextSlot returns "reserved slot for writing if found, empty     *)
(* otherwise": outside an allocation, a slot in writing belongs to a       *)
(* SampleAllocateePtr.                                                     *)
NoSlotLeaked ==
    ppc \in {"idle", "sent"} =>
        \A s \in Slots : IsInWriting(slots[s]) => s \in allocated

-----------------------------------------------------------------------------
(* The inductive invariant behind RefCountWithinLog, HeldSampleStable and  *)
(* RollbackLeavesNothing.  The auxiliary variable counted says which       *)
(* unfinished log entries are already, or still, part of a count: neither  *)
(* the log nor the slots tell after a crash.                               *)

(* The consumers whose reference is part of the count of slot s.           *)
Counters(s) == {c \in Consumers : s \in counted[c]}

CountsExact ==
    \A s \in Slots :
        IF IsInWriting(slots[s])
        THEN Counters(s) = {}
        ELSE slots[s].refs = Cardinality(Counters(s))

LogRecordsCounted ==
    \A c \in Consumers, s \in Slots :
        /\ log[c][s] = "referenced" => s \in counted[c]
        /\ log[c][s] = "free" => s \notin counted[c]

CollectorLogged ==
    \A c \in Consumers :
        /\ cpc[c] = "scan" /\ ccand[c] # NoSlot => cstat[c].ts > 0
        /\ cpc[c] = "cas" =>
              /\ ccand[c] # NoSlot
              /\ cstat[c].ts > 0
              /\ log[c][ccand[c]] = "incrementing"
              /\ ccand[c] \notin counted[c]
        /\ cpc[c] = "commit" =>
              /\ ccand[c] # NoSlot
              /\ log[c][ccand[c]] = "incrementing"
              /\ ccand[c] \in counted[c]

ReleaseLogged ==
    \A c \in Consumers :
        rpc[c] # "idle" =>
            /\ rslot[c] # NoSlot
            /\ log[c][rslot[c]] = "decrementing"
            /\ (rpc[c] = "subtract") <=> (rslot[c] \in counted[c])

SamplesLogged ==
    \A c \in Consumers :
        /\ \A s \in held[c] \union CollectedSlots(c) : log[c][s] = "referenced"
        /\ held[c] \intersect CollectedSlots(c) = {}
        /\ ~Running(c) => held[c] = {} /\ CollectedSlots(c) = {}

WriterOwnsSlots ==
    /\ \A s \in allocated : (ppc = "sent" /\ psel = s) \/ IsInWriting(slots[s])
    /\ ppc = "down" => allocated = {}

RollbackProgress ==
    \A c \in Consumers :
        /\ cpc[c] = "crashed" => cidx[c] = 0
        /\ cpc[c] = "rollback" =>
              \A s \in Slots : s < cidx[c] =>
                  log[c][s] = "free" \/ (rpc[c] # "idle" /\ s = rslot[c])

(* The parts hold together: each is preserved only because of the others.  *)
(* What a count, a log and a process know of one reference always agrees.  *)
CountInvariant ==
    /\ CountsExact
    /\ LogRecordsCounted
    /\ CollectorLogged
    /\ ReleaseLogged
    /\ SamplesLogged
    /\ WriterOwnsSlots
    /\ RollbackProgress

-----------------------------------------------------------------------------
(* The inductive invariant behind FetchedRight, for a consumer c that does *)
(* not release samples while it collects others.                           *)

(* No DereferenceEvent is in progress while samples are collected, and     *)
(* nothing is collected outside GetNewSamples.                             *)
CollectsAlone(c) ==
    IF cpc[c] \in {"scan", "cas", "commit", "deliver"}
    THEN rpc[c] = "idle"
    ELSE collected[c] = <<>>

(* A running consumer knows every entry of its log: a sample it holds or   *)
(* collects, the slot it is about to reference or the one it releases.     *)
LogEntriesKnown(c) ==
    \A s \in Slots :
        Running(c) /\ log[c][s] # "free" =>
            \/ s \in held[c] \union CollectedSlots(c)
            \/ cpc[c] \in {"cas", "commit"} /\ s = ccand[c]
            \/ rpc[c] # "idle" /\ s = rslot[c]

(* Held samples are no newer than lastTs; collected ones are newer, in     *)
(* descending order and not below chigh.                                   *)
StampsDivide(c) ==
    /\ \A s \in held[c] : slots[s].ts <= lastTs[c]
    /\ \A i \in 1 .. Len(collected[c]) :
          /\ slots[collected[c][i]].ts > lastTs[c]
          /\ slots[collected[c][i]].ts >= chigh[c]
          /\ i > 1 => slots[collected[c][i]].ts < slots[collected[c][i - 1]].ts

(* The candidate is newer than lastTs, older than what is collected, and   *)
(* neither held nor collected, however stale its copied status is.         *)
CandidateNew(c) ==
    /\ cpc[c] = "scan" => cstat[c].ts >= lastTs[c]
    /\ cpc[c] \in {"scan", "cas"} /\ ccand[c] # NoSlot =>
          /\ cstat[c].ts > lastTs[c] /\ cstat[c].ts < chigh[c]
          /\ ccand[c] \notin held[c] \union CollectedSlots(c)
    /\ cpc[c] = "commit" =>
          slots[ccand[c]].ts > lastTs[c] /\ slots[ccand[c]].ts < chigh[c]

FetchOf(c) ==
    CollectsAlone(c) /\ LogEntriesKnown(c) /\ StampsDivide(c) /\ CandidateNew(c)

FetchInvariant == \A c \in Consumers : FetchOf(c)

-----------------------------------------------------------------------------
(* What AllocationHasAFreeSlot rests on: no consumer references more slots *)
(* than the samples of its subscription, and the user no more than         *)
(* MaxAllocations of the others.                                           *)

(* Every sample of the subscription is available, reserved for the call in *)
(* progress or held, and the call collects no more than it reserved.       *)
GuardsBalance(c) ==
    /\ tracker[c] \in Nat
    /\ tracker[c] + cmax[c] + Cardinality(held[c]) = MaxSamples[c]
    /\ Cardinality(CollectedSlots(c)) = Len(collected[c])
    /\ cpc[c] \in {"scan", "cas", "commit"} => Len(collected[c]) < cmax[c]
    /\ cpc[c] = "deliver" => Len(collected[c]) <= cmax[c]
    /\ cpc[c] = "idle" => cmax[c] = 0
    /\ Cardinality(counted[c]) <= MaxSamples[c]

WriterWithinBudget ==
    /\ ppc # "down" /\ ~leaked =>
          \A s \in Slots : IsInWriting(slots[s]) => s \in allocated
    /\ ppc = "find" => Cardinality(allocated) < MaxAllocations

BudgetInvariant ==
    /\ \A c \in Consumers : GuardsBalance(c)
    /\ WriterWithinBudget

(* The samples the consumers may hold, numbered.                           *)
Permits == UNION {{c} \X (1 .. MaxSamples[c]) : c \in Consumers}

(* The sizing rule: a slot for every sample the consumers may hold and for *)
(* every allocation.                                                       *)
SlotsSuffice == Cardinality(Permits) + MaxAllocations <= NumSlots

-----------------------------------------------------------------------------
(* The refinement mapping to EventSlots: a status word is the state and    *)
(* the timestamp of its slot, the references are the counted ones.         *)
SlotState(st) ==
    IF IsInWriting(st) THEN "writing" ELSE IF IsInvalid(st) THEN "free" ELSE "ready"

Promise == INSTANCE EventSlots WITH
    Stamps <- Timestamps,
    state <- [s \in Slots |-> SlotState(slots[s])],
    stamp <- [s \in Slots |-> slots[s].ts],
    readers <- [s \in Slots |-> Cardinality(Counters(s))]

(* The lock-free code implements EventSlots, whoever crashes and wherever: *)
(* every access to a status word is a step of the abstract slots, or none. *)
ControlKeepsItsPromise == Promise!Spec
=============================================================================
