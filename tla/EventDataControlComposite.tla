--------------------- MODULE EventDataControlComposite ---------------------
(***************************************************************************)
(* The two control blocks of an ASIL-B event: ASIL-B consumers reference   *)
(* slots in one, QM consumers in the other, and both stand for the same    *)
(* sample memory.  The skeleton allocates a slot in both; when it cannot,  *)
(* it disconnects the QM consumers and serves the ASIL-B block alone.      *)
(*                                                                         *)
(* Every action makes at most one access to a shared status word, except   *)
(* where only words in writing, which nobody else touches, are involved.   *)
(* The consumers' own protocol is the subject of EventDataControl: here a  *)
(* consumer is the increment and the decrement of a status word.           *)
(***************************************************************************)
EXTENDS EventSlotStatus, Integers, FiniteSets

CONSTANTS
    NumSlots,              \* number of slots of the event
    MaxMultiAllocate,      \* MAX_MULTI_ALLOCATE_COUNT
    MaxAllocateRetries,    \* MAX_ALLOCATE_RETRIES
    MaxAllocations,        \* bound: SampleAllocateePtrs the user holds at a time
    MaxReadersB,           \* samples the ASIL-B consumers may hold together
    MaxReadersQm,          \* bound: samples the QM consumers hold together
    MaxRestarts,           \* bound: crashes and re-offers in a behaviour
    ReofferWithSamples,    \* may the user re-offer with samples in hand?
    ReofferAfterDisconnect \* may the user re-offer after a QM disconnect?

ASSUME CompositeAssumption ==
    /\ NumSlots \in Nat \ {0}
    /\ MaxMultiAllocate \in Nat \ {0}
    /\ MaxAllocateRetries \in Nat
    /\ MaxAllocations \in Nat
    /\ MaxReadersB \in Nat /\ MaxReadersB < RefCountMax
    /\ MaxReadersQm \in Nat /\ MaxReadersQm < RefCountMax
    /\ MaxRestarts \in Nat
    /\ ReofferWithSamples \in BOOLEAN
    /\ ReofferAfterDisconnect \in BOOLEAN

Slots == 0 .. NumSlots - 1
NoSlot == NumSlots

(* A SampleAllocateePtr: the slot, and the copy of the composite that the  *)
(* pointer keeps, of which only ignore_qm_control_ matters.                *)
Allocatee == [slot : Slots, ignoreQm : BOOLEAN]
NoAllocatee == [slot |-> NoSlot, ignoreQm |-> FALSE]

VARIABLES
    b, qm,         \* state_slots_ of the ASIL-B and of the QM control
    data,          \* per slot: timestamp of the complete sample in it, or 0
    readersB,      \* per slot: SamplePtrs the ASIL-B consumers hold
    readersQm,     \* per slot: SamplePtrs the QM consumers hold
    ignoreQm,      \* ignore_qm_control_ of the skeleton's composite
    qmDisconnect,  \* qm_disconnect_ of the SkeletonEvent
    qmOffered,     \* is the QM part of the service offered?
    ppc,           \* where the skeleton is
    tries,         \* counter of AllocateNextMultiSlot, then retry_counter
    idx,           \* slot_index of GetNextFreeMultiSlot, then of the scan alone
    cand,          \* possible_index, selected_index
    oldest,        \* oldest_time_stamp
    oldQm, oldB,   \* status words loaded before
    allocated,     \* the user's SampleAllocateePtrs
    sending,       \* the one in Send or in its destructor
    currentTs,     \* current_timestamp_
    restarts,      \* crashes and re-offers so far
    disconnected,  \* history: QM was disconnected at some time
    leaked         \* history: slots locked by an allocation that reported failure

words == <<b, qm>>
readVars == <<readersB, readersQm>>
flags == <<ignoreQm, qmDisconnect, qmOffered, disconnected>>
scanVars == <<tries, idx, cand, oldest, oldQm, oldB>>
ownVars == <<allocated, sending, currentTs>>
vars == <<words, data, readVars, flags, ppc, scanVars, ownVars, restarts, leaked>>

PubStates == {"idle", "findQm", "findB", "lockQm", "lockB", "casQm", "casB",
              "restore", "fallback", "lockAlone", "sendQm", "discardB", "discardQm", "down"}

NoScan ==
    /\ tries' = 0 /\ idx' = 0 /\ cand' = NoSlot /\ oldest' = TimestampMax
    /\ oldQm' = INVALID /\ oldB' = INVALID

Init ==
    /\ b = [s \in Slots |-> INVALID] /\ qm = [s \in Slots |-> INVALID]
    /\ data = [s \in Slots |-> 0]
    /\ readersB = [s \in Slots |-> 0] /\ readersQm = [s \in Slots |-> 0]
    /\ ignoreQm = FALSE /\ qmDisconnect = FALSE /\ qmOffered = TRUE
    /\ disconnected = FALSE
    /\ ppc = "idle"
    /\ tries = 0 /\ idx = 0 /\ cand = NoSlot /\ oldest = TimestampMax
    /\ oldQm = INVALID /\ oldB = INVALID
    /\ allocated = {} /\ sending = NoAllocatee /\ currentTs = 1
    /\ restarts = 0 /\ leaked = {}

-----------------------------------------------------------------------------
(* The allocation.                                                         *)

(* AllocateNextSlot is called: on both blocks, or on ASIL-B alone once the *)
(* QM consumers are ignored.                                               *)
Allocate ==
    /\ ppc = "idle" /\ Cardinality(allocated) < MaxAllocations
    /\ ppc' = IF ignoreQm THEN "fallback" ELSE "findQm"
    /\ UNCHANGED <<words, data, readVars, flags, scanVars, ownVars, restarts, leaked>>

(* GetNextFreeMultiSlot loads the QM word of the next slot ...             *)
LoadQm ==
    /\ ppc = "findQm"
    /\ oldQm' = qm[idx]
    /\ ppc' = "findB"
    /\ UNCHANGED <<words, data, readVars, flags, tries, idx, cand, oldest, oldB,
                   ownVars, restarts, leaked>>

(* Another iteration of AllocateNextMultiSlot, or the end of its patience: *)
(* the QM consumers are ignored from now on.                               *)
NextTry ==
    /\ idx' = 0 /\ cand' = NoSlot /\ oldest' = TimestampMax
    /\ oldQm' = INVALID /\ oldB' = INVALID
    /\ IF tries + 1 < MaxMultiAllocate
       THEN /\ tries' = tries + 1
            /\ ppc' = "findQm"
            /\ UNCHANGED <<ignoreQm, disconnected>>
       ELSE /\ tries' = 0
            /\ ppc' = "fallback"
            /\ ignoreQm' = TRUE /\ disconnected' = TRUE

FreeInBoth(stQm, stB) == IsInvalid(stB) \/ (~IsUsed(stQm) /\ ~IsUsed(stB))

(* ... and its ASIL-B word; the slot that is free in both, or invalid in   *)
(* ASIL-B, with the oldest ASIL-B timestamp is remembered.                 *)
LoadB ==
    /\ ppc = "findB"
    /\ LET better == FreeInBoth(oldQm, b[idx]) /\ b[idx].ts < oldest
           found == IF better THEN idx ELSE cand
       IN  IF idx + 1 = NumSlots /\ found = NoSlot
           THEN NextTry /\ UNCHANGED qmDisconnect
           ELSE /\ cand' = found
                /\ oldest' = IF better THEN b[idx].ts ELSE oldest
                /\ idx' = IF idx + 1 < NumSlots THEN idx + 1 ELSE 0
                /\ ppc' = IF idx + 1 < NumSlots THEN "findQm" ELSE "lockQm"
                /\ oldQm' = INVALID
                /\ UNCHANGED <<tries, oldB, ignoreQm, qmDisconnect, disconnected>>
    /\ UNCHANGED <<words, data, readVars, qmOffered, ownVars, restarts, leaked>>

(* TryLockSlot loads both words again ...                                  *)
LockLoadQm ==
    /\ ppc = "lockQm"
    /\ oldQm' = qm[cand]
    /\ ppc' = "lockB"
    /\ UNCHANGED <<words, data, readVars, flags, tries, idx, cand, oldest, oldB,
                   ownVars, restarts, leaked>>

(* Mutant: the words are not checked again.                                *)
AlwaysLockable(st, expected) == TRUE

Lockable(st, expected) == ~IsUsed(st) /\ st.ts <= expected

(* ... and gives up when one is used or newer than what the search saw.    *)
LockLoadB ==
    /\ ppc = "lockB"
    /\ IF Lockable(oldQm, oldest) /\ Lockable(b[cand], oldest)
       THEN /\ oldB' = b[cand]
            /\ ppc' = "casQm"
            /\ UNCHANGED <<ignoreQm, disconnected, tries, idx, cand, oldest, oldQm>>
       ELSE NextTry
    /\ UNCHANGED <<words, data, readVars, qmDisconnect, qmOffered, ownVars, restarts, leaked>>

(* Mutant: the result of the exchange is not looked at.                    *)
CasQmUnchecked ==
    /\ ppc = "casQm"
    /\ qm' = IF qm[cand] = oldQm THEN [qm EXCEPT ![cand] = IN_WRITING] ELSE qm
    /\ ppc' = "casB"
    /\ UNCHANGED <<b, data, readVars, flags, scanVars, ownVars, restarts, leaked>>

(* The QM word is exchanged first.                                         *)
CasQm ==
    /\ ppc = "casQm"
    /\ IF qm[cand] = oldQm
       THEN /\ qm' = [qm EXCEPT ![cand] = IN_WRITING]
            /\ ppc' = "casB"
            /\ UNCHANGED <<ignoreQm, disconnected, scanVars>>
       ELSE NextTry /\ UNCHANGED qm
    /\ UNCHANGED <<b, data, readVars, qmDisconnect, qmOffered, ownVars, restarts, leaked>>

(* Then the ASIL-B word: with both in writing the user owns the memory.    *)
CasB ==
    /\ ppc = "casB"
    /\ IF b[cand] = oldB
       THEN /\ b' = [b EXCEPT ![cand] = IN_WRITING]
            /\ data' = [data EXCEPT ![cand] = 0]
            /\ allocated' = allocated \union {[slot |-> cand, ignoreQm |-> ignoreQm]}
            /\ ppc' = "idle" /\ NoScan
       ELSE /\ ppc' = "restore"
            /\ UNCHANGED <<b, data, allocated, scanVars>>
    /\ UNCHANGED <<qm, readVars, flags, sending, currentTs, restarts, leaked>>

(* Mutant: the write lock on the QM word is not rolled back.               *)
RestoreNothing ==
    /\ ppc = "restore"
    /\ NextTry
    /\ UNCHANGED <<words, data, readVars, qmDisconnect, qmOffered, ownVars, restarts, leaked>>

(* The lock on ASIL-B failed: the QM word gets its old value back.         *)
RestoreQm ==
    /\ ppc = "restore"
    /\ qm' = [qm EXCEPT ![cand] = oldQm]
    /\ NextTry
    /\ UNCHANGED <<b, data, readVars, qmDisconnect, qmOffered, ownVars, restarts, leaked>>

(* The first allocation that reports ignored QM consumers makes the event  *)
(* stop-offer the QM part of the service.                                  *)
DisconnectQmConsumers ==
    /\ qmDisconnect' = TRUE
    /\ qmOffered' = IF qmDisconnect THEN qmOffered ELSE FALSE

(* AllocateNextSlot of the ASIL-B control: FindOldestUnusedSlot loads one  *)
(* word after the other.  An invalid slot ends the scan, an unused one is  *)
(* remembered when it is the oldest so far.                                *)
FindOldestUnusedSlot ==
    /\ ppc = "fallback"
    /\ LET better == ~IsUsed(b[idx]) /\ b[idx].ts < oldest
           last == IsInvalid(b[idx]) \/ idx + 1 = NumSlots
       IN  /\ cand' = IF better THEN idx ELSE cand
           /\ oldest' = IF better THEN b[idx].ts ELSE oldest
           /\ idx' = IF last THEN 0 ELSE idx + 1
           /\ ppc' = IF last THEN "lockAlone" ELSE "fallback"
    /\ UNCHANGED <<words, data, readVars, flags, tries, oldQm, oldB, ownVars, restarts, leaked>>

(* The selected word is still unused and is exchanged.  In the iteration   *)
(* that exhausts the retries the call reports failure nevertheless, and    *)
(* the slot stays locked.                                                  *)
LockAlone ==
    /\ ppc = "lockAlone" /\ cand # NoSlot /\ ~IsUsed(b[cand])
    /\ b' = [b EXCEPT ![cand] = IN_WRITING]
    /\ IF tries < MaxAllocateRetries
       THEN /\ data' = [data EXCEPT ![cand] = 0]
            /\ allocated' = allocated \union {[slot |-> cand, ignoreQm |-> TRUE]}
            /\ UNCHANGED leaked
       ELSE /\ leaked' = leaked \union {cand}
            /\ UNCHANGED <<data, allocated>>
    /\ DisconnectQmConsumers
    /\ ppc' = "idle" /\ NoScan
    /\ UNCHANGED <<qm, readVars, ignoreQm, disconnected, sending, currentTs, restarts>>

(* No slot was found, it is no longer unused, or the exchange failed, as a *)
(* weak one may by itself: the next iteration, or no slot at all.          *)
RetryAlone ==
    /\ ppc = "lockAlone"
    /\ idx' = 0 /\ cand' = NoSlot /\ oldest' = TimestampMax
    /\ IF tries < MaxAllocateRetries
       THEN /\ tries' = tries + 1 /\ ppc' = "fallback"
            /\ UNCHANGED <<qmDisconnect, qmOffered>>
       ELSE /\ tries' = 0 /\ ppc' = "idle"
            /\ DisconnectQmConsumers
    /\ UNCHANGED <<words, data, readVars, ignoreQm, disconnected, oldQm, oldB, ownVars,
                   restarts, leaked>>

-----------------------------------------------------------------------------
(* Send and the destruction of a SampleAllocateePtr.                       *)

(* The sample is complete and EventReady stores the ASIL-B word first.     *)
(* Bound: currentTs stays below the 32-bit wrap-around.                    *)
Send(p) ==
    /\ ppc = "idle" /\ p \in allocated
    /\ currentTs + 1 < TimestampMax
    /\ currentTs' = currentTs + 1
    /\ data' = [data EXCEPT ![p.slot] = currentTs + 1]
    /\ b' = [b EXCEPT ![p.slot] = [ts |-> currentTs + 1, refs |-> 0]]
    /\ ppc' = "sendQm" /\ sending' = p
    /\ UNCHANGED <<qm, readVars, flags, scanVars, allocated, restarts, leaked>>

(* The QM word follows unless QM is ignored.                               *)
SendQm ==
    /\ ppc = "sendQm"
    /\ qm' = IF ignoreQm THEN qm
             ELSE [qm EXCEPT ![sending.slot] = [ts |-> currentTs, refs |-> 0]]
    /\ ppc' = "discardB"
    /\ UNCHANGED <<b, data, readVars, flags, scanVars, ownVars, restarts, leaked>>

(* A SampleAllocateePtr is destroyed without a Send.                       *)
Drop(p) ==
    /\ ppc = "idle" /\ p \in allocated
    /\ ppc' = "discardB" /\ sending' = p
    /\ UNCHANGED <<words, data, readVars, flags, scanVars, allocated, currentTs, restarts, leaked>>

(* Mutant: a slot that was never sent is not given back.                   *)
DiscardNothing(st) == st

(* What Discard makes of a word: ready events are kept.                    *)
Discarded(st) == IF IsInWriting(st) THEN INVALID ELSE st

(* Discard on the pointer's own copy of the composite: ASIL-B ...          *)
DiscardB ==
    /\ ppc = "discardB"
    /\ b' = [b EXCEPT ![sending.slot] = Discarded(@)]
    /\ ppc' = "discardQm"
    /\ UNCHANGED <<qm, data, readVars, flags, scanVars, ownVars, restarts, leaked>>

(* ... and QM, unless QM was ignored when the pointer was made.            *)
DiscardQm ==
    /\ ppc = "discardQm"
    /\ qm' = IF sending.ignoreQm THEN qm
             ELSE [qm EXCEPT ![sending.slot] = Discarded(@)]
    /\ allocated' = allocated \ {sending}
    /\ ppc' = "idle" /\ sending' = NoAllocatee
    /\ UNCHANGED <<b, data, readVars, flags, scanVars, currentTs, restarts, leaked>>

-----------------------------------------------------------------------------
(* Crash, restart, and a second offer in the same process, each while some *)
(* proxy keeps the shared memory in use.                                   *)

Crash ==
    /\ ppc # "down" /\ restarts < MaxRestarts
    /\ restarts' = restarts + 1
    /\ ppc' = "down"
    /\ NoScan
    /\ allocated' = {} /\ sending' = NoAllocatee
    /\ UNCHANGED <<words, data, readVars, flags, currentTs, leaked>>

(* CleanupSharedMemoryAfterCrash: no word stays in writing.                *)
RemoveAllocationsForWriting(words_) == [s \in Slots |-> Discarded(words_[s])]

GetLatestTimestamp(words_) ==
    LET stamps == {1} \union {words_[s].ts : s \in Slots}
    IN  CHOOSE t \in stamps : \A u \in stamps : u <= t

(* The service is offered on the existing memory with a new composite,     *)
(* which does not ignore QM.                                               *)
OpenExisting ==
    /\ b' = RemoveAllocationsForWriting(b)
    /\ qm' = RemoveAllocationsForWriting(qm)
    /\ currentTs' = GetLatestTimestamp(b')
    /\ ignoreQm' = FALSE
    /\ qmOffered' = TRUE
    /\ leaked' = {}
    /\ UNCHANGED <<data, readVars, disconnected, scanVars, sending>>

Restart ==
    /\ ppc = "down" /\ ppc' = "idle"
    /\ OpenExisting
    /\ qmDisconnect' = FALSE
    /\ UNCHANGED <<allocated, restarts>>

(* StopOfferService and OfferService on a living skeleton: its             *)
(* SkeletonEvents keep qm_disconnect_, its user keeps the samples.         *)
Reoffer ==
    /\ ppc = "idle" /\ restarts < MaxRestarts
    /\ ReofferWithSamples \/ allocated = {}
    /\ ReofferAfterDisconnect \/ ~qmDisconnect
    /\ restarts' = restarts + 1
    /\ OpenExisting
    /\ UNCHANGED <<ppc, qmDisconnect, allocated>>

-----------------------------------------------------------------------------
(* The consumers: a reference is added to a ready slot, and taken back.    *)

Total(f) == Cardinality({x \in Slots \X (1 .. RefCountMax) : x[2] <= f[x[1]]})

AcquireB(s) ==
    /\ IsTimeStampBetween(b[s], 0, TimestampMax)
    /\ Total(readersB) < MaxReadersB
    /\ b' = [b EXCEPT ![s] = Increment(@)]
    /\ readersB' = [readersB EXCEPT ![s] = @ + 1]
    /\ UNCHANGED <<qm, data, readersQm, flags, ppc, scanVars, ownVars, restarts, leaked>>

ReleaseB(s) ==
    /\ readersB[s] > 0
    /\ b' = [b EXCEPT ![s] = Decrement(@)]
    /\ readersB' = [readersB EXCEPT ![s] = @ - 1]
    /\ UNCHANGED <<qm, data, readersQm, flags, ppc, scanVars, ownVars, restarts, leaked>>

AcquireQm(s) ==
    /\ IsTimeStampBetween(qm[s], 0, TimestampMax)
    /\ Total(readersQm) < MaxReadersQm
    /\ qm' = [qm EXCEPT ![s] = Increment(@)]
    /\ readersQm' = [readersQm EXCEPT ![s] = @ + 1]
    /\ UNCHANGED <<b, data, readersB, flags, ppc, scanVars, ownVars, restarts, leaked>>

ReleaseQm(s) ==
    /\ readersQm[s] > 0
    /\ qm' = [qm EXCEPT ![s] = Decrement(@)]
    /\ readersQm' = [readersQm EXCEPT ![s] = @ - 1]
    /\ UNCHANGED <<b, data, readersB, flags, ppc, scanVars, ownVars, restarts, leaked>>

-----------------------------------------------------------------------------
PublisherStep ==
    \/ LoadQm \/ LoadB
    \/ LockLoadQm \/ LockLoadB
    \/ CasQm \/ CasB \/ RestoreQm
    \/ FindOldestUnusedSlot \/ LockAlone \/ RetryAlone
    \/ SendQm \/ DiscardB \/ DiscardQm

Next ==
    \/ Allocate
    \/ PublisherStep
    \/ \E p \in allocated : Send(p) \/ Drop(p)
    \/ Crash \/ Restart \/ Reoffer
    \/ \E s \in Slots : AcquireB(s) \/ ReleaseB(s) \/ AcquireQm(s) \/ ReleaseQm(s)

Spec == Init /\ [][Next]_vars

-----------------------------------------------------------------------------
(* Every variable stays in its type; in particular no reference count      *)
(* overflows and nobody works on a slot that does not exist.               *)
TypeOK ==
    /\ b \in [Slots -> SlotStatus] /\ qm \in [Slots -> SlotStatus]
    /\ data \in [Slots -> Timestamps]
    /\ readersB \in [Slots -> Nat] /\ readersQm \in [Slots -> Nat]
    /\ {ignoreQm, qmDisconnect, qmOffered, disconnected} \subseteq BOOLEAN
    /\ ppc \in PubStates
    /\ tries \in 0 .. MaxMultiAllocate + MaxAllocateRetries
    /\ idx \in Slots
    /\ cand \in Slots \union {NoSlot}
    /\ oldest \in Timestamps
    /\ oldQm \in SlotStatus /\ oldB \in SlotStatus
    /\ allocated \subseteq Allocatee
    /\ sending \in Allocatee \union {NoAllocatee}
    /\ currentTs \in Timestamps \ {0}
    /\ restarts \in 0 .. MaxRestarts
    /\ leaked \subseteq Slots

(* Locking two blocks one after the other, rolling one lock back, ignoring *)
(* one block and cleaning up after a crash never lose or invent a          *)
(* reference in either: a word in writing has no readers, any other counts *)
(* exactly its readers.                                                    *)
ReferencesCounted ==
    \A s \in Slots :
        /\ IF IsInWriting(b[s]) THEN readersB[s] = 0 ELSE b[s].refs = readersB[s]
        /\ IF IsInWriting(qm[s]) THEN readersQm[s] = 0 ELSE qm[s].refs = readersQm[s]

(* An event that is ready for ASIL-B consumers is complete, and the sample *)
(* its timestamp belongs to, whatever QM consumers and crashes do.         *)
AsilBSamplesIntact ==
    \A s \in Slots : b[s].ts # 0 => data[s] = b[s].ts

(* The same holds for QM consumers as long as they were never disconnected *)
(* (afterwards the memory they reference is written without asking them).  *)
QmSamplesIntact ==
    ~disconnected => \A s \in Slots : qm[s].ts # 0 => data[s] = qm[s].ts

(* With a slot per sample the ASIL-B consumers may hold and one per        *)
(* allocation, QM consumers never leave ASIL-B without a slot: whatever    *)
(* they hold, there is an unused one as long as the fallback looks for it, *)
(* unless it has locked a slot itself and reported failure.                *)
AsilBNeverStarved ==
    ppc \in {"fallback", "lockAlone"} /\ leaked = {} => \E s \in Slots : ~IsUsed(b[s])

(* A slot has one owner, and an owner that was given a slot of both blocks *)
(* keeps it locked in both until it sends or drops it, also when QM is     *)
(* disconnected in between ("it is guaranteed that the slot has been       *)
(* allocated in all underlying control structures").                       *)
LockedUntilDone ==
    \A p \in allocated :
        /\ \A q \in allocated : q.slot = p.slot => q = p
        /\ p = sending \/ (IsInWriting(b[p.slot]) /\
                           (p.ignoreQm \/ IsInWriting(qm[p.slot])))

(* Outside an allocation and a restart no word stays in writing without an *)
(* owner: a failed lock of the second block is undone in the first, and    *)
(* the pointer's older copy of the composite gives a QM slot back after a  *)
(* disconnect.  The exception is the ASIL-B word of an allocation that     *)
(* exhausted its retries with a slot locked, until the next offer.         *)
NoStrayLock ==
    ppc = "idle" =>
        \A s \in Slots :
            (IsInWriting(b[s]) /\ s \notin leaked) \/ IsInWriting(qm[s])
                => \E p \in allocated : p.slot = s

(* A slot that was lost that way is lost for the ASIL-B block only, and to *)
(* nobody: it stays locked, and no sample is ever allocated in it.         *)
LeakedStayLocked ==
    ppc # "down" => \A s \in leaked :
        IsInWriting(b[s]) /\ disconnected /\ \A p \in allocated : p.slot # s

(* The two blocks together: both count their readers, and a slot is locked *)
(* in them exactly as long as somebody owns it, but for the leaked ones.   *)
BlocksAgree ==
    TypeOK /\ ReferencesCounted /\ LockedUntilDone /\ NoStrayLock /\ LeakedStayLocked

(* What consumers of either quality read is what was sent.                 *)
SamplesIntact == AsilBSamplesIntact /\ QmSamplesIntact

(* A QM consumer whose sample is rewritten is disconnected: at that time   *)
(* the QM part of the service is not offered.                              *)
QmRewrittenOnlyWhenStopped ==
    \A s \in Slots : readersQm[s] > 0 /\ data'[s] # data[s] => ~qmOffered'

(* QM consumers never keep ASIL-B from its slots, and pay for it with      *)
(* their samples only once they are disconnected.                          *)
DisconnectionServesAsilB == [][AsilBNeverStarved' /\ QmRewrittenOnlyWhenStopped]_vars

-----------------------------------------------------------------------------
(* The inductive invariant behind BlocksAgree, SamplesIntact, the          *)
(* refinement and DisconnectionServesAsilB, for a user that does not       *)
(* re-offer with samples in hand or after a disconnect.                    *)

(* Only published events are referenced.                                   *)
ReadArePublished ==
    \A s \in Slots :
        /\ readersB[s] > 0 => b[s].ts > 0
        /\ readersQm[s] > 0 => qm[s].ts > 0

Allocating == ppc \in {"findQm", "findB", "lockQm", "lockB", "casQm", "casB", "restore"}

(* Where the allocation is: it works on a slot, does not know of ignored   *)
(* QM consumers yet, has seen both words unused, and knows the QM word it  *)
(* may have to restore to a slot nobody owns.                              *)
SearchSound ==
    /\ Allocating => ~ignoreQm
    /\ ppc \in {"lockQm", "lockB", "casQm", "casB", "restore"} => cand \in Slots
    /\ ppc \in {"casQm", "casB", "restore"} => ~IsUsed(oldQm) /\ ~IsUsed(oldB)
    /\ ppc \in {"casB", "restore"} =>
          /\ IsInWriting(qm[cand])
          /\ \A p \in allocated : p.slot # cand
          /\ ~disconnected /\ oldQm.ts # 0 => data[cand] = oldQm.ts
    /\ ppc \in {"fallback", "lockAlone"} => ignoreQm

(* Send and Discard work on one of the user's samples, outside them there  *)
(* is none; a dead process has none.                                       *)
SendingSound ==
    /\ IF ppc \in {"sendQm", "discardB", "discardQm"}
       THEN sending \in allocated
       ELSE sending = NoAllocatee
    /\ ppc = "down" => allocated = {}
    /\ ppc = "sendQm" =>
          /\ data[sending.slot] = currentTs
          /\ sending.ignoreQm \/ IsInWriting(qm[sending.slot])
    /\ ppc \in {"sendQm", "discardQm"} => ~IsInWriting(b[sending.slot])

(* A word in writing has an owner: a sample of the user, the allocation in *)
(* progress, one that failed, or a process that died.                      *)
LocksOwned ==
    ppc # "down" => \A s \in Slots :
        /\ IsInWriting(b[s]) => s \in leaked \/ \E p \in allocated : p.slot = s
        /\ IsInWriting(qm[s]) =>
              \/ \E p \in allocated : p.slot = s
              \/ ppc \in {"casB", "restore"} /\ cand = s

(* A sample allocated in ASIL-B alone was allocated after the disconnect,  *)
(* and has no lock in QM.                                                  *)
DisconnectKnown ==
    /\ \A p \in allocated : p.ignoreQm =>
          ignoreQm /\ qmDisconnect /\ ~IsInWriting(qm[p.slot])
    /\ ignoreQm => disconnected
    /\ qmDisconnect => ~qmOffered

CompositeInvariant ==
    /\ ReferencesCounted
    /\ LockedUntilDone
    /\ SamplesIntact
    /\ ReadArePublished
    /\ SearchSound
    /\ SendingSound
    /\ LocksOwned
    /\ LeakedStayLocked
    /\ DisconnectKnown

(* A slot per sample the ASIL-B consumers may hold and one per allocation. *)
SlotsSuffice == MaxReadersB + MaxAllocations <= NumSlots

(* The consumers hold no more than their samples, an allocation is within  *)
(* the user's bound.                                                       *)
WithinBudget ==
    /\ Total(readersB) <= MaxReadersB
    /\ Allocating \/ ppc \in {"fallback", "lockAlone"} => Cardinality(allocated) < MaxAllocations

-----------------------------------------------------------------------------
(* The ASIL-B block keeps what EventSlots promises.                        *)
SlotState(st) ==
    IF IsInWriting(st) THEN "writing" ELSE IF IsInvalid(st) THEN "free" ELSE "ready"

AsilB == INSTANCE EventSlots WITH
    Stamps <- Timestamps,
    state <- [s \in Slots |-> SlotState(b[s])],
    stamp <- [s \in Slots |-> IF b[s].ts # 0 THEN data[s] ELSE 0],
    readers <- readersB

(* The ASIL-B block implements EventSlots, its samples' contents included. *)
AsilBKeepsItsPromise == AsilB!Spec
=============================================================================
