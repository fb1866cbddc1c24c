----------------------- MODULE EventDataControlProofs -----------------------
(***************************************************************************)
(* Proofs about EventDataControl for every number of consumers and slots,  *)
(* every retry limit, and with or without concurrent release of samples.   *)
(***************************************************************************)
EXTENDS EventDataControl, FiniteSetTheorems, FunctionTheorems,
        NaturalsInduction, WellFoundedInduction, TLAPS

(* A set of naturals with an element and an upper bound has a greatest     *)
(* element, so the maxima of GetLatestTimestamp and of                     *)
(* GetNewSamplesSlotIndices exist.                                         *)
LEMMA MaximumExists ==
    ASSUME NEW n \in Nat, NEW T \in SUBSET (0 .. n), T # {}
    PROVE  LET m == CHOOSE t \in T : \A u \in T : u <= t
           IN  m \in T /\ \A u \in T : u <= m
<1> DEFINE D == {n - t : t \in T}
<1>1. D \subseteq Nat /\ D # {}
  <2>1. PICK t \in T : TRUE
    OBVIOUS
  <2>2. n - t \in D
    OBVIOUS
  <2>3. ASSUME NEW d \in D PROVE d \in Nat
    <3>1. PICK u \in T : d = n - u
      OBVIOUS
    <3> QED
      BY <3>1
  <2> QED
    BY <2>2, <2>3
<1>2. PICK x \in D : \A y \in D : ~(<<y, x>> \in OpToRel(<, Nat))
  BY <1>1, NatLessThanWellFounded, WFMin
<1>3. \A y \in D : ~(y < x)
  BY <1>1, <1>2 DEF OpToRel
<1>4. PICK t \in T : x = n - t
  OBVIOUS
<1>5. \A u \in T : u <= t
  <2> TAKE u \in T
  <2>1. n - u \in D
    OBVIOUS
  <2>2. ~(n - u < n - t)
    BY <1>3, <1>4, <2>1
  <2> QED
    BY <2>2
<1> QED
  BY <1>5

-----------------------------------------------------------------------------
(* Sets of consumers are finite, and counting them stays below the         *)
(* reserved reference count of IN_WRITING.                                 *)
LEMMA ConsumerCount ==
    ASSUME NEW C \in SUBSET Consumers
    PROVE  /\ IsFiniteSet(C)
           /\ Cardinality(C) \in Nat
           /\ Cardinality(C) <= Cardinality(Consumers)
           /\ Cardinality(Consumers) \in Nat
           /\ Cardinality(C) < RefCountMax
           /\ C # {} => Cardinality(C) > 0
<1>1. IsFiniteSet(C) /\ Cardinality(C) <= Cardinality(Consumers)
  BY FS_Subset, ControlAssumption
<1>2. Cardinality(C) \in Nat /\ Cardinality(Consumers) \in Nat
  BY <1>1, FS_CardinalityType, ControlAssumption
<1>3. C # {} => Cardinality(C) > 0
  BY <1>1, <1>2, FS_EmptySet
<1> QED
  BY <1>1, <1>2, <1>3, ControlAssumption, StatusAssumption

(* Counting one more consumer adds one to the count.                       *)
LEMMA CountAdd ==
    ASSUME NEW C \in SUBSET Consumers, NEW c \in Consumers, c \notin C
    PROVE  Cardinality(C \union {c}) = Cardinality(C) + 1
BY ConsumerCount, FS_AddElement

(* Counting one consumer less takes one from the count.                    *)
LEMMA CountRemove ==
    ASSUME NEW C \in SUBSET Consumers, NEW c \in C
    PROVE  Cardinality(C \ {c}) = Cardinality(C) - 1
BY ConsumerCount, FS_RemoveElement

(* The arithmetic of the status word: as long as the count has room it     *)
(* leaves the timestamp alone.                                             *)
LEMMA ModRange ==
    ASSUME NEW a \in Nat
    PROVE  a % (TimestampMax + 1) \in 0 .. TimestampMax
BY StatusAssumption

(* The two special words are status words and are told apart.              *)
LEMMA StatusConstants ==
    /\ INVALID \in SlotStatus
    /\ IN_WRITING \in SlotStatus
    /\ INVALID # IN_WRITING
BY StatusAssumption DEF INVALID, IN_WRITING, SlotStatus, Timestamps, RefCounts

(* Increment and Decrement change the count alone, as long as it has room  *)
(* and is not zero.                                                        *)
LEMMA StatusArithmetic ==
    ASSUME NEW st \in SlotStatus
    PROVE  /\ Increment(st) \in SlotStatus
           /\ Decrement(st) \in SlotStatus
           /\ st.refs < RefCountMax =>
                 Increment(st).ts = st.ts /\ Increment(st).refs = st.refs + 1
           /\ st.refs > 0 =>
                 Decrement(st).ts = st.ts /\ Decrement(st).refs = st.refs - 1
<1>1. st.ts \in 0 .. TimestampMax /\ st.refs \in 0 .. RefCountMax
  BY DEF SlotStatus, Timestamps, RefCounts
<1>2. /\ (st.ts + 1) % (TimestampMax + 1) \in 0 .. TimestampMax
      /\ (st.ts + TimestampMax) % (TimestampMax + 1) \in 0 .. TimestampMax
  BY <1>1, ModRange, StatusAssumption
<1>3. Increment(st) \in SlotStatus /\ Decrement(st) \in SlotStatus
  BY <1>1, <1>2, StatusAssumption
     DEF Increment, Decrement, SlotStatus, Timestamps, RefCounts
<1> QED
  BY <1>1, <1>3 DEF Increment, Decrement

(* The clock a restarted publisher recovers is a timestamp, not 0, and at  *)
(* least that of every readable slot.                                      *)
LEMMA LatestTimestamp ==
    ASSUME NEW sl \in [Slots -> SlotStatus]
    PROVE  GetLatestTimestamp(sl) \in Timestamps \ {0}
<1> DEFINE stamps == {1} \union {sl[s].ts : s \in {r \in Slots :
                          ~IsInvalid(sl[r]) /\ ~IsInWriting(sl[r])}}
           m == CHOOSE t \in stamps : \A u \in stamps : u <= t
<1>1. stamps \in SUBSET (0 .. TimestampMax) /\ stamps # {} /\ 1 \in stamps
  BY StatusAssumption DEF SlotStatus, Timestamps
<1>2. GetLatestTimestamp(sl) = m
  BY DEF GetLatestTimestamp
<1> HIDE DEF stamps
<1>3. m \in stamps /\ 1 <= m
  BY <1>1, MaximumExists, StatusAssumption
<1> HIDE DEF m
<1> QED
  BY <1>1, <1>2, <1>3 DEF Timestamps

-----------------------------------------------------------------------------
(* Types.  The invariant of the counts is needed where a step reads        *)
(* through an optional slot index.                                         *)
LEMMA TypeInit == Init => TypeOK
<1> SUFFICES ASSUME Init PROVE TypeOK
  OBVIOUS
<1> USE StatusAssumption, ControlAssumption, StatusConstants
    DEF Init, Slots, NoSlot, Timestamps
<1>1. /\ slots \in [Slots -> SlotStatus]
      /\ log \in [Consumers -> [Slots -> LogStates]]
      /\ counted \in [Consumers -> SUBSET Slots]
  BY DEF LogStates
<1>a. leaked \in BOOLEAN
  BY Zenon DEF Init
<1>2. /\ ppc \in PubStates
      /\ ptry \in 0 .. MaxAllocateRetries /\ pidx \in 0 .. NumSlots
      /\ psel \in Slots \union {NoSlot} /\ poldest \in Timestamps
      /\ allocated \in SUBSET Slots /\ currentTs \in Timestamps \ {0}
  BY DEF PubStates
<1>3. /\ cpc \in [Consumers -> ConStates]
      /\ ctry \in [Consumers -> 0 .. MaxReferenceRetries]
      /\ cidx \in [Consumers -> 0 .. NumSlots]
      /\ ccand \in [Consumers -> Slots \union {NoSlot}]
      /\ cstat \in [Consumers -> SlotStatus]
  BY DEF ConStates
<1>4. /\ cmax \in [Consumers -> Nat]
      /\ chigh \in [Consumers -> Timestamps]
      /\ lastTs \in [Consumers -> Timestamps]
      /\ held \in [Consumers -> SUBSET Slots]
      /\ tracker \in [Consumers -> Int]
  OBVIOUS
<1>5. collected \in [Consumers -> Seq(Slots)]
  <2>1. <<>> \in Seq(Slots)
    OBVIOUS
  <2> QED
    BY <2>1
<1>6. /\ rpc \in [Consumers -> ReleaseStates]
      /\ rslot \in [Consumers -> Slots \union {NoSlot}]
      /\ crashes \in 0 .. MaxCrashes
  BY DEF ReleaseStates
<1> QED
  BY <1>1, <1>a, <1>2, <1>3, <1>4, <1>5, <1>6 DEF TypeOK, SharedTypeOK, PublisherTypeOK, ScanTypeOK,
     CollectTypeOK, SampleTypeOK

(* The steps of the publisher keep every variable in its type.             *)
LEMMA PublisherTypes ==
    ASSUME TypeOK,
           \/ Allocate \/ PublisherStep \/ PublisherCrash \/ PrepareOffer
           \/ \E s \in Slots : EventReady(s) \/ Discard(s)
    PROVE  TypeOK'
<1> USE StatusAssumption, ControlAssumption, StatusConstants
    DEF TypeOK, SharedTypeOK, PublisherTypeOK, ScanTypeOK, CollectTypeOK,
        SampleTypeOK, PubStates, NoSlot, Slots, StartFind, slotVars, conVars,
        scanVars, collectVars, sampleVars, releaseVars
<1>1. CASE Allocate
  BY <1>1 DEF Allocate, Timestamps
<1>2. CASE FindOldestUnusedSlot
  <2>1. slots[pidx] \in SlotStatus /\ slots[pidx].ts \in Timestamps
    BY <1>2 DEF FindOldestUnusedSlot, SlotStatus
  <2> QED
    BY <1>2, <2>1 DEF FindOldestUnusedSlot
<1>3. CASE LockSlot
  <2>1. psel \in Slots /\ slots' \in [Slots -> SlotStatus]
    BY <1>3 DEF LockSlot
  <2>2. allocated' \in SUBSET Slots
    BY <1>3, <2>1 DEF LockSlot
  <2>3. leaked' \in BOOLEAN
    BY <1>3 DEF LockSlot
  <2> QED
    BY <1>3, <2>1, <2>2, <2>3 DEF LockSlot, Timestamps
<1>4. CASE AllocateRetry
  <2>1. ptry' \in 0 .. MaxAllocateRetries /\ ppc' \in PubStates
    BY <1>4 DEF AllocateRetry
  <2> QED
    BY <1>4, <2>1 DEF AllocateRetry, Timestamps
<1>5. CASE PublisherCrash
  BY <1>5 DEF PublisherCrash, Timestamps
<1>6. CASE PrepareOffer
  <2>1. slots' \in [Slots -> SlotStatus]
    BY <1>6 DEF PrepareOffer, RemoveAllocationsForWriting
  <2>2. currentTs' \in Timestamps \ {0}
    BY <1>6, <2>1, LatestTimestamp DEF PrepareOffer
  <2> QED
    BY <1>6, <2>1, <2>2 DEF PrepareOffer
<1>7. ASSUME NEW s \in Slots, EventReady(s) PROVE TypeOK'
  <2>1. currentTs + 1 \in Timestamps \ {0}
    BY <1>7 DEF EventReady, Timestamps
  <2>2. [ts |-> currentTs + 1, refs |-> 0] \in SlotStatus
    BY <2>1 DEF SlotStatus, RefCounts
  <2> QED
    BY <1>7, <2>1, <2>2 DEF EventReady
<1>8. ASSUME NEW s \in Slots, Discard(s) PROVE TypeOK'
  BY <1>8 DEF Discard, DiscardedStatus
<1> QED
  BY <1>1, <1>2, <1>3, <1>4, <1>5, <1>6, <1>7, <1>8 DEF PublisherStep

(* The steps of a consumer, its crash and its rollback keep every variable *)
(* in its type.                                                            *)
LEMMA ConsumerTypes ==
    ASSUME TypeOK, CountInvariant, NEW c \in Consumers,
           \/ \E n \in 1 .. MaxSamples[c] : GetNewSamples(c, n)
           \/ ConsumerStep(c) \/ ConsumerCrash(c) \/ StartRollback(c)
           \/ Resubscribe(c) \/ \E s \in Slots : ReleaseSample(c, s)
    PROVE  TypeOK'
<1> USE StatusAssumption, ControlAssumption, StatusConstants
    DEF TypeOK, NoSlot, slotVars, pubVars, scanVars, collectVars, sampleVars,
        releaseVars
<1>a. \A s \in Slots : slots[s] \in SlotStatus /\ slots[s].ts \in Timestamps
  BY DEF SharedTypeOK, SlotStatus
<1>b. /\ 0 \in Timestamps /\ TimestampMax \in Timestamps
      /\ 0 \in 0 .. NumSlots /\ NumSlots \in Nat
  BY DEF Timestamps
<1>c. [ts |-> lastTs[c], refs |-> 0] \in SlotStatus
  BY DEF CollectTypeOK, SlotStatus, RefCounts
<1>d. <<>> \in Seq(Slots)
  OBVIOUS
<1>1. ASSUME NEW n \in 1 .. MaxSamples[c], GetNewSamples(c, n) PROVE TypeOK'
  <2>1. SharedTypeOK'
    BY <1>a, <1>b, <1>c, <1>d, <1>1
       DEF GetNewSamples, StartScan, SharedTypeOK, LogStates
  <2>2. PublisherTypeOK'
    BY <1>1
       DEF GetNewSamples, StartScan, PublisherTypeOK
  <2>3. ScanTypeOK'
    BY <1>a, <1>b, <1>c, <1>d, <1>1
       DEF GetNewSamples, StartScan, ScanTypeOK, ConStates, CollectTypeOK
  <2>4. CollectTypeOK'
    BY <1>a, <1>b, <1>c, <1>d, <1>1
       DEF GetNewSamples, StartScan, CollectTypeOK, SampleTypeOK
  <2>5. SampleTypeOK'
    BY <1>a, <1>b, <1>c, <1>d, <1>1
       DEF GetNewSamples, StartScan, SampleTypeOK, ReleaseStates, CollectTypeOK
  <2> QED
    BY <2>1, <2>2, <2>3, <2>4, <2>5
<1>2. CASE ScanSlot(c)
  <2>1. cidx[c] \in Slots /\ cidx[c] + 1 \in 0 .. NumSlots
    BY <1>2 DEF ScanSlot, ScanTypeOK, Slots
  <2>2. SharedTypeOK'
    BY <1>a, <1>b, <1>c, <1>d, <1>2, <2>1
       DEF ScanSlot, SharedTypeOK, LogStates
  <2>3. PublisherTypeOK'
    BY <1>2
       DEF ScanSlot, PublisherTypeOK
  <2>4. ScanTypeOK'
    BY <1>a, <1>b, <1>c, <1>d, <1>2, <2>1
       DEF ScanSlot, ScanTypeOK, ConStates
  <2>5. CollectTypeOK'
    BY <1>a, <1>b, <1>c, <1>d, <1>2, <2>1
       DEF ScanSlot, CollectTypeOK
  <2>6. SampleTypeOK'
    BY <1>a, <1>b, <1>c, <1>d, <1>2, <2>1
       DEF ScanSlot, SampleTypeOK, ReleaseStates
  <2> QED
    BY <2>2, <2>3, <2>4, <2>5, <2>6
<1>3. CASE NothingFound(c)
  <2>1. SharedTypeOK'
    BY <1>a, <1>b, <1>c, <1>d, <1>3
       DEF NothingFound, SharedTypeOK, LogStates
  <2>2. PublisherTypeOK'
    BY <1>3
       DEF NothingFound, PublisherTypeOK
  <2>3. ScanTypeOK'
    BY <1>a, <1>b, <1>c, <1>d, <1>3
       DEF NothingFound, ScanTypeOK, ConStates
  <2>4. CollectTypeOK'
    BY <1>a, <1>b, <1>c, <1>d, <1>3
       DEF NothingFound, CollectTypeOK
  <2>5. SampleTypeOK'
    BY <1>a, <1>b, <1>c, <1>d, <1>3
       DEF NothingFound, SampleTypeOK, ReleaseStates
  <2> QED
    BY <2>1, <2>2, <2>3, <2>4, <2>5
<1>4. CASE ReferenceTransactionBegin(c)
  <2>1. SharedTypeOK'
    BY <1>a, <1>b, <1>c, <1>d, <1>4
       DEF ReferenceTransactionBegin, SharedTypeOK, LogStates
  <2>2. PublisherTypeOK'
    BY <1>4
       DEF ReferenceTransactionBegin, PublisherTypeOK
  <2>3. ScanTypeOK'
    BY <1>a, <1>b, <1>c, <1>d, <1>4
       DEF ReferenceTransactionBegin, ScanTypeOK, ConStates
  <2>4. CollectTypeOK'
    BY <1>a, <1>b, <1>c, <1>d, <1>4
       DEF ReferenceTransactionBegin, CollectTypeOK
  <2>5. SampleTypeOK'
    BY <1>a, <1>b, <1>c, <1>d, <1>4
       DEF ReferenceTransactionBegin, SampleTypeOK, ReleaseStates
  <2> QED
    BY <2>1, <2>2, <2>3, <2>4, <2>5
<1>5. CASE ReferenceSlot(c)
  <2>1. ccand[c] \in Slots
    BY <1>5 DEF ReferenceSlot, CountInvariant, CollectorLogged, ScanTypeOK
  <2>2. Increment(cstat[c]) \in SlotStatus
    BY StatusArithmetic DEF ScanTypeOK
  <2>3. SharedTypeOK'
    BY <1>a, <1>b, <1>c, <1>d, <1>5, <2>1, <2>2
       DEF ReferenceSlot, SharedTypeOK, LogStates
  <2>4. PublisherTypeOK'
    BY <1>5
       DEF ReferenceSlot, PublisherTypeOK
  <2>5. ScanTypeOK'
    BY <1>a, <1>b, <1>c, <1>d, <1>5, <2>1, <2>2
       DEF ReferenceSlot, ScanTypeOK, ConStates
  <2>6. CollectTypeOK'
    BY <1>a, <1>b, <1>c, <1>d, <1>5, <2>1, <2>2
       DEF ReferenceSlot, CollectTypeOK
  <2>7. SampleTypeOK'
    BY <1>a, <1>b, <1>c, <1>d, <1>5, <2>1, <2>2
       DEF ReferenceSlot, SampleTypeOK, ReleaseStates
  <2> QED
    BY <2>3, <2>4, <2>5, <2>6, <2>7
<1>6. CASE ReferenceTransactionAbort(c)
  <2>1. SharedTypeOK'
    BY <1>a, <1>b, <1>c, <1>d, <1>6
       DEF ReferenceTransactionAbort, StartScan, SharedTypeOK, LogStates
  <2>2. PublisherTypeOK'
    BY <1>6
       DEF ReferenceTransactionAbort, StartScan, PublisherTypeOK
  <2>3. ScanTypeOK'
    <3>1. CASE ctry[c] + 1 < MaxReferenceRetries
      <4>1. ctry[c] + 1 \in 0 .. MaxReferenceRetries
        BY <3>1 DEF ScanTypeOK
      <4>2. /\ cpc' = [cpc EXCEPT ![c] = "scan"]
            /\ StartScan(c, ctry[c] + 1)
        BY <1>6, <3>1 DEF ReferenceTransactionAbort
      <4> QED
        BY <1>b, <1>c, <4>1, <4>2 DEF StartScan, ScanTypeOK, ConStates
    <3>2. CASE ~(ctry[c] + 1 < MaxReferenceRetries)
      BY <1>6, <3>2 DEF ReferenceTransactionAbort, ScanTypeOK, ConStates
    <3> QED
      BY <3>1, <3>2
  <2>4. CollectTypeOK'
    BY <1>a, <1>b, <1>c, <1>d, <1>6
       DEF ReferenceTransactionAbort, StartScan, CollectTypeOK
  <2>5. SampleTypeOK'
    BY <1>a, <1>b, <1>c, <1>d, <1>6
       DEF ReferenceTransactionAbort, StartScan, SampleTypeOK, ReleaseStates
  <2> QED
    BY <2>1, <2>2, <2>3, <2>4, <2>5
<1>7. CASE ReferenceTransactionCommit(c)
  <2>1. ccand[c] \in Slots
    BY <1>7 DEF ReferenceTransactionCommit, CountInvariant, CollectorLogged, ScanTypeOK
  <2>2. Append(collected[c], ccand[c]) \in Seq(Slots)
    BY <2>1 DEF CollectTypeOK
  <2>3. SharedTypeOK'
    BY <1>a, <1>b, <1>c, <1>d, <1>7, <2>1, <2>2
       DEF ReferenceTransactionCommit, StartScan, SharedTypeOK, LogStates
  <2>4. PublisherTypeOK'
    BY <1>7
       DEF ReferenceTransactionCommit, StartScan, PublisherTypeOK
  <2>5. ScanTypeOK'
    <3>1. CASE Len(collected[c]) + 1 < cmax[c]
      <4>1. /\ cpc' = [cpc EXCEPT ![c] = "scan"]
            /\ StartScan(c, 0)
        BY <1>7, <3>1 DEF ReferenceTransactionCommit
      <4> QED
        BY <1>b, <1>c, <4>1 DEF StartScan, ScanTypeOK, ConStates
    <3>2. CASE ~(Len(collected[c]) + 1 < cmax[c])
      BY <1>7, <3>2 DEF ReferenceTransactionCommit, ScanTypeOK, ConStates
    <3> QED
      BY <3>1, <3>2
  <2>6. CollectTypeOK'
    BY <1>a, <1>b, <1>c, <1>d, <1>7, <2>1, <2>2
       DEF ReferenceTransactionCommit, StartScan, CollectTypeOK, ScanTypeOK
  <2>7. SampleTypeOK'
    BY <1>a, <1>b, <1>c, <1>d, <1>7, <2>1, <2>2
       DEF ReferenceTransactionCommit, StartScan, SampleTypeOK, ReleaseStates
  <2> QED
    BY <2>3, <2>4, <2>5, <2>6, <2>7
<1>8. CASE Deliver(c)
  <2> DEFINE stamps == {lastTs[c]} \union {slots[s].ts : s \in CollectedSlots(c)}
             latest == CHOOSE t \in stamps : \A u \in stamps : u <= t
  <2>1. CollectedSlots(c) \subseteq Slots
    BY DEF CollectedSlots, CollectTypeOK
  <2>2. stamps \in SUBSET (0 .. TimestampMax) /\ stamps # {}
    BY <1>a, <2>1 DEF CollectTypeOK, Timestamps
  <2>3. lastTs' = [lastTs EXCEPT ![c] = latest]
    BY <1>8 DEF Deliver
  <2> HIDE DEF stamps
  <2>4. latest \in Timestamps
    BY <2>2, MaximumExists DEF Timestamps
  <2> HIDE DEF latest
  <2>5. SharedTypeOK'
    BY <1>a, <1>b, <1>c, <1>d, <1>8, <2>1, <2>3, <2>4
       DEF Deliver, ResetScan, SharedTypeOK, LogStates
  <2>6. PublisherTypeOK'
    BY <1>8
       DEF Deliver, ResetScan, PublisherTypeOK
  <2>7. ScanTypeOK'
    BY <1>a, <1>b, <1>c, <1>d, <1>8, <2>1, <2>3, <2>4
       DEF Deliver, ResetScan, ScanTypeOK, ConStates
  <2>8. CollectTypeOK'
    BY <1>a, <1>b, <1>c, <1>d, <1>8, <2>1, <2>3, <2>4
       DEF Deliver, ResetScan, CollectTypeOK
  <2>9. SampleTypeOK'
    BY <1>a, <1>b, <1>c, <1>d, <1>8, <2>1, <2>3, <2>4
       DEF Deliver, ResetScan, SampleTypeOK, ReleaseStates, CollectTypeOK
  <2> QED
    BY <2>5, <2>6, <2>7, <2>8, <2>9
<1>9. ASSUME NEW s \in Slots, ReleaseSample(c, s) PROVE TypeOK'
  <2>1. SharedTypeOK'
    BY <1>a, <1>b, <1>c, <1>d, <1>9
       DEF ReleaseSample, SharedTypeOK, LogStates
  <2>2. PublisherTypeOK'
    BY <1>9
       DEF ReleaseSample, PublisherTypeOK
  <2>3. ScanTypeOK'
    BY <1>a, <1>b, <1>c, <1>d, <1>9
       DEF ReleaseSample, ScanTypeOK, ConStates
  <2>4. CollectTypeOK'
    BY <1>a, <1>b, <1>c, <1>d, <1>9
       DEF ReleaseSample, CollectTypeOK
  <2>5. SampleTypeOK'
    BY <1>a, <1>b, <1>c, <1>d, <1>9
       DEF ReleaseSample, SampleTypeOK, ReleaseStates
  <2> QED
    BY <2>1, <2>2, <2>3, <2>4, <2>5
<1>10. CASE DereferenceSlot(c)
  <2>1. rslot[c] \in Slots
    BY <1>10 DEF DereferenceSlot, CountInvariant, ReleaseLogged, SampleTypeOK
  <2>2. Decrement(slots[rslot[c]]) \in SlotStatus
    BY <1>a, <2>1, StatusArithmetic
  <2>3. SharedTypeOK'
    BY <1>a, <1>b, <1>c, <1>d, <1>10, <2>1, <2>2
       DEF DereferenceSlot, SharedTypeOK, LogStates
  <2>4. PublisherTypeOK'
    BY <1>10
       DEF DereferenceSlot, PublisherTypeOK
  <2>5. ScanTypeOK'
    BY <1>a, <1>b, <1>c, <1>d, <1>10, <2>1, <2>2
       DEF DereferenceSlot, ScanTypeOK, ConStates
  <2>6. CollectTypeOK'
    BY <1>a, <1>b, <1>c, <1>d, <1>10, <2>1, <2>2
       DEF DereferenceSlot, CollectTypeOK
  <2>7. SampleTypeOK'
    BY <1>a, <1>b, <1>c, <1>d, <1>10, <2>1, <2>2
       DEF DereferenceSlot, SampleTypeOK, ReleaseStates
  <2> QED
    BY <2>3, <2>4, <2>5, <2>6, <2>7
<1>11. CASE DereferenceTransactionCommit(c)
  <2>1. SharedTypeOK'
    BY <1>a, <1>b, <1>c, <1>d, <1>11
       DEF DereferenceTransactionCommit, SharedTypeOK, LogStates
  <2>2. PublisherTypeOK'
    BY <1>11
       DEF DereferenceTransactionCommit, PublisherTypeOK
  <2>3. ScanTypeOK'
    BY <1>a, <1>b, <1>c, <1>d, <1>11
       DEF DereferenceTransactionCommit, ScanTypeOK, ConStates
  <2>4. CollectTypeOK'
    BY <1>a, <1>b, <1>c, <1>d, <1>11
       DEF DereferenceTransactionCommit, CollectTypeOK
  <2>5. SampleTypeOK'
    BY <1>a, <1>b, <1>c, <1>d, <1>11
       DEF DereferenceTransactionCommit, SampleTypeOK, ReleaseStates
  <2> QED
    BY <2>1, <2>2, <2>3, <2>4, <2>5
<1>12. ASSUME NEW state \in ConStates, LoseProcess(c, state),
              crashes' \in 0 .. MaxCrashes
       PROVE  TypeOK'
  <2>1. SharedTypeOK'
    BY <1>a, <1>b, <1>c, <1>d, <1>12
       DEF LoseProcess, ResetScan, SharedTypeOK, LogStates
  <2>2. PublisherTypeOK'
    BY <1>12
       DEF LoseProcess, ResetScan, PublisherTypeOK
  <2>3. ScanTypeOK'
    BY <1>a, <1>b, <1>c, <1>d, <1>12
       DEF LoseProcess, ResetScan, ScanTypeOK, ConStates
  <2>4. CollectTypeOK'
    BY <1>a, <1>b, <1>c, <1>d, <1>12
       DEF LoseProcess, ResetScan, CollectTypeOK
  <2>5. SampleTypeOK'
    BY <1>a, <1>b, <1>c, <1>d, <1>12
       DEF LoseProcess, ResetScan, SampleTypeOK, ReleaseStates
  <2> QED
    BY <2>1, <2>2, <2>3, <2>4, <2>5
<1>13. CASE ConsumerCrash(c)
  BY <1>12, <1>13 DEF ConsumerCrash, ConStates, SharedTypeOK
<1>14. CASE FinishRollback(c)
  BY <1>12, <1>14 DEF FinishRollback, ConStates, SharedTypeOK
<1>15. CASE StartRollback(c)
  <2>1. SharedTypeOK'
    BY <1>a, <1>b, <1>c, <1>d, <1>15
       DEF StartRollback, SharedTypeOK, LogStates
  <2>2. PublisherTypeOK'
    BY <1>15
       DEF StartRollback, PublisherTypeOK
  <2>3. ScanTypeOK'
    BY <1>a, <1>b, <1>c, <1>d, <1>15
       DEF StartRollback, ScanTypeOK, ConStates
  <2>4. CollectTypeOK'
    BY <1>a, <1>b, <1>c, <1>d, <1>15
       DEF StartRollback, CollectTypeOK
  <2>5. SampleTypeOK'
    BY <1>a, <1>b, <1>c, <1>d, <1>15
       DEF StartRollback, SampleTypeOK, ReleaseStates
  <2> QED
    BY <2>1, <2>2, <2>3, <2>4, <2>5
<1>16. CASE RollbackSlot(c)
  <2>1. cidx[c] \in Slots /\ cidx[c] + 1 \in 0 .. NumSlots
    BY <1>16 DEF RollbackSlot, RollbackEnd, ScanTypeOK, Slots
  <2>2. SharedTypeOK'
    <3>1. log' = log \/ log' = [log EXCEPT ![c][cidx[c]] = "decrementing"]
      BY <1>16 DEF RollbackSlot
    <3>2. log' \in [Consumers -> [Slots -> LogStates]]
      BY <2>1, <3>1 DEF SharedTypeOK, LogStates
    <3> QED
      BY <1>16, <3>2 DEF RollbackSlot, SharedTypeOK
  <2>3. PublisherTypeOK'
    BY <1>16
       DEF RollbackSlot, PublisherTypeOK
  <2>4. ScanTypeOK'
    BY <1>a, <1>b, <1>c, <1>d, <1>16, <2>1
       DEF RollbackSlot, ScanTypeOK, ConStates
  <2>5. CollectTypeOK'
    BY <1>a, <1>b, <1>c, <1>d, <1>16, <2>1
       DEF RollbackSlot, CollectTypeOK
  <2>6. SampleTypeOK'
    BY <1>a, <1>b, <1>c, <1>d, <1>16, <2>1
       DEF RollbackSlot, SampleTypeOK, ReleaseStates
  <2> QED
    BY <2>2, <2>3, <2>4, <2>5, <2>6
<1>17. CASE Resubscribe(c)
  <2>1. SharedTypeOK'
    BY <1>a, <1>b, <1>c, <1>d, <1>17
       DEF Resubscribe, SharedTypeOK, LogStates
  <2>2. PublisherTypeOK'
    BY <1>17
       DEF Resubscribe, PublisherTypeOK
  <2>3. ScanTypeOK'
    BY <1>a, <1>b, <1>c, <1>d, <1>17
       DEF Resubscribe, ScanTypeOK, ConStates
  <2>4. CollectTypeOK'
    BY <1>a, <1>b, <1>c, <1>d, <1>17
       DEF Resubscribe, CollectTypeOK
  <2>5. SampleTypeOK'
    BY <1>a, <1>b, <1>c, <1>d, <1>17
       DEF Resubscribe, SampleTypeOK, ReleaseStates
  <2> QED
    BY <2>1, <2>2, <2>3, <2>4, <2>5
<1> QED
  BY <1>1, <1>2, <1>3, <1>4, <1>5, <1>6, <1>7, <1>8, <1>9, <1>10, <1>11, <1>13,
     <1>14, <1>15, <1>16, <1>17 DEF ConsumerStep

-----------------------------------------------------------------------------
(* The counts.  A consumer's steps leave the publisher's variables alone   *)
(* and the other way round, so each group of actions can disturb only some *)
(* of the parts of CountInvariant.                                         *)
LEMMA CountInit == Init => CountInvariant
<1> SUFFICES ASSUME Init PROVE CountInvariant
  OBVIOUS
<1>1. \A s \in Slots : Counters(s) = {}
  BY DEF Init, Counters
<1>2. CountsExact
  BY <1>1, FS_EmptySet, StatusConstants
     DEF Init, CountsExact, IsInWriting, INVALID
<1>3. \A c \in Consumers : CollectedSlots(c) = {}
  BY DEF Init, CollectedSlots
<1>4. /\ LogRecordsCounted /\ CollectorLogged /\ ReleaseLogged
      /\ WriterOwnsSlots /\ RollbackProgress
  BY DEF Init, LogRecordsCounted, CollectorLogged, ReleaseLogged,
         WriterOwnsSlots, RollbackProgress
<1>5. SamplesLogged
  BY <1>3 DEF Init, SamplesLogged
<1> QED
  BY <1>2, <1>4, <1>5 DEF CountInvariant

(* A slot whose status is not in writing and has no reference is counted   *)
(* by nobody: what the publisher may take.                                 *)
LEMMA UnusedUncounted ==
    ASSUME TypeOK, CountsExact, NEW s \in Slots, ~IsUsed(slots[s])
    PROVE  Counters(s) = {}
<1>1. Counters(s) \in SUBSET Consumers
  BY DEF Counters
<1>2. slots[s].refs = 0 /\ Cardinality(Counters(s)) = 0
  BY DEF IsUsed, CountsExact
<1> QED
  BY <1>1, <1>2, ConsumerCount

(* The publisher writes to slots nobody counts in, so the counts stay      *)
(* exact.                                                                  *)
LEMMA PublisherCounts ==
    ASSUME TypeOK, CountInvariant,
           \/ Allocate \/ PublisherStep \/ PublisherCrash \/ PrepareOffer
           \/ \E s \in Slots : EventReady(s) \/ Discard(s)
    PROVE  CountInvariant'
<1> USE DEF slotVars, conVars, scanVars, collectVars, sampleVars, releaseVars
<1>a. UNCHANGED <<log, counted, conVars>>
  BY DEF Allocate, PublisherStep, FindOldestUnusedSlot, LockSlot, AllocateRetry,
         PublisherCrash, PrepareOffer, EventReady, Discard
<1>b. /\ LogRecordsCounted' /\ CollectorLogged' /\ ReleaseLogged'
      /\ SamplesLogged' /\ RollbackProgress'
  <2>1. \A c \in Consumers : CollectedSlots(c)' = CollectedSlots(c)
    BY <1>a DEF CollectedSlots
  <2>2. SamplesLogged'
    BY <1>a, <2>1 DEF CountInvariant, SamplesLogged, Running
  <2>3. LogRecordsCounted' /\ CollectorLogged' /\ ReleaseLogged'
    BY <1>a DEF CountInvariant, LogRecordsCounted, CollectorLogged, ReleaseLogged
  <2>4. RollbackProgress'
    BY <1>a DEF CountInvariant, RollbackProgress
  <2> QED
    BY <2>2, <2>3, <2>4
<1>c. \A s \in Slots : Counters(s)' = Counters(s)
  BY <1>a DEF Counters
<1>d. \A s \in Slots : Counters(s) = {} => Cardinality(Counters(s)) = 0
  BY FS_EmptySet
<1>e. /\ slots \in [Slots -> SlotStatus] /\ psel \in Slots \union {NoSlot}
      /\ allocated \in SUBSET Slots
  BY DEF TypeOK, SharedTypeOK, PublisherTypeOK
<1> USE DEF CountInvariant, CountsExact, WriterOwnsSlots
<1>1. ASSUME UNCHANGED <<slots, ppc, allocated>>,
             ppc = "find" \/ psel' = psel
      PROVE  CountsExact' /\ WriterOwnsSlots'
  BY <1>c, <1>1
<1>2. CASE Allocate
  <2>1. CountsExact'
    BY <1>c, <1>2 DEF Allocate
  <2>2. WriterOwnsSlots'
    BY <1>2 DEF Allocate
  <2> QED
    BY <1>b, <2>1, <2>2
<1>3. CASE FindOldestUnusedSlot
  BY <1>1, <1>3, <1>b DEF FindOldestUnusedSlot
<1>4. CASE LockSlot
  <2>1. psel \in Slots /\ Counters(psel) = {}
    BY <1>4, <1>e, UnusedUncounted DEF LockSlot
  <2>2. slots' = [slots EXCEPT ![psel] = IN_WRITING]
    BY <1>4 DEF LockSlot
  <2>3. CountsExact'
    BY <1>c, <1>e, <2>1, <2>2 DEF IsInWriting
  <2>4. WriterOwnsSlots'
    BY <1>4, <1>e, <2>1, <2>2 DEF LockSlot, IsInWriting
  <2> QED
    BY <1>b, <2>3, <2>4
<1>5. CASE AllocateRetry
  <2>1. CountsExact'
    BY <1>c, <1>5 DEF AllocateRetry
  <2>2. WriterOwnsSlots'
    BY <1>5 DEF AllocateRetry
  <2> QED
    BY <1>b, <2>1, <2>2
<1>6. CASE PublisherCrash
  <2>1. CountsExact'
    BY <1>c, <1>6 DEF PublisherCrash
  <2>2. WriterOwnsSlots'
    BY <1>6 DEF PublisherCrash
  <2> QED
    BY <1>b, <2>1, <2>2
<1>7. ASSUME NEW s \in Slots, EventReady(s) PROVE CountsExact' /\ WriterOwnsSlots'
  <2>1. IsInWriting(slots[s]) /\ Counters(s) = {}
    BY <1>7 DEF EventReady
  <2>2. slots' = [slots EXCEPT ![s] = [ts |-> currentTs + 1, refs |-> 0]]
    BY <1>7 DEF EventReady
  <2>3. ~IsInWriting([ts |-> currentTs + 1, refs |-> 0])
    BY StatusAssumption DEF IsInWriting, IN_WRITING
  <2>4. CountsExact'
    BY <1>c, <1>d, <1>e, <2>1, <2>2, <2>3
  <2>5. WriterOwnsSlots'
    BY <1>7, <1>e, <2>2 DEF EventReady
  <2> QED
    BY <1>b, <2>4, <2>5
<1>8. ASSUME NEW s \in Slots, Discard(s) PROVE CountsExact' /\ WriterOwnsSlots'
  <2>1. slots' = [slots EXCEPT ![s] = DiscardedStatus(@)]
    BY <1>8 DEF Discard
  <2>2. CountsExact'
    BY <1>c, <1>d, <1>e, <2>1, StatusConstants
       DEF DiscardedStatus, IsInWriting, INVALID
  <2>3. WriterOwnsSlots'
    BY <1>8, <1>e, <2>1 DEF Discard
  <2> QED
    BY <1>b, <2>2, <2>3
<1>9. CASE PrepareOffer
  <2>1. slots' = RemoveAllocationsForWriting
    BY <1>9 DEF PrepareOffer
  <2>2. CountsExact'
    BY <1>c, <1>d, <1>e, <2>1, StatusConstants
       DEF RemoveAllocationsForWriting, IsInWriting, INVALID
  <2>3. WriterOwnsSlots'
    BY <1>9 DEF PrepareOffer
  <2> QED
    BY <1>b, <2>2, <2>3
<1> QED
  BY <1>b, <1>2, <1>3, <1>4, <1>5, <1>6, <1>7, <1>8, <1>9 DEF PublisherStep

(* The steps of a consumer that leave the slots alone.                     *)
LEMMA QuietSteps ==
    ASSUME CountInvariant, UNCHANGED <<slots, counted, pubVars>>
    PROVE  CountsExact' /\ WriterOwnsSlots'
<1>1. \A s \in Slots : Counters(s)' = Counters(s)
  BY DEF Counters
<1> QED
  BY <1>1 DEF CountInvariant, CountsExact, WriterOwnsSlots, pubVars

(* GetNewSamples up to the exchange, and after it.                         *)
LEMMA CollectCounts ==
    ASSUME TypeOK, CountInvariant, NEW c \in Consumers,
           \/ \E n \in 1 .. MaxSamples[c] : GetNewSamples(c, n)
           \/ ScanSlot(c) \/ NothingFound(c) \/ ReferenceTransactionBegin(c)
           \/ ReferenceTransactionAbort(c) \/ ReferenceTransactionCommit(c)
           \/ Deliver(c)
    PROVE  CountInvariant'
<1> USE DEF TypeOK, CountInvariant, NoSlot, slotVars, pubVars, scanVars,
            collectVars, sampleVars, releaseVars
<1>a. /\ log \in [Consumers -> [Slots -> LogStates]]
      /\ counted \in [Consumers -> SUBSET Slots]
      /\ held \in [Consumers -> SUBSET Slots]
      /\ collected \in [Consumers -> Seq(Slots)]
      /\ cpc \in [Consumers -> ConStates]
      /\ ccand \in [Consumers -> Slots \union {NumSlots}]
      /\ cstat \in [Consumers -> SlotStatus]
      /\ cidx \in [Consumers -> 0 .. NumSlots]
      /\ rpc \in [Consumers -> ReleaseStates]
  BY DEF SharedTypeOK, ScanTypeOK, CollectTypeOK, SampleTypeOK
<1>b. \A d \in Consumers : CollectedSlots(d) \subseteq Slots
  BY <1>a DEF CollectedSlots
<1>1. ASSUME NEW n \in 1 .. MaxSamples[c], GetNewSamples(c, n) PROVE CountInvariant'
  <2>1. CountsExact' /\ WriterOwnsSlots'
    BY <1>1, QuietSteps DEF GetNewSamples, StartScan
  <2>2. LogRecordsCounted'
    BY <1>a, <1>1 DEF LogRecordsCounted, CollectorLogged, GetNewSamples, StartScan
  <2>3. CollectorLogged'
    BY <1>a, <1>1 DEF CollectorLogged, LogRecordsCounted, GetNewSamples, StartScan
  <2>4. ReleaseLogged'
    BY <1>a, <1>1 DEF ReleaseLogged, CollectorLogged, GetNewSamples, StartScan
  <2>5. SamplesLogged'
    <3>1. \A d \in Consumers :
             CollectedSlots(d)' = IF d = c THEN {} ELSE CollectedSlots(d)
      BY <1>a, <1>1 DEF CollectedSlots, GetNewSamples
    <3> QED
      BY <1>a, <1>b, <1>1, <3>1 DEF SamplesLogged, Running, GetNewSamples
  <2>6. RollbackProgress'
    BY <1>a, <1>1 DEF RollbackProgress, GetNewSamples, StartScan
  <2> QED
    BY <2>1, <2>2, <2>3, <2>4, <2>5, <2>6
<1>2. CASE ScanSlot(c)
  <2>1. CountsExact' /\ WriterOwnsSlots'
    BY <1>2, QuietSteps DEF ScanSlot
  <2>2. LogRecordsCounted'
    BY <1>a, <1>2 DEF LogRecordsCounted, CollectorLogged, ScanSlot
  <2>3. CollectorLogged'
    <3>1. slots[cidx[c]] \in SlotStatus /\ slots[cidx[c]].ts \in Nat /\ cstat[c].ts \in Nat
      BY <1>2, <1>a, ControlAssumption, StatusAssumption
         DEF ScanSlot, SharedTypeOK, Slots, SlotStatus, Timestamps
    <3>2. ASSUME ccand'[c] # NoSlot PROVE cstat'[c].ts > 0
      BY <1>2, <1>a, <3>1, <3>2 DEF ScanSlot, IsTimeStampBetween, CollectorLogged
    <3> QED
      BY <1>2, <1>a, <3>2 DEF CollectorLogged, ScanSlot
  <2>4. ReleaseLogged'
    BY <1>a, <1>2 DEF ReleaseLogged, CollectorLogged, ScanSlot
  <2>5. SamplesLogged'
    <3>1. \A d \in Consumers : CollectedSlots(d)' = CollectedSlots(d)
      BY <1>2 DEF CollectedSlots, ScanSlot
    <3> QED
      BY <1>a, <1>b, <1>2, <3>1 DEF SamplesLogged, CollectorLogged, Running, ScanSlot
  <2>6. RollbackProgress'
    BY <1>a, <1>2 DEF RollbackProgress, ScanSlot
  <2> QED
    BY <2>1, <2>2, <2>3, <2>4, <2>5, <2>6
<1>3. CASE NothingFound(c)
  <2>1. CountsExact' /\ WriterOwnsSlots'
    BY <1>3, QuietSteps DEF NothingFound
  <2>2. LogRecordsCounted'
    BY <1>a, <1>3 DEF LogRecordsCounted, CollectorLogged, NothingFound
  <2>3. CollectorLogged'
    BY <1>a, <1>3 DEF CollectorLogged, LogRecordsCounted, NothingFound
  <2>4. ReleaseLogged'
    BY <1>a, <1>3 DEF ReleaseLogged, CollectorLogged, NothingFound
  <2>5. SamplesLogged'
    <3>1. \A d \in Consumers : CollectedSlots(d)' = CollectedSlots(d)
      BY <1>3 DEF CollectedSlots, NothingFound
    <3> QED
      BY <1>a, <1>b, <1>3, <3>1 DEF SamplesLogged, CollectorLogged, Running, NothingFound
  <2>6. RollbackProgress'
    BY <1>a, <1>3 DEF RollbackProgress, NothingFound
  <2> QED
    BY <2>1, <2>2, <2>3, <2>4, <2>5, <2>6
<1>4. CASE ReferenceTransactionBegin(c)
  <2>1. CountsExact' /\ WriterOwnsSlots'
    BY <1>4, QuietSteps DEF ReferenceTransactionBegin
  <2>2. LogRecordsCounted'
    BY <1>a, <1>4 DEF LogRecordsCounted, CollectorLogged, ReferenceTransactionBegin
  <2>3. CollectorLogged'
    BY <1>a, <1>4 DEF CollectorLogged, LogRecordsCounted, ReferenceTransactionBegin
  <2>4. ReleaseLogged'
    BY <1>a, <1>4 DEF ReleaseLogged, CollectorLogged, ReferenceTransactionBegin
  <2>5. SamplesLogged'
    <3>1. \A d \in Consumers : CollectedSlots(d)' = CollectedSlots(d)
      BY <1>4 DEF CollectedSlots, ReferenceTransactionBegin
    <3> QED
      BY <1>a, <1>b, <1>4, <3>1 DEF SamplesLogged, CollectorLogged, Running, ReferenceTransactionBegin
  <2>6. RollbackProgress'
    BY <1>a, <1>4 DEF RollbackProgress, ReferenceTransactionBegin
  <2> QED
    BY <2>1, <2>2, <2>3, <2>4, <2>5, <2>6
<1>5. CASE ReferenceTransactionAbort(c)
  <2>1. CountsExact' /\ WriterOwnsSlots'
    BY <1>5, QuietSteps DEF ReferenceTransactionAbort, StartScan
  <2>2. LogRecordsCounted'
    BY <1>a, <1>5 DEF LogRecordsCounted, CollectorLogged, ReferenceTransactionAbort, StartScan
  <2>3. CollectorLogged'
    BY <1>a, <1>5 DEF CollectorLogged, LogRecordsCounted, ReferenceTransactionAbort, StartScan
  <2>4. ReleaseLogged'
    BY <1>a, <1>5 DEF ReleaseLogged, CollectorLogged, ReferenceTransactionAbort, StartScan
  <2>5. SamplesLogged'
    <3>1. \A d \in Consumers : CollectedSlots(d)' = CollectedSlots(d)
      BY <1>5 DEF CollectedSlots, ReferenceTransactionAbort
    <3> QED
      BY <1>a, <1>b, <1>5, <3>1 DEF SamplesLogged, CollectorLogged, Running, ReferenceTransactionAbort
  <2>6. RollbackProgress'
    BY <1>a, <1>5 DEF RollbackProgress, ReferenceTransactionAbort, StartScan
  <2> QED
    BY <2>1, <2>2, <2>3, <2>4, <2>5, <2>6
<1>6. CASE ReferenceTransactionCommit(c)
  <2>1. CountsExact' /\ WriterOwnsSlots'
    BY <1>6, QuietSteps DEF ReferenceTransactionCommit, StartScan
  <2>2. LogRecordsCounted'
    BY <1>a, <1>6 DEF LogRecordsCounted, CollectorLogged, ReferenceTransactionCommit, StartScan
  <2>3. CollectorLogged'
    BY <1>a, <1>6 DEF CollectorLogged, LogRecordsCounted, ReferenceTransactionCommit, StartScan
  <2>4. ReleaseLogged'
    BY <1>a, <1>6 DEF ReleaseLogged, CollectorLogged, ReferenceTransactionCommit, StartScan
  <2>5. SamplesLogged'
    <3>1. ccand[c] \in Slots
      BY <1>6, <1>a DEF ReferenceTransactionCommit, CollectorLogged
    <3>2. collected' = [collected EXCEPT ![c] = Append(@, ccand[c])]
      BY <1>6 DEF ReferenceTransactionCommit
    <3>3. CollectedSlots(c)' = CollectedSlots(c) \union {ccand[c]}
      BY <1>a, <3>1, <3>2 DEF CollectedSlots
    <3>4. \A d \in Consumers \ {c} : CollectedSlots(d)' = CollectedSlots(d)
      BY <1>a, <3>2 DEF CollectedSlots
    <3> QED
      BY <1>a, <1>b, <1>6, <3>1, <3>3, <3>4
         DEF SamplesLogged, CollectorLogged, Running, ReferenceTransactionCommit
  <2>6. RollbackProgress'
    BY <1>a, <1>6 DEF RollbackProgress, ReferenceTransactionCommit, StartScan
  <2> QED
    BY <2>1, <2>2, <2>3, <2>4, <2>5, <2>6
<1>7. CASE Deliver(c)
  <2>1. CountsExact' /\ WriterOwnsSlots'
    BY <1>7, QuietSteps DEF Deliver, ResetScan
  <2>2. LogRecordsCounted'
    BY <1>a, <1>7 DEF LogRecordsCounted, CollectorLogged, Deliver, ResetScan
  <2>3. CollectorLogged'
    BY <1>a, <1>7 DEF CollectorLogged, LogRecordsCounted, Deliver, ResetScan
  <2>4. ReleaseLogged'
    BY <1>a, <1>7 DEF ReleaseLogged, CollectorLogged, Deliver, ResetScan
  <2>5. SamplesLogged'
    <3>1. \A d \in Consumers :
             CollectedSlots(d)' = IF d = c THEN {} ELSE CollectedSlots(d)
      BY <1>a, <1>7 DEF CollectedSlots, Deliver
    <3> QED
      BY <1>a, <1>b, <1>7, <3>1 DEF SamplesLogged, Running, Deliver
  <2>6. RollbackProgress'
    BY <1>a, <1>7 DEF RollbackProgress, Deliver, ResetScan
  <2> QED
    BY <2>1, <2>2, <2>3, <2>4, <2>5, <2>6
<1> QED
  BY <1>1, <1>2, <1>3, <1>4, <1>5, <1>6, <1>7

(* The release of a sample around its subtraction, a crash, and the        *)
(* rollback that follows it.                                               *)
LEMMA ReleaseCounts ==
    ASSUME TypeOK, CountInvariant, NEW c \in Consumers,
           \/ \E s \in Slots : ReleaseSample(c, s)
           \/ DereferenceTransactionCommit(c) \/ ConsumerCrash(c)
           \/ StartRollback(c) \/ RollbackSlot(c) \/ FinishRollback(c)
           \/ Resubscribe(c)
    PROVE  CountInvariant'
<1> USE DEF TypeOK, CountInvariant, NoSlot, slotVars, pubVars, scanVars,
            collectVars, sampleVars, releaseVars
<1>a. /\ log \in [Consumers -> [Slots -> LogStates]]
      /\ counted \in [Consumers -> SUBSET Slots]
      /\ held \in [Consumers -> SUBSET Slots]
      /\ collected \in [Consumers -> Seq(Slots)]
      /\ cpc \in [Consumers -> ConStates]
      /\ ccand \in [Consumers -> Slots \union {NumSlots}]
      /\ cidx \in [Consumers -> 0 .. NumSlots]
      /\ rpc \in [Consumers -> ReleaseStates]
      /\ rslot \in [Consumers -> Slots \union {NumSlots}]
  BY DEF SharedTypeOK, ScanTypeOK, CollectTypeOK, SampleTypeOK
<1>b. \A d \in Consumers : CollectedSlots(d) \subseteq Slots
  BY <1>a DEF CollectedSlots
<1>c. NumSlots \notin Slots
  BY ControlAssumption DEF Slots
<1>1. ASSUME NEW s \in Slots, ReleaseSample(c, s) PROVE CountInvariant'
  <2>1. CountsExact' /\ WriterOwnsSlots'
    BY <1>1, QuietSteps DEF ReleaseSample
  <2>2. LogRecordsCounted'
    BY <1>a, <1>1 DEF LogRecordsCounted, ReleaseLogged, ReleaseSample
  <2>3. CollectorLogged'
    BY <1>a, <1>1 DEF CollectorLogged, ReleaseLogged, SamplesLogged, ReleaseSample
  <2>4. ReleaseLogged'
    <3>1. log[c][s] = "referenced" /\ s \in counted[c]
      BY <1>1 DEF ReleaseSample, SamplesLogged, LogRecordsCounted
    <3> QED
      BY <1>a, <1>c, <1>1, <3>1 DEF ReleaseLogged, ReleaseSample
  <2>5. SamplesLogged'
    <3>1. \A d \in Consumers : CollectedSlots(d)' = CollectedSlots(d)
      BY <1>1 DEF CollectedSlots, ReleaseSample
    <3> QED
      BY <1>a, <1>b, <1>1, <3>1 DEF SamplesLogged, ReleaseLogged, Running, ReleaseSample
  <2>6. RollbackProgress'
    BY <1>a, <1>1, ControlAssumption DEF RollbackProgress, Running, Slots, ReleaseSample
  <2> QED
    BY <2>1, <2>2, <2>3, <2>4, <2>5, <2>6
<1>2. CASE DereferenceTransactionCommit(c)
  <2>1. CountsExact' /\ WriterOwnsSlots'
    BY <1>2, QuietSteps DEF DereferenceTransactionCommit
  <2>2. LogRecordsCounted'
    BY <1>a, <1>2 DEF LogRecordsCounted, ReleaseLogged, DereferenceTransactionCommit
  <2>3. CollectorLogged'
    BY <1>a, <1>2 DEF CollectorLogged, ReleaseLogged, SamplesLogged, DereferenceTransactionCommit
  <2>4. ReleaseLogged'
    BY <1>a, <1>2 DEF ReleaseLogged, LogRecordsCounted, SamplesLogged, DereferenceTransactionCommit
  <2>5. SamplesLogged'
    <3>1. \A d \in Consumers : CollectedSlots(d)' = CollectedSlots(d)
      BY <1>2 DEF CollectedSlots, DereferenceTransactionCommit
    <3> QED
      BY <1>a, <1>b, <1>2, <3>1 DEF SamplesLogged, ReleaseLogged, Running, DereferenceTransactionCommit
  <2>6. RollbackProgress'
    BY <1>a, <1>2, ControlAssumption DEF RollbackProgress, Running, Slots, DereferenceTransactionCommit
  <2> QED
    BY <2>1, <2>2, <2>3, <2>4, <2>5, <2>6
<1>3. ASSUME NEW state \in {"crashed", "idle"}, LoseProcess(c, state) PROVE CountInvariant'
  <2>1. CountsExact' /\ WriterOwnsSlots'
    BY <1>3, QuietSteps DEF LoseProcess, ResetScan
  <2>2. LogRecordsCounted'
    BY <1>a, <1>3 DEF LogRecordsCounted, ReleaseLogged, LoseProcess, ResetScan
  <2>3. CollectorLogged'
    BY <1>a, <1>3 DEF CollectorLogged, ReleaseLogged, SamplesLogged, LoseProcess, ResetScan
  <2>4. ReleaseLogged'
    BY <1>a, <1>3 DEF ReleaseLogged, LogRecordsCounted, SamplesLogged, LoseProcess, ResetScan
  <2>5. SamplesLogged'
    <3>1. \A d \in Consumers :
             CollectedSlots(d)' = IF d = c THEN {} ELSE CollectedSlots(d)
      BY <1>a, <1>3 DEF CollectedSlots, LoseProcess, ResetScan
    <3> QED
      BY <1>a, <1>b, <1>3, <3>1 DEF SamplesLogged, Running, LoseProcess, ResetScan
  <2>6. RollbackProgress'
    BY <1>a, <1>3, ControlAssumption DEF RollbackProgress, Running, Slots, LoseProcess, ResetScan
  <2> QED
    BY <2>1, <2>2, <2>3, <2>4, <2>5, <2>6
<1>4. CASE StartRollback(c)
  <2>1. CountsExact' /\ WriterOwnsSlots'
    BY <1>4, QuietSteps DEF StartRollback
  <2>2. LogRecordsCounted'
    BY <1>a, <1>4 DEF LogRecordsCounted, ReleaseLogged, StartRollback
  <2>3. CollectorLogged'
    BY <1>a, <1>4 DEF CollectorLogged, ReleaseLogged, SamplesLogged, StartRollback
  <2>4. ReleaseLogged'
    BY <1>a, <1>4 DEF ReleaseLogged, LogRecordsCounted, SamplesLogged, StartRollback
  <2>5. SamplesLogged'
    <3>1. \A d \in Consumers : CollectedSlots(d)' = CollectedSlots(d)
      BY <1>4 DEF CollectedSlots, StartRollback
    <3> QED
      BY <1>a, <1>b, <1>4, <3>1 DEF SamplesLogged, ReleaseLogged, Running, StartRollback
  <2>6. RollbackProgress'
    BY <1>a, <1>4, ControlAssumption DEF RollbackProgress, Running, Slots, StartRollback
  <2> QED
    BY <2>1, <2>2, <2>3, <2>4, <2>5, <2>6
<1>5. CASE RollbackSlot(c)
  <2>a. /\ cidx[c] \in Slots /\ UNCHANGED counted
        /\ log' = IF log[c][cidx[c]] = "referenced"
                  THEN [log EXCEPT ![c][cidx[c]] = "decrementing"] ELSE log
    BY <1>a, <1>5, ControlAssumption DEF RollbackSlot, RollbackEnd, Slots
  <2>1. CountsExact' /\ WriterOwnsSlots'
    BY <1>5, QuietSteps DEF RollbackSlot
  <2>2. LogRecordsCounted'
    BY <1>a, <1>5, <2>a DEF LogRecordsCounted
  <2>3. CollectorLogged'
    BY <1>a, <1>5 DEF CollectorLogged, ReleaseLogged, SamplesLogged, RollbackSlot
  <2>4. ReleaseLogged'
    <3>1. CASE log[c][cidx[c]] = "referenced"
      BY <1>a, <1>c, <1>5, <2>a, <3>1 DEF ReleaseLogged, LogRecordsCounted, RollbackSlot
    <3>2. CASE log[c][cidx[c]] # "referenced"
      BY <1>a, <1>5, <2>a, <3>2 DEF ReleaseLogged, RollbackSlot
    <3> QED
      BY <3>1, <3>2
  <2>5. SamplesLogged'
    <3>1. \A d \in Consumers : CollectedSlots(d)' = CollectedSlots(d)
      BY <1>5 DEF CollectedSlots, RollbackSlot
    <3>2. /\ ~Running(c) /\ cpc'[c] \in {"rollback", "failed"}
          /\ \A d \in Consumers \ {c} : cpc'[d] = cpc[d] /\ log'[d] = log[d]
          /\ held' = held
      BY <1>a, <1>5, <2>a DEF RollbackSlot, Running
    <3>3. held'[c] = {} /\ CollectedSlots(c)' = {}
      BY <3>1, <3>2 DEF SamplesLogged
    <3>4. \A d \in Consumers \ {c} : Running(d)' <=> Running(d)
      BY <3>2 DEF Running
    <3> QED
      BY <3>1, <3>2, <3>3, <3>4 DEF SamplesLogged
  <2>6. RollbackProgress'
    BY <1>a, <1>5, ControlAssumption DEF RollbackProgress, Running, Slots, RollbackSlot
  <2> QED
    BY <2>1, <2>2, <2>3, <2>4, <2>5, <2>6
<1>6. CASE Resubscribe(c)
  <2>1. CountsExact' /\ WriterOwnsSlots'
    BY <1>6, QuietSteps DEF Resubscribe
  <2>2. LogRecordsCounted'
    BY <1>a, <1>6 DEF LogRecordsCounted, ReleaseLogged, Resubscribe
  <2>3. CollectorLogged'
    BY <1>a, <1>6 DEF CollectorLogged, ReleaseLogged, SamplesLogged, Resubscribe
  <2>4. ReleaseLogged'
    BY <1>a, <1>6 DEF ReleaseLogged, LogRecordsCounted, SamplesLogged, Resubscribe
  <2>5. SamplesLogged'
    <3>1. \A d \in Consumers : CollectedSlots(d)' = CollectedSlots(d)
      BY <1>6 DEF CollectedSlots, Resubscribe
    <3> QED
      BY <1>a, <1>b, <1>6, <3>1 DEF SamplesLogged, ReleaseLogged, Running, Resubscribe
  <2>6. RollbackProgress'
    BY <1>a, <1>6, ControlAssumption DEF RollbackProgress, Running, Slots, Resubscribe
  <2> QED
    BY <2>1, <2>2, <2>3, <2>4, <2>5, <2>6
<1>7. CASE ConsumerCrash(c)
  BY <1>3, <1>7 DEF ConsumerCrash
<1>8. CASE FinishRollback(c)
  BY <1>3, <1>8 DEF FinishRollback
<1> QED
  BY <1>1, <1>2, <1>4, <1>5, <1>6, <1>7, <1>8

(* The two steps that change a count: a reference is taken with the status *)
(* the candidate was read with, and given back by the subtraction.         *)
LEMMA ReferenceCounts ==
    ASSUME TypeOK, CountInvariant, NEW c \in Consumers,
           ReferenceSlot(c) \/ DereferenceSlot(c)
    PROVE  CountInvariant'
<1> USE DEF TypeOK, CountInvariant, NoSlot, slotVars, pubVars, scanVars,
            collectVars, sampleVars, releaseVars
<1>a. /\ log \in [Consumers -> [Slots -> LogStates]]
      /\ counted \in [Consumers -> SUBSET Slots]
      /\ held \in [Consumers -> SUBSET Slots]
      /\ collected \in [Consumers -> Seq(Slots)]
      /\ cpc \in [Consumers -> ConStates]
      /\ ccand \in [Consumers -> Slots \union {NumSlots}]
      /\ cidx \in [Consumers -> 0 .. NumSlots]
      /\ rpc \in [Consumers -> ReleaseStates]
      /\ rslot \in [Consumers -> Slots \union {NumSlots}]
  BY DEF SharedTypeOK, ScanTypeOK, CollectTypeOK, SampleTypeOK
<1>b. \A d \in Consumers : CollectedSlots(d) \subseteq Slots
  BY <1>a DEF CollectedSlots
<1>c. slots \in [Slots -> SlotStatus]
  BY DEF SharedTypeOK
<1>d. \A d \in Consumers : CollectedSlots(d)' = CollectedSlots(d)
  BY DEF CollectedSlots, ReferenceSlot, DereferenceSlot
<1>1. CASE ReferenceSlot(c)
  <2> DEFINE k == ccand[c]
  <2>1. /\ k \in Slots /\ c \notin Counters(k) /\ log[c][k] = "incrementing"
        /\ slots[k].ts > 0
    BY <1>1, <1>a DEF ReferenceSlot, CollectorLogged, Counters
  <2>2. slots' = [slots EXCEPT ![k] = Increment(slots[k])]
    BY <1>1 DEF ReferenceSlot
  <2>3. \A s \in Slots : Counters(s)' = IF s = k THEN Counters(k) \union {c}
                                        ELSE Counters(s)
    BY <1>1, <1>a, <2>1 DEF ReferenceSlot, Counters
  <2>4. Counters(k) \in SUBSET Consumers
    BY DEF Counters
  <2>5. ~IsInWriting(slots[k]) /\ slots[k].refs = Cardinality(Counters(k))
    BY <2>1 DEF IsInWriting, IN_WRITING, CountsExact
  <2>6. /\ Increment(slots[k]).refs = Cardinality(Counters(k) \union {c})
        /\ Increment(slots[k]).ts = slots[k].ts
    BY <1>c, <2>1, <2>4, <2>5, ConsumerCount, CountAdd, StatusArithmetic
  <2>7. ~IsInWriting(Increment(slots[k]))
    BY <2>1, <2>6 DEF IsInWriting, IN_WRITING
  <2>8. CountsExact'
    BY <1>c, <2>1, <2>2, <2>3, <2>6, <2>7 DEF CountsExact
  <2>9. WriterOwnsSlots'
    BY <1>1, <1>c, <2>1, <2>2, <2>5 DEF WriterOwnsSlots, ReferenceSlot
  <2>10. LogRecordsCounted'
    BY <1>1, <1>a, <2>1 DEF LogRecordsCounted, ReferenceSlot
  <2>11. CollectorLogged'
    BY <1>1, <1>a, <2>1 DEF CollectorLogged, ReferenceSlot
  <2>12. ReleaseLogged'
    BY <1>1, <1>a, <2>1 DEF ReleaseLogged, ReferenceSlot
  <2>13. SamplesLogged'
    BY <1>1, <1>a, <1>d DEF SamplesLogged, ReferenceSlot, Running
  <2>14. RollbackProgress'
    BY <1>1, <1>a DEF RollbackProgress, ReferenceSlot
  <2> QED
    BY <2>8, <2>9, <2>10, <2>11, <2>12, <2>13, <2>14
<1>2. CASE DereferenceSlot(c)
  <2> DEFINE k == rslot[c]
  <2>1. k \in Slots /\ c \in Counters(k) /\ log[c][k] = "decrementing"
    BY <1>2, <1>a DEF DereferenceSlot, ReleaseLogged, Counters
  <2>2. slots' = [slots EXCEPT ![k] = Decrement(slots[k])]
    BY <1>2 DEF DereferenceSlot
  <2>3. \A s \in Slots : Counters(s)' = IF s = k THEN Counters(k) \ {c}
                                        ELSE Counters(s)
    BY <1>2, <1>a, <2>1 DEF DereferenceSlot, Counters
  <2>4. Counters(k) \in SUBSET Consumers
    BY DEF Counters
  <2>5. ~IsInWriting(slots[k]) /\ slots[k].refs = Cardinality(Counters(k))
    BY <2>1 DEF CountsExact
  <2>6. /\ Decrement(slots[k]).refs = Cardinality(Counters(k) \ {c})
        /\ Decrement(slots[k]).refs < RefCountMax
    <3>1. slots[k].refs > 0 /\ slots[k].refs < RefCountMax /\ slots[k].refs \in Nat
      BY <2>1, <2>4, <2>5, ConsumerCount
    <3>2. Decrement(slots[k]).refs = slots[k].refs - 1
      BY <1>c, <2>1, <3>1, StatusArithmetic
    <3>3. Cardinality(Counters(k) \ {c}) = Cardinality(Counters(k)) - 1
      BY <2>1, <2>4, CountRemove
    <3> QED
      BY <2>5, <3>1, <3>2, <3>3, StatusAssumption
  <2>7. ~IsInWriting(Decrement(slots[k]))
    BY <2>6, StatusAssumption DEF IsInWriting, IN_WRITING
  <2>8. CountsExact'
    BY <1>c, <2>1, <2>2, <2>3, <2>6, <2>7 DEF CountsExact
  <2>9. WriterOwnsSlots'
    BY <1>2, <1>c, <2>1, <2>2, <2>5 DEF WriterOwnsSlots, DereferenceSlot
  <2>10. LogRecordsCounted'
    BY <1>2, <1>a, <2>1 DEF LogRecordsCounted, DereferenceSlot
  <2>11. CollectorLogged'
    BY <1>2, <1>a, <2>1 DEF CollectorLogged, DereferenceSlot
  <2>12. ReleaseLogged'
    BY <1>2, <1>a, <2>1 DEF ReleaseLogged, DereferenceSlot
  <2>13. SamplesLogged'
    BY <1>2, <1>a, <1>d DEF SamplesLogged, DereferenceSlot, Running
  <2>14. RollbackProgress'
    BY <1>2, <1>a DEF RollbackProgress, DereferenceSlot
  <2> QED
    BY <2>8, <2>9, <2>10, <2>11, <2>12, <2>13, <2>14
<1> QED
  BY <1>1, <1>2

-----------------------------------------------------------------------------
(* The theorems.  TypeOK and CountInvariant are inductive together.        *)
LEMMA NextSplit ==
    ASSUME Next
    PROVE  \/ /\ \/ Allocate \/ PublisherStep \/ PublisherCrash \/ PrepareOffer
                 \/ \E s \in Slots : EventReady(s) \/ Discard(s)
           \/ \E c \in Consumers :
                 \/ \E n \in 1 .. MaxSamples[c] : GetNewSamples(c, n)
                 \/ ConsumerStep(c) \/ ConsumerCrash(c) \/ StartRollback(c)
                 \/ Resubscribe(c) \/ \E s \in Slots : ReleaseSample(c, s)
BY DEF Next

(* Counts, logs and positions agree after every step of the system.        *)
LEMMA Inductive ==
    ASSUME TypeOK, CountInvariant, [Next]_vars
    PROVE  TypeOK' /\ CountInvariant'
<1>1. CASE UNCHANGED vars
  <2> USE <1>1 DEF vars, slotVars, pubVars, conVars, scanVars, collectVars,
                   sampleVars, releaseVars
  <2>1. TypeOK'
    BY DEF TypeOK, SharedTypeOK, PublisherTypeOK, ScanTypeOK, CollectTypeOK,
           SampleTypeOK
  <2>2. CountsExact' /\ WriterOwnsSlots'
    BY QuietSteps
  <2>3. \A d \in Consumers : CollectedSlots(d)' = CollectedSlots(d)
    BY DEF CollectedSlots
  <2>4. SamplesLogged'
    BY <2>3 DEF CountInvariant, SamplesLogged, Running
  <2>5. LogRecordsCounted' /\ CollectorLogged' /\ ReleaseLogged' /\ RollbackProgress'
    BY DEF CountInvariant, LogRecordsCounted, CollectorLogged, ReleaseLogged,
           RollbackProgress
  <2> QED
    BY <2>1, <2>2, <2>4, <2>5 DEF CountInvariant
<1>2. CASE \/ Allocate \/ PublisherStep \/ PublisherCrash \/ PrepareOffer
           \/ \E s \in Slots : EventReady(s) \/ Discard(s)
  BY <1>2, PublisherTypes, PublisherCounts
<1>3. ASSUME NEW c \in Consumers,
             \/ \E n \in 1 .. MaxSamples[c] : GetNewSamples(c, n)
             \/ ConsumerStep(c) \/ ConsumerCrash(c) \/ StartRollback(c)
             \/ Resubscribe(c) \/ \E s \in Slots : ReleaseSample(c, s)
      PROVE  TypeOK' /\ CountInvariant'
  <2>1. TypeOK'
    BY <1>3, ConsumerTypes
  <2>2. CountInvariant'
    BY <1>3, CollectCounts, ReleaseCounts, ReferenceCounts DEF ConsumerStep
  <2> QED
    BY <2>1, <2>2
<1> QED
  BY <1>1, <1>2, <1>3, NextSplit

(* Every variable keeps its type: in particular the publisher's clock      *)
(* never becomes 0, the timestamp that marks a slot as invalid.            *)
THEOREM TypeCorrect == Spec => []TypeOK
<1>1. Init => TypeOK /\ CountInvariant
  BY TypeInit, CountInit
<1>2. TypeOK /\ CountInvariant /\ [Next]_vars => (TypeOK /\ CountInvariant)'
  BY Inductive
<1> QED
  BY <1>1, <1>2, PTL DEF Spec

(* What the counts, the logs and the processes know of a reference agrees  *)
(* at every step of the lock-free protocol, crashes and rollbacks          *)
(* included.                                                               *)
THEOREM CountsCorrect == Spec => [](TypeOK /\ CountInvariant)
<1>1. Init => TypeOK /\ CountInvariant
  BY TypeInit, CountInit
<1>2. TypeOK /\ CountInvariant /\ [Next]_vars => (TypeOK /\ CountInvariant)'
  BY Inductive
<1> QED
  BY <1>1, <1>2, PTL DEF Spec

(* The bound that makes the transaction log a sufficient record: no        *)
(* reference is lost and none is counted that a rollback cannot find.      *)
THEOREM ReferencesRecoverable == Spec => []RefCountWithinLog
<1>1. ASSUME TypeOK, CountInvariant PROVE RefCountWithinLog
  <2> SUFFICES ASSUME NEW s \in Slots
               PROVE  IF IsInWriting(slots[s])
                      THEN LoggedIn(s, {"referenced"}) = {}
                      ELSE /\ Cardinality(LoggedIn(s, {"referenced"})) <= slots[s].refs
                           /\ slots[s].refs <=
                                 Cardinality(LoggedIn(s, LogStates \ {"free"}))
    BY DEF RefCountWithinLog
  <2>1. LoggedIn(s, {"referenced"}) \subseteq Counters(s)
    BY <1>1 DEF LoggedIn, Counters, CountInvariant, LogRecordsCounted
  <2>2. Counters(s) \subseteq LoggedIn(s, LogStates \ {"free"})
    BY <1>1 DEF LoggedIn, Counters, CountInvariant, LogRecordsCounted, TypeOK, SharedTypeOK
  <2>3. /\ Counters(s) \in SUBSET Consumers
        /\ LoggedIn(s, LogStates \ {"free"}) \in SUBSET Consumers
    BY DEF Counters, LoggedIn
  <2>4. /\ Cardinality(LoggedIn(s, {"referenced"})) <= Cardinality(Counters(s))
        /\ Cardinality(Counters(s)) <= Cardinality(LoggedIn(s, LogStates \ {"free"}))
    BY <2>1, <2>2, <2>3, ConsumerCount, FS_Subset
  <2> QED
    BY <1>1, <2>1, <2>4 DEF CountInvariant, CountsExact
<1> QED
  BY <1>1, CountsCorrect, PTL

(* A slot somebody counts a reference of keeps its timestamp: the          *)
(* publisher takes unused slots only, stores only to slots it has locked,  *)
(* and no count is full or empty when a consumer adds to or takes from it. *)
LEMMA ReferencedSlotKept ==
    ASSUME TypeOK, CountInvariant, Next, NEW s \in Slots, Counters(s) # {}
    PROVE  slots'[s].ts = slots[s].ts
<1> USE DEF slotVars, NoSlot
<1>a. /\ slots \in [Slots -> SlotStatus] /\ Counters(s) \in SUBSET Consumers
      /\ psel \in Slots \union {NoSlot} /\ allocated \in SUBSET Slots
      /\ ccand \in [Consumers -> Slots \union {NumSlots}]
      /\ rslot \in [Consumers -> Slots \union {NumSlots}]
  BY DEF TypeOK, SharedTypeOK, PublisherTypeOK, ScanTypeOK, SampleTypeOK, Counters
<1>b. /\ ~IsInWriting(slots[s]) /\ slots[s].refs = Cardinality(Counters(s))
      /\ slots[s].refs > 0 /\ slots[s].refs < RefCountMax
  BY <1>a, ConsumerCount DEF CountInvariant, CountsExact
<1>1. ASSUME UNCHANGED slots PROVE slots'[s].ts = slots[s].ts
  BY <1>1
<1>2. CASE LockSlot
  <2>1. psel # s
    BY <1>b, <1>2 DEF LockSlot, IsUsed
  <2> QED
    BY <1>2, <1>a, <2>1 DEF LockSlot
<1>3. ASSUME NEW r \in Slots, EventReady(r) PROVE slots'[s].ts = slots[s].ts
  <2>1. r # s
    BY <1>3, <1>b DEF EventReady, CountInvariant, WriterOwnsSlots
  <2> QED
    BY <1>3, <1>a, <2>1 DEF EventReady
<1>4. ASSUME NEW r \in Slots, Discard(r) PROVE slots'[s].ts = slots[s].ts
  BY <1>4, <1>a, <1>b DEF Discard, DiscardedStatus
<1>5. CASE PrepareOffer
  BY <1>5, <1>a, <1>b DEF PrepareOffer, RemoveAllocationsForWriting
<1>6. ASSUME NEW c \in Consumers, ReferenceSlot(c) PROVE slots'[s].ts = slots[s].ts
  <2>1. slots' = [slots EXCEPT ![ccand[c]] = Increment(slots[ccand[c]])]
    BY <1>6 DEF ReferenceSlot
  <2>2. Increment(slots[s]).ts = slots[s].ts
    BY <1>a, <1>b, StatusArithmetic
  <2> QED
    BY <1>a, <2>1, <2>2
<1>7. ASSUME NEW c \in Consumers, DereferenceSlot(c) PROVE slots'[s].ts = slots[s].ts
  <2>1. slots' = [slots EXCEPT ![rslot[c]] = Decrement(slots[rslot[c]])]
    BY <1>7 DEF DereferenceSlot
  <2>2. Decrement(slots[s]).ts = slots[s].ts
    BY <1>a, <1>b, StatusArithmetic
  <2> QED
    BY <1>a, <2>1, <2>2
<1>8. CASE Allocate \/ FindOldestUnusedSlot \/ AllocateRetry \/ PublisherCrash
  BY <1>1, <1>8 DEF Allocate, FindOldestUnusedSlot, AllocateRetry, PublisherCrash
<1>9. ASSUME NEW c \in Consumers,
             \/ \E n \in 1 .. MaxSamples[c] : GetNewSamples(c, n)
             \/ ScanSlot(c) \/ NothingFound(c) \/ ReferenceTransactionBegin(c)
             \/ ReferenceTransactionAbort(c) \/ ReferenceTransactionCommit(c)
             \/ Deliver(c) \/ DereferenceTransactionCommit(c) \/ RollbackSlot(c)
             \/ FinishRollback(c) \/ ConsumerCrash(c) \/ StartRollback(c)
             \/ Resubscribe(c) \/ \E r \in Slots : ReleaseSample(c, r)
      PROVE  slots'[s].ts = slots[s].ts
  BY <1>1, <1>9
     DEF GetNewSamples, ScanSlot, NothingFound, ReferenceTransactionBegin,
         ReferenceTransactionAbort, ReferenceTransactionCommit, Deliver,
         DereferenceTransactionCommit, RollbackSlot, FinishRollback,
         ConsumerCrash, StartRollback, Resubscribe, ReleaseSample, LoseProcess
<1> QED
  BY <1>2, <1>3, <1>4, <1>5, <1>6, <1>7, <1>8, <1>9
     DEF Next, PublisherStep, ConsumerStep

(* A user's sample is never overwritten or recycled under its SamplePtr,   *)
(* whatever the publisher, the other consumers and crashes do.             *)
THEOREM SamplesStable == Spec => HeldSampleStable
<1> DEFINE Stable == \A c \in Consumers : \A s \in held[c] \intersect held'[c] :
              /\ slots'[s].ts = slots[s].ts
              /\ ~IsInWriting(slots'[s]) /\ ~IsInvalid(slots'[s])
<1>1. ASSUME TypeOK, CountInvariant, TypeOK', CountInvariant', [Next]_vars
      PROVE  [Stable]_vars
  <2> SUFFICES ASSUME Next, NEW c \in Consumers, NEW s \in held[c] \intersect held'[c]
               PROVE  /\ slots'[s].ts = slots[s].ts
                      /\ ~IsInWriting(slots'[s]) /\ ~IsInvalid(slots'[s])
    BY <1>1
  <2>1. s \in Slots
    BY <1>1 DEF TypeOK, SampleTypeOK
  <2>2. c \in Counters(s) /\ c \in Counters(s)'
    BY <1>1, <2>1 DEF CountInvariant, SamplesLogged, LogRecordsCounted, Counters
  <2>3. slots'[s].ts = slots[s].ts
    BY <1>1, <2>1, <2>2, ReferencedSlotKept
  <2>4. ~IsInWriting(slots'[s]) /\ slots'[s].refs = Cardinality(Counters(s)')
    BY <1>1, <2>1, <2>2 DEF CountInvariant, CountsExact
  <2>5. Counters(s)' \in SUBSET Consumers
    BY DEF Counters
  <2>6. slots'[s].refs > 0
    BY <2>2, <2>4, <2>5, ConsumerCount
  <2> QED
    BY <2>3, <2>4, <2>6 DEF IsInvalid, INVALID
<1> QED
  BY <1>1, CountsCorrect, PTL DEF Spec, HeldSampleStable

(* A rollback that reports success has given back every reference of the   *)
(* crashed process.                                                        *)
THEOREM RollbackComplete == Spec => RollbackLeavesNothing
<1> DEFINE Clean == \A c \in Consumers :
              cpc[c] = "rollback" /\ cpc'[c] = "idle"
                 => \A s \in Slots : log'[c][s] = "free" /\ s \notin counted'[c]
<1>1. ASSUME TypeOK, CountInvariant, [Next]_vars
      PROVE  [Clean]_vars
  <2> SUFFICES ASSUME Next, NEW c \in Consumers, NEW s \in Slots,
                      cpc[c] = "rollback", cpc'[c] = "idle"
               PROVE  log'[c][s] = "free" /\ s \notin counted'[c]
    BY <1>1
  <2>a. cpc \in [Consumers -> ConStates]
    BY <1>1 DEF TypeOK, ScanTypeOK
  <2>1. FinishRollback(c)
    <3>1. cpc' # cpc
      OBVIOUS
    <3>2. ~(\/ Allocate \/ PublisherStep \/ PublisherCrash \/ PrepareOffer
            \/ \E r \in Slots : EventReady(r) \/ Discard(r))
      BY <3>1 DEF Allocate, PublisherStep, FindOldestUnusedSlot, LockSlot,
                  AllocateRetry, PublisherCrash, PrepareOffer, EventReady, Discard,
                  conVars
    <3>3. PICK d \in Consumers :
                 \/ \E n \in 1 .. MaxSamples[d] : GetNewSamples(d, n)
                 \/ ConsumerStep(d) \/ ConsumerCrash(d) \/ StartRollback(d)
                 \/ Resubscribe(d) \/ \E r \in Slots : ReleaseSample(d, r)
      BY <3>2 DEF Next
    <3>4. d = c
      BY <3>1, <3>3, <2>a
         DEF GetNewSamples, ConsumerStep, ScanSlot, NothingFound,
             ReferenceTransactionBegin, ReferenceSlot, ReferenceTransactionAbort,
             ReferenceTransactionCommit, Deliver, DereferenceSlot,
             DereferenceTransactionCommit, RollbackSlot, FinishRollback,
             ConsumerCrash, StartRollback, Resubscribe, ReleaseSample, LoseProcess
    <3> QED
      BY <3>1, <3>3, <3>4, <2>a
         DEF GetNewSamples, ConsumerStep, ScanSlot, NothingFound,
             ReferenceTransactionBegin, ReferenceSlot, ReferenceTransactionAbort,
             ReferenceTransactionCommit, Deliver, DereferenceSlot,
             DereferenceTransactionCommit, RollbackSlot, ConsumerCrash,
             StartRollback, Resubscribe, ReleaseSample, LoseProcess
  <2>2. rpc[c] = "idle" /\ cidx[c] = NumSlots /\ UNCHANGED <<log, counted>>
    BY <2>1 DEF FinishRollback, RollbackEnd, LoseProcess, slotVars
  <2>3. log[c][s] = "free"
    BY <1>1, <2>2, ControlAssumption DEF CountInvariant, RollbackProgress, Slots
  <2> QED
    BY <1>1, <2>2, <2>3 DEF CountInvariant, LogRecordsCounted
<1> QED
  BY <1>1, CountsCorrect, PTL DEF Spec, RollbackLeavesNothing

-----------------------------------------------------------------------------
(* Only published events are referenced: a slot somebody counts has a      *)
(* timestamp, so giving back its last reference does not make it invalid.  *)
CountedArePublished ==
    \A s \in Slots : Counters(s) # {} => slots[s].ts > 0

(* No reference is counted at first.                                       *)
LEMMA CountedInit ==
    ASSUME Init
    PROVE  CountedArePublished
BY DEF Init, CountedArePublished, Counters

(* The only step that counts a reference is the exchange that takes it.    *)
LEMMA CountersMove ==
    ASSUME TypeOK, CountInvariant, Next, NEW s \in Slots
    PROVE  \/ Counters(s)' \subseteq Counters(s)
           \/ \E c \in Consumers : ReferenceSlot(c) /\ ccand[c] = s
<1> USE DEF slotVars
<1>a. counted \in [Consumers -> SUBSET Slots]
  BY DEF TypeOK, SharedTypeOK
<1>1. ASSUME UNCHANGED counted PROVE Counters(s)' \subseteq Counters(s)
  BY <1>1 DEF Counters
<1>2. ASSUME NEW c \in Consumers, ReferenceSlot(c), ccand[c] # s
      PROVE  Counters(s)' \subseteq Counters(s)
  BY <1>2, <1>a DEF ReferenceSlot, Counters
<1>3. ASSUME NEW c \in Consumers, DereferenceSlot(c)
      PROVE  Counters(s)' \subseteq Counters(s)
  BY <1>3, <1>a DEF DereferenceSlot, Counters
<1>4. CASE \/ Allocate \/ PublisherStep \/ PublisherCrash \/ PrepareOffer
           \/ \E r \in Slots : EventReady(r) \/ Discard(r)
  BY <1>1, <1>4 DEF Allocate, PublisherStep, FindOldestUnusedSlot, LockSlot,
     AllocateRetry, PublisherCrash, PrepareOffer, EventReady, Discard
<1>5. ASSUME NEW c \in Consumers,
             \/ \E n \in 1 .. MaxSamples[c] : GetNewSamples(c, n)
             \/ ScanSlot(c) \/ NothingFound(c) \/ ReferenceTransactionBegin(c)
             \/ ReferenceTransactionAbort(c) \/ ReferenceTransactionCommit(c)
             \/ Deliver(c) \/ DereferenceTransactionCommit(c) \/ RollbackSlot(c)
             \/ FinishRollback(c) \/ ConsumerCrash(c) \/ StartRollback(c)
             \/ Resubscribe(c) \/ \E r \in Slots : ReleaseSample(c, r)
      PROVE  Counters(s)' \subseteq Counters(s)
  BY <1>1, <1>5
     DEF GetNewSamples, ScanSlot, NothingFound, ReferenceTransactionBegin,
         ReferenceTransactionAbort, ReferenceTransactionCommit, Deliver,
         DereferenceTransactionCommit, RollbackSlot, FinishRollback,
         ConsumerCrash, StartRollback, Resubscribe, ReleaseSample, LoseProcess
<1> QED
  BY <1>2, <1>3, <1>4, <1>5, NextSplit DEF ConsumerStep

(* References are taken to published slots only, and published slots stay  *)
(* so while one is counted.                                                *)
LEMMA CountedStep ==
    ASSUME TypeOK, CountInvariant, CountedArePublished, [Next]_vars
    PROVE  CountedArePublished'
<1>1. CASE UNCHANGED vars
  BY <1>1 DEF vars, slotVars, CountedArePublished, Counters
<1>2. CASE Next
  <2> SUFFICES ASSUME NEW s \in Slots, Counters(s)' # {}
               PROVE  slots'[s].ts > 0
    BY DEF CountedArePublished
  <2>1. CASE Counters(s)' \subseteq Counters(s)
    <3>1. Counters(s) # {}
      BY <2>1
    <3> QED
      BY <1>2, <3>1, ReferencedSlotKept DEF CountedArePublished
  <2>2. ASSUME NEW c \in Consumers, ReferenceSlot(c), ccand[c] = s
        PROVE  slots'[s].ts > 0
    <3>1. cstat[c].ts > 0 /\ slots[s] = cstat[c] /\ ~IsInWriting(slots[s])
      BY <2>2 DEF ReferenceSlot, CountInvariant, CollectorLogged, IsInWriting, IN_WRITING
    <3>2. Counters(s) \in SUBSET Consumers
      BY DEF Counters
    <3>3. slots[s] \in SlotStatus /\ slots[s].refs < RefCountMax
      BY <3>1, <3>2, ConsumerCount DEF CountInvariant, CountsExact, TypeOK, SharedTypeOK
    <3>4. slots'[s] = Increment(slots[s])
      BY <2>2, <3>1 DEF ReferenceSlot, TypeOK, SharedTypeOK
    <3> QED
      BY <3>1, <3>3, <3>4, StatusArithmetic
  <2> QED
    BY <1>2, <2>1, <2>2, CountersMove
<1> QED
  BY <1>1, <1>2

-----------------------------------------------------------------------------
(* The refinement of EventSlots, step by step.                             *)
LEMMA PromiseInit ==
    ASSUME Init
    PROVE  Promise!Init
<1>1. \A s \in Slots : slots[s] = INVALID
  BY DEF Init
<1>2. \A s \in Slots : SlotState(slots[s]) = "free" /\ slots[s].ts = 0
  BY <1>1, StatusConstants DEF SlotState, IsInWriting, IsInvalid, INVALID
<1>3. \A s \in Slots : Counters(s) = {}
  BY DEF Init, Counters
<1>4. Cardinality({}) = 0
  BY FS_EmptySet
<1> QED
  BY <1>2, <1>3, <1>4 DEF Promise!Init

(* The abstract slots depend on the words and on who is counted only.      *)
LEMMA PromiseStutter ==
    ASSUME UNCHANGED <<slots, counted>>
    PROVE  UNCHANGED Promise!vars
BY DEF Promise!vars, Counters

(* A store of the publisher locks a slot, publishes it or gives it back.   *)
LEMMA PublisherPromise ==
    ASSUME TypeOK, CountInvariant,
           \/ Allocate \/ PublisherStep \/ PublisherCrash \/ PrepareOffer
           \/ \E s \in Slots : EventReady(s) \/ Discard(s)
    PROVE  [Promise!Next]_(Promise!vars)
<1> USE DEF slotVars
<1>a. slots \in [Slots -> SlotStatus] /\ psel \in Slots \union {NoSlot}
  BY DEF TypeOK, SharedTypeOK, PublisherTypeOK
<1>b. UNCHANGED counted
  BY DEF Allocate, PublisherStep, FindOldestUnusedSlot, LockSlot, AllocateRetry,
         PublisherCrash, PrepareOffer, EventReady, Discard
<1>c. \A s \in Slots : Counters(s)' = Counters(s)
  BY <1>b DEF Counters
<1>d. /\ SlotState(IN_WRITING) = "writing" /\ IN_WRITING.ts = 0
      /\ SlotState(INVALID) = "free" /\ INVALID.ts = 0
  BY StatusConstants DEF SlotState, IsInWriting, IsInvalid, INVALID, IN_WRITING
<1>e. \A st : IsInWriting(st) <=> SlotState(st) = "writing"
  BY DEF SlotState
<1>1. CASE Allocate \/ FindOldestUnusedSlot \/ AllocateRetry \/ PublisherCrash
  <2>1. UNCHANGED slots
    BY <1>1 DEF Allocate, FindOldestUnusedSlot, AllocateRetry, PublisherCrash
  <2> QED
    BY <1>b, <2>1, PromiseStutter
<1>2. CASE LockSlot
  <2>1. PICK k \in Slots : k = psel
    BY <1>2, <1>a DEF LockSlot
  <2>2. ~IsInWriting(slots[k]) /\ slots[k].refs = 0
    BY <1>2, <2>1 DEF LockSlot, IsUsed
  <2>3. Cardinality(Counters(k)) = 0
    BY <2>2 DEF CountInvariant, CountsExact
  <2>4. \A s \in Slots : slots'[s] = IF s = k THEN IN_WRITING ELSE slots[s]
    BY <1>2, <1>a, <2>1 DEF LockSlot
  <2>5. Promise!Lock(k)
    BY <1>c, <1>d, <1>e, <2>2, <2>3, <2>4 DEF Promise!Lock
  <2> QED
    BY <2>5 DEF Promise!Next
<1>3. ASSUME NEW s \in Slots, EventReady(s) PROVE Promise!Next
  <2>1. IsInWriting(slots[s])
    BY <1>3 DEF EventReady, CountInvariant, WriterOwnsSlots
  <2>2. currentTs + 1 \in Timestamps /\ currentTs + 1 > 0
    BY <1>3, StatusAssumption DEF EventReady, TypeOK, PublisherTypeOK, Timestamps
  <2>3. PICK t \in Timestamps : t = currentTs + 1
    BY <2>2
  <2> DEFINE st == [ts |-> t, refs |-> 0]
  <2>4. SlotState(st) = "ready" /\ st.ts = t
    BY <2>2, <2>3 DEF SlotState, IsInWriting, IsInvalid, INVALID, IN_WRITING
  <2>5. \A r \in Slots : slots'[r] = IF r = s THEN st ELSE slots[r]
    BY <1>3, <1>a, <2>3 DEF EventReady
  <2> HIDE DEF st
  <2>6. Promise!Publish(s, t)
    BY <1>c, <1>e, <2>1, <2>4, <2>5 DEF Promise!Publish
  <2> QED
    BY <2>6 DEF Promise!Next
<1>4. ASSUME NEW S \in SUBSET Slots, \A s \in S : IsInWriting(slots[s]),
             \A s \in Slots : slots'[s] = IF s \in S THEN INVALID ELSE slots[s]
      PROVE  Promise!Next
  <2>1. \A s \in S : SlotState(slots[s]) = "writing" /\ slots[s].ts = 0
    BY <1>4, <1>e DEF IsInWriting, IN_WRITING
  <2>2. Promise!Abandon(S)
    BY <1>c, <1>d, <1>4, <2>1 DEF Promise!Abandon
  <2> QED
    BY <2>2 DEF Promise!Next
<1>5. ASSUME NEW s \in Slots, Discard(s) PROVE [Promise!Next]_(Promise!vars)
  <2>1. slots' = [slots EXCEPT ![s] = DiscardedStatus(slots[s])]
    BY <1>5 DEF Discard
  <2>2. CASE IsInWriting(slots[s])
    <3> DEFINE S == {s}
    <3>1. /\ S \in SUBSET Slots /\ \A r \in S : IsInWriting(slots[r])
          /\ \A r \in Slots : slots'[r] = IF r \in S THEN INVALID ELSE slots[r]
      BY <2>1, <2>2, <1>a DEF DiscardedStatus
    <3> QED
      BY <3>1, <1>4
  <2>3. CASE ~IsInWriting(slots[s])
    <3>1. UNCHANGED slots
      BY <2>1, <2>3, <1>a DEF DiscardedStatus
    <3> QED
      BY <1>b, <3>1, PromiseStutter
  <2> QED
    BY <2>2, <2>3
<1>6. CASE PrepareOffer
  <2> DEFINE S == {s \in Slots : IsInWriting(slots[s])}
  <2>1. \A s \in Slots : slots'[s] = IF s \in S THEN INVALID ELSE slots[s]
    BY <1>6 DEF PrepareOffer, RemoveAllocationsForWriting
  <2> QED
    BY <2>1, <1>4
<1> QED
  BY <1>1, <1>2, <1>3, <1>5, <1>6 DEF PublisherStep

(* An exchange of a consumer adds a reader to a ready slot, its fetch_sub  *)
(* takes one away.                                                         *)
LEMMA ConsumerPromise ==
    ASSUME TypeOK, CountInvariant, CountedArePublished, NEW c \in Consumers,
           \/ \E n \in 1 .. MaxSamples[c] : GetNewSamples(c, n)
           \/ ConsumerStep(c) \/ ConsumerCrash(c) \/ StartRollback(c)
           \/ Resubscribe(c) \/ \E s \in Slots : ReleaseSample(c, s)
    PROVE  [Promise!Next]_(Promise!vars)
<1> USE DEF slotVars, NoSlot
<1>a. /\ slots \in [Slots -> SlotStatus] /\ counted \in [Consumers -> SUBSET Slots]
      /\ ccand \in [Consumers -> Slots \union {NumSlots}]
      /\ rslot \in [Consumers -> Slots \union {NumSlots}]
  BY DEF TypeOK, SharedTypeOK, ScanTypeOK, SampleTypeOK
<1>b. \A s \in Slots : Counters(s) \in SUBSET Consumers
  BY DEF Counters
<1>1. CASE ReferenceSlot(c)
  <2>a. PICK k \in Slots : k = ccand[c]
    BY <1>a, <1>1 DEF ReferenceSlot, CountInvariant, CollectorLogged
  <2>1. k \in Slots /\ slots[k] = cstat[c] /\ slots[k].ts > 0 /\ c \notin Counters(k)
    BY <1>a, <1>1, <2>a DEF ReferenceSlot, CountInvariant, CollectorLogged, Counters
  <2>2. ~IsInWriting(slots[k])
    BY <2>1 DEF IsInWriting, IN_WRITING
  <2>3. slots[k].refs < RefCountMax
    BY <1>b, <2>1, <2>2, ConsumerCount DEF CountInvariant, CountsExact
  <2>4. Increment(slots[k]).ts = slots[k].ts
    BY <1>a, <2>1, <2>3, StatusArithmetic
  <2>5. SlotState(slots[k]) = "ready" /\ SlotState(Increment(slots[k])) = "ready"
    BY <2>1, <2>2, <2>4 DEF SlotState, IsInWriting, IsInvalid, INVALID, IN_WRITING
  <2>6. \A s \in Slots : slots'[s] = IF s = k THEN Increment(slots[k]) ELSE slots[s]
    BY <1>1, <1>a, <2>a, <2>1 DEF ReferenceSlot
  <2>7. \A s \in Slots : Counters(s)' = IF s = k THEN Counters(k) \union {c}
                                        ELSE Counters(s)
    BY <1>1, <1>a, <2>a, <2>1 DEF ReferenceSlot, Counters
  <2>8. Cardinality(Counters(k) \union {c}) = Cardinality(Counters(k)) + 1
    BY <1>b, <2>1, CountAdd
  <2>9. Promise!Acquire(k)
    BY <2>1, <2>4, <2>5, <2>6, <2>7, <2>8 DEF Promise!Acquire
  <2> QED
    BY <2>1, <2>9 DEF Promise!Next
<1>2. CASE DereferenceSlot(c)
  <2>a. PICK k \in Slots : k = rslot[c]
    BY <1>a, <1>2 DEF DereferenceSlot, CountInvariant, ReleaseLogged
  <2>1. k \in Slots /\ c \in Counters(k)
    BY <1>a, <1>2, <2>a DEF DereferenceSlot, CountInvariant, ReleaseLogged, Counters
  <2>2. ~IsInWriting(slots[k]) /\ slots[k].ts > 0
    BY <2>1 DEF CountInvariant, CountsExact, CountedArePublished
  <2>3. slots[k].refs > 0 /\ Cardinality(Counters(k)) > 0
    BY <1>b, <2>1, <2>2, ConsumerCount DEF CountInvariant, CountsExact
  <2>4. Decrement(slots[k]).ts = slots[k].ts
    BY <1>a, <2>1, <2>3, StatusArithmetic
  <2>5. SlotState(slots[k]) = "ready" /\ SlotState(Decrement(slots[k])) = "ready"
    BY <2>1, <2>2, <2>4 DEF SlotState, IsInWriting, IsInvalid, INVALID, IN_WRITING
  <2>6. \A s \in Slots : slots'[s] = IF s = k THEN Decrement(slots[k]) ELSE slots[s]
    BY <1>2, <1>a, <2>a, <2>1 DEF DereferenceSlot
  <2>7. \A s \in Slots : Counters(s)' = IF s = k THEN Counters(k) \ {c}
                                        ELSE Counters(s)
    BY <1>2, <1>a, <2>a, <2>1 DEF DereferenceSlot, Counters
  <2>8. Cardinality(Counters(k) \ {c}) = Cardinality(Counters(k)) - 1
    BY <1>b, <2>1, CountRemove
  <2>9. Promise!Release(k)
    BY <2>1, <2>3, <2>4, <2>5, <2>6, <2>7, <2>8 DEF Promise!Release
  <2> QED
    BY <2>1, <2>9 DEF Promise!Next
<1>3. CASE \/ \E n \in 1 .. MaxSamples[c] : GetNewSamples(c, n)
           \/ ScanSlot(c) \/ NothingFound(c) \/ ReferenceTransactionBegin(c)
           \/ ReferenceTransactionAbort(c) \/ ReferenceTransactionCommit(c)
           \/ Deliver(c) \/ DereferenceTransactionCommit(c) \/ RollbackSlot(c)
           \/ FinishRollback(c) \/ ConsumerCrash(c) \/ StartRollback(c)
           \/ Resubscribe(c) \/ \E s \in Slots : ReleaseSample(c, s)
  <2>1. UNCHANGED <<slots, counted>>
    BY <1>3
       DEF GetNewSamples, ScanSlot, NothingFound, ReferenceTransactionBegin,
           ReferenceTransactionAbort, ReferenceTransactionCommit, Deliver,
           DereferenceTransactionCommit, RollbackSlot, FinishRollback,
           ConsumerCrash, StartRollback, Resubscribe, ReleaseSample, LoseProcess
  <2> QED
    BY <2>1, PromiseStutter
<1> QED
  BY <1>1, <1>2, <1>3 DEF ConsumerStep

(* The lock-free control block implements EventSlots for every number of   *)
(* consumers and slots and through every crash: a slot is never taken from *)
(* its readers, no reader gets a slot in writing, and a timestamp stays    *)
(* until the last reader is gone.                                          *)
THEOREM PromiseKept == Spec => ControlKeepsItsPromise
<1>1. Init => CountedArePublished /\ Promise!Init
  BY CountedInit, PromiseInit
<1>2. TypeOK /\ CountInvariant /\ CountedArePublished /\ [Next]_vars
         => CountedArePublished'
  BY CountedStep
<1>3. ASSUME TypeOK, CountInvariant, CountedArePublished, [Next]_vars
      PROVE  [Promise!Next]_(Promise!vars)
  <2>1. CASE UNCHANGED vars
    BY <2>1, PromiseStutter DEF vars, slotVars
  <2>2. CASE Next
    BY <1>3, <2>2, NextSplit, PublisherPromise, ConsumerPromise
  <2> QED
    BY <1>3, <2>1, <2>2
<1> QED
  BY <1>1, <1>2, <1>3, CountsCorrect, PTL DEF Spec, ControlKeepsItsPromise, Promise!Spec

-----------------------------------------------------------------------------
(* The timestamps of the slots consumer d references do not change.        *)
LEMMA StampsKept ==
    ASSUME TypeOK, CountInvariant, Next, NEW d \in Consumers
    PROVE  \A s \in Slots :
              s \in counted[d] => slots'[s].ts = slots[s].ts
<1> TAKE s \in Slots
<1> HAVE s \in counted[d]
<1>1. Counters(s) # {}
  BY DEF Counters
<1> QED
  BY <1>1, ReferencedSlotKept

(* What consumer d collects, holds or is about to commit is counted.       *)
LEMMA ReferencesCountedFor ==
    ASSUME TypeOK, CountInvariant, NEW d \in Consumers
    PROVE  /\ held[d] \in SUBSET Slots
           /\ collected[d] \in Seq(Slots)
           /\ \A s \in held[d] : s \in counted[d]
           /\ \A i \in 1 .. Len(collected[d]) :
                 collected[d][i] \in Slots /\ collected[d][i] \in counted[d]
           /\ cpc[d] = "commit" => ccand[d] \in Slots /\ ccand[d] \in counted[d]
<1>1. held[d] \in SUBSET Slots /\ collected[d] \in Seq(Slots)
      /\ ccand[d] \in Slots \union {NoSlot}
  BY DEF TypeOK, SampleTypeOK, CollectTypeOK, ScanTypeOK
<1>2. \A i \in 1 .. Len(collected[d]) : collected[d][i] \in Slots
  BY <1>1
<1>3. \A i \in 1 .. Len(collected[d]) : collected[d][i] \in CollectedSlots(d)
  BY DEF CollectedSlots
<1>4. \A s \in held[d] \union CollectedSlots(d) : log[d][s] = "referenced"
  BY DEF CountInvariant, SamplesLogged
<1>5. \A s \in Slots : log[d][s] = "referenced" => s \in counted[d]
  BY DEF CountInvariant, LogRecordsCounted
<1>6. cpc[d] = "commit" => ccand[d] \in Slots /\ ccand[d] \in counted[d]
  BY <1>1 DEF CountInvariant, CollectorLogged
<1> QED
  BY <1>1, <1>2, <1>3, <1>4, <1>5, <1>6

(* The part of the state that the invariant of consumer d is about.        *)
Unmoved(d) ==
    /\ cpc'[d] = cpc[d] /\ log'[d] = log[d] /\ held'[d] = held[d]
    /\ collected'[d] = collected[d] /\ ccand'[d] = ccand[d] /\ cstat'[d] = cstat[d]
    /\ lastTs'[d] = lastTs[d] /\ chigh'[d] = chigh[d]
    /\ rpc'[d] = rpc[d] /\ rslot'[d] = rslot[d]

(* What other processes do to the slots does not disturb consumer d.       *)
LEMMA FetchUnmoved ==
    ASSUME TypeOK, CountInvariant, Next, NEW d \in Consumers, FetchOf(d), Unmoved(d)
    PROVE  FetchOf(d)'
<1> USE StampsKept, ReferencesCountedFor DEF FetchOf, Unmoved
<1>0. CollectedSlots(d)' = CollectedSlots(d)
  BY DEF CollectedSlots
<1>1. CollectsAlone(d)'
  BY DEF CollectsAlone
<1>2. LogEntriesKnown(d)'
  BY <1>0 DEF LogEntriesKnown, Running
<1>3. StampsDivide(d)'
  <2>1. \A s \in held[d] : slots'[s].ts = slots[s].ts
    OBVIOUS
  <2>2. \A i \in 1 .. Len(collected[d]) :
            slots'[collected[d][i]].ts = slots[collected[d][i]].ts
    OBVIOUS
  <2>3. \A i \in 1 .. Len(collected[d]) : i > 1 => i - 1 \in 1 .. Len(collected[d])
    OBVIOUS
  <2> QED
    BY <2>1, <2>2, <2>3 DEF StampsDivide
<1>4. CandidateNew(d)'
  BY <1>0 DEF CandidateNew
<1> QED
  BY <1>1, <1>2, <1>3, <1>4

(* No step of the publisher moves a consumer, and none of a consumer       *)
(* another one.                                                            *)
LEMMA PublisherMoves ==
    ASSUME NEW d \in Consumers,
           \/ Allocate \/ PublisherStep \/ PublisherCrash \/ PrepareOffer
           \/ \E s \in Slots : EventReady(s) \/ Discard(s)
    PROVE  Unmoved(d)
BY DEF Unmoved, Allocate, PublisherStep, FindOldestUnusedSlot, LockSlot, AllocateRetry,
       PublisherCrash, PrepareOffer, EventReady, Discard, slotVars, conVars, scanVars,
       collectVars, sampleVars, releaseVars

(* A step of one consumer leaves what another one holds and collects       *)
(* alone.                                                                  *)
LEMMA ConsumerMoves ==
    ASSUME TypeOK, NEW c \in Consumers, NEW d \in Consumers, d # c,
           \/ \E n \in 1 .. MaxSamples[c] : GetNewSamples(c, n)
           \/ ConsumerStep(c) \/ ConsumerCrash(c) \/ StartRollback(c)
           \/ Resubscribe(c) \/ \E s \in Slots : ReleaseSample(c, s)
    PROVE  Unmoved(d)
<1> USE DEF Unmoved, slotVars, scanVars, collectVars, sampleVars, releaseVars,
            StartScan, ResetScan
<1>a. /\ log \in [Consumers -> [Slots -> LogStates]]
      /\ held \in [Consumers -> SUBSET Slots]
      /\ collected \in [Consumers -> Seq(Slots)]
      /\ cpc \in [Consumers -> ConStates]
      /\ ccand \in [Consumers -> Slots \union {NoSlot}]
      /\ cstat \in [Consumers -> SlotStatus]
      /\ lastTs \in [Consumers -> Timestamps]
      /\ chigh \in [Consumers -> Timestamps]
      /\ rpc \in [Consumers -> ReleaseStates]
      /\ rslot \in [Consumers -> Slots \union {NoSlot}]
  BY DEF TypeOK, SharedTypeOK, ScanTypeOK, CollectTypeOK, SampleTypeOK
<1>1. ASSUME NEW n \in 1 .. MaxSamples[c], GetNewSamples(c, n) PROVE Unmoved(d)
  BY <1>a, <1>1 DEF GetNewSamples
<1>2. CASE ScanSlot(c) \/ NothingFound(c) \/ ReferenceTransactionBegin(c)
  BY <1>a, <1>2 DEF ScanSlot, NothingFound, ReferenceTransactionBegin
<1>3. CASE ReferenceSlot(c) \/ ReferenceTransactionAbort(c)
  BY <1>a, <1>3 DEF ReferenceSlot, ReferenceTransactionAbort
<1>4. CASE ReferenceTransactionCommit(c) \/ Deliver(c)
  BY <1>a, <1>4 DEF ReferenceTransactionCommit, Deliver
<1>5. CASE DereferenceSlot(c) \/ DereferenceTransactionCommit(c) \/ RollbackSlot(c)
  BY <1>a, <1>5 DEF DereferenceSlot, DereferenceTransactionCommit, RollbackSlot
<1>6. CASE FinishRollback(c) \/ ConsumerCrash(c) \/ StartRollback(c) \/ Resubscribe(c)
  BY <1>a, <1>6 DEF FinishRollback, ConsumerCrash, StartRollback, Resubscribe, LoseProcess
<1>7. ASSUME NEW s \in Slots, ReleaseSample(c, s) PROVE Unmoved(d)
  BY <1>a, <1>7 DEF ReleaseSample
<1> QED
  BY <1>1, <1>2, <1>3, <1>4, <1>5, <1>6, <1>7 DEF ConsumerStep

(* What CollectSlots appends is collected.                                 *)
LEMMA AppendedSlot ==
    ASSUME NEW c \in Consumers, collected[c] \in Seq(Slots), NEW s \in Slots,
           collected'[c] = Append(collected[c], s)
    PROVE  /\ CollectedSlots(c)' = CollectedSlots(c) \union {s}
           /\ Len(collected'[c]) = Len(collected[c]) + 1
<1>1. Len(collected[c]) \in Nat /\ Len(collected'[c]) = Len(collected[c]) + 1
  OBVIOUS
<1>2. \A i \in 1 .. Len(collected[c]) : collected'[c][i] = collected[c][i]
  OBVIOUS
<1>3. collected'[c][Len(collected[c]) + 1] = s
  OBVIOUS
<1> QED
  BY <1>1, <1>2, <1>3 DEF CollectedSlots

(* The steps of GetNewSamples.                                              *)
LEMMA CollectFetch ==
    ASSUME ~ConcurrentRelease, TypeOK, CountInvariant, Next, NEW c \in Consumers, FetchOf(c),
           \/ \E n \in 1 .. MaxSamples[c] : GetNewSamples(c, n)
           \/ ScanSlot(c) \/ NothingFound(c) \/ ReferenceTransactionBegin(c)
           \/ ReferenceSlot(c) \/ ReferenceTransactionAbort(c)
           \/ ReferenceTransactionCommit(c) \/ Deliver(c)
    PROVE  FetchOf(c)'
<1> USE DEF FetchOf, slotVars, scanVars, collectVars, sampleVars, releaseVars, NoSlot
<1>a. /\ log \in [Consumers -> [Slots -> LogStates]]
      /\ held \in [Consumers -> SUBSET Slots]
      /\ collected \in [Consumers -> Seq(Slots)]
      /\ cpc \in [Consumers -> ConStates]
      /\ ccand \in [Consumers -> Slots \union {NumSlots}]
      /\ cstat \in [Consumers -> SlotStatus]
      /\ lastTs \in [Consumers -> Timestamps]
      /\ chigh \in [Consumers -> Timestamps]
      /\ rpc \in [Consumers -> ReleaseStates]
      /\ cidx \in [Consumers -> 0 .. NumSlots]
      /\ slots \in [Slots -> SlotStatus]
  BY DEF TypeOK, SharedTypeOK, ScanTypeOK, CollectTypeOK, SampleTypeOK
<1>b. CollectedSlots(c) \subseteq Slots
  BY <1>a DEF CollectedSlots
<1>c. /\ \A s \in Slots : slots[s].ts \in Int
      /\ lastTs[c] \in Int /\ chigh[c] \in Int /\ cstat[c].ts \in Int
  BY <1>a, StatusAssumption DEF SlotStatus, Timestamps
<1>d. \A s \in CollectedSlots(c) : slots[s].ts > lastTs[c] /\ slots[s].ts >= chigh[c]
  BY DEF StampsDivide, CollectedSlots
<1>e. NumSlots \notin Slots
  BY ControlAssumption DEF Slots
<1>1. ASSUME NEW n \in 1 .. MaxSamples[c], GetNewSamples(c, n) PROVE FetchOf(c)'
  <2>1. /\ cpc'[c] = "scan" /\ collected'[c] = <<>> /\ ccand'[c] = NumSlots
        /\ cstat'[c].ts = lastTs[c] /\ cpc[c] = "idle" /\ rpc[c] = "idle"
        /\ UNCHANGED <<slots, log, rpc, held, lastTs, rslot>>
    BY <1>a, <1>1 DEF GetNewSamples, StartScan
  <2>2. CollectedSlots(c) = {} /\ CollectedSlots(c)' = {}
    BY <2>1 DEF CollectedSlots, CollectsAlone
  <2>3. CollectsAlone(c)'
    BY <2>1 DEF CollectsAlone
  <2>4. LogEntriesKnown(c)'
    BY <2>1, <2>2 DEF LogEntriesKnown, Running
  <2>5. StampsDivide(c)'
    BY <2>1 DEF StampsDivide
  <2>6. CandidateNew(c)'
    BY <1>c, <2>1 DEF CandidateNew
  <2> QED
    BY <2>3, <2>4, <2>5, <2>6
<1>2. CASE ScanSlot(c)
  <2> DEFINE k == cidx[c]
             newer == IsTimeStampBetween(slots[k], cstat[c].ts, chigh[c])
  <2>1. /\ cpc[c] = "scan" /\ k \in Slots
        /\ ccand'[c] = IF newer THEN k ELSE ccand[c]
        /\ cstat'[c] = IF newer THEN slots[k] ELSE cstat[c]
        /\ UNCHANGED <<slots, log, cpc, rpc, held, lastTs, rslot, collected, chigh>>
    BY <1>a, <1>2, ControlAssumption DEF ScanSlot, Slots
  <2>2. CollectedSlots(c)' = CollectedSlots(c)
    BY <2>1 DEF CollectedSlots
  <2>3. newer => /\ slots[k].ts > lastTs[c] /\ slots[k].ts < chigh[c]
                 /\ k \notin held[c] \union CollectedSlots(c)
    <3>1. newer => slots[k].ts > lastTs[c] /\ slots[k].ts < chigh[c]
      BY <1>c, <2>1 DEF IsTimeStampBetween, CandidateNew
    <3> HIDE DEF newer
    <3> QED
      BY <1>c, <1>d, <2>1, <3>1 DEF StampsDivide
  <2> HIDE DEF newer
  <2>4. CollectsAlone(c)' /\ StampsDivide(c)'
    BY <2>1 DEF CollectsAlone, StampsDivide
  <2>5. LogEntriesKnown(c)'
    BY <2>1, <2>2 DEF LogEntriesKnown, Running
  <2>6. CandidateNew(c)'
    BY <1>c, <2>1, <2>2, <2>3 DEF CandidateNew
  <2> QED
    BY <2>4, <2>5, <2>6
<1>3. CASE NothingFound(c)
  <2>1. /\ cpc[c] = "scan" /\ cpc'[c] = "deliver"
        /\ UNCHANGED <<slots, log, rpc, held, lastTs, rslot, collected, chigh, ccand, cstat>>
    BY <1>a, <1>3 DEF NothingFound
  <2>2. CollectedSlots(c)' = CollectedSlots(c)
    BY <2>1 DEF CollectedSlots
  <2> QED
    BY <2>1, <2>2 DEF CollectsAlone, LogEntriesKnown, StampsDivide, CandidateNew, Running
<1>4. CASE ReferenceTransactionBegin(c)
  <2>1. /\ cpc[c] = "scan" /\ cpc'[c] = "cas" /\ ccand[c] \in Slots
        /\ \A s \in Slots : s # ccand[c] => log'[c][s] = log[c][s]
        /\ UNCHANGED <<slots, rpc, held, lastTs, rslot, collected, chigh, ccand, cstat>>
    BY <1>a, <1>4 DEF ReferenceTransactionBegin
  <2>2. CollectedSlots(c)' = CollectedSlots(c)
    BY <2>1 DEF CollectedSlots
  <2>3. LogEntriesKnown(c)'
    BY <2>1, <2>2 DEF LogEntriesKnown, Running
  <2> QED
    BY <2>1, <2>2, <2>3 DEF CollectsAlone, StampsDivide, CandidateNew
<1>5. CASE ReferenceSlot(c)
  <2>1. /\ cpc[c] = "cas" /\ cpc'[c] = "commit" /\ slots[ccand[c]] = cstat[c]
        /\ UNCHANGED <<log, rpc, held, lastTs, rslot, collected, chigh, ccand, cstat>>
    BY <1>a, <1>5 DEF ReferenceSlot
  <2>2. CollectedSlots(c)' = CollectedSlots(c)
    BY <2>1 DEF CollectedSlots
  <2>3. ccand[c] \in Slots /\ slots'[ccand[c]].ts = cstat[c].ts
    <3>1. ccand[c] \in Slots /\ cstat[c].ts > 0
      BY <1>a, <2>1 DEF CountInvariant, CollectorLogged
    <3>2. ~IsInWriting(slots[ccand[c]])
      BY <2>1, <3>1 DEF IsInWriting, IN_WRITING
    <3>3. Counters(ccand[c]) \in SUBSET Consumers
      BY DEF Counters
    <3>4. slots[ccand[c]].refs < RefCountMax
      BY <3>1, <3>2, <3>3, ConsumerCount DEF CountInvariant, CountsExact
    <3>5. slots'[ccand[c]] = Increment(cstat[c])
      BY <1>a, <1>5, <3>1 DEF ReferenceSlot
    <3> QED
      BY <1>a, <2>1, <3>1, <3>4, <3>5, StatusArithmetic
  <2>4. StampsDivide(c)'
    <3>1. \A s \in held[c] : slots'[s].ts = slots[s].ts
      BY StampsKept, ReferencesCountedFor
    <3>2. \A i \in 1 .. Len(collected[c]) :
              slots'[collected[c][i]].ts = slots[collected[c][i]].ts
      BY StampsKept, ReferencesCountedFor
    <3>3. \A i \in 1 .. Len(collected[c]) : i > 1 => i - 1 \in 1 .. Len(collected[c])
      BY ReferencesCountedFor
    <3> QED
      BY <2>1, <3>1, <3>2, <3>3 DEF StampsDivide
  <2>5. CandidateNew(c)'
    BY <1>e, <2>1, <2>3 DEF CandidateNew
  <2>6. LogEntriesKnown(c)' /\ CollectsAlone(c)'
    BY <2>1, <2>2 DEF LogEntriesKnown, Running, CollectsAlone
  <2> QED
    BY <2>4, <2>5, <2>6
<1>6. CASE ReferenceTransactionAbort(c)
  <2>1. /\ cpc[c] = "cas" /\ ccand[c] \in Slots
        /\ log'[c][ccand[c]] = "free"
        /\ \A s \in Slots : s # ccand[c] => log'[c][s] = log[c][s]
        /\ \/ cpc'[c] = "scan" /\ ccand'[c] = NumSlots /\ cstat'[c].ts = lastTs[c]
           \/ cpc'[c] = "deliver"
        /\ UNCHANGED <<slots, rpc, held, lastTs, rslot, collected, chigh>>
    BY <1>a, <1>6 DEF ReferenceTransactionAbort, StartScan, CountInvariant, CollectorLogged
  <2>2. CollectedSlots(c)' = CollectedSlots(c)
    BY <2>1 DEF CollectedSlots
  <2>3. LogEntriesKnown(c)'
    BY <2>1, <2>2 DEF LogEntriesKnown, Running
  <2>4. CollectsAlone(c)' /\ StampsDivide(c)'
    BY <2>1 DEF CollectsAlone, StampsDivide
  <2>5. CandidateNew(c)'
    BY <1>c, <2>1, <2>2 DEF CandidateNew
  <2> QED
    BY <2>3, <2>4, <2>5
<1>7. CASE ReferenceTransactionCommit(c)
  <2>1. /\ cpc[c] = "commit" /\ ccand[c] \in Slots
        /\ \A s \in Slots : s # ccand[c] => log'[c][s] = log[c][s]
        /\ collected'[c] = Append(collected[c], ccand[c])
        /\ chigh'[c] = slots[ccand[c]].ts
        /\ \/ cpc'[c] = "scan" /\ ccand'[c] = NumSlots /\ cstat'[c].ts = lastTs[c]
           \/ cpc'[c] = "deliver"
        /\ UNCHANGED <<slots, rpc, held, lastTs, rslot>>
    BY <1>a, <1>7 DEF ReferenceTransactionCommit, StartScan, CountInvariant, CollectorLogged
  <2>2. CollectedSlots(c)' = CollectedSlots(c) \union {ccand[c]}
    BY <1>a, <2>1, AppendedSlot
  <2>3. LogEntriesKnown(c)'
    BY <2>1, <2>2 DEF LogEntriesKnown, Running
  <2>4. CollectsAlone(c)'
    BY <2>1 DEF CollectsAlone
  <2>5. StampsDivide(c)'
    <3> DEFINE n == Len(collected[c])
               t(i) == slots[collected[c][i]].ts
               u(i) == slots'[collected'[c][i]].ts
    <3>1. n \in Nat /\ Len(collected'[c]) = n + 1
      BY <1>a, <2>1
    <3>2. \A i \in 1 .. n : u(i) = t(i) /\ t(i) \in Int
      BY <1>a, <1>c, <2>1
    <3>3. u(n + 1) = slots[ccand[c]].ts /\ u(n + 1) \in Int
      BY <1>a, <1>c, <2>1
    <3>4. /\ \A i \in 1 .. n : t(i) > lastTs[c] /\ t(i) >= chigh[c]
          /\ \A i \in 1 .. n : i > 1 => t(i) < t(i - 1)
      BY DEF StampsDivide
    <3>5. u(n + 1) > lastTs[c] /\ u(n + 1) < chigh[c]
      BY <2>1, <3>3 DEF CandidateNew
    <3>6. \A s \in held'[c] : slots'[s].ts <= lastTs'[c]
      BY <2>1 DEF StampsDivide
    <3> HIDE DEF n, t, u
    <3>7. \A i \in 1 .. n + 1 : /\ u(i) > lastTs[c] /\ u(i) >= u(n + 1)
                                /\ i > 1 => u(i) < u(i - 1)
      <4> TAKE i \in 1 .. n + 1
      <4>1. CASE i = n + 1
        <5>1. n + 1 > 1 => n \in 1 .. n /\ (n + 1) - 1 = n
          BY <3>1
        <5> QED
          BY <1>c, <3>1, <3>2, <3>3, <3>4, <3>5, <4>1, <5>1
      <4>2. CASE i # n + 1
        <5>1. i \in 1 .. n /\ (i > 1 => i - 1 \in 1 .. n)
          BY <3>1, <4>2
        <5> QED
          BY <1>c, <3>2, <3>3, <3>4, <3>5, <5>1
      <4> QED
        BY <4>1, <4>2
    <3> QED
      BY <2>1, <3>1, <3>3, <3>6, <3>7 DEF StampsDivide, u
  <2>6. CandidateNew(c)'
    BY <1>c, <2>1, <2>2 DEF CandidateNew
  <2> QED
    BY <2>3, <2>4, <2>5, <2>6
<1>8. CASE Deliver(c)
  <2> DEFINE stamps == {lastTs[c]} \union {slots[s].ts : s \in CollectedSlots(c)}
             m == CHOOSE t \in stamps : \A u \in stamps : u <= t
  <2>1. /\ cpc[c] = "deliver" /\ cpc'[c] = "idle" /\ collected'[c] = <<>>
        /\ held'[c] = held[c] \union CollectedSlots(c) /\ lastTs'[c] = m
        /\ UNCHANGED <<slots, log, rpc, rslot>>
    BY <1>a, <1>8 DEF Deliver
  <2>2. CollectedSlots(c)' = {}
    BY <2>1 DEF CollectedSlots
  <2>3. stamps \in SUBSET (0 .. TimestampMax) /\ stamps # {}
    BY <1>a, <1>b DEF SlotStatus, Timestamps
  <2>4. /\ \A s \in CollectedSlots(c) : slots[s].ts \in stamps
        /\ lastTs[c] \in stamps
    OBVIOUS
  <2> HIDE DEF stamps
  <2>5. m \in stamps /\ \A u \in stamps : u <= m
    BY <2>3, MaximumExists, StatusAssumption
  <2> HIDE DEF m
  <2>6. m \in Int
    BY <2>3, <2>5
  <2>7. StampsDivide(c)'
    BY <1>a, <1>c, <2>1, <2>4, <2>5, <2>6 DEF StampsDivide
  <2>8. LogEntriesKnown(c)'
    BY <2>1, <2>2 DEF LogEntriesKnown, Running
  <2>9. CollectsAlone(c)' /\ CandidateNew(c)'
    BY <2>1 DEF CollectsAlone, CandidateNew
  <2> QED
    BY <2>7, <2>8, <2>9
<1> QED
  BY <1>1, <1>2, <1>3, <1>4, <1>5, <1>6, <1>7, <1>8

(* The release of a sample, a crash and the rollback after it.             *)
LEMMA ReleaseFetch ==
    ASSUME ~ConcurrentRelease, TypeOK, CountInvariant, Next, NEW c \in Consumers,
           FetchOf(c),
           \/ \E s \in Slots : ReleaseSample(c, s)
           \/ DereferenceSlot(c) \/ DereferenceTransactionCommit(c)
           \/ ConsumerCrash(c) \/ StartRollback(c) \/ RollbackSlot(c)
           \/ FinishRollback(c) \/ Resubscribe(c)
    PROVE  FetchOf(c)'
<1> USE DEF FetchOf, slotVars, scanVars, collectVars, sampleVars, releaseVars, NoSlot
<1>a. /\ log \in [Consumers -> [Slots -> LogStates]]
      /\ held \in [Consumers -> SUBSET Slots]
      /\ collected \in [Consumers -> Seq(Slots)]
      /\ cpc \in [Consumers -> ConStates]
      /\ lastTs \in [Consumers -> Timestamps]
      /\ chigh \in [Consumers -> Timestamps]
      /\ rpc \in [Consumers -> ReleaseStates]
      /\ rslot \in [Consumers -> Slots \union {NumSlots}]
      /\ cidx \in [Consumers -> 0 .. NumSlots]
  BY DEF TypeOK, SharedTypeOK, ScanTypeOK, CollectTypeOK, SampleTypeOK
<1>1. ASSUME NEW s \in Slots, ReleaseSample(c, s) PROVE FetchOf(c)'
  <2>1. /\ cpc[c] = "idle" /\ rpc[c] = "idle"
        /\ held'[c] = held[c] \ {s}
        /\ \A r \in Slots : r # s => log'[c][r] = log[c][r]
        /\ rpc'[c] = "subtract" /\ rslot'[c] = s
        /\ UNCHANGED <<slots, cpc, lastTs, collected, chigh, ccand, cstat>>
    BY <1>a, <1>1 DEF ReleaseSample
  <2>2. CollectedSlots(c)' = CollectedSlots(c)
    BY <2>1 DEF CollectedSlots
  <2>3. LogEntriesKnown(c)'
    BY <2>1, <2>2 DEF LogEntriesKnown, Running
  <2> QED
    BY <2>1, <2>3 DEF CollectsAlone, StampsDivide, CandidateNew
<1>2. CASE DereferenceSlot(c)
  <2>1. /\ rpc[c] = "subtract" /\ rpc'[c] = "finish"
        /\ UNCHANGED <<log, held, cpc, lastTs, rslot, collected, chigh, ccand, cstat>>
    BY <1>a, <1>2 DEF DereferenceSlot
  <2>2. CollectedSlots(c)' = CollectedSlots(c)
    BY <2>1 DEF CollectedSlots
  <2>3. cpc[c] \notin {"scan", "cas", "commit", "deliver"} /\ collected[c] = <<>>
    BY <2>1 DEF CollectsAlone
  <2>4. LogEntriesKnown(c)'
    BY <2>1, <2>2 DEF LogEntriesKnown, Running
  <2>5. StampsDivide(c)'
    <3>1. \A s \in held[c] : slots'[s].ts = slots[s].ts
      BY StampsKept, ReferencesCountedFor
    <3> QED
      BY <2>1, <2>3, <3>1 DEF StampsDivide
  <2> QED
    BY <2>1, <2>3, <2>4, <2>5 DEF CollectsAlone, CandidateNew
<1>3. CASE DereferenceTransactionCommit(c)
  <2>1. /\ rpc[c] = "finish" /\ rpc'[c] = "idle" /\ rslot[c] \in Slots
        /\ log'[c][rslot[c]] = "free"
        /\ \A r \in Slots : r # rslot[c] => log'[c][r] = log[c][r]
        /\ UNCHANGED <<slots, held, cpc, lastTs, collected, chigh, ccand, cstat>>
    BY <1>a, <1>3 DEF DereferenceTransactionCommit, CountInvariant, ReleaseLogged
  <2>2. CollectedSlots(c)' = CollectedSlots(c)
    BY <2>1 DEF CollectedSlots
  <2>3. LogEntriesKnown(c)'
    BY <2>1, <2>2 DEF LogEntriesKnown, Running
  <2> QED
    BY <2>1, <2>3 DEF CollectsAlone, StampsDivide, CandidateNew
<1>4. ASSUME NEW state, state \notin {"scan", "cas", "commit", "deliver"},
             LoseProcess(c, state),
             state \in {"crashed", "idle"},
             state = "idle" => \A s \in Slots : log[c][s] = "free"
      PROVE  FetchOf(c)'
  <2>1. /\ cpc'[c] = state /\ held'[c] = {} /\ collected'[c] = <<>>
        /\ UNCHANGED log
    BY <1>a, <1>4 DEF LoseProcess
  <2> QED
    BY <1>4, <2>1 DEF CollectsAlone, LogEntriesKnown, StampsDivide, CandidateNew, Running
<1>5. CASE ConsumerCrash(c)
  BY <1>4, <1>5 DEF ConsumerCrash
<1>6. CASE FinishRollback(c)
  <2>1. /\ cpc[c] = "rollback" /\ rpc[c] = "idle" /\ cidx[c] = NumSlots
        /\ LoseProcess(c, "idle")
    BY <1>6 DEF FinishRollback, RollbackEnd
  <2>2. \A s \in Slots : log[c][s] = "free"
    BY <2>1, ControlAssumption DEF CountInvariant, RollbackProgress, Slots
  <2> QED
    BY <1>4, <2>1, <2>2
<1>7. CASE StartRollback(c) \/ RollbackSlot(c)
  <2>1. /\ ~Running(c) /\ ~Running(c)' /\ UNCHANGED <<slots, held, lastTs, collected, chigh>>
    BY <1>a, <1>7 DEF StartRollback, RollbackSlot, Running
  <2> QED
    BY <2>1 DEF Running, CollectsAlone, LogEntriesKnown, StampsDivide, CandidateNew
<1>8. CASE Resubscribe(c)
  <2>1. /\ cpc[c] = "idle" /\ held[c] = {}
        /\ UNCHANGED <<slots, log, held, cpc, rpc, rslot, collected, chigh, ccand, cstat>>
    BY <1>a, <1>8 DEF Resubscribe
  <2>2. CollectedSlots(c)' = CollectedSlots(c) /\ collected[c] = <<>>
    BY <2>1 DEF CollectedSlots, CollectsAlone
  <2>3. LogEntriesKnown(c)'
    BY <2>1, <2>2 DEF LogEntriesKnown, Running
  <2> QED
    BY <2>1, <2>2, <2>3 DEF CollectsAlone, StampsDivide, CandidateNew
<1> QED
  BY <1>1, <1>2, <1>3, <1>5, <1>6, <1>7, <1>8

(* FetchInvariant is inductive on top of the counts.                       *)
LEMMA FetchStep ==
    ASSUME ~ConcurrentRelease, TypeOK, CountInvariant, FetchInvariant, [Next]_vars
    PROVE  FetchInvariant'
<1>1. CASE UNCHANGED vars
  BY <1>1
     DEF vars, slotVars, conVars, scanVars, collectVars, sampleVars, releaseVars,
         FetchInvariant, FetchOf, CollectsAlone, LogEntriesKnown, StampsDivide, CandidateNew,
         Running, CollectedSlots
<1>2. CASE Next
  <2> SUFFICES ASSUME NEW d \in Consumers PROVE FetchOf(d)'
    BY DEF FetchInvariant
  <2>0. FetchOf(d)
    BY DEF FetchInvariant
  <2>1. CASE \/ Allocate \/ PublisherStep \/ PublisherCrash \/ PrepareOffer
             \/ \E s \in Slots : EventReady(s) \/ Discard(s)
    BY <1>2, <2>0, <2>1, PublisherMoves, FetchUnmoved
  <2>2. ASSUME NEW c \in Consumers,
               \/ \E n \in 1 .. MaxSamples[c] : GetNewSamples(c, n)
               \/ ConsumerStep(c) \/ ConsumerCrash(c) \/ StartRollback(c)
               \/ Resubscribe(c) \/ \E s \in Slots : ReleaseSample(c, s)
        PROVE  FetchOf(d)'
    <3>1. CASE d # c
      BY <1>2, <2>0, <2>2, <3>1, ConsumerMoves, FetchUnmoved
    <3>2. CASE d = c
      BY <1>2, <2>0, <2>2, <3>2, CollectFetch, ReleaseFetch DEF ConsumerStep
    <3> QED
      BY <3>1, <3>2
  <2> QED
    BY <1>2, <2>1, <2>2, NextSplit
<1> QED
  BY <1>1, <1>2

(* What GetNewSamples hands out is ordered, new and held once, and the     *)
(* preconditions of the transaction log hold wherever they are asserted,   *)
(* for every interleaving with the publisher, the other consumers and      *)
(* crashes, provided the user releases samples outside GetNewSamples only. *)
THEOREM FetchCorrect == ~ConcurrentRelease /\ Spec => []FetchedRight
<1> SUFFICES ASSUME ~ConcurrentRelease PROVE Spec => []FetchedRight
  OBVIOUS
<1>1. Init => FetchInvariant
  BY DEF Init, FetchInvariant, FetchOf, CollectsAlone, LogEntriesKnown, StampsDivide,
         CandidateNew, Running
<1>2. TypeOK /\ CountInvariant /\ FetchInvariant /\ [Next]_vars => FetchInvariant'
  BY FetchStep
<1>3. ASSUME TypeOK, CountInvariant, FetchInvariant PROVE FetchedRight
  <2>1. DeliveredInOrder
    BY <1>3 DEF DeliveredInOrder, FetchInvariant, FetchOf, StampsDivide
  <2>2. LogPreconditionsHold
    <3> SUFFICES ASSUME NEW c \in Consumers
                 PROVE  /\ cpc[c] = "scan" /\ cidx[c] = NumSlots /\ ccand[c] # NoSlot
                              => log[c][ccand[c]] = "free"
                        /\ cpc[c] \in {"cas", "commit"}
                              => log[c][ccand[c]] = "incrementing"
                        /\ \A s \in held[c] : log[c][s] = "referenced"
                        /\ rpc[c] = "finish" => log[c][rslot[c]] = "decrementing"
      BY DEF LogPreconditionsHold
    <3>1. cpc[c] = "scan" /\ ccand[c] # NoSlot => log[c][ccand[c]] = "free"
      <4>1. ccand[c] \in Slots \union {NoSlot}
        BY <1>3 DEF TypeOK, ScanTypeOK
      <4> QED
        BY <1>3, <4>1 DEF FetchInvariant, FetchOf, CollectsAlone, LogEntriesKnown,
                          CandidateNew, Running
    <3>2. cpc[c] \in {"cas", "commit"} => log[c][ccand[c]] = "incrementing"
      BY <1>3 DEF CountInvariant, CollectorLogged
    <3>3. \A s \in held[c] : log[c][s] = "referenced"
      BY <1>3 DEF CountInvariant, SamplesLogged
    <3>4. rpc[c] = "finish" => log[c][rslot[c]] = "decrementing"
      BY <1>3 DEF CountInvariant, ReleaseLogged
    <3> QED
      BY <3>1, <3>2, <3>3, <3>4
  <2> QED
    BY <2>1, <2>2 DEF FetchedRight
<1> QED
  BY <1>1, <1>2, <1>3, CountsCorrect, PTL DEF Spec

-----------------------------------------------------------------------------
(* Sets of slots are finite.                                               *)
LEMMA SlotSets ==
    ASSUME NEW S \in SUBSET Slots
    PROVE  /\ IsFiniteSet(S) /\ Cardinality(S) \in Nat
           /\ \A T \in SUBSET S : Cardinality(T) <= Cardinality(S)
           /\ \A s \in S : Cardinality(S \ {s}) = Cardinality(S) - 1
           /\ \A s \in Slots \ S : Cardinality(S \union {s}) = Cardinality(S) + 1
           /\ \A T \in SUBSET Slots : S \intersect T = {} =>
                 Cardinality(S \union T) = Cardinality(S) + Cardinality(T)
           /\ Cardinality(Slots) = NumSlots
<1>1. IsFiniteSet(Slots) /\ Cardinality(Slots) = NumSlots
  BY FS_Interval, ControlAssumption DEF Slots
<1>2. \A T \in SUBSET Slots : IsFiniteSet(T) /\ Cardinality(T) \in Nat
  BY <1>1, FS_Subset, FS_CardinalityType
<1>3. \A T \in SUBSET S : Cardinality(T) <= Cardinality(S)
  BY <1>2, FS_Subset
<1>4. \A s \in S : Cardinality(S \ {s}) = Cardinality(S) - 1
  BY <1>2, FS_RemoveElement
<1>5. \A s \in Slots \ S : Cardinality(S \union {s}) = Cardinality(S) + 1
  BY <1>2, FS_AddElement
<1>6. ASSUME NEW T \in SUBSET Slots, S \intersect T = {}
      PROVE  Cardinality(S \union T) = Cardinality(S) + Cardinality(T)
  <2>1. Cardinality(S \union T) =
           Cardinality(S) + Cardinality(T) - Cardinality(S \intersect T)
    BY <1>2, FS_Union
  <2>2. Cardinality(S \intersect T) = 0
    BY <1>6, FS_EmptySet
  <2> QED
    BY <1>2, <2>1, <2>2
<1> QED
  BY <1>1, <1>2, <1>3, <1>4, <1>5, <1>6

(* Only its own exchange adds to what is counted for a consumer.           *)
LEMMA CountedShrinks ==
    ASSUME TypeOK, CountInvariant, Next, NEW d \in Consumers, ~ReferenceSlot(d)
    PROVE  counted'[d] \subseteq counted[d]
<1>1. counted \in [Consumers -> SUBSET Slots] /\ TypeOK'
  BY Inductive DEF TypeOK, SharedTypeOK
<1>2. counted' \in [Consumers -> SUBSET Slots]
  BY <1>1 DEF TypeOK, SharedTypeOK
<1>3. ASSUME NEW s \in counted'[d] PROVE s \in counted[d]
  <2>1. s \in Slots /\ d \in Counters(s)'
    BY <1>2, <1>3 DEF Counters
  <2>2. CASE Counters(s)' \subseteq Counters(s)
    BY <2>1, <2>2 DEF Counters
  <2>3. ASSUME NEW c \in Consumers, ReferenceSlot(c) PROVE s \in counted[d]
    BY <1>1, <1>3, <2>3 DEF ReferenceSlot
  <2> QED
    BY <2>1, <2>2, <2>3, CountersMove
<1> QED
  BY <1>3

(* A consumer whose guards do not move keeps within its budget.            *)
LEMMA BudgetUnmoved ==
    ASSUME TypeOK, NEW d \in Consumers, GuardsBalance(d),
           tracker'[d] = tracker[d], cmax'[d] = cmax[d], held'[d] = held[d],
           collected'[d] = collected[d], cpc'[d] = cpc[d],
           counted'[d] \subseteq counted[d]
    PROVE  GuardsBalance(d)'
<1>1. counted[d] \in SUBSET Slots /\ MaxSamples[d] \in Nat
  BY ControlAssumption DEF TypeOK, SharedTypeOK
<1>2. counted'[d] \in SUBSET Slots
  BY <1>1
<1>3. Cardinality(counted'[d]) <= Cardinality(counted[d])
  BY <1>1, SlotSets
<1>4. Cardinality(counted'[d]) \in Nat /\ Cardinality(counted[d]) \in Nat
  BY <1>1, <1>2, SlotSets
<1>5. Cardinality(counted'[d]) <= MaxSamples[d]
  BY <1>1, <1>3, <1>4 DEF GuardsBalance
<1>6. CollectedSlots(d)' = CollectedSlots(d)
  BY DEF CollectedSlots
<1> QED
  BY <1>5, <1>6 DEF GuardsBalance

(* The publisher locks a slot only for the user, within MaxAllocations.    *)
LEMMA PublisherBudget ==
    ASSUME TypeOK, CountInvariant, BudgetInvariant,
           \/ Allocate \/ PublisherStep \/ PublisherCrash \/ PrepareOffer
           \/ \E s \in Slots : EventReady(s) \/ Discard(s)
    PROVE  BudgetInvariant'
<1> USE DEF slotVars, conVars, scanVars, collectVars, sampleVars, releaseVars
<1>a. slots \in [Slots -> SlotStatus] /\ allocated \in SUBSET Slots
      /\ psel \in Slots \union {NoSlot} /\ leaked \in BOOLEAN
  BY DEF TypeOK, SharedTypeOK, PublisherTypeOK
<1>b. \A c \in Consumers : GuardsBalance(c)'
  <2> TAKE c \in Consumers
  <2>1. UNCHANGED <<tracker, cmax, held, collected, cpc, counted>>
    BY DEF Allocate, PublisherStep, FindOldestUnusedSlot, LockSlot, AllocateRetry,
           PublisherCrash, PrepareOffer, EventReady, Discard
  <2> QED
    BY <2>1, BudgetUnmoved DEF BudgetInvariant
<1>c. ~IsInWriting(INVALID)
  BY StatusConstants DEF IsInWriting
<1>d. WriterWithinBudget' => BudgetInvariant'
  BY <1>b DEF BudgetInvariant
<1>1. CASE Allocate
  BY <1>1, <1>d DEF Allocate, BudgetInvariant, WriterWithinBudget
<1>2. CASE FindOldestUnusedSlot \/ AllocateRetry
  BY <1>2, <1>d DEF FindOldestUnusedSlot, AllocateRetry, BudgetInvariant, WriterWithinBudget
<1>3. CASE LockSlot
  BY <1>3, <1>a, <1>d DEF LockSlot, BudgetInvariant, WriterWithinBudget
<1>4. CASE PublisherCrash
  BY <1>4, <1>d DEF PublisherCrash, WriterWithinBudget
<1>5. CASE PrepareOffer
  BY <1>5, <1>a, <1>c, <1>d
     DEF PrepareOffer, RemoveAllocationsForWriting, WriterWithinBudget
<1>6. ASSUME NEW s \in Slots, EventReady(s) PROVE BudgetInvariant'
  BY <1>6, <1>a, <1>d DEF EventReady, BudgetInvariant, WriterWithinBudget
<1>7. ASSUME NEW s \in Slots, Discard(s) PROVE BudgetInvariant'
  BY <1>7, <1>a, <1>c, <1>d
     DEF Discard, DiscardedStatus, BudgetInvariant, WriterWithinBudget
<1> QED
  BY <1>1, <1>2, <1>3, <1>4, <1>5, <1>6, <1>7 DEF PublisherStep

(* A consumer takes no slot for writing and none from the user.            *)
LEMMA ConsumerLeavesWriter ==
    ASSUME TypeOK, CountInvariant, WriterWithinBudget, NEW c \in Consumers,
           \/ \E n \in 1 .. MaxSamples[c] : GetNewSamples(c, n)
           \/ ConsumerStep(c) \/ ConsumerCrash(c) \/ StartRollback(c)
           \/ Resubscribe(c) \/ \E s \in Slots : ReleaseSample(c, s)
    PROVE  WriterWithinBudget'
<1> USE DEF slotVars, pubVars, NoSlot
<1>a. /\ slots \in [Slots -> SlotStatus]
      /\ ccand \in [Consumers -> Slots \union {NumSlots}]
      /\ rslot \in [Consumers -> Slots \union {NumSlots}]
  BY DEF TypeOK, SharedTypeOK, ScanTypeOK, SampleTypeOK
<1>b. \A s \in Slots : Counters(s) \in SUBSET Consumers
  BY DEF Counters
<1>1. CASE ReferenceSlot(c)
  <2> DEFINE k == ccand[c]
  <2>1. k \in Slots /\ slots[k] = cstat[c] /\ slots[k].ts > 0
    BY <1>a, <1>1 DEF ReferenceSlot, CountInvariant, CollectorLogged
  <2>2. ~IsInWriting(slots[k])
    BY <2>1 DEF IsInWriting, IN_WRITING
  <2>3. slots[k].refs < RefCountMax
    BY <1>b, <2>1, <2>2, ConsumerCount DEF CountInvariant, CountsExact
  <2>4. ~IsInWriting(Increment(slots[k]))
    <3>1. Increment(slots[k]).ts > 0
      BY <1>a, <2>1, <2>3, StatusArithmetic
    <3> QED
      BY <3>1 DEF IsInWriting, IN_WRITING
  <2>5. slots' = [slots EXCEPT ![k] = Increment(slots[k])] /\ UNCHANGED pubVars
    BY <1>1, <2>1 DEF ReferenceSlot
  <2> QED
    BY <1>a, <2>1, <2>4, <2>5 DEF WriterWithinBudget
<1>2. CASE DereferenceSlot(c)
  <2> DEFINE k == rslot[c]
  <2>1. k \in Slots /\ c \in Counters(k)
    BY <1>a, <1>2 DEF DereferenceSlot, CountInvariant, ReleaseLogged, Counters
  <2>2. slots[k].refs > 0 /\ slots[k].refs < RefCountMax /\ slots[k].refs \in Nat
    BY <1>b, <2>1, ConsumerCount DEF CountInvariant, CountsExact
  <2>3. ~IsInWriting(Decrement(slots[k]))
    <3>1. Decrement(slots[k]).refs < RefCountMax
      BY <1>a, <2>1, <2>2, StatusArithmetic, StatusAssumption
    <3> QED
      BY <3>1, StatusAssumption DEF IsInWriting, IN_WRITING
  <2>4. slots' = [slots EXCEPT ![k] = Decrement(slots[k])] /\ UNCHANGED pubVars
    BY <1>2, <2>1 DEF DereferenceSlot
  <2> QED
    BY <1>a, <2>1, <2>3, <2>4 DEF WriterWithinBudget
<1>3. CASE \/ \E n \in 1 .. MaxSamples[c] : GetNewSamples(c, n)
           \/ ScanSlot(c) \/ NothingFound(c) \/ ReferenceTransactionBegin(c)
           \/ ReferenceTransactionAbort(c) \/ ReferenceTransactionCommit(c)
           \/ Deliver(c) \/ DereferenceTransactionCommit(c) \/ RollbackSlot(c)
           \/ FinishRollback(c) \/ ConsumerCrash(c) \/ StartRollback(c)
           \/ Resubscribe(c) \/ \E s \in Slots : ReleaseSample(c, s)
  <2>1. UNCHANGED <<slots, pubVars>>
    BY <1>3
       DEF GetNewSamples, ScanSlot, NothingFound, ReferenceTransactionBegin,
           ReferenceTransactionAbort, ReferenceTransactionCommit, Deliver,
           DereferenceTransactionCommit, RollbackSlot, FinishRollback,
           ConsumerCrash, StartRollback, Resubscribe, ReleaseSample, LoseProcess
  <2> QED
    BY <2>1 DEF WriterWithinBudget
<1> QED
  BY <1>1, <1>2, <1>3 DEF ConsumerStep

(* The steps of a consumer whose own guards move.                          *)
LEMMA GuardSteps ==
    ASSUME TypeOK, CountInvariant, FetchInvariant, NEW c \in Consumers,
           GuardsBalance(c), Next,
           \/ \E n \in 1 .. MaxSamples[c] : GetNewSamples(c, n)
           \/ ConsumerStep(c) \/ ConsumerCrash(c) \/ StartRollback(c)
           \/ Resubscribe(c) \/ \E s \in Slots : ReleaseSample(c, s)
    PROVE  GuardsBalance(c)'
<1> USE DEF slotVars, pubVars, scanVars, collectVars, sampleVars, releaseVars, NoSlot
<1>a. /\ held \in [Consumers -> SUBSET Slots] /\ held[c] \in SUBSET Slots
      /\ collected \in [Consumers -> Seq(Slots)] /\ collected[c] \in Seq(Slots)
      /\ cpc \in [Consumers -> ConStates]
      /\ ccand \in [Consumers -> Slots \union {NumSlots}]
      /\ counted \in [Consumers -> SUBSET Slots] /\ counted[c] \in SUBSET Slots
      /\ cmax \in [Consumers -> Nat] /\ cmax[c] \in Nat
      /\ tracker \in [Consumers -> Int]
  BY DEF TypeOK, SharedTypeOK, ScanTypeOK, CollectTypeOK, SampleTypeOK
<1>b. CollectedSlots(c) \in SUBSET Slots
  BY <1>a DEF CollectedSlots
<1>c. MaxSamples[c] \in Nat \ {0}
  BY ControlAssumption
<1>d. /\ Cardinality(held[c]) \in Nat /\ Cardinality(counted[c]) \in Nat
      /\ Cardinality(CollectedSlots(c)) \in Nat /\ Len(collected[c]) \in Nat
  BY <1>a, <1>b, SlotSets
<1>e. /\ tracker[c] \in Nat
      /\ tracker[c] + cmax[c] + Cardinality(held[c]) = MaxSamples[c]
      /\ Cardinality(CollectedSlots(c)) = Len(collected[c])
      /\ cpc[c] \in {"scan", "cas", "commit"} => Len(collected[c]) < cmax[c]
      /\ cpc[c] = "deliver" => Len(collected[c]) <= cmax[c]
      /\ cpc[c] = "idle" => cmax[c] = 0
      /\ Cardinality(counted[c]) <= MaxSamples[c]
  BY DEF GuardsBalance
<1>f. ASSUME counted'[c] \subseteq counted[c]
      PROVE  Cardinality(counted'[c]) <= MaxSamples[c]
  <2>1. Cardinality(counted'[c]) <= Cardinality(counted[c])
    BY <1>a, <1>f, SlotSets
  <2>2. Cardinality(counted'[c]) \in Nat
    BY <1>a, <1>f, SlotSets
  <2> QED
    BY <1>c, <1>d, <1>e, <2>1, <2>2
<1>1. ASSUME NEW n \in 1 .. MaxSamples[c], GetNewSamples(c, n) PROVE GuardsBalance(c)'
  <2>1. /\ n \in 1 .. tracker[c] /\ cpc[c] = "idle" /\ cpc'[c] = "scan"
        /\ tracker'[c] = tracker[c] - n /\ cmax'[c] = n /\ collected'[c] = <<>>
        /\ UNCHANGED <<held, counted>>
    BY <1>a, <1>1 DEF GetNewSamples
  <2>2. CollectedSlots(c)' = {} /\ Len(collected'[c]) = 0
    BY <2>1 DEF CollectedSlots
  <2>3. Cardinality(CollectedSlots(c)') = 0
    BY <2>2, FS_EmptySet
  <2>4. tracker'[c] \in Nat /\ tracker'[c] + cmax'[c] = tracker[c] + cmax[c]
    BY <1>a, <1>e, <2>1
  <2>5. /\ tracker'[c] + cmax'[c] + Cardinality(held'[c]) = MaxSamples[c]
        /\ Cardinality(counted'[c]) <= MaxSamples[c]
    BY <1>d, <1>e, <2>1, <2>4
  <2> QED
    BY <2>1, <2>2, <2>3, <2>4, <2>5 DEF GuardsBalance
<1>2. CASE \/ ScanSlot(c) \/ ReferenceTransactionBegin(c) \/ DereferenceSlot(c)
           \/ DereferenceTransactionCommit(c) \/ Resubscribe(c)
  <2>1. /\ UNCHANGED <<tracker, cmax, held, collected>> /\ cpc'[c] \in {cpc[c], "cas"}
        /\ cpc'[c] = "cas" => cpc[c] \in {"scan", "cas"}
        /\ counted'[c] \subseteq counted[c]
    BY <1>a, <1>2 DEF ScanSlot, ReferenceTransactionBegin, DereferenceSlot,
                      DereferenceTransactionCommit, Resubscribe
  <2>2. CollectedSlots(c)' = CollectedSlots(c)
    BY <2>1 DEF CollectedSlots
  <2> QED
    BY <1>e, <1>f, <2>1, <2>2 DEF GuardsBalance
<1>3. CASE NothingFound(c) \/ ReferenceTransactionAbort(c)
  <2>1. /\ UNCHANGED <<tracker, cmax, held, collected, counted>>
        /\ cpc[c] \in {"scan", "cas"} /\ cpc'[c] \in {"scan", "deliver"}
    BY <1>a, <1>3 DEF NothingFound, ReferenceTransactionAbort
  <2>2. CollectedSlots(c)' = CollectedSlots(c)
    BY <2>1 DEF CollectedSlots
  <2> QED
    BY <1>a, <1>d, <1>e, <2>1, <2>2 DEF GuardsBalance
<1>4. CASE ReferenceSlot(c)
  <2>1. /\ UNCHANGED <<log, tracker, cmax, held, collected>>
        /\ cpc[c] = "cas" /\ cpc'[c] = "commit" /\ ccand[c] \in Slots
        /\ counted'[c] = counted[c] \union {ccand[c]}
        /\ ccand[c] \notin counted[c]
    BY <1>a, <1>4 DEF ReferenceSlot, CountInvariant, CollectorLogged
  <2>2. CollectedSlots(c)' = CollectedSlots(c)
    BY <2>1 DEF CollectedSlots
  <2>3. counted[c] \subseteq held[c] \union CollectedSlots(c)
    <3>1. \A s \in Slots : s \in counted[c] => log[c][s] # "free"
      BY DEF CountInvariant, LogRecordsCounted
    <3>2. rpc[c] = "idle" /\ Running(c)
      BY <2>1 DEF FetchInvariant, FetchOf, CollectsAlone, Running
    <3> QED
      BY <1>a, <2>1, <3>1, <3>2 DEF FetchInvariant, FetchOf, LogEntriesKnown
  <2>4. held[c] \intersect CollectedSlots(c) = {}
    BY DEF CountInvariant, SamplesLogged
  <2>5. held[c] \union CollectedSlots(c) \in SUBSET Slots
    BY <1>a, <1>b
  <2>6. Cardinality(counted[c]) <= Cardinality(held[c] \union CollectedSlots(c))
    BY <2>3, <2>5, SlotSets
  <2>7. Cardinality(held[c] \union CollectedSlots(c)) =
           Cardinality(held[c]) + Cardinality(CollectedSlots(c))
    BY <1>a, <1>b, <2>4, SlotSets
  <2>8. Cardinality(counted'[c]) = Cardinality(counted[c]) + 1
    BY <1>a, <2>1, SlotSets
  <2>9. Cardinality(counted'[c]) <= MaxSamples[c]
    BY <1>a, <1>c, <1>d, <1>e, <2>1, <2>6, <2>7, <2>8
  <2> QED
    BY <1>e, <2>1, <2>2, <2>9 DEF GuardsBalance
<1>5. CASE ReferenceTransactionCommit(c)
  <2>1. /\ UNCHANGED <<tracker, cmax, held, counted>>
        /\ cpc[c] = "commit" /\ ccand[c] \in Slots /\ log[c][ccand[c]] = "incrementing"
        /\ collected'[c] = Append(collected[c], ccand[c])
        /\ \/ cpc'[c] = "scan" /\ Len(collected[c]) + 1 < cmax[c]
           \/ cpc'[c] = "deliver"
    BY <1>a, <1>5 DEF ReferenceTransactionCommit, CountInvariant, CollectorLogged
  <2>2. CollectedSlots(c)' = CollectedSlots(c) \union {ccand[c]}
    BY <1>a, <2>1, AppendedSlot
  <2>3. ccand[c] \notin CollectedSlots(c)
    BY <2>1 DEF CountInvariant, SamplesLogged
  <2>4. Cardinality(CollectedSlots(c)') = Cardinality(CollectedSlots(c)) + 1
    BY <1>b, <2>1, <2>2, <2>3, SlotSets
  <2>5. Len(collected'[c]) = Len(collected[c]) + 1
    BY <1>a, <2>1
  <2> QED
    BY <1>a, <1>d, <1>e, <2>1, <2>4, <2>5 DEF GuardsBalance
<1>6. CASE Deliver(c)
  <2>1. /\ UNCHANGED counted /\ cpc[c] = "deliver" /\ cpc'[c] = "idle"
        /\ held'[c] = held[c] \union CollectedSlots(c)
        /\ tracker'[c] = tracker[c] + cmax[c] - Len(collected[c])
        /\ cmax'[c] = 0 /\ collected'[c] = <<>>
    BY <1>a, <1>6 DEF Deliver
  <2>2. CollectedSlots(c)' = {} /\ Len(collected'[c]) = 0
    BY <2>1 DEF CollectedSlots
  <2>3. Cardinality(CollectedSlots(c)') = 0
    BY <2>2, FS_EmptySet
  <2>4. held[c] \intersect CollectedSlots(c) = {}
    BY DEF CountInvariant, SamplesLogged
  <2>5. Cardinality(held'[c]) = Cardinality(held[c]) + Cardinality(CollectedSlots(c))
    BY <1>a, <1>b, <2>1, <2>4, SlotSets
  <2>6. tracker'[c] \in Nat /\ tracker'[c] + cmax'[c] + Cardinality(held'[c]) = MaxSamples[c]
    BY <1>a, <1>d, <1>e, <2>1, <2>5
  <2> QED
    BY <1>e, <2>1, <2>2, <2>3, <2>6 DEF GuardsBalance
<1>7. ASSUME NEW state, state \in {"crashed", "idle"}, LoseProcess(c, state)
      PROVE  GuardsBalance(c)'
  <2>1. /\ UNCHANGED counted /\ held'[c] = {} /\ cpc'[c] = state
        /\ tracker'[c] = MaxSamples[c] /\ cmax'[c] = 0 /\ collected'[c] = <<>>
    BY <1>a, <1>7 DEF LoseProcess
  <2>2. CollectedSlots(c)' = {} /\ Len(collected'[c]) = 0
    BY <2>1 DEF CollectedSlots
  <2>3. Cardinality({}) = 0
    BY FS_EmptySet
  <2> QED
    BY <1>c, <1>e, <1>7, <2>1, <2>2, <2>3 DEF GuardsBalance
<1>8. CASE ConsumerCrash(c) \/ FinishRollback(c)
  BY <1>7, <1>8 DEF ConsumerCrash, FinishRollback
<1>9. CASE StartRollback(c) \/ RollbackSlot(c)
  <2>1. /\ UNCHANGED <<tracker, cmax, held, collected, counted>>
        /\ cpc'[c] \in {"rollback", "failed"}
    BY <1>a, <1>9 DEF StartRollback, RollbackSlot
  <2>2. CollectedSlots(c)' = CollectedSlots(c)
    BY <2>1 DEF CollectedSlots
  <2> QED
    BY <1>e, <2>1, <2>2 DEF GuardsBalance
<1>10. ASSUME NEW s \in Slots, ReleaseSample(c, s) PROVE GuardsBalance(c)'
  <2>1. /\ UNCHANGED <<cmax, collected, counted, cpc>> /\ s \in held[c]
        /\ held'[c] = held[c] \ {s} /\ tracker'[c] = tracker[c] + 1
    BY <1>a, <1>10 DEF ReleaseSample
  <2>2. CollectedSlots(c)' = CollectedSlots(c)
    BY <2>1 DEF CollectedSlots
  <2>3. Cardinality(held'[c]) = Cardinality(held[c]) - 1
    BY <1>a, <2>1, SlotSets
  <2> QED
    BY <1>a, <1>d, <1>e, <2>1, <2>2, <2>3 DEF GuardsBalance
<1> QED
  BY <1>1, <1>2, <1>3, <1>4, <1>5, <1>6, <1>8, <1>9, <1>10 DEF ConsumerStep

(* BudgetInvariant is inductive on top of the others.                      *)
LEMMA BudgetStep ==
    ASSUME ~ConcurrentRelease, TypeOK, CountInvariant, FetchInvariant,
           BudgetInvariant, [Next]_vars
    PROVE  BudgetInvariant'
<1>1. CASE UNCHANGED vars
  BY <1>1
     DEF vars, slotVars, pubVars, conVars, scanVars, collectVars, sampleVars,
         releaseVars, BudgetInvariant, GuardsBalance, WriterWithinBudget, CollectedSlots
<1>2. CASE Next
  <2>1. CASE \/ Allocate \/ PublisherStep \/ PublisherCrash \/ PrepareOffer
             \/ \E s \in Slots : EventReady(s) \/ Discard(s)
    BY <2>1, PublisherBudget
  <2>2. ASSUME NEW c \in Consumers,
               \/ \E n \in 1 .. MaxSamples[c] : GetNewSamples(c, n)
               \/ ConsumerStep(c) \/ ConsumerCrash(c) \/ StartRollback(c)
               \/ Resubscribe(c) \/ \E s \in Slots : ReleaseSample(c, s)
        PROVE  BudgetInvariant'
    <3>1. WriterWithinBudget'
      BY <2>2, ConsumerLeavesWriter DEF BudgetInvariant
    <3>2. GuardsBalance(c)'
      BY <1>2, <2>2, GuardSteps DEF BudgetInvariant
    <3>3. ASSUME NEW d \in Consumers, d # c PROVE GuardsBalance(d)'
      <4>1. /\ tracker'[d] = tracker[d] /\ cmax'[d] = cmax[d] /\ held'[d] = held[d]
            /\ collected'[d] = collected[d] /\ cpc'[d] = cpc[d] /\ counted'[d] = counted[d]
        <5>a. /\ held \in [Consumers -> SUBSET Slots]
              /\ collected \in [Consumers -> Seq(Slots)]
              /\ cpc \in [Consumers -> ConStates]
              /\ counted \in [Consumers -> SUBSET Slots]
              /\ cmax \in [Consumers -> Nat]
              /\ tracker \in [Consumers -> Int]
          BY DEF TypeOK, SharedTypeOK, ScanTypeOK, CollectTypeOK, SampleTypeOK
        <5> USE DEF slotVars, collectVars, sampleVars
        <5>1. CASE \/ \E n \in 1 .. MaxSamples[c] : GetNewSamples(c, n)
                   \/ ScanSlot(c) \/ NothingFound(c) \/ ReferenceTransactionBegin(c)
                   \/ ReferenceSlot(c) \/ ReferenceTransactionAbort(c)
          BY <3>3, <5>a, <5>1 DEF GetNewSamples, ScanSlot, NothingFound,
             ReferenceTransactionBegin, ReferenceSlot, ReferenceTransactionAbort
        <5>2. CASE \/ ReferenceTransactionCommit(c) \/ Deliver(c) \/ DereferenceSlot(c)
                   \/ DereferenceTransactionCommit(c) \/ RollbackSlot(c)
          BY <3>3, <5>a, <5>2 DEF ReferenceTransactionCommit, Deliver, DereferenceSlot,
             DereferenceTransactionCommit, RollbackSlot
        <5>3. CASE \/ FinishRollback(c) \/ ConsumerCrash(c) \/ StartRollback(c)
                   \/ Resubscribe(c) \/ \E s \in Slots : ReleaseSample(c, s)
          BY <3>3, <5>a, <5>3 DEF FinishRollback, ConsumerCrash, StartRollback,
             Resubscribe, ReleaseSample, LoseProcess
        <5> QED
          BY <2>2, <5>1, <5>2, <5>3 DEF ConsumerStep
      <4> QED
        BY <4>1, BudgetUnmoved DEF BudgetInvariant
    <3> QED
      BY <3>1, <3>2, <3>3 DEF BudgetInvariant
  <2> QED
    BY <1>2, <2>1, <2>2, NextSplit
<1> QED
  BY <1>1, <1>2

(* The samples of all subscriptions are finitely many.                     *)
LEMMA PermitsFinite == IsFiniteSet(Permits) /\ Cardinality(Permits) \in Nat
<1> DEFINE P == [c \in Consumers |-> {c} \X (1 .. MaxSamples[c])]
           R == {{c} \X (1 .. MaxSamples[c]) : c \in Consumers}
<1>1. P \in Surjection(Consumers, R)
  <2>1. P \in [Consumers -> R]
    OBVIOUS
  <2>2. \A t \in R : \E c \in Consumers : P[c] = t
    OBVIOUS
  <2> QED
    BY <2>1, <2>2, Fun_IsSurj
<1>2. IsFiniteSet(R)
  BY <1>1, FS_Surjection, ControlAssumption
<1>3. \A T \in R : IsFiniteSet(T)
  <2> TAKE T \in R
  <2>1. PICK c \in Consumers : T = {c} \X (1 .. MaxSamples[c])
    OBVIOUS
  <2>2. IsFiniteSet({c}) /\ IsFiniteSet(1 .. MaxSamples[c])
    <3>1. MaxSamples[c] \in Int /\ 1 \in Int
      BY ControlAssumption
    <3>2. IsFiniteSet({c})
      BY FS_Singleton
    <3>3. IsFiniteSet(1 .. MaxSamples[c])
      BY <3>1, FS_Interval
    <3> QED
      BY <3>2, <3>3
  <2> QED
    BY <2>1, <2>2, FS_Product
<1>4. IsFiniteSet(UNION R)
  BY <1>2, <1>3, FS_UNION
<1> QED
  BY <1>4, FS_CardinalityType DEF Permits

(* A finite set of at most n elements can be numbered from 1 to n.         *)
LEMMA Numbering ==
    ASSUME NEW S, IsFiniteSet(S), NEW n \in Nat, Cardinality(S) <= n
    PROVE  \E g \in [S -> 1 .. n] : \A a, b \in S : g[a] = g[b] => a = b
<1>1. PICK m \in Nat : m = Cardinality(S) /\ ExistsBijection(1 .. m, S)
  BY FS_CardinalityType
<1> DEFINE T == 1 .. m
<1>2. ExistsBijection(T, S)
  BY <1>1
<1>3. \A x \in T : x \in 1 .. n
  BY <1>1
<1> HIDE DEF T
<1>4. ExistsBijection(S, T)
  BY <1>2, Fun_ExistsBijSymmetric
<1>5. PICK g : g \in Bijection(S, T)
  BY <1>4, Fun_ExistsBij
<1>6. g \in [S -> T] /\ \A a, b \in S : g[a] = g[b] => a = b
  BY <1>5, Fun_BijectionProperties
<1>7. g \in [S -> 1 .. n]
  BY <1>3, <1>6
<1> QED
  BY <1>6, <1>7

(* Consumers that each use at most their samples use together no more      *)
(* slots than there are samples: number the slots of each consumer.        *)
LEMMA SharedBudget ==
    ASSUME NEW K \in [Consumers -> SUBSET Slots],
           \A c \in Consumers : Cardinality(K[c]) <= MaxSamples[c]
    PROVE  Cardinality(UNION {K[c] : c \in Consumers}) <= Cardinality(Permits)
<1> DEFINE U == UNION {K[c] : c \in Consumers}
           Numbers(c) == {g \in [K[c] -> 1 .. MaxSamples[c]] :
                             \A a, b \in K[c] : g[a] = g[b] => a = b}
           f == [c \in Consumers |-> CHOOSE g : g \in Numbers(c)]
           owner == [s \in U |-> CHOOSE c \in Consumers : s \in K[c]]
           h == [s \in U |-> <<owner[s], f[owner[s]][s]>>]
<1>1. ASSUME NEW c \in Consumers PROVE f[c] \in Numbers(c)
  <2>1. IsFiniteSet(K[c]) /\ Cardinality(K[c]) \in Nat /\ MaxSamples[c] \in Nat
    BY SlotSets, ControlAssumption
  <2>2. \E g \in [K[c] -> 1 .. MaxSamples[c]] :
            \A a, b \in K[c] : g[a] = g[b] => a = b
    BY <2>1, Numbering
  <2>7. \E g : g \in Numbers(c)
    BY <2>2
  <2>8. f[c] = CHOOSE x : x \in Numbers(c)
    OBVIOUS
  <2> HIDE DEF Numbers, f
  <2> QED
    BY <2>7, <2>8
<1>2. ASSUME NEW s \in U PROVE owner[s] \in Consumers /\ s \in K[owner[s]]
  <2>1. \E c \in Consumers : s \in K[c]
    OBVIOUS
  <2> QED
    BY <2>1
<1> HIDE DEF f, owner
<1>3. ASSUME NEW s \in U PROVE f[owner[s]][s] \in 1 .. MaxSamples[owner[s]]
  BY <1>1, <1>2
<1>4. h \in [U -> Permits]
  <2> SUFFICES ASSUME NEW s \in U PROVE <<owner[s], f[owner[s]][s]>> \in Permits
    OBVIOUS
  <2> QED
    BY <1>2, <1>3 DEF Permits
<1>5. \A a, b \in U : h[a] = h[b] => a = b
  <2> SUFFICES ASSUME NEW a \in U, NEW b \in U, h[a] = h[b] PROVE a = b
    OBVIOUS
  <2>1. owner[a] = owner[b] /\ f[owner[a]][a] = f[owner[b]][b]
    OBVIOUS
  <2> QED
    BY <1>1, <1>2, <2>1
<1>6. h \in Injection(U, Permits)
  BY <1>4, <1>5, Fun_IsInj
<1> QED
  BY <1>6, PermitsFinite, FS_Injection

(* The sizing rule is enough: while an allocation searches there is an     *)
(* unused slot, however the references of running, crashed and recovering  *)
(* consumers are spread, unless a failed allocation kept a slot locked.    *)
THEOREM AllocationSucceeds ==
    ~ConcurrentRelease /\ SlotsSuffice /\ Spec => []AllocationHasAFreeSlot
<1> SUFFICES ASSUME ~ConcurrentRelease, SlotsSuffice
             PROVE  Spec => []AllocationHasAFreeSlot
  OBVIOUS
<1>1. Init => FetchInvariant
  BY DEF Init, FetchInvariant, FetchOf, CollectsAlone, LogEntriesKnown, StampsDivide,
         CandidateNew, Running
<1>2. ASSUME Init PROVE BudgetInvariant
  <2>1. Cardinality({}) = 0
    BY FS_EmptySet
  <2>2. ASSUME NEW c \in Consumers PROVE GuardsBalance(c)
    <3>1. /\ tracker[c] = MaxSamples[c] /\ cmax[c] = 0 /\ held[c] = {}
          /\ collected[c] = <<>> /\ cpc[c] = "idle" /\ counted[c] = {}
      BY <1>2 DEF Init
    <3>2. CollectedSlots(c) = {}
      BY <3>1 DEF CollectedSlots
    <3>3. MaxSamples[c] \in Nat
      BY ControlAssumption
    <3> QED
      BY <2>1, <3>1, <3>2, <3>3 DEF GuardsBalance
  <2>3. WriterWithinBudget
    BY <1>2, StatusConstants DEF Init, WriterWithinBudget, IsInWriting
  <2> QED
    BY <2>2, <2>3 DEF BudgetInvariant
<1>3. TypeOK /\ CountInvariant /\ FetchInvariant /\ [Next]_vars => FetchInvariant'
  BY FetchStep
<1>4. TypeOK /\ CountInvariant /\ FetchInvariant /\ BudgetInvariant /\ [Next]_vars
         => BudgetInvariant'
  BY BudgetStep
<1>5. ASSUME TypeOK, CountInvariant, BudgetInvariant PROVE AllocationHasAFreeSlot
  <2> SUFFICES ASSUME ppc = "find", ~leaked,
                      \A s \in Slots : IsUsed(slots[s])
               PROVE  FALSE
    BY DEF AllocationHasAFreeSlot
  <2> DEFINE U == UNION {counted[c] : c \in Consumers}
  <2>1. counted \in [Consumers -> SUBSET Slots] /\ allocated \in SUBSET Slots
    BY <1>5 DEF TypeOK, SharedTypeOK, PublisherTypeOK
  <2>2. Slots \subseteq U \union allocated
    <3> SUFFICES ASSUME NEW s \in Slots, s \notin allocated PROVE s \in U
      OBVIOUS
    <3>1. ~IsInWriting(slots[s])
      BY <1>5 DEF BudgetInvariant, WriterWithinBudget
    <3>2. slots[s].refs # 0 /\ slots[s].refs = Cardinality(Counters(s))
      BY <1>5, <3>1 DEF IsUsed, CountInvariant, CountsExact
    <3>3. Counters(s) # {}
      BY <3>2, FS_EmptySet
    <3> QED
      BY <3>3 DEF Counters
  <2>3. Cardinality(U) <= Cardinality(Permits)
    BY <1>5, <2>1, SharedBudget DEF BudgetInvariant, GuardsBalance
  <2>4. U \in SUBSET Slots
    BY <2>1
  <2> HIDE DEF U
  <2>5. /\ IsFiniteSet(U) /\ IsFiniteSet(allocated)
        /\ Cardinality(U) \in Nat /\ Cardinality(allocated) \in Nat
    BY <2>1, <2>4, SlotSets
  <2>6. /\ IsFiniteSet(U \union allocated)
        /\ Cardinality(U \union allocated) =
              Cardinality(U) + Cardinality(allocated) - Cardinality(U \intersect allocated)
    BY <2>5, FS_Union
  <2>7. Cardinality(U \intersect allocated) \in Nat
    BY <2>1, <2>4, SlotSets
  <2>8. Slots \in SUBSET (U \union allocated) /\ Cardinality(Slots) = NumSlots
    BY <2>2, <2>4, SlotSets
  <2>9. NumSlots <= Cardinality(U \union allocated)
    BY <2>6, <2>8, FS_Subset
  <2>10. Cardinality(allocated) < MaxAllocations
    BY <1>5 DEF BudgetInvariant, WriterWithinBudget
  <2>11. Cardinality(Permits) + MaxAllocations <= NumSlots
    BY DEF SlotsSuffice, Permits
  <2> QED
    BY <2>3, <2>5, <2>6, <2>7, <2>9, <2>10, <2>11, PermitsFinite, ControlAssumption
<1> QED
  BY <1>1, <1>2, <1>3, <1>4, <1>5, CountsCorrect, PTL DEF Spec
=============================================================================
