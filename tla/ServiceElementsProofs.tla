----------------------- MODULE ServiceElementsProofs -----------------------
(***************************************************************************)
(* Theorems about the service elements, for any number of events, fields,  *)
(* samples, updates and offers.  ElementInvariant is the inductive         *)
(* invariant.  The actions of the skeleton leave the consumer alone and    *)
(* those of the proxy the provider and the memory, so the two sides are    *)
(* treated apart; the memory is where they meet.                           *)
(***************************************************************************)
EXTENDS ServiceElements, FiniteSetTheorems, NaturalsInduction, WellFoundedInduction, TLAPS

(* A set of naturals with an element has a least element.                  *)
LEMMA LeastExists ==
    ASSUME NEW T \in SUBSET Nat, T # {}
    PROVE  Min(T) \in T /\ \A t \in T : Min(T) <= t
<1>1. PICK x \in T : \A y \in T : ~(<<y, x>> \in OpToRel(<, Nat))
  BY NatLessThanWellFounded, WFMin
<1>2. \A y \in T : ~(y < x)
  BY <1>1 DEF OpToRel
<1>3. \A y \in T : x <= y
  BY <1>2
<1> QED
  BY <1>3 DEF Min

(* A bounded set of naturals with an element has a greatest element.       *)
LEMMA GreatestExists ==
    ASSUME NEW n \in Nat, NEW T \in SUBSET (0 .. n), T # {}
    PROVE  Max(T) \in T /\ \A t \in T : t <= Max(T)
<1> DEFINE D == {n - t : t \in T}
<1>1. D \subseteq Nat /\ D # {}
  <2>1. PICK t \in T : TRUE
    OBVIOUS
  <2>2. n - t \in D
    OBVIOUS
  <2>3. ASSUME NEW d \in D PROVE d \in Nat
    <3>1. PICK u \in T : d = n - u
      OBVIOUS
    <3> QED
      BY <3>1
  <2> QED
    BY <2>2, <2>3
<1>2. PICK x \in D : \A y \in D : ~(<<y, x>> \in OpToRel(<, Nat))
  BY <1>1, NatLessThanWellFounded, WFMin
<1>3. \A y \in D : ~(y < x)
  BY <1>1, <1>2 DEF OpToRel
<1>4. PICK m \in T : x = n - m
  OBVIOUS
<1>5. \A t \in T : m >= t
  <2> TAKE t \in T
  <2>1. n - t \in D
    OBVIOUS
  <2>2. ~(n - t < n - m)
    BY <1>3, <1>4, <2>1
  <2> QED
    BY <2>2
<1> QED
  BY <1>5 DEF Max

(* The smaller of two numbers.                                             *)
LEMMA SmallerOfTwo ==
    ASSUME NEW a \in Nat, NEW b \in Nat
    PROVE  Min({a, b}) \in Nat /\ Min({a, b}) <= a /\ Min({a, b}) <= b
<1>1. {a, b} \in SUBSET Nat /\ {a, b} # {}
  OBVIOUS
<1>2. \E x \in {a, b} : \A y \in {a, b} : x <= y
  OBVIOUS
<1>3. Min({a, b}) \in {a, b} /\ \A y \in {a, b} : Min({a, b}) <= y
  BY <1>2 DEF Min
<1> QED
  BY <1>3

(* There are at most n numbers with fewer than n greater ones, so no more  *)
(* samples are collected than there are guards.                            *)
LEMMA NewestCounted ==
    ASSUME NEW n \in Nat, NEW T \in SUBSET Nat, IsFiniteSet(T), NEW S,
           S = {t \in T : Cardinality({u \in T : u > t}) < n}
    PROVE  IsFiniteSet(S) /\ Cardinality(S) <= n
<1>0. S \in SUBSET T
  OBVIOUS
<1>1. IsFiniteSet(S) /\ Cardinality(S) \in Nat
  BY <1>0, FS_Subset, FS_CardinalityType
<1>2. CASE S = {}
  <2>1. Cardinality(S) = 0
    BY <1>1, <1>2, FS_EmptySet
  <2> QED
    BY <1>1, <2>1
<1>3. CASE S # {}
  <2> DEFINE m == Min(S)
  <2>1. m \in S /\ \A y \in S : m <= y
    BY <1>0, <1>3, LeastExists
  <2> HIDE DEF m
  <2> DEFINE U == {u \in T : u > m}
  <2>a. U \in SUBSET T
    OBVIOUS
  <2>2. IsFiniteSet(U) /\ Cardinality(U) \in Nat
    BY <2>a, FS_Subset, FS_CardinalityType
  <2>3. Cardinality(U) < n
    BY <2>1
  <2>4. S \subseteq U \cup {m}
    <3> SUFFICES ASSUME NEW y \in S, y # m PROVE y > m
      BY <1>0
    <3>1. m <= y /\ m \in Nat /\ y \in Nat
      BY <1>0, <2>1
    <3> QED
      BY <3>1
  <2> HIDE DEF U
  <2> DEFINE V == U \cup {m}
  <2> HIDE DEF U
  <2>5. S \in SUBSET V
    BY <2>4
  <2>6. /\ IsFiniteSet(V)
        /\ Cardinality(V) = IF m \in U THEN Cardinality(U) ELSE Cardinality(U) + 1
    BY <2>2, FS_AddElement
  <2> HIDE DEF V
  <2>7. Cardinality(V) \in Nat /\ Cardinality(S) <= Cardinality(V)
    BY <2>5, <2>6, FS_Subset, FS_CardinalityType
  <2> QED
    BY <1>1, <2>2, <2>3, <2>6, <2>7
<1> QED
  BY <1>2, <1>3

-----------------------------------------------------------------------------
(* The types of the two sides.                                             *)
ProviderTypes ==
    /\ skeleton \in {"idle", "offering", "gone"}
    /\ toPrepare \subseteq Elements
    /\ offered \in BOOLEAN
    /\ elementOffered \in [Elements -> BOOLEAN]
    /\ prepared \in [Fields -> BOOLEAN]
    /\ initialValue \in [Fields -> 0 .. MaxUpdates]
    /\ clock \in [Elements -> Nat]
    /\ accepted \in [Fields -> 0 .. MaxUpdates]
    /\ updates \in 0 .. MaxUpdates
    /\ offers \in 0 .. MaxOffers
    /\ generation \in 0 .. MaxOffers
    /\ present \in BOOLEAN
    /\ slots \in [Elements -> SUBSET Nat]
    /\ newest \in [Fields -> 0 .. MaxUpdates]
    /\ preparedIn \in [Fields -> 0 .. MaxOffers]
    /\ inDiscovery \in BOOLEAN

ConsumerTypes ==
    /\ proxy \in {"none", "connected"}
    /\ isAvailable \in BOOLEAN
    /\ registered \subseteq Watched
    /\ providerSeen \in [Watched -> BOOLEAN]
    /\ subscription \in [Watched -> {"not_subscribed", "pending", "subscribed"}]
    /\ maxSamples \in [Watched -> {0, SampleCount}]
    /\ available \in [Watched -> Nat]
    /\ \A e \in Watched : available[e] \in 0 .. maxSamples[e]
    /\ lastSeen \in [Watched -> Nat]
    /\ call.at \in {"idle", "allocate", "dispatch", "deliver"}
    /\ samples \in [Watched -> SUBSET Nat]
    /\ releasing \in [Watched -> SUBSET Nat]

(* TypeOK is the types of the provider with the memory, and of the         *)
(* consumer.                                                               *)
LEMMA TypesOfBoth == TypeOK <=> ProviderTypes /\ ConsumerTypes
BY DEF TypeOK, ProviderTypes, ConsumerTypes

(* Nothing of the consumer's changes with a step of the provider.          *)
LEMMA ConsumerStays ==
    ASSUME ConsumerTypes, ConsumerInvariant, UNCHANGED consumer
    PROVE  ConsumerTypes' /\ ConsumerInvariant'
BY DEF ConsumerTypes, ConsumerInvariant, GuardsAccounted, CallOfSubscriber, SamplesOfSubscriber,
       CollectedOnce, EventsKnowService, SubscriptionFollowsService, consumer, proxyVars,
       trackerVars, sampleVars

(* Nothing of the provider's changes with a step of the consumer.          *)
LEMMA ProviderStays ==
    ASSUME ProviderTypes, ProviderInvariant, UNCHANGED <<provider, memory>>
    PROVE  ProviderTypes' /\ ProviderInvariant'
BY DEF ProviderTypes, ProviderInvariant, SendsReachMemory, OfferEndsWithSkeleton, OfferComplete,
       FieldsShown, StampsIssued, provider, skeletonVars, eventVars, fieldVars, memory

-----------------------------------------------------------------------------
(* A new sample replaces no slot that is referenced.                       *)
LEMMA KeptSlots ==
    ASSUME ProviderTypes, SamplesStay, NEW e \in Elements, SlotFree(e)
    PROVE  Kept(e) \subseteq slots[e] /\ Referenced(e) \subseteq Kept(e)
<1>1. Referenced(e) \subseteq slots[e]
  BY DEF SamplesStay, Referenced
<1>2. CASE Cardinality(slots[e]) < NumberOfSlots
  BY <1>1, <1>2 DEF Kept
<1>3. CASE ~(Cardinality(slots[e]) < NumberOfSlots)
  <2> DEFINE T == slots[e] \ Referenced(e)
  <2>1. T # {} /\ T \in SUBSET Nat
    BY <1>3 DEF SlotFree, ProviderTypes
  <2>2. Min(T) \in T
    BY <2>1, LeastExists
  <2> QED
    BY <1>1, <1>3, <2>2 DEF Kept
<1> QED
  BY <1>2, <1>3

(* The clock a skeleton starts with is past everything in the slots.       *)
LEMMA LatestTimestampFound ==
    ASSUME ProviderTypes, StampsIssued, NEW e \in Elements
    PROVE  LatestTimestamp(e) \in Nat /\ slots[e] \subseteq 1 .. LatestTimestamp(e)
<1> DEFINE T == slots[e] \cup {1}
<1>1. clock[e] \in Nat /\ slots[e] \subseteq 1 .. clock[e]
  BY DEF ProviderTypes, StampsIssued
<1>2. T \in SUBSET (0 .. clock[e] + 1) /\ T # {}
  BY <1>1
<1>3. LatestTimestamp(e) = Max(T)
  BY DEF LatestTimestamp
<1> HIDE DEF T
<1>4. clock[e] + 1 \in Nat
  BY <1>1
<1>5. Max(T) \in T /\ \A t \in T : t <= Max(T)
  BY <1>2, <1>4, GreatestExists
<1> QED
  BY <1>1, <1>2, <1>3, <1>5 DEF T

(* What the consumer references is the consumer's.                         *)
LEMMA ReferencedStays ==
    ASSUME UNCHANGED consumer, NEW e \in Elements
    PROVE  Referenced(e)' = Referenced(e)
BY DEF Referenced, Collected, consumer, sampleVars

(* The memory that stays keeps what is referenced, the one that is made    *)
(* anew has no users.                                                      *)
LEMMA MemoryKept ==
    ASSUME MemoryInvariant, ConsumerInvariant, ProviderTypes, ConsumerTypes, UNCHANGED consumer,
           \/ UNCHANGED <<present, slots>>
           \/ proxy # "connected" /\ slots' = [e \in Elements |-> {}]
    PROVE  MemoryInvariant'
<1>0. Watched \subseteq Elements
  BY ElementsAssumption
<1>1. CASE UNCHANGED <<present, slots>>
  <2>1. proxy' = proxy
    BY DEF consumer, proxyVars
  <2> QED
    BY <1>0, <1>1, <2>1, ReferencedStays DEF MemoryInvariant, SamplesStay
<1>2. CASE proxy # "connected" /\ slots' = [e \in Elements |-> {}]
  <2>1. proxy' = proxy /\ proxy = "none"
    BY <1>2 DEF consumer, proxyVars, ConsumerTypes
  <2>2. \A e \in Watched : Referenced(e) = {}
    BY <2>1 DEF ConsumerInvariant, SamplesOfSubscriber, Referenced, Collected, Idle
  <2> QED
    BY <1>0, <2>1, <2>2, ReferencedStays DEF MemoryInvariant, SamplesStay
<1> QED
  BY <1>1, <1>2

(* One sample is added to the slots, for the clock that is issued with it. *)
LEMMA SamplePublished ==
    ASSUME MemoryInvariant, ProviderTypes, UNCHANGED consumer, present' = present,
           NEW e \in Elements, SlotFree(e), NEW ts \in Nat,
           slots' = [slots EXCEPT ![e] = Kept(e) \cup {ts}]
    PROVE  MemoryInvariant'
<1>1. proxy' = proxy
  BY DEF consumer, proxyVars
<1>2. Referenced(e) \subseteq Kept(e)
  BY KeptSlots DEF MemoryInvariant
<1>3. Watched \subseteq Elements /\ slots \in [Elements -> SUBSET Nat]
  BY ElementsAssumption DEF ProviderTypes
<1>4. ASSUME NEW d \in Watched PROVE Referenced(d)' \subseteq slots'[d]
  <2>1. Referenced(d)' = Referenced(d)
    BY <1>3, ReferencedStays
  <2>2. Referenced(d) \subseteq slots[d]
    BY DEF MemoryInvariant, SamplesStay
  <2> QED
    BY <1>2, <1>3, <2>1, <2>2
<1> QED
  BY <1>1, <1>4 DEF MemoryInvariant, SamplesStay

(* The clock stays past everything in the slots.                           *)
LEMMA StampPublished ==
    ASSUME StampsIssued, ProviderTypes, NEW e \in Elements, SamplesStay, SlotFree(e), NEW ts \in Nat,
           slots[e] \subseteq 1 .. ts,
           slots' = [slots EXCEPT ![e] = Kept(e) \cup {ts + 1}],
           clock' = [clock EXCEPT ![e] = ts + 1]
    PROVE  /\ StampsIssued'
           /\ slots' \in [Elements -> SUBSET Nat] /\ clock' \in [Elements -> Nat]
<1>1. Kept(e) \subseteq 1 .. ts
  BY KeptSlots
<1>2. Kept(e) \cup {ts + 1} \subseteq 1 .. ts + 1
  BY <1>1
<1> DEFINE K == Kept(e) \cup {ts + 1}
<1>3. K \subseteq 1 .. ts + 1 /\ K \in SUBSET Nat
  BY <1>2
<1> HIDE DEF K
<1>4. slots' = [slots EXCEPT ![e] = K]
  BY DEF K
<1> QED
  BY <1>3, <1>4 DEF StampsIssued, ProviderTypes

(* What a step of the provider has to keep.                                *)
ProviderKept == ProviderTypes' /\ ProviderInvariant' /\ MemoryInvariant'

-----------------------------------------------------------------------------
(* The steps of the provider.                                              *)
LEMMA SendKeeps ==
    ASSUME ProviderTypes, ConsumerTypes, ElementInvariant, NEW e \in Events, Send(e)
    PROVE  ProviderKept
<1> USE BoundsAssumption
<1>1. e \in Elements /\ e \notin Fields
  BY ElementsAssumption DEF Elements
<1>2. clock[e] \in Nat /\ slots[e] \subseteq 1 .. clock[e]
  BY <1>1 DEF ProviderTypes, ElementInvariant, ProviderInvariant, StampsIssued
<1>3. SlotFree(e) /\ slots' = [slots EXCEPT ![e] = Kept(e) \cup {clock[e] + 1}]
      /\ clock' = [clock EXCEPT ![e] = clock[e] + 1]
  BY DEF Send, Publish
<1>4. /\ UNCHANGED <<skeleton, toPrepare, offered, elementOffered, prepared, initialValue,
                     accepted, offers, generation, present, newest, preparedIn, inDiscovery>>
      /\ UNCHANGED consumer /\ updates' \in 0 .. MaxUpdates
  BY DEF Send, ProviderTypes
<1>5. StampsIssued' /\ slots' \in [Elements -> SUBSET Nat] /\ clock' \in [Elements -> Nat]
  BY <1>1, <1>2, <1>3, StampPublished DEF ElementInvariant, ProviderInvariant, MemoryInvariant
<1>6. clock[e] + 1 \in Nat
  BY <1>2
<1>7. MemoryInvariant'
  BY <1>1, <1>3, <1>4, <1>6, SamplePublished DEF ElementInvariant
<1>8. ProviderTypes'
  BY <1>4, <1>5 DEF ProviderTypes
<1>9. ProviderInvariant'
  BY <1>4, <1>5 DEF ElementInvariant, ProviderInvariant, SendsReachMemory, OfferEndsWithSkeleton,
                    OfferComplete, FieldsShown
<1> QED
  BY <1>7, <1>8, <1>9 DEF ProviderKept

(* A value saved before the first offer is the one the field waits with.   *)
LEMMA SaveInitialValueKeeps ==
    ASSUME ProviderTypes, ConsumerTypes, ElementInvariant, NEW f \in Fields, SaveInitialValue(f)
    PROVE  ProviderKept
<1> USE BoundsAssumption
<1>1. UNCHANGED <<skeleton, toPrepare, offered, elementOffered, prepared, clock, offers, memory,
                  consumer>>
  BY DEF SaveInitialValue
<1>2. /\ updates + 1 \in 0 .. MaxUpdates /\ updates' = updates + 1 /\ ~prepared[f]
      /\ initialValue' = [initialValue EXCEPT ![f] = updates + 1]
      /\ accepted' = [accepted EXCEPT ![f] = updates + 1]
  BY DEF SaveInitialValue, ProviderTypes, Deferred
<1>3. MemoryInvariant'
  BY <1>1, MemoryKept DEF ElementInvariant, memory
<1>4. ProviderTypes'
  BY <1>1, <1>2 DEF ProviderTypes, memory
<1>5. ProviderInvariant'
  BY <1>1, <1>2 DEF ElementInvariant, ProviderInvariant, SendsReachMemory, OfferEndsWithSkeleton,
                    OfferComplete, FieldsShown, StampsIssued, memory, ProviderTypes
<1> QED
  BY <1>3, <1>4, <1>5 DEF ProviderKept

(* Update makes the newest sample and the value accepted last the same.    *)
LEMMA UpdateKeeps ==
    ASSUME ProviderTypes, ConsumerTypes, ElementInvariant, NEW f \in Fields, Update(f)
    PROVE  ProviderKept
<1> USE BoundsAssumption
<1>1. f \in Elements
  BY DEF Elements
<1>2. clock[f] \in Nat /\ slots[f] \subseteq 1 .. clock[f]
  BY <1>1 DEF ProviderTypes, ElementInvariant, ProviderInvariant, StampsIssued
<1>3. SlotFree(f) /\ slots' = [slots EXCEPT ![f] = Kept(f) \cup {clock[f] + 1}]
      /\ clock' = [clock EXCEPT ![f] = clock[f] + 1]
  BY DEF Update, Publish
<1>4. /\ UNCHANGED <<skeleton, toPrepare, offered, elementOffered, prepared, initialValue, offers,
                     generation, present, preparedIn, inDiscovery>>
      /\ UNCHANGED consumer
  BY DEF Update
<1>5. /\ updates' \in 0 .. MaxUpdates /\ prepared[f] /\ updates + 1 \in 0 .. MaxUpdates
      /\ newest' = [newest EXCEPT ![f] = updates + 1]
      /\ accepted' = [accepted EXCEPT ![f] = updates + 1]
  BY DEF Update, Deferred, ProviderTypes
<1>6. StampsIssued' /\ slots' \in [Elements -> SUBSET Nat] /\ clock' \in [Elements -> Nat]
  BY <1>1, <1>2, <1>3, StampPublished DEF ElementInvariant, ProviderInvariant, MemoryInvariant
<1>7. clock[f] + 1 \in Nat
  BY <1>2
<1>8. MemoryInvariant'
  BY <1>1, <1>3, <1>4, <1>7, SamplePublished DEF ElementInvariant
<1>9. ProviderTypes'
  BY <1>4, <1>5, <1>6 DEF ProviderTypes
<1>10. FieldsShown'
  BY <1>4, <1>5 DEF ElementInvariant, ProviderInvariant, FieldsShown, ProviderTypes
<1>11. ProviderInvariant'
  BY <1>4, <1>6, <1>10 DEF ElementInvariant, ProviderInvariant, SendsReachMemory,
                           OfferEndsWithSkeleton, OfferComplete
<1> QED
  BY <1>8, <1>9, <1>11 DEF ProviderKept

(* A new offer finds the memory its proxies still use, or makes it anew    *)
(* for nobody.                                                             *)
LEMMA BindingPrepareOfferKeeps ==
    ASSUME ProviderTypes, ConsumerTypes, ElementInvariant, BindingPrepareOffer
    PROVE  ProviderKept
<1> USE BoundsAssumption
<1>1. /\ UNCHANGED <<offered, elementOffered, prepared, initialValue, clock, accepted, updates,
                     preparedIn, inDiscovery, consumer>>
      /\ skeleton = "idle" /\ skeleton' = "offering" /\ offers' = offers + 1
      /\ toPrepare' = Elements /\ present' = TRUE /\ offers < MaxOffers
  BY DEF BindingPrepareOffer
<1>2. \/ proxy = "connected" /\ present /\ UNCHANGED <<generation, slots, newest>>
      \/ /\ ~(proxy = "connected" /\ present) /\ generation' = generation + 1
         /\ slots' = [e \in Elements |-> {}] /\ newest' = [g \in Fields |-> 0]
  BY DEF BindingPrepareOffer, Reused
<1>3. proxy = "connected" => present
  BY DEF ElementInvariant, MemoryInvariant
<1>4. MemoryInvariant'
  <2>1. CASE UNCHANGED slots /\ present
    BY <1>1, <2>1, MemoryKept DEF ElementInvariant, ProviderTypes
  <2>2. CASE proxy # "connected" /\ slots' = [e \in Elements |-> {}]
    BY <1>1, <2>2, MemoryKept DEF ElementInvariant
  <2> QED
    BY <1>2, <1>3, <2>1, <2>2
<1>5. generation <= offers
  BY DEF ElementInvariant, ProviderInvariant, OfferComplete
<1>6. ProviderTypes'
  BY <1>1, <1>2, <1>5 DEF ProviderTypes
<1>7. FieldsShown'
  BY <1>1, <1>2 DEF ElementInvariant, ProviderInvariant, FieldsShown, ProviderTypes
<1>8. StampsIssued'
  BY <1>1, <1>2 DEF ElementInvariant, ProviderInvariant, StampsIssued
<1>9. OfferComplete'
  BY <1>1, <1>2, <1>5 DEF ElementInvariant, ProviderInvariant, OfferComplete, ProviderTypes, Elements
<1>10. ProviderInvariant'
  BY <1>1, <1>7, <1>8, <1>9 DEF ElementInvariant, ProviderInvariant, SendsReachMemory,
                                OfferEndsWithSkeleton
<1> QED
  BY <1>4, <1>6, <1>10 DEF ProviderKept

(* The steps of an offer that start the clock of an element.               *)
LEMMA ClockStarts ==
    ASSUME ProviderTypes, StampsIssued, NEW e \in Elements, UNCHANGED slots,
           clock' = [clock EXCEPT ![e] = LatestTimestamp(e)]
    PROVE  StampsIssued' /\ clock' \in [Elements -> Nat]
<1>1. LatestTimestamp(e) \in Nat /\ slots[e] \subseteq 1 .. LatestTimestamp(e)
  BY LatestTimestampFound
<1> QED
  BY <1>1 DEF StampsIssued, ProviderTypes

(* Preparing an event starts its clock past its slots.                     *)
LEMMA PrepareEventKeeps ==
    ASSUME ProviderTypes, ConsumerTypes, ElementInvariant, NEW e \in Events, PrepareEvent(e)
    PROVE  ProviderKept
<1>1. e \in Elements /\ e \notin Fields
  BY ElementsAssumption DEF Elements
<1>2. /\ UNCHANGED <<skeleton, offered, prepared, initialValue, accepted, updates, offers,
                     generation, present, slots, newest, preparedIn, inDiscovery>>
      /\ UNCHANGED consumer
      /\ skeleton = "offering" /\ toPrepare' = toPrepare \ {e}
      /\ elementOffered' = [elementOffered EXCEPT ![e] = TRUE]
      /\ clock' = [clock EXCEPT ![e] = LatestTimestamp(e)]
  BY DEF PrepareEvent, memory
<1>3. StampsIssued' /\ clock' \in [Elements -> Nat]
  BY <1>1, <1>2, ClockStarts DEF ElementInvariant, ProviderInvariant
<1>4. MemoryInvariant'
  BY <1>2, MemoryKept DEF ElementInvariant
<1>5. ProviderTypes'
  BY <1>2, <1>3 DEF ProviderTypes
<1>6. ProviderInvariant'
  BY <1>1, <1>2, <1>3 DEF ElementInvariant, ProviderInvariant, SendsReachMemory,
        OfferEndsWithSkeleton, OfferComplete, FieldsShown, ProviderTypes
<1> QED
  BY <1>4, <1>5, <1>6 DEF ProviderKept

(* The first preparation of a field sends the value that was saved.        *)
LEMMA PrepareFieldFirstKeeps ==
    ASSUME ProviderTypes, ConsumerTypes, ElementInvariant, NEW f \in Fields, PrepareFieldFirst(f)
    PROVE  ProviderKept
<1>1. f \in Elements
  BY DEF Elements
<1>2. /\ UNCHANGED <<skeleton, offered, accepted, updates, offers, generation, present,
                     inDiscovery>>
      /\ UNCHANGED consumer
      /\ skeleton = "offering" /\ ~prepared[f] /\ SlotFree(f)
      /\ toPrepare' = toPrepare \ {f}
      /\ elementOffered' = [elementOffered EXCEPT ![f] = TRUE]
      /\ clock' = [clock EXCEPT ![f] = LatestTimestamp(f) + 1]
      /\ slots' = [slots EXCEPT ![f] = Kept(f) \cup {LatestTimestamp(f) + 1}]
      /\ newest' = [newest EXCEPT ![f] = initialValue[f]]
      /\ prepared' = [prepared EXCEPT ![f] = TRUE]
      /\ preparedIn' = [preparedIn EXCEPT ![f] = generation]
      /\ initialValue' = [initialValue EXCEPT ![f] = 0]
  BY DEF PrepareFieldFirst, FieldsNext, SentAt
<1>3. LatestTimestamp(f) \in Nat /\ slots[f] \subseteq 1 .. LatestTimestamp(f)
  BY <1>1, LatestTimestampFound DEF ElementInvariant, ProviderInvariant
<1>4. StampsIssued' /\ slots' \in [Elements -> SUBSET Nat] /\ clock' \in [Elements -> Nat]
  BY <1>1, <1>2, <1>3, StampPublished DEF ElementInvariant, ProviderInvariant, MemoryInvariant
<1>5. LatestTimestamp(f) + 1 \in Nat
  BY <1>3
<1>6. MemoryInvariant'
  BY <1>1, <1>2, <1>5, SamplePublished DEF ElementInvariant
<1>7. ProviderTypes'
  BY <1>2, <1>4, BoundsAssumption DEF ProviderTypes
<1>8. FieldsShown'
  BY <1>2 DEF ElementInvariant, ProviderInvariant, FieldsShown, ProviderTypes
<1>9. ProviderInvariant'
  BY <1>2, <1>4, <1>8 DEF ElementInvariant, ProviderInvariant, SendsReachMemory,
        OfferEndsWithSkeleton, OfferComplete, ProviderTypes
<1> QED
  BY <1>6, <1>7, <1>9 DEF ProviderKept

(* A later preparation of a field sends nothing and loses nothing.         *)
LEMMA PrepareFieldAgainKeeps ==
    ASSUME ProviderTypes, ConsumerTypes, ElementInvariant, NEW f \in Fields, PrepareFieldAgain(f)
    PROVE  ProviderKept
<1>1. f \in Elements
  BY DEF Elements
<1>2. /\ UNCHANGED <<skeleton, offered, prepared, initialValue, accepted, updates, offers,
                     generation, present, slots, newest, preparedIn, inDiscovery>>
      /\ UNCHANGED consumer
      /\ skeleton = "offering" /\ prepared[f] /\ toPrepare' = toPrepare \ {f}
      /\ elementOffered' = [elementOffered EXCEPT ![f] = TRUE]
      /\ clock' = [clock EXCEPT ![f] = LatestTimestamp(f)]
  BY DEF PrepareFieldAgain, FieldsNext, memory
<1>3. StampsIssued' /\ clock' \in [Elements -> Nat]
  BY <1>1, <1>2, ClockStarts DEF ElementInvariant, ProviderInvariant
<1>4. MemoryInvariant'
  BY <1>2, MemoryKept DEF ElementInvariant
<1>5. ProviderTypes'
  BY <1>2, <1>3 DEF ProviderTypes
<1>6. ProviderInvariant'
  BY <1>2, <1>3 DEF ElementInvariant, ProviderInvariant, SendsReachMemory,
        OfferEndsWithSkeleton, OfferComplete, FieldsShown, ProviderTypes
<1> QED
  BY <1>4, <1>5, <1>6 DEF ProviderKept

(* A failed offer ends without an announcement.                            *)
LEMMA PrepareFieldFailsKeeps ==
    ASSUME ProviderTypes, ConsumerTypes, ElementInvariant, NEW f \in Fields, PrepareFieldFails(f)
    PROVE  ProviderKept
<1>1. /\ UNCHANGED <<offered, elementOffered, prepared, initialValue, clock, accepted, updates,
                     offers, generation, present, slots, newest, preparedIn, inDiscovery>>
      /\ UNCHANGED consumer
      /\ skeleton = "offering" /\ skeleton' = "idle" /\ toPrepare' = {}
  BY DEF PrepareFieldFails, FieldsNext, memory
<1>2. MemoryInvariant'
  BY <1>1, MemoryKept DEF ElementInvariant
<1>3. ProviderTypes'
  BY <1>1 DEF ProviderTypes
<1>4. ProviderInvariant'
  BY <1>1 DEF ElementInvariant, ProviderInvariant, SendsReachMemory, OfferEndsWithSkeleton,
              OfferComplete, FieldsShown, StampsIssued
<1> QED
  BY <1>2, <1>3, <1>4 DEF ProviderKept

(* An instance is announced when every field is prepared.                  *)
LEMMA FinishOfferKeeps ==
    ASSUME ProviderTypes, ConsumerTypes, ElementInvariant, FinishOffer
    PROVE  ProviderKept
<1>1. /\ UNCHANGED <<toPrepare, elementOffered, prepared, initialValue, clock, accepted, updates,
                     offers, generation, present, slots, newest, preparedIn>>
      /\ UNCHANGED consumer
      /\ skeleton = "offering" /\ skeleton' = "idle" /\ toPrepare = {} /\ offered' = TRUE
      /\ inDiscovery' \in BOOLEAN
  BY DEF FinishOffer, ProviderTypes
<1>2. MemoryInvariant'
  BY <1>1, MemoryKept DEF ElementInvariant
<1>3. ProviderTypes'
  BY <1>1 DEF ProviderTypes
<1>4. ProviderInvariant'
  BY <1>1 DEF ElementInvariant, ProviderInvariant, SendsReachMemory, OfferEndsWithSkeleton,
              OfferComplete, FieldsShown, StampsIssued
<1> QED
  BY <1>2, <1>3, <1>4 DEF ProviderKept

(* Memory that is removed has no users.                                    *)
LEMMA MemoryRemoved ==
    ASSUME ProviderTypes, ConsumerTypes, ElementInvariant, PrepareStopOffer, UNCHANGED consumer,
           UNCHANGED <<prepared, initialValue, accepted, preparedIn, generation, clock>>
    PROVE  /\ MemoryInvariant' /\ FieldsShown' /\ StampsIssued'
           /\ present' \in BOOLEAN /\ slots' \in [Elements -> SUBSET Nat]
           /\ newest' \in [Fields -> 0 .. MaxUpdates]
<1> USE BoundsAssumption
<1>1. CASE UNCHANGED <<present, slots, newest>>
  <2>1. MemoryInvariant'
    BY <1>1, MemoryKept DEF ElementInvariant
  <2> QED
    BY <1>1, <2>1 DEF ElementInvariant, ProviderInvariant, FieldsShown, StampsIssued, ProviderTypes
<1>2. CASE /\ proxy # "connected" /\ present' = FALSE
           /\ slots' = [e \in Elements |-> {}] /\ newest' = [g \in Fields |-> 0]
  <2>1. MemoryInvariant'
    BY <1>2, MemoryKept DEF ElementInvariant
  <2>2. FieldsShown' /\ StampsIssued'
    BY <1>2 DEF ElementInvariant, ProviderInvariant, FieldsShown, StampsIssued
  <2>3. slots' \in [Elements -> SUBSET Nat] /\ newest' \in [Fields -> 0 .. MaxUpdates]
    BY <1>2
  <2> QED
    BY <1>2, <2>1, <2>2, <2>3
<1> QED
  BY <1>1, <1>2 DEF PrepareStopOffer

(* Stopping the offer withdraws the elements before memory is removed.     *)
LEMMA StopOfferServiceKeeps ==
    ASSUME ProviderTypes, ConsumerTypes, ElementInvariant, StopOfferService
    PROVE  ProviderKept
<1>1. /\ UNCHANGED <<skeleton, toPrepare, prepared, initialValue, clock, accepted, updates, offers,
                     generation, preparedIn>>
      /\ UNCHANGED consumer
      /\ skeleton = "idle" /\ offered' = FALSE /\ inDiscovery' = FALSE
      /\ elementOffered' = [e \in Elements |-> FALSE]
      /\ PrepareStopOffer
  BY DEF StopOfferService, ElementsWithdrawn
<1>2. /\ MemoryInvariant' /\ FieldsShown' /\ StampsIssued'
      /\ present' \in BOOLEAN /\ slots' \in [Elements -> SUBSET Nat]
      /\ newest' \in [Fields -> 0 .. MaxUpdates]
  BY <1>1, MemoryRemoved
<1>3. ProviderTypes'
  BY <1>1, <1>2 DEF ProviderTypes
<1>4. ProviderInvariant'
  BY <1>1, <1>2 DEF ElementInvariant, ProviderInvariant, SendsReachMemory, OfferEndsWithSkeleton,
              OfferComplete
<1> QED
  BY <1>2, <1>3, <1>4 DEF ProviderKept

(* The end of a skeleton ends its offer as well.                           *)
LEMMA DestroySkeletonKeeps ==
    ASSUME ProviderTypes, ConsumerTypes, ElementInvariant, DestroySkeleton
    PROVE  ProviderKept
<1>1. /\ UNCHANGED <<toPrepare, prepared, initialValue, clock, accepted, updates, offers,
                     generation, preparedIn>>
      /\ UNCHANGED consumer
      /\ skeleton = "idle" /\ skeleton' = "gone"
      /\ elementOffered' = [e \in Elements |-> FALSE]
  BY DEF DestroySkeleton
<1>2. CASE offered /\ inDiscovery' = FALSE /\ PrepareStopOffer /\ offered' = FALSE
  <2>1. /\ MemoryInvariant' /\ FieldsShown' /\ StampsIssued'
        /\ present' \in BOOLEAN /\ slots' \in [Elements -> SUBSET Nat]
        /\ newest' \in [Fields -> 0 .. MaxUpdates]
    BY <1>1, <1>2, MemoryRemoved
  <2>2. ProviderTypes'
    BY <1>1, <1>2, <2>1 DEF ProviderTypes
  <2>3. ProviderInvariant'
    BY <1>1, <1>2, <2>1 DEF ElementInvariant, ProviderInvariant, SendsReachMemory,
              OfferEndsWithSkeleton, OfferComplete
  <2> QED
    BY <2>1, <2>2, <2>3 DEF ProviderKept
<1>3. CASE ~offered /\ UNCHANGED <<inDiscovery, present, slots, newest, offered>>
  <2>1. MemoryInvariant'
    BY <1>1, <1>3, MemoryKept DEF ElementInvariant
  <2>2. ProviderTypes'
    BY <1>1, <1>3 DEF ProviderTypes
  <2>3. ProviderInvariant'
    BY <1>1, <1>3 DEF ElementInvariant, ProviderInvariant, SendsReachMemory,
              OfferEndsWithSkeleton, OfferComplete, FieldsShown, StampsIssued
  <2> QED
    BY <2>1, <2>2, <2>3 DEF ProviderKept
<1> QED
  BY <1>2, <1>3 DEF DestroySkeleton, Cleanup

-----------------------------------------------------------------------------
(* The steps of the consumer.                                              *)
ConsumerKept == ConsumerTypes' /\ ConsumerInvariant' /\ MemoryInvariant'

(* The guards of a call that are for this element.                         *)
InCall(e) == IF call # Idle /\ call.element = e THEN call.guards ELSE 0

(* GuardsAccounted, in terms of the guards in a call.                      *)
LEMMA GuardsInCall ==
    GuardsAccounted <=>
        \A e \in registered :
            available[e] + Cardinality(samples[e]) + InCall(e) = maxSamples[e]
BY DEF GuardsAccounted, InCall

(* A call is known by its step.                                            *)
LEMMA CallKnown ==
    ASSUME ConsumerInvariant
    PROVE  /\ call = Idle <=> call.at = "idle"
           /\ call.at = "allocate" =>
                 call \in [at : {"allocate"}, element : registered, wanted : Nat,
                          expected : Nat, guards : Nat]
           /\ call.at = "dispatch" =>
                 call \in [at : {"dispatch"}, element : registered, guards : Nat]
           /\ call.at = "deliver" =>
                 call \in [at : {"deliver"}, element : registered, guards : Nat,
                          collected : SUBSET Nat]
           /\ \A e : InCall(e) \in Nat
           /\ call # Idle => call.element \in registered
BY DEF ConsumerInvariant, CallOfSubscriber, Idle, InCall

(* What is known of one registered event's guards and samples.             *)
LEMMA GuardsOf ==
    ASSUME ConsumerTypes, ConsumerInvariant, NEW e \in registered
    PROVE  /\ e \in Watched /\ available[e] \in Nat /\ maxSamples[e] \in Nat
           /\ maxSamples[e] <= SampleCount
           /\ IsFiniteSet(samples[e]) /\ Cardinality(samples[e]) \in Nat
           /\ available[e] + Cardinality(samples[e]) + InCall(e) = maxSamples[e]
<1>1. e \in Watched /\ maxSamples[e] \in {0, SampleCount} /\ SampleCount \in Nat
  BY BoundsAssumption DEF ConsumerTypes
<1>2. available[e] \in Nat
  BY <1>1 DEF ConsumerTypes
<1>3. IsFiniteSet(samples[e])
  BY <1>1 DEF ConsumerInvariant, CollectedOnce
<1> QED
  BY <1>1, <1>2, <1>3, FS_CardinalityType, GuardsInCall DEF ConsumerInvariant

(* The memory is kept by a step that references nothing new of it.         *)
LEMMA UsersKept ==
    ASSUME MemoryInvariant, UNCHANGED <<provider, memory>>, proxy' # "connected" \/ present,
           \A e \in Watched : Referenced(e)' \subseteq slots[e]
    PROVE  MemoryInvariant'
BY DEF MemoryInvariant, SamplesStay, memory

(* A new proxy has no events and references nothing.                       *)
LEMMA ConnectKeeps ==
    ASSUME ConsumerTypes, ElementInvariant, Connect
    PROVE  ConsumerKept
<1>1. /\ UNCHANGED <<provider, memory, subscription, available, maxSamples, lastSeen, call, samples,
                     releasing>>
      /\ proxy = "none" /\ proxy' = "connected" /\ present /\ isAvailable' = FALSE
      /\ registered' = {} /\ providerSeen' = [e \in Watched |-> FALSE]
  BY DEF Connect
<1>2. registered = {}
  BY <1>1 DEF ElementInvariant, ConsumerInvariant, SamplesOfSubscriber
<1>3. \A e \in Watched : Referenced(e)' \subseteq slots[e]
  BY <1>1 DEF ElementInvariant, MemoryInvariant, SamplesStay, Referenced, Collected
<1>4. MemoryInvariant'
  BY <1>1, <1>3, UsersKept DEF ElementInvariant
<1>5. ConsumerTypes'
  BY <1>1 DEF ConsumerTypes
<1>6. ConsumerInvariant'
  BY <1>1, <1>2 DEF ElementInvariant, ConsumerInvariant, GuardsAccounted, CallOfSubscriber,
        SamplesOfSubscriber, CollectedOnce, EventsKnowService, SubscriptionFollowsService
<1> QED
  BY <1>4, <1>5, <1>6 DEF ConsumerKept

(* An event is registered unsubscribed, and learns of the service at once. *)
LEMMA RegisterEventBindingKeeps ==
    ASSUME ConsumerTypes, ElementInvariant, NEW e \in Watched, RegisterEventBinding(e)
    PROVE  ConsumerKept
<1>1. /\ UNCHANGED <<provider, memory, proxy, isAvailable, available, maxSamples, lastSeen, call,
                     samples, releasing>>
      /\ proxy = "connected" /\ e \notin registered
      /\ registered' = registered \cup {e}
      /\ providerSeen' = [providerSeen EXCEPT ![e] = isAvailable]
      /\ subscription' = [subscription EXCEPT ![e] = Notified(subscription[e], isAvailable)]
  BY DEF RegisterEventBinding
<1>2. subscription[e] = "not_subscribed" /\ maxSamples[e] = 0 /\ samples[e] = {}
  BY <1>1 DEF ElementInvariant, ConsumerInvariant, SamplesOfSubscriber
<1>3. Notified(subscription[e], isAvailable) = "not_subscribed"
  BY <1>2 DEF Notified
<1>4. subscription' = subscription
  BY <1>1, <1>2, <1>3 DEF ConsumerTypes
<1>5. available[e] = 0 /\ Cardinality(samples[e]) = 0 /\ InCall(e) = 0
  BY <1>1, <1>2, CallKnown, FS_EmptySet DEF ConsumerTypes, ElementInvariant, InCall
<1>6. GuardsAccounted'
  <2>1. InCall(e)' = InCall(e)
    BY <1>1 DEF InCall
  <2> QED
    BY <1>1, <1>2, <1>5 DEF ElementInvariant, ConsumerInvariant, GuardsAccounted, InCall
<1>7. \A d \in Watched : Referenced(d)' \subseteq slots[d]
  BY <1>1 DEF ElementInvariant, MemoryInvariant, SamplesStay, Referenced, Collected
<1>8. MemoryInvariant'
  BY <1>1, <1>7, UsersKept DEF ElementInvariant, MemoryInvariant
<1>9. ConsumerTypes'
  BY <1>1, <1>4 DEF ConsumerTypes
<1>10. CallOfSubscriber' /\ SamplesOfSubscriber' /\ CollectedOnce'
  BY <1>1, <1>4 DEF ElementInvariant, ConsumerInvariant, CallOfSubscriber, SamplesOfSubscriber,
                    CollectedOnce
<1>11. EventsKnowService'
  BY <1>1, <1>2, <1>4 DEF ElementInvariant, ConsumerInvariant, EventsKnowService,
                    SubscriptionFollowsService, ConsumerTypes
<1> QED
  BY <1>6, <1>8, <1>9, <1>10, <1>11 DEF ConsumerKept, ConsumerInvariant

(* The handler tells every registered event what the proxy learns.         *)
LEMMA HandlerKeeps ==
    ASSUME ConsumerTypes, ElementInvariant, ProviderTypes, ServiceAvailabilityChangeHandler
    PROVE  ConsumerKept
<1>1. /\ UNCHANGED <<provider, memory, proxy, registered, available, maxSamples, lastSeen, call,
                     samples, releasing>>
      /\ proxy = "connected" /\ isAvailable # inDiscovery /\ isAvailable' = inDiscovery
      /\ inDiscovery \in BOOLEAN
      /\ providerSeen' = [e \in Watched |-> IF e \in registered THEN inDiscovery
                                            ELSE providerSeen[e]]
      /\ subscription' = [e \in Watched |-> IF e \in registered
                             THEN Notified(subscription[e], inDiscovery) ELSE subscription[e]]
  BY DEF ServiceAvailabilityChangeHandler, ProviderTypes
<1>2. \A e \in Watched :
         /\ subscription'[e] \in {"not_subscribed", "pending", "subscribed"}
         /\ subscription'[e] = "not_subscribed" <=> subscription[e] = "not_subscribed"
         /\ e \in registered => /\ subscription'[e] = "subscribed" => inDiscovery
                                /\ subscription'[e] = "pending" => ~inDiscovery
  <2> SUFFICES ASSUME NEW e \in Watched
               PROVE /\ subscription'[e] \in {"not_subscribed", "pending", "subscribed"}
                     /\ subscription'[e] = "not_subscribed" <=> subscription[e] = "not_subscribed"
                     /\ e \in registered => /\ subscription'[e] = "subscribed" => inDiscovery
                                            /\ subscription'[e] = "pending" => ~inDiscovery
    OBVIOUS
  <2>1. subscription[e] \in {"not_subscribed", "pending", "subscribed"}
    BY DEF ConsumerTypes
  <2>2. e \in registered => subscription'[e] = Notified(subscription[e], inDiscovery)
    BY <1>1
  <2>3. e \notin registered => subscription'[e] = subscription[e]
    BY <1>1
  <2> QED
    BY <1>1, <2>1, <2>2, <2>3 DEF Notified
<1>3. \A d \in Watched : Referenced(d)' \subseteq slots[d]
  BY <1>1 DEF ElementInvariant, MemoryInvariant, SamplesStay, Referenced, Collected
<1>4. MemoryInvariant'
  BY <1>1, <1>3, UsersKept DEF ElementInvariant, MemoryInvariant
<1>5. ConsumerTypes'
  BY <1>1, <1>2 DEF ConsumerTypes
<1>6. CallOfSubscriber'
  <2>1. call # Idle => call.element \in Watched
    BY CallKnown DEF ElementInvariant, ConsumerTypes
  <2> QED
    BY <1>1, <1>2, <2>1 DEF ElementInvariant, ConsumerInvariant, CallOfSubscriber, Idle
<1>7. GuardsAccounted' /\ SamplesOfSubscriber' /\ CollectedOnce'
  BY <1>1, <1>2 DEF ElementInvariant, ConsumerInvariant, GuardsAccounted, SamplesOfSubscriber,
                    CollectedOnce
<1>8. EventsKnowService'
  BY <1>1, <1>2 DEF ConsumerTypes, EventsKnowService, SubscriptionFollowsService
<1> QED
  BY <1>4, <1>5, <1>6, <1>7, <1>8 DEF ConsumerKept, ConsumerInvariant

(* Subscribe starts the tracker anew, while no sample is out.              *)
LEMMA SubscribeKeeps ==
    ASSUME ConsumerTypes, ElementInvariant, NEW e \in Watched, Subscribe(e)
    PROVE  ConsumerKept
<1> USE BoundsAssumption
<1>1. /\ UNCHANGED <<provider, memory, proxy, isAvailable, registered, providerSeen, call, samples,
                     releasing>>
      /\ call = Idle /\ e \in registered /\ subscription[e] = "not_subscribed"
      /\ available' = [available EXCEPT ![e] = SampleCount]
      /\ maxSamples' = [maxSamples EXCEPT ![e] = SampleCount]
  BY DEF Subscribe
<1>2. \/ /\ subscription' = [subscription EXCEPT ![e] =
                                  IF providerSeen[e] THEN "subscribed" ELSE "pending"]
         /\ lastSeen' = [lastSeen EXCEPT ![e] = 0]
      \/ UNCHANGED <<subscription, lastSeen>>
  BY DEF Subscribe
<1>3. samples[e] = {} /\ Cardinality(samples[e]) = 0
  BY <1>1, FS_EmptySet DEF ElementInvariant, ConsumerInvariant, SamplesOfSubscriber
<1>4. \A d \in registered : d # e => available'[d] = available[d] /\ maxSamples'[d] = maxSamples[d]
  BY <1>1 DEF ConsumerTypes
<1>5. available'[e] = SampleCount /\ maxSamples'[e] = SampleCount
  BY <1>1 DEF ConsumerTypes
<1>6. GuardsAccounted'
  BY <1>1, <1>3, <1>4, <1>5 DEF ElementInvariant, ConsumerInvariant, GuardsAccounted
<1>7. \A d \in Watched : Referenced(d)' \subseteq slots[d]
  BY <1>1 DEF ElementInvariant, MemoryInvariant, SamplesStay, Referenced, Collected
<1>8. MemoryInvariant'
  BY <1>1, <1>7, UsersKept DEF ElementInvariant, MemoryInvariant
<1>9. ConsumerTypes'
  BY <1>1, <1>2 DEF ConsumerTypes
<1>10. CallOfSubscriber' /\ SamplesOfSubscriber'
  BY <1>1, <1>2 DEF ElementInvariant, ConsumerInvariant, CallOfSubscriber, SamplesOfSubscriber,
                    Idle, ConsumerTypes
<1>11. CollectedOnce'
  BY <1>1, <1>2, <1>3 DEF ElementInvariant, ConsumerInvariant, CollectedOnce, Idle, ConsumerTypes
<1>12. EventsKnowService'
  BY <1>1, <1>2 DEF ElementInvariant, ConsumerInvariant, EventsKnowService,
                    SubscriptionFollowsService, ConsumerTypes
<1> QED
  BY <1>6, <1>8, <1>9, <1>10, <1>11, <1>12 DEF ConsumerKept, ConsumerInvariant

(* Nothing is held of an event whose guards are all free.                  *)
LEMMA NothingHeld ==
    ASSUME ConsumerTypes, ConsumerInvariant, NEW e \in Watched, ~IsUsed(e)
    PROVE  samples[e] = {}
<1>1. CASE e \in registered
  <2>1. /\ available[e] \in Nat /\ maxSamples[e] \in Nat
        /\ IsFiniteSet(samples[e]) /\ Cardinality(samples[e]) \in Nat
        /\ available[e] + Cardinality(samples[e]) + InCall(e) = maxSamples[e]
    BY <1>1, GuardsOf
  <2>2. InCall(e) \in Nat
    BY CallKnown
  <2>3. Cardinality(samples[e]) = 0
    BY <2>1, <2>2 DEF IsUsed
  <2> QED
    BY <2>1, <2>3, FS_EmptySet
<1>2. CASE e \notin registered
  BY <1>2 DEF ConsumerInvariant, SamplesOfSubscriber
<1> QED
  BY <1>1, <1>2

(* Unsubscribe happens when no sample is out.                              *)
LEMMA UnsubscribeKeeps ==
    ASSUME ConsumerTypes, ElementInvariant, NEW e \in Watched, Unsubscribe(e)
    PROVE  ConsumerKept
<1>1. /\ UNCHANGED <<provider, memory, proxy, isAvailable, registered, providerSeen, available,
                     maxSamples, lastSeen, call, samples, releasing>>
      /\ call = Idle /\ ~IsUsed(e) /\ subscription[e] # "not_subscribed"
      /\ subscription' = [subscription EXCEPT ![e] = "not_subscribed"]
  BY DEF Unsubscribe
<1>2. samples[e] = {}
  BY <1>1, NothingHeld DEF ElementInvariant
<1>3. \A d \in Watched : Referenced(d)' \subseteq slots[d]
  BY <1>1 DEF ElementInvariant, MemoryInvariant, SamplesStay, Referenced, Collected
<1>4. MemoryInvariant'
  BY <1>1, <1>3, UsersKept DEF ElementInvariant, MemoryInvariant
<1>5. ConsumerTypes'
  BY <1>1 DEF ConsumerTypes
<1>6. ConsumerInvariant'
  BY <1>1, <1>2 DEF ElementInvariant, ConsumerInvariant, GuardsAccounted, CallOfSubscriber,
        SamplesOfSubscriber, CollectedOnce, EventsKnowService, SubscriptionFollowsService, Idle,
        ConsumerTypes
<1> QED
  BY <1>4, <1>5, <1>6 DEF ConsumerKept

(* A proxy is destroyed when no sample is out.                             *)
LEMMA DestroyProxyKeeps ==
    ASSUME ConsumerTypes, ElementInvariant, DestroyProxy
    PROVE  ConsumerKept
<1>1. /\ UNCHANGED <<provider, memory, call, samples, releasing>>
      /\ call = Idle /\ \A e \in Watched : ~IsUsed(e) /\ releasing[e] = {}
      /\ proxy' = "none" /\ isAvailable' = FALSE /\ registered' = {}
      /\ providerSeen' = [e \in Watched |-> FALSE]
      /\ subscription' = [e \in Watched |-> "not_subscribed"]
      /\ available' = [e \in Watched |-> 0]
      /\ maxSamples' = [e \in Watched |-> 0]
      /\ lastSeen' = [e \in Watched |-> 0]
  BY DEF DestroyProxy
<1>2. \A e \in Watched : samples[e] = {}
  BY <1>1, NothingHeld DEF ElementInvariant
<1>3. \A d \in Watched : Referenced(d)' \subseteq slots[d]
  BY <1>1 DEF ElementInvariant, MemoryInvariant, SamplesStay, Referenced, Collected
<1>4. MemoryInvariant'
  BY <1>1, <1>3, UsersKept DEF ElementInvariant, MemoryInvariant
<1>5. ConsumerTypes'
  <2>1. \A e \in Watched : available'[e] \in 0 .. maxSamples'[e]
    BY <1>1
  <2>2. available' \in [Watched -> Nat] /\ maxSamples' \in [Watched -> {0, SampleCount}]
    BY <1>1
  <2>3. lastSeen' \in [Watched -> Nat] /\ providerSeen' \in [Watched -> BOOLEAN]
    BY <1>1
  <2>4. subscription' \in [Watched -> {"not_subscribed", "pending", "subscribed"}]
    BY <1>1
  <2> QED
    BY <1>1, <2>1, <2>2, <2>3, <2>4 DEF ConsumerTypes
<1>6. ConsumerInvariant'
  BY <1>1, <1>2 DEF ElementInvariant, ConsumerInvariant, GuardsAccounted, CallOfSubscriber,
        SamplesOfSubscriber, CollectedOnce, EventsKnowService, SubscriptionFollowsService, Idle
<1> QED
  BY <1>4, <1>5, <1>6 DEF ConsumerKept

(* A call starts without guards.                                           *)
LEMMA GetNewSamplesKeeps ==
    ASSUME ConsumerTypes, ElementInvariant, NEW e \in Watched, GetNewSamples(e)
    PROVE  ConsumerKept
<1> USE BoundsAssumption
<1>1. /\ UNCHANGED <<provider, memory, proxy, isAvailable, registered, providerSeen, subscription,
                     available, maxSamples, lastSeen, samples, releasing>>
      /\ call = Idle /\ e \in registered
  BY DEF GetNewSamples
<1>2. PICK n \in 1 .. SampleCount + 1 :
          call' = [at |-> "allocate", element |-> e, wanted |-> n, expected |-> available[e],
                   guards |-> 0]
  BY DEF GetNewSamples
<1>3. /\ call'.at = "allocate" /\ call'.guards = 0
      /\ call' \in [at : {"allocate"}, element : registered, wanted : Nat, expected : Nat,
                    guards : Nat]
  BY <1>1, <1>2, GuardsOf DEF ElementInvariant
<1>4. call' # Idle
  BY <1>3 DEF Idle
<1>5. \A d \in Watched : Referenced(d)' \subseteq slots[d]
  BY <1>1, <1>3 DEF ElementInvariant, MemoryInvariant, SamplesStay, Referenced, Collected
<1>6. MemoryInvariant'
  BY <1>1, <1>5, UsersKept DEF ElementInvariant, MemoryInvariant
<1>7. ConsumerTypes'
  BY <1>1, <1>3 DEF ConsumerTypes
<1>8. GuardsAccounted'
  BY <1>1, <1>3 DEF ElementInvariant, ConsumerInvariant, GuardsAccounted
<1>9. CallOfSubscriber'
  BY <1>1, <1>3 DEF CallOfSubscriber
<1>10. SamplesOfSubscriber'
  BY <1>1 DEF ElementInvariant, ConsumerInvariant, SamplesOfSubscriber
<1>11. CollectedOnce' /\ EventsKnowService'
  BY <1>1, <1>3 DEF ElementInvariant, ConsumerInvariant, CollectedOnce, EventsKnowService,
                    SubscriptionFollowsService
<1> QED
  BY <1>6, <1>7, <1>8, <1>9, <1>10, <1>11 DEF ConsumerKept, ConsumerInvariant

(* An exchange moves guards to the call only if the counter was still as   *)
(* expected.                                                               *)
LEMMA AllocateKeeps ==
    ASSUME ConsumerTypes, ElementInvariant, Allocate
    PROVE  ConsumerKept
<1> DEFINE e == call.element
<1> DEFINE n == Min({call.expected, call.wanted})
<1>1. /\ UNCHANGED <<provider, memory, proxy, isAvailable, registered, providerSeen, subscription,
                     maxSamples, lastSeen, samples, releasing>>
      /\ call.at = "allocate" /\ Exchange(call)
  BY DEF Allocate
<1>2. call \in [at : {"allocate"}, element : registered, wanted : Nat, expected : Nat, guards : Nat]
  BY <1>1, CallKnown DEF ElementInvariant
<1>3. n \in Nat /\ n <= call.expected /\ n <= call.wanted
  BY <1>2, SmallerOfTwo
<1>4. /\ e \in registered /\ e \in Watched /\ available[e] \in Nat /\ InCall(e) = call.guards
      /\ available \in [Watched -> Nat]
  BY <1>1, <1>2 DEF InCall, Idle, ConsumerTypes
<1>5. \/ /\ available[e] = call.expected
         /\ available' = [available EXCEPT ![e] = available[e] - n]
         /\ call' = [call EXCEPT !.wanted = call.wanted - n, !.guards = call.guards + n]
      \/ available' = available /\ call' = [call EXCEPT !.expected = available[e]]
  BY <1>1 DEF Exchange
<1> HIDE DEF n
<1>6. /\ call' \in [at : {"allocate"}, element : registered, wanted : Nat, expected : Nat,
                    guards : Nat]
      /\ call'.element = e /\ call'.at = "allocate"
      /\ available' \in [Watched -> Nat]
      /\ \A d \in Watched : d # e => available'[d] = available[d]
      /\ available'[e] + call'.guards = available[e] + call.guards
      /\ available'[e] <= available[e]
  <2>1. CASE /\ available[e] = call.expected
             /\ available' = [available EXCEPT ![e] = available[e] - n]
             /\ call' = [call EXCEPT !.wanted = call.wanted - n, !.guards = call.guards + n]
    <3> DEFINE w == call.wanted - n
               g == call.guards + n
               a == available[e] - n
    <3>1. w \in Nat /\ g \in Nat /\ a \in Nat /\ a + g = available[e] + call.guards
          /\ a <= available[e]
      BY <1>2, <1>3, <1>4, <2>1
    <3>2. available' = [available EXCEPT ![e] = a]
      BY <2>1
    <3>3. call' = [call EXCEPT !.wanted = w, !.guards = g]
      BY <2>1
    <3> HIDE DEF w, g, a
    <3>4. /\ call' \in [at : {"allocate"}, element : registered, wanted : Nat, expected : Nat,
                        guards : Nat]
          /\ call'.element = e /\ call'.at = "allocate" /\ call'.guards = g
      BY <1>2, <3>1, <3>3
    <3>5. available'[e] = a /\ available' \in [Watched -> Nat]
          /\ \A d \in Watched : d # e => available'[d] = available[d]
      BY <1>4, <3>1, <3>2
    <3> QED
      BY <3>1, <3>4, <3>5
  <2>2. CASE available' = available /\ call' = [call EXCEPT !.expected = available[e]]
    <3>1. /\ call' \in [at : {"allocate"}, element : registered, wanted : Nat, expected : Nat,
                        guards : Nat]
          /\ call'.element = e /\ call'.at = "allocate" /\ call'.guards = call.guards
      BY <1>2, <1>4, <2>2
    <3> QED
      BY <1>4, <2>2, <3>1
  <2> QED
    BY <1>5, <2>1, <2>2
<1>8. \A d \in Watched : Referenced(d)' \subseteq slots[d]
  BY <1>1, <1>6 DEF ElementInvariant, MemoryInvariant, SamplesStay, Referenced, Collected
<1>9. MemoryInvariant'
  BY <1>1, <1>8, UsersKept DEF ElementInvariant, MemoryInvariant
<1>10. \A d \in registered : available'[d] + Cardinality(samples'[d]) + InCall(d)' = maxSamples'[d]
  <2> SUFFICES ASSUME NEW d \in registered
               PROVE available'[d] + Cardinality(samples'[d]) + InCall(d)' = maxSamples'[d]
    OBVIOUS
  <2>1. /\ d \in Watched /\ available[d] \in Nat /\ Cardinality(samples[d]) \in Nat
        /\ available[d] + Cardinality(samples[d]) + InCall(d) = maxSamples[d]
    BY GuardsOf DEF ElementInvariant
  <2>2. call' # Idle
    BY <1>6 DEF Idle
  <2>3. InCall(d)' = IF d = e THEN call'.guards ELSE 0
    BY <1>6, <2>2 DEF InCall
  <2>4. InCall(d) = IF d = e THEN call.guards ELSE 0
    BY <1>1 DEF InCall, Idle
  <2>5. available'[e] \in Nat /\ call'.guards \in Nat /\ call.guards \in Nat
    BY <1>2, <1>4, <1>6
  <2> HIDE DEF e
  <2> QED
    BY <1>1, <1>4, <1>6, <2>1, <2>3, <2>4, <2>5
<1>11. GuardsAccounted'
  BY <1>1, <1>10 DEF GuardsAccounted, InCall
<1>12. CallOfSubscriber' /\ SamplesOfSubscriber'
  BY <1>1, <1>4, <1>6 DEF ElementInvariant, ConsumerInvariant, CallOfSubscriber,
                          SamplesOfSubscriber
<1>13. CollectedOnce' /\ EventsKnowService'
  BY <1>1, <1>6 DEF ElementInvariant, ConsumerInvariant, CollectedOnce, EventsKnowService,
                    SubscriptionFollowsService
<1>14. \A d \in Watched : available'[d] \in 0 .. maxSamples'[d]
  <2> SUFFICES ASSUME NEW d \in Watched PROVE available'[d] \in 0 .. maxSamples'[d]
    OBVIOUS
  <2>1. d # e => available'[d] = available[d] /\ available[d] \in 0 .. maxSamples[d]
    BY <1>6 DEF ConsumerTypes
  <2>2. available'[e] <= available[e]
    BY <1>6
  <2>3. available[e] \in 0 .. maxSamples[e] /\ available'[e] \in Nat
    BY <1>4, <1>6 DEF ConsumerTypes
  <2>4. maxSamples[e] \in Nat
    BY <1>4, GuardsOf DEF ElementInvariant
  <2> HIDE DEF e
  <2> QED
    BY <1>1, <2>1, <2>2, <2>3, <2>4
<1>15. ConsumerTypes'
  BY <1>1, <1>6, <1>14 DEF ConsumerTypes
<1> QED
  BY <1>9, <1>11, <1>12, <1>13, <1>15 DEF ConsumerKept, ConsumerInvariant

(* The steps that give the guards of a call back.                          *)
LEMMA GuardsReturned ==
    ASSUME ConsumerTypes, ConsumerInvariant, call # Idle, NEW n \in Nat, NEW k \in Nat,
           UNCHANGED <<registered, maxSamples>>, call' = Idle, n + k = call.guards,
           available' = [available EXCEPT ![call.element] = available[call.element] + n],
           \A d \in Watched : d # call.element => samples'[d] = samples[d],
           Cardinality(samples'[call.element]) = Cardinality(samples[call.element]) + k
    PROVE  /\ GuardsAccounted' /\ available' \in [Watched -> Nat]
           /\ \A d \in Watched : available'[d] \in 0 .. maxSamples'[d]
<1> DEFINE e == call.element
<1>1. e \in registered /\ e \in Watched /\ available \in [Watched -> Nat]
  BY CallKnown DEF ConsumerTypes
<1>2. InCall(e) = call.guards
  BY DEF InCall
<1>3. /\ available[e] \in Nat /\ maxSamples[e] \in Nat /\ Cardinality(samples[e]) \in Nat
      /\ available[e] + Cardinality(samples[e]) + call.guards = maxSamples[e]
  BY <1>1, <1>2, GuardsOf
<1>4. /\ \A d \in Watched : d # e => available'[d] = available[d] /\ samples'[d] = samples[d]
      /\ available'[e] = available[e] + n
      /\ Cardinality(samples'[e]) = Cardinality(samples[e]) + k
  BY <1>1
<1>5. \A d \in registered : d # e => InCall(d) = 0
  BY DEF InCall
<1> HIDE DEF e
<1>6. available' \in [Watched -> Nat]
  <2>1. available' = [available EXCEPT ![e] = available[e] + n]
    BY DEF e
  <2> DEFINE v == available[e] + n
  <2>2. v \in Nat
    BY <1>3
  <2>3. available' = [available EXCEPT ![e] = v]
    BY <2>1
  <2> HIDE DEF v
  <2> QED
    BY <1>1, <2>2, <2>3
<1>7. \A d \in registered : available'[d] + Cardinality(samples'[d]) + 0 = maxSamples'[d]
  <2> SUFFICES ASSUME NEW d \in registered
               PROVE available'[d] + Cardinality(samples'[d]) + 0 = maxSamples'[d]
    OBVIOUS
  <2>1. /\ d \in Watched /\ available[d] \in Nat /\ Cardinality(samples[d]) \in Nat
        /\ available[d] + Cardinality(samples[d]) + InCall(d) = maxSamples[d]
    BY GuardsOf
  <2> QED
    BY <1>3, <1>4, <1>5, <2>1
<1>8. GuardsAccounted'
  BY <1>7 DEF GuardsAccounted
<1>9. \A d \in Watched : available'[d] \in 0 .. maxSamples'[d]
  <2> SUFFICES ASSUME NEW d \in Watched PROVE available'[d] \in 0 .. maxSamples'[d]
    OBVIOUS
  <2>1. available[d] \in 0 .. maxSamples[d]
    BY DEF ConsumerTypes
  <2>2. available'[e] \in 0 .. maxSamples[e]
    BY <1>3, <1>4
  <2> QED
    BY <1>4, <2>1, <2>2
<1> QED
  BY <1>6, <1>8, <1>9

(* A call goes on with its guards or gives them back.                      *)
LEMMA AllocatedKeeps ==
    ASSUME ConsumerTypes, ElementInvariant, Allocated
    PROVE  ConsumerKept
<1>1. /\ UNCHANGED <<provider, memory, proxy, isAvailable, registered, providerSeen, subscription,
                     maxSamples, lastSeen, samples, releasing>>
      /\ call.at = "allocate"
  BY DEF Allocated
<1>2. /\ call \in [at : {"allocate"}, element : registered, wanted : Nat, expected : Nat,
                   guards : Nat]
      /\ call # Idle
  BY <1>1, CallKnown DEF ElementInvariant, Idle
<1>3. call.element \in Watched
  BY <1>2 DEF ConsumerTypes
<1>4. CASE /\ subscription[call.element] = "subscribed" /\ UNCHANGED available
           /\ call' = [at |-> "dispatch", element |-> call.element, guards |-> call.guards]
  <2>1. /\ call' \in [at : {"dispatch"}, element : registered, guards : Nat]
        /\ call'.element = call.element /\ call'.at = "dispatch" /\ call'.guards = call.guards
    BY <1>2, <1>4
  <2>2. call' # Idle
    BY <2>1 DEF Idle
  <2>3. \A d \in Watched : Referenced(d)' \subseteq slots[d]
    BY <1>1, <2>1 DEF ElementInvariant, MemoryInvariant, SamplesStay, Referenced, Collected
  <2>4. MemoryInvariant'
    BY <1>1, <2>3, UsersKept DEF ElementInvariant, MemoryInvariant
  <2>5. ConsumerTypes'
    BY <1>1, <1>4, <2>1 DEF ConsumerTypes
  <2>6. GuardsAccounted'
    BY <1>1, <1>2, <1>4, <2>1, <2>2 DEF ElementInvariant, ConsumerInvariant, GuardsAccounted
  <2>7. CallOfSubscriber' /\ SamplesOfSubscriber'
    BY <1>1, <1>2, <1>4, <2>1 DEF ElementInvariant, ConsumerInvariant, CallOfSubscriber,
                                  SamplesOfSubscriber
  <2>8. CollectedOnce' /\ EventsKnowService'
    BY <1>1, <2>1 DEF ElementInvariant, ConsumerInvariant, CollectedOnce, EventsKnowService,
                      SubscriptionFollowsService
  <2> QED
    BY <2>4, <2>5, <2>6, <2>7, <2>8 DEF ConsumerKept, ConsumerInvariant
<1>5. CASE /\ call' = Idle
           /\ available' = [available EXCEPT ![call.element] = available[call.element] + call.guards]
  <2>1. /\ GuardsAccounted' /\ available' \in [Watched -> Nat]
        /\ \A d \in Watched : available'[d] \in 0 .. maxSamples'[d]
    <3>1. call.guards \in Nat /\ 0 \in Nat /\ call.guards + 0 = call.guards
      BY <1>2
    <3>2. Cardinality(samples'[call.element]) = Cardinality(samples[call.element]) + 0
      <4>1. Cardinality(samples[call.element]) \in Nat
        BY <1>2, GuardsOf DEF ElementInvariant
      <4> QED
        BY <1>1, <4>1
    <3>3. \A d \in Watched : d # call.element => samples'[d] = samples[d]
      BY <1>1
    <3> QED
      BY <1>1, <1>2, <1>5, <3>1, <3>2, <3>3, GuardsReturned DEF ElementInvariant
  <2>2. \A d \in Watched : Referenced(d)' \subseteq slots[d]
    BY <1>1, <1>5 DEF ElementInvariant, MemoryInvariant, SamplesStay, Referenced, Collected, Idle
  <2>3. MemoryInvariant'
    BY <1>1, <2>2, UsersKept DEF ElementInvariant, MemoryInvariant
  <2>4. ConsumerTypes'
    BY <1>1, <1>5, <2>1 DEF ConsumerTypes, Idle
  <2>5. CallOfSubscriber' /\ SamplesOfSubscriber' /\ CollectedOnce' /\ EventsKnowService'
    BY <1>1, <1>5 DEF ElementInvariant, ConsumerInvariant, CallOfSubscriber, SamplesOfSubscriber,
                      CollectedOnce, EventsKnowService, SubscriptionFollowsService, Idle
  <2> QED
    BY <2>1, <2>3, <2>4, <2>5 DEF ConsumerKept, ConsumerInvariant
<1> QED
  BY <1>4, <1>5 DEF Allocated

(* What is collected is published, newer than all that was seen, and no    *)
(* more than the guards at hand.                                           *)
LEMMA NewSamplesFound ==
    ASSUME ProviderTypes, ConsumerTypes, ProviderInvariant, NEW e \in Watched, NEW n \in Nat
    PROVE  /\ NewSamples(e, n) \subseteq slots[e] /\ NewSamples(e, n) \in SUBSET Nat
           /\ IsFiniteSet(NewSamples(e, n)) /\ Cardinality(NewSamples(e, n)) <= n
           /\ \A t \in NewSamples(e, n) : t > lastSeen[e]
<1> DEFINE T == {t \in slots[e] : t > lastSeen[e]}
           S == {t \in T : Cardinality({u \in T : u > t}) < n}
<1>1. e \in Elements
  BY ElementsAssumption
<1>2. /\ clock[e] \in Nat /\ slots[e] \in SUBSET Nat
      /\ \A t \in slots[e] : t <= clock[e]
  BY <1>1 DEF ProviderTypes, ProviderInvariant, StampsIssued
<1>3. IsFiniteSet(slots[e])
  BY <1>2, FS_BoundedSetOfNaturals
<1>4. T \in SUBSET slots[e] /\ T \in SUBSET Nat
  BY <1>2
<1>5. NewSamples(e, n) = S
  BY DEF NewSamples
<1>6. \A t \in T : t > lastSeen[e]
  OBVIOUS
<1> HIDE DEF T
<1>7. IsFiniteSet(T)
  BY <1>3, <1>4, FS_Subset
<1>8. IsFiniteSet(S) /\ Cardinality(S) <= n
  BY <1>4, <1>7, NewestCounted
<1>9. S \subseteq T
  OBVIOUS
<1> QED
  BY <1>4, <1>5, <1>6, <1>8, <1>9

(* The collector remembers the newest sample it has seen.                  *)
LEMMA LastSeenMoves ==
    ASSUME ProviderTypes, ConsumerTypes, ProviderInvariant, NEW e \in Watched,
           NEW S \in SUBSET slots[e]
    PROVE  /\ Max(S \cup {lastSeen[e]}) \in Nat
           /\ lastSeen[e] <= Max(S \cup {lastSeen[e]})
           /\ \A t \in S : t <= Max(S \cup {lastSeen[e]})
<1> DEFINE T == S \cup {lastSeen[e]}
           n == clock[e] + lastSeen[e]
<1>1. e \in Elements
  BY ElementsAssumption
<1>2. /\ clock[e] \in Nat /\ slots[e] \in SUBSET Nat /\ lastSeen[e] \in Nat
      /\ \A t \in slots[e] : t <= clock[e]
  BY <1>1 DEF ProviderTypes, ProviderInvariant, StampsIssued, ConsumerTypes
<1>3. n \in Nat /\ T \in SUBSET (0 .. n) /\ T \in SUBSET Nat /\ T # {}
  BY <1>2
<1> HIDE DEF T, n
<1>4. Max(T) \in T /\ \A t \in T : t <= Max(T)
  BY <1>3, GreatestExists
<1>5. Max(T) \in Nat
  BY <1>3, <1>4
<1> QED
  BY <1>4, <1>5 DEF T

(* Collecting finds published samples not seen before, at most one per     *)
(* guard.                                                                  *)
LEMMA CollectKeeps ==
    ASSUME ProviderTypes, ConsumerTypes, ElementInvariant, Collect
    PROVE  ConsumerKept
<1> DEFINE e == call.element
           new == NewSamples(e, call.guards)
           last == Max(new \cup {lastSeen[e]})
<1>1. /\ UNCHANGED <<provider, memory, proxy, isAvailable, registered, providerSeen, subscription,
                     available, maxSamples, samples, releasing>>
      /\ call.at = "dispatch"
      /\ call' = [at |-> "deliver", element |-> e, guards |-> call.guards, collected |-> new]
      /\ lastSeen' = [lastSeen EXCEPT ![e] = last]
  BY DEF Collect
<1>2. call \in [at : {"dispatch"}, element : registered, guards : Nat] /\ call # Idle
  BY <1>1, CallKnown DEF ElementInvariant, Idle
<1>3. /\ e \in registered /\ e \in Watched /\ call.guards \in Nat
      /\ lastSeen \in [Watched -> Nat] /\ samples \in [Watched -> SUBSET Nat]
  BY <1>2 DEF ConsumerTypes
<1>4. /\ new \subseteq slots[e] /\ new \in SUBSET Nat
      /\ IsFiniteSet(new) /\ Cardinality(new) <= call.guards
      /\ \A t \in new : t > lastSeen[e]
  BY <1>3, NewSamplesFound DEF ElementInvariant
<1>5. /\ last \in Nat /\ lastSeen[e] <= last
      /\ \A t \in new : t <= last
  BY <1>3, <1>4, LastSeenMoves DEF ElementInvariant
<1>6. /\ \A d \in Watched : IsFiniteSet(samples[d]) /\ IsFiniteSet(releasing[d])
                            /\ \A t \in samples[d] : t <= lastSeen[d]
      /\ subscription[e] # "not_subscribed"
  BY <1>1 DEF ElementInvariant, ConsumerInvariant, CollectedOnce, CallOfSubscriber
<1> HIDE DEF new, last
<1>7. /\ call' \in [at : {"deliver"}, element : registered, guards : Nat, collected : SUBSET Nat]
      /\ call'.at = "deliver" /\ call'.element = e /\ call'.guards = call.guards
      /\ call'.collected = new
  BY <1>1, <1>3, <1>4
<1>8. call' # Idle
  BY <1>7 DEF Idle
<1> HIDE DEF e
<1>9. /\ \A d \in Watched : d # e => lastSeen'[d] = lastSeen[d]
      /\ lastSeen'[e] = last /\ lastSeen' \in [Watched -> Nat]
  BY <1>1, <1>3, <1>5
<1>10. new \cap samples[e] = {}
  <2> SUFFICES ASSUME NEW t \in new, t \in samples[e] PROVE FALSE
    OBVIOUS
  <2>1. t \in Nat /\ lastSeen[e] \in Nat /\ t > lastSeen[e] /\ t <= lastSeen[e]
    BY <1>3, <1>4, <1>6
  <2> QED
    BY <2>1
<1>11. \A d \in Watched : \A t \in samples[d] : t <= lastSeen'[d]
  <2> SUFFICES ASSUME NEW d \in Watched, NEW t \in samples[d] PROVE t <= lastSeen'[d]
    OBVIOUS
  <2>1. t \in Nat /\ t <= lastSeen[d] /\ lastSeen[d] \in Nat
    BY <1>3, <1>6
  <2>2. CASE d = e
    BY <1>5, <1>9, <2>1, <2>2
  <2>3. CASE d # e
    BY <1>9, <2>1, <2>3
  <2> QED
    BY <2>2, <2>3
<1>12. CollectedOnce'
  BY <1>1, <1>4, <1>5, <1>6, <1>7, <1>9, <1>10, <1>11 DEF CollectedOnce
<1>13. \A d \in Watched : Referenced(d)' \subseteq slots[d]
  <2> SUFFICES ASSUME NEW d \in Watched PROVE Referenced(d)' \subseteq slots[d]
    OBVIOUS
  <2>1. samples[d] \cup releasing[d] \subseteq slots[d]
    BY DEF ElementInvariant, MemoryInvariant, SamplesStay, Referenced
  <2>2. Collected(d)' \subseteq slots[d]
    BY <1>4, <1>7 DEF Collected
  <2> QED
    BY <1>1, <2>1, <2>2 DEF Referenced
<1>14. MemoryInvariant'
  BY <1>1, <1>13, UsersKept DEF ElementInvariant, MemoryInvariant
<1>15. ConsumerTypes'
  BY <1>1, <1>7, <1>9 DEF ConsumerTypes
<1>16. GuardsAccounted'
  BY <1>1, <1>2, <1>7, <1>8 DEF ElementInvariant, ConsumerInvariant, GuardsAccounted, e
<1>17. CallOfSubscriber' /\ SamplesOfSubscriber'
  BY <1>1, <1>2, <1>6, <1>7 DEF ElementInvariant, ConsumerInvariant, CallOfSubscriber,
                                SamplesOfSubscriber
<1>18. EventsKnowService'
  BY <1>1 DEF ElementInvariant, ConsumerInvariant, EventsKnowService, SubscriptionFollowsService
<1> QED
  BY <1>12, <1>14, <1>15, <1>16, <1>17, <1>18 DEF ConsumerKept, ConsumerInvariant

(* Delivery uses a guard for each sample and gives back the others.        *)
LEMMA DeliverKeeps ==
    ASSUME ConsumerTypes, ElementInvariant, Deliver
    PROVE  ConsumerKept
<1> DEFINE e == call.element
           new == call.collected
           k == Cardinality(new)
           n == call.guards - k
           held == samples[e] \cup new
<1>1. /\ UNCHANGED <<provider, memory, proxy, isAvailable, registered, providerSeen, subscription,
                     maxSamples, lastSeen, releasing>>
      /\ call.at = "deliver" /\ call' = Idle
      /\ samples' = [samples EXCEPT ![e] = held]
      /\ available' = [available EXCEPT ![e] = available[e] + n]
  BY DEF Deliver, GuardsLeft
<1>2. /\ call \in [at : {"deliver"}, element : registered, guards : Nat, collected : SUBSET Nat]
      /\ call # Idle
  BY <1>1, CallKnown DEF ElementInvariant, Idle
<1>3. /\ e \in registered /\ e \in Watched /\ call.guards \in Nat /\ new \in SUBSET Nat
      /\ lastSeen \in [Watched -> Nat] /\ samples \in [Watched -> SUBSET Nat]
  BY <1>2 DEF ConsumerTypes
<1>4. /\ IsFiniteSet(new) /\ Cardinality(new) <= call.guards
      /\ new \cap samples[e] = {} /\ \A t \in new : t <= lastSeen[e]
      /\ \A d \in Watched : IsFiniteSet(samples[d]) /\ IsFiniteSet(releasing[d])
                            /\ \A t \in samples[d] : t <= lastSeen[d]
      /\ subscription[e] # "not_subscribed"
  BY <1>1 DEF ElementInvariant, ConsumerInvariant, CollectedOnce, CallOfSubscriber
<1>5. k \in Nat /\ Cardinality(samples[e]) \in Nat
  BY <1>3, <1>4, FS_CardinalityType
<1>6. n \in Nat /\ n + k = call.guards
  BY <1>3, <1>4, <1>5
<1>7. IsFiniteSet(held) /\ Cardinality(held) = Cardinality(samples[e]) + k
  <2>1. samples[e] \cap new = {}
    BY <1>4
  <2>2. IsFiniteSet(samples[e]) /\ IsFiniteSet(new)
    BY <1>3, <1>4
  <2>3. /\ IsFiniteSet(samples[e] \cup new)
        /\ Cardinality(samples[e] \cup new)
              = Cardinality(samples[e]) + Cardinality(new) - Cardinality(samples[e] \cap new)
    BY <2>2, FS_Union
  <2>4. Cardinality(samples[e] \cap new) = 0
    BY <2>1, FS_EmptySet
  <2> QED
    BY <1>5, <2>3, <2>4
<1>8. /\ held \in SUBSET Nat /\ \A t \in held : t <= lastSeen[e]
      /\ held = samples[e] \cup call.collected
  BY <1>3, <1>4
<1> HIDE DEF held, n, k
<1>9. /\ \A d \in Watched : d # e => samples'[d] = samples[d]
      /\ samples'[e] = held /\ samples' \in [Watched -> SUBSET Nat]
  BY <1>1, <1>3, <1>8
<1>10. /\ GuardsAccounted' /\ available' \in [Watched -> Nat]
       /\ \A d \in Watched : available'[d] \in 0 .. maxSamples'[d]
  BY <1>1, <1>2, <1>5, <1>6, <1>7, <1>9, GuardsReturned DEF ElementInvariant
<1>11. \A d \in Watched : Referenced(d)' \subseteq slots[d]
  <2> SUFFICES ASSUME NEW d \in Watched PROVE Referenced(d)' \subseteq slots[d]
    OBVIOUS
  <2>1. samples[d] \cup releasing[d] \cup Collected(d) \subseteq slots[d]
    BY DEF ElementInvariant, MemoryInvariant, SamplesStay, Referenced
  <2>2. d = e => Collected(d) = new
    BY <1>1 DEF Collected
  <2>3. samples'[d] \subseteq slots[d]
    BY <1>8, <1>9, <2>1, <2>2
  <2>4. Collected(d)' = {}
    BY <1>1 DEF Collected, Idle
  <2> QED
    BY <1>1, <2>1, <2>3, <2>4 DEF Referenced
<1>12. MemoryInvariant'
  BY <1>1, <1>11, UsersKept DEF ElementInvariant, MemoryInvariant
<1>13. ConsumerTypes'
  BY <1>1, <1>9, <1>10 DEF ConsumerTypes, Idle
<1>14. CallOfSubscriber' /\ SamplesOfSubscriber'
  BY <1>1, <1>3, <1>4, <1>9 DEF ElementInvariant, ConsumerInvariant, CallOfSubscriber,
                                SamplesOfSubscriber, Idle
<1>15. CollectedOnce'
  BY <1>1, <1>4, <1>7, <1>8, <1>9 DEF CollectedOnce, Idle
<1>16. EventsKnowService'
  BY <1>1 DEF ElementInvariant, ConsumerInvariant, EventsKnowService, SubscriptionFollowsService
<1> QED
  BY <1>10, <1>12, <1>13, <1>14, <1>15, <1>16 DEF ConsumerKept, ConsumerInvariant

(* A SamplePtr gives its guard back and still references its slot.         *)
LEMMA ReleaseGuardKeeps ==
    ASSUME ConsumerTypes, ElementInvariant, NEW e \in Watched, ReleaseGuard(e)
    PROVE  ConsumerKept
<1> DEFINE free == available[e] + 1
<1>1. PICK t \in samples[e] :
          /\ samples' = [samples EXCEPT ![e] = samples[e] \ {t}]
          /\ releasing' = [releasing EXCEPT ![e] = releasing[e] \cup {t}]
  BY DEF ReleaseGuard
<1>2. /\ UNCHANGED <<provider, memory, proxy, isAvailable, registered, providerSeen, subscription,
                     maxSamples, lastSeen, call>>
      /\ available' = [available EXCEPT ![e] = free]
  BY DEF ReleaseGuard
<1>3. subscription[e] # "not_subscribed" /\ e \in registered
  BY <1>1 DEF ElementInvariant, ConsumerInvariant, SamplesOfSubscriber
<1>4. proxy # "none"
  BY <1>3 DEF ElementInvariant, ConsumerInvariant, SamplesOfSubscriber
<1>5. /\ available[e] \in Nat /\ maxSamples[e] \in Nat
      /\ IsFiniteSet(samples[e]) /\ Cardinality(samples[e]) \in Nat
      /\ available[e] + Cardinality(samples[e]) + InCall(e) = maxSamples[e]
      /\ InCall(e) \in Nat
  BY <1>3, GuardsOf, CallKnown DEF ElementInvariant
<1> DEFINE kept == samples[e] \ {t}
           leaving == releasing[e] \cup {t}
<1>6. IsFiniteSet(kept) /\ Cardinality(kept) = Cardinality(samples[e]) - 1
  BY <1>1, <1>5, FS_RemoveElement
<1>7. IsFiniteSet(releasing[e]) /\ IsFiniteSet(leaving)
  <2>1. IsFiniteSet(releasing[e])
    BY DEF ElementInvariant, ConsumerInvariant, CollectedOnce
  <2> QED
    BY <2>1, FS_AddElement
<1>8. /\ kept \in SUBSET samples[e] /\ leaving \subseteq samples[e] \cup releasing[e]
      /\ kept \in SUBSET Nat /\ leaving \in SUBSET Nat
  BY <1>1 DEF ConsumerTypes
<1>9. kept \cup leaving = samples[e] \cup releasing[e]
  BY <1>1
<1>10. free \in Nat /\ Cardinality(kept) \in Nat /\ free <= maxSamples[e]
       /\ free + Cardinality(kept) + InCall(e) = maxSamples[e]
  <2>1. Cardinality(kept) \in Nat
    BY <1>6, FS_CardinalityType
  <2> QED
    BY <1>5, <1>6, <2>1
<1>11. samples' = [samples EXCEPT ![e] = kept] /\ releasing' = [releasing EXCEPT ![e] = leaving]
  BY <1>1
<1> HIDE DEF kept, leaving, free
<1>12. /\ \A d \in Watched : d # e => /\ available'[d] = available[d] /\ samples'[d] = samples[d]
                                      /\ releasing'[d] = releasing[d]
       /\ available'[e] = free /\ samples'[e] = kept /\ releasing'[e] = leaving
       /\ available' \in [Watched -> Nat]
       /\ samples' \in [Watched -> SUBSET Nat] /\ releasing' \in [Watched -> SUBSET Nat]
  BY <1>2, <1>8, <1>10, <1>11 DEF ConsumerTypes
<1>13. ConsumerTypes'
  <2>1. ASSUME NEW d \in Watched PROVE available'[d] \in 0 .. maxSamples'[d]
    <3>1. available[d] \in 0 .. maxSamples[d]
      BY DEF ConsumerTypes
    <3> QED
      BY <1>2, <1>5, <1>10, <1>12, <3>1
  <2> QED
    BY <1>2, <1>12, <2>1 DEF ConsumerTypes
<1>14. GuardsAccounted'
  <2>1. \A d \in registered : available'[d] + Cardinality(samples'[d]) + InCall(d) = maxSamples[d]
    <3> SUFFICES ASSUME NEW d \in registered
                 PROVE available'[d] + Cardinality(samples'[d]) + InCall(d) = maxSamples[d]
      OBVIOUS
    <3>1. CASE d = e
      BY <1>10, <1>12, <3>1
    <3>2. CASE d # e
      BY <1>12, <3>2, GuardsOf DEF ElementInvariant
    <3> QED
      BY <3>1, <3>2
  <2> QED
    BY <1>2, <2>1 DEF GuardsAccounted, InCall
<1>15. CallOfSubscriber'
  BY <1>2 DEF ElementInvariant, ConsumerInvariant, CallOfSubscriber
<1>16. SamplesOfSubscriber'
  <2>1. \A d \in Watched : subscription[d] = "not_subscribed" => samples'[d] = {}
    BY <1>3, <1>12 DEF ElementInvariant, ConsumerInvariant, SamplesOfSubscriber
  <2> QED
    BY <1>2, <1>4, <2>1 DEF ElementInvariant, ConsumerInvariant, SamplesOfSubscriber
<1>17. CollectedOnce'
  <2>1. \A d \in Watched : samples'[d] \subseteq samples[d]
    BY <1>8, <1>12
  <2>2. \A d \in Watched : IsFiniteSet(samples'[d]) /\ IsFiniteSet(releasing'[d])
    BY <1>6, <1>7, <1>12 DEF ElementInvariant, ConsumerInvariant, CollectedOnce
  <2>3. call # Idle => call.element \in Watched
    BY CallKnown DEF ElementInvariant, ConsumerTypes
  <2> QED
    BY <1>2, <2>1, <2>2, <2>3 DEF ElementInvariant, ConsumerInvariant, CollectedOnce, Idle
<1>18. EventsKnowService'
  BY <1>2 DEF ElementInvariant, ConsumerInvariant, EventsKnowService, SubscriptionFollowsService
<1>19. \A d \in Watched : Referenced(d)' \subseteq slots[d]
  <2> SUFFICES ASSUME NEW d \in Watched PROVE Referenced(d)' \subseteq slots[d]
    OBVIOUS
  <2>1. samples[d] \cup releasing[d] \cup Collected(d) \subseteq slots[d]
    BY DEF ElementInvariant, MemoryInvariant, SamplesStay, Referenced
  <2>2. samples'[d] \cup releasing'[d] = samples[d] \cup releasing[d]
    BY <1>9, <1>12
  <2>3. Collected(d)' = Collected(d)
    BY <1>2 DEF Collected
  <2> QED
    BY <2>1, <2>2, <2>3 DEF Referenced
<1>20. MemoryInvariant'
  BY <1>2, <1>19, UsersKept DEF ElementInvariant, MemoryInvariant
<1> QED
  BY <1>13, <1>14, <1>15, <1>16, <1>17, <1>18, <1>20 DEF ConsumerKept, ConsumerInvariant

(* A slot that is given back is referenced once less.                      *)
LEMMA ReleaseSlotKeeps ==
    ASSUME ConsumerTypes, ElementInvariant, NEW e \in Watched, ReleaseSlot(e)
    PROVE  ConsumerKept
<1>1. PICK t \in releasing[e] : releasing' = [releasing EXCEPT ![e] = releasing[e] \ {t}]
  BY DEF ReleaseSlot
<1>2. UNCHANGED <<provider, memory, proxy, isAvailable, registered, providerSeen, subscription,
                  available, maxSamples, lastSeen, call, samples>>
  BY DEF ReleaseSlot
<1> DEFINE left == releasing[e] \ {t}
<1>3. left \subseteq releasing[e] /\ left \in SUBSET Nat
  BY DEF ConsumerTypes
<1>4. IsFiniteSet(left)
  <2>1. IsFiniteSet(releasing[e])
    BY DEF ElementInvariant, ConsumerInvariant, CollectedOnce
  <2> QED
    BY <2>1, FS_RemoveElement
<1>5. releasing' = [releasing EXCEPT ![e] = left]
  BY <1>1
<1> HIDE DEF left
<1>6. /\ \A d \in Watched : d # e => releasing'[d] = releasing[d]
      /\ releasing'[e] = left /\ releasing' \in [Watched -> SUBSET Nat]
  BY <1>3, <1>5 DEF ConsumerTypes
<1>7. \A d \in Watched : releasing'[d] \subseteq releasing[d] /\ IsFiniteSet(releasing'[d])
  BY <1>3, <1>4, <1>6 DEF ElementInvariant, ConsumerInvariant, CollectedOnce
<1>8. ConsumerTypes'
  BY <1>2, <1>6 DEF ConsumerTypes
<1>9. GuardsAccounted' /\ CallOfSubscriber'
  BY <1>2 DEF ElementInvariant, ConsumerInvariant, GuardsAccounted, CallOfSubscriber
<1>10. SamplesOfSubscriber' /\ CollectedOnce'
  BY <1>2, <1>7 DEF ElementInvariant, ConsumerInvariant, SamplesOfSubscriber, CollectedOnce
<1>11. EventsKnowService'
  BY <1>2 DEF ElementInvariant, ConsumerInvariant, EventsKnowService, SubscriptionFollowsService
<1>12. \A d \in Watched : Referenced(d)' \subseteq slots[d]
  BY <1>2, <1>7 DEF ElementInvariant, MemoryInvariant, SamplesStay, Referenced, Collected
<1>13. MemoryInvariant'
  BY <1>2, <1>12, UsersKept DEF ElementInvariant, MemoryInvariant
<1> QED
  BY <1>8, <1>9, <1>10, <1>11, <1>13 DEF ConsumerKept, ConsumerInvariant

-----------------------------------------------------------------------------
(* The steps together.                                                     *)

(* At first there is nothing but an idle skeleton and no proxy.            *)
LEMMA ElementInit == Init => TypeOK /\ ElementInvariant
<1> SUFFICES ASSUME Init PROVE TypeOK /\ ElementInvariant
  OBVIOUS
<1> USE BoundsAssumption
<1>1. ProviderTypes
  <2>1. /\ elementOffered \in [Elements -> BOOLEAN] /\ prepared \in [Fields -> BOOLEAN]
        /\ slots \in [Elements -> SUBSET Nat] /\ clock \in [Elements -> Nat]
    BY DEF Init
  <2>2. 0 \in 0 .. MaxUpdates /\ 0 \in 0 .. MaxOffers
    OBVIOUS
  <2>3. /\ initialValue \in [Fields -> 0 .. MaxUpdates] /\ accepted \in [Fields -> 0 .. MaxUpdates]
        /\ newest \in [Fields -> 0 .. MaxUpdates] /\ preparedIn \in [Fields -> 0 .. MaxOffers]
    BY <2>2 DEF Init
  <2> QED
    BY <2>1, <2>2, <2>3 DEF Init, ProviderTypes
<1>2. ConsumerTypes
  <2>1. \A e \in Watched : available[e] \in 0 .. maxSamples[e]
    BY DEF Init
  <2>2. /\ available \in [Watched -> Nat] /\ maxSamples \in [Watched -> {0, SampleCount}]
        /\ lastSeen \in [Watched -> Nat] /\ providerSeen \in [Watched -> BOOLEAN]
        /\ subscription \in [Watched -> {"not_subscribed", "pending", "subscribed"}]
    BY DEF Init
  <2>3. samples \in [Watched -> SUBSET Nat] /\ releasing \in [Watched -> SUBSET Nat]
    BY DEF Init
  <2> QED
    BY <2>1, <2>2, <2>3 DEF Init, ConsumerTypes, Idle
<1>3. ProviderInvariant
  BY DEF Init, ProviderInvariant, SendsReachMemory, OfferEndsWithSkeleton, OfferComplete,
         FieldsShown, StampsIssued
<1>4. ConsumerInvariant
  BY FS_EmptySet DEF Init, ConsumerInvariant, GuardsAccounted, CallOfSubscriber, SamplesOfSubscriber,
         CollectedOnce, EventsKnowService, SubscriptionFollowsService, Idle
<1>5. MemoryInvariant
  BY DEF Init, MemoryInvariant, SamplesStay, Referenced, Collected, Idle
<1> QED
  BY <1>1, <1>2, <1>3, <1>4, <1>5, TypesOfBoth DEF ElementInvariant

(* A step of the provider, and the consumer stays where it is.             *)
LEMMA ProviderSteps ==
    ASSUME TypeOK, ElementInvariant,
           (\E e \in Events : EventStep(e)) \/ (\E f \in Fields : FieldStep(f)) \/ SkeletonStep
    PROVE  TypeOK' /\ ElementInvariant'
<1>1. ProviderTypes /\ ConsumerTypes
  BY TypesOfBoth
<1>2. ProviderKept /\ UNCHANGED consumer
  <2>1. ASSUME NEW e \in Events, EventStep(e) PROVE ProviderKept /\ UNCHANGED consumer
    <3>1. ProviderKept
      BY <1>1, <2>1, SendKeeps, PrepareEventKeeps DEF EventStep
    <3> QED
      BY <2>1, <3>1 DEF EventStep, Send, PrepareEvent
  <2>2. ASSUME NEW f \in Fields, FieldStep(f) PROVE ProviderKept /\ UNCHANGED consumer
    <3>1. ProviderKept
      BY <1>1, <2>2, SaveInitialValueKeeps, UpdateKeeps, PrepareFieldFirstKeeps,
         PrepareFieldAgainKeeps, PrepareFieldFailsKeeps DEF FieldStep
    <3> QED
      BY <2>2, <3>1 DEF FieldStep, SaveInitialValue, Update, PrepareFieldFirst, PrepareFieldAgain,
                        PrepareFieldFails
  <2>3. ASSUME SkeletonStep PROVE ProviderKept /\ UNCHANGED consumer
    <3>1. ProviderKept
      BY <1>1, <2>3, BindingPrepareOfferKeeps, FinishOfferKeeps, StopOfferServiceKeeps,
         DestroySkeletonKeeps DEF SkeletonStep
    <3> QED
      BY <2>3, <3>1 DEF SkeletonStep, BindingPrepareOffer, FinishOffer, StopOfferService,
                        DestroySkeleton
  <2> QED
    BY <2>1, <2>2, <2>3
<1>3. ConsumerTypes' /\ ConsumerInvariant'
  BY <1>1, <1>2, ConsumerStays DEF ElementInvariant
<1>4. ProviderTypes' /\ ProviderInvariant' /\ MemoryInvariant'
  BY <1>2 DEF ProviderKept
<1>5. TypeOK'
  BY <1>3, <1>4 DEF TypeOK, ProviderTypes, ConsumerTypes
<1> QED
  BY <1>3, <1>4, <1>5 DEF ElementInvariant

(* A step of the consumer leaves the provider and its memory alone.        *)
LEMMA ConsumerSteps ==
    ASSUME TypeOK, ElementInvariant,
           ProxyStep \/ (\E e \in Watched : ProxyEventStep(e)) \/ GetNewSamplesStep
    PROVE  TypeOK' /\ ElementInvariant'
<1>1. ProviderTypes /\ ConsumerTypes
  BY TypesOfBoth
<1>2. ConsumerKept /\ UNCHANGED <<provider, memory>>
  <2>1. ASSUME ProxyStep PROVE ConsumerKept /\ UNCHANGED <<provider, memory>>
    <3>1. ConsumerKept
      BY <1>1, <2>1, ConnectKeeps, HandlerKeeps, DestroyProxyKeeps DEF ProxyStep
    <3> QED
      BY <2>1, <3>1 DEF ProxyStep, Connect, ServiceAvailabilityChangeHandler, DestroyProxy
  <2>2. ASSUME NEW e \in Watched, ProxyEventStep(e)
        PROVE  ConsumerKept /\ UNCHANGED <<provider, memory>>
    <3>1. ConsumerKept
      BY <1>1, <2>2, RegisterEventBindingKeeps, SubscribeKeeps, UnsubscribeKeeps,
         GetNewSamplesKeeps, ReleaseGuardKeeps, ReleaseSlotKeeps DEF ProxyEventStep
    <3> QED
      BY <2>2, <3>1 DEF ProxyEventStep, RegisterEventBinding, Subscribe, Unsubscribe,
                        GetNewSamples, ReleaseGuard, ReleaseSlot
  <2>3. ASSUME GetNewSamplesStep PROVE ConsumerKept /\ UNCHANGED <<provider, memory>>
    <3>1. ConsumerKept
      BY <1>1, <2>3, AllocateKeeps, AllocatedKeeps, CollectKeeps, DeliverKeeps
         DEF GetNewSamplesStep
    <3> QED
      BY <2>3, <3>1 DEF GetNewSamplesStep, Allocate, Allocated, Collect, Deliver
  <2> QED
    BY <2>1, <2>2, <2>3
<1>3. ProviderTypes' /\ ProviderInvariant'
  BY <1>1, <1>2, ProviderStays DEF ElementInvariant
<1>4. ConsumerTypes' /\ ConsumerInvariant' /\ MemoryInvariant'
  BY <1>2 DEF ConsumerKept
<1>5. TypeOK'
  BY <1>3, <1>4 DEF TypeOK, ProviderTypes, ConsumerTypes
<1> QED
  BY <1>3, <1>4, <1>5 DEF ElementInvariant

(* Nothing that is observed changes when nothing changes.                  *)
LEMMA ElementStutter ==
    ASSUME TypeOK, ElementInvariant, UNCHANGED vars
    PROVE  TypeOK' /\ ElementInvariant'
<1>1. UNCHANGED <<provider, memory>> /\ UNCHANGED consumer
  BY DEF vars
<1>2. ProviderTypes' /\ ProviderInvariant' /\ ConsumerTypes' /\ ConsumerInvariant'
  BY <1>1, TypesOfBoth, ProviderStays, ConsumerStays DEF ElementInvariant
<1>3. \A d \in Watched : Referenced(d)' \subseteq slots[d]
  BY <1>1 DEF ElementInvariant, MemoryInvariant, SamplesStay, Referenced, Collected, consumer,
              sampleVars
<1>4. MemoryInvariant'
  BY <1>1, <1>3, UsersKept DEF ElementInvariant, MemoryInvariant, consumer, proxyVars
<1>5. TypeOK'
  BY <1>2 DEF TypeOK, ProviderTypes, ConsumerTypes
<1> QED
  BY <1>2, <1>4, <1>5 DEF ElementInvariant

(* ElementInvariant holds of any number of elements, samples, updates and  *)
(* offers, whatever the application, the discovery and the threads that    *)
(* release samples do in between.                                          *)
THEOREM ElementInvariantHolds == Spec => [](TypeOK /\ ElementInvariant)
<1>1. ASSUME TypeOK, ElementInvariant, [Next]_vars PROVE TypeOK' /\ ElementInvariant'
  BY <1>1, ProviderSteps, ConsumerSteps, ElementStutter DEF Next
<1> QED
  BY <1>1, ElementInit, PTL DEF Spec

-----------------------------------------------------------------------------
(* No more is referenced than the guards that are out.                     *)
LEMMA ReferencesCounted ==
    ASSUME TypeOK, ElementInvariant
    PROVE  ReferencesWithinSubscription
<1> USE BoundsAssumption
<1> SUFFICES ASSUME NEW e \in Watched
             PROVE  Cardinality(Referenced(e)) <= SampleCount + Cardinality(releasing[e])
  BY DEF ReferencesWithinSubscription
<1>1. ConsumerTypes /\ ConsumerInvariant
  BY TypesOfBoth DEF ElementInvariant
<1> DEFINE S == samples[e]
           R == releasing[e]
           C == Collected(e)
           U == S \cup C
<1>2. IsFiniteSet(S) /\ IsFiniteSet(R)
  BY <1>1 DEF ConsumerInvariant, CollectedOnce
<1>3. IsFiniteSet(C) /\ Cardinality(C) <= InCall(e) /\ Cardinality(C) \in Nat /\ InCall(e) \in Nat
  <2>1. InCall(e) \in Nat
    BY <1>1, CallKnown
  <2>2. CASE call.at = "deliver" /\ call.element = e
    <3>1. C = call.collected
      BY <2>2 DEF Collected
    <3>2. InCall(e) = call.guards
      BY <2>2 DEF InCall, Idle
    <3>3. IsFiniteSet(C) /\ Cardinality(C) <= InCall(e)
      BY <1>1, <2>2, <3>1, <3>2 DEF ConsumerInvariant, CollectedOnce
    <3> QED
      BY <2>1, <3>3, FS_CardinalityType
  <2>3. CASE ~(call.at = "deliver" /\ call.element = e)
    <3>1. C = {}
      BY <2>3 DEF Collected
    <3>2. IsFiniteSet(C) /\ Cardinality(C) = 0
      BY <3>1, FS_EmptySet
    <3> QED
      BY <2>1, <3>2
  <2> QED
    BY <2>2, <2>3
<1>4. Referenced(e) = U \cup R
  BY DEF Referenced
<1>5. Cardinality(S) + InCall(e) <= SampleCount
  <2>1. Cardinality(S) \in Nat
    BY <1>2, FS_CardinalityType
  <2>2. CASE e \in registered
    BY <1>1, <1>3, <2>1, <2>2, GuardsOf
  <2>3. CASE e \notin registered
    <3>1. S = {}
      BY <1>1, <2>3 DEF ConsumerInvariant, SamplesOfSubscriber
    <3>2. InCall(e) = 0
      BY <1>1, <2>3, CallKnown DEF InCall
    <3>3. Cardinality(S) = 0
      BY <3>1, FS_EmptySet
    <3> QED
      BY <3>2, <3>3
  <2> QED
    BY <2>2, <2>3
<1> HIDE DEF S, R, C
<1>6. /\ Cardinality(S) \in Nat /\ Cardinality(R) \in Nat /\ Cardinality(S \cap C) \in Nat
      /\ IsFiniteSet(U) /\ Cardinality(U) = Cardinality(S) + Cardinality(C) - Cardinality(S \cap C)
  <2>1. S \cap C \in SUBSET S
    OBVIOUS
  <2>2. IsFiniteSet(S \cap C)
    BY <1>2, <2>1, FS_Subset
  <2> QED
    BY <1>2, <1>3, <2>2, FS_CardinalityType, FS_Union
<1> HIDE DEF U
<1>7. /\ Cardinality(U) \in Nat /\ Cardinality(U \cap R) \in Nat
      /\ Cardinality(U \cup R) = Cardinality(U) + Cardinality(R) - Cardinality(U \cap R)
  <2>1. U \cap R \in SUBSET R
    OBVIOUS
  <2>2. IsFiniteSet(U \cap R)
    BY <1>2, <2>1, FS_Subset
  <2> QED
    BY <1>2, <1>6, <2>2, FS_CardinalityType, FS_Union
<1>8. Cardinality(U \cup R) <= SampleCount + Cardinality(R)
  BY <1>3, <1>5, <1>6, <1>7
<1> QED
  BY <1>4, <1>8 DEF R

(* An application never holds more samples than it subscribed to: every    *)
(* guard of a SampleReferenceTracker is free, in a call or in a SamplePtr, *)
(* whatever order Allocate's exchanges and the destructors of SamplePtrs   *)
(* run in, and no tracker counts more free samples than it has.            *)
THEOREM QuotaIsKept == Spec => []QuotaKept
<1>1. TypeOK /\ ElementInvariant => QuotaKept
  BY ReferencesCounted DEF ElementInvariant, ConsumerInvariant, QuotaKept
<1> QED
  BY <1>1, ElementInvariantHolds, PTL

(* Samples an application holds are never overwritten and never lose their *)
(* memory: not by Send or Update, not by a new OfferService, nor by        *)
(* StopOfferService or the destruction of the skeleton.                    *)
THEOREM SamplesRemain == Spec => []SamplesStay
<1>1. ElementInvariant => SamplesStay
  BY DEF ElementInvariant, MemoryInvariant
<1> QED
  BY <1>1, ElementInvariantHolds, PTL

(* What is announced shows the value of the last Update accepted, also     *)
(* across an OfferService that failed or was repeated, unless the memory   *)
(* was made anew after the field had been sent for the first time.         *)
THEOREM FieldsShowLastUpdate == Spec => []FieldShowsLastUpdate
<1>1. ElementInvariant => FieldShowsLastUpdate
  BY DEF ElementInvariant, ProviderInvariant, OfferComplete, FieldsShown, FieldShowsLastUpdate
<1> QED
  BY <1>1, ElementInvariantHolds, PTL

(* No element accepts samples without memory, an offer ends with its       *)
(* skeleton, and every registered event follows the proxy's view of the    *)
(* service.                                                                *)
THEOREM OffersConsistent == Spec => []OfferConsistent
<1>1. ElementInvariant => OfferConsistent
  BY DEF ElementInvariant, ProviderInvariant, ConsumerInvariant, EventsKnowService, OfferConsistent
<1> QED
  BY <1>1, ElementInvariantHolds, PTL
=============================================================================
