------------------- MODULE EventDataControlCompositeProofs -------------------
(***************************************************************************)
(* Theorems about the two control blocks of an ASIL-B event, for any       *)
(* number of slots, samples and restarts.  CompositeInvariant is the       *)
(* inductive invariant: next to the properties themselves it says who owns *)
(* a lock while the allocation holds one block and not yet the other, what *)
(* the roll-back will put back, and which samples know of the disconnect.  *)
(***************************************************************************)
EXTENDS EventDataControlComposite, FiniteSetTheorems, FunctionTheorems,
        NaturalsInduction, WellFoundedInduction, TLAPS

(* A set of naturals with an element and an upper bound has a greatest     *)
(* element.                                                                *)
LEMMA MaximumExists ==
    ASSUME NEW n \in Nat, NEW T \in SUBSET (0 .. n), T # {}
    PROVE  LET m == CHOOSE t \in T : \A u \in T : u <= t
           IN  m \in T /\ \A u \in T : u <= m
<1> DEFINE D == {n - t : t \in T}
<1>1. D \subseteq Nat /\ D # {}
  <2>1. PICK t \in T : TRUE
    OBVIOUS
  <2>2. n - t \in D
    OBVIOUS
  <2>3. ASSUME NEW d \in D PROVE d \in Nat
    <3>1. PICK u \in T : d = n - u
      OBVIOUS
    <3> QED
      BY <3>1
  <2> QED
    BY <2>2, <2>3
<1>2. PICK x \in D : \A y \in D : ~(<<y, x>> \in OpToRel(<, Nat))
  BY <1>1, NatLessThanWellFounded, WFMin
<1>3. \A y \in D : ~(y < x)
  BY <1>1, <1>2 DEF OpToRel
<1>4. PICK t \in T : x = n - t
  OBVIOUS
<1>5. \A u \in T : u <= t
  <2> TAKE u \in T
  <2>1. n - u \in D
    OBVIOUS
  <2>2. ~(n - u < n - t)
    BY <1>3, <1>4, <2>1
  <2> QED
    BY <2>2
<1> QED
  BY <1>5

(* The reserved words, and what the predicates say of any word.            *)
LEMMA StatusConstants ==
    /\ INVALID \in SlotStatus /\ INVALID.ts = 0 /\ INVALID.refs = 0
    /\ IN_WRITING \in SlotStatus /\ IN_WRITING.ts = 0 /\ IN_WRITING.refs = RefCountMax
    /\ ~IsInWriting(INVALID) /\ IsInWriting(IN_WRITING)
    /\ ~IsUsed(INVALID)
    /\ \A st : ~IsUsed(st) => st.refs = 0 /\ ~IsInWriting(st)
    /\ \A st : st.ts # 0 => ~IsInWriting(st)
    /\ \A st : ~IsInWriting(Discarded(st))
    /\ \A st \in SlotStatus : Discarded(st) \in SlotStatus /\ Discarded(st).ts = st.ts
BY StatusAssumption DEF INVALID, IN_WRITING, SlotStatus, Timestamps, RefCounts,
   IsInWriting, IsUsed, Discarded

(* Increment and Decrement leave the timestamp alone as long as the count  *)
(* has room.                                                               *)
LEMMA StatusArithmetic ==
    ASSUME NEW st \in SlotStatus
    PROVE  /\ Increment(st) \in SlotStatus
           /\ Decrement(st) \in SlotStatus
           /\ st.refs < RefCountMax =>
                 Increment(st).ts = st.ts /\ Increment(st).refs = st.refs + 1
           /\ st.refs > 0 =>
                 Decrement(st).ts = st.ts /\ Decrement(st).refs = st.refs - 1
<1>0. \A a \in Nat : a % (TimestampMax + 1) \in 0 .. TimestampMax
  BY StatusAssumption
<1>1. st.ts \in 0 .. TimestampMax /\ st.refs \in 0 .. RefCountMax
  BY DEF SlotStatus, Timestamps, RefCounts
<1>2. /\ (st.ts + 1) % (TimestampMax + 1) \in 0 .. TimestampMax
      /\ (st.ts + TimestampMax) % (TimestampMax + 1) \in 0 .. TimestampMax
  BY <1>0, <1>1, StatusAssumption
<1>3. Increment(st) \in SlotStatus /\ Decrement(st) \in SlotStatus
  BY <1>1, <1>2, StatusAssumption
     DEF Increment, Decrement, SlotStatus, Timestamps, RefCounts
<1> QED
  BY <1>1, <1>3 DEF Increment, Decrement

(* The clock a restarted skeleton recovers is a timestamp and not 0.       *)
LEMMA LatestTimestamp ==
    ASSUME NEW w \in [Slots -> SlotStatus]
    PROVE  GetLatestTimestamp(w) \in Timestamps \ {0}
<1> DEFINE stamps == {1} \union {w[s].ts : s \in Slots}
           m == CHOOSE t \in stamps : \A u \in stamps : u <= t
<1>1. stamps \in SUBSET (0 .. TimestampMax) /\ stamps # {} /\ 1 \in stamps
  BY StatusAssumption DEF SlotStatus, Timestamps
<1>2. GetLatestTimestamp(w) = m
  BY DEF GetLatestTimestamp
<1> HIDE DEF stamps
<1>3. m \in stamps /\ 1 <= m
  BY <1>1, MaximumExists, StatusAssumption
<1> HIDE DEF m
<1> QED
  BY <1>1, <1>2, <1>3 DEF Timestamps

(* Total counts the SamplePtrs of all slots: it follows a single reader,   *)
(* and bounds those of one slot and the number of slots that are read.     *)
LEMMA TotalBounds ==
    ASSUME NEW f \in [Slots -> Nat], \A s \in Slots : f[s] <= RefCountMax
    PROVE  /\ Total(f) \in Nat
           /\ \A s \in Slots : f[s] <= Total(f)
           /\ \A s \in Slots : f[s] < RefCountMax =>
                 Total([f EXCEPT ![s] = @ + 1]) = Total(f) + 1
           /\ \A s \in Slots : f[s] > 0 =>
                 Total([f EXCEPT ![s] = @ - 1]) = Total(f) - 1
           /\ Cardinality({s \in Slots : f[s] > 0}) <= Total(f)
<1> DEFINE G == Slots \X (1 .. RefCountMax)
           P(g) == {x \in Slots \X (1 .. RefCountMax) : x[2] <= g[x[1]]}
<1>1. IsFiniteSet(Slots) /\ IsFiniteSet(1 .. RefCountMax)
  <2>1. 0 \in Int /\ NumSlots - 1 \in Int /\ 1 \in Int /\ RefCountMax \in Int
    BY CompositeAssumption, StatusAssumption
  <2> QED
    BY <2>1, FS_Interval DEF Slots
<1>2. IsFiniteSet(G)
  BY <1>1, FS_Product
<1>3. \A g : P(g) \in SUBSET G
  OBVIOUS
<1>4. \A g : IsFiniteSet(P(g)) /\ Cardinality(P(g)) \in Nat
  BY <1>2, <1>3, FS_Subset, FS_CardinalityType
<1>5. \A g : Total(g) = Cardinality(P(g))
  BY DEF Total
<1>6. ASSUME NEW s \in Slots PROVE f[s] <= Total(f)
  <2> DEFINE h == [i \in 1 .. f[s] |-> <<s, i>>]
  <2>1. h \in [1 .. f[s] -> P(f)]
    BY StatusAssumption
  <2>2. \A i, j \in 1 .. f[s] : h[i] = h[j] => i = j
    OBVIOUS
  <2> HIDE DEF h, P
  <2>3. h \in Injection(1 .. f[s], P(f))
    BY <2>1, <2>2, Fun_IsInj
  <2>4. Cardinality(1 .. f[s]) <= Cardinality(P(f))
    BY <1>4, <2>3, FS_Injection
  <2>5. Cardinality(1 .. f[s]) = f[s]
    <3>1. 1 \in Int /\ f[s] \in Int /\ f[s] \in Nat
      OBVIOUS
    <3>2. Cardinality(1 .. f[s]) = IF 1 > f[s] THEN 0 ELSE f[s] - 1 + 1
      BY <3>1, FS_Interval
    <3> QED
      BY <3>1, <3>2
  <2> QED
    BY <1>5, <2>4, <2>5
<1>7. ASSUME NEW s \in Slots, f[s] < RefCountMax
      PROVE  Total([f EXCEPT ![s] = @ + 1]) = Total(f) + 1
  <2> DEFINE g == [f EXCEPT ![s] = @ + 1]
             x == <<s, f[s] + 1>>
  <2>1. P(g) = P(f) \union {x}
    <3>1. ASSUME NEW r \in Slots, NEW i \in 1 .. RefCountMax
          PROVE  i <= g[r] <=> i <= f[r] \/ (r = s /\ i = f[s] + 1)
      <4>1. f[r] \in Nat /\ f[s] \in Nat
        OBVIOUS
      <4> QED
        BY <4>1, StatusAssumption
    <3>2. x \in G
      BY <1>7, StatusAssumption
    <3> HIDE DEF g
    <3> QED
      BY <3>1, <3>2
  <2>2. x \notin P(f)
    OBVIOUS
  <2> HIDE DEF g, x, P
  <2>3. Cardinality(P(g)) = Cardinality(P(f)) + 1
    BY <1>4, <2>1, <2>2, FS_AddElement
  <2> QED
    BY <1>5, <2>3 DEF g
<1>8. ASSUME NEW s \in Slots, f[s] > 0
      PROVE  Total([f EXCEPT ![s] = @ - 1]) = Total(f) - 1
  <2> DEFINE g == [f EXCEPT ![s] = @ - 1]
             x == <<s, f[s]>>
  <2>1. P(g) = P(f) \ {x}
    <3>1. ASSUME NEW r \in Slots, NEW i \in 1 .. RefCountMax
          PROVE  i <= g[r] <=> i <= f[r] /\ ~(r = s /\ i = f[s])
      <4>1. f[r] \in Nat /\ f[s] \in Nat
        OBVIOUS
      <4> QED
        BY <1>8, <4>1, StatusAssumption
    <3> HIDE DEF g
    <3> QED
      BY <3>1
  <2>2. x \in P(f)
    BY <1>8, StatusAssumption
  <2> HIDE DEF g, x, P
  <2>3. Cardinality(P(g)) = Cardinality(P(f)) - 1
    BY <1>4, <2>1, <2>2, FS_RemoveElement
  <2> QED
    BY <1>5, <2>3 DEF g
<1>9. Cardinality({s \in Slots : f[s] > 0}) <= Total(f)
  <2> DEFINE R == {s \in Slots : f[s] > 0}
             h == [s \in R |-> <<s, 1>>]
  <2>1. h \in [R -> P(f)]
    BY StatusAssumption
  <2>2. \A r, s \in R : h[r] = h[s] => r = s
    OBVIOUS
  <2> HIDE DEF h, P, R
  <2>3. h \in Injection(R, P(f))
    BY <2>1, <2>2, Fun_IsInj
  <2>4. Cardinality(R) <= Cardinality(P(f))
    BY <1>4, <2>3, FS_Injection
  <2> QED
    BY <1>5, <2>4 DEF R
<1> QED
  BY <1>4, <1>5, <1>6, <1>7, <1>8, <1>9

(* The values a search starts from.                                        *)
LEMMA ResetTyped ==
    /\ 0 \in Slots /\ TimestampMax \in Timestamps /\ INVALID \in SlotStatus
    /\ 0 \in 0 .. MaxMultiAllocate + MaxAllocateRetries
BY CompositeAssumption, StatusAssumption, StatusConstants DEF Slots, Timestamps

(* Another try leaves the search in its type.                              *)
LEMMA NextTryTyped ==
    ASSUME TypeOK, NextTry
    PROVE  /\ ppc' \in PubStates /\ tries' \in 0 .. MaxMultiAllocate + MaxAllocateRetries /\ idx' \in Slots
           /\ cand' \in Slots \union {NoSlot} /\ oldest' \in Timestamps
           /\ oldQm' \in SlotStatus /\ oldB' \in SlotStatus
<1>1. tries' \in 0 .. MaxMultiAllocate + MaxAllocateRetries
  BY CompositeAssumption DEF TypeOK, NextTry
<1>2. /\ idx' \in Slots /\ oldest' \in Timestamps
      /\ oldQm' \in SlotStatus /\ oldB' \in SlotStatus
      /\ cand' \in Slots \union {NoSlot} /\ ppc' \in PubStates
  BY ResetTyped DEF NextTry, PubStates
<1> QED
  BY <1>1, <1>2

(* Every step keeps the type invariant.                                    *)
LEMMA TypeStep ==
    ASSUME TypeOK, SearchSound, SendingSound, Next
    PROVE  TypeOK'
<1>1. CASE Allocate
  <2>1. b' \in [Slots -> SlotStatus] /\ qm' \in [Slots -> SlotStatus]
    BY <1>1, StatusConstants, StatusArithmetic, StatusAssumption
       DEF TypeOK, Allocate, words, readVars, flags, scanVars, ownVars
  <2>2. data' \in [Slots -> Timestamps] /\ readersB' \in [Slots -> Nat] /\ readersQm' \in [Slots -> Nat]
     BY <1>1, StatusAssumption DEF TypeOK, Allocate, words, readVars, flags, scanVars,
       ownVars, Timestamps
  <2>3. {ignoreQm, qmDisconnect, qmOffered, disconnected}' \subseteq BOOLEAN
    BY <1>1 DEF TypeOK, Allocate, words, readVars, flags, scanVars, ownVars
  <2>4. /\ ppc' \in PubStates /\ tries' \in 0 .. MaxMultiAllocate + MaxAllocateRetries /\ idx' \in Slots
        /\ cand' \in Slots \union {NoSlot} /\ oldest' \in Timestamps
        /\ oldQm' \in SlotStatus /\ oldB' \in SlotStatus
     BY <1>1, ResetTyped DEF TypeOK, Allocate, words, readVars, flags, scanVars,
       ownVars, SearchSound, PubStates
  <2>5. /\ allocated' \subseteq Allocatee /\ sending' \in Allocatee \union {NoAllocatee}
        /\ currentTs' \in Timestamps \ {0} /\ restarts' \in 0 .. MaxRestarts
        /\ leaked' \subseteq Slots
    BY <1>1, StatusAssumption, CompositeAssumption
        DEF TypeOK, Allocate, words, readVars, flags, scanVars, ownVars, Allocatee,
          NoAllocatee, Timestamps
  <2> QED
    BY <2>1, <2>2, <2>3, <2>4, <2>5 DEF TypeOK
<1>2. CASE LoadQm
  <2>1. b' \in [Slots -> SlotStatus] /\ qm' \in [Slots -> SlotStatus]
    BY <1>2, StatusConstants, StatusArithmetic, StatusAssumption
       DEF TypeOK, LoadQm, words, readVars, flags, scanVars, ownVars
  <2>2. data' \in [Slots -> Timestamps] /\ readersB' \in [Slots -> Nat] /\ readersQm' \in [Slots -> Nat]
     BY <1>2, StatusAssumption DEF TypeOK, LoadQm, words, readVars, flags, scanVars,
       ownVars, Timestamps
  <2>3. {ignoreQm, qmDisconnect, qmOffered, disconnected}' \subseteq BOOLEAN
    BY <1>2 DEF TypeOK, LoadQm, words, readVars, flags, scanVars, ownVars
  <2>4. /\ ppc' \in PubStates /\ tries' \in 0 .. MaxMultiAllocate + MaxAllocateRetries /\ idx' \in Slots
        /\ cand' \in Slots \union {NoSlot} /\ oldest' \in Timestamps
        /\ oldQm' \in SlotStatus /\ oldB' \in SlotStatus
     BY <1>2, ResetTyped DEF TypeOK, LoadQm, words, readVars, flags, scanVars, ownVars,
       SearchSound, PubStates
  <2>5. /\ allocated' \subseteq Allocatee /\ sending' \in Allocatee \union {NoAllocatee}
        /\ currentTs' \in Timestamps \ {0} /\ restarts' \in 0 .. MaxRestarts
        /\ leaked' \subseteq Slots
    BY <1>2, StatusAssumption, CompositeAssumption
        DEF TypeOK, LoadQm, words, readVars, flags, scanVars, ownVars, Allocatee,
          NoAllocatee, Timestamps
  <2> QED
    BY <2>1, <2>2, <2>3, <2>4, <2>5 DEF TypeOK
<1>3. CASE LoadB
  <2>1. b' \in [Slots -> SlotStatus] /\ qm' \in [Slots -> SlotStatus]
    BY <1>3, StatusConstants, StatusArithmetic, StatusAssumption
       DEF TypeOK, LoadB, words, readVars, flags, scanVars, ownVars, NextTry
  <2>2. data' \in [Slots -> Timestamps] /\ readersB' \in [Slots -> Nat] /\ readersQm' \in [Slots -> Nat]
     BY <1>3, StatusAssumption DEF TypeOK, LoadB, words, readVars, flags, scanVars,
       ownVars, NextTry, Timestamps
  <2>3. {ignoreQm, qmDisconnect, qmOffered, disconnected}' \subseteq BOOLEAN
    BY <1>3 DEF TypeOK, LoadB, words, readVars, flags, scanVars, ownVars, NextTry
  <2>4. /\ ppc' \in PubStates /\ tries' \in 0 .. MaxMultiAllocate + MaxAllocateRetries /\ idx' \in Slots
        /\ cand' \in Slots \union {NoSlot} /\ oldest' \in Timestamps
        /\ oldQm' \in SlotStatus /\ oldB' \in SlotStatus
    <3> DEFINE better == FreeInBoth(oldQm, b[idx]) /\ b[idx].ts < oldest
               found == IF better THEN idx ELSE cand
    <3>1. CASE idx + 1 = NumSlots /\ found = NoSlot
      BY <1>3, <3>1, NextTryTyped DEF LoadB
    <3>2. CASE ~(idx + 1 = NumSlots /\ found = NoSlot)
      <4>1. /\ b[idx].ts \in Timestamps /\ found \in Slots \union {NoSlot}
            /\ (IF idx + 1 < NumSlots THEN idx + 1 ELSE 0) \in Slots
        BY CompositeAssumption DEF TypeOK, SlotStatus, Slots
      <4> QED
        BY <1>3, <3>2, <4>1, ResetTyped DEF TypeOK, LoadB, PubStates
    <3> QED
      BY <3>1, <3>2
  <2>5. /\ allocated' \subseteq Allocatee /\ sending' \in Allocatee \union {NoAllocatee}
        /\ currentTs' \in Timestamps \ {0} /\ restarts' \in 0 .. MaxRestarts
        /\ leaked' \subseteq Slots
    BY <1>3, StatusAssumption, CompositeAssumption
        DEF TypeOK, LoadB, words, readVars, flags, scanVars, ownVars, NextTry,
          Allocatee, NoAllocatee, Timestamps
  <2> QED
    BY <2>1, <2>2, <2>3, <2>4, <2>5 DEF TypeOK
<1>4. CASE LockLoadQm
  <2>1. b' \in [Slots -> SlotStatus] /\ qm' \in [Slots -> SlotStatus]
    BY <1>4, StatusConstants, StatusArithmetic, StatusAssumption
       DEF TypeOK, LockLoadQm, words, readVars, flags, scanVars, ownVars
  <2>2. data' \in [Slots -> Timestamps] /\ readersB' \in [Slots -> Nat] /\ readersQm' \in [Slots -> Nat]
     BY <1>4, StatusAssumption DEF TypeOK, LockLoadQm, words, readVars, flags, scanVars,
       ownVars, Timestamps
  <2>3. {ignoreQm, qmDisconnect, qmOffered, disconnected}' \subseteq BOOLEAN
    BY <1>4 DEF TypeOK, LockLoadQm, words, readVars, flags, scanVars, ownVars
  <2>4. /\ ppc' \in PubStates /\ tries' \in 0 .. MaxMultiAllocate + MaxAllocateRetries /\ idx' \in Slots
        /\ cand' \in Slots \union {NoSlot} /\ oldest' \in Timestamps
        /\ oldQm' \in SlotStatus /\ oldB' \in SlotStatus
     BY <1>4, ResetTyped DEF TypeOK, LockLoadQm, words, readVars, flags, scanVars,
       ownVars, SearchSound, PubStates
  <2>5. /\ allocated' \subseteq Allocatee /\ sending' \in Allocatee \union {NoAllocatee}
        /\ currentTs' \in Timestamps \ {0} /\ restarts' \in 0 .. MaxRestarts
        /\ leaked' \subseteq Slots
    BY <1>4, StatusAssumption, CompositeAssumption
        DEF TypeOK, LockLoadQm, words, readVars, flags, scanVars, ownVars, Allocatee,
          NoAllocatee, Timestamps
  <2> QED
    BY <2>1, <2>2, <2>3, <2>4, <2>5 DEF TypeOK
<1>5. CASE LockLoadB
  <2>1. b' \in [Slots -> SlotStatus] /\ qm' \in [Slots -> SlotStatus]
    BY <1>5, StatusConstants, StatusArithmetic, StatusAssumption
       DEF TypeOK, LockLoadB, words, readVars, flags, scanVars, ownVars, NextTry
  <2>2. data' \in [Slots -> Timestamps] /\ readersB' \in [Slots -> Nat] /\ readersQm' \in [Slots -> Nat]
     BY <1>5, StatusAssumption DEF TypeOK, LockLoadB, words, readVars, flags, scanVars,
       ownVars, NextTry, Timestamps
  <2>3. {ignoreQm, qmDisconnect, qmOffered, disconnected}' \subseteq BOOLEAN
    BY <1>5 DEF TypeOK, LockLoadB, words, readVars, flags, scanVars, ownVars, NextTry
  <2>4. /\ ppc' \in PubStates /\ tries' \in 0 .. MaxMultiAllocate + MaxAllocateRetries /\ idx' \in Slots
        /\ cand' \in Slots \union {NoSlot} /\ oldest' \in Timestamps
        /\ oldQm' \in SlotStatus /\ oldB' \in SlotStatus
     BY <1>5, ResetTyped, NextTryTyped DEF TypeOK, LockLoadB, words, readVars, flags,
       scanVars, ownVars, SearchSound, PubStates
  <2>5. /\ allocated' \subseteq Allocatee /\ sending' \in Allocatee \union {NoAllocatee}
        /\ currentTs' \in Timestamps \ {0} /\ restarts' \in 0 .. MaxRestarts
        /\ leaked' \subseteq Slots
    BY <1>5, StatusAssumption, CompositeAssumption
        DEF TypeOK, LockLoadB, words, readVars, flags, scanVars, ownVars, NextTry,
          Allocatee, NoAllocatee, Timestamps
  <2> QED
    BY <2>1, <2>2, <2>3, <2>4, <2>5 DEF TypeOK
<1>6. CASE CasQm
  <2>1. b' \in [Slots -> SlotStatus] /\ qm' \in [Slots -> SlotStatus]
    BY <1>6, StatusConstants, StatusArithmetic, StatusAssumption
       DEF TypeOK, CasQm, words, readVars, flags, scanVars, ownVars, NextTry
  <2>2. data' \in [Slots -> Timestamps] /\ readersB' \in [Slots -> Nat] /\ readersQm' \in [Slots -> Nat]
     BY <1>6, StatusAssumption DEF TypeOK, CasQm, words, readVars, flags, scanVars,
       ownVars, NextTry, Timestamps
  <2>3. {ignoreQm, qmDisconnect, qmOffered, disconnected}' \subseteq BOOLEAN
    BY <1>6 DEF TypeOK, CasQm, words, readVars, flags, scanVars, ownVars, NextTry
  <2>4. /\ ppc' \in PubStates /\ tries' \in 0 .. MaxMultiAllocate + MaxAllocateRetries /\ idx' \in Slots
        /\ cand' \in Slots \union {NoSlot} /\ oldest' \in Timestamps
        /\ oldQm' \in SlotStatus /\ oldB' \in SlotStatus
     BY <1>6, ResetTyped, NextTryTyped DEF TypeOK, CasQm, words, readVars, flags,
       scanVars, ownVars, SearchSound, PubStates
  <2>5. /\ allocated' \subseteq Allocatee /\ sending' \in Allocatee \union {NoAllocatee}
        /\ currentTs' \in Timestamps \ {0} /\ restarts' \in 0 .. MaxRestarts
        /\ leaked' \subseteq Slots
    BY <1>6, StatusAssumption, CompositeAssumption
        DEF TypeOK, CasQm, words, readVars, flags, scanVars, ownVars, NextTry,
          Allocatee, NoAllocatee, Timestamps
  <2> QED
    BY <2>1, <2>2, <2>3, <2>4, <2>5 DEF TypeOK
<1>7. CASE CasB
  <2>1. b' \in [Slots -> SlotStatus] /\ qm' \in [Slots -> SlotStatus]
    BY <1>7, StatusConstants, StatusArithmetic, StatusAssumption
       DEF TypeOK, CasB, words, readVars, flags, scanVars, ownVars, NoScan
  <2>2. data' \in [Slots -> Timestamps] /\ readersB' \in [Slots -> Nat] /\ readersQm' \in [Slots -> Nat]
     BY <1>7, StatusAssumption DEF TypeOK, CasB, words, readVars, flags, scanVars,
       ownVars, NoScan, Timestamps
  <2>3. {ignoreQm, qmDisconnect, qmOffered, disconnected}' \subseteq BOOLEAN
    BY <1>7 DEF TypeOK, CasB, words, readVars, flags, scanVars, ownVars, NoScan
  <2>4. /\ ppc' \in PubStates /\ tries' \in 0 .. MaxMultiAllocate + MaxAllocateRetries /\ idx' \in Slots
        /\ cand' \in Slots \union {NoSlot} /\ oldest' \in Timestamps
        /\ oldQm' \in SlotStatus /\ oldB' \in SlotStatus
     BY <1>7, ResetTyped DEF TypeOK, CasB, words, readVars, flags, scanVars, ownVars,
       NoScan, SearchSound, PubStates
  <2>5. /\ allocated' \subseteq Allocatee /\ sending' \in Allocatee \union {NoAllocatee}
        /\ currentTs' \in Timestamps \ {0} /\ restarts' \in 0 .. MaxRestarts
        /\ leaked' \subseteq Slots
    BY <1>7, StatusAssumption, CompositeAssumption
        DEF TypeOK, CasB, words, readVars, flags, scanVars, ownVars, NoScan, Allocatee,
          NoAllocatee, Timestamps, SearchSound, Allocating
  <2> QED
    BY <2>1, <2>2, <2>3, <2>4, <2>5 DEF TypeOK
<1>8. CASE RestoreQm
  <2>1. b' \in [Slots -> SlotStatus] /\ qm' \in [Slots -> SlotStatus]
    BY <1>8, StatusConstants, StatusArithmetic, StatusAssumption
        DEF TypeOK, RestoreQm, words, readVars, flags, scanVars, ownVars, NextTry,
          SearchSound
  <2>2. data' \in [Slots -> Timestamps] /\ readersB' \in [Slots -> Nat] /\ readersQm' \in [Slots -> Nat]
     BY <1>8, StatusAssumption DEF TypeOK, RestoreQm, words, readVars, flags, scanVars,
       ownVars, NextTry, Timestamps
  <2>3. {ignoreQm, qmDisconnect, qmOffered, disconnected}' \subseteq BOOLEAN
    BY <1>8 DEF TypeOK, RestoreQm, words, readVars, flags, scanVars, ownVars, NextTry
  <2>4. /\ ppc' \in PubStates /\ tries' \in 0 .. MaxMultiAllocate + MaxAllocateRetries /\ idx' \in Slots
        /\ cand' \in Slots \union {NoSlot} /\ oldest' \in Timestamps
        /\ oldQm' \in SlotStatus /\ oldB' \in SlotStatus
     BY <1>8, ResetTyped, NextTryTyped DEF TypeOK, RestoreQm, words, readVars, flags,
       scanVars, ownVars, SearchSound, PubStates
  <2>5. /\ allocated' \subseteq Allocatee /\ sending' \in Allocatee \union {NoAllocatee}
        /\ currentTs' \in Timestamps \ {0} /\ restarts' \in 0 .. MaxRestarts
        /\ leaked' \subseteq Slots
    BY <1>8, StatusAssumption, CompositeAssumption
        DEF TypeOK, RestoreQm, words, readVars, flags, scanVars, ownVars, NextTry,
          Allocatee, NoAllocatee, Timestamps
  <2> QED
    BY <2>1, <2>2, <2>3, <2>4, <2>5 DEF TypeOK
<1>9. CASE FindOldestUnusedSlot \/ LockAlone \/ RetryAlone
  <2> USE DEF FindOldestUnusedSlot, LockAlone, RetryAlone, words, readVars, flags, scanVars,
              ownVars
  <2>1. b' \in [Slots -> SlotStatus] /\ qm' \in [Slots -> SlotStatus]
    BY <1>9, StatusConstants DEF TypeOK
  <2>2. data' \in [Slots -> Timestamps] /\ readersB' \in [Slots -> Nat] /\ readersQm' \in [Slots -> Nat]
    BY <1>9, StatusAssumption DEF TypeOK, Timestamps
  <2>3. {ignoreQm, qmDisconnect, qmOffered, disconnected}' \subseteq BOOLEAN
    BY <1>9 DEF TypeOK, DisconnectQmConsumers
  <2>4. /\ ppc' \in PubStates /\ tries' \in 0 .. MaxMultiAllocate + MaxAllocateRetries /\ idx' \in Slots
        /\ cand' \in Slots \union {NoSlot} /\ oldest' \in Timestamps
        /\ oldQm' \in SlotStatus /\ oldB' \in SlotStatus
    <3>1. CASE FindOldestUnusedSlot
      <4>1. idx + 1 # NumSlots => idx + 1 \in Slots
        BY CompositeAssumption DEF TypeOK, Slots
      <4>2. b[idx].ts \in Timestamps
        BY DEF TypeOK, SlotStatus
      <4> QED
        BY <3>1, <4>1, <4>2, ResetTyped DEF TypeOK, PubStates
    <3>2. CASE LockAlone
      BY <3>2, ResetTyped DEF TypeOK, PubStates, NoScan
    <3>3. CASE RetryAlone
      <4>1. tries' \in 0 .. MaxMultiAllocate + MaxAllocateRetries
        BY <3>3, CompositeAssumption DEF TypeOK
      <4> QED
        BY <3>3, <4>1, ResetTyped DEF TypeOK, PubStates
    <3> QED
      BY <1>9, <3>1, <3>2, <3>3
  <2>5. /\ allocated' \subseteq Allocatee /\ sending' \in Allocatee \union {NoAllocatee}
        /\ currentTs' \in Timestamps \ {0} /\ restarts' \in 0 .. MaxRestarts
        /\ leaked' \subseteq Slots
    <3>1. cand \in Slots => [slot |-> cand, ignoreQm |-> TRUE] \in Allocatee
      BY DEF Allocatee
    <3> QED
      BY <1>9, <3>1 DEF TypeOK
  <2> QED
    BY <2>1, <2>2, <2>3, <2>4, <2>5 DEF TypeOK
<1>10. CASE SendQm
  <2>1. b' \in [Slots -> SlotStatus] /\ qm' \in [Slots -> SlotStatus]
    BY <1>10, StatusConstants, StatusArithmetic, StatusAssumption
        DEF TypeOK, SendQm, words, readVars, flags, scanVars, ownVars, SlotStatus,
          Timestamps, RefCounts
  <2>2. data' \in [Slots -> Timestamps] /\ readersB' \in [Slots -> Nat] /\ readersQm' \in [Slots -> Nat]
     BY <1>10, StatusAssumption DEF TypeOK, SendQm, words, readVars, flags, scanVars,
       ownVars, Timestamps
  <2>3. {ignoreQm, qmDisconnect, qmOffered, disconnected}' \subseteq BOOLEAN
    BY <1>10 DEF TypeOK, SendQm, words, readVars, flags, scanVars, ownVars
  <2>4. /\ ppc' \in PubStates /\ tries' \in 0 .. MaxMultiAllocate + MaxAllocateRetries /\ idx' \in Slots
        /\ cand' \in Slots \union {NoSlot} /\ oldest' \in Timestamps
        /\ oldQm' \in SlotStatus /\ oldB' \in SlotStatus
     BY <1>10, ResetTyped DEF TypeOK, SendQm, words, readVars, flags, scanVars, ownVars,
       SearchSound, PubStates
  <2>5. /\ allocated' \subseteq Allocatee /\ sending' \in Allocatee \union {NoAllocatee}
        /\ currentTs' \in Timestamps \ {0} /\ restarts' \in 0 .. MaxRestarts
        /\ leaked' \subseteq Slots
    BY <1>10, StatusAssumption, CompositeAssumption
        DEF TypeOK, SendQm, words, readVars, flags, scanVars, ownVars, Allocatee,
          NoAllocatee, Timestamps
  <2> QED
    BY <2>1, <2>2, <2>3, <2>4, <2>5 DEF TypeOK
<1>11. CASE DiscardB
  <2>1. b' \in [Slots -> SlotStatus] /\ qm' \in [Slots -> SlotStatus]
    BY <1>11, StatusConstants, StatusArithmetic, StatusAssumption
       DEF TypeOK, DiscardB, words, readVars, flags, scanVars, ownVars
  <2>2. data' \in [Slots -> Timestamps] /\ readersB' \in [Slots -> Nat] /\ readersQm' \in [Slots -> Nat]
     BY <1>11, StatusAssumption DEF TypeOK, DiscardB, words, readVars, flags, scanVars,
       ownVars, Timestamps
  <2>3. {ignoreQm, qmDisconnect, qmOffered, disconnected}' \subseteq BOOLEAN
    BY <1>11 DEF TypeOK, DiscardB, words, readVars, flags, scanVars, ownVars
  <2>4. /\ ppc' \in PubStates /\ tries' \in 0 .. MaxMultiAllocate + MaxAllocateRetries /\ idx' \in Slots
        /\ cand' \in Slots \union {NoSlot} /\ oldest' \in Timestamps
        /\ oldQm' \in SlotStatus /\ oldB' \in SlotStatus
     BY <1>11, ResetTyped DEF TypeOK, DiscardB, words, readVars, flags, scanVars,
       ownVars, SearchSound, PubStates
  <2>5. /\ allocated' \subseteq Allocatee /\ sending' \in Allocatee \union {NoAllocatee}
        /\ currentTs' \in Timestamps \ {0} /\ restarts' \in 0 .. MaxRestarts
        /\ leaked' \subseteq Slots
    BY <1>11, StatusAssumption, CompositeAssumption
        DEF TypeOK, DiscardB, words, readVars, flags, scanVars, ownVars, Allocatee,
          NoAllocatee, Timestamps
  <2> QED
    BY <2>1, <2>2, <2>3, <2>4, <2>5 DEF TypeOK
<1>12. CASE DiscardQm
  <2>1. b' \in [Slots -> SlotStatus] /\ qm' \in [Slots -> SlotStatus]
    BY <1>12, StatusConstants, StatusArithmetic, StatusAssumption
       DEF TypeOK, DiscardQm, words, readVars, flags, scanVars, ownVars
  <2>2. data' \in [Slots -> Timestamps] /\ readersB' \in [Slots -> Nat] /\ readersQm' \in [Slots -> Nat]
     BY <1>12, StatusAssumption DEF TypeOK, DiscardQm, words, readVars, flags, scanVars,
       ownVars, Timestamps
  <2>3. {ignoreQm, qmDisconnect, qmOffered, disconnected}' \subseteq BOOLEAN
    BY <1>12 DEF TypeOK, DiscardQm, words, readVars, flags, scanVars, ownVars
  <2>4. /\ ppc' \in PubStates /\ tries' \in 0 .. MaxMultiAllocate + MaxAllocateRetries /\ idx' \in Slots
        /\ cand' \in Slots \union {NoSlot} /\ oldest' \in Timestamps
        /\ oldQm' \in SlotStatus /\ oldB' \in SlotStatus
     BY <1>12, ResetTyped DEF TypeOK, DiscardQm, words, readVars, flags, scanVars,
       ownVars, SearchSound, PubStates
  <2>5. /\ allocated' \subseteq Allocatee /\ sending' \in Allocatee \union {NoAllocatee}
        /\ currentTs' \in Timestamps \ {0} /\ restarts' \in 0 .. MaxRestarts
        /\ leaked' \subseteq Slots
    BY <1>12, StatusAssumption, CompositeAssumption
        DEF TypeOK, DiscardQm, words, readVars, flags, scanVars, ownVars, Allocatee,
          NoAllocatee, Timestamps
  <2> QED
    BY <2>1, <2>2, <2>3, <2>4, <2>5 DEF TypeOK
<1>13. ASSUME NEW p \in allocated, Send(p) PROVE TypeOK'
  <2>0. currentTs + 1 \in Timestamps \ {0} /\ p.slot \in Slots
    BY <1>13, StatusAssumption DEF TypeOK, Send, Timestamps, Allocatee
  <2>1. b' \in [Slots -> SlotStatus] /\ qm' \in [Slots -> SlotStatus]
    BY <1>13, <2>0, StatusConstants, StatusArithmetic, StatusAssumption
       DEF TypeOK, Send, words, readVars, flags, scanVars, ownVars, SlotStatus, RefCounts
  <2>2. data' \in [Slots -> Timestamps] /\ readersB' \in [Slots -> Nat] /\ readersQm' \in [Slots -> Nat]
     BY <1>13, <2>0, StatusAssumption DEF TypeOK, Send, words, readVars, flags,
       scanVars, ownVars
  <2>3. {ignoreQm, qmDisconnect, qmOffered, disconnected}' \subseteq BOOLEAN
    BY <1>13 DEF TypeOK, Send, words, readVars, flags, scanVars, ownVars
  <2>4. /\ ppc' \in PubStates /\ tries' \in 0 .. MaxMultiAllocate + MaxAllocateRetries /\ idx' \in Slots
        /\ cand' \in Slots \union {NoSlot} /\ oldest' \in Timestamps
        /\ oldQm' \in SlotStatus /\ oldB' \in SlotStatus
     BY <1>13, ResetTyped DEF TypeOK, Send, words, readVars, flags, scanVars, ownVars,
       SearchSound, PubStates
  <2>5. /\ allocated' \subseteq Allocatee /\ sending' \in Allocatee \union {NoAllocatee}
        /\ currentTs' \in Timestamps \ {0} /\ restarts' \in 0 .. MaxRestarts
        /\ leaked' \subseteq Slots
    BY <1>13, <2>0, StatusAssumption, CompositeAssumption
        DEF TypeOK, Send, words, readVars, flags, scanVars, ownVars, Allocatee,
          NoAllocatee, Timestamps
  <2> QED
    BY <2>1, <2>2, <2>3, <2>4, <2>5 DEF TypeOK
<1>14. ASSUME NEW p \in allocated, Drop(p) PROVE TypeOK'
  <2>1. b' \in [Slots -> SlotStatus] /\ qm' \in [Slots -> SlotStatus]
    BY <1>14, StatusConstants, StatusArithmetic, StatusAssumption
       DEF TypeOK, Drop, words, readVars, flags, scanVars, ownVars
  <2>2. data' \in [Slots -> Timestamps] /\ readersB' \in [Slots -> Nat] /\ readersQm' \in [Slots -> Nat]
     BY <1>14, StatusAssumption DEF TypeOK, Drop, words, readVars, flags, scanVars,
       ownVars, Timestamps
  <2>3. {ignoreQm, qmDisconnect, qmOffered, disconnected}' \subseteq BOOLEAN
    BY <1>14 DEF TypeOK, Drop, words, readVars, flags, scanVars, ownVars
  <2>4. /\ ppc' \in PubStates /\ tries' \in 0 .. MaxMultiAllocate + MaxAllocateRetries /\ idx' \in Slots
        /\ cand' \in Slots \union {NoSlot} /\ oldest' \in Timestamps
        /\ oldQm' \in SlotStatus /\ oldB' \in SlotStatus
     BY <1>14, ResetTyped DEF TypeOK, Drop, words, readVars, flags, scanVars, ownVars,
       SearchSound, PubStates
  <2>5. /\ allocated' \subseteq Allocatee /\ sending' \in Allocatee \union {NoAllocatee}
        /\ currentTs' \in Timestamps \ {0} /\ restarts' \in 0 .. MaxRestarts
        /\ leaked' \subseteq Slots
    BY <1>14, StatusAssumption, CompositeAssumption
        DEF TypeOK, Drop, words, readVars, flags, scanVars, ownVars, Allocatee,
          NoAllocatee, Timestamps
  <2> QED
    BY <2>1, <2>2, <2>3, <2>4, <2>5 DEF TypeOK
<1>15. CASE Crash
  <2>1. b' \in [Slots -> SlotStatus] /\ qm' \in [Slots -> SlotStatus]
    BY <1>15, StatusConstants, StatusArithmetic, StatusAssumption
       DEF TypeOK, Crash, words, readVars, flags, scanVars, ownVars, NoScan
  <2>2. data' \in [Slots -> Timestamps] /\ readersB' \in [Slots -> Nat] /\ readersQm' \in [Slots -> Nat]
     BY <1>15, StatusAssumption DEF TypeOK, Crash, words, readVars, flags, scanVars,
       ownVars, NoScan, Timestamps
  <2>3. {ignoreQm, qmDisconnect, qmOffered, disconnected}' \subseteq BOOLEAN
    BY <1>15 DEF TypeOK, Crash, words, readVars, flags, scanVars, ownVars, NoScan
  <2>4. /\ ppc' \in PubStates /\ tries' \in 0 .. MaxMultiAllocate + MaxAllocateRetries /\ idx' \in Slots
        /\ cand' \in Slots \union {NoSlot} /\ oldest' \in Timestamps
        /\ oldQm' \in SlotStatus /\ oldB' \in SlotStatus
     BY <1>15, ResetTyped DEF TypeOK, Crash, words, readVars, flags, scanVars, ownVars,
       NoScan, SearchSound, PubStates
  <2>5. /\ allocated' \subseteq Allocatee /\ sending' \in Allocatee \union {NoAllocatee}
        /\ currentTs' \in Timestamps \ {0} /\ restarts' \in 0 .. MaxRestarts
        /\ leaked' \subseteq Slots
    BY <1>15, StatusAssumption, CompositeAssumption
        DEF TypeOK, Crash, words, readVars, flags, scanVars, ownVars, NoScan, Allocatee,
          NoAllocatee, Timestamps
  <2> QED
    BY <2>1, <2>2, <2>3, <2>4, <2>5 DEF TypeOK
<1>16. CASE Restart
  <2>1. b' \in [Slots -> SlotStatus] /\ qm' \in [Slots -> SlotStatus]
    BY <1>16, StatusConstants, StatusArithmetic, StatusAssumption
        DEF TypeOK, Restart, words, readVars, flags, scanVars, ownVars, OpenExisting,
          RemoveAllocationsForWriting
  <2>2. data' \in [Slots -> Timestamps] /\ readersB' \in [Slots -> Nat] /\ readersQm' \in [Slots -> Nat]
     BY <1>16, StatusAssumption DEF TypeOK, Restart, words, readVars, flags, scanVars,
       ownVars, OpenExisting, RemoveAllocationsForWriting, Timestamps
  <2>3. {ignoreQm, qmDisconnect, qmOffered, disconnected}' \subseteq BOOLEAN
     BY <1>16 DEF TypeOK, Restart, words, readVars, flags, scanVars, ownVars,
       OpenExisting, RemoveAllocationsForWriting
  <2>4. /\ ppc' \in PubStates /\ tries' \in 0 .. MaxMultiAllocate + MaxAllocateRetries /\ idx' \in Slots
        /\ cand' \in Slots \union {NoSlot} /\ oldest' \in Timestamps
        /\ oldQm' \in SlotStatus /\ oldB' \in SlotStatus
     BY <1>16, ResetTyped DEF TypeOK, Restart, words, readVars, flags, scanVars,
       ownVars, OpenExisting, RemoveAllocationsForWriting, SearchSound, PubStates
  <2>5. /\ allocated' \subseteq Allocatee /\ sending' \in Allocatee \union {NoAllocatee}
        /\ currentTs' \in Timestamps \ {0} /\ restarts' \in 0 .. MaxRestarts
        /\ leaked' \subseteq Slots
    BY <1>16, StatusAssumption, CompositeAssumption, <2>1, LatestTimestamp
        DEF TypeOK, Restart, words, readVars, flags, scanVars, ownVars, OpenExisting,
          RemoveAllocationsForWriting, Allocatee, NoAllocatee, Timestamps
  <2> QED
    BY <2>1, <2>2, <2>3, <2>4, <2>5 DEF TypeOK
<1>17. CASE Reoffer
  <2>1. b' \in [Slots -> SlotStatus] /\ qm' \in [Slots -> SlotStatus]
    BY <1>17, StatusConstants, StatusArithmetic, StatusAssumption
        DEF TypeOK, Reoffer, words, readVars, flags, scanVars, ownVars, OpenExisting,
          RemoveAllocationsForWriting
  <2>2. data' \in [Slots -> Timestamps] /\ readersB' \in [Slots -> Nat] /\ readersQm' \in [Slots -> Nat]
     BY <1>17, StatusAssumption DEF TypeOK, Reoffer, words, readVars, flags, scanVars,
       ownVars, OpenExisting, RemoveAllocationsForWriting, Timestamps
  <2>3. {ignoreQm, qmDisconnect, qmOffered, disconnected}' \subseteq BOOLEAN
     BY <1>17 DEF TypeOK, Reoffer, words, readVars, flags, scanVars, ownVars,
       OpenExisting, RemoveAllocationsForWriting
  <2>4. /\ ppc' \in PubStates /\ tries' \in 0 .. MaxMultiAllocate + MaxAllocateRetries /\ idx' \in Slots
        /\ cand' \in Slots \union {NoSlot} /\ oldest' \in Timestamps
        /\ oldQm' \in SlotStatus /\ oldB' \in SlotStatus
     BY <1>17, ResetTyped DEF TypeOK, Reoffer, words, readVars, flags, scanVars,
       ownVars, OpenExisting, RemoveAllocationsForWriting, SearchSound, PubStates
  <2>5. /\ allocated' \subseteq Allocatee /\ sending' \in Allocatee \union {NoAllocatee}
        /\ currentTs' \in Timestamps \ {0} /\ restarts' \in 0 .. MaxRestarts
        /\ leaked' \subseteq Slots
    BY <1>17, StatusAssumption, CompositeAssumption, <2>1, LatestTimestamp
        DEF TypeOK, Reoffer, words, readVars, flags, scanVars, ownVars, OpenExisting,
          RemoveAllocationsForWriting, Allocatee, NoAllocatee, Timestamps
  <2> QED
    BY <2>1, <2>2, <2>3, <2>4, <2>5 DEF TypeOK
<1>18. ASSUME NEW s \in Slots, AcquireB(s) PROVE TypeOK'
  <2>1. b' \in [Slots -> SlotStatus] /\ qm' \in [Slots -> SlotStatus]
    BY <1>18, StatusConstants, StatusArithmetic, StatusAssumption
       DEF TypeOK, AcquireB, words, readVars, flags, scanVars, ownVars
  <2>2. data' \in [Slots -> Timestamps] /\ readersB' \in [Slots -> Nat] /\ readersQm' \in [Slots -> Nat]
     BY <1>18, StatusAssumption DEF TypeOK, AcquireB, words, readVars, flags, scanVars,
       ownVars, Timestamps
  <2>3. {ignoreQm, qmDisconnect, qmOffered, disconnected}' \subseteq BOOLEAN
    BY <1>18 DEF TypeOK, AcquireB, words, readVars, flags, scanVars, ownVars
  <2>4. /\ ppc' \in PubStates /\ tries' \in 0 .. MaxMultiAllocate + MaxAllocateRetries /\ idx' \in Slots
        /\ cand' \in Slots \union {NoSlot} /\ oldest' \in Timestamps
        /\ oldQm' \in SlotStatus /\ oldB' \in SlotStatus
     BY <1>18, ResetTyped DEF TypeOK, AcquireB, words, readVars, flags, scanVars,
       ownVars, SearchSound, PubStates
  <2>5. /\ allocated' \subseteq Allocatee /\ sending' \in Allocatee \union {NoAllocatee}
        /\ currentTs' \in Timestamps \ {0} /\ restarts' \in 0 .. MaxRestarts
        /\ leaked' \subseteq Slots
    BY <1>18, StatusAssumption, CompositeAssumption
        DEF TypeOK, AcquireB, words, readVars, flags, scanVars, ownVars, Allocatee,
          NoAllocatee, Timestamps
  <2> QED
    BY <2>1, <2>2, <2>3, <2>4, <2>5 DEF TypeOK
<1>19. ASSUME NEW s \in Slots, ReleaseB(s) PROVE TypeOK'
  <2>1. b' \in [Slots -> SlotStatus] /\ qm' \in [Slots -> SlotStatus]
    BY <1>19, StatusConstants, StatusArithmetic, StatusAssumption
       DEF TypeOK, ReleaseB, words, readVars, flags, scanVars, ownVars
  <2>2. data' \in [Slots -> Timestamps] /\ readersB' \in [Slots -> Nat] /\ readersQm' \in [Slots -> Nat]
     BY <1>19, StatusAssumption DEF TypeOK, ReleaseB, words, readVars, flags, scanVars,
       ownVars, Timestamps
  <2>3. {ignoreQm, qmDisconnect, qmOffered, disconnected}' \subseteq BOOLEAN
    BY <1>19 DEF TypeOK, ReleaseB, words, readVars, flags, scanVars, ownVars
  <2>4. /\ ppc' \in PubStates /\ tries' \in 0 .. MaxMultiAllocate + MaxAllocateRetries /\ idx' \in Slots
        /\ cand' \in Slots \union {NoSlot} /\ oldest' \in Timestamps
        /\ oldQm' \in SlotStatus /\ oldB' \in SlotStatus
     BY <1>19, ResetTyped DEF TypeOK, ReleaseB, words, readVars, flags, scanVars,
       ownVars, SearchSound, PubStates
  <2>5. /\ allocated' \subseteq Allocatee /\ sending' \in Allocatee \union {NoAllocatee}
        /\ currentTs' \in Timestamps \ {0} /\ restarts' \in 0 .. MaxRestarts
        /\ leaked' \subseteq Slots
    BY <1>19, StatusAssumption, CompositeAssumption
        DEF TypeOK, ReleaseB, words, readVars, flags, scanVars, ownVars, Allocatee,
          NoAllocatee, Timestamps
  <2> QED
    BY <2>1, <2>2, <2>3, <2>4, <2>5 DEF TypeOK
<1>20. ASSUME NEW s \in Slots, AcquireQm(s) PROVE TypeOK'
  <2>1. b' \in [Slots -> SlotStatus] /\ qm' \in [Slots -> SlotStatus]
    BY <1>20, StatusConstants, StatusArithmetic, StatusAssumption
       DEF TypeOK, AcquireQm, words, readVars, flags, scanVars, ownVars
  <2>2. data' \in [Slots -> Timestamps] /\ readersB' \in [Slots -> Nat] /\ readersQm' \in [Slots -> Nat]
     BY <1>20, StatusAssumption DEF TypeOK, AcquireQm, words, readVars, flags, scanVars,
       ownVars, Timestamps
  <2>3. {ignoreQm, qmDisconnect, qmOffered, disconnected}' \subseteq BOOLEAN
    BY <1>20 DEF TypeOK, AcquireQm, words, readVars, flags, scanVars, ownVars
  <2>4. /\ ppc' \in PubStates /\ tries' \in 0 .. MaxMultiAllocate + MaxAllocateRetries /\ idx' \in Slots
        /\ cand' \in Slots \union {NoSlot} /\ oldest' \in Timestamps
        /\ oldQm' \in SlotStatus /\ oldB' \in SlotStatus
     BY <1>20, ResetTyped DEF TypeOK, AcquireQm, words, readVars, flags, scanVars,
       ownVars, SearchSound, PubStates
  <2>5. /\ allocated' \subseteq Allocatee /\ sending' \in Allocatee \union {NoAllocatee}
        /\ currentTs' \in Timestamps \ {0} /\ restarts' \in 0 .. MaxRestarts
        /\ leaked' \subseteq Slots
    BY <1>20, StatusAssumption, CompositeAssumption
        DEF TypeOK, AcquireQm, words, readVars, flags, scanVars, ownVars, Allocatee,
          NoAllocatee, Timestamps
  <2> QED
    BY <2>1, <2>2, <2>3, <2>4, <2>5 DEF TypeOK
<1>21. ASSUME NEW s \in Slots, ReleaseQm(s) PROVE TypeOK'
  <2>1. b' \in [Slots -> SlotStatus] /\ qm' \in [Slots -> SlotStatus]
    BY <1>21, StatusConstants, StatusArithmetic, StatusAssumption
       DEF TypeOK, ReleaseQm, words, readVars, flags, scanVars, ownVars
  <2>2. data' \in [Slots -> Timestamps] /\ readersB' \in [Slots -> Nat] /\ readersQm' \in [Slots -> Nat]
     BY <1>21, StatusAssumption DEF TypeOK, ReleaseQm, words, readVars, flags, scanVars,
       ownVars, Timestamps
  <2>3. {ignoreQm, qmDisconnect, qmOffered, disconnected}' \subseteq BOOLEAN
    BY <1>21 DEF TypeOK, ReleaseQm, words, readVars, flags, scanVars, ownVars
  <2>4. /\ ppc' \in PubStates /\ tries' \in 0 .. MaxMultiAllocate + MaxAllocateRetries /\ idx' \in Slots
        /\ cand' \in Slots \union {NoSlot} /\ oldest' \in Timestamps
        /\ oldQm' \in SlotStatus /\ oldB' \in SlotStatus
     BY <1>21, ResetTyped DEF TypeOK, ReleaseQm, words, readVars, flags, scanVars,
       ownVars, SearchSound, PubStates
  <2>5. /\ allocated' \subseteq Allocatee /\ sending' \in Allocatee \union {NoAllocatee}
        /\ currentTs' \in Timestamps \ {0} /\ restarts' \in 0 .. MaxRestarts
        /\ leaked' \subseteq Slots
    BY <1>21, StatusAssumption, CompositeAssumption
        DEF TypeOK, ReleaseQm, words, readVars, flags, scanVars, ownVars, Allocatee,
          NoAllocatee, Timestamps
  <2> QED
    BY <2>1, <2>2, <2>3, <2>4, <2>5 DEF TypeOK
<1> QED
   BY <1>1, <1>2, <1>3, <1>4, <1>5, <1>6, <1>7, <1>8, <1>9, <1>10, <1>11, <1>12, <1>13,
     <1>14, <1>15, <1>16, <1>17, <1>18, <1>19, <1>20, <1>21 DEF Next, PublisherStep

-----------------------------------------------------------------------------
(* The inductive invariant, action by action.                              *)

(* A step of the search that touches no word: what it knows of the slot it *)
(* is after is all that is left to show.                                   *)
LEMMA SearchMoves ==
    ASSUME TypeOK, CompositeInvariant,
           UNCHANGED <<words, data, readVars, qmDisconnect, qmOffered, ownVars, leaked>>,
           ppc \in {"idle", "findQm", "findB", "lockQm", "lockB", "casQm", "fallback", "lockAlone"},
           ppc' \in {"findQm", "findB", "lockQm", "lockB", "casQm", "fallback", "lockAlone"},
           \/ UNCHANGED <<ignoreQm, disconnected>>
           \/ ignoreQm' = TRUE /\ disconnected' = TRUE,
           SearchSound'
    PROVE  CompositeInvariant'
<1> USE DEF CompositeInvariant, SamplesIntact, words, readVars, ownVars
<1>1. ReferencesCounted' /\ ReadArePublished' /\ AsilBSamplesIntact'
  BY DEF ReferencesCounted, ReadArePublished, AsilBSamplesIntact
<1>2. LockedUntilDone'
  BY DEF LockedUntilDone
<1>3. QmSamplesIntact'
  BY DEF QmSamplesIntact
<1>4. SendingSound'
  BY DEF SendingSound
<1>5. LocksOwned'
  BY DEF LocksOwned
<1>6. DisconnectKnown' /\ LeakedStayLocked'
  BY DEF DisconnectKnown, LeakedStayLocked
<1> QED
  BY <1>1, <1>2, <1>3, <1>4, <1>5, <1>6

(* The search for a slot and the checks before it is locked.               *)
LEMMA SearchStep ==
    ASSUME TypeOK, CompositeInvariant,
           Allocate \/ LoadQm \/ LoadB \/ LockLoadQm \/ LockLoadB
    PROVE  CompositeInvariant'
<1> USE DEF CompositeInvariant, flags, scanVars
<1>1. CASE Allocate \/ LoadQm \/ LockLoadQm
  <2>1. SearchSound'
    BY <1>1 DEF Allocate, LoadQm, LockLoadQm, SearchSound, Allocating
  <2> QED
    BY <1>1, <2>1, SearchMoves DEF Allocate, LoadQm, LockLoadQm
<1>2. CASE LoadB
  <2> DEFINE better == FreeInBoth(oldQm, b[idx]) /\ b[idx].ts < oldest
             found == IF better THEN idx ELSE cand
  <2>1. CASE idx + 1 = NumSlots /\ found = NoSlot
    <3>1. SearchSound'
      BY <1>2, <2>1 DEF LoadB, NextTry, SearchSound, Allocating
    <3> QED
      BY <1>2, <2>1, <3>1, SearchMoves DEF LoadB, NextTry
  <2>2. CASE ~(idx + 1 = NumSlots /\ found = NoSlot)
    <3>1. found \in Slots \union {NoSlot}
      BY DEF TypeOK
    <3>2. ppc' = "lockQm" => found \in Slots
      BY <1>2, <2>2, <3>1, CompositeAssumption DEF LoadB, TypeOK, Slots
    <3>3. /\ cand' = found /\ ppc = "findB" /\ ppc' \in {"findQm", "lockQm"}
          /\ UNCHANGED <<ignoreQm, disconnected, words, data, readVars, qmDisconnect,
                         qmOffered, ownVars, leaked>>
      BY <1>2, <2>2 DEF LoadB
    <3> HIDE DEF found
    <3>4. SearchSound'
      BY <3>2, <3>3 DEF SearchSound, Allocating
    <3> QED
      BY <3>3, <3>4, SearchMoves
  <2> QED
    BY <2>1, <2>2
<1>3. CASE LockLoadB
  <2>1. SearchSound'
    BY <1>3, StatusConstants DEF LockLoadB, NextTry, Lockable, SearchSound, Allocating
  <2> QED
    BY <1>3, <2>1, SearchMoves DEF LockLoadB, NextTry
<1> QED
  BY <1>1, <1>2, <1>3

(* The QM word of the slot is locked, or another try begins: nobody reads  *)
(* a word that is equal to an unused one.                                  *)
LEMMA CasQmStep ==
    ASSUME TypeOK, CompositeInvariant, CasQm
    PROVE  CompositeInvariant'
<1> USE DEF CompositeInvariant, SamplesIntact
<1>0. qm[cand] = oldQm =>
       /\ cand \in Slots /\ readersQm[cand] = 0 /\ ~IsInWriting(qm[cand])
       /\ qm' = [qm EXCEPT ![cand] = IN_WRITING] /\ ppc' = "casB"
       /\ \A p \in allocated : p.slot # cand
       /\ ~disconnected /\ oldQm.ts # 0 => data[cand] = oldQm.ts
   BY StatusConstants DEF TypeOK, CasQm, SearchSound, QmSamplesIntact, Allocating,
     ReferencesCounted,
     LockedUntilDone, DisconnectKnown, SendingSound, NoAllocatee, NoSlot, Allocatee, Slots
<1>1. ReferencesCounted'
  BY <1>0, StatusConstants
     DEF TypeOK, ReferencesCounted, CasQm, NextTry, readVars, scanVars, ownVars,
         SearchSound, LockedUntilDone, SendingSound
<1>2. LockedUntilDone'
  BY <1>0, StatusConstants
     DEF TypeOK, LockedUntilDone, CasQm, NextTry, scanVars, ownVars, SendingSound,
         Allocatee, NoAllocatee, NoSlot, Slots, SearchSound, Allocating, DisconnectKnown
<1>3. AsilBSamplesIntact'
  BY <1>0, StatusConstants
     DEF TypeOK, AsilBSamplesIntact, CasQm, NextTry, scanVars, ownVars, SendingSound
<1>4. QmSamplesIntact'
  BY <1>0, StatusConstants
     DEF TypeOK, QmSamplesIntact, CasQm, NextTry, scanVars, ownVars, DisconnectKnown,
         SearchSound, SendingSound
<1>5. ReadArePublished'
  BY <1>0, StatusConstants
     DEF TypeOK, ReadArePublished, CasQm, NextTry, readVars, scanVars
<1>6. SearchSound'
  BY <1>0, StatusConstants
     DEF TypeOK, SearchSound, Allocating, CasQm, NextTry, scanVars, ownVars
<1>7. SendingSound'
  BY <1>0, StatusConstants
     DEF TypeOK, SendingSound, CasQm, NextTry, scanVars, ownVars, LockedUntilDone
<1>8. LocksOwned'
  BY <1>0, StatusConstants
     DEF TypeOK, LocksOwned, CasQm, NextTry, scanVars, ownVars, SendingSound,
         LockedUntilDone, DisconnectKnown
<1>9. DisconnectKnown'
  BY <1>0, StatusConstants
     DEF TypeOK, DisconnectKnown, CasQm, NextTry, scanVars, ownVars, SearchSound,
         Allocating
<1>10. LeakedStayLocked'
  BY <1>0, StatusConstants
     DEF TypeOK, LeakedStayLocked, CasQm, NextTry, scanVars, ownVars, SearchSound,
         Allocating,
         SendingSound, Allocatee, LockedUntilDone
<1> QED
  BY <1>1, <1>2, <1>3, <1>4, <1>5, <1>6, <1>7, <1>8, <1>9, <1>10

(* The ASIL-B word is locked too, and the user owns the slot.              *)
LEMMA CasBStep ==
    ASSUME TypeOK, CompositeInvariant, CasB
    PROVE  CompositeInvariant'
<1> USE DEF CompositeInvariant, SamplesIntact
<1>0. b[cand] = oldB =>
       /\ cand \in Slots /\ readersB[cand] = 0 /\ ~IsInWriting(b[cand])
       /\ IsInWriting(qm[cand]) /\ ~ignoreQm
       /\ b' = [b EXCEPT ![cand] = IN_WRITING]
       /\ \A p \in allocated : p.slot # cand
  BY StatusConstants DEF TypeOK, CasB, SearchSound, Allocating, ReferencesCounted
<1>1. ReferencesCounted'
  BY <1>0, StatusConstants
     DEF TypeOK, ReferencesCounted, CasB, NoScan, readVars, flags, scanVars, SearchSound,
         LockedUntilDone, SendingSound
<1>2. LockedUntilDone'
  <2>1. CASE b[cand] # oldB
    BY <2>1 DEF CasB, LockedUntilDone
  <2>2. CASE b[cand] = oldB
    <3> DEFINE n == [slot |-> cand, ignoreQm |-> ignoreQm]
    <3>1. n.slot = cand /\ allocated' = allocated \union {n} /\ UNCHANGED <<qm, sending>>
      BY <2>2 DEF CasB
    <3>2. b'[cand] = IN_WRITING /\ \A s \in Slots \ {cand} : b'[s] = b[s]
      BY <1>0, <2>2 DEF TypeOK
    <3> HIDE DEF n
    <3>3. ASSUME NEW p \in allocated'
          PROVE  p = sending' \/ (IsInWriting(b'[p.slot]) /\ (p.ignoreQm \/ IsInWriting(qm'[p.slot])))
      BY <1>0, <2>2, <3>1, <3>2, StatusConstants DEF LockedUntilDone, TypeOK, Allocatee
    <3>4. ASSUME NEW p \in allocated', NEW q \in allocated', q.slot = p.slot PROVE q = p
      BY <1>0, <2>2, <3>1, <3>4 DEF LockedUntilDone
    <3> QED
      BY <3>3, <3>4 DEF LockedUntilDone
  <2> QED
    BY <2>1, <2>2
<1>3. AsilBSamplesIntact'
  BY <1>0, StatusConstants
     DEF TypeOK, AsilBSamplesIntact, CasB, NoScan, flags, scanVars, SendingSound
<1>4. QmSamplesIntact'
  BY <1>0, StatusConstants
     DEF TypeOK, QmSamplesIntact, CasB, NoScan, flags, scanVars, DisconnectKnown,
         SearchSound, SendingSound
<1>5. ReadArePublished'
  BY <1>0, StatusConstants
     DEF TypeOK, ReadArePublished, CasB, NoScan, readVars, flags, scanVars
<1>6. SearchSound'
  BY <1>0, StatusConstants
     DEF TypeOK, SearchSound, Allocating, CasB, NoScan, flags, scanVars
<1>7. SendingSound'
  BY <1>0, StatusConstants
     DEF TypeOK, SendingSound, CasB, NoScan, flags, scanVars, LockedUntilDone
<1>8. LocksOwned'
  <2>1. CASE b[cand] # oldB
    BY <2>1 DEF CasB, LocksOwned, scanVars
  <2>2. CASE b[cand] = oldB
    <3> DEFINE n == [slot |-> cand, ignoreQm |-> ignoreQm]
    <3>1. n.slot = cand /\ allocated' = allocated \union {n} /\ UNCHANGED qm
      BY <2>2 DEF CasB
    <3>2. b'[cand] = IN_WRITING /\ \A s \in Slots \ {cand} : b'[s] = b[s]
      BY <1>0, <2>2 DEF TypeOK
    <3> HIDE DEF n
    <3>3. ppc # "down"
      BY DEF CasB
    <3>4. ASSUME NEW s \in Slots
          PROVE  /\ IsInWriting(b'[s]) => s \in leaked' \/ \E p \in allocated' : p.slot = s
                 /\ IsInWriting(qm'[s]) => \E p \in allocated' : p.slot = s
      <4>1. leaked' = leaked
        BY <2>2 DEF CasB
      <4> QED
        BY <3>1, <3>2, <3>3, <4>1 DEF LocksOwned
    <3> QED
      BY <3>4 DEF LocksOwned
  <2> QED
    BY <2>1, <2>2
<1>9. DisconnectKnown'
  BY <1>0, StatusConstants
     DEF TypeOK, DisconnectKnown, CasB, NoScan, flags, scanVars, SearchSound, Allocating
<1>10. LeakedStayLocked'
  BY <1>0, StatusConstants
     DEF TypeOK, LeakedStayLocked, CasB, NoScan, flags, scanVars, SearchSound, Allocating,
         SendingSound, Allocatee, LockedUntilDone
<1> QED
  BY <1>1, <1>2, <1>3, <1>4, <1>5, <1>6, <1>7, <1>8, <1>9, <1>10

(* The QM word gets back the value it had: nobody read it and nobody owns  *)
(* the slot.                                                               *)
LEMMA RestoreQmStep ==
    ASSUME TypeOK, CompositeInvariant, RestoreQm
    PROVE  CompositeInvariant'
<1> USE DEF CompositeInvariant, SamplesIntact
<1>0. /\ cand \in Slots /\ readersQm[cand] = 0 /\ ~IsInWriting(oldQm)
      /\ oldQm.refs = 0 /\ \A p \in allocated : p.slot # cand
      /\ qm' = [qm EXCEPT ![cand] = oldQm]
  BY StatusConstants DEF TypeOK, RestoreQm, SearchSound, ReferencesCounted
<1>1. ReferencesCounted'
  BY <1>0, StatusConstants
     DEF TypeOK, ReferencesCounted, RestoreQm, NextTry, readVars, ownVars, SearchSound,
         LockedUntilDone, SendingSound
<1>2. LockedUntilDone'
  BY <1>0, StatusConstants
     DEF TypeOK, LockedUntilDone, RestoreQm, NextTry, ownVars, SendingSound, Allocatee,
         NoAllocatee, NoSlot, Slots, SearchSound, Allocating, DisconnectKnown
<1>3. AsilBSamplesIntact'
  BY <1>0, StatusConstants
     DEF TypeOK, AsilBSamplesIntact, RestoreQm, NextTry, ownVars, SendingSound
<1>4. QmSamplesIntact'
  BY <1>0, StatusConstants
     DEF TypeOK, QmSamplesIntact, RestoreQm, NextTry, ownVars, DisconnectKnown,
         SearchSound, SendingSound
<1>5. ReadArePublished'
  BY <1>0, StatusConstants
     DEF TypeOK, ReadArePublished, RestoreQm, NextTry, readVars
<1>6. SearchSound'
  BY <1>0, StatusConstants
     DEF TypeOK, SearchSound, Allocating, RestoreQm, NextTry, ownVars
<1>7. SendingSound'
  BY <1>0, StatusConstants
     DEF TypeOK, SendingSound, RestoreQm, NextTry, ownVars, LockedUntilDone
<1>8. LocksOwned'
  BY <1>0, StatusConstants
     DEF TypeOK, LocksOwned, RestoreQm, NextTry, ownVars, SendingSound, LockedUntilDone,
         DisconnectKnown
<1>9. DisconnectKnown'
  BY <1>0, StatusConstants
     DEF TypeOK, DisconnectKnown, RestoreQm, NextTry, ownVars, SearchSound, Allocating
<1>10. LeakedStayLocked'
  BY <1>0, StatusConstants
     DEF TypeOK, LeakedStayLocked, RestoreQm, NextTry, ownVars, SearchSound, Allocating,
         SendingSound, Allocatee, LockedUntilDone
<1> QED
  BY <1>1, <1>2, <1>3, <1>4, <1>5, <1>6, <1>7, <1>8, <1>9, <1>10

(* The scan of the ASIL-B words alone.                                     *)
LEMMA FindOldestUnusedSlotStep ==
    ASSUME TypeOK, CompositeInvariant, FindOldestUnusedSlot
    PROVE  CompositeInvariant'
<1>1. SearchSound'
  BY DEF CompositeInvariant, FindOldestUnusedSlot, SearchSound, Allocating, flags
<1> QED
  BY <1>1, SearchMoves DEF FindOldestUnusedSlot, flags

(* The allocation in ASIL-B alone takes a slot that nobody owns, so its QM *)
(* word is not locked either; or it locks one and reports failure.         *)
LEMMA LockAloneStep ==
    ASSUME TypeOK, CompositeInvariant, LockAlone
    PROVE  CompositeInvariant'
<1> USE DEF CompositeInvariant, SamplesIntact
<1> DEFINE n == [slot |-> cand, ignoreQm |-> TRUE]
<1>0. /\ ppc = "lockAlone" /\ ppc' = "idle" /\ ignoreQm /\ disconnected /\ qmDisconnect'
      /\ cand \in Slots /\ ~IsInWriting(b[cand]) /\ readersB[cand] = 0
      /\ \A p \in allocated : p.slot # cand
      /\ ~IsInWriting(qm[cand]) /\ cand \notin leaked
      /\ b'[cand] = IN_WRITING /\ \A s \in Slots \ {cand} : b'[s] = b[s]
      /\ UNCHANGED <<qm, readersB, readersQm, ignoreQm, disconnected, sending, currentTs>>
  <2>1. ppc = "lockAlone" /\ cand \in Slots /\ ~IsUsed(b[cand])
    BY DEF LockAlone, TypeOK
  <2>2. ~IsInWriting(b[cand]) /\ readersB[cand] = 0
    BY <2>1, StatusConstants DEF ReferencesCounted
  <2>3. \A p \in allocated : p.slot # cand
    BY <2>1, <2>2 DEF LockedUntilDone, SendingSound, NoAllocatee, NoSlot, Slots, TypeOK,
       Allocatee
  <2>4. ~IsInWriting(qm[cand]) /\ cand \notin leaked
    BY <2>1, <2>2, <2>3 DEF LocksOwned, LeakedStayLocked
  <2>5. b'[cand] = IN_WRITING /\ \A s \in Slots \ {cand} : b'[s] = b[s]
    BY <2>1 DEF LockAlone, TypeOK
  <2>6. ignoreQm /\ disconnected
    BY <2>1 DEF SearchSound, DisconnectKnown
  <2> QED
    BY <2>1, <2>2, <2>3, <2>4, <2>5, <2>6 DEF LockAlone, DisconnectQmConsumers, readVars
<1>1. /\ n.slot = cand /\ n.ignoreQm
      /\ \/ allocated' = allocated \union {n} /\ data' = [data EXCEPT ![cand] = 0] /\ leaked' = leaked
         \/ UNCHANGED <<allocated, data>> /\ leaked' = leaked \union {cand}
  BY DEF LockAlone
<1>2. /\ qmOffered' => qmOffered
      /\ ~qmOffered'
  BY DEF LockAlone, DisconnectQmConsumers, DisconnectKnown
<1> HIDE DEF n
<1>3. ReferencesCounted'
  BY <1>0, StatusConstants DEF ReferencesCounted
<1>4. LockedUntilDone'
  <2>1. ASSUME NEW p \in allocated'
        PROVE  p = sending' \/ (IsInWriting(b'[p.slot]) /\ (p.ignoreQm \/ IsInWriting(qm'[p.slot])))
    BY <1>0, <1>1, <2>1, StatusConstants DEF LockedUntilDone, TypeOK, Allocatee
  <2>2. ASSUME NEW p \in allocated', NEW q \in allocated', q.slot = p.slot PROVE q = p
    BY <1>0, <1>1, <2>2 DEF LockedUntilDone
  <2> QED
    BY <2>1, <2>2 DEF LockedUntilDone
<1>5. AsilBSamplesIntact'
  BY <1>0, <1>1, StatusConstants DEF AsilBSamplesIntact, TypeOK
<1>6. QmSamplesIntact'
  BY <1>0 DEF QmSamplesIntact
<1>7. ReadArePublished'
  BY <1>0 DEF ReadArePublished
<1>8. SearchSound'
  BY <1>0 DEF SearchSound, Allocating
<1>9. SendingSound'
  BY <1>0 DEF SendingSound
<1>10. LocksOwned'
  <2>1. ASSUME NEW s \in Slots
        PROVE  /\ IsInWriting(b'[s]) => s \in leaked' \/ \E p \in allocated' : p.slot = s
               /\ IsInWriting(qm'[s]) => \E p \in allocated' : p.slot = s
    BY <1>0, <1>1 DEF LocksOwned
  <2> QED
    BY <2>1 DEF LocksOwned
<1>11. LeakedStayLocked'
  BY <1>0, <1>1, StatusConstants DEF LeakedStayLocked, TypeOK
<1>12. DisconnectKnown'
  BY <1>0, <1>1, <1>2 DEF DisconnectKnown
<1> QED
  BY <1>3, <1>4, <1>5, <1>6, <1>7, <1>8, <1>9, <1>10, <1>11, <1>12

(* The next iteration, or the failure that leaves the words as they were.  *)
LEMMA RetryAloneStep ==
    ASSUME TypeOK, CompositeInvariant, RetryAlone
    PROVE  CompositeInvariant'
<1>1. CASE tries < MaxAllocateRetries
  <2>1. SearchSound'
    BY <1>1 DEF CompositeInvariant, RetryAlone, SearchSound, Allocating
  <2> QED
    BY <1>1, <2>1, SearchMoves DEF RetryAlone
<1>2. CASE ~(tries < MaxAllocateRetries)
  <2> USE DEF CompositeInvariant, SamplesIntact
  <2>1. /\ ppc = "lockAlone" /\ ppc' = "idle" /\ qmDisconnect' /\ ~qmOffered'
        /\ UNCHANGED <<b, qm, data, readersB, readersQm, ignoreQm, disconnected, allocated,
                       sending, currentTs, leaked>>
    BY <1>2 DEF RetryAlone, DisconnectQmConsumers, DisconnectKnown, words, readVars, ownVars
  <2>2. ReferencesCounted' /\ ReadArePublished' /\ AsilBSamplesIntact' /\ QmSamplesIntact'
    BY <2>1 DEF ReferencesCounted, ReadArePublished, AsilBSamplesIntact, QmSamplesIntact
  <2>3. LockedUntilDone' /\ SearchSound' /\ SendingSound'
    BY <2>1 DEF LockedUntilDone, SearchSound, Allocating, SendingSound
  <2>4. LocksOwned' /\ LeakedStayLocked' /\ DisconnectKnown'
    BY <2>1 DEF LocksOwned, LeakedStayLocked, DisconnectKnown
  <2> QED
    BY <2>2, <2>3, <2>4
<1> QED
  BY <1>1, <1>2

(* The QM word follows the ASIL-B word unless QM is ignored.               *)
LEMMA SendQmStep ==
    ASSUME TypeOK, CompositeInvariant, SendQm
    PROVE  CompositeInvariant'
<1> USE DEF CompositeInvariant, SamplesIntact
<1>0. /\ sending \in allocated /\ sending.slot \in Slots
      /\ currentTs # 0 /\ currentTs > 0
      /\ ~ignoreQm => /\ IsInWriting(qm[sending.slot]) /\ readersQm[sending.slot] = 0
                       /\ ~IsInWriting([ts |-> currentTs, refs |-> 0])
  BY StatusConstants DEF TypeOK, SendQm, SendingSound, DisconnectKnown, Allocatee,
     ReferencesCounted, Timestamps
<1>1. ReferencesCounted'
  BY <1>0, StatusConstants
     DEF TypeOK, ReferencesCounted, SendQm, readVars, flags, scanVars, ownVars,
         SearchSound, LockedUntilDone, SendingSound
<1>2. LockedUntilDone'
  BY <1>0, StatusConstants
     DEF TypeOK, LockedUntilDone, SendQm, flags, scanVars, ownVars, SendingSound,
         Allocatee, NoAllocatee, NoSlot, Slots, SearchSound, Allocating, DisconnectKnown
<1>3. AsilBSamplesIntact'
  BY <1>0, StatusConstants
     DEF TypeOK, AsilBSamplesIntact, SendQm, flags, ownVars, SendingSound
<1>4. QmSamplesIntact'
  BY <1>0, StatusConstants
     DEF TypeOK, QmSamplesIntact, SendQm, flags, scanVars, ownVars, DisconnectKnown,
         SearchSound, SendingSound
<1>5. ReadArePublished'
  BY <1>0, StatusConstants
     DEF TypeOK, ReadArePublished, SendQm, readVars, flags, ownVars
<1>6. SearchSound'
  BY <1>0, StatusConstants
     DEF TypeOK, SearchSound, Allocating, SendQm, flags, scanVars, ownVars
<1>7. SendingSound'
  BY <1>0, StatusConstants
     DEF TypeOK, SendingSound, SendQm, flags, ownVars, LockedUntilDone
<1>8. LocksOwned'
  BY <1>0, StatusConstants
     DEF TypeOK, LocksOwned, SendQm, flags, scanVars, ownVars, SendingSound,
         LockedUntilDone, DisconnectKnown
<1>9. DisconnectKnown'
  BY <1>0, StatusConstants
     DEF TypeOK, DisconnectKnown, SendQm, flags, scanVars, ownVars, SearchSound,
         Allocating
<1>10. LeakedStayLocked'
  BY <1>0, StatusConstants
     DEF TypeOK, LeakedStayLocked, SendQm, flags, scanVars, ownVars, SearchSound,
         Allocating,
         SendingSound, Allocatee, LockedUntilDone
<1> QED
  BY <1>1, <1>2, <1>3, <1>4, <1>5, <1>6, <1>7, <1>8, <1>9, <1>10

(* Discard keeps a ready event and gives back a slot in writing.           *)
LEMMA DiscardBStep ==
    ASSUME TypeOK, CompositeInvariant, DiscardB
    PROVE  CompositeInvariant'
<1> USE DEF CompositeInvariant, SamplesIntact
<1>0. /\ sending \in allocated /\ sending.slot \in Slots
      /\ b' = [b EXCEPT ![sending.slot] = Discarded(b[sending.slot])]
      /\ ~IsInWriting(Discarded(b[sending.slot]))
      /\ Discarded(b[sending.slot]).refs = readersB[sending.slot]
      /\ Discarded(b[sending.slot]).ts = b[sending.slot].ts
  <2>1. sending \in allocated /\ sending.slot \in Slots
    BY DEF TypeOK, DiscardB, SendingSound, Allocatee
  <2> QED
    BY <2>1, StatusConstants DEF TypeOK, DiscardB, Discarded, ReferencesCounted
<1>1. ReferencesCounted'
  BY <1>0, StatusConstants
     DEF TypeOK, ReferencesCounted, DiscardB, readVars, flags, scanVars, ownVars,
         SearchSound, LockedUntilDone, SendingSound
<1>2. LockedUntilDone'
  BY <1>0, StatusConstants
     DEF TypeOK, LockedUntilDone, DiscardB, flags, scanVars, ownVars, SendingSound,
         Allocatee, NoAllocatee, NoSlot, Slots, SearchSound, Allocating, DisconnectKnown
<1>3. AsilBSamplesIntact'
  BY <1>0, StatusConstants
     DEF TypeOK, AsilBSamplesIntact, DiscardB, flags, ownVars, SendingSound
<1>4. QmSamplesIntact'
  BY <1>0, StatusConstants
     DEF TypeOK, QmSamplesIntact, DiscardB, flags, scanVars, ownVars, DisconnectKnown,
         SearchSound, SendingSound
<1>5. ReadArePublished'
  BY <1>0, StatusConstants
     DEF TypeOK, ReadArePublished, DiscardB, readVars, ownVars
<1>6. SearchSound'
  BY <1>0, StatusConstants
     DEF TypeOK, SearchSound, Allocating, DiscardB, flags, scanVars, ownVars
<1>7. SendingSound'
  BY <1>0, StatusConstants
     DEF TypeOK, SendingSound, DiscardB, flags, ownVars, LockedUntilDone
<1>8. LocksOwned'
  BY <1>0, StatusConstants
     DEF TypeOK, LocksOwned, DiscardB, flags, scanVars, ownVars, SendingSound,
         LockedUntilDone, DisconnectKnown
<1>9. DisconnectKnown'
  BY <1>0, StatusConstants
     DEF TypeOK, DisconnectKnown, DiscardB, flags, scanVars, ownVars, SearchSound,
         Allocating
<1>10. LeakedStayLocked'
  BY <1>0, StatusConstants
     DEF TypeOK, LeakedStayLocked, DiscardB, flags, scanVars, ownVars, SearchSound,
         Allocating,
         SendingSound, Allocatee, LockedUntilDone
<1> QED
  BY <1>1, <1>2, <1>3, <1>4, <1>5, <1>6, <1>7, <1>8, <1>9, <1>10

(* The owner is gone once neither word is in writing.                      *)
LEMMA DiscardQmStep ==
    ASSUME TypeOK, CompositeInvariant, DiscardQm
    PROVE  CompositeInvariant'
<1> USE DEF CompositeInvariant, SamplesIntact
<1>0. /\ sending \in allocated /\ sending.slot \in Slots
      /\ ~sending.ignoreQm => qm' = [qm EXCEPT ![sending.slot] = Discarded(qm[sending.slot])]
      /\ ~IsInWriting(Discarded(qm[sending.slot]))
      /\ Discarded(qm[sending.slot]).refs = readersQm[sending.slot]
      /\ Discarded(qm[sending.slot]).ts = qm[sending.slot].ts
  <2>1. sending \in allocated /\ sending.slot \in Slots
    BY DEF TypeOK, DiscardQm, SendingSound, Allocatee
  <2> QED
    BY <2>1, StatusConstants DEF TypeOK, DiscardQm, Discarded, ReferencesCounted
<1>1. ReferencesCounted'
  BY <1>0, StatusConstants
     DEF TypeOK, ReferencesCounted, DiscardQm, readVars, flags, scanVars, SearchSound,
         LockedUntilDone, SendingSound
<1>2. LockedUntilDone'
  BY <1>0, StatusConstants
     DEF TypeOK, LockedUntilDone, DiscardQm, flags, scanVars, SendingSound, Allocatee,
         NoAllocatee, NoSlot, Slots, SearchSound, Allocating, DisconnectKnown
<1>3. AsilBSamplesIntact'
  BY <1>0, StatusConstants
     DEF TypeOK, AsilBSamplesIntact, DiscardQm, flags, SendingSound
<1>4. QmSamplesIntact'
  BY <1>0, StatusConstants
     DEF TypeOK, QmSamplesIntact, DiscardQm, flags, scanVars, DisconnectKnown,
         SearchSound, SendingSound
<1>5. ReadArePublished'
  BY <1>0, StatusConstants
     DEF TypeOK, ReadArePublished, DiscardQm, readVars, flags
<1>6. SearchSound'
  BY <1>0, StatusConstants
     DEF TypeOK, SearchSound, Allocating, DiscardQm, flags, scanVars
<1>7. SendingSound'
  BY <1>0, StatusConstants
     DEF TypeOK, SendingSound, DiscardQm, flags, LockedUntilDone
<1>8. LocksOwned'
  BY <1>0, StatusConstants
     DEF TypeOK, LocksOwned, DiscardQm, flags, scanVars, SendingSound, LockedUntilDone,
         DisconnectKnown
<1>9. DisconnectKnown'
  BY <1>0, StatusConstants
     DEF TypeOK, DisconnectKnown, DiscardQm, flags, scanVars, SearchSound, Allocating
<1>10. LeakedStayLocked'
  BY <1>0, StatusConstants
     DEF TypeOK, LeakedStayLocked, DiscardQm, flags, scanVars, SearchSound, Allocating,
         SendingSound, Allocatee, LockedUntilDone
<1> QED
  BY <1>1, <1>2, <1>3, <1>4, <1>5, <1>6, <1>7, <1>8, <1>9, <1>10

(* The ASIL-B word of a slot the user owns becomes ready.                  *)
LEMMA SendStep ==
    ASSUME TypeOK, CompositeInvariant, NEW p \in allocated, Send(p)
    PROVE  CompositeInvariant'
<1> USE DEF CompositeInvariant, SamplesIntact
<1>0. /\ p \in allocated /\ p.slot \in Slots
      /\ currentTs + 1 # 0 /\ currentTs + 1 > 0
      /\ IsInWriting(b[p.slot]) /\ readersB[p.slot] = 0 
      /\ p.ignoreQm \/ IsInWriting(qm[p.slot])
      /\ [ts |-> currentTs + 1, refs |-> 0].refs = 0
      /\ ~IsInWriting([ts |-> currentTs + 1, refs |-> 0])
      /\ ~disconnected => IsInWriting(qm[p.slot]) /\ qm[p.slot].ts = 0
  <2>1. /\ p.slot \in Slots /\ p # sending /\ currentTs + 1 # 0 /\ currentTs + 1 > 0
    BY DEF TypeOK, Send, SendingSound, Allocatee, NoAllocatee, NoSlot, Slots, Timestamps
  <2>2. IsInWriting(b[p.slot]) /\ (p.ignoreQm \/ IsInWriting(qm[p.slot]))
    BY <2>1 DEF LockedUntilDone
  <2>3. ~disconnected => IsInWriting(qm[p.slot])
    BY <2>2 DEF DisconnectKnown
  <2>4. \A st : IsInWriting(st) => st.ts = 0
    BY DEF IsInWriting, IN_WRITING
  <2> QED
    BY <2>1, <2>2, <2>3, <2>4, StatusConstants DEF ReferencesCounted
<1>1. ReferencesCounted'
  BY <1>0, StatusConstants
     DEF TypeOK, ReferencesCounted, Send, readVars, flags, scanVars, SearchSound,
         LockedUntilDone, SendingSound
<1>2. LockedUntilDone'
  BY <1>0, StatusConstants
     DEF TypeOK, LockedUntilDone, Send, flags, scanVars, SendingSound, Allocatee,
         NoAllocatee, NoSlot, Slots, SearchSound, Allocating, DisconnectKnown
<1>3. AsilBSamplesIntact'
  BY <1>0, StatusConstants
     DEF TypeOK, AsilBSamplesIntact, Send, flags, SendingSound
<1>4. QmSamplesIntact'
  BY <1>0, StatusConstants
     DEF TypeOK, QmSamplesIntact, Send, flags, scanVars, DisconnectKnown, SearchSound,
         SendingSound
<1>5. ReadArePublished'
  BY <1>0, StatusConstants
     DEF TypeOK, ReadArePublished, Send, readVars
<1>6. SearchSound'
  BY <1>0, StatusConstants
     DEF TypeOK, SearchSound, Allocating, Send, flags, scanVars
<1>7. SendingSound'
  BY <1>0, StatusConstants
     DEF TypeOK, SendingSound, Allocatee, NoAllocatee, Slots, NoSlot, Send, flags,
         LockedUntilDone
<1>8. LocksOwned'
  BY <1>0, StatusConstants
     DEF TypeOK, LocksOwned, Send, flags, scanVars, SendingSound, LockedUntilDone,
         DisconnectKnown
<1>9. DisconnectKnown'
  BY <1>0, StatusConstants
     DEF TypeOK, DisconnectKnown, Send, flags, scanVars, SearchSound, Allocating
<1>10. LeakedStayLocked'
  BY <1>0, StatusConstants
     DEF TypeOK, LeakedStayLocked, Send, flags, scanVars, SearchSound, Allocating,
         SendingSound, Allocatee, LockedUntilDone
<1> QED
  BY <1>1, <1>2, <1>3, <1>4, <1>5, <1>6, <1>7, <1>8, <1>9, <1>10

(* A sample is dropped.                                                    *)
LEMMA DropStep ==
    ASSUME TypeOK, CompositeInvariant, NEW p \in allocated, Drop(p)
    PROVE  CompositeInvariant'
<1> USE DEF CompositeInvariant, SamplesIntact
<1>1. ReferencesCounted'
  BY StatusConstants
     DEF TypeOK, ReferencesCounted, Drop, words, readVars, flags, scanVars, SearchSound,
         LockedUntilDone, SendingSound
<1>2. LockedUntilDone'
  BY StatusConstants
     DEF TypeOK, LockedUntilDone, Drop, words, flags, scanVars, SendingSound, Allocatee,
         NoAllocatee, NoSlot, Slots, SearchSound, Allocating, DisconnectKnown
<1>3. AsilBSamplesIntact'
  BY StatusConstants
     DEF TypeOK, AsilBSamplesIntact, Drop, words, flags, SendingSound
<1>4. QmSamplesIntact'
  BY StatusConstants
     DEF TypeOK, QmSamplesIntact, Drop, words, flags, scanVars, DisconnectKnown,
         SearchSound, SendingSound
<1>5. ReadArePublished'
  BY StatusConstants
     DEF TypeOK, ReadArePublished, Drop, words, readVars
<1>6. SearchSound'
  BY StatusConstants
     DEF TypeOK, SearchSound, Allocating, Drop, words, flags, scanVars
<1>7. SendingSound'
  BY StatusConstants
     DEF TypeOK, SendingSound, Allocatee, NoAllocatee, Slots, NoSlot, Drop, words, flags,
         LockedUntilDone
<1>8. LocksOwned'
  BY StatusConstants
     DEF TypeOK, LocksOwned, Drop, words, flags, scanVars, SendingSound, LockedUntilDone,
         DisconnectKnown
<1>9. DisconnectKnown'
  BY StatusConstants
     DEF TypeOK, DisconnectKnown, Drop, words, flags, scanVars, SearchSound, Allocating
<1>10. LeakedStayLocked'
  BY StatusConstants
     DEF TypeOK, LeakedStayLocked, Drop, words, flags, scanVars, SearchSound, Allocating,
         SendingSound, Allocatee, LockedUntilDone
<1> QED
  BY <1>1, <1>2, <1>3, <1>4, <1>5, <1>6, <1>7, <1>8, <1>9, <1>10

(* The process dies with its samples.                                      *)
LEMMA CrashStep ==
    ASSUME TypeOK, CompositeInvariant, Crash
    PROVE  CompositeInvariant'
<1> USE DEF CompositeInvariant, SamplesIntact
<1>1. ReferencesCounted'
  BY StatusConstants
     DEF TypeOK, ReferencesCounted, Crash, NoScan, words, readVars, flags, SearchSound,
         LockedUntilDone, SendingSound
<1>2. LockedUntilDone'
  BY StatusConstants
     DEF TypeOK, LockedUntilDone, Crash, NoScan, words, flags, SendingSound, Allocatee,
         NoAllocatee, NoSlot, Slots, SearchSound, Allocating, DisconnectKnown
<1>3. AsilBSamplesIntact'
  BY StatusConstants
     DEF TypeOK, AsilBSamplesIntact, Crash, NoScan, words, flags, SendingSound
<1>4. QmSamplesIntact'
  BY StatusConstants
     DEF TypeOK, QmSamplesIntact, Crash, NoScan, words, flags, DisconnectKnown,
         SearchSound, SendingSound
<1>5. ReadArePublished'
  BY StatusConstants
     DEF TypeOK, ReadArePublished, Crash, NoScan, words, readVars
<1>6. SearchSound'
  BY StatusConstants
     DEF TypeOK, SearchSound, Allocating, Crash, NoScan, words, flags
<1>7. SendingSound'
  BY StatusConstants
     DEF TypeOK, SendingSound, Crash, NoScan, words, flags, LockedUntilDone
<1>8. LocksOwned'
  BY StatusConstants
     DEF TypeOK, LocksOwned, Crash, NoScan, words, flags, SendingSound, LockedUntilDone,
         DisconnectKnown
<1>9. DisconnectKnown'
  BY StatusConstants
     DEF TypeOK, DisconnectKnown, Crash, NoScan, words, flags, SearchSound, Allocating
<1>10. LeakedStayLocked'
  BY StatusConstants
     DEF TypeOK, LeakedStayLocked, Crash, NoScan, words, flags, SearchSound, Allocating,
         SendingSound, Allocatee, LockedUntilDone
<1> QED
  BY <1>1, <1>2, <1>3, <1>4, <1>5, <1>6, <1>7, <1>8, <1>9, <1>10

(* The words in writing are given back before the new skeleton runs.       *)
LEMMA RestartStep ==
    ASSUME TypeOK, CompositeInvariant, Restart
    PROVE  CompositeInvariant'
<1> USE DEF CompositeInvariant, SamplesIntact
<1>0. \A s \in Slots :
       /\ ~IsInWriting(b'[s]) /\ ~IsInWriting(qm'[s])
       /\ b'[s].ts = b[s].ts /\ qm'[s].ts = qm[s].ts
       /\ b'[s].refs = readersB[s] /\ qm'[s].refs = readersQm[s]
   BY StatusConstants DEF TypeOK, Restart, OpenExisting, RemoveAllocationsForWriting,
     Discarded, ReferencesCounted
<1>a. qmDisconnect' = FALSE /\ ignoreQm' = FALSE /\ allocated' = {}
  BY DEF Restart, OpenExisting, SendingSound
<1>1. ReferencesCounted'
  BY <1>a, <1>0, StatusConstants
     DEF TypeOK, ReferencesCounted, Restart, OpenExisting, RemoveAllocationsForWriting,
         readVars, scanVars, SearchSound, LockedUntilDone, SendingSound
<1>2. LockedUntilDone'
  BY <1>a, <1>0, StatusConstants
     DEF TypeOK, LockedUntilDone, Restart, OpenExisting, RemoveAllocationsForWriting,
         scanVars, SendingSound, Allocatee, NoAllocatee, NoSlot, Slots, SearchSound,
         Allocating, DisconnectKnown
<1>3. AsilBSamplesIntact'
  BY <1>a, <1>0, StatusConstants
     DEF TypeOK, AsilBSamplesIntact, Restart, OpenExisting, RemoveAllocationsForWriting,
         SendingSound
<1>4. QmSamplesIntact'
  BY <1>a, <1>0, StatusConstants
     DEF TypeOK, QmSamplesIntact, Restart, OpenExisting, RemoveAllocationsForWriting,
         scanVars, DisconnectKnown, SearchSound, SendingSound
<1>5. ReadArePublished'
  BY <1>a, <1>0, StatusConstants
     DEF TypeOK, ReadArePublished, Restart, OpenExisting, RemoveAllocationsForWriting,
         readVars
<1>6. SearchSound'
  BY <1>a, <1>0, StatusConstants
     DEF TypeOK, SearchSound, Allocating, Restart, OpenExisting,
         RemoveAllocationsForWriting, scanVars
<1>7. SendingSound'
  BY <1>a, <1>0, StatusConstants
     DEF TypeOK, SendingSound, Restart, OpenExisting, RemoveAllocationsForWriting,
         LockedUntilDone
<1>8. LocksOwned'
  BY <1>a, <1>0, StatusConstants
     DEF TypeOK, LocksOwned, Restart, OpenExisting, RemoveAllocationsForWriting, scanVars,
         SendingSound, LockedUntilDone, DisconnectKnown
<1>9. DisconnectKnown'
  BY <1>a, <1>0, StatusConstants
     DEF TypeOK, DisconnectKnown, Restart, OpenExisting, RemoveAllocationsForWriting,
         scanVars, SearchSound, Allocating
<1>10. LeakedStayLocked'
  BY <1>a, <1>0, StatusConstants
     DEF TypeOK, LeakedStayLocked, Restart, OpenExisting, RemoveAllocationsForWriting,
         scanVars, SearchSound, Allocating,
         SendingSound, Allocatee, LockedUntilDone
<1> QED
  BY <1>1, <1>2, <1>3, <1>4, <1>5, <1>6, <1>7, <1>8, <1>9, <1>10

(* The same on a living skeleton, which holds no samples.                  *)
LEMMA ReofferStep ==
    ASSUME TypeOK, CompositeInvariant, Reoffer, ~ReofferWithSamples, ~ReofferAfterDisconnect
    PROVE  CompositeInvariant'
<1> USE DEF CompositeInvariant, SamplesIntact
<1>0. \A s \in Slots :
       /\ ~IsInWriting(b'[s]) /\ ~IsInWriting(qm'[s])
       /\ b'[s].ts = b[s].ts /\ qm'[s].ts = qm[s].ts
       /\ b'[s].refs = readersB[s] /\ qm'[s].refs = readersQm[s]
   BY StatusConstants DEF TypeOK, Reoffer, OpenExisting, RemoveAllocationsForWriting,
     Discarded, ReferencesCounted
<1>a. qmDisconnect' = FALSE /\ ignoreQm' = FALSE /\ allocated' = {}
  BY DEF Reoffer, OpenExisting, SendingSound
<1>1. ReferencesCounted'
  BY <1>a, <1>0, StatusConstants
     DEF TypeOK, ReferencesCounted, Reoffer, OpenExisting, RemoveAllocationsForWriting,
         readVars, scanVars, SearchSound, LockedUntilDone, SendingSound
<1>2. LockedUntilDone'
  BY <1>a, <1>0, StatusConstants
     DEF TypeOK, LockedUntilDone, Reoffer, OpenExisting, RemoveAllocationsForWriting,
         scanVars, SendingSound, Allocatee, NoAllocatee, NoSlot, Slots, SearchSound,
         Allocating, DisconnectKnown
<1>3. AsilBSamplesIntact'
  BY <1>a, <1>0, StatusConstants
     DEF TypeOK, AsilBSamplesIntact, Reoffer, OpenExisting, RemoveAllocationsForWriting,
         SendingSound
<1>4. QmSamplesIntact'
  BY <1>a, <1>0, StatusConstants
     DEF TypeOK, QmSamplesIntact, Reoffer, OpenExisting, RemoveAllocationsForWriting,
         scanVars, DisconnectKnown, SearchSound, SendingSound
<1>5. ReadArePublished'
  BY <1>a, <1>0, StatusConstants
     DEF TypeOK, ReadArePublished, Reoffer, OpenExisting, RemoveAllocationsForWriting,
         readVars
<1>6. SearchSound'
  BY <1>a, <1>0, StatusConstants
     DEF TypeOK, SearchSound, Allocating, Reoffer, OpenExisting,
         RemoveAllocationsForWriting, scanVars
<1>7. SendingSound'
  BY <1>a, <1>0, StatusConstants
     DEF TypeOK, SendingSound, Reoffer, OpenExisting, RemoveAllocationsForWriting,
         LockedUntilDone
<1>8. LocksOwned'
  BY <1>a, <1>0, StatusConstants
     DEF TypeOK, LocksOwned, Reoffer, OpenExisting, RemoveAllocationsForWriting, scanVars,
         SendingSound, LockedUntilDone, DisconnectKnown
<1>9. DisconnectKnown'
  BY <1>a, <1>0, StatusConstants
     DEF TypeOK, DisconnectKnown, Reoffer, OpenExisting, RemoveAllocationsForWriting,
         scanVars, SearchSound, Allocating
<1>10. LeakedStayLocked'
  BY <1>a, <1>0, StatusConstants
     DEF TypeOK, LeakedStayLocked, Reoffer, OpenExisting, RemoveAllocationsForWriting,
         scanVars, SearchSound, Allocating,
         SendingSound, Allocatee, LockedUntilDone
<1> QED
  BY <1>1, <1>2, <1>3, <1>4, <1>5, <1>6, <1>7, <1>8, <1>9, <1>10

(* What a consumer's step leaves of the words: whose they are and which    *)
(* event they stand for.                                                   *)
LEMMA ReadersMove ==
    ASSUME TypeOK, CompositeInvariant,
           UNCHANGED <<data, flags, ppc, scanVars, ownVars, leaked>>,
           \A s \in Slots :
              /\ IsInWriting(b'[s]) <=> IsInWriting(b[s])
              /\ b'[s].ts = b[s].ts
              /\ IF IsInWriting(b'[s]) THEN readersB'[s] = 0
                                       ELSE b'[s].refs = readersB'[s]
              /\ readersB'[s] > 0 => b[s].ts > 0
              /\ IsInWriting(qm'[s]) <=> IsInWriting(qm[s])
              /\ qm'[s].ts = qm[s].ts
              /\ IF IsInWriting(qm'[s]) THEN readersQm'[s] = 0
                                        ELSE qm'[s].refs = readersQm'[s]
              /\ readersQm'[s] > 0 => qm[s].ts > 0
    PROVE  CompositeInvariant'
<1> USE DEF CompositeInvariant, SamplesIntact
<1>0. \A p \in allocated : p.slot \in Slots
  BY DEF TypeOK, Allocatee
<1>1. ReferencesCounted' /\ ReadArePublished'
  BY DEF ReferencesCounted, ReadArePublished
<1>2. LockedUntilDone'
  BY <1>0 DEF LockedUntilDone, ownVars
<1>3. AsilBSamplesIntact' /\ QmSamplesIntact'
  BY DEF AsilBSamplesIntact, QmSamplesIntact, flags
<1>4. SearchSound'
  BY DEF SearchSound, Allocating, flags, scanVars, ownVars
<1>5. SendingSound'
  BY <1>0 DEF SendingSound, ownVars
<1>6. LocksOwned'
  BY DEF LocksOwned, ownVars, scanVars
<1>7. DisconnectKnown' /\ LeakedStayLocked'
  BY <1>0 DEF DisconnectKnown, LeakedStayLocked, TypeOK, ownVars, flags
<1> QED
  BY <1>1, <1>2, <1>3, <1>4, <1>5, <1>6, <1>7

(* No word counts more readers than it can.                                *)
LEMMA ReadersBounded ==
    ASSUME TypeOK, CompositeInvariant
    PROVE  /\ \A s \in Slots : readersB[s] <= RefCountMax /\ readersQm[s] <= RefCountMax
           /\ readersB \in [Slots -> Nat] /\ readersQm \in [Slots -> Nat]
<1>1. \A s \in Slots : b[s].refs <= RefCountMax /\ qm[s].refs <= RefCountMax
  BY StatusAssumption DEF TypeOK, SlotStatus, RefCounts
<1> QED
  BY <1>1, StatusAssumption DEF TypeOK, CompositeInvariant, ReferencesCounted

(* A reference added to a published event, with room for it.               *)
LEMMA WordAcquired ==
    ASSUME NEW st \in SlotStatus, NEW n \in Nat, IsTimeStampBetween(st, 0, TimestampMax),
           st.refs = n, n < RefCountMax
    PROVE  /\ ~IsInWriting(st) /\ ~IsInWriting(Increment(st))
           /\ st.ts > 0 /\ Increment(st).ts = st.ts /\ Increment(st).refs = n + 1
           /\ Increment(st) \in SlotStatus
<1>1. ~IsInWriting(st) /\ st.ts > 0
  BY DEF IsTimeStampBetween
<1>2. Increment(st).ts = st.ts /\ Increment(st).refs = n + 1 /\ Increment(st) \in SlotStatus
  BY StatusArithmetic
<1>3. Increment(st).ts # 0
  BY <1>1, <1>2
<1> QED
  BY <1>1, <1>2, <1>3, StatusConstants

(* A reference taken back from a published event.                          *)
LEMMA WordReleased ==
    ASSUME NEW st \in SlotStatus, NEW n \in Nat, n > 0, st.ts > 0, st.refs = n
    PROVE  /\ ~IsInWriting(st) /\ ~IsInWriting(Decrement(st))
           /\ Decrement(st).ts = st.ts /\ Decrement(st).refs = n - 1
           /\ Decrement(st) \in SlotStatus
<1>1. Decrement(st).ts = st.ts /\ Decrement(st).refs = n - 1 /\ Decrement(st) \in SlotStatus
  BY StatusArithmetic
<1>2. Decrement(st).ts # 0 /\ st.ts # 0
  BY <1>1 DEF SlotStatus, Timestamps
<1> QED
  BY <1>1, <1>2, StatusConstants

(* The ASIL-B consumers.                                                   *)
LEMMA AcquireBWords ==
    ASSUME TypeOK, CompositeInvariant, NEW s \in Slots, AcquireB(s)
    PROVE  /\ ~IsInWriting(b[s]) /\ ~IsInWriting(b'[s])
           /\ b[s].ts > 0 /\ b'[s].ts = b[s].ts /\ b'[s].refs = readersB'[s]
           /\ readersB'[s] = readersB[s] + 1
           /\ \A r \in Slots \ {s} : b'[r] = b[r] /\ readersB'[r] = readersB[r]
<1>1. readersB[s] \in Nat /\ readersB[s] < RefCountMax /\ b[s] \in SlotStatus
  <2>1. readersB[s] <= Total(readersB) /\ Total(readersB) \in Nat
    BY ReadersBounded, TotalBounds
  <2>2. Total(readersB) < MaxReadersB /\ readersB[s] \in Nat /\ b[s] \in SlotStatus
    BY DEF AcquireB, TypeOK
  <2> QED
    BY <2>1, <2>2, CompositeAssumption, StatusAssumption
<1>2. b[s].refs = readersB[s]
  BY DEF AcquireB, IsTimeStampBetween, CompositeInvariant, ReferencesCounted
<1>3. b' = [b EXCEPT ![s] = Increment(b[s])] /\ readersB' = [readersB EXCEPT ![s] = readersB[s] + 1]
  BY DEF AcquireB
<1>4. b'[s] = Increment(b[s]) /\ readersB'[s] = readersB[s] + 1
      /\ \A r \in Slots \ {s} : b'[r] = b[r] /\ readersB'[r] = readersB[r]
  BY <1>3 DEF TypeOK
<1> QED
  BY <1>1, <1>2, <1>4, WordAcquired DEF AcquireB

(* The word an ASIL-B consumer gives back.                                 *)
LEMMA ReleaseBWords ==
    ASSUME TypeOK, CompositeInvariant, NEW s \in Slots, ReleaseB(s)
    PROVE  /\ ~IsInWriting(b[s]) /\ ~IsInWriting(b'[s])
           /\ b[s].ts > 0 /\ b'[s].ts = b[s].ts /\ b'[s].refs = readersB'[s]
           /\ readersB'[s] = readersB[s] - 1
           /\ \A r \in Slots \ {s} : b'[r] = b[r] /\ readersB'[r] = readersB[r]
<1>1. readersB[s] \in Nat /\ readersB[s] > 0 /\ b[s] \in SlotStatus
  BY DEF ReleaseB, TypeOK
<1>2. b[s].ts > 0 /\ b[s].refs = readersB[s]
  BY <1>1 DEF CompositeInvariant, ReferencesCounted, ReadArePublished
<1>3. b' = [b EXCEPT ![s] = Decrement(b[s])] /\ readersB' = [readersB EXCEPT ![s] = readersB[s] - 1]
  BY DEF ReleaseB
<1>4. b'[s] = Decrement(b[s]) /\ readersB'[s] = readersB[s] - 1
      /\ \A r \in Slots \ {s} : b'[r] = b[r] /\ readersB'[r] = readersB[r]
  BY <1>3 DEF TypeOK
<1> QED
  BY <1>1, <1>2, <1>4, WordReleased

(* The QM consumers.                                                       *)
LEMMA AcquireQmWords ==
    ASSUME TypeOK, CompositeInvariant, NEW s \in Slots, AcquireQm(s)
    PROVE  /\ ~IsInWriting(qm[s]) /\ ~IsInWriting(qm'[s])
           /\ qm[s].ts > 0 /\ qm'[s].ts = qm[s].ts /\ qm'[s].refs = readersQm'[s]
           /\ \A r \in Slots \ {s} : qm'[r] = qm[r] /\ readersQm'[r] = readersQm[r]
<1>1. readersQm[s] \in Nat /\ readersQm[s] < RefCountMax /\ qm[s] \in SlotStatus
  <2>1. readersQm[s] <= Total(readersQm) /\ Total(readersQm) \in Nat
    BY ReadersBounded, TotalBounds
  <2>2. Total(readersQm) < MaxReadersQm /\ readersQm[s] \in Nat /\ qm[s] \in SlotStatus
    BY DEF AcquireQm, TypeOK
  <2> QED
    BY <2>1, <2>2, CompositeAssumption, StatusAssumption
<1>2. qm[s].refs = readersQm[s]
  BY DEF AcquireQm, IsTimeStampBetween, CompositeInvariant, ReferencesCounted
<1>3. qm' = [qm EXCEPT ![s] = Increment(qm[s])] /\ readersQm' = [readersQm EXCEPT ![s] = readersQm[s] + 1]
  BY DEF AcquireQm
<1>4. qm'[s] = Increment(qm[s]) /\ readersQm'[s] = readersQm[s] + 1
      /\ \A r \in Slots \ {s} : qm'[r] = qm[r] /\ readersQm'[r] = readersQm[r]
  BY <1>3 DEF TypeOK
<1> QED
  BY <1>1, <1>2, <1>4, WordAcquired DEF AcquireQm

(* The word a QM consumer gives back.                                      *)
LEMMA ReleaseQmWords ==
    ASSUME TypeOK, CompositeInvariant, NEW s \in Slots, ReleaseQm(s)
    PROVE  /\ ~IsInWriting(qm[s]) /\ ~IsInWriting(qm'[s])
           /\ qm[s].ts > 0 /\ qm'[s].ts = qm[s].ts /\ qm'[s].refs = readersQm'[s]
           /\ \A r \in Slots \ {s} : qm'[r] = qm[r] /\ readersQm'[r] = readersQm[r]
<1>1. readersQm[s] \in Nat /\ readersQm[s] > 0 /\ qm[s] \in SlotStatus
  BY DEF ReleaseQm, TypeOK
<1>2. qm[s].ts > 0 /\ qm[s].refs = readersQm[s]
  BY <1>1 DEF CompositeInvariant, ReferencesCounted, ReadArePublished
<1>3. qm' = [qm EXCEPT ![s] = Decrement(qm[s])] /\ readersQm' = [readersQm EXCEPT ![s] = readersQm[s] - 1]
  BY DEF ReleaseQm
<1>4. qm'[s] = Decrement(qm[s]) /\ readersQm'[s] = readersQm[s] - 1
      /\ \A r \in Slots \ {s} : qm'[r] = qm[r] /\ readersQm'[r] = readersQm[r]
  BY <1>3 DEF TypeOK
<1> QED
  BY <1>1, <1>2, <1>4, WordReleased

(* A consumer's step keeps the invariant.                                  *)
LEMMA ConsumerStep ==
    ASSUME TypeOK, CompositeInvariant, NEW s \in Slots,
           AcquireB(s) \/ ReleaseB(s) \/ AcquireQm(s) \/ ReleaseQm(s)
    PROVE  CompositeInvariant'
<1>0. /\ \A r \in Slots : IF IsInWriting(b[r]) THEN readersB[r] = 0 ELSE b[r].refs = readersB[r]
      /\ \A r \in Slots : IF IsInWriting(qm[r]) THEN readersQm[r] = 0 ELSE qm[r].refs = readersQm[r]
      /\ \A r \in Slots : (readersB[r] > 0 => b[r].ts > 0) /\ (readersQm[r] > 0 => qm[r].ts > 0)
  BY DEF CompositeInvariant, ReferencesCounted, ReadArePublished
<1>1. CASE AcquireB(s) \/ ReleaseB(s)
  <2>1. UNCHANGED <<qm, readersQm, data, flags, ppc, scanVars, ownVars, leaked>>
    BY <1>1 DEF AcquireB, ReleaseB
  <2>2. /\ ~IsInWriting(b[s]) /\ ~IsInWriting(b'[s])
        /\ b[s].ts > 0 /\ b'[s].ts = b[s].ts /\ b'[s].refs = readersB'[s]
        /\ \A r \in Slots \ {s} : b'[r] = b[r] /\ readersB'[r] = readersB[r]
    BY <1>1, AcquireBWords, ReleaseBWords
  <2> QED
    BY <1>0, <2>1, <2>2, ReadersMove
<1>2. CASE AcquireQm(s) \/ ReleaseQm(s)
  <2>1. UNCHANGED <<b, readersB, data, flags, ppc, scanVars, ownVars, leaked>>
    BY <1>2 DEF AcquireQm, ReleaseQm
  <2>2. /\ ~IsInWriting(qm[s]) /\ ~IsInWriting(qm'[s])
        /\ qm[s].ts > 0 /\ qm'[s].ts = qm[s].ts /\ qm'[s].refs = readersQm'[s]
        /\ \A r \in Slots \ {s} : qm'[r] = qm[r] /\ readersQm'[r] = readersQm[r]
    BY <1>2, AcquireQmWords, ReleaseQmWords
  <2> QED
    BY <1>0, <2>1, <2>2, ReadersMove
<1> QED
  BY <1>1, <1>2

(* The invariant holds on fresh memory.                                    *)
LEMMA CompositeInit == Init => TypeOK /\ CompositeInvariant
<1> SUFFICES ASSUME Init PROVE TypeOK /\ CompositeInvariant
  OBVIOUS
<1>1. TypeOK
  <2>1. 0 \in Timestamps /\ 1 \in Timestamps \ {0} /\ 0 \in 0 .. MaxRestarts
    BY StatusAssumption, CompositeAssumption DEF Timestamps
  <2> QED
    BY <2>1, ResetTyped DEF Init, TypeOK, PubStates
<1>2. \A s \in Slots : ~IsInWriting(b[s]) /\ ~IsInWriting(qm[s]) /\ b[s].ts = 0 /\ qm[s].ts = 0
                       /\ b[s].refs = 0 /\ qm[s].refs = 0
  BY StatusConstants DEF Init
<1>3. ReferencesCounted /\ ReadArePublished /\ SamplesIntact
  BY <1>2 DEF Init, ReferencesCounted, ReadArePublished, SamplesIntact, AsilBSamplesIntact,
     QmSamplesIntact
<1>4. LockedUntilDone /\ SearchSound /\ SendingSound /\ DisconnectKnown
  BY DEF Init, LockedUntilDone, SearchSound, SendingSound, DisconnectKnown, Allocating
<1>5. LocksOwned /\ LeakedStayLocked
  BY <1>2 DEF Init, LocksOwned, LeakedStayLocked
<1> QED
  BY <1>1, <1>3, <1>4, <1>5 DEF CompositeInvariant

(* Every step keeps the type invariant and the invariant.                  *)
LEMMA CompositeStep ==
    ASSUME TypeOK, CompositeInvariant, [Next]_vars,
           ~ReofferWithSamples, ~ReofferAfterDisconnect
    PROVE  TypeOK' /\ CompositeInvariant'
<1>1. CASE UNCHANGED vars
  <2>1. UNCHANGED <<b, qm, data, readersB, readersQm, ignoreQm, qmDisconnect, qmOffered,
                    disconnected, ppc, tries, idx, cand, oldest, oldQm, oldB, allocated,
                    sending, currentTs, restarts, leaked>>
    BY <1>1 DEF vars, words, readVars, flags, scanVars, ownVars
  <2>2. TypeOK'
    BY <2>1 DEF TypeOK
  <2>3. CompositeInvariant'
    BY <2>1 DEF CompositeInvariant, ReferencesCounted, LockedUntilDone, SamplesIntact,
       AsilBSamplesIntact, QmSamplesIntact, ReadArePublished, SearchSound, Allocating,
       SendingSound, LocksOwned, LeakedStayLocked, DisconnectKnown
  <2> QED
    BY <2>2, <2>3
<1>2. CASE Next
  <2>1. TypeOK'
    BY <1>2, TypeStep DEF CompositeInvariant
  <2>2. CASE Allocate \/ PublisherStep \/ Crash \/ Restart \/ Reoffer
    <3>1. CASE CasQm \/ Crash \/ Restart \/ Reoffer
      BY <2>1, <3>1, CasQmStep, CrashStep, RestartStep, ReofferStep
    <3>2. CASE Allocate \/ LoadQm \/ LoadB \/ LockLoadQm \/ LockLoadB
      BY <2>1, <3>2, SearchStep
    <3>3. CASE \/ CasB \/ RestoreQm \/ FindOldestUnusedSlot \/ LockAlone \/ RetryAlone
               \/ SendQm \/ DiscardB \/ DiscardQm
       BY <2>1, <3>3, CasBStep, RestoreQmStep, FindOldestUnusedSlotStep, LockAloneStep,
          RetryAloneStep, SendQmStep, DiscardBStep, DiscardQmStep
    <3> QED
      BY <2>2, <3>1, <3>2, <3>3 DEF PublisherStep
  <2>3. ASSUME NEW p \in allocated, Send(p) \/ Drop(p) PROVE CompositeInvariant'
    BY <2>3, SendStep, DropStep
  <2>4. ASSUME NEW s \in Slots, AcquireB(s) \/ ReleaseB(s) \/ AcquireQm(s) \/ ReleaseQm(s)
        PROVE  CompositeInvariant'
    BY <2>4, ConsumerStep
  <2> QED
    BY <1>2, <2>1, <2>2, <2>3, <2>4 DEF Next
<1> QED
  BY <1>1, <1>2

(* The two control blocks keep their inductive invariant for any number of *)
(* slots, samples, readers and restarts, provided the user does not        *)
(* re-offer with samples in hand or after a disconnect.                    *)
THEOREM CompositeInvariantHolds ==
    ~ReofferWithSamples /\ ~ReofferAfterDisconnect /\ Spec => [](TypeOK /\ CompositeInvariant)
<1> SUFFICES ASSUME ~ReofferWithSamples, ~ReofferAfterDisconnect
             PROVE  Spec => [](TypeOK /\ CompositeInvariant)
  OBVIOUS
<1>1. TypeOK /\ CompositeInvariant /\ [Next]_vars => (TypeOK /\ CompositeInvariant)'
  BY CompositeStep
<1> QED
  BY <1>1, CompositeInit, PTL DEF Spec

(* Both blocks count their readers, and a slot is locked in them exactly   *)
(* as long as somebody owns it, through failed locks, roll-backs, the      *)
(* disconnect of the QM consumers, crashes and re-offers.  The exception   *)
(* is named: a slot that a failed allocation in ASIL-B alone left locked   *)
(* stays locked, and nobody's, until the next offer.                       *)
THEOREM BlocksInStep ==
    ~ReofferWithSamples /\ ~ReofferAfterDisconnect /\ Spec => []BlocksAgree
<1>1. TypeOK /\ CompositeInvariant => BlocksAgree
  BY DEF CompositeInvariant, BlocksAgree, NoStrayLock, LocksOwned, LeakedStayLocked
<1> QED
  BY <1>1, CompositeInvariantHolds, PTL

(* What a consumer references is what was sent, for ASIL-B always and for  *)
(* QM up to the disconnect.                                                *)
THEOREM SamplesStayIntact ==
    ~ReofferWithSamples /\ ~ReofferAfterDisconnect /\ Spec => []SamplesIntact
<1>1. CompositeInvariant => SamplesIntact
  BY DEF CompositeInvariant
<1> QED
  BY <1>1, CompositeInvariantHolds, PTL

-----------------------------------------------------------------------------
(* The refinement of EventSlots by the ASIL-B block, and the disconnect.   *)

(* What SlotState makes of the words.                                      *)
LEMMA WordStates ==
    /\ SlotState(IN_WRITING) = "writing" /\ SlotState(INVALID) = "free"
    /\ \A st : IsInWriting(st) <=> SlotState(st) = "writing"
    /\ \A st : st.ts # 0 => SlotState(st) = "ready"
    /\ \A st : IsInWriting(st) => st.ts = 0
BY StatusConstants DEF SlotState, IsInWriting, IsInvalid, INVALID, IN_WRITING

(* A step that leaves the ASIL-B block alone is a stutter of EventSlots.   *)
LEMMA AsilBStutter ==
    ASSUME UNCHANGED <<b, data, readersB>>
    PROVE  UNCHANGED AsilB!vars
BY DEF AsilB!vars

(* Taking an unused slot locks it, whatever becomes of the old sample.     *)
LEMMA AsilBLock ==
    ASSUME TypeOK, NEW s \in Slots, ~IsInWriting(b[s]), readersB[s] = 0,
           b' = [b EXCEPT ![s] = IN_WRITING],
           \A r \in Slots : r # s => data'[r] = data[r],
           UNCHANGED readersB
    PROVE  AsilB!Next
<1>1. \A r \in Slots : b'[r] = IF r = s THEN IN_WRITING ELSE b[r]
  BY DEF TypeOK
<1>2. /\ \A r \in Slots : SlotState(b'[r]) = IF r = s THEN "writing" ELSE SlotState(b[r])
      /\ \A r \in Slots : (IF b'[r].ts # 0 THEN data'[r] ELSE 0) =
                           IF r = s THEN 0 ELSE IF b[r].ts # 0 THEN data[r] ELSE 0
  BY <1>1, WordStates, StatusConstants
<1>3. SlotState(b[s]) # "writing"
  BY WordStates
<1>4. AsilB!Lock(s)
  BY <1>2, <1>3 DEF AsilB!Lock
<1> QED
  BY <1>4 DEF AsilB!Next

(* Giving back words in writing abandons their slots.                      *)
LEMMA AsilBAbandon ==
    ASSUME NEW S \in SUBSET Slots, \A s \in S : IsInWriting(b[s]),
           \A s \in Slots : b'[s] = IF s \in S THEN INVALID ELSE b[s],
           UNCHANGED <<data, readersB>>
    PROVE  AsilB!Next
<1>1. \A s \in S : SlotState(b[s]) = "writing" /\ b[s].ts = 0
  BY WordStates
<1>2. AsilB!Abandon(S)
  BY <1>1, WordStates, StatusConstants DEF AsilB!Abandon
<1> QED
  BY <1>2 DEF AsilB!Next

(* Every step of the two blocks is a step of EventSlots or a stutter.      *)
LEMMA AsilBStep ==
    ASSUME TypeOK, CompositeInvariant, [Next]_vars
    PROVE  [AsilB!Next]_(AsilB!vars)
<1>a. b \in [Slots -> SlotStatus] /\ data \in [Slots -> Timestamps]
      /\ readersB \in [Slots -> Nat]
  BY DEF TypeOK
<1>1. CASE \/ UNCHANGED vars \/ Allocate \/ LoadQm \/ LoadB \/ LockLoadQm \/ LockLoadB
           \/ CasQm \/ RestoreQm \/ FindOldestUnusedSlot \/ RetryAlone
           \/ SendQm \/ DiscardQm \/ Crash
           \/ \E p \in allocated : Drop(p)
           \/ \E s \in Slots : AcquireQm(s) \/ ReleaseQm(s)
  <2>1. UNCHANGED <<b, data, readersB>>
     BY <1>1 DEF vars, words, readVars, Allocate, LoadQm, LoadB, LockLoadQm, LockLoadB,
       CasQm,
       RestoreQm, FindOldestUnusedSlot, RetryAlone, SendQm, DiscardQm, Crash, Drop,
       AcquireQm, ReleaseQm
  <2> QED
    BY <2>1, AsilBStutter
<1>2. CASE CasB
  <2>1. CASE b[cand] # oldB
    BY <1>2, <2>1, AsilBStutter DEF CasB, readVars
  <2>2. CASE b[cand] = oldB
    <3>1. PICK s \in Slots : s = cand
      BY <1>2 DEF CasB, CompositeInvariant, SearchSound
    <3>2. ~IsInWriting(b[s]) /\ readersB[s] = 0
      BY <1>2, <2>2, <3>1, StatusConstants
         DEF CasB, CompositeInvariant, SearchSound, ReferencesCounted
    <3>3. /\ b' = [b EXCEPT ![s] = IN_WRITING]
          /\ \A r \in Slots : r # s => data'[r] = data[r]
          /\ UNCHANGED readersB
      BY <1>2, <1>a, <2>2, <3>1 DEF CasB, readVars
    <3> QED
      BY <3>2, <3>3, AsilBLock
  <2> QED
    BY <2>1, <2>2
<1>3. CASE LockAlone
  <2>1. PICK s \in Slots : s = cand /\ ~IsUsed(b[s])
    BY <1>3 DEF LockAlone, TypeOK
  <2>2. ~IsInWriting(b[s]) /\ readersB[s] = 0
    BY <2>1, StatusConstants DEF CompositeInvariant, ReferencesCounted
  <2>3. /\ b' = [b EXCEPT ![s] = IN_WRITING] /\ UNCHANGED readersB
        /\ \A r \in Slots : r # s => data'[r] = data[r]
    BY <1>3, <2>1, <1>a DEF LockAlone, readVars
  <2> QED
    BY <2>2, <2>3, AsilBLock
<1>4. ASSUME NEW p \in allocated, Send(p) PROVE AsilB!Next
  <2>1. /\ p.slot \in Slots /\ p # sending /\ currentTs + 1 \in Timestamps
        /\ currentTs + 1 # 0
    BY <1>4, StatusAssumption DEF TypeOK, Send, CompositeInvariant, SendingSound, Allocatee,
       NoAllocatee, NoSlot, Slots, Timestamps
  <2>2. PICK s \in Slots : s = p.slot
    BY <2>1
  <2>3. PICK t \in Timestamps : t = currentTs + 1 /\ t # 0
    BY <2>1
  <2>4. IsInWriting(b[s])
    BY <2>1, <2>2 DEF CompositeInvariant, LockedUntilDone
  <2> DEFINE st == [ts |-> t, refs |-> 0]
  <2>5. st.ts # 0 /\ SlotState(st) = "ready"
    BY <2>3, WordStates
  <2>6. /\ \A r \in Slots : b'[r] = IF r = s THEN st ELSE b[r]
        /\ \A r \in Slots : data'[r] = IF r = s THEN t ELSE data[r]
        /\ UNCHANGED readersB
    BY <1>4, <1>a, <2>2, <2>3 DEF Send, readVars
  <2> HIDE DEF st
  <2>7. AsilB!Publish(s, t)
    BY <2>4, <2>5, <2>6, WordStates DEF AsilB!Publish
  <2> QED
    BY <2>7 DEF AsilB!Next
<1>5. CASE DiscardB
  <2>1. PICK s \in Slots : s = sending.slot
    BY <1>5 DEF DiscardB, CompositeInvariant, SendingSound, TypeOK, Allocatee
  <2>2. b' = [b EXCEPT ![s] = Discarded(b[s])] /\ UNCHANGED <<data, readersB>>
    BY <1>5, <2>1 DEF DiscardB, readVars
  <2>3. CASE IsInWriting(b[s])
    <3> DEFINE S == {s}
    <3>1. /\ S \in SUBSET Slots /\ \A r \in S : IsInWriting(b[r])
          /\ \A r \in Slots : b'[r] = IF r \in S THEN INVALID ELSE b[r]
      BY <1>a, <2>2, <2>3 DEF Discarded
    <3> QED
      BY <2>2, <3>1, AsilBAbandon
  <2>4. CASE ~IsInWriting(b[s])
    <3>1. UNCHANGED b
      BY <1>a, <2>2, <2>4 DEF Discarded
    <3> QED
      BY <2>2, <3>1, AsilBStutter
  <2> QED
    BY <2>3, <2>4
<1>6. CASE Restart \/ Reoffer
  <2> DEFINE S == {s \in Slots : IsInWriting(b[s])}
  <2>1. /\ \A s \in Slots : b'[s] = IF s \in S THEN INVALID ELSE b[s]
        /\ UNCHANGED <<data, readersB>>
     BY <1>6 DEF Restart, Reoffer, OpenExisting, RemoveAllocationsForWriting, Discarded,
       readVars
  <2> QED
    BY <2>1, AsilBAbandon
<1>7. ASSUME NEW s \in Slots, AcquireB(s) PROVE AsilB!Next
  <2>1. /\ b[s].ts > 0 /\ b'[s].ts = b[s].ts
        /\ \A r \in Slots \ {s} : b'[r] = b[r]
    BY <1>7, AcquireBWords
  <2>2. b[s].ts # 0 /\ b'[s].ts # 0
    BY <2>1
  <2>3. UNCHANGED data /\ readersB' = [readersB EXCEPT ![s] = @ + 1]
    BY <1>7 DEF AcquireB
  <2>4. /\ SlotState(b[s]) = "ready"
        /\ \A r \in Slots : SlotState(b'[r]) = SlotState(b[r]) /\ b'[r].ts = b[r].ts
    BY <2>1, <2>2, WordStates
  <2>5. AsilB!Acquire(s)
    BY <2>3, <2>4 DEF AsilB!Acquire
  <2> QED
    BY <2>5 DEF AsilB!Next
<1>8. ASSUME NEW s \in Slots, ReleaseB(s) PROVE AsilB!Next
  <2>1. /\ b[s].ts > 0 /\ b'[s].ts = b[s].ts
        /\ \A r \in Slots \ {s} : b'[r] = b[r]
    BY <1>8, ReleaseBWords
  <2>2. b[s].ts # 0 /\ b'[s].ts # 0
    BY <2>1
  <2>3. UNCHANGED data /\ readersB[s] > 0 /\ readersB' = [readersB EXCEPT ![s] = @ - 1]
    BY <1>8 DEF ReleaseB
  <2>4. \A r \in Slots : SlotState(b'[r]) = SlotState(b[r]) /\ b'[r].ts = b[r].ts
    BY <2>1, <2>2, WordStates
  <2>5. AsilB!Release(s)
    BY <2>3, <2>4 DEF AsilB!Release
  <2> QED
    BY <2>5 DEF AsilB!Next
<1> QED
  BY <1>1, <1>2, <1>3, <1>4, <1>5, <1>6, <1>7, <1>8 DEF Next, PublisherStep

(* The ASIL-B block of an event with two blocks keeps the promise of       *)
(* EventSlots whatever the QM consumers do to the other one.               *)
THEOREM AsilBPromiseKept ==
    ~ReofferWithSamples /\ ~ReofferAfterDisconnect /\ Spec => AsilBKeepsItsPromise
<1> SUFFICES ASSUME ~ReofferWithSamples, ~ReofferAfterDisconnect
             PROVE  Spec => AsilBKeepsItsPromise
  OBVIOUS
<1>1. ASSUME Init PROVE AsilB!Init
  <2>1. \A s \in Slots : SlotState(b[s]) = "free" /\ b[s].ts = 0
    BY <1>1, WordStates, StatusConstants DEF Init
  <2>2. readersB = [s \in Slots |-> 0]
    BY <1>1 DEF Init
  <2> QED
    BY <2>1, <2>2 DEF AsilB!Init
<1>2. TypeOK /\ CompositeInvariant /\ [Next]_vars => [AsilB!Next]_(AsilB!vars)
  BY AsilBStep
<1> QED
  BY <1>1, <1>2, CompositeInvariantHolds, PTL DEF Spec, AsilBKeepsItsPromise, AsilB!Spec

(* Fresh memory has no readers.                                            *)
LEMMA BudgetInit == Init => WithinBudget
<1> SUFFICES ASSUME Init PROVE WithinBudget
  OBVIOUS
<1>1. {x \in Slots \X (1 .. RefCountMax) : x[2] <= readersB[x[1]]} = {}
  BY StatusAssumption DEF Init
<1>2. Total(readersB) = 0
  BY <1>1, FS_EmptySet DEF Total
<1> QED
  BY <1>2, CompositeAssumption DEF Init, WithinBudget, Allocating

(* The consumers stay within their samples, an allocation within the       *)
(* user's bound.                                                           *)
LEMMA BudgetStep ==
    ASSUME TypeOK, CompositeInvariant, WithinBudget, [Next]_vars
    PROVE  WithinBudget'
<1>1. Total(readersB)' <= MaxReadersB
  <2>1. CASE UNCHANGED readersB
    BY <2>1 DEF WithinBudget, Total
  <2>2. ASSUME NEW s \in Slots, AcquireB(s) PROVE Total(readersB)' <= MaxReadersB
    <3>1. readersB[s] <= Total(readersB) /\ Total(readersB) \in Nat
      BY ReadersBounded, TotalBounds
    <3>2. Total(readersB) < MaxReadersB /\ readersB[s] \in Nat
          /\ readersB' = [readersB EXCEPT ![s] = @ + 1]
      BY <2>2 DEF AcquireB, TypeOK
    <3>3. readersB[s] < RefCountMax
      BY <3>1, <3>2, CompositeAssumption, StatusAssumption
    <3>4. Total([readersB EXCEPT ![s] = @ + 1]) = Total(readersB) + 1
      BY <3>3, ReadersBounded, TotalBounds
    <3>5. Total(readersB)' = Total(readersB) + 1
      BY <3>2, <3>4 DEF Total
    <3> QED
      BY <3>1, <3>2, <3>5, CompositeAssumption
  <2>3. ASSUME NEW s \in Slots, ReleaseB(s) PROVE Total(readersB)' <= MaxReadersB
    <3>1. Total(readersB) \in Nat /\ Total(readersB) <= MaxReadersB
      BY ReadersBounded, TotalBounds DEF WithinBudget
    <3>2. readersB[s] > 0 /\ readersB' = [readersB EXCEPT ![s] = @ - 1]
      BY <2>3 DEF ReleaseB
    <3>3. Total([readersB EXCEPT ![s] = @ - 1]) = Total(readersB) - 1
      BY <3>2, ReadersBounded, TotalBounds
    <3>4. Total(readersB)' = Total(readersB) - 1
      BY <3>2, <3>3 DEF Total
    <3> QED
      BY <3>1, <3>4, CompositeAssumption
  <2>4. \/ UNCHANGED readersB
        \/ \E s \in Slots : AcquireB(s) \/ ReleaseB(s)
     BY DEF Next, PublisherStep, vars, readVars, Allocate, LoadQm, LoadB, LockLoadQm,
       LockLoadB,
       CasQm, CasB, RestoreQm, FindOldestUnusedSlot, LockAlone, RetryAlone, SendQm,
       DiscardB, DiscardQm, Send, Drop, Crash,
       Restart, Reoffer, OpenExisting, AcquireQm, ReleaseQm
  <2> QED
    BY <2>1, <2>2, <2>3, <2>4
<1>2. (Allocating \/ ppc \in {"fallback", "lockAlone"} => Cardinality(allocated) < MaxAllocations)'
  <2>1. CASE \/ UNCHANGED vars \/ Allocate \/ LoadQm \/ LoadB \/ LockLoadQm \/ LockLoadB
             \/ CasQm \/ RestoreQm \/ FindOldestUnusedSlot \/ RetryAlone
     BY <2>1 DEF WithinBudget, Allocating, vars, FindOldestUnusedSlot, RetryAlone, ownVars, Allocate, LoadQm, LoadB,
       LockLoadQm,
       LockLoadB, CasQm, RestoreQm, NextTry
  <2>2. CASE CasB
    BY <2>2 DEF WithinBudget, Allocating, CasB
  <2>3. CASE \/ LockAlone \/ SendQm \/ DiscardB \/ DiscardQm \/ Crash \/ Restart \/ Reoffer
             \/ \E p \in allocated : Send(p) \/ Drop(p)
     BY <2>3 DEF Allocating, LockAlone, SendQm, DiscardB, DiscardQm, Crash, Restart,
       Reoffer,
       Send, Drop
  <2>4. CASE \E s \in Slots : AcquireB(s) \/ ReleaseB(s) \/ AcquireQm(s) \/ ReleaseQm(s)
    BY <2>4 DEF WithinBudget, Allocating, ownVars, AcquireB, ReleaseB, AcquireQm, ReleaseQm
  <2> QED
    BY <2>1, <2>2, <2>3, <2>4 DEF Next, PublisherStep
<1> QED
  BY <1>1, <1>2 DEF WithinBudget

(* The slots are finitely many.                                            *)
LEMMA SlotsFinite ==
    /\ IsFiniteSet(Slots) /\ Cardinality(Slots) = NumSlots
    /\ \A S \in SUBSET Slots : IsFiniteSet(S) /\ Cardinality(S) \in Nat
<1>1. 0 \in Int /\ NumSlots - 1 \in Int /\ ~(0 > NumSlots - 1) /\ (NumSlots - 1) - 0 + 1 = NumSlots
  BY CompositeAssumption
<1>2. IsFiniteSet(Slots) /\ Cardinality(Slots) = NumSlots
  BY <1>1, FS_Interval DEF Slots
<1> QED
  BY <1>2, FS_Subset, FS_CardinalityType

(* If all slots were used, each would be read or owned, and there are more *)
(* slots than samples and other allocations together.                      *)
LEMMA FallbackHasSlot ==
    ASSUME TypeOK, CompositeInvariant, WithinBudget, SlotsSuffice,
           ppc \in {"fallback", "lockAlone"}, leaked = {}
    PROVE  \E s \in Slots : ~IsUsed(b[s])
<1> SUFFICES ASSUME \A s \in Slots : IsUsed(b[s]) PROVE FALSE
  OBVIOUS
<1> DEFINE R == {s \in Slots : readersB[s] > 0}
           A == {p.slot : p \in allocated}
           h == [a \in A |-> CHOOSE p \in allocated : p.slot = a]
<1>1. A \in SUBSET Slots /\ R \in SUBSET Slots
  BY DEF TypeOK, Allocatee
<1>2. Slots \in SUBSET (R \union A)
  <2> SUFFICES ASSUME NEW s \in Slots, s \notin A PROVE s \in R
    OBVIOUS
  <2>1. ~IsInWriting(b[s])
    BY DEF CompositeInvariant, LocksOwned
  <2>2. b[s].refs # 0 /\ b[s].refs = readersB[s]
    BY <2>1 DEF IsUsed, CompositeInvariant, ReferencesCounted
  <2>3. readersB[s] \in Nat
    BY DEF TypeOK
  <2> QED
    BY <2>2, <2>3
<1>3. Cardinality(R) <= MaxReadersB
  <2>1. Cardinality(R) <= Total(readersB) /\ Total(readersB) \in Nat
    BY ReadersBounded, TotalBounds
  <2>2. Cardinality(R) \in Nat /\ Total(readersB) <= MaxReadersB
    BY <1>1, SlotsFinite DEF WithinBudget
  <2> QED
    BY <2>1, <2>2, CompositeAssumption
<1>4. IsFiniteSet(allocated) /\ Cardinality(allocated) \in Nat
  <2> DEFINE g == [x \in Slots \X BOOLEAN |-> [slot |-> x[1], ignoreQm |-> x[2]]]
  <2>1. g \in [Slots \X BOOLEAN -> Allocatee]
    BY DEF Allocatee
  <2>2. \A p \in Allocatee : \E x \in Slots \X BOOLEAN : g[x] = p
    <3> TAKE p \in Allocatee
    <3>1. <<p.slot, p.ignoreQm>> \in Slots \X BOOLEAN
      BY DEF Allocatee
    <3>2. g[<<p.slot, p.ignoreQm>>] = p
      BY <3>1 DEF Allocatee
    <3> QED
      BY <3>1, <3>2
  <2> HIDE DEF g
  <2>3. g \in Surjection(Slots \X BOOLEAN, Allocatee)
    BY <2>1, <2>2, Fun_IsSurj
  <2>4. BOOLEAN = {TRUE} \union {FALSE}
    OBVIOUS
  <2>5. IsFiniteSet({TRUE}) /\ IsFiniteSet({FALSE})
    BY FS_Singleton
  <2>6. IsFiniteSet(BOOLEAN)
    BY <2>4, <2>5, FS_Union
  <2>7. IsFiniteSet(Slots \X BOOLEAN)
    BY <2>6, SlotsFinite, FS_Product
  <2>8. IsFiniteSet(Allocatee)
    BY <2>3, <2>7, FS_Surjection
  <2> QED
    BY <2>8, FS_Subset, FS_CardinalityType DEF TypeOK
<1>5. \A a \in A : h[a] \in allocated /\ h[a].slot = a
  <2> TAKE a \in A
  <2>1. \E p \in allocated : p.slot = a
    OBVIOUS
  <2> QED
    BY <2>1
<1> HIDE DEF h, A, R
<1>6. h \in [A -> allocated] /\ \A x, y \in A : h[x] = h[y] => x = y
  BY <1>5 DEF h
<1>7. Cardinality(A) <= Cardinality(allocated)
  BY <1>4, <1>6, Fun_IsInj, FS_Injection
<1>8. /\ IsFiniteSet(A) /\ IsFiniteSet(R) /\ Cardinality(A) \in Nat /\ Cardinality(R) \in Nat
      /\ Cardinality(R \intersect A) \in Nat
  BY <1>1, SlotsFinite
<1>9. /\ IsFiniteSet(R \union A)
      /\ Cardinality(R \union A) = Cardinality(R) + Cardinality(A) - Cardinality(R \intersect A)
  BY <1>8, FS_Union
<1>10. NumSlots <= Cardinality(R \union A)
  BY <1>2, <1>9, SlotsFinite, FS_Subset
<1>11. Cardinality(allocated) < MaxAllocations
  BY DEF WithinBudget
<1>12. MaxReadersB + MaxAllocations <= NumSlots
  BY DEF SlotsSuffice
<1> QED
  BY <1>3, <1>4, <1>7, <1>8, <1>9, <1>10, <1>11, <1>12, CompositeAssumption

(* The three stores to sample memory: with both words locked nobody reads  *)
(* in QM, and the other two follow the end of the QM offer.                *)
LEMMA RewrittenWhenStopped ==
    ASSUME TypeOK, CompositeInvariant, [Next]_vars
    PROVE  QmRewrittenOnlyWhenStopped
<1> SUFFICES ASSUME NEW s \in Slots, readersQm[s] > 0, data'[s] # data[s]
             PROVE  ~qmOffered'
  BY DEF QmRewrittenOnlyWhenStopped
<1>0. ~IsInWriting(qm[s]) /\ data \in [Slots -> Timestamps]
  BY DEF CompositeInvariant, ReferencesCounted, TypeOK
<1>1. CASE CasB
  <2>1. IsInWriting(qm[cand]) /\ cand \in Slots
    BY <1>1 DEF CasB, CompositeInvariant, SearchSound
  <2>2. data' = data \/ data' = [data EXCEPT ![cand] = 0]
    BY <1>1 DEF CasB
  <2> QED
    BY <1>0, <2>1, <2>2
<1>2. CASE LockAlone
  BY <1>2 DEF LockAlone, DisconnectQmConsumers, CompositeInvariant, DisconnectKnown
<1>3. ASSUME NEW p \in allocated, Send(p) PROVE ~qmOffered'
  <2>1. p.slot \in Slots /\ p # sending
     BY <1>3 DEF TypeOK, Send, CompositeInvariant, SendingSound, Allocatee, NoAllocatee,
       NoSlot,
       Slots
  <2>2. p.slot = s
    BY <1>0, <1>3, <2>1 DEF Send
  <2>3. p.ignoreQm
    BY <1>0, <2>1, <2>2 DEF CompositeInvariant, LockedUntilDone
  <2>4. ~qmOffered
    BY <2>3 DEF CompositeInvariant, DisconnectKnown
  <2> QED
    BY <1>3, <2>4 DEF Send, flags
<1>4. ASSUME UNCHANGED data PROVE FALSE
  BY <1>4
<1>5. \/ CasB \/ LockAlone \/ (\E p \in allocated : Send(p)) \/ UNCHANGED data
  BY DEF Next, PublisherStep, vars, Allocate, LoadQm, LoadB, LockLoadQm, LockLoadB,
     CasQm, RestoreQm, FindOldestUnusedSlot, RetryAlone, SendQm, DiscardB, DiscardQm,
     Drop, Crash,
     Restart, Reoffer, OpenExisting, AcquireB, ReleaseB, AcquireQm, ReleaseQm
<1> QED
  BY <1>1, <1>2, <1>3, <1>4, <1>5

(* With a slot per ASIL-B sample and allocation the fallback always has an *)
(* unused slot to find, however many samples QM consumers keep, until it   *)
(* has itself left one locked; and a QM consumer's sample is rewritten     *)
(* only after the QM offer was stopped.                                    *)
THEOREM DisconnectionWorks ==
    /\ ~ReofferWithSamples /\ ~ReofferAfterDisconnect /\ SlotsSuffice
    /\ Spec
    => DisconnectionServesAsilB
<1> SUFFICES ASSUME ~ReofferWithSamples, ~ReofferAfterDisconnect, SlotsSuffice
             PROVE  Spec => DisconnectionServesAsilB
  OBVIOUS
<1>1. TypeOK /\ CompositeInvariant /\ WithinBudget /\ [Next]_vars => WithinBudget'
  BY BudgetStep
<1>2. TypeOK /\ CompositeInvariant /\ WithinBudget => AsilBNeverStarved
  BY FallbackHasSlot DEF AsilBNeverStarved
<1>3. TypeOK /\ CompositeInvariant /\ [Next]_vars => QmRewrittenOnlyWhenStopped
  BY RewrittenWhenStopped
<1>4. Spec => [](TypeOK /\ CompositeInvariant /\ WithinBudget)
  BY <1>1, BudgetInit, CompositeInvariantHolds, PTL DEF Spec
<1>5. Spec => []AsilBNeverStarved
  BY <1>2, <1>4, PTL
<1> QED
  BY <1>3, <1>4, <1>5, PTL DEF Spec, DisconnectionServesAsilB
=============================================================================
