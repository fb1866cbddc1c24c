------------------- MODULE TracingAndConfigurationProofs -------------------
(***************************************************************************)
(* Theorems about the zero-copy tracing of events, for any number of       *)
(* events, slots, offers and crashes, and about the configuration of a     *)
(* process, for any documents, trace filters and identifiers of others.    *)
(*                                                                         *)
(* TracingInvariant says, for each event, who owns the entry of its log    *)
(* while sender and trace-done callback change it, and how many failures   *)
(* are still to be counted.  HandleKnown adds that the handle which the    *)
(* runtime knows is the one of the memory in use.                          *)
(*                                                                         *)
(* BindingsInvariant follows a configuration: what the parser has found,   *)
(* what the cross checks make of it, what an identifier adds, and what     *)
(* filter, runtime and elements take from it.                              *)
(***************************************************************************)
EXTENDS Tracing, Bindings, FiniteSetTheorems, NaturalsInduction, WellFoundedInduction, TLAPS

(* What the constants are, as the arithmetic of the proofs needs it.       *)
LEMMA Numbers ==
    /\ Cardinality(Events) \in Nat /\ SlotCount \in Nat /\ MaxFailures \in Nat
    /\ MaxFailures > 0 /\ MaxOffers \in Nat /\ Slots \subseteq Nat /\ None = 0 /\ 0 \notin Slots
    /\ Slots = 1 .. SlotCount
    /\ Configured \in [Events -> SUBSET SendPoints]
BY ConstantsAssumption, FS_CardinalityType DEF Slots, None, SendPoints

(* Events that fail are fewer than all events; one less is one less.       *)
LEMMA FewerFailing ==
    ASSUME NEW F \in SUBSET Events, NEW G \in SUBSET F
    PROVE  /\ Cardinality(F) \in Nat /\ Cardinality(G) \in Nat
           /\ Cardinality(G) <= Cardinality(F) /\ Cardinality(F) <= Cardinality(Events)
           /\ G # F => Cardinality(G) + 1 <= Cardinality(F)
<1>1. IsFiniteSet(F) /\ IsFiniteSet(G)
  BY ConstantsAssumption, FS_Subset
<1>2. Cardinality(F) \in Nat /\ Cardinality(G) \in Nat /\ Cardinality(Events) \in Nat
  BY <1>1, FS_CardinalityType, ConstantsAssumption
<1>3. Cardinality(G) <= Cardinality(F) /\ (Cardinality(G) = Cardinality(F) => G = F)
  BY <1>1, FS_Subset
<1>4. Cardinality(F) <= Cardinality(Events)
  BY ConstantsAssumption, FS_Subset
<1> QED
  BY <1>2, <1>3, <1>4

(* The type of the senders.                                                *)
Senders == [Events -> [stage : Stages, slot : Slots \cup {None}, point : SendPoints,
                       result : Outcomes]]

(* A sender goes to another stage.                                         *)
LEMMA SenderGoes ==
    ASSUME sender \in Senders, NEW e \in Events, NEW stage \in Stages,
           sender' = [sender EXCEPT ![e].stage = stage]
    PROVE  /\ sender' \in Senders /\ sender'[e].stage = stage /\ sender'[e].slot = Own(e)
           /\ sender'[e].point = sender[e].point /\ sender'[e].result = sender[e].result
           /\ \A f \in Events \ {e} : sender'[f] = sender[f]
<1> DEFINE R == [stage : Stages, slot : Slots \cup {None}, point : SendPoints, result :
   Outcomes]
<1>1. sender \in [Events -> R] /\ sender[e] \in R
  BY DEF Senders
<1>2. [sender[e] EXCEPT !.stage = stage] \in R
  BY <1>1
<1>3. sender' = [f \in Events |-> IF f = e THEN [sender[e] EXCEPT !.stage = stage] ELSE sender[f]]
  BY <1>1
<1>4. sender' \in [Events -> R]
  BY <1>1, <1>2, <1>3
<1> QED
  BY <1>1, <1>3, <1>4 DEF Senders, Own

(* A sender goes to another stage with the result of its tracing call.     *)
LEMMA SenderReturns ==
    ASSUME sender \in Senders, NEW e \in Events, NEW stage \in Stages, NEW result \in Outcomes,
           sender' = [sender EXCEPT ![e].stage = stage, ![e].result = result]
    PROVE  /\ sender' \in Senders /\ sender'[e].stage = stage /\ sender'[e].slot = Own(e)
           /\ sender'[e].point = sender[e].point /\ sender'[e].result = result
           /\ \A f \in Events \ {e} : sender'[f] = sender[f]
<1> DEFINE R == [stage : Stages, slot : Slots \cup {None}, point : SendPoints, result :
   Outcomes]
<1>1. sender \in [Events -> R] /\ sender[e] \in R
  BY DEF Senders
<1>2. [sender[e] EXCEPT !.stage = stage, !.result = result] \in R
  BY <1>1
<1>3. sender' = [f \in Events |-> IF f = e THEN [sender[e] EXCEPT !.stage = stage, !.result = result]
                                  ELSE sender[f]]
  BY <1>1
<1>4. sender' \in [Events -> R]
  BY <1>1, <1>2, <1>3
<1> QED
  BY <1>1, <1>3, <1>4 DEF Senders, Own

(* An entry of the log that is begun differs from one that is complete.    *)
LEMMA FlagsDiffer ==
    /\ {"begin"} # {"begin", "end"} /\ {"begin"} # {} /\ {"end"} # {"begin", "end"}
    /\ {"end"} # {} /\ {"begin", "end"} # {}
OBVIOUS

(* SetLog changes one entry, to what it says unless two threads contend    *)
(* for the entry.                                                          *)
LEMMA LogMoves ==
    ASSUME log \in [Events -> [Slots -> Flags]],
           NEW e \in Events, NEW s \in Slots, NEW flags \in Flags,
           SetLog(e, s, flags)
    PROVE  /\ log' \in [Events -> [Slots -> Flags]]
           /\ e \notin shared => log'[e][s] = flags
           /\ \A f \in Events \ {e} : log'[f] = log[f]
           /\ \A u \in Slots \ {s} : log'[e][u] = log[e][u]
<1>1. PICK f \in Flags : /\ log' = [log EXCEPT ![e][s] = f]
                         /\ e \notin shared => f = flags
  BY DEF SetLog, Contended
<1> QED
  BY <1>1

(* A reference is taken or given back for one slot.                        *)
LEMMA RefsMove ==
    ASSUME refs \in [Events -> [Slots -> Int]], NEW e \in Events, NEW s \in Slots, NEW n \in Int,
           refs' = [refs EXCEPT ![e][s] = n]
    PROVE  /\ refs' \in [Events -> [Slots -> Int]]
           /\ refs'[e][s] = n
           /\ \A f \in Events \ {e} : refs'[f] = refs[f]
           /\ \A u \in Slots \ {s} : refs'[e][u] = refs[e][u]
OBVIOUS

(* What the invariant says of one event of whose log no two threads have   *)
(* used one entry at once.                                                 *)
Accounts(e) ==
    \A s \in Slots : /\ log[e][s] = {"begin", "end"} => refs[e][s] = 1
                     /\ log[e][s] = {} => refs[e][s] = 0
                     /\ refs[e][s] \in 0..1

Sound(e) == Accounts(e) /\ SenderOwnsEntry(e) /\ ParkedEntry(e) /\ EntriesCleared(e)

(* TracingInvariant, event by event.                                       *)
LEMMA InvariantByEvent ==
    TracingInvariant <=> /\ \A e \in Events : ThreadsTogether(e) /\ (e \notin shared => Sound(e))
                         /\ FailuresCounted /\ memory <= offers
BY DEF TracingInvariant, LogAccountsForReferences, Sound, Accounts

(* The failure counter stays within its type because each failure still    *)
(* under way leaves room for one more.                                     *)
LEMMA CounterBound ==
    ASSUME consecutive_failure_counter' \in Nat, FailuresCounted'
    PROVE  consecutive_failure_counter' \in 0 .. (MaxFailures + Cardinality(Events))
<1>1. Cardinality(Failing') \in Nat
  BY FewerFailing DEF Failing
<1>2. consecutive_failure_counter' + Cardinality(Failing') <= MaxFailures + Cardinality(Events)
  BY Zenon DEF FailuresCounted
<1> QED
  BY <1>1, <1>2, Numbers

(* A step of one event keeps the invariant when it keeps what the          *)
(* invariant says of that event and touches nothing of the others.         *)
LEMMA EventMoves ==
    ASSUME TypeOK, TracingInvariant, NEW e \in Events,
           sender' \in Senders, sample' \in [Events -> Slots \cup {None}],
           reading' \in [Events -> Slots \cup {None}],
           callback' \in [Events -> {"idle", "dereference", "dereferenced"}],
           refs' \in [Events -> [Slots -> Int]],
           log' \in [Events -> [Slots -> Flags]],
           enabled' \in [Events -> SUBSET SendPoints],
           \A f \in Events \ {e} :
               /\ sender'[f] = sender[f] /\ sample'[f] = sample[f] /\ reading'[f] = reading[f]
               /\ callback'[f] = callback[f] /\ refs'[f] = refs[f] /\ log'[f] = log[f]
               /\ enabled'[f] = enabled[f],
           state' = state \/ state' = "log in use", active' = active, stuck' = stuck,
           memory' = memory, offers' = offers, handle' = handle, cached' = cached, local' = local,
           typed' = typed, again' = again, shared' \in {shared, shared \cup {e}},
           disconnected' \in {disconnected, disconnected \cup {e}},
           is_tracing_enabled' \in BOOLEAN, data_loss_flag' \in BOOLEAN,
           consecutive_failure_counter' \in Nat,
           ThreadsTogether(e)', e \notin shared' => Sound(e)', FailuresCounted'
    PROVE  TypeOK' /\ TracingInvariant'
<1>1. ASSUME NEW f \in Events \ {e} PROVE ThreadsTogether(f)' /\ (f \notin shared' => Sound(f)')
  <2>0. f \in Events /\ ThreadsTogether(f) /\ (f \notin shared => Sound(f))
    BY <1>1, InvariantByEvent
  <2>1. /\ sender'[f] = sender[f] /\ sample'[f] = sample[f] /\ reading'[f] = reading[f]
        /\ callback'[f] = callback[f] /\ refs'[f] = refs[f] /\ log'[f] = log[f]
        /\ enabled'[f] = enabled[f] /\ active' = active /\ stuck' = stuck
        /\ (f \notin shared' => f \notin shared) /\ (f \notin disconnected' => f \notin disconnected)
        /\ (state' = state \/ state' = "log in use")
    BY <1>1
  <2>2. ThreadsTogether(f)'
    <3>1. CASE state' = state
      BY <2>0, <2>1, <3>1 DEF ThreadsTogether, Own, At
    <3>2. CASE state' = "log in use"
      BY <2>0, <2>1, <3>2 DEF ThreadsTogether, Own, At
    <3> QED
      BY <2>1, <3>1, <3>2
  <2>3. ASSUME f \notin shared' PROVE Sound(f)'
    <3>1. Sound(f)
      BY <2>0, <2>1, <2>3
    <3>2. Accounts(f)'
      BY <2>1, <3>1, ZenonT(60) DEF Sound, Accounts
    <3>3. SenderOwnsEntry(f)'
      BY <2>1, <3>1 DEF Sound, SenderOwnsEntry, Entry, Own, At
    <3>4. ParkedEntry(f)'
      BY <2>1, <3>1 DEF Sound, ParkedEntry, Entry
    <3>5. EntriesCleared(f)'
      <4>1. CASE state' = state
        BY <2>1, <3>1, <4>1 DEF Sound, EntriesCleared, Entry, Own, At
      <4>2. CASE state' = "log in use"
        BY <2>1, <3>1, <4>2 DEF Sound, EntriesCleared, Entry, Own, At
      <4> QED
        BY <2>1, <4>1, <4>2
    <3> QED
      BY <3>2, <3>3, <3>4, <3>5 DEF Sound
  <2> QED
    BY <2>2, <2>3
<1>2. \A f \in Events : ThreadsTogether(f)' /\ (f \notin shared' => Sound(f)')
  BY <1>1
<1>3. FailuresCounted' /\ memory' <= offers'
  BY InvariantByEvent
<1>4. TracingInvariant'
  BY <1>2, <1>3 DEF TracingInvariant, LogAccountsForReferences, Sound, Accounts
<1>5. consecutive_failure_counter' \in 0 .. (MaxFailures + Cardinality(Events))
  BY CounterBound
<1>6. TypeOK'
  BY <1>5 DEF TypeOK, Senders
<1> QED
  BY <1>4, <1>6

(* A step of one event that adds no failing event keeps the count.         *)
LEMMA NoNewFailure ==
    ASSUME TypeOK, TracingInvariant, Failing' \subseteq Failing,
           is_tracing_enabled' = is_tracing_enabled,
           consecutive_failure_counter' = consecutive_failure_counter
    PROVE  FailuresCounted'
<1>1. Failing \subseteq Events
  BY DEF Failing
<1>2. Cardinality(Failing') <= Cardinality(Failing) /\ Cardinality(Failing) \in Nat
      /\ Cardinality(Failing') \in Nat
  BY <1>1, FewerFailing
<1>3. consecutive_failure_counter + Cardinality(Failing) <= MaxFailures + Cardinality(Events)
  BY Zenon DEF FailuresCounted, TracingInvariant
<1>4. consecutive_failure_counter \in Nat
  <2>1. consecutive_failure_counter \in 0 .. (MaxFailures + Cardinality(Events))
    BY Zenon DEF TypeOK
  <2> QED
    BY <2>1, Numbers
<1>5. consecutive_failure_counter' + Cardinality(Failing') <= MaxFailures + Cardinality(Events)
  BY <1>2, <1>3, <1>4, Numbers
<1> QED
  BY <1>5, Zenon DEF FailuresCounted, TracingInvariant

(* The failure counter is a number.                                        *)
LEMMA CounterIsNatural == TypeOK => consecutive_failure_counter \in Nat
<1>1. TypeOK => consecutive_failure_counter \in 0 .. (MaxFailures + Cardinality(Events))
  BY Zenon DEF TypeOK
<1> QED
  BY <1>1, Numbers

(* A call the tracing API refuses leaves one failing event more, which the *)
(* bound has room for.                                                     *)
LEMMA CallsCanFail ==
    ASSUME TypeOK, TracingInvariant, Failing' \subseteq Events, is_tracing_enabled,
           is_tracing_enabled' = is_tracing_enabled,
           consecutive_failure_counter' = consecutive_failure_counter
    PROVE  FailuresCounted'
<1>1. consecutive_failure_counter < MaxFailures
  BY Zenon DEF FailuresCounted, TracingInvariant
<1>2. Cardinality(Failing') \in Nat /\ Cardinality(Failing') <= Cardinality(Events)
  BY FewerFailing
<1>3. consecutive_failure_counter' + Cardinality(Failing') <= MaxFailures + Cardinality(Events)
  BY <1>1, <1>2, CounterIsNatural, Numbers
<1> QED
  BY <1>1, <1>3, Zenon DEF FailuresCounted

(* The types of the variables, by name.                                    *)
LEMMA Roles ==
    ASSUME TypeOK, TracingInvariant, Running, NEW e \in Events
    PROVE  /\ ThreadsTogether(e) /\ (e \notin shared => Sound(e)) /\ sender \in Senders
           /\ sender[e] \in [stage : Stages, slot : Slots \cup {None}, point : SendPoints,
                             result : Outcomes]
           /\ ~At(e, "idle") => state = "offered" /\ active[e] /\ Own(e) \in Slots
           /\ e \notin shared /\ sample[e] # None => state = "offered" /\ active[e]
           /\ sample[e] # None => sample[e] \in Slots
<1>1. ThreadsTogether(e) /\ (e \notin shared => Sound(e)) /\ sender \in Senders
  BY InvariantByEvent DEF TypeOK, Senders
<1>2. sender[e] \in [stage : Stages, slot : Slots \cup {None}, point : SendPoints,
                     result : Outcomes]
  BY <1>1 DEF Senders
<1>3. ~At(e, "idle") => state = "offered" /\ active[e] /\ Own(e) \in Slots
  BY <1>1, <1>2 DEF ThreadsTogether, Own, Running
<1>4. sample[e] # None => sample[e] \in Slots
  BY DEF TypeOK
<1>5. e \notin shared /\ sample[e] # None => state = "offered" /\ active[e]
  BY <1>1 DEF Sound, EntriesCleared, ThreadsTogether, Running
<1> QED
  BY <1>1, <1>2, <1>3, <1>4, <1>5

-----------------------------------------------------------------------------
(* What each step does to its event's log, reference and parked sample.    *)

(* The first log entry of a transaction is written before the reference is *)
(* taken: the log does not claim a reference yet.  If the entry was in use *)
(* the log counts as shared from now on.                                   *)
LEMMA BeginLogged ==
    ASSUME TypeOK, TracingInvariant, Running, NEW e \in Events,
           At(e, "begin"),
           shared' = IF log[e][Own(e)] = {} THEN shared ELSE shared \cup {e},
           SetLog(e, Own(e), log[e][Own(e)] \cup {"begin"}),
           Goto(e, "increment"),
           UNCHANGED <<refs, sample, reading, callback, state, enabled, memory, offers,
                       active, stuck, again, typed, disconnected, handle,
                       cached, local, is_tracing_enabled, consecutive_failure_counter,
                       data_loss_flag>>
    PROVE  TypeOK' /\ TracingInvariant'
<1>1. ThreadsTogether(e) /\ sender \in Senders /\ (e \notin shared => Sound(e))
  BY Roles
<1>2. Own(e) \in Slots /\ state = "offered" /\ active[e] /\ sender[e].stage = "begin"
      /\ (sample[e] # None => sample[e] \in Slots)
  BY Roles DEF At
<1>3. e \notin shared' =>
         /\ e \notin shared /\ log[e][Own(e)] = {}
         /\ sample[e] # Own(e) /\ refs[e][Own(e)] = 0
  <2>1. e \notin shared' => e \notin shared /\ log[e][Own(e)] = {}
    OBVIOUS
  <2>2. e \notin shared' => refs[e][Own(e)] = 0
    BY <1>1, <1>2, <2>1 DEF Sound, Accounts
  <2>3. e \notin shared' => sample[e] # Own(e)
    <3>1. callback[e] \in {"idle", "dereference", "dereferenced"} /\ Own(e) # None
      BY <1>2, Numbers DEF TypeOK
    <3>2. e \notin shared' => ParkedEntry(e) /\ log[e][Own(e)] = {}
      BY <1>1, <2>1 DEF Sound
    <3> QED
      BY <3>1, <3>2, FlagsDiffer DEF ParkedEntry, Entry
  <2> QED
    BY <2>1, <2>2, <2>3
<1>4. /\ sender' \in Senders /\ sender'[e].stage = "increment" /\ sender'[e].slot = Own(e)
      /\ sender'[e].point = sender[e].point /\ sender'[e].result = sender[e].result
      /\ \A f \in Events \ {e} : sender'[f] = sender[f]
  <2>1. sender' = [sender EXCEPT ![e].stage = "increment"]
    BY DEF Goto
  <2>2. "increment" \in Stages
    BY DEF Stages
  <2> QED
    BY <1>1, <2>1, <2>2, SenderGoes
<1>5. /\ log' \in [Events -> [Slots -> Flags]]
      /\ e \notin shared' => log'[e][Own(e)] = {"begin"}
      /\ \A f \in Events \ {e} : log'[f] = log[f]
      /\ \A u \in Slots \ {Own(e)} : log'[e][u] = log[e][u]
  <2>1. log \in [Events -> [Slots -> Flags]]
    BY DEF TypeOK
  <2>2. log[e][Own(e)] \cup {"begin"} \in Flags
    BY <1>2, <2>1 DEF Flags
  <2>3. e \notin shared' => log[e][Own(e)] \cup {"begin"} = {"begin"}
    BY <1>3
  <2> QED
    BY <1>2, <1>3, <2>1, <2>2, <2>3, LogMoves
<1>6. ASSUME e \notin shared' PROVE Sound(e)'
  <2>0. Sound(e)
    BY <1>1, <1>3, <1>6
  <2>1. Accounts(e) /\ SenderOwnsEntry(e) /\ ParkedEntry(e) /\ EntriesCleared(e)
    BY <2>0 DEF Sound
  <2>2. Accounts(e)'
    BY <1>3, <1>5, <1>6, <2>1, FlagsDiffer DEF Accounts
  <2>3. SenderOwnsEntry(e)'
    BY <1>3, <1>4, <1>5, <1>6 DEF SenderOwnsEntry, Entry, Own, At, Referencing
  <2>4. ParkedEntry(e)'
    BY <1>2, <1>3, <1>5, <1>6, <2>1 DEF ParkedEntry, Entry
  <2>5. EntriesCleared(e)'
    BY <1>2, <1>4, <1>5, <1>6, <2>1 DEF EntriesCleared, Entry, Own, Referencing
  <2> QED
    BY <2>2, <2>3, <2>4, <2>5 DEF Sound
<1>6a. ThreadsTogether(e)'
  BY <1>1, <1>2, <1>4, Numbers DEF ThreadsTogether, Own, At
<1>7. Failing' \subseteq Failing
  BY <1>1, <1>2, <1>4 DEF Failing, At
<1>8. FailuresCounted'
  BY <1>7, NoNewFailure
<1>9. consecutive_failure_counter' \in Nat /\ is_tracing_enabled' \in BOOLEAN
  BY Numbers, CounterIsNatural DEF TypeOK
<1> QED
  BY <1>4, <1>5, <1>6, <1>6a, <1>8, <1>9, EventMoves DEF TypeOK


(* The reference is taken while the entry says that it may be.             *)
LEMMA SlotReferenced ==
    ASSUME TypeOK, TracingInvariant, Running, NEW e \in Events,
           At(e, "increment"),
           refs' = [refs EXCEPT ![e][Own(e)] = @ + 1],
           Goto(e, "commit"),
           UNCHANGED <<log, sample, reading, callback, state, enabled, memory, offers,
                       active, stuck, again, shared, typed, disconnected, handle,
                       cached, local, is_tracing_enabled, consecutive_failure_counter,
                       data_loss_flag>>
    PROVE  TypeOK' /\ TracingInvariant'
<1>1. ThreadsTogether(e) /\ sender \in Senders /\ (e \notin shared => Sound(e))
  BY Roles
<1>2. Own(e) \in Slots /\ state = "offered" /\ active[e] /\ sender[e].stage = "increment"
      /\ (sample[e] # None => sample[e] \in Slots)
  BY Roles DEF At
<1>3. e \notin shared => Entry(e, Own(e), {"begin"}, 0)
  BY <1>1 DEF Sound, SenderOwnsEntry
<1>4. /\ sender' \in Senders /\ sender'[e].stage = "commit" /\ sender'[e].slot = Own(e)
      /\ sender'[e].point = sender[e].point /\ sender'[e].result = sender[e].result
      /\ \A f \in Events \ {e} : sender'[f] = sender[f]
  <2>1. sender' = [sender EXCEPT ![e].stage = "commit"]
    BY DEF Goto, Returned
  <2>2. "commit" \in Stages
    BY DEF Stages, Outcomes, ApiResults, ApiErrors
  <2> QED
    BY <1>1, <2>1, <2>2, SenderGoes
<1>5. /\ refs' \in [Events -> [Slots -> Int]]
      /\ e \notin shared => refs'[e][Own(e)] = 1
      /\ \A f \in Events \ {e} : refs'[f] = refs[f]
      /\ \A u \in Slots \ {Own(e)} : refs'[e][u] = refs[e][u]
  <2>1. refs \in [Events -> [Slots -> Int]]
    BY DEF TypeOK
  <2>2. refs[e][Own(e)] + 1 \in Int
    BY <1>2, <2>1
  <2>3. refs' = [refs EXCEPT ![e][Own(e)] = refs[e][Own(e)] + 1]
    BY <1>2, <2>1
  <2>4. e \notin shared => refs[e][Own(e)] + 1 = 1
    BY <1>3 DEF Entry
  <2> QED
    BY <1>2, <2>1, <2>2, <2>3, <2>4, RefsMove
<1>6. ASSUME e \notin shared PROVE Sound(e)'
  <2>1. Accounts(e) /\ SenderOwnsEntry(e) /\ ParkedEntry(e) /\ EntriesCleared(e)
    BY <1>1, <1>6 DEF Sound
  <2>2. Accounts(e)'
    BY <1>3, <1>6, <2>1 DEF Entry, Accounts
  <2>3. SenderOwnsEntry(e)'
    BY <1>1, <1>4, <1>5, <1>6, <2>1 DEF ThreadsTogether, Entry, Own, At, Referencing, SenderOwnsEntry
  <2>4. ParkedEntry(e)'
    BY <1>1, <1>6, <2>1 DEF ThreadsTogether, Entry, SenderOwnsEntry, ParkedEntry
  <2>5. EntriesCleared(e)'
    BY <1>1, <1>2, <1>4, <1>6, <2>1 DEF ThreadsTogether, Entry, Own, Referencing, EntriesCleared
  <2> QED
    BY <1>6, <2>2, <2>3, <2>4, <2>5 DEF Sound
<1>6a. ThreadsTogether(e)'
  BY <1>1, <1>2, <1>3, <1>4, <1>5, Numbers DEF ThreadsTogether, Own, At
<1>7. Failing' \subseteq Failing
  BY <1>1, <1>2, <1>3, <1>4, <1>5 DEF Failing, At
<1>8. FailuresCounted'
  BY <1>7, NoNewFailure
<1>9. consecutive_failure_counter' \in Nat /\ is_tracing_enabled' \in BOOLEAN
  BY Numbers, CounterIsNatural DEF TypeOK
<1> QED
  BY <1>4, <1>5, <1>6, <1>6a, <1>8, <1>9, EventMoves DEF TypeOK


(* The second entry is written with the reference taken.                   *)
LEMMA CommitLogged ==
    ASSUME TypeOK, TracingInvariant, Running, NEW e \in Events,
           At(e, "commit"),
           SetLog(e, Own(e), log[e][Own(e)] \cup {"end"}),
           Goto(e, "trace"),
           UNCHANGED <<refs, sample, reading, callback, state, enabled, memory, offers,
                       active, stuck, again, shared, typed, disconnected, handle,
                       cached, local, is_tracing_enabled, consecutive_failure_counter,
                       data_loss_flag>>
    PROVE  TypeOK' /\ TracingInvariant'
<1>1. ThreadsTogether(e) /\ sender \in Senders /\ (e \notin shared => Sound(e))
  BY Roles
<1>2. Own(e) \in Slots /\ state = "offered" /\ active[e] /\ sender[e].stage = "commit"
      /\ (sample[e] # None => sample[e] \in Slots)
  BY Roles DEF At
<1>3. e \notin shared => Entry(e, Own(e), {"begin"}, 1)
  BY <1>1 DEF Sound, SenderOwnsEntry
<1>4. /\ sender' \in Senders /\ sender'[e].stage = "trace" /\ sender'[e].slot = Own(e)
      /\ sender'[e].point = sender[e].point /\ sender'[e].result = sender[e].result
      /\ \A f \in Events \ {e} : sender'[f] = sender[f]
  <2>1. sender' = [sender EXCEPT ![e].stage = "trace"]
    BY DEF Goto, Returned
  <2>2. "trace" \in Stages
    BY DEF Stages, Outcomes, ApiResults, ApiErrors
  <2> QED
    BY <1>1, <2>1, <2>2, SenderGoes
<1>5. /\ log' \in [Events -> [Slots -> Flags]]
      /\ e \notin shared => log'[e][Own(e)] = {"begin", "end"}
      /\ \A f \in Events \ {e} : log'[f] = log[f]
      /\ \A u \in Slots \ {Own(e)} : log'[e][u] = log[e][u]
  <2>1. log \in [Events -> [Slots -> Flags]]
    BY DEF TypeOK
  <2>2. log[e][Own(e)] \cup {"end"} \in Flags
    BY <1>2, <2>1 DEF Flags
  <2>3. e \notin shared => log[e][Own(e)] \cup {"end"} = {"begin", "end"}
    BY <1>3 DEF Entry
  <2> QED
    BY <1>2, <2>1, <2>2, <2>3, LogMoves
<1>6. ASSUME e \notin shared PROVE Sound(e)'
  <2>1. Accounts(e) /\ SenderOwnsEntry(e) /\ ParkedEntry(e) /\ EntriesCleared(e)
    BY <1>1, <1>6 DEF Sound
  <2>2. Accounts(e)'
    BY <1>3, <1>5, <1>6, <2>1 DEF Entry, Accounts
  <2>3. SenderOwnsEntry(e)'
    BY <1>1, <1>4, <1>5, <1>6, <2>1 DEF ThreadsTogether, Entry, Own, At, Referencing, SenderOwnsEntry
  <2>4. ParkedEntry(e)'
    BY <1>1, <1>2, <1>5, <1>6, <2>1 DEF ThreadsTogether, Entry, SenderOwnsEntry, ParkedEntry
  <2>5. EntriesCleared(e)'
    BY <1>1, <1>2, <1>4, <1>5, <1>6, <2>1 DEF ThreadsTogether, Entry, Own, Referencing, EntriesCleared
  <2> QED
    BY <1>6, <2>2, <2>3, <2>4, <2>5 DEF Sound
<1>6a. ThreadsTogether(e)'
  BY <1>1, <1>2, <1>3, <1>4, <1>5, Numbers DEF ThreadsTogether, Own, At
<1>7. Failing' \subseteq Failing
  BY <1>1, <1>2, <1>3, <1>4, <1>5 DEF Failing, At
<1>8. FailuresCounted'
  BY <1>7, NoNewFailure
<1>9. consecutive_failure_counter' \in Nat /\ is_tracing_enabled' \in BOOLEAN
  BY Numbers, CounterIsNatural DEF TypeOK
<1> QED
  BY <1>4, <1>5, <1>6, <1>6a, <1>8, <1>9, EventMoves DEF TypeOK


(* A sample that is not traced goes on to be released by the sender.       *)
LEMMA TraceDrops ==
    ASSUME TypeOK, TracingInvariant, Running, NEW e \in Events,
           At(e, "trace"),
           NEW r \in {"disabled", "busy", "unregistered"},
           Returned(e, "drop", r),
           data_loss_flag' \in BOOLEAN,
           UNCHANGED <<log, refs, sample, reading, callback, state, enabled, memory,
                       offers, active, stuck, again, shared, typed, disconnected,
                       handle, cached, local, is_tracing_enabled,
                       consecutive_failure_counter>>
    PROVE  TypeOK' /\ TracingInvariant'
<1>1. ThreadsTogether(e) /\ sender \in Senders /\ (e \notin shared => Sound(e))
  BY Roles
<1>2. Own(e) \in Slots /\ state = "offered" /\ active[e] /\ sender[e].stage = "trace"
      /\ (sample[e] # None => sample[e] \in Slots)
  BY Roles DEF At
<1>3. e \notin shared => Entry(e, Own(e), {"begin", "end"}, 1)
  BY <1>1 DEF Sound, SenderOwnsEntry
<1>4. /\ sender' \in Senders /\ sender'[e].stage = "drop" /\ sender'[e].slot = Own(e)
      /\ sender'[e].point = sender[e].point /\ sender'[e].result = r
      /\ \A f \in Events \ {e} : sender'[f] = sender[f]
  <2>1. sender' = [sender EXCEPT ![e].stage = "drop", ![e].result = r]
    BY DEF Goto, Returned
  <2>2. "drop" \in Stages /\ r \in Outcomes
    BY DEF Stages, Outcomes, ApiResults, ApiErrors
  <2> QED
    BY <1>1, <2>1, <2>2, SenderReturns
<1>5. ASSUME e \notin shared PROVE Sound(e)'
  <2>1. Accounts(e) /\ SenderOwnsEntry(e) /\ ParkedEntry(e) /\ EntriesCleared(e)
    BY <1>1, <1>5 DEF Sound
  <2>2. Accounts(e)'
    BY <1>5, <2>1 DEF Accounts
  <2>3. SenderOwnsEntry(e)'
    BY <1>1, <1>4, <1>5, <2>1 DEF ThreadsTogether, Entry, Own, At, Referencing, SenderOwnsEntry
  <2>4. ParkedEntry(e)'
    BY <1>1, <1>5, <2>1 DEF ThreadsTogether, Entry, ParkedEntry
  <2>5. EntriesCleared(e)'
    BY <1>1, <1>4, <1>5, <2>1 DEF ThreadsTogether, Entry, Own, At, Referencing, EntriesCleared
  <2> QED
    BY <1>5, <2>2, <2>3, <2>4, <2>5 DEF Sound
<1>5a. ThreadsTogether(e)'
  BY <1>1, <1>2, <1>3, <1>4, Numbers DEF ThreadsTogether, Own, At
<1>6. Failing' \subseteq Failing
  BY <1>1, <1>2, <1>3, <1>4 DEF Failing, At
<1>7. FailuresCounted'
  BY <1>6, NoNewFailure
<1>8. consecutive_failure_counter' \in Nat /\ is_tracing_enabled' \in BOOLEAN
  BY Numbers, CounterIsNatural DEF TypeOK
<1> QED
  BY <1>4, <1>5, <1>5a, <1>7, <1>8, EventMoves DEF TypeOK


(* The sample pointer is parked, under the lock, before the call.          *)
LEMMA TraceParks ==
    ASSUME TypeOK, TracingInvariant, Running, NEW e \in Events,
           At(e, "trace"),
           callback[e] = "idle",
           is_tracing_enabled,
           sample[e] = None,
           sample' = [sample EXCEPT ![e] = Own(e)],
           Goto(e, "call"),
           UNCHANGED <<log, refs, reading, callback, state, enabled, memory, offers,
                       active, stuck, again, shared, typed, disconnected, handle,
                       cached, local, is_tracing_enabled, consecutive_failure_counter,
                       data_loss_flag>>
    PROVE  TypeOK' /\ TracingInvariant'
<1>1. ThreadsTogether(e) /\ sender \in Senders /\ (e \notin shared => Sound(e))
  BY Roles
<1>2. Own(e) \in Slots /\ state = "offered" /\ active[e] /\ sender[e].stage = "trace"
      /\ (sample[e] # None => sample[e] \in Slots)
  BY Roles DEF At
<1>3. e \notin shared => Entry(e, Own(e), {"begin", "end"}, 1)
  BY <1>1 DEF Sound, SenderOwnsEntry
<1>4. /\ sender' \in Senders /\ sender'[e].stage = "call" /\ sender'[e].slot = Own(e)
      /\ sender'[e].point = sender[e].point /\ sender'[e].result = sender[e].result
      /\ \A f \in Events \ {e} : sender'[f] = sender[f]
  <2>1. sender' = [sender EXCEPT ![e].stage = "call"]
    BY DEF Goto, Returned
  <2>2. "call" \in Stages
    BY DEF Stages, Outcomes, ApiResults, ApiErrors
  <2> QED
    BY <1>1, <2>1, <2>2, SenderGoes
<1>5. /\ sample' \in [Events -> Slots \cup {None}] /\ sample'[e] = Own(e)
      /\ \A f \in Events \ {e} : sample'[f] = sample[f]
  BY <1>2 DEF TypeOK
<1>6. ASSUME e \notin shared PROVE Sound(e)'
  <2>1. Accounts(e) /\ SenderOwnsEntry(e) /\ ParkedEntry(e) /\ EntriesCleared(e)
    BY <1>1, <1>6 DEF Sound
  <2>2. Accounts(e)'
    BY <1>6, <2>1 DEF Accounts
  <2>3. SenderOwnsEntry(e)'
    BY <1>1, <1>4, <1>5, <1>6, <2>1 DEF ThreadsTogether, Own, At, Referencing, SenderOwnsEntry, ParkedEntry
  <2>4. ParkedEntry(e)'
    BY <1>1, <1>6, <2>1 DEF ThreadsTogether, Entry, SenderOwnsEntry, ParkedEntry
  <2>5. EntriesCleared(e)'
    BY <1>5, <1>6, <2>1, Numbers, <1>1 DEF ThreadsTogether, Entry, At, EntriesCleared
  <2> QED
    BY <1>6, <2>2, <2>3, <2>4, <2>5 DEF Sound
<1>6a. ThreadsTogether(e)'
  BY <1>1, <1>2, <1>3, <1>4, <1>5, Numbers DEF ThreadsTogether, Own, At
<1>7. Failing' \subseteq Events /\ is_tracing_enabled'
  BY DEF Failing
<1>8. FailuresCounted'
  BY <1>7, CallsCanFail
<1>9. consecutive_failure_counter' \in Nat /\ is_tracing_enabled' \in BOOLEAN
  BY Numbers, CounterIsNatural DEF TypeOK
<1> QED
  BY <1>4, <1>5, <1>6, <1>6a, <1>8, <1>9, EventMoves DEF TypeOK


(* An accepted call leaves the release to the callback.                    *)
LEMMA ApiAccepts ==
    ASSUME TypeOK, TracingInvariant, Running, NEW e \in Events,
           At(e, "call"),
           reading' = [reading EXCEPT ![e] = Own(e)],
           Returned(e, "process", "ok"),
           UNCHANGED <<log, refs, sample, callback, state, enabled, memory, offers,
                       active, stuck, again, shared, typed, disconnected, handle,
                       cached, local, is_tracing_enabled, consecutive_failure_counter,
                       data_loss_flag>>
    PROVE  TypeOK' /\ TracingInvariant'
<1>1. ThreadsTogether(e) /\ sender \in Senders /\ (e \notin shared => Sound(e))
  BY Roles
<1>2. Own(e) \in Slots /\ state = "offered" /\ active[e] /\ sender[e].stage = "call"
      /\ (sample[e] # None => sample[e] \in Slots)
  BY Roles DEF At
<1>3. /\ sender' \in Senders /\ sender'[e].stage = "process" /\ sender'[e].slot = Own(e)
      /\ sender'[e].point = sender[e].point /\ sender'[e].result = "ok"
      /\ \A f \in Events \ {e} : sender'[f] = sender[f]
  <2>1. sender' = [sender EXCEPT ![e].stage = "process", ![e].result = "ok"]
    BY DEF Goto, Returned
  <2>2. "process" \in Stages /\ "ok" \in Outcomes
    BY DEF Stages, Outcomes, ApiResults, ApiErrors
  <2> QED
    BY <1>1, <2>1, <2>2, SenderReturns
<1>4. /\ reading' \in [Events -> Slots \cup {None}] /\ reading'[e] = Own(e)
      /\ \A f \in Events \ {e} : reading'[f] = reading[f]
  BY <1>2 DEF TypeOK
<1>5. ASSUME e \notin shared PROVE Sound(e)'
  <2>1. Accounts(e) /\ SenderOwnsEntry(e) /\ ParkedEntry(e) /\ EntriesCleared(e)
    BY <1>1, <1>5 DEF Sound
  <2>2. Accounts(e)'
    BY <1>5, <2>1 DEF Accounts
  <2>3. SenderOwnsEntry(e)'
    BY <1>1, <1>3, <1>5, <2>1 DEF ThreadsTogether, Own, At, Referencing, SenderOwnsEntry
  <2>4. ParkedEntry(e)'
    BY <1>1, <1>5, <2>1 DEF ThreadsTogether, Entry, SenderOwnsEntry, ParkedEntry
  <2>5. EntriesCleared(e)'
    BY <1>1, <1>5, <2>1 DEF ThreadsTogether, Entry, At, SenderOwnsEntry, EntriesCleared
  <2> QED
    BY <1>5, <2>2, <2>3, <2>4, <2>5 DEF Sound
<1>5a. ThreadsTogether(e)'
  BY <1>1, <1>2, <1>3, <1>4, Numbers DEF ThreadsTogether, Own, At
<1>6. Failing' \subseteq Failing
  BY <1>1, <1>2, <1>3, <1>4 DEF Failing, At
<1>7. FailuresCounted'
  BY <1>6, NoNewFailure
<1>8. consecutive_failure_counter' \in Nat /\ is_tracing_enabled' \in BOOLEAN
  BY Numbers, CounterIsNatural DEF TypeOK
<1> QED
  BY <1>3, <1>4, <1>5, <1>5a, <1>7, <1>8, EventMoves DEF TypeOK


(* A refused call takes the parked sample back; the failure is counted     *)
(* only when the sender looks at the result.                               *)
LEMMA ApiRefuses ==
    ASSUME TypeOK, TracingInvariant, Running, NEW e \in Events,
           At(e, "call"),
           NEW r \in ApiErrors,
           sample' = [sample EXCEPT ![e] = None],
           Returned(e, "drop", r),
           UNCHANGED <<log, refs, reading, callback, state, enabled, memory, offers,
                       active, stuck, again, shared, typed, disconnected, handle,
                       cached, local, is_tracing_enabled, consecutive_failure_counter,
                       data_loss_flag>>
    PROVE  TypeOK' /\ TracingInvariant'
<1>1. ThreadsTogether(e) /\ sender \in Senders /\ (e \notin shared => Sound(e))
  BY Roles
<1>2. Own(e) \in Slots /\ state = "offered" /\ active[e] /\ sender[e].stage = "call"
      /\ (sample[e] # None => sample[e] \in Slots)
  BY Roles DEF At
<1>3. /\ sender' \in Senders /\ sender'[e].stage = "drop" /\ sender'[e].slot = Own(e)
      /\ sender'[e].point = sender[e].point /\ sender'[e].result = r
      /\ \A f \in Events \ {e} : sender'[f] = sender[f]
  <2>1. sender' = [sender EXCEPT ![e].stage = "drop", ![e].result = r]
    BY DEF Goto, Returned
  <2>2. "drop" \in Stages /\ r \in Outcomes
    BY DEF Stages, Outcomes, ApiResults, ApiErrors
  <2> QED
    BY <1>1, <2>1, <2>2, SenderReturns
<1>4. /\ sample' \in [Events -> Slots \cup {None}] /\ sample'[e] = None
      /\ \A f \in Events \ {e} : sample'[f] = sample[f]
  BY <1>2 DEF TypeOK
<1>5. ASSUME e \notin shared PROVE Sound(e)'
  <2>1. Accounts(e) /\ SenderOwnsEntry(e) /\ ParkedEntry(e) /\ EntriesCleared(e)
    BY <1>1, <1>5 DEF Sound
  <2>2. Accounts(e)'
    BY <1>5, <2>1 DEF Accounts
  <2>3. SenderOwnsEntry(e)'
    BY <1>1, <1>3, <1>4, <1>5, <2>1 DEF ThreadsTogether, Entry, Own, At, SenderOwnsEntry, ParkedEntry
  <2>4. ParkedEntry(e)'
    BY <1>1, <1>5, <2>1 DEF ThreadsTogether, Entry, SenderOwnsEntry, ParkedEntry
  <2>5. EntriesCleared(e)'
    BY <1>1, <1>3, <1>5, <2>1 DEF ThreadsTogether, Entry, Own, At, Referencing, SenderOwnsEntry, EntriesCleared
  <2> QED
    BY <1>5, <2>2, <2>3, <2>4, <2>5 DEF Sound
<1>5a. ThreadsTogether(e)'
  BY <1>1, <1>2, <1>3, <1>4, Numbers DEF ThreadsTogether, Own, At
<1>6. Failing' \subseteq Failing
  BY <1>1, <1>2, <1>3, <1>4 DEF Failing, At
<1>7. FailuresCounted'
  BY <1>6, NoNewFailure
<1>8. consecutive_failure_counter' \in Nat /\ is_tracing_enabled' \in BOOLEAN
  BY Numbers, CounterIsNatural DEF TypeOK
<1> QED
  BY <1>3, <1>5, <1>5a, <1>7, <1>8, EventMoves DEF TypeOK


(* The sender notes in the log that it releases the slot.                  *)
LEMMA ReleaseBegins ==
    ASSUME TypeOK, TracingInvariant, Running, NEW e \in Events,
           At(e, "drop"),
           SetLog(e, Own(e), log[e][Own(e)] \ {"begin"}),
           Goto(e, "dereference"),
           UNCHANGED <<refs, sample, reading, callback, state, enabled, memory, offers,
                       active, stuck, again, shared, typed, disconnected, handle,
                       cached, local, is_tracing_enabled, consecutive_failure_counter,
                       data_loss_flag>>
    PROVE  TypeOK' /\ TracingInvariant'
<1>1. ThreadsTogether(e) /\ sender \in Senders /\ (e \notin shared => Sound(e))
  BY Roles
<1>2. Own(e) \in Slots /\ state = "offered" /\ active[e] /\ sender[e].stage = "drop"
      /\ (sample[e] # None => sample[e] \in Slots)
  BY Roles DEF At
<1>3. e \notin shared => Entry(e, Own(e), {"begin", "end"}, 1)
  BY <1>1 DEF Sound, SenderOwnsEntry
<1>4. /\ sender' \in Senders /\ sender'[e].stage = "dereference" /\ sender'[e].slot = Own(e)
      /\ sender'[e].point = sender[e].point /\ sender'[e].result = sender[e].result
      /\ \A f \in Events \ {e} : sender'[f] = sender[f]
  <2>1. sender' = [sender EXCEPT ![e].stage = "dereference"]
    BY DEF Goto, Returned
  <2>2. "dereference" \in Stages
    BY DEF Stages, Outcomes, ApiResults, ApiErrors
  <2> QED
    BY <1>1, <2>1, <2>2, SenderGoes
<1>5. /\ log' \in [Events -> [Slots -> Flags]]
      /\ e \notin shared => log'[e][Own(e)] = {"end"}
      /\ \A f \in Events \ {e} : log'[f] = log[f]
      /\ \A u \in Slots \ {Own(e)} : log'[e][u] = log[e][u]
  <2>1. log \in [Events -> [Slots -> Flags]]
    BY DEF TypeOK
  <2>2. log[e][Own(e)] \ {"begin"} \in Flags
    BY <1>2, <2>1 DEF Flags
  <2>3. e \notin shared => log[e][Own(e)] \ {"begin"} = {"end"}
    BY <1>3 DEF Entry
  <2> QED
    BY <1>2, <2>1, <2>2, <2>3, LogMoves
<1>6. ASSUME e \notin shared PROVE Sound(e)'
  <2>1. Accounts(e) /\ SenderOwnsEntry(e) /\ ParkedEntry(e) /\ EntriesCleared(e)
    BY <1>1, <1>6 DEF Sound
  <2>2. Accounts(e)'
    BY <1>5, <1>6, <2>1, FlagsDiffer DEF Accounts
  <2>3. SenderOwnsEntry(e)'
    BY <1>1, <1>4, <1>5, <1>6, <2>1 DEF ThreadsTogether, Entry, Own, At, Referencing, SenderOwnsEntry
  <2>4. ParkedEntry(e)'
    BY <1>1, <1>2, <1>5, <1>6, <2>1 DEF ThreadsTogether, Entry, Referencing, SenderOwnsEntry, ParkedEntry
  <2>5. EntriesCleared(e)'
    BY <1>1, <1>4, <1>5, <1>6, <2>1 DEF ThreadsTogether, Entry, Own, At, Referencing, SenderOwnsEntry, EntriesCleared
  <2> QED
    BY <1>6, <2>2, <2>3, <2>4, <2>5 DEF Sound
<1>6a. ThreadsTogether(e)'
  BY <1>1, <1>2, <1>3, <1>4, <1>5, Numbers DEF ThreadsTogether, Own, At
<1>7. Failing' \subseteq Failing
  BY <1>1, <1>2, <1>3, <1>4, <1>5 DEF Failing, At
<1>8. FailuresCounted'
  BY <1>7, NoNewFailure
<1>9. consecutive_failure_counter' \in Nat /\ is_tracing_enabled' \in BOOLEAN
  BY Numbers, CounterIsNatural DEF TypeOK
<1> QED
  BY <1>4, <1>5, <1>6, <1>6a, <1>8, <1>9, EventMoves DEF TypeOK


(* The sender gives the reference back.                                    *)
LEMMA ReleaseDereferences ==
    ASSUME TypeOK, TracingInvariant, Running, NEW e \in Events,
           At(e, "dereference"),
           refs' = [refs EXCEPT ![e][Own(e)] = @ - 1],
           Goto(e, "dereferenced"),
           UNCHANGED <<log, sample, reading, callback, state, enabled, memory, offers,
                       active, stuck, again, shared, typed, disconnected, handle,
                       cached, local, is_tracing_enabled, consecutive_failure_counter,
                       data_loss_flag>>
    PROVE  TypeOK' /\ TracingInvariant'
<1>1. ThreadsTogether(e) /\ sender \in Senders /\ (e \notin shared => Sound(e))
  BY Roles
<1>2. Own(e) \in Slots /\ state = "offered" /\ active[e] /\ sender[e].stage = "dereference"
      /\ (sample[e] # None => sample[e] \in Slots)
  BY Roles DEF At
<1>3. e \notin shared => Entry(e, Own(e), {"end"}, 1)
  BY <1>1 DEF Sound, SenderOwnsEntry
<1>4. /\ sender' \in Senders /\ sender'[e].stage = "dereferenced" /\ sender'[e].slot = Own(e)
      /\ sender'[e].point = sender[e].point /\ sender'[e].result = sender[e].result
      /\ \A f \in Events \ {e} : sender'[f] = sender[f]
  <2>1. sender' = [sender EXCEPT ![e].stage = "dereferenced"]
    BY DEF Goto, Returned
  <2>2. "dereferenced" \in Stages
    BY DEF Stages, Outcomes, ApiResults, ApiErrors
  <2> QED
    BY <1>1, <2>1, <2>2, SenderGoes
<1>5. /\ refs' \in [Events -> [Slots -> Int]]
      /\ e \notin shared => refs'[e][Own(e)] = 0
      /\ \A f \in Events \ {e} : refs'[f] = refs[f]
      /\ \A u \in Slots \ {Own(e)} : refs'[e][u] = refs[e][u]
  <2>1. refs \in [Events -> [Slots -> Int]]
    BY DEF TypeOK
  <2>2. refs[e][Own(e)] - 1 \in Int
    BY <1>2, <2>1
  <2>3. refs' = [refs EXCEPT ![e][Own(e)] = refs[e][Own(e)] - 1]
    BY <1>2, <2>1
  <2>4. e \notin shared => refs[e][Own(e)] - 1 = 0
    BY <1>3 DEF Entry
  <2> QED
    BY <1>2, <2>1, <2>2, <2>3, <2>4, RefsMove
<1>6. ASSUME e \notin shared PROVE Sound(e)'
  <2>1. Accounts(e) /\ SenderOwnsEntry(e) /\ ParkedEntry(e) /\ EntriesCleared(e)
    BY <1>1, <1>6 DEF Sound
  <2>2. Accounts(e)'
    BY <1>3, <1>6, <2>1 DEF Entry, Accounts
  <2>3. SenderOwnsEntry(e)'
    BY <1>1, <1>4, <1>5, <1>6, <2>1 DEF ThreadsTogether, Entry, Own, At, Referencing, SenderOwnsEntry
  <2>4. ParkedEntry(e)'
    BY <1>1, <1>6, <2>1 DEF ThreadsTogether, Entry, At, Referencing, SenderOwnsEntry, ParkedEntry
  <2>5. EntriesCleared(e)'
    BY <1>1, <1>4, <1>6, <2>1 DEF ThreadsTogether, Entry, Own, At, Referencing, SenderOwnsEntry, EntriesCleared
  <2> QED
    BY <1>6, <2>2, <2>3, <2>4, <2>5 DEF Sound
<1>6a. ThreadsTogether(e)'
  BY <1>1, <1>2, <1>3, <1>4, <1>5, Numbers DEF ThreadsTogether, Own, At
<1>7. Failing' \subseteq Failing
  BY <1>1, <1>2, <1>3, <1>4, <1>5 DEF Failing, At
<1>8. FailuresCounted'
  BY <1>7, NoNewFailure
<1>9. consecutive_failure_counter' \in Nat /\ is_tracing_enabled' \in BOOLEAN
  BY Numbers, CounterIsNatural DEF TypeOK
<1> QED
  BY <1>4, <1>5, <1>6, <1>6a, <1>8, <1>9, EventMoves DEF TypeOK


(* The sender clears the entry after the reference is given back.          *)
LEMMA ReleaseEnds ==
    ASSUME TypeOK, TracingInvariant, Running, NEW e \in Events,
           At(e, "dereferenced"),
           SetLog(e, Own(e), log[e][Own(e)] \ {"end"}),
           Goto(e, "process"),
           UNCHANGED <<refs, sample, reading, callback, state, enabled, memory, offers,
                       active, stuck, again, shared, typed, disconnected, handle,
                       cached, local, is_tracing_enabled, consecutive_failure_counter,
                       data_loss_flag>>
    PROVE  TypeOK' /\ TracingInvariant'
<1>1. ThreadsTogether(e) /\ sender \in Senders /\ (e \notin shared => Sound(e))
  BY Roles
<1>2. Own(e) \in Slots /\ state = "offered" /\ active[e] /\ sender[e].stage = "dereferenced"
      /\ (sample[e] # None => sample[e] \in Slots)
  BY Roles DEF At
<1>3. e \notin shared => Entry(e, Own(e), {"end"}, 0)
  BY <1>1 DEF Sound, SenderOwnsEntry
<1>4. /\ sender' \in Senders /\ sender'[e].stage = "process" /\ sender'[e].slot = Own(e)
      /\ sender'[e].point = sender[e].point /\ sender'[e].result = sender[e].result
      /\ \A f \in Events \ {e} : sender'[f] = sender[f]
  <2>1. sender' = [sender EXCEPT ![e].stage = "process"]
    BY DEF Goto, Returned
  <2>2. "process" \in Stages
    BY DEF Stages, Outcomes, ApiResults, ApiErrors
  <2> QED
    BY <1>1, <2>1, <2>2, SenderGoes
<1>5. /\ log' \in [Events -> [Slots -> Flags]]
      /\ e \notin shared => log'[e][Own(e)] = {}
      /\ \A f \in Events \ {e} : log'[f] = log[f]
      /\ \A u \in Slots \ {Own(e)} : log'[e][u] = log[e][u]
  <2>1. log \in [Events -> [Slots -> Flags]]
    BY DEF TypeOK
  <2>2. log[e][Own(e)] \ {"end"} \in Flags
    BY <1>2, <2>1 DEF Flags
  <2>3. e \notin shared => log[e][Own(e)] \ {"end"} = {}
    BY <1>3 DEF Entry
  <2> QED
    BY <1>2, <2>1, <2>2, <2>3, LogMoves
<1>6. ASSUME e \notin shared PROVE Sound(e)'
  <2>1. Accounts(e) /\ SenderOwnsEntry(e) /\ ParkedEntry(e) /\ EntriesCleared(e)
    BY <1>1, <1>6 DEF Sound
  <2>2. Accounts(e)'
    BY <1>3, <1>5, <1>6, <2>1 DEF Entry, Accounts
  <2>3. SenderOwnsEntry(e)'
    BY <1>1, <1>4, <1>6, <2>1 DEF ThreadsTogether, Own, At, Referencing, SenderOwnsEntry
  <2>4. ParkedEntry(e)'
    BY <1>1, <1>2, <1>5, <1>6, <2>1 DEF ThreadsTogether, Entry, Referencing, SenderOwnsEntry, ParkedEntry
  <2>5. EntriesCleared(e)'
    BY <1>1, <1>5, <1>6, <2>1 DEF ThreadsTogether, Entry, At, SenderOwnsEntry, EntriesCleared
  <2> QED
    BY <1>6, <2>2, <2>3, <2>4, <2>5 DEF Sound
<1>6a. ThreadsTogether(e)'
  BY <1>1, <1>2, <1>3, <1>4, <1>5, Numbers DEF ThreadsTogether, Own, At
<1>7. Failing' \subseteq Failing
  BY <1>1, <1>2, <1>3, <1>4, <1>5 DEF Failing, At
<1>8. FailuresCounted'
  BY <1>7, NoNewFailure
<1>9. consecutive_failure_counter' \in Nat /\ is_tracing_enabled' \in BOOLEAN
  BY Numbers, CounterIsNatural DEF TypeOK
<1> QED
  BY <1>4, <1>5, <1>6, <1>6a, <1>8, <1>9, EventMoves DEF TypeOK


(* The callback takes the parked sample and notes the release.             *)
LEMMA DoneBegins ==
    ASSUME TypeOK, TracingInvariant, Running, NEW e \in Events,
           reading[e] # None,
           callback[e] = "idle",
           sample[e] # None,
           reading' = [reading EXCEPT ![e] = None],
           SetLog(e, sample[e], log[e][sample[e]] \ {"begin"}),
           callback' = [callback EXCEPT ![e] = "dereference"],
           UNCHANGED <<sender, refs, sample, state, enabled, memory, offers, active,
                       stuck, again, shared, typed, disconnected, handle, cached, local,
                       is_tracing_enabled, consecutive_failure_counter, data_loss_flag>>
    PROVE  TypeOK' /\ TracingInvariant'
<1>1. ThreadsTogether(e) /\ sender \in Senders /\ (e \notin shared => Sound(e))
  BY Roles
<1>2. sample[e] \in Slots /\ callback[e] = "idle"
      /\ (e \notin shared => state = "offered" /\ active[e])
      /\ (~At(e, "idle") => Own(e) \in Slots)
  BY Roles DEF ThreadsTogether
<1>3. e \notin shared => Entry(e, sample[e], {"begin", "end"}, 1)
  BY <1>1, <1>2, Numbers DEF Sound, ParkedEntry
<1>4. /\ log' \in [Events -> [Slots -> Flags]]
      /\ e \notin shared => log'[e][sample[e]] = {"end"}
      /\ \A f \in Events \ {e} : log'[f] = log[f]
      /\ \A u \in Slots \ {sample[e]} : log'[e][u] = log[e][u]
  <2> DEFINE rest == log[e][sample[e]] \ {"begin"}
  <2>1. log \in [Events -> [Slots -> Flags]]
    BY DEF TypeOK
  <2>2. rest \in Flags
    BY <1>2, <2>1 DEF Flags
  <2>3. e \notin shared => rest = {"end"}
    BY <1>3 DEF Entry
  <2>4. SetLog(e, sample[e], rest)
    OBVIOUS
  <2> HIDE DEF rest
  <2>5. /\ log' \in [Events -> [Slots -> Flags]]
        /\ e \notin shared => log'[e][sample[e]] = rest
        /\ \A f \in Events \ {e} : log'[f] = log[f]
        /\ \A u \in Slots \ {sample[e]} : log'[e][u] = log[e][u]
    BY <1>2, <2>1, <2>2, <2>4, LogMoves
  <2> QED
    BY <2>3, <2>5
<1>5. /\ reading' \in [Events -> Slots \cup {None}] /\ reading'[e] = None
      /\ \A f \in Events \ {e} : reading'[f] = reading[f]
  BY <1>2 DEF TypeOK
<1>6. /\ callback' \in [Events -> {"idle", "dereference", "dereferenced"}] /\ callback'[e] = "dereference"
      /\ \A f \in Events \ {e} : callback'[f] = callback[f]
  BY <1>2 DEF TypeOK
<1>7. ASSUME e \notin shared PROVE Sound(e)'
  <2>1. Accounts(e) /\ SenderOwnsEntry(e) /\ ParkedEntry(e) /\ EntriesCleared(e)
    BY <1>1, <1>7 DEF Sound
  <2>2. Accounts(e)'
    <3>1. refs'[e][sample[e]] = 1 /\ \A u \in Slots \ {sample[e]} : refs'[e][u] = refs[e][u]
      BY <1>1, <1>2, <1>3, <1>4, <1>5, <1>6, <1>7 DEF Entry
    <3>2. log'[e][sample[e]] = {"end"} /\ \A u \in Slots \ {sample[e]} : log'[e][u] = log[e][u]
      BY <1>1, <1>2, <1>3, <1>4, <1>5, <1>6, <1>7
    <3> QED
      BY <1>2, <1>7, <2>1, <3>1, <3>2, FlagsDiffer DEF Accounts
  <2>3. SenderOwnsEntry(e)'
    <3>1. sender[e].stage # "call"
      BY <1>1, <1>7, <2>1 DEF ThreadsTogether, SenderOwnsEntry, At
    <3>2. sender[e].stage # "idle" /\ Own(e) # sample[e] => log'[e][Own(e)] = log[e][Own(e)]
      BY <1>2, <1>4, <1>7 DEF At
    <3>3. sender[e].stage \in {"increment", "commit", "trace", "drop", "dereference", "dereferenced"}
             => Own(e) # sample[e]
      BY <1>1, <1>7, <2>1 DEF ThreadsTogether, SenderOwnsEntry, Referencing
    <3> QED
      BY <1>1, <1>7, <2>1, <3>2, <3>3 DEF ThreadsTogether, Entry, Own, At, SenderOwnsEntry
  <2>4. ParkedEntry(e)'
    BY <1>1, <1>4, <1>5, <1>6, <1>7, <2>1 DEF ThreadsTogether, Entry, ParkedEntry
  <2>5. EntriesCleared(e)'
    BY <1>1, <1>4, <1>7, <2>1 DEF ThreadsTogether, Entry, Own, ParkedEntry, EntriesCleared
  <2> QED
    BY <1>7, <2>2, <2>3, <2>4, <2>5 DEF Sound
<1>7a. ThreadsTogether(e)'
  BY <1>1, <1>2, <1>3, <1>4, <1>5, <1>6, Numbers DEF ThreadsTogether, Own, At
<1>8. Failing' \subseteq Failing
  BY <1>1, <1>2, <1>3, <1>4, <1>5, <1>6 DEF Failing, At
<1>9. FailuresCounted'
  BY <1>8, NoNewFailure
<1>10. consecutive_failure_counter' \in Nat /\ is_tracing_enabled' \in BOOLEAN
  BY Numbers, CounterIsNatural DEF TypeOK
<1> QED
  BY <1>1, <1>4, <1>7, <1>7a, <1>9, <1>10, EventMoves DEF TypeOK


(* The callback gives the reference back.                                  *)
LEMMA DoneDereferences ==
    ASSUME TypeOK, TracingInvariant, Running, NEW e \in Events,
           callback[e] = "dereference",
           refs' = [refs EXCEPT ![e][sample[e]] = @ - 1],
           callback' = [callback EXCEPT ![e] = "dereferenced"],
           UNCHANGED <<sender, log, sample, reading, state, enabled, memory, offers,
                       active, stuck, again, shared, typed, disconnected, handle,
                       cached, local, is_tracing_enabled, consecutive_failure_counter,
                       data_loss_flag>>
    PROVE  TypeOK' /\ TracingInvariant'
<1>1. ThreadsTogether(e) /\ sender \in Senders /\ (e \notin shared => Sound(e))
  BY Roles
<1>2. sample[e] \in Slots /\ callback[e] = "dereference"
      /\ (e \notin shared => state = "offered" /\ active[e])
      /\ (~At(e, "idle") => Own(e) \in Slots)
  BY Roles DEF ThreadsTogether
<1>3. e \notin shared => Entry(e, sample[e], {"end"}, 1)
  BY <1>1, <1>2, Numbers DEF Sound, ParkedEntry
<1>4. /\ refs' \in [Events -> [Slots -> Int]]
      /\ e \notin shared => refs'[e][sample[e]] = 0
      /\ \A f \in Events \ {e} : refs'[f] = refs[f]
      /\ \A u \in Slots \ {sample[e]} : refs'[e][u] = refs[e][u]
  <2>1. refs \in [Events -> [Slots -> Int]]
    BY DEF TypeOK
  <2>2. refs[e][sample[e]] - 1 \in Int
    BY <1>2, <2>1
  <2>3. refs' = [refs EXCEPT ![e][sample[e]] = refs[e][sample[e]] - 1]
    BY <1>2, <2>1
  <2>4. e \notin shared => refs[e][sample[e]] - 1 = 0
    BY <1>3 DEF Entry
  <2> QED
    BY <1>2, <2>1, <2>2, <2>3, <2>4, RefsMove
<1>5. /\ callback' \in [Events -> {"idle", "dereference", "dereferenced"}] /\ callback'[e] = "dereferenced"
      /\ \A f \in Events \ {e} : callback'[f] = callback[f]
  BY <1>2 DEF TypeOK
<1>6. ASSUME e \notin shared PROVE Sound(e)'
  <2>1. Accounts(e) /\ SenderOwnsEntry(e) /\ ParkedEntry(e) /\ EntriesCleared(e)
    BY <1>1, <1>6 DEF Sound
  <2>2. Accounts(e)'
    BY <1>3, <1>6, <2>1 DEF Entry, Accounts
  <2>3. SenderOwnsEntry(e)'
    BY <1>1, <1>6, <2>1 DEF ThreadsTogether, Entry, Own, At, Referencing, SenderOwnsEntry, ParkedEntry
  <2>4. ParkedEntry(e)'
    BY <1>1, <1>4, <1>5, <1>6, <2>1 DEF ThreadsTogether, Entry, ParkedEntry
  <2>5. EntriesCleared(e)'
    BY <1>1, <1>6, <2>1 DEF ThreadsTogether, Entry, Own, ParkedEntry, EntriesCleared
  <2> QED
    BY <1>6, <2>2, <2>3, <2>4, <2>5 DEF Sound
<1>6a. ThreadsTogether(e)'
  BY <1>1, <1>2, <1>3, <1>4, <1>5, Numbers DEF ThreadsTogether, Own, At
<1>7. Failing' \subseteq Failing
  BY <1>1, <1>2, <1>3, <1>4, <1>5 DEF Failing, At
<1>8. FailuresCounted'
  BY <1>7, NoNewFailure
<1>9. consecutive_failure_counter' \in Nat /\ is_tracing_enabled' \in BOOLEAN
  BY Numbers, CounterIsNatural DEF TypeOK
<1> QED
  BY <1>1, <1>4, <1>6, <1>6a, <1>8, <1>9, EventMoves DEF TypeOK


(* The callback clears the entry.                                          *)
LEMMA DoneEnds ==
    ASSUME TypeOK, TracingInvariant, Running, NEW e \in Events,
           callback[e] = "dereferenced",
           SetLog(e, sample[e], log[e][sample[e]] \ {"end"}),
           sample' = [sample EXCEPT ![e] = None],
           callback' = [callback EXCEPT ![e] = "idle"],
           UNCHANGED <<sender, refs, reading, state, enabled, memory, offers, active,
                       stuck, again, shared, typed, disconnected, handle, cached, local,
                       is_tracing_enabled, consecutive_failure_counter, data_loss_flag>>
    PROVE  TypeOK' /\ TracingInvariant'
<1>1. ThreadsTogether(e) /\ sender \in Senders /\ (e \notin shared => Sound(e))
  BY Roles
<1>2. sample[e] \in Slots /\ callback[e] = "dereferenced"
      /\ (e \notin shared => state = "offered" /\ active[e])
      /\ (~At(e, "idle") => Own(e) \in Slots)
  BY Roles DEF ThreadsTogether
<1>3. e \notin shared => Entry(e, sample[e], {"end"}, 0)
  BY <1>1, <1>2, Numbers DEF Sound, ParkedEntry
<1>4. /\ log' \in [Events -> [Slots -> Flags]]
      /\ e \notin shared => log'[e][sample[e]] = {}
      /\ \A f \in Events \ {e} : log'[f] = log[f]
      /\ \A u \in Slots \ {sample[e]} : log'[e][u] = log[e][u]
  <2>1. log \in [Events -> [Slots -> Flags]]
    BY DEF TypeOK
  <2>2. log[e][sample[e]] \ {"end"} \in Flags
    BY <1>2, <2>1 DEF Flags
  <2>3. e \notin shared => log[e][sample[e]] \ {"end"} = {}
    BY <1>3 DEF Entry
  <2> QED
    BY <1>2, <2>1, <2>2, <2>3, LogMoves
<1>5. /\ sample' \in [Events -> Slots \cup {None}] /\ sample'[e] = None
      /\ \A f \in Events \ {e} : sample'[f] = sample[f]
  BY <1>2 DEF TypeOK
<1>6. /\ callback' \in [Events -> {"idle", "dereference", "dereferenced"}] /\ callback'[e] = "idle"
      /\ \A f \in Events \ {e} : callback'[f] = callback[f]
  BY <1>2 DEF TypeOK
<1>7. ASSUME e \notin shared PROVE Sound(e)'
  <2>1. Accounts(e) /\ SenderOwnsEntry(e) /\ ParkedEntry(e) /\ EntriesCleared(e)
    BY <1>1, <1>7 DEF Sound
  <2>2. Accounts(e)'
    <3>1. refs'[e][sample[e]] = 0 /\ \A u \in Slots \ {sample[e]} : refs'[e][u] = refs[e][u]
      BY <1>1, <1>2, <1>3, <1>4, <1>5, <1>6, <1>7 DEF Entry
    <3>2. log'[e][sample[e]] = {} /\ \A u \in Slots \ {sample[e]} : log'[e][u] = log[e][u]
      BY <1>1, <1>2, <1>3, <1>4, <1>5, <1>6, <1>7
    <3> QED
      BY <1>2, <1>7, <2>1, <3>1, <3>2, FlagsDiffer DEF Accounts
  <2>3. SenderOwnsEntry(e)'
    BY <1>1, <1>2, <1>4, <1>6, <1>7, <2>1 DEF ThreadsTogether, Entry, Own, At, Referencing, SenderOwnsEntry
  <2>4. ParkedEntry(e)'
    BY <1>1, <1>5, <1>6, <1>7, <2>1 DEF ThreadsTogether, ParkedEntry
  <2>5. EntriesCleared(e)'
    BY <1>1, <1>2, <1>4, <1>5, <1>7, <2>1 DEF ThreadsTogether, Entry, Own, ParkedEntry, EntriesCleared
  <2> QED
    BY <1>7, <2>2, <2>3, <2>4, <2>5 DEF Sound
<1>7a. ThreadsTogether(e)'
  BY <1>1, <1>2, <1>3, <1>4, <1>5, <1>6, Numbers DEF ThreadsTogether, Own, At
<1>8. Failing' \subseteq Failing
  BY <1>1, <1>2, <1>3, <1>4, <1>5, <1>6 DEF Failing, At
<1>9. FailuresCounted'
  BY <1>8, NoNewFailure
<1>10. consecutive_failure_counter' \in Nat /\ is_tracing_enabled' \in BOOLEAN
  BY Numbers, CounterIsNatural DEF TypeOK
<1> QED
  BY <1>1, <1>4, <1>7, <1>7a, <1>9, <1>10, EventMoves DEF TypeOK


-----------------------------------------------------------------------------
(* The operations.                                                         *)

(* Sending takes a slot that no one traces.                                *)
LEMMA SendStep ==
    ASSUME TypeOK, TracingInvariant, Running, NEW e \in Events, Send(e)
    PROVE  TypeOK' /\ TracingInvariant'
<1>1. /\ ThreadsTogether(e) /\ (e \notin shared => Sound(e)) /\ sender \in Senders
      /\ state = "offered" /\ active[e] /\ At(e, "idle") /\ (sample[e] # None => sample[e] \in Slots)
  BY Roles DEF Send, ThreadsTogether
<1>2. PICK s \in Slots, p \in enabled[e] :
          /\ e \in disconnected' \/ refs[e][s] = 0
          /\ sender' = [sender EXCEPT ![e] = [stage |-> "begin", slot |-> s, point |-> p, result |-> "ok"]]
  BY DEF Send
<1>3. /\ UNCHANGED <<state, sample, callback, reading, refs, log, enabled, memory, offers, active, stuck,
                     again, shared, typed, handle, cached, local, is_tracing_enabled,
                     consecutive_failure_counter, data_loss_flag>>
      /\ disconnected' \in {disconnected, disconnected \cup {e}}
  BY DEF Send, binding, runtime, switches
<1>4. /\ sender' \in Senders /\ sender'[e].stage = "begin" /\ sender'[e].slot = s
      /\ sender'[e].point = p /\ sender'[e].result = "ok"
      /\ \A f \in Events \ {e} : sender'[f] = sender[f]
  <2>1. p \in SendPoints
    BY DEF TypeOK
  <2>2. [stage |-> "begin", slot |-> s, point |-> p, result |-> "ok"]
          \in [stage : Stages, slot : Slots \cup {None}, point : SendPoints, result : Outcomes]
    BY <2>1 DEF Stages, Outcomes, ApiResults
  <2> QED
    BY <1>1, <1>2, <2>2 DEF Senders
<1>5. ASSUME e \notin shared PROVE Sound(e)'
  <2>1. Accounts(e) /\ SenderOwnsEntry(e) /\ ParkedEntry(e) /\ EntriesCleared(e)
    BY <1>1, <1>5 DEF Sound
  <2>2. Accounts(e)'
    BY <1>3, <2>1 DEF Accounts
  <2>3. SenderOwnsEntry(e)'
    BY <1>2, <1>3, <1>4, Numbers DEF SenderOwnsEntry, Own, At, Referencing
  <2>4. ParkedEntry(e)'
    BY <1>3, <2>1 DEF ParkedEntry, Entry
  <2>5. EntriesCleared(e)'
    BY <1>1, <1>2, <1>3, <1>4, <2>1 DEF EntriesCleared, Entry, Own, At, Referencing
  <2> QED
    BY <2>2, <2>3, <2>4, <2>5 DEF Sound
<1>5a. ThreadsTogether(e)'
  BY <1>1, <1>2, <1>3, <1>4, Numbers DEF ThreadsTogether, Own, At
<1>6. Failing' \subseteq Failing
  BY <1>3, <1>4 DEF Failing, At
<1>7. FailuresCounted'
  BY <1>3, <1>6, NoNewFailure
<1>8. consecutive_failure_counter' \in Nat
  BY <1>3, CounterIsNatural
<1> QED
  BY <1>3, <1>4, <1>5, <1>5a, <1>7, <1>8, EventMoves DEF TypeOK

(* A begin that finds the entry in use ends the process.                   *)
LEMMA BeginRefused ==
    ASSUME TypeOK, TracingInvariant, NEW e \in Events, Running,
           state' = "log in use",
           UNCHANGED <<log, sender, shared, binding, memory, active, typed, disconnected, offers, stuck,
                       again, runtime, sample, callback, reading, refs>>
    PROVE  TypeOK' /\ TracingInvariant'
<1>1. ThreadsTogether(e) /\ (e \notin shared => Sound(e)) /\ sender \in Senders
  BY Roles
<1>2. UNCHANGED <<handle, cached, is_tracing_enabled, consecutive_failure_counter, data_loss_flag,
                  enabled, local>>
  BY DEF binding, runtime, switches
<1>3. ASSUME e \notin shared PROVE Sound(e)'
  <2>1. Accounts(e) /\ SenderOwnsEntry(e) /\ ParkedEntry(e) /\ EntriesCleared(e)
    BY <1>1, <1>3 DEF Sound
  <2>2. Accounts(e)' /\ SenderOwnsEntry(e)' /\ ParkedEntry(e)'
    BY <1>2, <2>1 DEF Accounts, SenderOwnsEntry, ParkedEntry, Entry, Own, At
  <2>3. EntriesCleared(e)'
    BY <2>1 DEF EntriesCleared, Entry, Own
  <2> QED
    BY <2>2, <2>3 DEF Sound
<1>3a. ThreadsTogether(e)'
  BY <1>1, <1>2 DEF ThreadsTogether, Own, At
<1>4. Failing' \subseteq Failing
  BY DEF Failing, At
<1>5. FailuresCounted'
  BY <1>2, <1>4, NoNewFailure
<1>6. consecutive_failure_counter' \in Nat
  BY <1>2, CounterIsNatural
<1> QED
  BY <1>1, <1>2, <1>3, <1>3a, <1>5, <1>6, EventMoves DEF TypeOK

(* ReferenceTransactionBegin, refused or not.                              *)
LEMMA ReferenceTransactionBeginStep ==
    ASSUME TypeOK, TracingInvariant, Running, NEW e \in Events, ReferenceTransactionBegin(e)
    PROVE  TypeOK' /\ TracingInvariant'
<1>1. CASE state' = "log in use" /\ UNCHANGED <<log, sender, shared>>
  BY <1>1, BeginRefused DEF ReferenceTransactionBegin
<1>2. CASE /\ shared' = IF log[e][Own(e)] = {} THEN shared ELSE shared \cup {e}
           /\ SetLog(e, Own(e), log[e][Own(e)] \cup {"begin"})
           /\ Goto(e, "increment")
           /\ UNCHANGED state
  <2>1. At(e, "begin")
    BY DEF ReferenceTransactionBegin
  <2>2. UNCHANGED <<refs, sample, reading, callback, state, enabled, memory, offers, active, stuck,
                    again, typed, disconnected, handle, cached, local, is_tracing_enabled,
                    consecutive_failure_counter, data_loss_flag>>
    BY <1>2 DEF ReferenceTransactionBegin, binding, runtime, switches
  <2> QED
    BY <1>2, <2>1, <2>2, BeginLogged
<1> QED
  BY <1>1, <1>2 DEF ReferenceTransactionBegin

(* A transaction that is not begun, or aborted, leaves no entry.           *)
LEMMA ReferenceTransactionAbortStep ==
    ASSUME TypeOK, TracingInvariant, Running, NEW e \in Events, ReferenceTransactionAbort(e)
    PROVE  TypeOK' /\ TracingInvariant'
<1>1. ThreadsTogether(e) /\ (e \notin shared => Sound(e)) /\ sender \in Senders
  BY Roles
<1>2. /\ Own(e) \in Slots /\ state = "offered" /\ active[e]
      /\ sender[e].stage = "begin" \/ sender[e].stage = "increment"
      /\ (sample[e] # None => sample[e] \in Slots)
  BY Roles DEF At, ReferenceTransactionAbort
<1>3. e \notin shared /\ sender[e].stage = "increment" => Entry(e, Own(e), {"begin"}, 0) /\ sample[e] # Own(e)
  BY <1>1, <1>2 DEF Sound, SenderOwnsEntry, At, Referencing
<1>4. /\ log' \in [Events -> [Slots -> Flags]]
      /\ \A f \in Events \ {e} : log'[f] = log[f]
      /\ \A u \in Slots \ {Own(e)} : log'[e][u] = log[e][u]
      /\ sender[e].stage = "begin" => log' = log
      /\ sender[e].stage = "increment" /\ e \notin shared => log'[e][Own(e)] = {}
  <2>1. log \in [Events -> [Slots -> Flags]]
    BY DEF TypeOK
  <2>2. log[e][Own(e)] \ {"begin"} \in Flags
    BY <1>2, <2>1 DEF Flags
  <2>3. CASE sender[e].stage = "begin"
    BY <2>1, <2>3 DEF ReferenceTransactionAbort, At
  <2>4. CASE sender[e].stage = "increment"
    <3>1. SetLog(e, Own(e), log[e][Own(e)] \ {"begin"})
      BY <2>4 DEF ReferenceTransactionAbort, At
    <3>2. e \notin shared => log[e][Own(e)] \ {"begin"} = {}
      BY <1>3, <2>4 DEF Entry
    <3> QED
      BY <1>2, <2>1, <2>2, <2>4, <3>1, <3>2, LogMoves
  <2> QED
    BY <1>2, <2>3, <2>4
<1>5. UNCHANGED <<state, sample, callback, reading, refs, enabled, memory, offers, active, stuck, again,
                  shared, typed, disconnected, handle, cached, local, is_tracing_enabled,
                  consecutive_failure_counter>>
  BY DEF ReferenceTransactionAbort, service, binding
<1>6. data_loss_flag' \in BOOLEAN
  BY DEF ReferenceTransactionAbort, TypeOK
<1>7. /\ sender' \in Senders /\ sender'[e].stage = "idle" /\ sender'[e].result = "ok"
      /\ \A f \in Events \ {e} : sender'[f] = sender[f]
  <2>1. Idle \in [stage : Stages, slot : Slots \cup {None}, point : SendPoints, result : Outcomes]
    BY DEF Idle, Stages, SendPoints, Outcomes, ApiResults
  <2>2. sender' = [sender EXCEPT ![e] = Idle] /\ Idle.stage = "idle" /\ Idle.result = "ok"
    BY DEF ReferenceTransactionAbort, Idle
  <2> QED
    BY <1>1, <2>1, <2>2 DEF Senders
<1>8. ASSUME e \notin shared PROVE Sound(e)'
  <2>1. Accounts(e) /\ SenderOwnsEntry(e) /\ ParkedEntry(e) /\ EntriesCleared(e)
    BY <1>1, <1>8 DEF Sound
  <2>2. SenderOwnsEntry(e)'
    BY <1>7 DEF SenderOwnsEntry, At, Referencing
  <2>3. CASE sender[e].stage = "begin"
    <3>1. Accounts(e)' /\ ParkedEntry(e)'
      BY <1>4, <1>5, <2>1, <2>3 DEF Accounts, ParkedEntry, Entry
    <3>2. EntriesCleared(e)'
      BY <1>2, <1>4, <1>5, <1>7, <2>1, <2>3 DEF EntriesCleared, Entry, Own, At, Referencing
    <3> QED
      BY <2>2, <3>1, <3>2 DEF Sound
  <2>4. CASE sender[e].stage = "increment"
    <3>1. Entry(e, Own(e), {"begin"}, 0) /\ sample[e] # Own(e) /\ log'[e][Own(e)] = {}
      BY <1>3, <1>4, <1>8, <2>4
    <3>2. Accounts(e)'
      BY <1>2, <1>4, <1>5, <2>1, <3>1, FlagsDiffer DEF Accounts, Entry
    <3>3. ParkedEntry(e)'
      BY <1>2, <1>4, <1>5, <2>1, <3>1 DEF ParkedEntry, Entry
    <3>4. EntriesCleared(e)'
      BY <1>2, <1>4, <1>5, <1>7, <2>1, <3>1 DEF EntriesCleared, Entry, Own, At, Referencing
    <3> QED
      BY <2>2, <3>2, <3>3, <3>4 DEF Sound
  <2> QED
    BY <1>2, <2>3, <2>4
<1>8a. ThreadsTogether(e)'
  BY <1>1, <1>2, <1>5, <1>7 DEF ThreadsTogether, Own, At
<1>9. Failing' \subseteq Failing
  BY <1>7 DEF Failing, At
<1>10. FailuresCounted'
  BY <1>5, <1>9, NoNewFailure
<1>11. consecutive_failure_counter' \in Nat
  BY <1>5, CounterIsNatural
<1> QED
  BY <1>4, <1>5, <1>6, <1>7, <1>8, <1>8a, <1>10, <1>11, EventMoves DEF TypeOK

(* The steps of a sender that change the log or the reference only.        *)
LEMMA ReferenceSteps ==
    ASSUME TypeOK, TracingInvariant, Running, NEW e \in Events,
           ReferenceSlot(e) \/ ReferenceTransactionCommit(e)
    PROVE  TypeOK' /\ TracingInvariant'
<1>1. CASE ReferenceSlot(e)
  BY <1>1, SlotReferenced DEF ReferenceSlot, service, binding, runtime, switches
<1>2. CASE ReferenceTransactionCommit(e)
  BY <1>2, CommitLogged DEF ReferenceTransactionCommit, service, binding, runtime, switches
<1> QED
  BY <1>1, <1>2

(* Trace either drops the sample or parks it for the call.                 *)
LEMMA TraceStep ==
    ASSUME TypeOK, TracingInvariant, Running, NEW e \in Events, Trace(e)
    PROVE  TypeOK' /\ TracingInvariant'
<1>1. At(e, "trace") /\ callback[e] = "idle"
      /\ UNCHANGED <<log, refs, reading, callback, state, enabled, memory, offers, active, stuck,
                     again, shared, typed, disconnected, handle, cached, local,
                     is_tracing_enabled, consecutive_failure_counter>>
  BY DEF Trace, service, binding
<1>2. ASSUME UNCHANGED sample, NEW r \in {"disabled", "busy", "unregistered"}, Returned(e, "drop", r),
             data_loss_flag' \in BOOLEAN
      PROVE  TypeOK' /\ TracingInvariant'
  BY <1>1, <1>2, TraceDrops
<1>3. ASSUME is_tracing_enabled, sample[e] = None, sample' = [sample EXCEPT ![e] = Own(e)],
             Goto(e, "call"), UNCHANGED data_loss_flag
      PROVE  TypeOK' /\ TracingInvariant'
  BY <1>1, <1>3, TraceParks
<1>4. data_loss_flag \in BOOLEAN
  BY DEF TypeOK
<1> QED
  BY <1>2, <1>3, <1>4 DEF Trace, IsServiceElementTracingActive

(* The call into the tracing library succeeds, or fails in one of two      *)
(* ways.                                                                   *)
LEMMA CallStep ==
    ASSUME TypeOK, TracingInvariant, Running, NEW e \in Events, CallGenericTraceApi(e)
    PROVE  TypeOK' /\ TracingInvariant'
<1>1. At(e, "call")
      /\ UNCHANGED <<log, refs, callback, state, enabled, memory, offers, active, stuck, again,
                     shared, typed, disconnected, handle, cached, local, is_tracing_enabled,
                     consecutive_failure_counter, data_loss_flag>>
  BY DEF CallGenericTraceApi, service, binding, runtime, switches
<1>2. CASE /\ reading' = [reading EXCEPT ![e] = Own(e)]
           /\ Returned(e, "process", "ok") /\ UNCHANGED sample
  BY <1>1, <1>2, ApiAccepts
<1>3. ASSUME NEW r \in ApiErrors, sample' = [sample EXCEPT ![e] = None], Returned(e, "drop", r),
             UNCHANGED reading
      PROVE  TypeOK' /\ TracingInvariant'
  BY <1>1, <1>3, ApiRefuses
<1> QED
  BY <1>2, <1>3 DEF CallGenericTraceApi

(* The three steps in which a sender releases its slot.                    *)
LEMMA ReleaseStep ==
    ASSUME TypeOK, TracingInvariant, Running, NEW e \in Events, Release(e)
    PROVE  TypeOK' /\ TracingInvariant'
<1>1. UNCHANGED <<sample, reading, callback, state, enabled, memory, offers, active, stuck, again,
                  shared, typed, disconnected, handle, cached, local, is_tracing_enabled,
                  consecutive_failure_counter, data_loss_flag>>
  BY DEF Release, service, binding, runtime, switches
<1>2. CASE At(e, "drop")
  <2>1. SetLog(e, Own(e), log[e][Own(e)] \ {"begin"}) /\ Goto(e, "dereference") /\ UNCHANGED refs
    BY <1>2 DEF Release, At
  <2> QED
    BY <1>1, <1>2, <2>1, ReleaseBegins
<1>3. CASE At(e, "dereference")
  <2>1. refs' = [refs EXCEPT ![e][Own(e)] = @ - 1] /\ Goto(e, "dereferenced") /\ UNCHANGED log
    BY <1>3 DEF Release, At
  <2> QED
    BY <1>1, <1>3, <2>1, ReleaseDereferences
<1>4. CASE At(e, "dereferenced")
  <2>1. SetLog(e, Own(e), log[e][Own(e)] \ {"end"}) /\ Goto(e, "process") /\ UNCHANGED refs
    BY <1>4 DEF Release, At
  <2> QED
    BY <1>1, <1>4, <2>1, ReleaseEnds
<1> QED
  BY <1>2, <1>3, <1>4 DEF Release

(* The three steps of the trace-done callback.                             *)
LEMMA TraceDoneStep ==
    ASSUME TypeOK, TracingInvariant, Running, NEW e \in Events, TraceDone(e)
    PROVE  TypeOK' /\ TracingInvariant'
<1>1. UNCHANGED <<sender, state, enabled, memory, offers, active, stuck, again, shared, typed,
                  disconnected, handle, cached, local, is_tracing_enabled,
                  consecutive_failure_counter, data_loss_flag>>
  BY DEF TraceDone, service, binding, runtime, switches
<1>2. CASE callback[e] = "idle"
  <2>1. /\ reading[e] # None /\ sample[e] # None /\ reading' = [reading EXCEPT ![e] = None]
        /\ SetLog(e, sample[e], log[e][sample[e]] \ {"begin"})
        /\ callback' = [callback EXCEPT ![e] = "dereference"] /\ UNCHANGED <<sample, refs>>
    BY <1>2 DEF TraceDone, IsServiceElementTracingActive
  <2> QED
    BY <1>1, <1>2, <2>1, DoneBegins
<1>3. CASE callback[e] = "dereference"
  <2>1. /\ refs' = [refs EXCEPT ![e][sample[e]] = @ - 1]
        /\ callback' = [callback EXCEPT ![e] = "dereferenced"] /\ UNCHANGED <<sample, log, reading>>
    BY <1>3 DEF TraceDone
  <2> QED
    BY <1>1, <1>3, <2>1, DoneDereferences
<1>4. CASE callback[e] = "dereferenced"
  <2>1. /\ SetLog(e, sample[e], log[e][sample[e]] \ {"end"}) /\ sample' = [sample EXCEPT ![e] = None]
        /\ callback' = [callback EXCEPT ![e] = "idle"] /\ UNCHANGED <<refs, reading>>
    BY <1>4 DEF TraceDone
  <2> QED
    BY <1>1, <1>4, <2>1, DoneEnds
<1> QED
  BY <1>2, <1>3, <1>4 DEF TraceDone

(* A result that counts no failure keeps the count.                        *)
LEMMA FailuresStayCounted ==
    ASSUME TypeOK, TracingInvariant, Failing' \subseteq Failing,
           consecutive_failure_counter' \in Nat,
           is_tracing_enabled' => consecutive_failure_counter' < MaxFailures,
           \/ is_tracing_enabled /\ consecutive_failure_counter' <= MaxFailures
           \/ consecutive_failure_counter' <= consecutive_failure_counter
           \/ /\ consecutive_failure_counter' <= consecutive_failure_counter + 1
              /\ Failing' # Failing
    PROVE  FailuresCounted'
<1>0. Failing \subseteq Events
  BY DEF Failing
<1>1. /\ Cardinality(Failing') <= Cardinality(Failing) /\ Cardinality(Failing) \in Nat
      /\ Cardinality(Failing') \in Nat /\ Cardinality(Failing) <= Cardinality(Events)
      /\ (Failing' # Failing => Cardinality(Failing') + 1 <= Cardinality(Failing))
  BY <1>0, FewerFailing
<1>2. consecutive_failure_counter + Cardinality(Failing) <= MaxFailures + Cardinality(Events)
  BY Zenon DEF FailuresCounted, TracingInvariant
<1>3. consecutive_failure_counter \in Nat
  BY CounterIsNatural
<1>4. consecutive_failure_counter' + Cardinality(Failing') <= MaxFailures + Cardinality(Events)
  <2>1. CASE consecutive_failure_counter' <= MaxFailures
    BY <1>1, <2>1, Numbers
  <2>2. CASE consecutive_failure_counter' <= consecutive_failure_counter
    BY <1>1, <1>2, <1>3, <2>2, Numbers
  <2>3. CASE /\ consecutive_failure_counter' <= consecutive_failure_counter + 1
             /\ Failing' # Failing
    BY <1>1, <1>2, <1>3, <2>3, Numbers
  <2> QED
    BY <2>1, <2>2, <2>3, Zenon
<1> QED
  BY <1>4, Zenon DEF FailuresCounted

(* Processing a result moves a failing event into the counter, or resets   *)
(* the counter, or switches tracing off.                                   *)
LEMMA ResultProcessed ==
    ASSUME TypeOK, TracingInvariant, NEW r, ProcessTraceCallResult(r)
    PROVE  /\ is_tracing_enabled' \in BOOLEAN /\ data_loss_flag' \in BOOLEAN
           /\ consecutive_failure_counter' \in Nat
           /\ is_tracing_enabled' => is_tracing_enabled
           /\ is_tracing_enabled' => consecutive_failure_counter' < MaxFailures
           /\ is_tracing_enabled => consecutive_failure_counter' <= MaxFailures
           /\ consecutive_failure_counter' <= consecutive_failure_counter + 1
           /\ r \notin {"recoverable", "fatal"} =>
                 consecutive_failure_counter' <= consecutive_failure_counter
<1>1. consecutive_failure_counter \in Nat /\ is_tracing_enabled \in BOOLEAN /\ data_loss_flag \in BOOLEAN
  BY CounterIsNatural DEF TypeOK
<1>2. is_tracing_enabled => consecutive_failure_counter < MaxFailures
  BY Zenon DEF FailuresCounted, TracingInvariant
<1>3. CASE r = "ok"
  <2>1. data_loss_flag' = FALSE /\ consecutive_failure_counter' = 0
        /\ is_tracing_enabled' = is_tracing_enabled
    BY <1>3 DEF ProcessTraceCallResult
  <2>2. consecutive_failure_counter' \in Nat /\ consecutive_failure_counter' < MaxFailures
        /\ consecutive_failure_counter' <= MaxFailures
        /\ consecutive_failure_counter' <= consecutive_failure_counter
        /\ consecutive_failure_counter' <= consecutive_failure_counter + 1
    BY <1>1, <2>1, Numbers
  <2>3. is_tracing_enabled' \in BOOLEAN /\ data_loss_flag' \in BOOLEAN
        /\ (is_tracing_enabled' => is_tracing_enabled)
    BY <1>1, <2>1
  <2> QED
    BY <2>2, <2>3, Zenon
<1>4. CASE r = "terminal"
  <2>1. is_tracing_enabled' = FALSE /\ data_loss_flag' = data_loss_flag
        /\ consecutive_failure_counter' = consecutive_failure_counter
    BY <1>4 DEF ProcessTraceCallResult
  <2>2. consecutive_failure_counter' \in Nat
        /\ (consecutive_failure_counter < MaxFailures => consecutive_failure_counter' < MaxFailures)
        /\ (consecutive_failure_counter < MaxFailures => consecutive_failure_counter' <= MaxFailures)
        /\ consecutive_failure_counter' <= consecutive_failure_counter
        /\ consecutive_failure_counter' <= consecutive_failure_counter + 1
    BY <1>1, <2>1, Numbers
  <2>3. is_tracing_enabled' \in BOOLEAN /\ data_loss_flag' \in BOOLEAN
        /\ (is_tracing_enabled' => is_tracing_enabled)
    BY <1>1, <2>1
  <2> QED
    BY <1>2, <2>2, <2>3, Zenon
<1>5. CASE r \in {"recoverable", "fatal"}
  <2>1. data_loss_flag' = TRUE /\ consecutive_failure_counter' = consecutive_failure_counter + 1
        /\ is_tracing_enabled' = (is_tracing_enabled /\ ~TooManyFailures)
    BY <1>5 DEF ProcessTraceCallResult
  <2>2. is_tracing_enabled' \in BOOLEAN /\ (is_tracing_enabled' => is_tracing_enabled /\ ~TooManyFailures)
    BY <2>1
  <2>3. ~TooManyFailures => consecutive_failure_counter + 1 < MaxFailures
    BY <1>1, Numbers DEF TooManyFailures
  <2>4. consecutive_failure_counter < MaxFailures => consecutive_failure_counter + 1 <= MaxFailures
    BY <1>1, Numbers
  <2>5. consecutive_failure_counter + 1 \in Nat
        /\ consecutive_failure_counter + 1 <= consecutive_failure_counter + 1
    BY <1>1
  <2>6. data_loss_flag' \in BOOLEAN
    BY <2>1
  <2> QED
    BY <1>2, <1>5, <2>1, <2>2, <2>3, <2>4, <2>5, <2>6, Zenon
<1>6. CASE r \notin {"ok", "terminal", "recoverable", "fatal"}
  <2>1. UNCHANGED <<is_tracing_enabled, consecutive_failure_counter, data_loss_flag>>
    BY <1>6 DEF ProcessTraceCallResult
  <2>2. consecutive_failure_counter' \in Nat
        /\ (consecutive_failure_counter < MaxFailures => consecutive_failure_counter' < MaxFailures)
        /\ (consecutive_failure_counter < MaxFailures => consecutive_failure_counter' <= MaxFailures)
        /\ consecutive_failure_counter' <= consecutive_failure_counter
        /\ consecutive_failure_counter' <= consecutive_failure_counter + 1
    BY <1>1, <2>1, Numbers
  <2>3. is_tracing_enabled' \in BOOLEAN /\ data_loss_flag' \in BOOLEAN
        /\ (is_tracing_enabled' => is_tracing_enabled)
    BY <1>1, <2>1
  <2> QED
    BY <1>2, <2>2, <2>3, Zenon
<1> QED
  BY <1>3, <1>4, <1>5, <1>6

(* The points that stay enabled were enabled.                              *)
LEMMA LeftEnabledIsSubset == \A points, p, r : LeftEnabled(points, p, r) \subseteq points
<1> SUFFICES ASSUME NEW points, NEW p, NEW r PROVE LeftEnabled(points, p, r) \subseteq points
  OBVIOUS
<1>1. LeftEnabled(points, p, r) \in {{}, points \ {p}, points}
  BY DEF LeftEnabled
<1> QED
  BY <1>1

(* The sender returns with the result.                                     *)
LEMMA TraceReturnsStep ==
    ASSUME TypeOK, TracingInvariant, Running, NEW e \in Events, TraceReturns(e)
    PROVE  TypeOK' /\ TracingInvariant'
<1> DEFINE r == sender[e].result
<1>1. /\ ThreadsTogether(e) /\ (e \notin shared => Sound(e)) /\ sender \in Senders
      /\ sender[e].stage = "process" /\ state = "offered" /\ active[e]
      /\ (sample[e] # None => sample[e] \in Slots)
  BY Roles DEF TraceReturns, At
<1>2. UNCHANGED <<state, sample, callback, reading, refs, log, memory, offers, active, stuck,
                  again, shared, typed, disconnected, handle, cached, local>>
  BY DEF TraceReturns, service, binding
<1>3. /\ is_tracing_enabled' \in BOOLEAN /\ data_loss_flag' \in BOOLEAN
      /\ consecutive_failure_counter' \in Nat
      /\ is_tracing_enabled' => consecutive_failure_counter' < MaxFailures
      /\ is_tracing_enabled => consecutive_failure_counter' <= MaxFailures
      /\ consecutive_failure_counter' <= consecutive_failure_counter + 1
      /\ r \notin {"recoverable", "fatal"} =>
            consecutive_failure_counter' <= consecutive_failure_counter
  BY ResultProcessed DEF TraceReturns
<1>4. /\ enabled' \in [Events -> SUBSET SendPoints]
      /\ \A f \in Events \ {e} : enabled'[f] = enabled[f]
  <2>1. enabled \in [Events -> SUBSET SendPoints]
    BY DEF TypeOK
  <2>2. enabled' = [enabled EXCEPT ![e] = LeftEnabled(enabled[e], sender[e].point, r)]
    BY <2>1 DEF TraceReturns
  <2>3. LeftEnabled(enabled[e], sender[e].point, r) \subseteq SendPoints
    BY <2>1, LeftEnabledIsSubset
  <2> QED
    BY <2>1, <2>2, <2>3
<1>5. /\ sender' \in Senders /\ sender'[e].stage = "idle" /\ sender'[e].result = "ok"
      /\ \A f \in Events \ {e} : sender'[f] = sender[f]
  <2>1. Idle \in [stage : Stages, slot : Slots \cup {None}, point : SendPoints, result : Outcomes]
    BY DEF Idle, Stages, SendPoints, Outcomes, ApiResults
  <2>2. sender' = [sender EXCEPT ![e] = Idle] /\ Idle.stage = "idle" /\ Idle.result = "ok"
    BY DEF TraceReturns, Idle
  <2> QED
    BY <1>1, <2>1, <2>2 DEF Senders
<1>6. ASSUME e \notin shared PROVE Sound(e)'
  <2>1. Accounts(e) /\ SenderOwnsEntry(e) /\ ParkedEntry(e) /\ EntriesCleared(e)
    BY <1>1, <1>6 DEF Sound
  <2>2. Accounts(e)' /\ ParkedEntry(e)'
    BY <1>2, <2>1 DEF Accounts, ParkedEntry, Entry
  <2>3. SenderOwnsEntry(e)'
    BY <1>5 DEF SenderOwnsEntry, At, Referencing
  <2>5. EntriesCleared(e)'
    BY <1>1, <1>2, <1>5, <2>1 DEF EntriesCleared, Entry, Own, At, Referencing
  <2> QED
    BY <2>2, <2>3, <2>5 DEF Sound
<1>6a. ThreadsTogether(e)'
  BY <1>1, <1>2, <1>5 DEF ThreadsTogether, Own, At
<1>7. Failing' \subseteq Failing
  BY <1>5 DEF Failing, At
<1>8. r \in {"recoverable", "fatal"} => Failing' # Failing
  <2>1. r \in {"recoverable", "fatal"} => e \in Failing
    BY DEF Failing
  <2>2. e \notin Failing'
    BY <1>5 DEF Failing, At
  <2> QED
    BY <2>1, <2>2
<1>9. FailuresCounted'
  BY <1>3, <1>7, <1>8, FailuresStayCounted, Zenon
<1> QED
  BY <1>1, <1>2, <1>3, <1>4, <1>5, <1>6, <1>6a, <1>9, EventMoves DEF TypeOK

(* Tracing with a local, copied sample involves no log.                    *)
LEMMA TraceLocalStep ==
    ASSUME TypeOK, TracingInvariant, Running, NEW p \in LocalPoints, TraceLocal(p)
    PROVE  TypeOK' /\ TracingInvariant'
<1>1. PICK r \in LocalResults : ProcessTraceCallResult(r) /\ local' = LeftEnabled(local, p, r)
  BY DEF TraceLocal
<1>2. UNCHANGED <<state, handle, cached, memory, active, offers, stuck, again, shared, typed,
                  disconnected, enabled, sample, sender, callback, refs, log, reading>>
  BY DEF TraceLocal, service, binding
<1>3. /\ is_tracing_enabled' \in BOOLEAN /\ data_loss_flag' \in BOOLEAN
      /\ consecutive_failure_counter' \in Nat
      /\ is_tracing_enabled' => consecutive_failure_counter' < MaxFailures
      /\ is_tracing_enabled => consecutive_failure_counter' <= MaxFailures
      /\ r \notin {"recoverable", "fatal"} =>
            consecutive_failure_counter' <= consecutive_failure_counter
  BY <1>1, ResultProcessed
<1>4. ~is_tracing_enabled => r \notin {"recoverable", "fatal"}
  BY DEF LocalResults
<1>5. local' \subseteq LocalPoints
  BY <1>1, LeftEnabledIsSubset DEF TypeOK
<1>6. Failing' \subseteq Failing
  BY <1>2 DEF Failing, At
<1>7. FailuresCounted'
  BY <1>3, <1>4, <1>6, FailuresStayCounted, Zenon
<1>8. LogAccountsForReferences' /\ memory' <= offers'
  BY <1>2 DEF TracingInvariant, LogAccountsForReferences
<1>9. ASSUME NEW f \in Events
      PROVE  /\ ThreadsTogether(f)'
             /\ f \notin shared' => SenderOwnsEntry(f)' /\ ParkedEntry(f)' /\ EntriesCleared(f)'
  <2>1. /\ ThreadsTogether(f)
        /\ f \notin shared => SenderOwnsEntry(f) /\ ParkedEntry(f) /\ EntriesCleared(f)
    BY DEF TracingInvariant
  <2>2. ThreadsTogether(f)'
    BY <1>2, <2>1 DEF ThreadsTogether, Own, At
  <2>3. f \notin shared => SenderOwnsEntry(f)'
    BY <1>2, <2>1 DEF SenderOwnsEntry, Entry, Own, At
  <2>4. f \notin shared => ParkedEntry(f)'
    BY <1>2, <2>1 DEF ParkedEntry, Entry
  <2>5. f \notin shared => EntriesCleared(f)'
    BY <1>2, <2>1 DEF EntriesCleared, Entry, Own, At
  <2> QED
    BY <1>2, <2>2, <2>3, <2>4, <2>5
<1>10. TracingInvariant'
  BY <1>7, <1>8, <1>9 DEF TracingInvariant
<1>11. consecutive_failure_counter' \in 0 .. (MaxFailures + Cardinality(Events))
  BY <1>3, <1>7, CounterBound
<1>12. TypeOK'
  BY <1>2, <1>3, <1>5, <1>11 DEF TypeOK
<1> QED
  BY <1>10, <1>12

-----------------------------------------------------------------------------
(* Offers, stop-offers, crashes, and the theorem.                          *)

(* The memory of the instance has a number.                                *)
LEMMA MemoryNumbers ==
    ASSUME TypeOK, TracingInvariant
    PROVE  /\ memory \in 0..MaxOffers /\ memory \in Nat /\ offers \in 0..MaxOffers /\ offers \in Nat
           /\ memory <= offers /\ handle \in 0..memory /\ cached \subseteq {ShmKey}
<1>1. /\ memory \in 0..MaxOffers /\ offers \in 0..MaxOffers /\ memory <= offers
      /\ handle \in 0..memory /\ cached \subseteq {ShmKey}
  BY Zenon DEF TypeOK, TracingInvariant
<1> QED
  BY <1>1, Numbers

(* No sender is under way while the service is stopped or half offered,    *)
(* and nothing is parked, unless two threads used an entry of the log.     *)
LEMMA NothingUnderWay ==
    ASSUME TypeOK, TracingInvariant, state \in {"stopped", "prepared"}, NEW e \in Events
    PROVE  /\ At(e, "idle") /\ ThreadsTogether(e)
           /\ e \notin shared => sample[e] = None
           /\ sample[e] = None => callback[e] = "idle" /\ reading[e] = None
<1>1. ThreadsTogether(e) /\ (e \notin shared => EntriesCleared(e))
  BY DEF TracingInvariant
<1>2. reading[e] \in Slots \cup {None} /\ callback[e] \in {"idle", "dereference", "dereferenced"}
  BY DEF TypeOK
<1> QED
  BY <1>1, <1>2, Numbers DEF ThreadsTogether, EntriesCleared

(* An entry that is not half-way is empty or complete.                     *)
LEMMA FlagSets ==
    ASSUME NEW F \in Flags, Cardinality(F) # 1
    PROVE  F = {} \/ F = {"begin", "end"}
<1>1. F \in {{}, {"begin"}, {"end"}, {"begin", "end"}}
  BY DEF Flags
<1>2. Cardinality({"begin"}) = 1 /\ Cardinality({"end"}) = 1
  BY FS_Singleton
<1> QED
  BY <1>1, <1>2

(* The roll-back at a new offer clears every entry and gives back every    *)
(* reference the log accounts for.                                         *)
LEMMA RollbackAccounts ==
    ASSUME TypeOK, TracingInvariant, RollbackSkeletonTracingTransactions
    PROVE  /\ refs' \in [Events -> [Slots -> Int]]
           /\ log' \in [Events -> [Slots -> Flags]]
           /\ \A e \in Events \ shared : Accounts(e)'
           /\ ~RollbackFails => \A e \in Events \ shared, s \in Slots : Entry(e, s, {}, 0)'
<1> DEFINE undone(e, s) == active[e] /\ s \in RolledBack(e)
<1>1. /\ refs' = [e \in Events |-> [s \in Slots |-> refs[e][s] - IF undone(e, s) THEN 1 ELSE 0]]
      /\ log'  = [e \in Events |-> [s \in Slots |-> IF undone(e, s) THEN {} ELSE log[e][s]]]
  BY DEF RollbackSkeletonTracingTransactions
<1>2. refs \in [Events -> [Slots -> Int]] /\ log \in [Events -> [Slots -> Flags]]
  BY DEF TypeOK
<1>3. ASSUME NEW e \in Events, NEW s \in Slots
      PROVE  /\ undone(e, s) => refs'[e][s] = refs[e][s] - 1 /\ log'[e][s] = {}
             /\ undone(e, s) => log[e][s] = {"begin", "end"}
             /\ ~undone(e, s) => refs'[e][s] = refs[e][s] /\ log'[e][s] = log[e][s]
  <2>1. refs[e][s] \in Int
    BY <1>2
  <2>2. refs'[e][s] = refs[e][s] - (IF undone(e, s) THEN 1 ELSE 0)
        /\ log'[e][s] = IF undone(e, s) THEN {} ELSE log[e][s]
    BY <1>1
  <2>3. undone(e, s) => log[e][s] = {"begin", "end"}
    BY DEF RolledBack
  <2> QED
    BY <2>1, <2>2, <2>3
<1>4. refs' \in [Events -> [Slots -> Int]]
  <2>1. ASSUME NEW e \in Events, NEW s \in Slots
        PROVE  refs[e][s] - (IF undone(e, s) THEN 1 ELSE 0) \in Int
    BY <1>2
  <2> QED
    BY <1>1, <2>1
<1>5. log' \in [Events -> [Slots -> Flags]]
  BY <1>1, <1>2 DEF Flags
<1>6. ASSUME NEW e \in Events \ shared PROVE Accounts(e) /\ EntriesCleared(e)
  BY <1>6, InvariantByEvent DEF Sound
<1>7. ASSUME NEW e \in Events \ shared PROVE Accounts(e)'
  <2>1. ASSUME NEW s \in Slots, undone(e, s)
        PROVE  log'[e][s] = {} /\ refs'[e][s] = 0
    BY <1>3, <1>6, <2>1 DEF Accounts
  <2>2. ASSUME NEW s \in Slots, ~undone(e, s)
        PROVE  log'[e][s] = log[e][s] /\ refs'[e][s] = refs[e][s]
    BY <1>3, <2>2
  <2>3. ASSUME NEW s \in Slots
        PROVE  /\ log'[e][s] = {"begin", "end"} => refs'[e][s] = 1
               /\ log'[e][s] = {} => refs'[e][s] = 0
               /\ refs'[e][s] \in 0..1
    BY <1>6, <2>1, <2>2, FlagsDiffer DEF Accounts
  <2> QED
    BY <2>3 DEF Accounts
<1>8. ASSUME ~RollbackFails, NEW e \in Events \ shared, NEW s \in Slots PROVE Entry(e, s, {}, 0)'
  <2>1. CASE ~active[e]
    <3>1. Entry(e, s, {}, 0)
      BY <1>6, <2>1 DEF EntriesCleared
    <3> QED
      BY <1>3, <2>1, <3>1 DEF Entry
  <2>2. CASE active[e]
    <3>1. Unfinished(e) = {}
      BY <1>8, <2>2 DEF RollbackFails
    <3>2. log[e][s] = {} \/ log[e][s] = {"begin", "end"}
      BY <1>2, <3>1, FlagSets DEF Unfinished
    <3>3. CASE log[e][s] = {"begin", "end"}
      <4>1. undone(e, s)
        BY <2>2, <3>1, <3>3 DEF RolledBack
      <4>2. refs[e][s] = 1
        BY <1>6, <3>3 DEF Accounts
      <4> QED
        BY <1>3, <4>1, <4>2 DEF Entry
    <3>4. CASE log[e][s] = {}
      <4>1. ~undone(e, s)
        BY <1>3, <3>4, FlagsDiffer
      <4>2. refs[e][s] = 0
        BY <1>6, <3>4 DEF Accounts
      <4> QED
        BY <1>3, <3>4, <4>1, <4>2 DEF Entry
    <3> QED
      BY <3>2, <3>3, <3>4
  <2> QED
    BY <2>1, <2>2
<1> QED
  BY <1>4, <1>5, <1>7, <1>8

(* New memory comes with empty logs and no references.                     *)
LEMMA NewLogs ==
    ASSUME CreateLogs
    PROVE  /\ refs' \in [Events -> [Slots -> Int]]
           /\ log' \in [Events -> [Slots -> Flags]]
           /\ \A e \in Events, s \in Slots : Entry(e, s, {}, 0)'
           /\ \A e \in Events : Accounts(e)'
BY FlagsDiffer DEF CreateLogs, NewLog, Entry, Accounts, Flags

(* How an offer ends: the process is ended by the registration, or the     *)
(* logs are rolled back or made anew.                                      *)
LEMMA OfferEnds ==
    ASSUME TypeOK, TracingInvariant, NEW result \in OfferResults, NEW reopen \in BOOLEAN,
           OfferService(result, reopen)
    PROVE  /\ typed' \in BOOLEAN /\ handle' \in {handle, memory'}
           /\ handle' # handle => Registers
           /\ cached' \subseteq cached \cup {ShmKey}
           /\ (is_tracing_enabled' => is_tracing_enabled) /\ is_tracing_enabled' \in BOOLEAN
           /\ stuck' \in BOOLEAN
           /\ \/ /\ state' \in {"no callback", "registered twice"}
                 /\ UNCHANGED <<handle, refs, log, active, stuck, disconnected, shared>>
              \/ /\ state' = result
                 /\ stuck' = (reopen /\ (stuck \/ RollbackFails))
                 /\ IF reopen THEN RollbackSkeletonTracingTransactions ELSE CreateLogs
                 /\ active' = [e \in Events |-> TRUE]
                 /\ disconnected' = {}
                 /\ shared' = IF reopen THEN shared ELSE {e \in shared : sample[e] # None}
<1>1. is_tracing_enabled \in BOOLEAN /\ stuck \in BOOLEAN /\ typed \in BOOLEAN
  BY DEF TypeOK
<1>2. PICK r \in ApiResults, t \in TypedMemory(reopen) :
         LET registration == IF t THEN Registration(r, memory') ELSE NoRegistration
         IN  /\ typed' = t
             /\ \/ /\ state' \in Ends(t, r)
                   /\ UNCHANGED <<is_tracing_enabled, handle, cached, refs, log, active, stuck,
                                  disconnected, shared>>
                \/ /\ Ends(t, r) = {}
                   /\ state' = result
                   /\ handle' = registration.handle
                   /\ cached' = registration.cached
                   /\ is_tracing_enabled' = (registration.enabled /\ ~(reopen /\ RollbackFails))
                   /\ stuck' = (reopen /\ (stuck \/ RollbackFails))
                   /\ IF reopen THEN RollbackSkeletonTracingTransactions ELSE CreateLogs
                   /\ active' = [e \in Events |-> TRUE]
                   /\ disconnected' = {}
                   /\ shared' = IF reopen THEN shared ELSE {e \in shared : sample[e] # None}
  BY DEF OfferService
<1>3. typed' \in BOOLEAN
  BY <1>1, <1>2 DEF TypedMemory
<1>4. Ends(t, r) \subseteq {"no callback", "registered twice"}
  BY DEF Ends
<1>5. CASE state' \in Ends(t, r) /\ UNCHANGED <<is_tracing_enabled, handle, cached, refs, log, active, stuck,
                                                disconnected, shared>>
  BY <1>1, <1>3, <1>4, <1>5
<1>6. ASSUME NEW registration, registration = Registration(r, memory') \/ registration = NoRegistration
      PROVE  /\ registration.handle \in {handle, memory'}
             /\ registration.handle # handle => Registers
             /\ registration.cached \subseteq cached \cup {ShmKey}
             /\ registration.enabled => is_tracing_enabled
             /\ registration.enabled \in BOOLEAN
  <2>1. CASE registration = NoRegistration
    BY <1>1, <2>1 DEF NoRegistration
  <2>2. CASE registration = Registration(r, memory')
    <3>1. /\ registration.handle = IF Registers /\ r = "ok" THEN memory' ELSE handle
          /\ registration.cached = IF Registers /\ r = "recoverable" THEN cached \cup {ShmKey} ELSE cached
          /\ registration.enabled = (is_tracing_enabled /\ ~(Registers /\ r = "terminal"))
      BY <2>2 DEF Registration
    <3>2. /\ registration.handle \in {handle, memory'}
          /\ registration.handle # handle => Registers
          /\ registration.cached \subseteq cached \cup {ShmKey}
      BY <3>1
    <3>3. (registration.enabled => is_tracing_enabled) /\ registration.enabled \in BOOLEAN
      BY <1>1, <3>1
    <3> QED
      BY <3>2, <3>3
  <2> QED
    BY <1>6, <2>1, <2>2
<1>7. ASSUME NEW registration, registration = Registration(r, memory') \/ registration = NoRegistration,
             /\ state' = result
             /\ handle' = registration.handle
             /\ cached' = registration.cached
             /\ is_tracing_enabled' = (registration.enabled /\ ~(reopen /\ RollbackFails))
             /\ stuck' = (reopen /\ (stuck \/ RollbackFails))
      PROVE  /\ handle' \in {handle, memory'} /\ (handle' # handle => Registers)
             /\ cached' \subseteq cached \cup {ShmKey}
             /\ (is_tracing_enabled' => is_tracing_enabled) /\ is_tracing_enabled' \in BOOLEAN
             /\ stuck' \in BOOLEAN
  BY <1>6, <1>7
<1> QED
  BY <1>2, <1>3, <1>5, <1>7

(* An offer rolls the log back or starts with new memory.                  *)
LEMMA OfferServiceStep ==
    ASSUME TypeOK, TracingInvariant, NEW result \in OfferResults, NEW reopen \in BOOLEAN,
           OfferService(result, reopen)
    PROVE  TypeOK' /\ TracingInvariant'
<1>1. \A e \in Events : /\ At(e, "idle") /\ ThreadsTogether(e)
                        /\ e \notin shared => sample[e] = None
                        /\ sample[e] = None => callback[e] = "idle" /\ reading[e] = None
  BY NothingUnderWay DEF OfferService
<1>2. /\ UNCHANGED <<consecutive_failure_counter, data_loss_flag, enabled, local, sample, sender,
                     callback, reading>>
      /\ offers' = offers + 1 /\ offers < MaxOffers
      /\ memory' = IF reopen THEN memory ELSE memory + 1
      /\ again' = (again \/ state = "prepared")
  BY DEF OfferService
<1>3. memory' \in Nat /\ memory' <= offers' /\ offers' \in 0..MaxOffers /\ memory' \in 0..MaxOffers
      /\ memory <= memory'
  <2>1. memory \in Nat /\ offers \in Nat /\ memory <= offers
    BY MemoryNumbers
  <2> QED
    BY <1>2, <2>1, Numbers
<1>4. /\ typed' \in BOOLEAN /\ handle' \in {handle, memory'}
      /\ cached' \subseteq cached \cup {ShmKey}
      /\ (is_tracing_enabled' => is_tracing_enabled) /\ is_tracing_enabled' \in BOOLEAN
      /\ stuck' \in BOOLEAN
  BY OfferEnds
<1>5. handle \in 0..memory /\ cached \subseteq {ShmKey} /\ memory \in Nat /\ again \in BOOLEAN
  BY MemoryNumbers DEF TypeOK
<1>6. result \in {"offered", "prepared"}
  BY ConstantsAssumption
<1>8. handle' \in 0..memory' /\ cached' \subseteq {ShmKey} /\ again' \in BOOLEAN
  BY <1>2, <1>3, <1>4, <1>5
<1>9. Failing' \subseteq Failing
  BY <1>2 DEF Failing, At
<1>10. FailuresCounted'
  <2>1. consecutive_failure_counter \in Nat
    BY CounterIsNatural
  <2>2. consecutive_failure_counter' \in Nat
        /\ consecutive_failure_counter' <= consecutive_failure_counter
        /\ (consecutive_failure_counter < MaxFailures => consecutive_failure_counter' < MaxFailures)
    BY <1>2, <2>1, Numbers
  <2>3. is_tracing_enabled => consecutive_failure_counter < MaxFailures
    BY Zenon DEF FailuresCounted, TracingInvariant
  <2>4. is_tracing_enabled' => consecutive_failure_counter' < MaxFailures
    BY <1>4, <2>2, <2>3, Zenon
  <2> QED
    BY <1>9, <2>2, <2>4, FailuresStayCounted, Zenon
<1>11. consecutive_failure_counter' \in 0 .. (MaxFailures + Cardinality(Events))
  BY <1>2 DEF TypeOK
<1>13. CASE /\ state' \in {"no callback", "registered twice"}
            /\ UNCHANGED <<handle, refs, log, active, stuck, disconnected, shared>>
  <2>1. ASSUME NEW e \in Events PROVE ThreadsTogether(e)'
    BY <1>1, <1>2, <1>13 DEF ThreadsTogether, Own, At
  <2>2. ASSUME NEW e \in Events, e \notin shared' PROVE Sound(e)'
    <3>1. Sound(e) /\ At(e, "idle")
      BY <1>1, <1>13, <2>2, InvariantByEvent
    <3>2. Accounts(e)' /\ SenderOwnsEntry(e)' /\ ParkedEntry(e)'
      BY <1>2, <1>13, <3>1 DEF Sound, Accounts, SenderOwnsEntry, ParkedEntry, Entry, Own, At
    <3>3. EntriesCleared(e)'
      BY <1>13, <3>1 DEF Sound, EntriesCleared, Entry
    <3> QED
      BY <3>2, <3>3 DEF Sound
  <2>3. TracingInvariant'
    BY <1>3, <1>10, <2>1, <2>2 DEF TracingInvariant, LogAccountsForReferences, Sound, Accounts
  <2> QED
    BY <1>2, <1>3, <1>4, <1>8, <1>11, <1>13, <2>3 DEF TypeOK
<1>14. CASE /\ state' = result
            /\ stuck' = (reopen /\ (stuck \/ RollbackFails))
            /\ IF reopen THEN RollbackSkeletonTracingTransactions ELSE CreateLogs
            /\ active' = [e \in Events |-> TRUE]
            /\ disconnected' = {}
            /\ shared' = IF reopen THEN shared ELSE {e \in shared : sample[e] # None}
  <2>1. ASSUME NEW e \in Events, e \notin shared'
        PROVE  (reopen => e \notin shared) /\ sample[e] = None
    BY <1>1, <1>14, <2>1
  <2>2. /\ refs' \in [Events -> [Slots -> Int]]
        /\ log' \in [Events -> [Slots -> Flags]]
        /\ \A e \in Events \ shared' : Accounts(e)'
        /\ ~stuck' => \A e \in Events \ shared', s \in Slots : Entry(e, s, {}, 0)'
    <3>1. CASE reopen
      BY <1>14, <2>1, <3>1, RollbackAccounts
    <3>2. CASE ~reopen
      BY <1>14, <3>2, NewLogs
    <3> QED
      BY <3>1, <3>2
  <2>3. ASSUME NEW e \in Events PROVE ThreadsTogether(e)'
    BY <1>1, <1>2, <1>14 DEF ThreadsTogether, Own, At
  <2>4. ASSUME NEW e \in Events, e \notin shared' PROVE Sound(e)'
    <3>1. At(e, "idle")' /\ sample'[e] = None /\ active'[e] /\ callback'[e] = "idle"
      BY <1>1, <1>2, <1>14, <2>1, <2>4 DEF At
    <3>2. SenderOwnsEntry(e)' /\ ParkedEntry(e)'
      BY <3>1 DEF SenderOwnsEntry, ParkedEntry, At, Referencing
    <3>3. EntriesCleared(e)'
      BY <2>2, <2>4, <3>1 DEF EntriesCleared, Entry
    <3> QED
      BY <2>2, <2>4, <3>2, <3>3 DEF Sound
  <2>5. TracingInvariant'
    BY <1>3, <1>10, <2>3, <2>4 DEF TracingInvariant, LogAccountsForReferences, Sound, Accounts
  <2>6. shared' \subseteq Events
    BY <1>14 DEF TypeOK
  <2> QED
    BY <1>2, <1>3, <1>4, <1>6, <1>8, <1>11, <1>14, <2>2, <2>5, <2>6 DEF TypeOK
<1> QED
  BY <1>13, <1>14, OfferEnds

(* A stop-offer keeps what the API still holds in the log.                 *)
LEMMA StopOfferServiceStep ==
    ASSUME TypeOK, TracingInvariant, StopOfferService
    PROVE  TypeOK' /\ TracingInvariant'
<1>0. Idle.stage = "idle"
  BY DEF Idle
<1>1. /\ state = "offered" /\ \A e \in Events : At(e, "idle")
      /\ UNCHANGED <<consecutive_failure_counter, data_loss_flag, enabled, local, sample, sender,
                     callback, memory, refs, log, reading, offers, stuck, again, shared, typed,
                     disconnected>>
  BY <1>0, Zenon DEF StopOfferService, At
<1>2. \/ /\ \E e \in Events, s \in Slots : log[e][s] # {}
         /\ state' = "log not empty" /\ UNCHANGED <<active, handle, cached, is_tracing_enabled>>
      \/ /\ \A e \in Events, s \in Slots : log[e][s] = {}
         /\ state' = "stopped" /\ active' = [e \in Events |-> FALSE] /\ UnregisterShmObject
  BY DEF StopOfferService
<1>3. is_tracing_enabled \in BOOLEAN /\ handle \in 0..memory /\ memory \in Nat /\ cached \subseteq {ShmKey}
  BY MemoryNumbers DEF TypeOK
<1>4. UnregisterShmObject => /\ is_tracing_enabled' \in BOOLEAN /\ (is_tracing_enabled' => is_tracing_enabled)
                             /\ handle' \in {0, handle} /\ cached' \subseteq cached
  <2> SUFFICES ASSUME UnregisterShmObject
               PROVE  /\ is_tracing_enabled' \in BOOLEAN /\ (is_tracing_enabled' => is_tracing_enabled)
                      /\ handle' \in {0, handle} /\ cached' \subseteq cached
    OBVIOUS
  <2>1. CASE ~Registers
    BY <1>3, <2>1 DEF UnregisterShmObject
  <2>2. CASE Registers /\ handle = 0
    <3>1. cached' = cached \ {ShmKey} /\ handle' = handle /\ is_tracing_enabled' = is_tracing_enabled
      BY <2>2 DEF UnregisterShmObject
    <3> QED
      BY <1>3, <3>1
  <2>3. CASE Registers /\ handle # 0
    <3>1. handle' = 0 /\ cached' = cached /\ \E r \in ApiResults : is_tracing_enabled' = (r # "terminal")
      BY <2>3 DEF UnregisterShmObject
    <3>2. is_tracing_enabled' \in BOOLEAN
      BY <3>1
    <3> QED
      BY <2>3, <3>1, <3>2 DEF Registers
  <2> QED
    BY <2>1, <2>2, <2>3
<1>5. /\ is_tracing_enabled' \in BOOLEAN /\ (is_tracing_enabled' => is_tracing_enabled)
      /\ handle' \in {0, handle} /\ cached' \subseteq cached
  <2>1. CASE UNCHANGED <<handle, cached, is_tracing_enabled>>
    BY <1>3, <2>1
  <2>2. CASE UnregisterShmObject
    BY <1>4, <2>2, Zenon
  <2> QED
    BY <1>2, <2>1, <2>2, Zenon
<1>6. handle' \in 0..memory' /\ cached' \subseteq {ShmKey} /\ active' \in [Events -> BOOLEAN]
  <2>1. memory' = memory /\ handle' \in 0..memory
    BY <1>1, <1>3, <1>5
  <2>2. active' \in [Events -> BOOLEAN]
    BY <1>2 DEF TypeOK
  <2> QED
    BY <1>3, <1>5, <2>1, <2>2
<1>7. Failing' \subseteq Failing
  BY <1>1 DEF Failing, At
<1>8. FailuresCounted'
  <2>1. consecutive_failure_counter \in Nat
    BY CounterIsNatural
  <2>2. consecutive_failure_counter' \in Nat
        /\ consecutive_failure_counter' <= consecutive_failure_counter
        /\ (consecutive_failure_counter < MaxFailures => consecutive_failure_counter' < MaxFailures)
    BY <1>1, <2>1, Numbers
  <2>3. is_tracing_enabled => consecutive_failure_counter < MaxFailures
    BY Zenon DEF FailuresCounted, TracingInvariant
  <2>4. is_tracing_enabled' => consecutive_failure_counter' < MaxFailures
    BY <1>5, <2>2, <2>3, Zenon
  <2> QED
    BY <1>7, <2>2, <2>4, FailuresStayCounted, Zenon
<1>9. memory' <= offers' /\ shared' = shared
  BY <1>1, InvariantByEvent
<1>10. ASSUME NEW e \in Events PROVE ThreadsTogether(e)'
  BY <1>1, <1>2 DEF TracingInvariant, ThreadsTogether, Own, At
<1>11. ASSUME NEW e \in Events, e \notin shared PROVE Sound(e)'
  <2>1. Accounts(e) /\ SenderOwnsEntry(e) /\ ParkedEntry(e) /\ EntriesCleared(e)
    BY <1>11, InvariantByEvent DEF Sound
  <2>2. Accounts(e)' /\ SenderOwnsEntry(e)' /\ ParkedEntry(e)'
    BY <1>1, <2>1 DEF Accounts, SenderOwnsEntry, ParkedEntry, Entry, Own, At
  <2>3. EntriesCleared(e)'
    <3>1. CASE state' = "log not empty"
      <4>1. active' = active /\ log' = log /\ refs' = refs
        BY <1>1, <1>2, <3>1
      <4> QED
        BY <2>1, <3>1, <4>1 DEF EntriesCleared, Entry
    <3>2. CASE state' = "stopped"
      <4>1. \A s \in Slots : Entry(e, s, {}, 0)
        BY <1>2, <2>1, <3>2 DEF Accounts, Entry
      <4>2. sample[e] = None
        <5>1. callback[e] \in {"idle", "dereference", "dereferenced"} /\ sample[e] \in Slots \cup {None}
          BY DEF TypeOK
        <5>2. sample[e] # None => log[e][sample[e]] # {}
          BY <2>1, <5>1, FlagsDiffer DEF ParkedEntry, Entry
        <5> QED
          BY <4>1, <5>1, <5>2 DEF Entry
      <4> QED
        BY <1>1, <3>2, <4>1, <4>2 DEF EntriesCleared, Entry, At
    <3> QED
      BY <1>2, <3>1, <3>2
  <2> QED
    BY <2>2, <2>3 DEF Sound
<1>12. TracingInvariant'
  BY <1>8, <1>9, <1>10, <1>11 DEF TracingInvariant, LogAccountsForReferences, Sound, Accounts
<1>13. TypeOK'
  BY <1>1, <1>2, <1>5, <1>6 DEF TypeOK
<1> QED
  BY <1>12, <1>13

(* A new process starts with nothing traced.                               *)
LEMMA FreshProcess ==
    /\ \A e \in Events : NoSamples[e] = None /\ IdleSenders[e] = Idle /\ IdleCallback[e] = "idle"
    /\ Idle.stage = "idle" /\ Idle.result = "ok"
    /\ NoSamples \in [Events -> Slots \cup {None}]
    /\ IdleSenders \in Senders
    /\ IdleCallback \in [Events -> {"idle", "dereference", "dereferenced"}]
    /\ Cardinality({}) = 0
<1>1. Idle \in [stage : Stages, slot : Slots \cup {None}, point : SendPoints, result : Outcomes]
  BY DEF Idle, Stages, SendPoints, Outcomes, ApiResults
<1> QED
  BY <1>1, FS_EmptySet DEF NoSamples, IdleSenders, IdleCallback, Idle, Senders

(* A crash leaves log and references as they are; the roll-back of the     *)
(* next offer finds them.                                                  *)
LEMMA CrashStep ==
    ASSUME TypeOK, TracingInvariant, Crash
    PROVE  TypeOK' /\ TracingInvariant'
<1>1. /\ state' = "stopped" /\ is_tracing_enabled' \in BOOLEAN
      /\ consecutive_failure_counter' = 0 /\ data_loss_flag' = FALSE
      /\ enabled' = Configured /\ local' = LocalPoints /\ handle' = 0 /\ cached' = {}
      /\ sample' = NoSamples /\ sender' = IdleSenders /\ callback' = IdleCallback
      /\ reading' = NoSamples /\ disconnected' = {} /\ again' = FALSE
      /\ UNCHANGED <<memory, typed, refs, log, active, offers, stuck, shared>>
  BY DEF Crash
<1>2. Failing' = {}
  BY <1>1, FreshProcess DEF Failing, At
<1>3. FailuresCounted'
  <2>1. consecutive_failure_counter' + Cardinality(Failing') <= MaxFailures + Cardinality(Events)
    BY <1>1, <1>2, FreshProcess, Numbers
  <2>2. consecutive_failure_counter' < MaxFailures
    BY <1>1, Numbers
  <2> QED
    BY <2>1, <2>2, Zenon DEF FailuresCounted
<1>4. memory' <= offers'
  BY <1>1, InvariantByEvent
<1>5. \A e \in Events : ThreadsTogether(e)'
  BY <1>1, FreshProcess DEF ThreadsTogether, At
<1>6. ASSUME NEW e \in Events, e \notin shared PROVE Sound(e)'
  <2>1. Accounts(e) /\ EntriesCleared(e)
    BY <1>6, InvariantByEvent DEF Sound
  <2>2. Accounts(e)'
    BY <1>1, <2>1 DEF Accounts
  <2>3. SenderOwnsEntry(e)' /\ ParkedEntry(e)'
    BY <1>1, FreshProcess DEF SenderOwnsEntry, ParkedEntry, At, Referencing
  <2>4. EntriesCleared(e)'
    BY <1>1, <2>1, FreshProcess DEF EntriesCleared, Entry, At
  <2> QED
    BY <2>2, <2>3, <2>4 DEF Sound
<1>7. TracingInvariant'
  BY <1>1, <1>3, <1>4, <1>5, <1>6 DEF TracingInvariant, LogAccountsForReferences, Sound, Accounts
<1>8. consecutive_failure_counter' \in 0 .. (MaxFailures + Cardinality(Events))
  BY <1>1, Numbers
<1>9. handle' \in 0..memory' /\ memory' \in 0..MaxOffers
  BY <1>1, MemoryNumbers
<1>10. TypeOK'
  BY <1>1, <1>8, <1>9, FreshProcess, Numbers DEF TypeOK, Senders
<1> QED
  BY <1>7, <1>10

(* The invariant holds at the start.                                       *)
LEMMA TracingInit == Init => TypeOK /\ TracingInvariant
<1> SUFFICES ASSUME Init PROVE TypeOK /\ TracingInvariant
  OBVIOUS
<1>1. /\ state = "stopped" /\ is_tracing_enabled \in BOOLEAN
      /\ consecutive_failure_counter = 0 /\ data_loss_flag = FALSE
      /\ enabled = Configured /\ local = LocalPoints /\ handle = 0 /\ cached = {}
      /\ sample = NoSamples /\ sender = IdleSenders /\ callback = IdleCallback
      /\ reading = NoSamples /\ memory = 0 /\ offers = 0 /\ stuck = FALSE
      /\ typed = FALSE /\ disconnected = {} /\ again = FALSE /\ shared = {}
  BY DEF Init
<1>2. Failing = {}
  BY <1>1, FreshProcess DEF Failing, At
<1>3. FailuresCounted
  <2>1. consecutive_failure_counter + Cardinality(Failing) <= MaxFailures + Cardinality(Events)
    BY <1>1, <1>2, FreshProcess, Numbers
  <2>2. consecutive_failure_counter < MaxFailures
    BY <1>1, Numbers
  <2> QED
    BY <2>1, <2>2, Zenon DEF FailuresCounted
<1>4. /\ refs \in [Events -> [Slots -> Int]] /\ log \in [Events -> [Slots -> Flags]]
      /\ active \in [Events -> BOOLEAN]
      /\ \A e \in Events, s \in Slots : refs[e][s] = 0 /\ log[e][s] = {}
  BY DEF Init, NewLog, Flags
<1>5. \A e \in Events : ThreadsTogether(e)
  BY <1>1, FreshProcess DEF ThreadsTogether, At
<1>6. ASSUME NEW e \in Events PROVE Sound(e)
  <2>1. Accounts(e)
    <3>1. ASSUME NEW s \in Slots PROVE refs[e][s] = 0 /\ log[e][s] = {} /\ 0 \in 0..1
      BY <1>4
    <3> QED
      BY <3>1, FlagsDiffer DEF Accounts
  <2>2. SenderOwnsEntry(e) /\ ParkedEntry(e)
    BY <1>1, FreshProcess DEF SenderOwnsEntry, ParkedEntry, At, Referencing
  <2>3. EntriesCleared(e)
    BY <1>1, <1>4, FreshProcess DEF EntriesCleared, Entry, At
  <2> QED
    BY <2>1, <2>2, <2>3 DEF Sound
<1>7. memory <= offers
  BY <1>1
<1>8. TracingInvariant
  BY <1>3, <1>5, <1>6, <1>7, InvariantByEvent
<1>9. consecutive_failure_counter \in 0 .. (MaxFailures + Cardinality(Events))
  BY <1>1, Numbers
<1>10. handle \in 0..memory /\ memory \in 0..MaxOffers /\ offers \in 0..MaxOffers
  BY <1>1, Numbers
<1>11. TypeOK
  BY <1>1, <1>4, <1>9, <1>10, FreshProcess, Numbers DEF TypeOK, Senders
<1> QED
  BY <1>8, <1>11

(* Every step keeps the type invariant and the invariant.                  *)
LEMMA TracingStep ==
    ASSUME TypeOK, TracingInvariant, [Next]_vars
    PROVE  TypeOK' /\ TracingInvariant'
<1>1. CASE UNCHANGED vars
  <2>1. UNCHANGED <<state, handle, cached, memory, active, offers, stuck, again, shared, typed,
                    disconnected, is_tracing_enabled, consecutive_failure_counter, data_loss_flag,
                    enabled, local, sample, sender, callback, refs, log, reading>>
    BY <1>1 DEF vars, service, binding, runtime, switches
  <2>2. TypeOK'
    BY <2>1 DEF TypeOK
  <2>3. FailuresCounted'
    BY <2>1, NoNewFailure DEF Failing, At
  <2>4. memory' <= offers'
    BY <2>1, InvariantByEvent
  <2>5. ASSUME NEW e \in Events
        PROVE  ThreadsTogether(e)' /\ (e \notin shared' => Sound(e)')
    <3>1. ThreadsTogether(e) /\ (e \notin shared => Sound(e))
      BY InvariantByEvent
    <3>2. ThreadsTogether(e)'
      BY <2>1, <3>1 DEF ThreadsTogether, Own, At
    <3>3. ASSUME e \notin shared PROVE Sound(e)'
      <4>1. Accounts(e) /\ SenderOwnsEntry(e) /\ ParkedEntry(e) /\ EntriesCleared(e)
        BY <3>1, <3>3 DEF Sound
      <4>2. Accounts(e)' /\ SenderOwnsEntry(e)'
        BY <2>1, <4>1 DEF Accounts, SenderOwnsEntry, Entry, Own, At
      <4>3. ParkedEntry(e)' /\ EntriesCleared(e)'
        BY <2>1, <4>1 DEF ParkedEntry, EntriesCleared, Entry, Own, At
      <4> QED
        BY <4>2, <4>3 DEF Sound
    <3> QED
      BY <2>1, <3>2, <3>3
  <2>6. TracingInvariant'
    BY <2>3, <2>4, <2>5 DEF TracingInvariant, LogAccountsForReferences, Sound, Accounts
  <2> QED
    BY <2>2, <2>6
<1>2. ASSUME NEW e \in Events, Running, SenderStep(e) PROVE TypeOK' /\ TracingInvariant'
   BY <1>2, SendStep, ReferenceTransactionBeginStep, ReferenceTransactionAbortStep,
     ReferenceSteps,
     TraceStep, CallStep, ReleaseStep, TraceReturnsStep DEF SenderStep
<1> QED
   BY <1>1, <1>2, OfferServiceStep, StopOfferServiceStep, TraceDoneStep, TraceLocalStep,
     CrashStep
     DEF Next

(* Tracing keeps its inductive invariant for any number of events, slots,  *)
(* offers and crashes of the process.                                      *)
THEOREM TracingInvariantHolds == Spec => [](TypeOK /\ TracingInvariant)
<1>1. TypeOK /\ TracingInvariant /\ [Next]_vars => (TypeOK /\ TracingInvariant)'
  BY TracingStep
<1> QED
  BY <1>1, TracingInit, PTL DEF Spec

(* The transaction log in shared memory accounts for every reference the   *)
(* tracer holds, at every step of the two-phase protocol, so that a        *)
(* restarted process can give it back.                                     *)
THEOREM LogAccounts == Spec => []LogAccountsForReferences
<1>1. TracingInvariant => LogAccountsForReferences
  BY DEF TracingInvariant
<1> QED
  BY <1>1, TracingInvariantHolds, PTL

-----------------------------------------------------------------------------
(* The handle of the registered memory.                                    *)

(* The handle stays valid when no one starts to use it and the memory is   *)
(* the same.                                                               *)
LEMMA HandleStaysKnown ==
    ASSUME HandleKnown, handle' = handle, memory' = memory, again' = again,
           state' = "stopped" => state = "stopped", Registers' => Registers,
           again \/ \A e \in Events : At(e, "call")' => At(e, "call") \/ handle = memory
    PROVE  HandleKnown'
BY DEF HandleKnown, TracedMemoryIsRegistered

(* Tracing that is only switched off registers no more.                    *)
LEMMA RegistersNoMore ==
    ASSUME is_tracing_enabled' => is_tracing_enabled,
           \A e \in Events : enabled'[e] \subseteq enabled[e]
    PROVE  Registers' => Registers
BY DEF Registers, Traced

(* A step of a sender or of the callback does not make a handle stale.     *)
LEMMA SenderKeepsHandle ==
    ASSUME TypeOK, TracingInvariant, HandleKnown, NEW e \in Events, Running, SenderStep(e)
    PROVE  HandleKnown'
<1>1. handle' = handle /\ memory' = memory /\ again' = again
   BY DEF SenderStep, Send, ReferenceTransactionBegin, ReferenceSlot,
     ReferenceTransactionCommit,
     ReferenceTransactionAbort, Trace, CallGenericTraceApi, Release, TraceReturns, service, binding
<1>2. state' = state \/ state' = "log in use"
   BY DEF SenderStep, Send, ReferenceTransactionBegin, ReferenceSlot,
     ReferenceTransactionCommit,
     ReferenceTransactionAbort, Trace, CallGenericTraceApi, Release, TraceReturns, service
<1>3. sender \in Senders
  BY Roles
<1>4. CASE TraceReturns(e)
  <2>1. is_tracing_enabled' => is_tracing_enabled
    BY <1>4, ResultProcessed DEF TraceReturns
  <2>2. enabled' = [enabled EXCEPT ![e] = LeftEnabled(enabled[e], sender[e].point, sender[e].result)]
    BY <1>4 DEF TraceReturns
  <2>3. enabled \in [Events -> SUBSET SendPoints]
    BY DEF TypeOK
  <2>4. \A f \in Events : enabled'[f] \subseteq enabled[f]
    BY <2>2, <2>3, LeftEnabledIsSubset
  <2>5. \A f \in Events : At(f, "call")' => At(f, "call")
    <3>1. sender' = [sender EXCEPT ![e] = Idle] /\ Idle.stage = "idle"
      BY <1>4 DEF TraceReturns, Idle
    <3> QED
      BY <1>3, <3>1 DEF At, Senders
  <2> QED
    BY <1>1, <1>2, <2>1, <2>4, <2>5, HandleStaysKnown, RegistersNoMore
<1>5. CASE Trace(e)
  <2>1. UNCHANGED <<enabled, is_tracing_enabled>>
    BY <1>5 DEF Trace
  <2>2. \A f \in Events \ {e} : At(f, "call")' => At(f, "call")
    BY <1>3, <1>5 DEF Trace, Returned, Goto, At, Senders
  <2>3. again \/ (At(e, "call")' => handle = memory)
    <3>1. ASSUME ~(is_tracing_enabled /\ handle # 0) PROVE ~At(e, "call")'
      <4>1. PICK r \in {"disabled", "busy", "unregistered"} : Returned(e, "drop", r)
        BY <1>5, <3>1 DEF Trace, GetShmObjectHandle
      <4>2. sender' = [sender EXCEPT ![e].stage = "drop", ![e].result = r]
        BY <4>1 DEF Returned
      <4>3. "drop" \in Stages /\ r \in Outcomes
        BY DEF Stages, Outcomes
      <4> QED
        BY <1>3, <4>2, <4>3, SenderReturns, ZenonT(60) DEF At
    <3>2. ASSUME is_tracing_enabled, handle # 0, ~again PROVE handle = memory
      <4>1. sender[e].point \in enabled[e]
        BY <1>5 DEF Trace, TracingInvariant, ThreadsTogether, At
      <4>2. Registers
        BY <3>2, <4>1 DEF Registers, Traced
      <4> QED
        BY <3>2, <4>2 DEF HandleKnown
    <3> QED
      BY <3>1, <3>2
  <2> QED
    BY <1>1, <1>2, <2>1, <2>2, <2>3, HandleStaysKnown, RegistersNoMore
<1>6. CASE /\ UNCHANGED <<enabled, is_tracing_enabled>>
           /\ \A f \in Events : At(f, "call")' => At(f, "call")
  BY <1>1, <1>2, <1>6, HandleStaysKnown, RegistersNoMore
<1>7. ASSUME ~TraceReturns(e) /\ ~Trace(e) PROVE UNCHANGED <<enabled, is_tracing_enabled>>
   BY <1>7 DEF SenderStep, Send, ReferenceTransactionBegin, ReferenceSlot,
     ReferenceTransactionCommit,
     ReferenceTransactionAbort, CallGenericTraceApi, Release, runtime, switches
<1>8. ASSUME NEW stage \in Stages \ {"call"}, NEW r \in Outcomes,
             \/ sender' = sender \/ sender' = [sender EXCEPT ![e].stage = stage]
             \/ sender' = [sender EXCEPT ![e].stage = stage, ![e].result = r]
      PROVE  \A f \in Events : At(f, "call")' => At(f, "call")
  <2>1. CASE sender' = sender
    BY <2>1 DEF At
  <2>2. CASE sender' = [sender EXCEPT ![e].stage = stage]
    BY <1>3, <2>2, SenderGoes DEF At
  <2>3. CASE sender' = [sender EXCEPT ![e].stage = stage, ![e].result = r]
    <3>1. stage \in Stages /\ stage # "call" /\ r \in Outcomes
      BY <1>8
    <3>2. sender'[e].stage = stage /\ \A f \in Events \ {e} : sender'[f] = sender[f]
      BY <1>3, <2>3, <3>1, SenderReturns
    <3> QED
      BY <3>1, <3>2 DEF At
  <2> QED
    BY <1>8, <2>1, <2>2, <2>3
<1>9. ASSUME NEW m, m.stage # "call", sender' = [sender EXCEPT ![e] = m]
      PROVE  \A f \in Events : At(f, "call")' => At(f, "call")
  BY <1>3, <1>9 DEF At, Senders
<1>10. CASE Send(e) \/ ReferenceTransactionAbort(e)
  <2>1. \E m : m.stage # "call" /\ sender' = [sender EXCEPT ![e] = m]
    <3>1. CASE Send(e)
      <4>1. PICK s \in Slots, p \in enabled[e] :
              sender' = [sender EXCEPT ![e] = [stage |-> "begin", slot |-> s, point |-> p, result |-> "ok"]]
        BY <3>1 DEF Send
      <4>2. [stage |-> "begin", slot |-> s, point |-> p, result |-> "ok"].stage # "call"
        OBVIOUS
      <4> QED
        BY <4>1, <4>2
    <3>2. CASE ReferenceTransactionAbort(e)
      <4>1. sender' = [sender EXCEPT ![e] = Idle] /\ Idle.stage # "call"
        BY <3>2 DEF ReferenceTransactionAbort, Idle
      <4> QED
        BY <4>1
    <3> QED
      BY <1>10, <3>1, <3>2
  <2>2. UNCHANGED <<enabled, is_tracing_enabled>>
    BY <1>10 DEF Send, ReferenceTransactionAbort, runtime, switches
  <2> QED
    BY <1>6, <1>9, <2>1, <2>2
<1>11. CASE \/ ReferenceTransactionBegin(e) \/ ReferenceSlot(e) \/ ReferenceTransactionCommit(e)
            \/ CallGenericTraceApi(e) \/ Release(e)
  <2>1. \/ sender' = sender
        \/ \E stage \in {"increment", "commit", "trace", "dereference", "dereferenced", "process"} :
              sender' = [sender EXCEPT ![e].stage = stage]
        \/ \E stage \in {"process", "drop"}, r \in ApiResults :
              sender' = [sender EXCEPT ![e].stage = stage, ![e].result = r]
    BY <1>11 DEF ReferenceTransactionBegin, ReferenceSlot, ReferenceTransactionCommit,
       CallGenericTraceApi, Release, Goto, Returned, ApiResults
  <2>2. UNCHANGED <<enabled, is_tracing_enabled>>
    BY <1>11 DEF ReferenceTransactionBegin, ReferenceSlot, ReferenceTransactionCommit,
       CallGenericTraceApi, Release, runtime, switches
  <2>3. \A f \in Events : At(f, "call")' => At(f, "call")
    BY <1>8, <2>1 DEF Stages, Outcomes, ApiResults
  <2> QED
    BY <1>6, <2>2, <2>3
<1> QED
  BY <1>4, <1>5, <1>10, <1>11 DEF SenderStep

(* An offer registers the memory it has, unless an earlier one was left    *)
(* half-way.                                                               *)
LEMMA OfferKeepsHandle ==
    ASSUME TypeOK, TracingInvariant, HandleKnown,
           NEW result \in OfferResults, NEW reopen \in BOOLEAN, OfferService(result, reopen)
    PROVE  HandleKnown'
<1> SUFFICES ASSUME ~again' PROVE HandleKnown'
  BY DEF HandleKnown
<1>0. ~again /\ state = "stopped" /\ enabled' = enabled
  BY DEF OfferService
<1>1. \A e \in Events : ~At(e, "call") /\ sender'[e] = sender[e]
  BY NothingUnderWay DEF OfferService, At
<1>2. TracedMemoryIsRegistered'
  BY <1>1 DEF TracedMemoryIsRegistered, At
<1>3. state' \in {"no callback", "registered twice", "offered", "prepared"}
  BY OfferEnds, ConstantsAssumption
<1>4. handle' \in {handle, memory'} /\ (is_tracing_enabled' => is_tracing_enabled)
  BY OfferEnds
<1>5. Registers' => Registers
  BY <1>0, <1>4, RegistersNoMore
<1>6. Registers => handle = 0
  BY <1>0 DEF HandleKnown
<1>7. handle' # 0 /\ handle' # memory' => ~Registers'
  BY <1>4, <1>5, <1>6
<1> QED
  BY <1>2, <1>3, <1>7 DEF HandleKnown

(* A stop-offer unregisters the memory.                                    *)
LEMMA StopKeepsHandle ==
    ASSUME TypeOK, TracingInvariant, HandleKnown, StopOfferService
    PROVE  HandleKnown'
<1>0. Idle.stage = "idle"
  BY DEF Idle
<1>1. /\ \A e \in Events : At(e, "idle")
      /\ UNCHANGED <<enabled, sender, memory, again>> /\ state = "offered"
  BY <1>0, Zenon DEF StopOfferService, At
<1>2. TracedMemoryIsRegistered'
  BY <1>1 DEF TracedMemoryIsRegistered, At
<1>3. \/ state' = "log not empty" /\ UNCHANGED <<handle, is_tracing_enabled>>
      \/ state' = "stopped" /\ UnregisterShmObject
  BY DEF StopOfferService
<1>4. CASE state' = "log not empty" /\ UNCHANGED <<handle, is_tracing_enabled>>
  <2>1. Registers' => Registers
    BY <1>1, <1>4, RegistersNoMore
  <2> QED
    BY <1>1, <1>2, <1>4, <2>1 DEF HandleKnown
<1>5. CASE state' = "stopped" /\ UnregisterShmObject
  <2>1. CASE ~Registers
    <3>1. UNCHANGED <<handle, is_tracing_enabled>>
      BY <1>5, <2>1 DEF UnregisterShmObject
    <3>2. ~Registers'
      BY <1>1, <2>1, <3>1, RegistersNoMore
    <3> QED
      BY <1>2, <3>2 DEF HandleKnown
  <2>2. CASE Registers
    <3>1. handle' = 0
      BY <1>5, <2>2 DEF UnregisterShmObject
    <3> QED
      BY <1>2, <3>1 DEF HandleKnown
  <2> QED
    BY <2>1, <2>2
<1> QED
  BY <1>3, <1>4, <1>5

(* Every step keeps the handle that is known the one of the memory in use. *)
LEMMA HandleStep ==
    ASSUME TypeOK, TracingInvariant, HandleKnown, [Next]_vars
    PROVE  HandleKnown'
<1>1. CASE UNCHANGED vars
  <2>1. UNCHANGED <<state, handle, memory, again, is_tracing_enabled, enabled, sender>>
    BY <1>1 DEF vars, service, binding, runtime, switches
  <2> QED
    BY <2>1 DEF HandleKnown, TracedMemoryIsRegistered, Registers, Traced, At
<1>2. ASSUME NEW e \in Events, Running, TraceDone(e) PROVE HandleKnown'
  <2>1. UNCHANGED <<state, handle, memory, again, is_tracing_enabled, enabled, sender>>
    BY <1>2 DEF TraceDone, service, binding, runtime, switches
  <2> QED
    BY <2>1 DEF HandleKnown, TracedMemoryIsRegistered, Registers, Traced, At
<1>3. ASSUME NEW p \in LocalPoints, TraceLocal(p) PROVE HandleKnown'
  <2>1. UNCHANGED <<state, handle, memory, again, enabled, sender>>
    BY <1>3 DEF TraceLocal, service, binding
  <2>2. is_tracing_enabled' => is_tracing_enabled
    BY <1>3, ResultProcessed DEF TraceLocal
  <2> QED
    BY <2>1, <2>2, HandleStaysKnown, RegistersNoMore DEF At
<1>4. CASE Crash
  <2>1. state' = "stopped" /\ handle' = 0 /\ sender' = IdleSenders
    BY <1>4 DEF Crash
  <2>2. TracedMemoryIsRegistered'
    BY <2>1, FreshProcess DEF TracedMemoryIsRegistered, At
  <2> QED
    BY <2>1, <2>2 DEF HandleKnown
<1> QED
  BY <1>1, <1>2, <1>3, <1>4, OfferKeepsHandle, StopKeepsHandle, SenderKeepsHandle DEF Next

(* The tracer holds one slot of an event at a time.                        *)
LEMMA OneSlotHeld == TypeOK /\ TracingInvariant => TracerHoldsOneSlot
<1> SUFFICES ASSUME TypeOK, TracingInvariant, NEW e \in Events \ shared,
                    state = "offered", At(e, "idle"), ~stuck
             PROVE  Cardinality({s \in Slots : refs[e][s] > 0}) <= 1
  BY DEF TracerHoldsOneSlot
<1> DEFINE H == {s \in Slots : refs[e][s] > 0}
<1>1. \A s \in Slots \ {sample[e]} : Entry(e, s, {}, 0)
  BY DEF TracingInvariant, EntriesCleared, At, Referencing
<1>2. H \subseteq {sample[e]}
  BY <1>1 DEF Entry
<1>3. IsFiniteSet({sample[e]}) /\ Cardinality({sample[e]}) = 1
  BY FS_Singleton
<1> QED
  BY <1>2, <1>3, FS_Subset

(* The slot the tracing library reads is not given to another sample, as   *)
(* long as the QM consumers are connected.                                 *)
LEMMA ReadSlotsStay == TypeOK /\ TracingInvariant => TracedSamplesStay
<1> SUFFICES ASSUME TypeOK, TracingInvariant, NEW e \in Events, reading[e] # None
             PROVE  /\ sample[e] = reading[e]
                    /\ e \notin shared => refs[e][reading[e]] > 0
                    /\ e \notin shared \cup disconnected => ~(At(e, "begin") /\ Own(e) = reading[e])
  BY DEF TracedSamplesStay
<1>1. sample[e] = reading[e] /\ callback[e] = "idle"
  BY DEF TracingInvariant, ThreadsTogether, TypeOK
<1>2. e \notin shared => ParkedEntry(e) /\ SenderOwnsEntry(e)
  BY DEF TracingInvariant
<1>3. e \notin shared => refs[e][reading[e]] = 1
  BY <1>1, <1>2 DEF ParkedEntry, Entry
<1>4. e \notin shared \cup disconnected /\ At(e, "begin") => refs[e][Own(e)] = 0
  BY <1>2 DEF SenderOwnsEntry
<1> QED
  BY <1>1, <1>3, <1>4

(* Through offers, failed and repeated ones too, stop-offers, failures,    *)
(* disconnected QM consumers and crashes: the tracing library reads the    *)
(* parked slot only, which carries its reference and is written again only *)
(* once the QM consumers are disconnected; it is handed no handle of       *)
(* memory that is gone, unless an offer was repeated that had failed       *)
(* half-way.                                                               *)
THEOREM TracingStaysSafe == Spec => []TracingIsSafe
<1>1. Init => HandleKnown
  <2> SUFFICES ASSUME Init PROVE HandleKnown
    OBVIOUS
  <2>1. state = "stopped" /\ handle = 0 /\ sender = IdleSenders
    BY DEF Init
  <2>2. TracedMemoryIsRegistered
    BY <2>1, FreshProcess DEF TracedMemoryIsRegistered, At
  <2> QED
    BY <2>1, <2>2 DEF HandleKnown
<1>2. TypeOK /\ TracingInvariant /\ HandleKnown /\ [Next]_vars => HandleKnown'
  BY HandleStep
<1>3. TypeOK /\ TracingInvariant /\ HandleKnown => TracingIsSafe
  BY OneSlotHeld, ReadSlotsStay DEF TracingIsSafe, HandleKnown, TracedMemoryIsRegistered
<1> QED
  BY <1>1, <1>2, <1>3, TracingInvariantHolds, PTL DEF Spec

-----------------------------------------------------------------------------
(***************************************************************************)
(* The configuration.                                                      *)
(***************************************************************************)
(* The lifecycle.                                                          *)
LEMMA LifecycleStep ==
    ASSUME LifecycleInvariant, [BindingsNext]_allVars
    PROVE  LifecycleInvariant'
<1> USE DocumentAssumption DEF LifecycleInvariant, Parsing, Built, Ended, lifecycle, parser, bindings,
         Kept, Terminate
<1>1. CASE Initialize /\ Kept
  BY <1>1 DEF Initialize, InitializeAllowed, StartParse
<1>2. CASE getInstance /\ Kept
  BY <1>2 DEF getInstance, StartParse, TakeStored
<1>3. CASE ParseTracingProperties /\ Kept
  BY <1>3 DEF ParseTracingProperties
<1>4. CASE ParseServiceType /\ Kept
  BY <1>4 DEF ParseServiceType
<1>5. CASE ParseServiceTypesEnd /\ Kept
  BY <1>5 DEF ParseServiceTypesEnd
<1>6. CASE ParseServiceInstance /\ Kept
  BY <1>6 DEF ParseServiceInstance
<1>7. CASE ParseServiceInstancesEnd /\ Kept
  BY <1>7 DEF ParseServiceInstancesEnd
<1>8. CASE ParseGlobalProperties /\ Kept
  BY <1>8 DEF ParseGlobalProperties
<1>9. CASE Crosscheck /\ Kept
  BY <1>9 DEF Crosscheck
<1>10. CASE ParseTraceConfig /\ Kept
  BY <1>10 DEF ParseTraceConfig
<1>11. CASE ParseFilterElement /\ Kept
  BY <1>11 DEF ParseFilterElement
<1>12. CASE ParseServicesEnd /\ Kept
  BY <1>12 DEF ParseServicesEnd
<1>13. CASE CreateRuntime /\ Kept
  BY <1>13 DEF CreateRuntime
<1>14. CASE StoreConfigurationAnew
  BY <1>14 DEF StoreConfigurationAnew, StoreConfiguration
<1>15. ASSUME NEW i, NEW x, RegisterServiceElement(i, x) /\ Kept
       PROVE  LifecycleInvariant'
  BY <1>15 DEF RegisterServiceElement
<1>16. CASE Create
  BY <1>16 DEF Create, Misused, allVars, configurationVars
<1>17. ASSUME NEW i, NEW x, BindSkeletonElement(i, x) PROVE LifecycleInvariant'
  BY <1>17 DEF BindSkeletonElement, Misused, allVars, configurationVars
<1>18. ASSUME NEW i, NEW x, NEW id, phase = "ready", BindElement(i, x, id) PROVE LifecycleInvariant'
  BY <1>18 DEF BindElement, Misused, allVars, configurationVars
<1>19. CASE UNCHANGED allVars
  BY <1>19 DEF allVars, configurationVars
<1> QED
  BY <1>1, <1>2, <1>3, <1>4, <1>5, <1>6, <1>7, <1>8, <1>9, <1>10, <1>11, <1>12, <1>13, <1>14,
     <1>15, <1>16, <1>17, <1>18, <1>19
     DEF BindingsNext, BindProxyElement, BindGenericProxyElements

(* The configuration and the filter stay as they are, from the filter on,  *)
(* but for what the filter file adds.                                      *)
LEMMA FilterMoves ==
    ASSUME LifecycleInvariant, [BindingsNext]_allVars
    PROVE  \/ filter = Nothing /\ filter' = Nothing /\ phase' # "filter"
           \/ filter' = filter /\ config' = config /\ (phase' = "filter" => phase = "filter")
           \/ filter' = {} /\ config' = config /\ config.tracing
           \/ ParseFilterElement
<1> USE DEF LifecycleInvariant, Parsing, Built, Ended, lifecycle, parser, bindings, Kept, Terminate
<1> DEFINE Goal == \/ filter = Nothing /\ filter' = Nothing /\ phase' # "filter"
                   \/ filter' = filter /\ config' = config /\ (phase' = "filter" => phase = "filter")
                   \/ filter' = {} /\ config' = config /\ config.tracing
                   \/ ParseFilterElement
<1>1. CASE Initialize /\ Kept
  BY <1>1 DEF Initialize, InitializeAllowed, StartParse
<1>2. CASE getInstance /\ Kept
  BY <1>2 DEF getInstance, StartParse, TakeStored
<1>3. CASE ParseTracingProperties /\ Kept
  BY <1>3 DEF ParseTracingProperties
<1>4. CASE ParseServiceType /\ Kept
  BY <1>4 DEF ParseServiceType
<1>5. CASE ParseServiceTypesEnd /\ Kept
  BY <1>5 DEF ParseServiceTypesEnd
<1>6. CASE ParseServiceInstance /\ Kept
  BY <1>6 DEF ParseServiceInstance
<1>7. CASE ParseServiceInstancesEnd /\ Kept
  BY <1>7 DEF ParseServiceInstancesEnd
<1>8. CASE ParseGlobalProperties /\ Kept
  BY <1>8 DEF ParseGlobalProperties
<1>9. CASE Crosscheck /\ Kept
  BY <1>9 DEF Crosscheck
<1>10. CASE ParseTraceConfig /\ Kept
  BY <1>10 DEF ParseTraceConfig
<1>11. CASE ParseServicesEnd /\ Kept
  BY <1>11 DEF ParseServicesEnd
<1>12. CASE CreateRuntime /\ Kept
  BY <1>12 DEF CreateRuntime
<1>13. CASE StoreConfigurationAnew
  BY <1>13 DEF StoreConfigurationAnew, StoreConfiguration
<1>14. ASSUME NEW i, NEW x, RegisterServiceElement(i, x) /\ Kept
       PROVE  Goal
  BY <1>14 DEF RegisterServiceElement
<1>15. CASE Create
  BY <1>15 DEF Create, Misused, allVars, configurationVars
<1>16. ASSUME NEW i, NEW x, BindSkeletonElement(i, x) PROVE Goal
  BY <1>16 DEF BindSkeletonElement, Misused, allVars, configurationVars
<1>17. ASSUME NEW i, NEW x, NEW id, BindElement(i, x, id) PROVE Goal
  BY <1>17 DEF BindElement, Misused, allVars, configurationVars
<1>18. CASE UNCHANGED allVars
  BY <1>18 DEF allVars, configurationVars
<1>19. ParseFilterElement => Goal
  OBVIOUS
<1> QED
  BY <1>1, <1>2, <1>3, <1>4, <1>5, <1>6, <1>7, <1>8, <1>9, <1>10, <1>11, <1>12, <1>13, <1>14,
     <1>15, <1>16, <1>17, <1>18, <1>19
     DEF BindingsNext, BindProxyElement, BindGenericProxyElements

(* A trace point that is added.                                            *)
LEMMA AddedPoint ==
    ASSUME IsSane(config), NEW entry \in FilterEntries, NEW t
    PROVE  t \in AddedPoints(entry) <=>
             /\ t = [name |-> entry.name, element |-> entry.element, point |-> t.point,
                     specifier |-> t.specifier]
             /\ t.point \in entry.points
             /\ entry.element \in GetElementNamesOfServiceType(entry.name)
             /\ IsServiceElementTracingEnabled(entry.name, entry.element, t.specifier)
<1>1. ASSUME NEW i, IsServiceElementTracingEnabled(entry.name, entry.element, i)
      PROVE  i \in GetInstancesOfServiceType(entry.name)
  BY <1>1 DEF IsSane, IsTracedIn, IsServiceElementTracingEnabled, GetInstancesOfServiceType
<1>2. ASSUME t \in AddedPoints(entry)
      PROVE  /\ t = [name |-> entry.name, element |-> entry.element, point |-> t.point,
                     specifier |-> t.specifier]
             /\ t.point \in entry.points
             /\ entry.element \in GetElementNamesOfServiceType(entry.name)
             /\ IsServiceElementTracingEnabled(entry.name, entry.element, t.specifier)
  BY <1>2 DEF AddedPoints
<1>3. ASSUME t = [name |-> entry.name, element |-> entry.element, point |-> t.point,
                     specifier |-> t.specifier],
             t.point \in entry.points,
             entry.element \in GetElementNamesOfServiceType(entry.name),
             IsServiceElementTracingEnabled(entry.name, entry.element, t.specifier)
      PROVE  t \in AddedPoints(entry)
  BY <1>1, <1>3 DEF AddedPoints
<1> QED
  BY <1>2, <1>3

(* An element with tracing is in the type of its instance, in a            *)
(* configuration that is used.                                             *)
LEMMA TracedElementHasType ==
    ASSUME ConfigurationInvariant, phase \in Built, NEW t,
           IsServiceElementTracingEnabled(t.name, t.element, t.specifier)
    PROVE  HasType(t)
<1> DEFINE u == [name |-> t.name, element |-> t.element, specifier |-> t.specifier]
           instance == config.instances[t.specifier]
           type == config.types[instance.service]
<1>1. u \in config.traced
  BY DEF IsServiceElementTracingEnabled
<1>2. IsTracedIn(config, u) /\ u.specifier = t.specifier /\ u.element = t.element
  BY <1>1 DEF ConfigurationInvariant, IsSane
<1>3. /\ t.specifier \in DOMAIN config.instances /\ instance.binding = "SHM"
      /\ t.element \in DOMAIN instance.sizes
  BY <1>2 DEF IsTracedIn
<1>4. \E added : IsConsistent(config, added)
  BY DEF ConfigurationInvariant
<1>5. Resolves(instance, type)
  BY <1>3, <1>4 DEF IsConsistent
<1>6. Cardinality(IdsOf(type, t.element)) = 1
  BY <1>3, <1>5 DEF Resolves
<1>7. IdsOf(type, t.element) # {}
  BY <1>6, FS_EmptySet
<1> QED
  BY <1>7 DEF IdsOf, HasType

(* The filter holds every instance of an element with tracing.             *)
LEMMA FilterStep ==
    ASSUME LifecycleInvariant, ConfigurationInvariant, FilterInvariant, [BindingsNext]_allVars
    PROVE  FilterInvariant'
<1>0. IsSane(config)
  BY DEF ConfigurationInvariant
<1>1. CASE filter = Nothing /\ filter' = Nothing /\ phase' # "filter"
  BY <1>1 DEF FilterInvariant
<1>2. CASE filter' = filter /\ config' = config /\ (phase' = "filter" => phase = "filter")
  BY <1>2 DEF FilterInvariant, IsServiceElementTracingEnabled, HasType
<1>3. CASE filter' = {} /\ config' = config /\ config.tracing
  BY <1>3 DEF FilterInvariant
<1>4. CASE ParseFilterElement
  <2>1. PICK entry \in FilterEntries : filter' = filter \cup AddedPoints(entry)
    BY <1>4 DEF ParseFilterElement
  <2>2. config' = config
    BY <1>4 DEF ParseFilterElement
  <2>3. phase = "filter" /\ config.tracing
    BY <1>4 DEF ParseFilterElement, FilterInvariant
  <2>4. ASSUME NEW t \in filter'
        PROVE  /\ t \in TracePoints /\ IsServiceElementTracingEnabled(t.name, t.element, t.specifier)
               /\ HasType(t)
               /\ \A i \in DOMAIN config.instances :
                    IsServiceElementTracingEnabled(t.name, t.element, i)
                      => [t EXCEPT !.specifier = i] \in filter'
    <3>1. CASE t \in filter
      BY <2>1, <2>3, <3>1 DEF FilterInvariant
    <3>2. CASE t \in AddedPoints(entry)
      <4>1. /\ t = [name |-> entry.name, element |-> entry.element, point |-> t.point,
                    specifier |-> t.specifier]
            /\ t.point \in entry.points
            /\ entry.element \in GetElementNamesOfServiceType(entry.name)
            /\ IsServiceElementTracingEnabled(entry.name, entry.element, t.specifier)
        BY <1>0, <3>2, AddedPoint
      <4>2. t.point \in Points
        BY <4>1 DEF Points
      <4>3. t.name \in Names /\ t.element \in Elements /\ t.specifier \in Specifiers
        <5> DEFINE u == [name |-> entry.name, element |-> entry.element, specifier |-> t.specifier]
        <5>1. u \in config.traced
          BY <4>1 DEF IsServiceElementTracingEnabled
        <5>2. <<u.name, u.element, u.specifier>> \in Names \X Elements \X Specifiers
          BY <1>0, <5>1 DEF IsSane, IsConfiguration, IsTracingConfiguration
        <5>3. u.name = t.name /\ u.element = t.element /\ u.specifier = t.specifier
          BY <4>1
        <5> QED
          BY <5>2, <5>3
      <4>4. t \in TracePoints
        BY <4>1, <4>2, <4>3 DEF TracePoints
      <4>5. ASSUME NEW i, IsServiceElementTracingEnabled(t.name, t.element, i)
            PROVE  [t EXCEPT !.specifier = i] \in AddedPoints(entry)
        <5> DEFINE u == [t EXCEPT !.specifier = i]
        <5>1. u = [name |-> entry.name, element |-> entry.element, point |-> u.point,
                   specifier |-> u.specifier] /\ u.point = t.point /\ u.specifier = i
          BY <4>1
        <5>2. IsServiceElementTracingEnabled(entry.name, entry.element, u.specifier)
          BY <4>1, <4>5, <5>1
        <5> HIDE DEF u
        <5>3. u \in AddedPoints(entry)
          BY <1>0, <4>1, <5>1, <5>2, AddedPoint
        <5> QED
          BY <5>3 DEF u
      <4>6. HasType(t)
        BY <2>3, <4>1, TracedElementHasType DEF Built
      <4> QED
        BY <2>1, <4>1, <4>4, <4>5, <4>6
    <3> QED
      BY <2>1, <2>4, <3>1, <3>2
  <2> QED
    BY <2>2, <2>3, <2>4 DEF FilterInvariant, IsServiceElementTracingEnabled, HasType
<1> QED
  BY <1>1, <1>2, <1>3, <1>4, FilterMoves

(* However the count came about, there is a sample pointer for each        *)
(* element that may be registered: the trace points of an element are on   *)
(* for the same instances.                                                 *)
LEMMA RegisteredFit ==
    ASSUME IsSane(config), FilterInvariant, filter # Nothing, NEW first \in FirstPoints,
           NEW R, \A r \in R : RegistersFor(r)
    PROVE  /\ IsFiniteSet(R) /\ Cardinality(R) \in Nat /\ CountInstances(first) \in Nat
           /\ Cardinality(R) <= CountInstances(first)
<1> DEFINE T == {r \in (DOMAIN first) \X Specifiers : r[2] \in InstancesOf(r[1], first[r[1]])}
           key(t) == <<<<t.name, t.element>>, t.specifier>>
           keys == [t \in config.traced |-> key(t)]
           K == {key(t) : t \in config.traced}
<1>1. IsFiniteSet(K)
  <2>1. keys \in Surjection(config.traced, K)
    BY DEF Surjection
  <2> QED
    BY <2>1, FS_Surjection DEF IsSane
<1>2. ASSUME NEW t \in filter
      PROVE  /\ t \in TracePoints
             /\ [name |-> t.name, element |-> t.element, specifier |-> t.specifier] \in config.traced
  BY <1>2 DEF FilterInvariant, IsServiceElementTracingEnabled
<1>3. T \subseteq K
  <2> SUFFICES ASSUME NEW r \in T PROVE r \in K
    OBVIOUS
  <2>1. PICK t \in filter : t.specifier = r[2] /\ ElementOf(t) = r[1]
    BY DEF InstancesOf, DonePoints
  <2> DEFINE u == [name |-> t.name, element |-> t.element, specifier |-> t.specifier]
  <2>2. u \in config.traced /\ key(u) = <<r[1], r[2]>>
    BY <1>2, <2>1 DEF ElementOf
  <2>3. r = <<r[1], r[2]>>
    OBVIOUS
  <2> QED
    BY <2>2, <2>3
<1>4. IsFiniteSet(T) /\ Cardinality(T) \in Nat
  BY <1>1, <1>3, FS_Subset, FS_CardinalityType
<1> DEFINE place(r) == <<<<config.instances[r[1]].service[1], r[2]>>, r[1]>>
           places == [r \in R |-> place(r)]
<1>5. ASSUME NEW r \in R PROVE place(r) \in T
  <2>1. PICK t \in DonePoints : /\ t.specifier = r[1] /\ t.element = r[2]
                               /\ t.name = config.instances[r[1]].service[1]
    BY DEF RegistersFor
  <2> DEFINE x == ElementOf(t)
  <2>2. x \in DOMAIN first /\ InstancesOf(x, first[x]) # {}
    BY <2>1 DEF FirstPoints
  <2>3. PICK d \in DonePoints : ElementOf(d) = x /\ d.point = first[x]
    BY <2>2 DEF InstancesOf
  <2>4. t \in filter /\ d \in filter /\ t \in TracePoints /\ d \in TracePoints
    BY <1>2, <2>1, <2>3 DEF DonePoints
  <2>5. d.name = t.name /\ d.element = t.element
    BY <2>3 DEF ElementOf
  <2>6. IsServiceElementTracingEnabled(d.name, d.element, t.specifier)
    BY <1>2, <2>4, <2>5 DEF IsServiceElementTracingEnabled
  <2>7. t.specifier \in DOMAIN config.instances
    BY <2>6 DEF IsSane, IsTracedIn, IsServiceElementTracingEnabled
  <2> DEFINE u == [d EXCEPT !.specifier = t.specifier]
  <2>8. u \in filter
    BY <2>4, <2>6, <2>7 DEF FilterInvariant
  <2>9. u.point = d.point /\ u.specifier = t.specifier /\ ElementOf(u) = ElementOf(d)
    BY <2>4 DEF ElementOf, TracePoints
  <2>10. u \in DonePoints
    BY <2>3, <2>8, <2>9 DEF DonePoints
  <2>11. t.specifier \in InstancesOf(x, first[x])
    BY <2>3, <2>9, <2>10 DEF InstancesOf
  <2>12. t.specifier \in Specifiers
    BY <2>4 DEF TracePoints
  <2>13. place(r) = <<x, t.specifier>>
    BY <2>1 DEF ElementOf
  <2> QED
    BY <2>2, <2>11, <2>12, <2>13
<1>6. places \in Injection(R, T)
  <2>1. places \in [R -> T]
    BY <1>5
  <2>2. ASSUME NEW r \in R, NEW q \in R, places[r] = places[q] PROVE r = q
    <3>1. r = <<r[1], r[2]>> /\ q = <<q[1], q[2]>>
      BY DEF RegistersFor
    <3>2. place(r) = place(q)
      BY <2>2
    <3> QED
      BY <3>1, <3>2
  <2> QED
    BY <2>1, <2>2 DEF Injection, IsInjective
<1>7. IsFiniteSet(R) /\ Cardinality(R) <= Cardinality(T)
  BY <1>4, <1>6, FS_Injection
<1>8. CountInstances(first) = Cardinality(T)
  BY DEF CountInstances
<1> QED
  BY <1>4, <1>7, <1>8, FS_CardinalityType

(* There are enough sample pointers for the elements registered so far.    *)
LEMMA PointerLeft ==
    ASSUME LifecycleInvariant, ConfigurationInvariant, FilterInvariant, RuntimeInvariant,
           NEW i, NEW x, RegisterServiceElement(i, x)
    PROVE  /\ filter # Nothing
           /\ IsFiniteSet(registered \cup {<<i, x>>})
           /\ Cardinality(registered \cup {<<i, x>>}) <= lolaRuntime.samplePtrs
           /\ \A r \in registered \cup {<<i, x>>} : RegistersFor(r)
           /\ Cardinality(registered \cup {<<i, x>>}) <= registrations + 1
           /\ Cardinality(registered \cup {<<i, x>>}) \in Nat
           /\ registrations \in Nat /\ lolaRuntime.samplePtrs \in Nat
<1> DEFINE R == registered \cup {<<i, x>>}
<1>1. IsSane(config)
  BY DEF ConfigurationInvariant
<1>2. PICK first \in PossibleFirst, order \in PossibleOrders : lolaRuntime = RuntimeOf(first, order)
  BY DEF RegisterServiceElement, RuntimeInvariant
<1>3. lolaRuntime.samplePtrs # Nothing
  BY DEF RegisterServiceElement
<1>4. filter # Nothing /\ lolaRuntime.samplePtrs = CountInstances(first) /\ first \in FirstPoints
  BY <1>2, <1>3 DEF RuntimeOf, NoRuntime, PossibleFirst
<1>5. RegistersFor(<<i, x>>)
  BY DEF RegisterServiceElement, RegistersFor
<1>6. \A r \in R : RegistersFor(r)
  BY <1>5 DEF RuntimeInvariant
<1>7. /\ IsFiniteSet(R) /\ Cardinality(R) \in Nat /\ CountInstances(first) \in Nat
      /\ Cardinality(R) <= CountInstances(first)
  BY <1>1, <1>4, <1>6, RegisteredFit
<1>8. IsFiniteSet(registered) /\ Cardinality(registered) \in Nat
  BY <1>7, FS_Subset, FS_CardinalityType
<1>9. Cardinality(R) <= Cardinality(registered) + 1
  <2>1. Cardinality(R) = IF <<i, x>> \in registered THEN Cardinality(registered)
                         ELSE Cardinality(registered) + 1
    BY ONLY <1>8, FS_AddElement, Zenon
  <2> HIDE DEF R
  <2> QED
    BY ONLY <1>8, <2>1
<1>10. Cardinality(registered) <= registrations /\ registrations \in Nat
  BY FS_EmptySet DEF RuntimeInvariant
<1> QED
  BY <1>4, <1>6, <1>7, <1>8, <1>9, <1>10

(* The runtime, once it is there, stays as it was built.                   *)
LEMMA RuntimeMoves ==
    ASSUME LifecycleInvariant, [BindingsNext]_allVars
    PROVE  \/ CreateRuntime
           \/ \E i, x : RegisterServiceElement(i, x)
           \/ registered' = {} /\ registrations' = 0 /\ phase' # "ready"
           \/ /\ UNCHANGED <<config, filter, lolaRuntime, registered, registrations>>
              /\ phase' = "ready" => phase = "ready"
<1> USE DEF LifecycleInvariant, Parsing, Built, Ended, lifecycle, parser, bindings, Kept, Terminate
<1> DEFINE Goal == \/ CreateRuntime
                   \/ \E i, x : RegisterServiceElement(i, x)
                   \/ registered' = {} /\ registrations' = 0 /\ phase' # "ready"
                   \/ /\ UNCHANGED <<config, filter, lolaRuntime, registered, registrations>>
                      /\ phase' = "ready" => phase = "ready"
<1>1. CASE Initialize /\ Kept
  BY <1>1 DEF Initialize, InitializeAllowed, StartParse
<1>2. CASE getInstance /\ Kept
  BY <1>2 DEF getInstance, StartParse, TakeStored
<1>3. CASE ParseTracingProperties /\ Kept
  BY <1>3 DEF ParseTracingProperties
<1>4. CASE ParseServiceType /\ Kept
  BY <1>4 DEF ParseServiceType
<1>5. CASE ParseServiceTypesEnd /\ Kept
  BY <1>5 DEF ParseServiceTypesEnd
<1>6. CASE ParseServiceInstance /\ Kept
  BY <1>6 DEF ParseServiceInstance
<1>7. CASE ParseServiceInstancesEnd /\ Kept
  BY <1>7 DEF ParseServiceInstancesEnd
<1>8. CASE ParseGlobalProperties /\ Kept
  BY <1>8 DEF ParseGlobalProperties
<1>9. CASE Crosscheck /\ Kept
  BY <1>9 DEF Crosscheck
<1>10. CASE ParseTraceConfig /\ Kept
  BY <1>10 DEF ParseTraceConfig
<1>11. CASE ParseFilterElement /\ Kept
  BY <1>11 DEF ParseFilterElement
<1>12. CASE ParseServicesEnd /\ Kept
  BY <1>12 DEF ParseServicesEnd
<1>13. CASE CreateRuntime /\ Kept
  BY <1>13
<1>14. CASE StoreConfigurationAnew
  BY <1>14 DEF StoreConfigurationAnew, StoreConfiguration
<1>15. ASSUME NEW i, NEW x, RegisterServiceElement(i, x) /\ Kept
       PROVE  Goal
  BY <1>15
<1>16. CASE Create
  BY <1>16 DEF Create, Misused, allVars, configurationVars
<1>17. ASSUME NEW i, NEW x, BindSkeletonElement(i, x) PROVE Goal
  BY <1>17 DEF BindSkeletonElement, Misused, allVars, configurationVars
<1>18. ASSUME NEW i, NEW x, NEW id, BindElement(i, x, id) PROVE Goal
  BY <1>18 DEF BindElement, Misused, allVars, configurationVars
<1>19. CASE UNCHANGED allVars
  BY <1>19 DEF allVars, configurationVars
<1> QED
  BY <1>1, <1>2, <1>3, <1>4, <1>5, <1>6, <1>7, <1>8, <1>9, <1>10, <1>11, <1>12, <1>13, <1>14,
     <1>15, <1>16, <1>17, <1>18, <1>19
     DEF BindingsNext, BindProxyElement, BindGenericProxyElements

(* What the runtime was built with, and what was registered since.         *)
LEMMA RuntimeStep ==
    ASSUME LifecycleInvariant, ConfigurationInvariant, FilterInvariant, RuntimeInvariant,
           [BindingsNext]_allVars
    PROVE  RuntimeInvariant'
<1>1. CASE CreateRuntime
  <2>1. registered = {} /\ registered' = {} /\ registrations' \in Nat
    BY <1>1 DEF CreateRuntime, LifecycleInvariant, Ended
  <2>2. config' = config /\ filter' = filter
    BY <1>1 DEF CreateRuntime
  <2>3. \E first \in PossibleFirst, order \in PossibleOrders : lolaRuntime' = RuntimeOf(first, order)
    BY <1>1 DEF CreateRuntime
  <2>4. /\ PossibleFirst' = PossibleFirst /\ PossibleOrders' = PossibleOrders
        /\ \A first, order : RuntimeOf(first, order)' = RuntimeOf(first, order)
    BY <2>2 DEF PossibleFirst, PossibleOrders, RuntimeOf, FirstPoints, DonePoints, InstancesOf,
                HasLolaBinding, CountInstances, GetMessagePassingCfg, HasAsilBSupport
  <2> QED
    BY <2>1, <2>3, <2>4 DEF RuntimeInvariant
<1>2. ASSUME NEW i, NEW x, RegisterServiceElement(i, x) PROVE RuntimeInvariant'
  <2>1. /\ filter # Nothing
        /\ IsFiniteSet(registered \cup {<<i, x>>})
        /\ Cardinality(registered \cup {<<i, x>>}) <= lolaRuntime.samplePtrs
        /\ \A r \in registered \cup {<<i, x>>} : RegistersFor(r)
        /\ Cardinality(registered \cup {<<i, x>>}) <= registrations + 1
        /\ registrations \in Nat
    BY <1>2, PointerLeft
  <2>2. /\ registered' = registered \cup {<<i, x>>} /\ registrations' = registrations + 1
        /\ UNCHANGED <<config, filter, lolaRuntime>> /\ phase = "ready"
    BY <1>2, <2>1 DEF RegisterServiceElement
  <2>3. /\ PossibleFirst' = PossibleFirst /\ PossibleOrders' = PossibleOrders
        /\ \A first, order : RuntimeOf(first, order)' = RuntimeOf(first, order)
        /\ \A r : RegistersFor(r)' <=> RegistersFor(r)
    BY <2>2 DEF PossibleFirst, PossibleOrders, RuntimeOf, FirstPoints, DonePoints, InstancesOf,
                HasLolaBinding, CountInstances, GetMessagePassingCfg, HasAsilBSupport,
                RegistersFor
  <2> QED
    BY <2>1, <2>2, <2>3 DEF RuntimeInvariant
<1>3. CASE registered' = {} /\ registrations' = 0 /\ phase' # "ready"
  BY <1>3 DEF RuntimeInvariant
<1>4. CASE /\ UNCHANGED <<config, filter, lolaRuntime, registered, registrations>>
           /\ phase' = "ready" => phase = "ready"
  <2>1. /\ PossibleFirst' = PossibleFirst /\ PossibleOrders' = PossibleOrders
        /\ \A first, order : RuntimeOf(first, order)' = RuntimeOf(first, order)
        /\ \A r : RegistersFor(r)' <=> RegistersFor(r)
    BY <1>4 DEF PossibleFirst, PossibleOrders, RuntimeOf, FirstPoints, DonePoints, InstancesOf,
                HasLolaBinding, CountInstances, GetMessagePassingCfg, HasAsilBSupport,
                RegistersFor
  <2> QED
    BY <1>4, <2>1 DEF RuntimeInvariant
<1> QED
  BY <1>1, <1>2, <1>3, <1>4, RuntimeMoves

(* A process ends while it parses, or when an element was registered again.*)
LEMMA TracersStep ==
    ASSUME LifecycleInvariant, ConfigurationInvariant, FilterInvariant, RuntimeInvariant,
           OnlyRepeatsEndTheProcess, [BindingsNext]_allVars
    PROVE  OnlyRepeatsEndTheProcess'
<1> USE DEF LifecycleInvariant, Parsing, Built, Ended, lifecycle, parser, bindings, Kept, Terminate,
        OnlyRepeatsEndTheProcess
<1>1. CASE Initialize /\ Kept
  BY <1>1 DEF Initialize, InitializeAllowed, StartParse
<1>2. CASE getInstance /\ Kept
  BY <1>2 DEF getInstance, StartParse, TakeStored
<1>3. CASE ParseTracingProperties /\ Kept
  BY <1>3 DEF ParseTracingProperties
<1>4. CASE ParseServiceType /\ Kept
  BY <1>4 DEF ParseServiceType
<1>5. CASE ParseServiceTypesEnd /\ Kept
  BY <1>5 DEF ParseServiceTypesEnd
<1>6. CASE ParseServiceInstance /\ Kept
  BY <1>6 DEF ParseServiceInstance
<1>7. CASE ParseServiceInstancesEnd /\ Kept
  BY <1>7 DEF ParseServiceInstancesEnd
<1>8. CASE ParseGlobalProperties /\ Kept
  BY <1>8 DEF ParseGlobalProperties
<1>9. CASE Crosscheck /\ Kept
  BY <1>9 DEF Crosscheck
<1>10. CASE ParseTraceConfig /\ Kept
  BY <1>10 DEF ParseTraceConfig
<1>11. CASE ParseFilterElement /\ Kept
  BY <1>11 DEF ParseFilterElement
<1>12. CASE ParseServicesEnd /\ Kept
  BY <1>12 DEF ParseServicesEnd
<1>13. CASE CreateRuntime /\ Kept
  BY <1>13 DEF CreateRuntime
<1>14. CASE StoreConfigurationAnew
  BY <1>14 DEF StoreConfigurationAnew, StoreConfiguration
<1>15. ASSUME NEW i, NEW x, RegisterServiceElement(i, x) /\ Kept
       PROVE  OnlyRepeatsEndTheProcess'
  <2>1. /\ Cardinality(registered \cup {<<i, x>>}) <= lolaRuntime.samplePtrs
        /\ Cardinality(registered \cup {<<i, x>>}) \in Nat
        /\ registrations \in Nat /\ lolaRuntime.samplePtrs \in Nat
    BY <1>15, PointerLeft
  <2>2. /\ registered' = registered \cup {<<i, x>>} /\ registrations' = registrations + 1
        /\ phase' = IF registrations < lolaRuntime.samplePtrs THEN phase ELSE "terminated"
        /\ phase = "ready"
    BY <1>15 DEF RegisterServiceElement
  <2> QED
    BY <2>1, <2>2
<1>16. CASE Create
  BY <1>16 DEF Create, Misused, allVars, configurationVars
<1>17. ASSUME NEW i, NEW x, BindSkeletonElement(i, x) PROVE OnlyRepeatsEndTheProcess'
  BY <1>17 DEF BindSkeletonElement, Misused, allVars, configurationVars
<1>18. ASSUME NEW i, NEW x, NEW id, BindElement(i, x, id) PROVE OnlyRepeatsEndTheProcess'
  BY <1>18 DEF BindElement, Misused, allVars, configurationVars
<1>19. CASE UNCHANGED allVars
  BY <1>19 DEF allVars, configurationVars
<1> QED
  BY <1>1, <1>2, <1>3, <1>4, <1>5, <1>6, <1>7, <1>8, <1>9, <1>10, <1>11, <1>12, <1>13, <1>14,
     <1>15, <1>16, <1>17, <1>18, <1>19
     DEF BindingsNext, BindProxyElement, BindGenericProxyElements

(* AggregateAllowedUsers over the instances, unfolded.                     *)
LEMMA AllowedUnfolds ==
    ASSUME NEW instances, NEW order, NEW q
    PROVE  AllowedUsers(instances, order, q)
             = (CHOOSE g : g = [s \in SUBSET DOMAIN order |->
                    IF s = {} THEN [users |-> {}, everyone |-> FALSE]
                    ELSE AggregateInstance(g[s \ {Max(s)}], instances[order[Max(s)]], q)])
                 [DOMAIN order].users
BY DEF AllowedUsers, FoldLeft, MapThenFoldSet

(* The lists of an instance and what the union of lists is.                *)
ListsOf(instance, q) == {instance.consumer[q], instance.provider[q]} \ {Nothing}

Union(lists) ==
    IF {} \in lists THEN [users |-> {}, everyone |-> TRUE]
                    ELSE [users |-> UNION lists, everyone |-> FALSE]

(* An instance adds its lists.                                             *)
LEMMA ListsAdd ==
    ASSUME NEW lists, NEW instance, NEW q
    PROVE  AggregateInstance(Union(lists), instance, q) = Union(lists \cup ListsOf(instance, q))
<1>1. ASSUME NEW some, NEW list
      PROVE  AggregateAllowedUsers(Union(some), list) = Union(some \cup ({list} \ {Nothing}))
  <2>1. CASE list = Nothing
    <3>1. some \cup ({list} \ {Nothing}) = some
      BY <2>1
    <3> QED
      BY <2>1, <3>1 DEF AggregateAllowedUsers
  <2>2. CASE {} \in some /\ list # Nothing
    <3>1. Union(some).everyone /\ Union(some) = Union(some \cup ({list} \ {Nothing}))
      BY <2>2 DEF Union
    <3> QED
      BY <2>2, <3>1 DEF AggregateAllowedUsers
  <2>3. CASE {} \notin some /\ list # Nothing
    <3>1. some \cup ({list} \ {Nothing}) = some \cup {list}
      BY <2>3
    <3>2. Union(some) = [users |-> UNION some, everyone |-> FALSE] /\ ~Union(some).everyone
      BY <2>3 DEF Union
    <3>3. CASE list = {}
      BY <2>3, <3>1, <3>2, <3>3 DEF AggregateAllowedUsers, Union
    <3>4. CASE list # {}
      <4>1. UNION (some \cup {list}) = (UNION some) \cup list
        OBVIOUS
      <4>2. AggregateAllowedUsers(Union(some), list)
              = [users |-> (UNION some) \cup list, everyone |-> FALSE]
        BY <2>3, <3>2, <3>4 DEF AggregateAllowedUsers
      <4> QED
        <5>1. {} \notin some \cup {list}
          BY <2>3, <3>4
        <5>2. Union(some \cup {list}) = [users |-> (UNION some) \cup list, everyone |-> FALSE]
          BY <4>1, <5>1 DEF Union
        <5> QED
          BY <3>1, <4>2, <5>2
    <3> QED
      BY <3>3, <3>4
  <2> QED
    BY <2>1, <2>2, <2>3
<1>2. (lists \cup ({instance.consumer[q]} \ {Nothing})) \cup ({instance.provider[q]} \ {Nothing})
        = lists \cup ListsOf(instance, q)
  BY DEF ListsOf
<1> QED
  <2> DEFINE c == {instance.consumer[q]} \ {Nothing}
             p == {instance.provider[q]} \ {Nothing}
  <2>1. AggregateAllowedUsers(Union(lists), instance.consumer[q]) = Union(lists \cup c)
    BY <1>1
  <2>2. AggregateAllowedUsers(Union(lists \cup c), instance.provider[q]) = Union((lists \cup c) \cup p)
    BY <1>1
  <2>3. AggregateInstance(Union(lists), instance, q)
          = AggregateAllowedUsers(AggregateAllowedUsers(Union(lists), instance.consumer[q]),
                                  instance.provider[q])
    BY DEF AggregateInstance
  <2> QED
    BY <1>2, <2>1, <2>2, <2>3

(* A set of positions has a largest one.                                   *)
LEMMA MaxIsIn ==
    ASSUME NEW n \in Nat, NEW s \in SUBSET (1 .. n), s # {}
    PROVE  Max(s) \in s
<1> DEFINE D == {n - t : t \in s}
<1>1. D \subseteq Nat /\ D # {}
  <2>1. \A t \in s : t \in 1 .. n /\ n - t \in Nat
    OBVIOUS
  <2> QED
    BY <2>1
<1>2. PICK d \in D : \A e \in D : ~(<<e, d>> \in OpToRel(<, Nat))
  BY <1>1, NatLessThanWellFounded, WFMin
<1>3. PICK t \in s : d = n - t
  OBVIOUS
<1>4. ASSUME NEW u \in s PROVE t >= u
  <2>1. n - u \in D /\ n - u \in Nat /\ d \in Nat
    BY <1>1
  <2>2. ~(n - u < d)
    BY <1>2, <2>1 DEF OpToRel
  <2> QED
    BY <1>3, <2>2
<1> QED
  BY <1>4 DEF Max

(* What the process allows are the users of all lists of all instances, or *)
(* everyone.                                                               *)
LEMMA AllowedIsUnion ==
    ASSUME NEW instances, NEW n \in Nat, NEW order, DOMAIN order = 1 .. n, NEW q
    PROVE  AllowedUsers(instances, order, q)
             = Union(UNION {ListsOf(instances[order[k]], q) : k \in 1 .. n}).users
<1> DEFINE S == 1 .. n
           nobody == [users |-> {}, everyone |-> FALSE]
           Folds(g) == g = [s \in SUBSET S |->
                              IF s = {} THEN nobody
                              ELSE AggregateInstance(g[s \ {Max(s)}], instances[order[Max(s)]], q)]
           lists(s) == UNION {ListsOf(instances[order[k]], q) : k \in s}
           u == [s \in SUBSET S |-> Union(lists(s))]
<1>1. \A s \in SUBSET S :
         s # {} => /\ Max(s) \in s /\ s \ {Max(s)} \in SUBSET S
                   /\ u[s] = AggregateInstance(u[s \ {Max(s)}], instances[order[Max(s)]], q)
  <2> SUFFICES ASSUME NEW s \in SUBSET S, s # {}
               PROVE  /\ Max(s) \in s /\ s \ {Max(s)} \in SUBSET S
                      /\ u[s] = AggregateInstance(u[s \ {Max(s)}], instances[order[Max(s)]], q)
    OBVIOUS
  <2>1. Max(s) \in s /\ s \ {Max(s)} \in SUBSET S
    BY MaxIsIn
  <2> DEFINE m == Max(s)
  <2>2. lists(s) = lists(s \ {m}) \cup ListsOf(instances[order[m]], q)
    <3> HIDE DEF m
    <3>1. m \in s
      BY <2>1 DEF m
    <3> QED
      BY <3>1
  <2>3. AggregateInstance(Union(lists(s \ {m})), instances[order[m]], q)
          = Union(lists(s \ {m}) \cup ListsOf(instances[order[m]], q))
    BY ListsAdd
  <2>4. u[s] = Union(lists(s)) /\ u[s \ {m}] = Union(lists(s \ {m}))
    BY <2>1
  <2> QED
    BY <2>1, <2>2, <2>3, <2>4
<1>2. u[{}] = nobody
  <2>1. lists({}) = {}
    OBVIOUS
  <2>2. Union({}) = nobody
    BY DEF Union
  <2> QED
    BY <2>1, <2>2
<1>3. Folds(u)
  <2>1. u = [s \in SUBSET S |-> u[s]]
    OBVIOUS
  <2>2. \A s \in SUBSET S :
          u[s] = IF s = {} THEN nobody
                 ELSE AggregateInstance(u[s \ {Max(s)}], instances[order[Max(s)]], q)
    BY <1>1, <1>2
  <2> HIDE DEF u
  <2> QED
    BY <2>1, <2>2
<1>4. ASSUME NEW g, Folds(g) PROVE g[S] = u[S]
  <2> DEFINE wrong == {s \in SUBSET S : g[s] # u[s]}
  <2>0. \A s \in SUBSET S :
          g[s] = IF s = {} THEN nobody
                 ELSE AggregateInstance(g[s \ {Max(s)}], instances[order[Max(s)]], q)
    BY <1>4
  <2>1. SUFFICES ASSUME wrong # {} PROVE FALSE
    OBVIOUS
  <2>2. wrong \subseteq FiniteSubsetsOf(S)
    <3>1. IsFiniteSet(S)
      BY FS_Interval
    <3>2. \A s \in SUBSET S : IsFiniteSet(s)
      BY <3>1, FS_Subset
    <3> QED
      BY <3>2 DEF FiniteSubsetsOf
  <2>3. PICK s \in wrong : \A t \in wrong : <<t, s>> \notin StrictSubsetOrdering(S)
    BY <2>1, <2>2, FS_StrictSubsetOrderingWellFounded, WFMin, ZenonT(60)
  <2>4. s # {}
    BY <1>2, <2>0
  <2> DEFINE t == s \ {Max(s)}
  <2>5. t \in SUBSET S /\ t \subseteq s /\ t # s
    BY <1>1, <2>4
  <2>6. g[t] = u[t]
    BY <2>3, <2>5 DEF StrictSubsetOrdering
  <2> QED
    BY <1>1, <2>0, <2>4, <2>6
<1>5. Folds(CHOOSE g : Folds(g))
  BY <1>3
<1>6. (CHOOSE g : Folds(g))[S] = u[S]
  BY <1>4, <1>5
<1>7. AllowedUsers(instances, order, q) = (CHOOSE g : Folds(g))[S].users
  BY AllowedUnfolds
<1>8. u[S] = Union(lists(S))
  OBVIOUS
<1> QED
  BY <1>6, <1>7, <1>8

(* A receiver admits the users of every list of every instance.            *)
LEMMA UsersAdmitted ==
    ASSUME ConfigurationInvariant, RuntimeInvariant
    PROVE  ListedUsersAreAdmitted
<1> SUFFICES ASSUME phase = "ready", NEW q \in DOMAIN lolaRuntime.allowed,
                    NEW i \in DOMAIN config.instances, NEW list \in ListsOf(config.instances[i], q)
             PROVE  lolaRuntime.allowed[q] = {} \/ (list # {} /\ list \subseteq lolaRuntime.allowed[q])
  BY DEF ListedUsersAreAdmitted, ListsOf
<1> DEFINE D == DOMAIN config.instances
           n == Cardinality(D)
<1>1. IsFiniteSet(D) /\ n \in Nat
  BY FS_CardinalityType DEF ConfigurationInvariant, IsSane
<1>2. PICK first \in PossibleFirst, order \in PossibleOrders : lolaRuntime = RuntimeOf(first, order)
  BY DEF RuntimeInvariant
<1>3. /\ order \in [1 .. n -> D] /\ \A j, k \in 1 .. n : j # k => order[j] # order[k]
  BY DEF PossibleOrders, SetToSeqs
<1>4. PICK k \in 1 .. n : order[k] = i
  <2>1. order \in Injection(1 .. n, D)
    BY <1>3 DEF Injection, IsInjective
  <2>2. IsFiniteSet(1 .. n) /\ Cardinality(1 .. n) = n
    BY <1>1, FS_Interval
  <2>3. order \in Surjection(1 .. n, D)
    BY <1>1, <2>1, <2>2, FS_Injection
  <2> QED
    BY <2>3 DEF Surjection
<1>5. lolaRuntime.allowed = GetMessagePassingCfg(order)
  <2>1. CASE HasLolaBinding
    BY <1>2, <2>1 DEF RuntimeOf
  <2>2. CASE ~HasLolaBinding
    BY <1>2, <2>2 DEF RuntimeOf, NoRuntime
  <2> QED
    BY <2>1, <2>2
<1>6. lolaRuntime.allowed[q] = AllowedUsers(config.instances, order, q)
  BY <1>5 DEF GetMessagePassingCfg
<1> DEFINE lists == UNION {ListsOf(config.instances[order[j]], q) : j \in 1 .. n}
<1>7. lolaRuntime.allowed[q] = Union(lists).users
  <2>1. DOMAIN order = 1 .. n
    BY <1>3
  <2> HIDE DEF n
  <2> QED
    BY <1>1, <1>6, <2>1, AllowedIsUnion
<1>8. list \in lists
  BY <1>4
<1> HIDE DEF lists
<1>9. CASE {} \in lists
  BY <1>7, <1>9 DEF Union
<1>10. CASE {} \notin lists
  <2>1. Union(lists).users = UNION lists
    BY <1>10 DEF Union
  <2> QED
    BY <1>7, <1>8, <1>10, <2>1
<1> QED
  BY <1>9, <1>10

(* Two configurations with the same instances and types are sane together. *)
LEMMA SaneTogether ==
    ASSUME NEW c, NEW d, IsSane(c), DOMAIN d = DOMAIN c, d.types = c.types,
           d.instances = c.instances, d.traced = c.traced, d.tracing \in BOOLEAN,
           d.asil \in Qualities
    PROVE  IsSane(d) /\ (AsParsed(c) => AsParsed(d))
<1>1. IsConfiguration(d)
  BY DEF IsSane, IsConfiguration, IsTracingConfiguration
<1>2. \A t : IsTracedIn(c, t) => IsTracedIn(d, t)
  BY DEF IsTracedIn
<1> QED
  BY <1>1, <1>2 DEF IsSane, AsParsed

(* The Configuration before anything is parsed.                            *)
LEMMA EmptySane == IsSane(EmptyConfig) /\ AsParsed(EmptyConfig)
<1>1. IsFiniteSet({})
  BY FS_EmptySet
<1>2. DOMAIN EmptyConfig.types = {} /\ DOMAIN EmptyConfig.instances = {} /\ EmptyConfig.traced = {}
  BY DEF EmptyConfig
<1>3. IsConfiguration(EmptyConfig)
  BY <1>2 DEF IsConfiguration, EmptyConfig, IsTracingConfiguration, Qualities
<1> QED
  BY <1>1, <1>2, <1>3 DEF IsSane, AsParsed

(* A type is added.                                                        *)
LEMMA SaneWithType ==
    ASSUME NEW c, IsSane(c), NEW s, s \in Services \cup {r.instance.service : r \in Remote},
           IsService(s), NEW t, IsTypeDeployment(t),
           NEW d, d = [c EXCEPT !.types = With(@, s, t)]
    PROVE  /\ IsSane(d)
           /\ AsParsed(c) /\ (t # Nothing => AreEventAndFieldIdsUnique(t.elements)) => AsParsed(d)
<1>0. DOMAIN c = {"tracing", "types", "instances", "traced", "asil"}
  BY DEF IsSane, IsConfiguration
<1>1. /\ DOMAIN d = DOMAIN c /\ d.types = With(c.types, s, t) /\ d.instances = c.instances
      /\ d.traced = c.traced /\ d.tracing = c.tracing /\ d.asil = c.asil
  BY <1>0
<1>2. /\ DOMAIN d.types = {s} \cup DOMAIN c.types /\ d.types[s] = t
      /\ \A k \in DOMAIN c.types : k # s => d.types[k] = c.types[k]
  <2>1. /\ DOMAIN With(c.types, s, t) = {s} \cup DOMAIN c.types /\ With(c.types, s, t)[s] = t
        /\ \A k \in DOMAIN c.types : k # s => With(c.types, s, t)[k] = c.types[k]
    BY DEF With
  <2> QED
    BY <1>1, <2>1
<1>3. IsConfiguration(d)
  BY <1>1, <1>2 DEF IsSane, IsConfiguration, IsTracingConfiguration
<1>4. \A u : IsTracedIn(c, u) => IsTracedIn(d, u)
  BY <1>1 DEF IsTracedIn
<1>5. IsSane(d)
  BY <1>1, <1>2, <1>3, <1>4 DEF IsSane
<1>6. AsParsed(c) /\ (t # Nothing => AreEventAndFieldIdsUnique(t.elements)) => AsParsed(d)
  BY <1>1, <1>2 DEF AsParsed
<1> QED
  BY <1>5, <1>6

(* An instance is added, with its elements that have tracing.              *)
AreTracedOf(T, i, x) ==
    \A t \in T :
      /\ t = [name |-> x.service[1], element |-> t.element, specifier |-> i]
      /\ t.element \in DOMAIN x.sizes /\ x.binding = "SHM"
      /\ <<t.name, t.element, t.specifier>> \in Names \X Elements \X Specifiers

WithInstance(c, i, x, T) ==
    [c EXCEPT !.instances = With(@, i, x), !.traced = c.traced \cup T]

(* A configuration with an instance more is sane.                          *)
LEMMA SaneWithInstance ==
    ASSUME NEW c, IsSane(c), NEW i, i \in Specifiers,
           i \notin DOMAIN c.instances, NEW x, IsInstanceDeployment(x), NEW T, IsFiniteSet(T),
           AreTracedOf(T, i, x),
           NEW d, d = WithInstance(c, i, x, T)
    PROVE  IsSane(d) /\ (AsParsed(c) /\ x.binding = "SHM" => AsParsed(d))
<1>0. DOMAIN c = {"tracing", "types", "instances", "traced", "asil"}
  BY DEF IsSane, IsConfiguration
<1>1. /\ DOMAIN d = DOMAIN c /\ d.types = c.types /\ d.instances = With(c.instances, i, x)
      /\ d.traced = c.traced \cup T /\ d.tracing = c.tracing /\ d.asil = c.asil
  BY <1>0 DEF WithInstance
<1>2. /\ DOMAIN d.instances = {i} \cup DOMAIN c.instances /\ d.instances[i] = x
      /\ \A k \in DOMAIN c.instances : k # i => d.instances[k] = c.instances[k]
  <2>1. /\ DOMAIN With(c.instances, i, x) = {i} \cup DOMAIN c.instances
        /\ With(c.instances, i, x)[i] = x
        /\ \A k \in DOMAIN c.instances : k # i => With(c.instances, i, x)[k] = c.instances[k]
    BY DEF With
  <2> QED
    BY <1>1, <2>1
<1>3. IsConfiguration(d)
  <2>1. \A k \in DOMAIN d.instances : IsInstanceDeployment(d.instances[k])
    BY <1>2 DEF IsSane, IsConfiguration
  <2>2. \A t \in d.traced : <<t.name, t.element, t.specifier>> \in Names \X Elements \X Specifiers
    BY <1>1 DEF IsSane, IsConfiguration, IsTracingConfiguration, AreTracedOf
  <2> QED
    BY <1>1, <2>1, <2>2 DEF IsSane, IsConfiguration, IsTracingConfiguration
<1>4. \A t \in d.traced : IsTracedIn(d, t)
  <2>1. ASSUME NEW t \in c.traced PROVE IsTracedIn(d, t)
    BY <1>2 DEF IsSane, IsTracedIn
  <2>2. ASSUME NEW t \in T PROVE IsTracedIn(d, t)
    <3>1. /\ t = [name |-> x.service[1], element |-> t.element, specifier |-> i]
          /\ t.element \in DOMAIN x.sizes /\ x.binding = "SHM"
      BY DEF AreTracedOf
    <3>2. t.name = x.service[1] /\ t.specifier = i
      BY <3>1
    <3> QED
      BY <1>2, <3>1, <3>2 DEF IsTracedIn
  <2> QED
    BY <1>1, <2>1, <2>2
<1>5. IsFiniteSet(DOMAIN d.instances) /\ IsFiniteSet(d.traced)
  <2>1. IsFiniteSet(DOMAIN c.instances \cup {i})
    BY FS_AddElement DEF IsSane
  <2>2. IsFiniteSet(c.traced \cup T)
    BY FS_Union DEF IsSane
  <2>3. DOMAIN d.instances = DOMAIN c.instances \cup {i}
    BY <1>2
  <2> QED
    BY <1>1, <2>1, <2>2, <2>3
<1>6. IsSane(d)
  BY <1>1, <1>2, <1>3, <1>4, <1>5 DEF IsSane
<1>7. AsParsed(c) /\ x.binding = "SHM" => AsParsed(d)
  BY <1>1, <1>2 DEF AsParsed
<1> QED
  BY <1>6, <1>7

(* An entry of serviceTypes that is accepted.                              *)
LEMMA TypeParsed ==
    ASSUME NEW entry \in TypeEntries, TypeAccepted(entry)
    PROVE  /\ ServiceOf(entry) \in Services /\ IsService(ServiceOf(entry))
           /\ IsTypeDeployment(TypeDeployment(entry))
           /\ TypeDeployment(entry) # Nothing
                => AreEventAndFieldIdsUnique(TypeDeployment(entry).elements)
<1>1. IsTypeEntry(entry)
  BY DocumentAssumption
<1>2. ServiceOf(entry) \in Services /\ IsService(ServiceOf(entry))
  BY <1>1 DEF Services, IsTypeEntry, ServiceOf, IsService
<1>3. CASE entry.binding = "SHM"
  BY <1>1, <1>2, <1>3 DEF TypeAccepted, LolaTypeParsed, ElementTypesParsed, TypeDeployment, IsTypeDeployment,
                    IsLolaTypeDeployment, IsTypeEntry
<1>4. CASE entry.binding # "SHM"
  BY <1>2, <1>4 DEF TypeDeployment, IsTypeDeployment
<1> QED
  BY <1>3, <1>4

(* An entry of serviceInstances that is accepted.                          *)
LEMMA InstanceParsed ==
    ASSUME NEW entry \in InstanceEntries, InstanceAccepted(entry)
    PROVE  /\ IsInstanceDeployment(InstanceDeployment(entry))
           /\ entry.specifier \in Specifiers /\ InstanceDeployment(entry).binding = "SHM"
           /\ IsFiniteSet(TracedElements(entry))
           /\ AreTracedOf(TracedElements(entry), entry.specifier, InstanceDeployment(entry))
<1> DEFINE d == InstanceDeployment(entry)
<1>1. IsInstanceEntry(entry)
  BY DocumentAssumption
<1>2. /\ DOMAIN d = {"service", "asil", "binding", "id", "sizes", "strict", "consumer", "provider"}
      /\ d.service = ServiceOf(entry) /\ d.asil = entry.asil /\ d.binding = "SHM" /\ d.id = entry.id
      /\ d.sizes = entry.sizes /\ d.strict = entry.strict /\ d.consumer = entry.consumer
      /\ d.provider = entry.provider
  BY DEF InstanceDeployment, InstanceAccepted
<1>3. IsService(d.service) /\ d.service[1] = entry.name
  BY <1>1, <1>2 DEF IsInstanceEntry, ServiceOf, IsService
<1> HIDE DEF d
<1>4. IsBindingDeployment(d)
  BY <1>1, <1>2 DEF IsInstanceEntry, IsBindingDeployment
<1>5. IsInstanceDeployment(d)
  BY <1>2, <1>3, <1>4 DEF IsInstanceDeployment, IsQuality, InstanceAccepted, Qualities
<1>6. entry.specifier \in Specifiers
  BY DEF Specifiers
<1>7. IsFiniteSet(TracedElements(entry))
  <2> DEFINE name == [x \in entry.traced |->
                        [name |-> entry.name, element |-> x, specifier |-> entry.specifier]]
  <2>1. name \in Surjection(entry.traced, TracedElements(entry))
    BY DEF Surjection, TracedElements
  <2> QED
    BY <1>1, <2>1, FS_Surjection DEF IsInstanceEntry
<1>8. ASSUME NEW t \in TracedElements(entry)
      PROVE  /\ t = [name |-> d.service[1], element |-> t.element, specifier |-> entry.specifier]
             /\ t.element \in DOMAIN d.sizes
             /\ <<t.name, t.element, t.specifier>> \in Names \X Elements \X Specifiers
  <2>1. PICK x \in entry.traced :
          t = [name |-> entry.name, element |-> x, specifier |-> entry.specifier]
    BY DEF TracedElements
  <2>2. x \in DOMAIN entry.sizes
    BY <1>1, <2>1 DEF IsInstanceEntry
  <2>3. x \in Elements
    <3> DEFINE sized == {DOMAIN e.sizes : e \in InstanceEntries}
               listed == {{pair[1] : pair \in e.elements} : e \in TypeEntries}
    <3>1. DOMAIN entry.sizes \in sized
      OBVIOUS
    <3>2. Elements = (UNION listed) \cup (UNION sized)
      BY DEF Elements
    <3> HIDE DEF sized, listed
    <3>3. x \in UNION sized
      BY <2>2, <3>1
    <3> QED
      BY <3>2, <3>3
  <2>4. entry.name \in Names
    <3>1. ServiceOf(entry) \in Services /\ ServiceOf(entry)[1] = entry.name
      <4>1. ServiceOf(entry) \in Services
        BY DEF Services
      <4> QED
        BY <4>1 DEF ServiceOf
    <3>2. ServiceOf(entry)[1] \in Names
      BY <3>1 DEF Names
    <3> QED
      BY <3>1, <3>2
  <2> QED
    BY <1>2, <1>3, <1>6, <2>1, <2>2, <2>3, <2>4
<1>9. AreTracedOf(TracedElements(entry), entry.specifier, d)
  BY <1>2, <1>8 DEF AreTracedOf
<1> QED
  BY <1>2, <1>5, <1>6, <1>7, <1>9 DEF d

(* An instance resolves to a type that has its elements.                   *)
LEMMA Resolved ==
    ASSUME NEW instance, NEW t, IsTypeDeployment(t), t # Nothing,
           AreEventAndFieldIdsUnique(t.elements),
           \A x \in DOMAIN instance.sizes : \E p \in t.elements : p[1] = x
    PROVE  Resolves(instance, t)
<1>1. \A p, q \in t.elements : p[1] = q[1] \/ p[2] = q[2] => p = q
  BY DEF IsTypeDeployment, IsLolaTypeDeployment, AreEventAndFieldIdsUnique
<1>2. ASSUME NEW x \in DOMAIN instance.sizes
      PROVE  \E p \in t.elements : p[1] = x /\ IdsOf(t, x) = {p[2]}
  <2>1. PICK p \in t.elements : p[1] = x
    OBVIOUS
  <2>2. {e \in t.elements : e[1] = x} = {p}
    BY <1>1, <2>1
  <2> QED
    BY <2>1, <2>2 DEF IdsOf
<1>3. \A x \in DOMAIN instance.sizes : Cardinality(IdsOf(t, x)) = 1
  <2>1. \A v : Cardinality({v}) = 1
    BY FS_Singleton
  <2> QED
    <3>1. SUFFICES ASSUME NEW x \in DOMAIN instance.sizes
                   PROVE  Cardinality(IdsOf(t, x)) = 1
      OBVIOUS
    <3>2. PICK p \in t.elements : IdsOf(t, x) = {p[2]}
      BY <1>2
    <3> QED
      BY <2>1, <3>2
<1>4. \A x, y \in DOMAIN instance.sizes : x # y => IdsOf(t, x) \cap IdsOf(t, y) = {}
  BY <1>1, <1>2
<1> QED
  BY <1>3, <1>4 DEF Resolves

(* A configuration that passes the cross checks is consistent.             *)
LEMMA Crosschecked ==
    ASSUME NEW c, IsSane(c), AsParsed(c), CrosscheckAsilLevels(c),
           CrosscheckServiceInstancesToTypes(c)
    PROVE  IsConsistent(c, {})
<1> SUFFICES ASSUME NEW i \in DOMAIN c.instances
             PROVE  /\ c.instances[i].service \in DOMAIN c.types
                    /\ Resolves(c.instances[i], c.types[c.instances[i].service])
                    /\ c.instances[i].binding = "SHM"
                    /\ c.instances[i].asil = "B" => c.asil = "B"
  BY DEF IsConsistent
<1> DEFINE instance == c.instances[i]
           t == c.types[instance.service]
<1>1. /\ instance.service \in DOMAIN c.types /\ t # Nothing
      /\ \A x \in DOMAIN instance.sizes : \E p \in t.elements : p[1] = x
  BY DEF CrosscheckServiceInstancesToTypes
<1>2. IsTypeDeployment(t) /\ AreEventAndFieldIdsUnique(t.elements)
  BY <1>1 DEF IsSane, IsConfiguration, AsParsed
<1>3. Resolves(instance, t)
  <2> HIDE DEF instance, t
  <2> QED
    BY <1>1, <1>2, Resolved
<1> QED
  BY <1>1, <1>3 DEF AsParsed, CrosscheckAsilLevels

(* A service is read back with its version.                                *)
LEMMA ServiceBack ==
    ASSUME NEW s, IsService(s)
    PROVE  ServiceFromJson(SerializeService(s)) = s
<1>1. s = <<s[1], s[2]>> /\ s[2] = <<s[2][1], s[2][2]>>
  BY DEF IsService, IsVersion
<1>2. VersionFromJson(SerializeVersion(s[2])) = s[2]
  BY <1>1 DEF VersionFromJson, SerializeVersion
<1> QED
  BY <1>1, <1>2 DEF ServiceFromJson, SerializeService

(* A quality level is read back from its name.                             *)
LEMMA QualityBack ==
    ASSUME NEW q, IsQuality(q)
    PROVE  QualityFromString(QualityToString(q)) = q
BY DEF IsQuality, QualityFromString, QualityToString

(* The users per quality are read back; qualities without any too.         *)
LEMMA UsersBack ==
    ASSUME NEW users, IsUserMap(users), NEW json, NEW key,
           json[key] = ConvertUidMapToJson(users)
    PROVE  ConvertJsonToUidMap(json, key) = users
<1> DEFINE written == ConvertUidMapToJson(users)
<1>1. users = [q \in {"QM", "B"} |-> users[q]]
  BY DEF IsUserMap
<1>2. /\ QualityToString("QM") = "kASIL_QM" /\ QualityToString("B") = "kASIL_B"
      /\ QualityFromString("kASIL_QM") = "QM" /\ QualityFromString("kASIL_B") = "B"
  BY DEF QualityToString, QualityFromString
<1>3. Listed(users) = {q \in {"QM", "B"} : users[q] # Nothing}
  BY <1>1 DEF Listed
<1>4. ASSUME NEW q \in {"QM", "B"}
      PROVE  ValueOrNothing(written, QualityToString(q)) = users[q]
  <2>1. QualityToString(q) \in DOMAIN written <=> q \in Listed(users)
    BY <1>2, <1>3 DEF ConvertUidMapToJson
  <2>2. q \in Listed(users) => written[QualityToString(q)] = users[q]
    BY <1>2, <1>3 DEF ConvertUidMapToJson
  <2> QED
    BY <1>3, <2>1, <2>2 DEF ValueOrNothing
<1> HIDE DEF written
<1>5. ConvertJsonToUidMap(json, key) = [q \in {"QM", "B"} |-> ValueOrNothing(written, QualityToString(q))]
  BY DEF ConvertJsonToUidMap, written
<1> QED
  BY <1>1, <1>4, <1>5

(* An element without its tracing flag, field by field.                    *)
LEMMA TracingCleared ==
    ASSUME NEW e, DOMAIN e = {"slots", "subscribers", "allocations", "enforce", "tracing"}
    PROVE  [e EXCEPT !.tracing = FALSE]
             = [slots |-> e.slots, subscribers |-> e.subscribers, allocations |-> e.allocations,
                enforce |-> e.enforce, tracing |-> FALSE]
<1> DEFINE keys == {"slots", "subscribers", "allocations", "enforce", "tracing"}
           f == [e EXCEPT !.tracing = FALSE]
           record == [slots |-> e.slots, subscribers |-> e.subscribers,
                      allocations |-> e.allocations, enforce |-> e.enforce, tracing |-> FALSE]
<1>1. f = [k \in keys |-> f[k]]
  <2> HIDE DEF keys
  <2>1. DOMAIN e = keys
    BY DEF keys
  <2> QED
    BY <2>1, Zenon
<1>2. record = [k \in keys |-> record[k]]
  OBVIOUS
<1>3. \A k \in keys : f[k] = record[k]
  <2>1. /\ f.slots = e.slots /\ f.subscribers = e.subscribers /\ f.allocations = e.allocations
        /\ f.enforce = e.enforce /\ f.tracing = FALSE
    OBVIOUS
  <2>2. /\ record.slots = e.slots /\ record.subscribers = e.subscribers
        /\ record.allocations = e.allocations /\ record.enforce = e.enforce
        /\ record.tracing = FALSE
    OBVIOUS
  <2> HIDE DEF f, record
  <2> QED
    BY <2>1, <2>2
<1> HIDE DEF f, record, keys
<1>4. f = record
  BY <1>1, <1>2, <1>3
<1> QED
  BY <1>4 DEF f, record

(* Only the tracing flag of an element stays behind.                       *)
LEMMA ElementBack ==
    ASSUME NEW e, IsElementDeployment(e)
    PROVE  /\ ElementFromJson(SerializeElement(e)) = [e EXCEPT !.tracing = FALSE]
           /\ IsElementDeployment(ElementFromJson(SerializeElement(e)))
           /\ SerializeElement([e EXCEPT !.tracing = FALSE]) = SerializeElement(e)
<1> DEFINE values == [numberOfSampleSlots |-> e.slots, maxSubscribers |-> e.subscribers,
                      maxConcurrentAllocations |-> e.allocations, enforceMaxSamples |-> e.enforce]
           json == SerializeElement(e)
           d == ElementFromJson(json)
           f == [e EXCEPT !.tracing = FALSE]
<1>1. DOMAIN e = {"slots", "subscribers", "allocations", "enforce", "tracing"}
  BY DEF IsElementDeployment
<1>2. \A k \in DOMAIN values : ValueOrNothing(json, k) = values[k]
  <2>1. json = Joined([serializationVersion |-> serializationVersion], Optional(values))
    BY DEF SerializeElement
  <2>2. ASSUME NEW k \in DOMAIN values
        PROVE  /\ k \in DOMAIN json <=> values[k] # Nothing
               /\ k \in DOMAIN json => json[k] = values[k]
    BY <2>1 DEF Joined, Optional
  <2> QED
    BY <2>2 DEF ValueOrNothing
<1>3. d = [slots |-> e.slots, subscribers |-> e.subscribers, allocations |-> e.allocations,
           enforce |-> e.enforce, tracing |-> FALSE]
  <2> HIDE DEF json
  <2>1. /\ ValueOrNothing(json, "numberOfSampleSlots") = e.slots
        /\ ValueOrNothing(json, "maxSubscribers") = e.subscribers
        /\ ValueOrNothing(json, "maxConcurrentAllocations") = e.allocations
        /\ ValueOrNothing(json, "enforceMaxSamples") = e.enforce
    BY <1>2
  <2> QED
    BY <2>1 DEF ElementFromJson
<1>4. /\ f.slots = e.slots /\ f.subscribers = e.subscribers /\ f.allocations = e.allocations
      /\ f.enforce = e.enforce /\ f.tracing = FALSE /\ DOMAIN f = DOMAIN e
  BY <1>1
<1>5. f = [slots |-> e.slots, subscribers |-> e.subscribers, allocations |-> e.allocations,
           enforce |-> e.enforce, tracing |-> FALSE]
  BY <1>1, TracingCleared
<1>6. IsElementDeployment(f)
  <2> HIDE DEF f
  <2> QED
    BY <1>4, <1>5 DEF IsElementDeployment
<1>7. SerializeElement(f) = SerializeElement(e)
  BY <1>4 DEF SerializeElement
<1> QED
  BY <1>3, <1>5, <1>6, <1>7

(* The elements of an instance, of both kinds.                             *)
LEMMA SizesBack ==
    ASSUME NEW sizes, \A x \in DOMAIN sizes : IsElement(x) /\ IsElementDeployment(sizes[x]),
           NEW json, json.events = ConvertServiceElementMapToJson(sizes, "EVENT"),
           json.fields = ConvertServiceElementMapToJson(sizes, "FIELD")
    PROVE  /\ ElementsFromJson(json) = Untraced(sizes)
           /\ \A x \in DOMAIN Untraced(sizes) : IsElement(x) /\ IsElementDeployment(Untraced(sizes)[x])
<1> DEFINE Some(kind, key) == ConvertJsonToServiceElementMap(json, key, kind)
<1>1. ASSUME NEW kind, NEW key, json[key] = ConvertServiceElementMapToJson(sizes, kind)
      PROVE  /\ DOMAIN Some(kind, key) = Named(sizes, kind)
             /\ \A x \in Named(sizes, kind) : Some(kind, key)[x] = Untraced(sizes)[x]
  <2> DEFINE names == {x[2] : x \in Named(sizes, kind)}
  <2>1. DOMAIN json[key] = names
    BY <1>1 DEF ConvertServiceElementMapToJson
  <2>2. \A x \in Named(sizes, kind) : x = <<kind, x[2]>>
    BY DEF Named, IsElement
  <2>3. {<<kind, n>> : n \in names} = Named(sizes, kind)
    BY <2>2
  <2>4. DOMAIN Some(kind, key) = Named(sizes, kind)
    BY <2>1, <2>3 DEF ConvertJsonToServiceElementMap
  <2>5. ASSUME NEW x \in Named(sizes, kind)
        PROVE  Some(kind, key)[x] = Untraced(sizes)[x]
    <3>1. x[2] \in names /\ x = <<kind, x[2]>> /\ x \in DOMAIN sizes
      BY <2>2 DEF Named
    <3>2. json[key][x[2]] = SerializeElement(sizes[x])
      BY <1>1, <3>1 DEF ConvertServiceElementMapToJson
    <3>3. Some(kind, key)[x] = ElementFromJson(json[key][x[2]])
      BY <2>4 DEF ConvertJsonToServiceElementMap
    <3>4. ElementFromJson(SerializeElement(sizes[x])) = [sizes[x] EXCEPT !.tracing = FALSE]
      BY <3>1, ElementBack
    <3> QED
      BY <3>1, <3>2, <3>3, <3>4 DEF Untraced
  <2> QED
    BY <2>4, <2>5
<1>2. DOMAIN sizes = Named(sizes, "EVENT") \cup Named(sizes, "FIELD")
  BY DEF Named, IsElement
<1>3. ElementsFromJson(json) = Joined(Some("EVENT", "events"), Some("FIELD", "fields"))
  BY DEF ElementsFromJson
<1>4. DOMAIN Untraced(sizes) = DOMAIN sizes
  BY DEF Untraced
<1>5. ElementsFromJson(json) = [x \in DOMAIN sizes |-> Untraced(sizes)[x]]
  <2> DEFINE events == Some("EVENT", "events")
             fields == Some("FIELD", "fields")
  <2>1. /\ DOMAIN events = Named(sizes, "EVENT") /\ DOMAIN fields = Named(sizes, "FIELD")
        /\ \A x \in Named(sizes, "EVENT") : events[x] = Untraced(sizes)[x]
        /\ \A x \in Named(sizes, "FIELD") : fields[x] = Untraced(sizes)[x]
    BY <1>1
  <2> HIDE DEF events, fields
  <2>2. Joined(events, fields) = [x \in DOMAIN sizes |-> Untraced(sizes)[x]]
    BY <1>2, <2>1 DEF Joined
  <2> QED
    BY <1>3, <2>2 DEF events, fields
<1>6. Untraced(sizes) = [x \in DOMAIN sizes |-> Untraced(sizes)[x]]
  BY <1>4 DEF Untraced
<1>7. ASSUME NEW x \in DOMAIN sizes PROVE IsElement(x) /\ IsElementDeployment(Untraced(sizes)[x])
  <2>1. IsElementDeployment([sizes[x] EXCEPT !.tracing = FALSE])
    BY ElementBack
  <2> QED
    BY <2>1 DEF Untraced
<1> QED
  BY <1>4, <1>5, <1>6, <1>7

(* The ids of the elements of a type.                                      *)
LEMMA TypeBack ==
    ASSUME NEW t, IsTypeDeployment(t)
    PROVE  TypeFromJson(SerializeType(t)) = t
<1> DEFINE json == SerializeType(t)
<1>1. CASE t = Nothing
  <2>1. json = Joined([serializationVersion |-> serializationVersion], SerializeVariant(1, 2, <<>>))
    BY <1>1 DEF SerializeType
  <2>2. SerializeVariant(1, 2, <<>>) = [bindingInfoIndex |-> 1]
    BY DEF SerializeVariant, Blank
  <2>3. json.bindingInfoIndex = 1
    BY <2>1, <2>2 DEF Joined
  <2> QED
    BY <1>1, <2>3 DEF TypeFromJson
<1>2. CASE t # Nothing
  <2> DEFINE content == SerializeLolaType(t)
             elements == t.elements
  <2>1. json = Joined([serializationVersion |-> serializationVersion], SerializeVariant(0, 2, content))
    BY <1>2 DEF SerializeType
  <2>2. SerializeVariant(0, 2, content) = [bindingInfoIndex |-> 0, bindingInfo |-> content]
    BY DEF SerializeVariant, Blank
  <2>3. json.bindingInfoIndex = 0 /\ json.bindingInfo = content
    <3> HIDE DEF content
    <3> QED
      BY <2>1, <2>2 DEF Joined
  <2>4. IsLolaTypeDeployment(t)
    BY <1>2 DEF IsTypeDeployment
  <2>5. ASSUME NEW kind, NEW key, content[key] = ConvertServiceElementIdMapToJson(elements, kind)
        PROVE  ConvertJsonToServiceElementIdMap(content, key, kind) = {p \in elements : p[1][1] = kind}
    <3> DEFINE some == {p \in elements : p[1][1] = kind}
               names == {p[1][2] : p \in some}
    <3>1. \A p \in some : p = <<<<kind, p[1][2]>>, p[2]>>
      BY <2>4 DEF IsLolaTypeDeployment, IsIdentifiedElement, IsElement
    <3>2. DOMAIN content[key] = names
      BY <2>5 DEF ConvertServiceElementIdMapToJson
    <3>3. ASSUME NEW p \in some PROVE content[key][p[1][2]] = p[2]
      <4>1. p[1][2] \in names /\ p[1] = <<kind, p[1][2]>>
        BY <3>1
      <4>2. content[key][p[1][2]] = (CHOOSE q \in elements : q[1] = <<kind, p[1][2]>>)[2]
        BY <2>5, <4>1 DEF ConvertServiceElementIdMapToJson
      <4>3. (CHOOSE q \in elements : q[1] = <<kind, p[1][2]>>) = p
        <5>1. \E q \in elements : q[1] = <<kind, p[1][2]>>
          BY <4>1
        <5>2. \A q \in elements : q[1] = <<kind, p[1][2]>> => q = p
          BY <2>4, <4>1 DEF IsLolaTypeDeployment
        <5> QED
          BY <5>1, <5>2
      <4> QED
        BY <4>2, <4>3
    <3>4. {<<<<kind, n>>, content[key][n]>> : n \in names} = some
      BY <3>1, <3>3
    <3> QED
      BY <3>2, <3>4 DEF ConvertJsonToServiceElementIdMap
  <2>6. /\ content.events = ConvertServiceElementIdMapToJson(elements, "EVENT")
        /\ content.fields = ConvertServiceElementIdMapToJson(elements, "FIELD")
        /\ content.serviceId = t.serviceId
    BY DEF SerializeLolaType
  <2>7. elements = {p \in elements : p[1][1] = "EVENT"} \cup {p \in elements : p[1][1] = "FIELD"}
    BY <2>4 DEF IsLolaTypeDeployment, IsIdentifiedElement, IsElement
  <2>8. t = [serviceId |-> t.serviceId, elements |-> elements]
    BY <2>4 DEF IsLolaTypeDeployment
  <2>9. LolaTypeFromJson(content) = t
    <3>1. /\ ConvertJsonToServiceElementIdMap(content, "events", "EVENT") = {p \in elements : p[1][1] = "EVENT"}
          /\ ConvertJsonToServiceElementIdMap(content, "fields", "FIELD") = {p \in elements : p[1][1] = "FIELD"}
      BY <2>5, <2>6
    <3> HIDE DEF content, elements
    <3> QED
      BY <2>6, <2>7, <2>8, <3>1 DEF LolaTypeFromJson
  <2> QED
    BY <2>3, <2>9 DEF TypeFromJson
<1> QED
  BY <1>1, <1>2

(* The optional id of an instance.                                         *)
LEMMA IdBack ==
    ASSUME NEW record, "instanceId" \notin DOMAIN record, NEW id, NEW json,
           json = Joined(record, SerializeOptionalId(id))
    PROVE  /\ \A k \in DOMAIN record : json[k] = record[k]
           /\ OptionalId(json) = id
<1>1. CASE id = Nothing
  <2>1. DOMAIN SerializeOptionalId(id) = {}
    BY <1>1 DEF SerializeOptionalId
  <2> QED
    BY <1>1, <2>1 DEF Joined, OptionalId
<1>2. CASE id # Nothing
  <2>1. SerializeOptionalId(id) = [instanceId |-> SerializeId(id)]
    BY <1>2 DEF SerializeOptionalId
  <2>2. "instanceId" \in DOMAIN json /\ json["instanceId"] = SerializeId(id)
    BY <2>1 DEF Joined
  <2>3. IdFromJson(SerializeId(id)) = id
    BY DEF IdFromJson, SerializeId
  <2>4. \A k \in DOMAIN record : json[k] = record[k]
    BY DEF Joined
  <2> QED
    BY <2>2, <2>3, <2>4 DEF OptionalId
<1> QED
  BY <1>1, <1>2

(* The deployment of a Lola instance.                                      *)
LEMMA LolaInstanceBack ==
    ASSUME NEW e, IsBindingDeployment(e), NEW b, b = LolaInstanceFromJson(SerializeLolaInstance(e))
    PROVE  /\ DOMAIN b = {"binding", "id", "sizes", "strict", "consumer", "provider"}
           /\ b.binding = "SHM" /\ b.id = e.id /\ b.strict = e.strict /\ b.consumer = e.consumer
           /\ b.provider = e.provider /\ b.sizes = Untraced(e.sizes) /\ IsBindingDeployment(b)
<1> DEFINE record == [serializationVersion |-> serializationVersion,
                      events |-> ConvertServiceElementMapToJson(e.sizes, "EVENT"),
                      fields |-> ConvertServiceElementMapToJson(e.sizes, "FIELD"),
                      strict |-> e.strict,
                      allowedConsumer |-> ConvertUidMapToJson(e.consumer),
                      allowedProvider |-> ConvertUidMapToJson(e.provider)]
           json == SerializeLolaInstance(e)
<1>1. json = Joined(record, SerializeOptionalId(e.id))
  BY DEF SerializeLolaInstance
<1>2. "instanceId" \notin DOMAIN record
  OBVIOUS
<1>3. (\A k \in DOMAIN record : json[k] = record[k]) /\ OptionalId(json) = e.id
  <2> HIDE DEF record, json
  <2> QED
    BY <1>1, <1>2, IdBack
<1>4. /\ json.events = ConvertServiceElementMapToJson(e.sizes, "EVENT")
      /\ json.fields = ConvertServiceElementMapToJson(e.sizes, "FIELD")
      /\ json.strict = e.strict
      /\ json.allowedConsumer = ConvertUidMapToJson(e.consumer)
      /\ json.allowedProvider = ConvertUidMapToJson(e.provider)
  <2>1. /\ json["events"] = record["events"] /\ json["fields"] = record["fields"]
        /\ json["strict"] = record["strict"]
        /\ json["allowedConsumer"] = record["allowedConsumer"]
        /\ json["allowedProvider"] = record["allowedProvider"]
    <3> HIDE DEF json
    <3> QED
      BY <1>3
  <2> QED
    BY <2>1
<1> HIDE DEF record, json
<1>5. /\ ElementsFromJson(json) = Untraced(e.sizes)
      /\ \A x \in DOMAIN Untraced(e.sizes) : IsElement(x) /\ IsElementDeployment(Untraced(e.sizes)[x])
  BY <1>4, SizesBack DEF IsBindingDeployment
<1>6. /\ ConvertJsonToUidMap(json, "allowedConsumer") = e.consumer
      /\ ConvertJsonToUidMap(json, "allowedProvider") = e.provider
  BY <1>4, UsersBack DEF IsBindingDeployment
<1>7. b = [binding |-> "SHM", id |-> e.id, sizes |-> Untraced(e.sizes), strict |-> e.strict,
           consumer |-> e.consumer, provider |-> e.provider]
  BY <1>3, <1>4, <1>5, <1>6 DEF LolaInstanceFromJson, json
<1>8. /\ DOMAIN b = {"binding", "id", "sizes", "strict", "consumer", "provider"}
      /\ b.binding = "SHM" /\ b.id = e.id /\ b.strict = e.strict /\ b.consumer = e.consumer
      /\ b.provider = e.provider /\ b.sizes = Untraced(e.sizes)
  BY <1>7
<1> QED
  BY <1>5, <1>8 DEF IsBindingDeployment

(* The deployment of a SOME/IP instance, of which the id is read.          *)
LEMMA SomeIpInstanceBack ==
    ASSUME NEW e, IsBindingDeployment(e), NEW b,
           b = SomeIpInstanceFromJson(SerializeSomeIpInstance(e))
    PROVE  /\ DOMAIN b = {"binding", "id", "sizes", "strict", "consumer", "provider"}
           /\ b.binding = "SOME/IP" /\ b.id = e.id /\ IsBindingDeployment(b)
<1> DEFINE record == [serializationVersion |-> serializationVersion, events |-> <<>>, fields |-> <<>>]
           json == SerializeSomeIpInstance(e)
<1>1. json = Joined(record, SerializeOptionalId(e.id))
  BY DEF SerializeSomeIpInstance
<1>2. "instanceId" \notin DOMAIN record
  OBVIOUS
<1>3. (\A k \in DOMAIN record : json[k] = record[k]) /\ OptionalId(json) = e.id
  <2> HIDE DEF record, json
  <2> QED
    BY <1>1, <1>2, IdBack
<1>4. json.events = <<>> /\ json.fields = <<>>
  <2>1. json["events"] = record["events"] /\ json["fields"] = record["fields"]
    <3> HIDE DEF json
    <3> QED
      BY <1>3
  <2> QED
    BY <2>1
<1> HIDE DEF record, json
<1>5. DOMAIN ElementsFromJson(json) = {}
  <2>1. DOMAIN json["events"] = {} /\ DOMAIN json["fields"] = {}
    BY <1>4
  <2> QED
    BY <2>1 DEF ElementsFromJson, Joined, ConvertJsonToServiceElementMap
<1>6. b = [binding |-> "SOME/IP", id |-> e.id, sizes |-> ElementsFromJson(json), strict |-> FALSE,
           consumer |-> NoUsers, provider |-> NoUsers]
  BY <1>3 DEF SomeIpInstanceFromJson, json
<1>7. /\ DOMAIN b = {"binding", "id", "sizes", "strict", "consumer", "provider"}
      /\ b.binding = "SOME/IP" /\ b.id = e.id /\ b.strict = FALSE /\ b.consumer = NoUsers
      /\ b.provider = NoUsers /\ DOMAIN b.sizes = {}
  BY <1>5, <1>6
<1>8. IsUserMap(NoUsers)
  BY DEF IsUserMap, NoUsers
<1> QED
  BY <1>7, <1>8 DEF IsBindingDeployment

(* An instance of any binding.                                             *)
LEMMA InstanceBack ==
    ASSUME NEW specifier, NEW e, IsInstanceDeployment(e), NEW json,
           json = SerializeInstance(specifier, e), NEW d, d = InstanceFromJson(json)
    PROVE  /\ json.instanceSpecifier = specifier /\ ServiceFromJson(json.service) = e.service
           /\ IsInstanceDeployment(d)
           /\ d.service = e.service /\ d.asil = e.asil /\ d.binding = e.binding /\ d.id = e.id
           /\ d.binding = "SHM" => /\ d.strict = e.strict /\ d.consumer = e.consumer
                                   /\ d.provider = e.provider /\ d.sizes = Untraced(e.sizes)
<1> DEFINE content == IF e.binding = "SHM" THEN SerializeLolaInstance(e) ELSE SerializeSomeIpInstance(e)
           index == InstanceBindingIndex(e)
           variant == SerializeVariant(index, 3, content)
           head == [serializationVersion |-> serializationVersion, asilLevel |-> QualityToString(e.asil),
                    service |-> SerializeService(e.service), instanceSpecifier |-> specifier]
           b == BindingFromJson(json)
<1>1. json = Joined(head, variant)
  BY DEF SerializeInstance
<1>2. \/ e.binding = "SHM" /\ index = 0
      \/ e.binding = "SOME/IP" /\ index = 1
      \/ e.binding = "blank" /\ index = 2
  BY DEF IsInstanceDeployment, InstanceBindingIndex
<1>3. variant = IF index = 2 THEN [bindingInfoIndex |-> index]
                ELSE [bindingInfoIndex |-> index, bindingInfo |-> content]
  BY DEF SerializeVariant, Blank
<1>4. /\ json.instanceSpecifier = specifier /\ json.service = SerializeService(e.service)
      /\ json.asilLevel = QualityToString(e.asil)
  <2> HIDE DEF variant
  <2> QED
    BY <1>1 DEF Joined
<1>5. json.bindingInfoIndex = index /\ (index # 2 => json.bindingInfo = content)
  <2> HIDE DEF index, content, variant
  <2>1. CASE index = 2
    BY <1>1, <1>3, <2>1 DEF Joined
  <2>2. CASE index # 2
    BY <1>1, <1>3, <2>2 DEF Joined
  <2> QED
    BY <2>1, <2>2
<1>6. IsService(e.service) /\ IsQuality(e.asil) /\ IsBindingDeployment(e)
  BY DEF IsInstanceDeployment
<1>7. ServiceFromJson(json.service) = e.service /\ QualityFromString(json.asilLevel) = e.asil
  BY <1>4, <1>6, ServiceBack, QualityBack
<1> HIDE DEF index
<1>8. /\ DOMAIN b = {"binding", "id", "sizes", "strict", "consumer", "provider"}
      /\ b.binding = e.binding /\ b.id = e.id /\ IsBindingDeployment(b)
      /\ b.binding = "SHM" => /\ b.strict = e.strict /\ b.consumer = e.consumer
                              /\ b.provider = e.provider /\ b.sizes = Untraced(e.sizes)
  <2>1. CASE e.binding = "SHM" /\ index = 0
    <3>1. b = LolaInstanceFromJson(SerializeLolaInstance(e))
      BY <1>5, <2>1 DEF BindingFromJson
    <3> HIDE DEF b
    <3> QED
      BY <1>6, <2>1, <3>1, LolaInstanceBack
  <2>2. CASE e.binding = "SOME/IP" /\ index = 1
    <3>1. b = SomeIpInstanceFromJson(SerializeSomeIpInstance(e))
      BY <1>5, <2>2 DEF BindingFromJson
    <3> HIDE DEF b
    <3> QED
      BY <1>6, <2>2, <3>1, SomeIpInstanceBack
  <2>3. CASE e.binding = "blank" /\ index = 2
    <3>1. b = BlankInstance
      BY <1>5, <2>3 DEF BindingFromJson
    <3>2. /\ DOMAIN b = {"binding", "id", "sizes", "strict", "consumer", "provider"}
          /\ b.binding = "blank" /\ b.id = Nothing /\ DOMAIN b.sizes = {} /\ b.strict = FALSE
          /\ b.consumer = NoUsers /\ b.provider = NoUsers
      BY <3>1 DEF BlankInstance
    <3>3. IsUserMap(NoUsers)
      BY DEF IsUserMap, NoUsers
    <3>4. IsBindingDeployment(b)
      BY <3>2, <3>3 DEF IsBindingDeployment, IsOptionalNumber
    <3>5. e.id = Nothing
      BY <2>3 DEF IsInstanceDeployment
    <3> QED
      BY <2>3, <3>2, <3>4, <3>5
  <2> QED
    BY <1>2, <2>1, <2>2, <2>3
<1>9. d = Joined([service |-> e.service, asil |-> e.asil], b)
  BY <1>7 DEF InstanceFromJson
<1> HIDE DEF b
<1>10. /\ DOMAIN d = {"service", "asil", "binding", "id", "sizes", "strict", "consumer", "provider"}
       /\ d.service = e.service /\ d.asil = e.asil /\ d.binding = b.binding /\ d.id = b.id
       /\ d.sizes = b.sizes /\ d.strict = b.strict /\ d.consumer = b.consumer
       /\ d.provider = b.provider
  BY <1>8, <1>9 DEF Joined
<1>11. IsBindingDeployment(d)
  BY <1>8, <1>10 DEF IsBindingDeployment
<1>12. IsInstanceDeployment(d)
  BY <1>2, <1>6, <1>8, <1>10, <1>11 DEF IsInstanceDeployment
<1> QED
  BY <1>4, <1>7, <1>8, <1>10, <1>12

(* A configuration that is extended by an identifier: it carries it.       *)
LEMMA ExtendedByIdentifier ==
    ASSUME NEW c, IsSane(c), IsConsistent(c, {}), NEW r \in Remote, NEW json,
           json = SerializeIdentifier(r.specifier, r.instance, r.type), MayExtend(c, json),
           NEW n, n = Extended(c, json)
    PROVE  IsSane(n) /\ IsConsistent(n, {r.specifier}) /\ Carries(n, r)
<1> DEFINE e == r.instance
           written == json.serviceInstanceDeployment
           d == InstanceFromJson(written)
           t == TypeFromJson(json.serviceTypeDeployment)
           m == AddServiceTypeDeployment(c, d.service, t)
<1>1. IsInstanceDeployment(e) /\ IsTypeDeployment(r.type) /\ (e.binding = "SHM" => Resolves(e, r.type))
  BY TextAssumption DEF IsIdentifier
<1>2. written = SerializeInstance(r.specifier, e) /\ json.serviceTypeDeployment = SerializeType(r.type)
  BY DEF SerializeIdentifier
<1>3. /\ written.instanceSpecifier = r.specifier /\ ServiceFromJson(written.service) = e.service
      /\ IsInstanceDeployment(d)
      /\ d.service = e.service /\ d.asil = e.asil /\ d.binding = e.binding /\ d.id = e.id
      /\ d.binding = "SHM" => /\ d.strict = e.strict /\ d.consumer = e.consumer
                              /\ d.provider = e.provider /\ d.sizes = Untraced(e.sizes)
  <2> HIDE DEF written
  <2> QED
    BY <1>1, <1>2, InstanceBack
<1>4. t = r.type
  BY <1>1, <1>2, TypeBack
<1>5. e.service \notin DOMAIN c.types /\ r.specifier \notin DOMAIN c.instances
  BY <1>3 DEF MayExtend
<1>6. n = AddServiceInstanceDeployments(m, r.specifier, d)
  BY <1>3 DEF Extended
<1> HIDE DEF d, t, written
<1>7. m = [c EXCEPT !.types = With(@, e.service, r.type)]
  BY <1>3, <1>4 DEF AddServiceTypeDeployment
<1>8. n = [m EXCEPT !.instances = With(@, r.specifier, d)]
  BY <1>6 DEF AddServiceInstanceDeployments
<1> HIDE DEF m
<1>9. IsService(e.service)
  BY <1>1 DEF IsInstanceDeployment
<1>10. e.service \in {q.instance.service : q \in Remote} /\ r.specifier \in {q.specifier : q \in Remote}
  OBVIOUS
<1>11. IsSane(m)
  <2>1. \A s : s = e.service => s \in Services \cup {q.instance.service : q \in Remote}
    BY <1>10
  <2> HIDE DEF e
  <2> QED
    BY <1>1, <1>7, <1>9, <2>1, SaneWithType
<1>12. DOMAIN c = {"tracing", "types", "instances", "traced", "asil"} /\ DOMAIN m = DOMAIN c
  BY <1>7 DEF IsSane, IsConfiguration
<1>13. /\ m.types = With(c.types, e.service, r.type) /\ m.instances = c.instances
       /\ m.traced = c.traced /\ m.tracing = c.tracing /\ m.asil = c.asil
  BY <1>7, <1>12
<1>14. /\ n.types = m.types /\ n.instances = With(m.instances, r.specifier, d)
       /\ n.traced = m.traced /\ n.tracing = m.tracing /\ n.asil = m.asil /\ DOMAIN n = DOMAIN m
  BY <1>8, <1>12
<1>15. /\ DOMAIN n.types = {e.service} \cup DOMAIN c.types /\ n.types[e.service] = r.type
       /\ \A s \in DOMAIN c.types : n.types[s] = c.types[s]
  BY <1>5, <1>13, <1>14 DEF With
<1>16. /\ DOMAIN n.instances = {r.specifier} \cup DOMAIN c.instances /\ n.instances[r.specifier] = d
       /\ \A i \in DOMAIN c.instances : n.instances[i] = c.instances[i]
  BY <1>5, <1>13, <1>14 DEF With
<1>17. IsSane(n)
  <2>1. IsConfiguration(n)
    <3>1. \A s \in DOMAIN n.types : IsService(s) /\ IsTypeDeployment(n.types[s])
      BY <1>11, <1>14 DEF IsSane, IsConfiguration
    <3>2. \A i \in DOMAIN n.instances : IsInstanceDeployment(n.instances[i])
      BY <1>3, <1>16 DEF IsSane, IsConfiguration
    <3> QED
      BY <1>11, <1>14, <3>1, <3>2 DEF IsSane, IsConfiguration, IsTracingConfiguration
  <2>2. \A u \in n.traced : IsTracedIn(n, u)
    BY <1>13, <1>14, <1>16 DEF IsSane, IsTracedIn
  <2>3. IsFiniteSet(DOMAIN c.instances \cup {r.specifier})
    BY FS_AddElement DEF IsSane
  <2>4. IsFiniteSet(DOMAIN n.instances)
    <3>1. DOMAIN n.instances = DOMAIN c.instances \cup {r.specifier}
      BY <1>16
    <3> QED
      BY <2>3, <3>1
  <2>5. DOMAIN n.instances \subseteq Specifiers \cup {q.specifier : q \in Remote}
    BY <1>10, <1>16 DEF IsSane
  <2>6. DOMAIN n.types \subseteq Services \cup {q.instance.service : q \in Remote}
    BY <1>11, <1>14 DEF IsSane
  <2> QED
    BY <1>13, <1>14, <2>1, <2>2, <2>4, <2>5, <2>6 DEF IsSane
<1>18. IsConsistent(n, {r.specifier})
  <2> SUFFICES ASSUME NEW i \in DOMAIN n.instances
               PROVE  /\ n.instances[i].binding = "SHM" =>
                           /\ n.instances[i].service \in DOMAIN n.types
                           /\ Resolves(n.instances[i], n.types[n.instances[i].service])
                      /\ i \notin {r.specifier} =>
                           /\ n.instances[i].binding = "SHM"
                           /\ n.instances[i].asil = "B" => n.asil = "B"
    BY DEF IsConsistent
  <2>1. CASE i = r.specifier
    <3>1. d.binding = "SHM" => Resolves(d, r.type)
      <4>1. DOMAIN Untraced(e.sizes) = DOMAIN e.sizes
        BY DEF Untraced
      <4>2. d.binding = "SHM" => DOMAIN d.sizes = DOMAIN e.sizes
        BY <1>3, <4>1
      <4> QED
        BY <1>1, <1>3, <4>2 DEF Resolves
    <3> QED
      BY <1>3, <1>15, <1>16, <2>1, <3>1
  <2>2. CASE i # r.specifier
    <3>1. i \in DOMAIN c.instances /\ n.instances[i] = c.instances[i]
      BY <1>16, <2>2
    <3> QED
      BY <1>13, <1>14, <1>15, <2>2, <3>1 DEF IsConsistent
  <2> QED
    BY <2>1, <2>2
<1>19. Carries(n, r)
  BY <1>3, <1>15, <1>16 DEF Carries
<1> QED
  BY <1>17, <1>18, <1>19

(* What Create does to the configuration.                                  *)
LEMMA Created ==
    ASSUME LifecycleInvariant, ConfigurationInvariant, Create
    PROVE  \/ /\ UNCHANGED <<config, locked, stored, received, accepted, bound>>
              /\ phase' \in {phase, "misused"}
           \/ /\ UNCHANGED <<phase, config, locked, bound>> /\ ~locked
              /\ received' \in Remote /\ received' # Nothing /\ received = Nothing
              /\ \E json : stored' = Extended(stored, json)
              /\ IsSane(stored') /\ IsConsistent(stored', {received'.specifier})
              /\ Carries(stored', received')
<1>1. received = Nothing /\ phase \in {"idle", "ready"}
  BY DEF Create
<1>2. PICK text \in Texts :
         \/ /\ accepted = Nothing \/ text.json = Nothing
            /\ UNCHANGED allVars
         \/ /\ accepted # Nothing /\ text.json # Nothing /\ stored = Nothing
            /\ Misused \/ UNCHANGED allVars
         \/ /\ stored # Nothing /\ text.json # Nothing
            /\ IF IdentifierReadable(text.json) /\ MayExtend(stored, text.json)
               THEN /\ stored' = Extended(stored, text.json) /\ accepted' = stored'
                    /\ received' = text.of
                    /\ UNCHANGED <<parser, caller, initialized, locked, filter, lolaRuntime,
                                   registered, registrations, bound>>
               ELSE Misused
  BY DEF Create
<1>3. CASE Misused \/ UNCHANGED allVars
  BY <1>3 DEF Misused, allVars, configurationVars, lifecycle, bindings
<1>4. CASE /\ stored # Nothing /\ text.json # Nothing
           /\ IdentifierReadable(text.json) /\ MayExtend(stored, text.json)
           /\ stored' = Extended(stored, text.json)
           /\ received' = text.of
           /\ UNCHANGED <<parser, caller, initialized, locked, filter, lolaRuntime,
                          registered, registrations, bound>>
  <2>1. text \notin {[of |-> Nothing, json |-> json] : json \in OtherTexts}
    <3> SUFFICES ASSUME NEW json \in OtherTexts, text = [of |-> Nothing, json |-> json]
                 PROVE  FALSE
      OBVIOUS
    <3>1. json = Nothing \/ ~IdentifierReadable(json)
      BY TextAssumption
    <3>2. text.json = json
      OBVIOUS
    <3> QED
      BY <1>4, <3>1, <3>2
  <2>2. PICK r \in Remote :
          text = [of |-> r, json |-> SerializeIdentifier(r.specifier, r.instance, r.type)]
    BY <2>1 DEF Texts
  <2>3. text.of = r /\ text.json = SerializeIdentifier(r.specifier, r.instance, r.type)
    BY <2>2
  <2>4. r # Nothing
    BY TextAssumption
  <2>5. ~locked /\ IsSane(stored) /\ IsConsistent(stored, {})
    BY <1>1, <1>4 DEF LifecycleInvariant, ConfigurationInvariant, ReceivedSpecifiers
  <2> DEFINE json == text.json
  <2>6. IsSane(stored') /\ IsConsistent(stored', {r.specifier}) /\ Carries(stored', r)
    <3>1. \A n : n = Extended(stored, json) => IsSane(n) /\ IsConsistent(n, {r.specifier}) /\ Carries(n, r)
      <4> HIDE DEF json
      <4>1. json = SerializeIdentifier(r.specifier, r.instance, r.type)
        BY <2>3 DEF json
      <4>2. MayExtend(stored, json)
        BY <1>4 DEF json
      <4> QED
        BY <2>5, <4>1, <4>2, ExtendedByIdentifier
    <3>2. stored' = Extended(stored, json)
      BY <1>4
    <3> HIDE DEF json
    <3> QED
      BY <3>1, <3>2
  <2>7. received' = r
    BY <1>4, <2>3
  <2>8. UNCHANGED <<phase, config, locked, bound>>
    BY <1>4 DEF parser
  <2>9. \E text2 : stored' = Extended(stored, text2)
    BY <1>4
  <2> QED
    BY <1>1, <2>4, <2>5, <2>6, <2>7, <2>8, <2>9
<1> QED
  BY <1>2, <1>3, <1>4

(* A step that leaves the configurations as they are.                      *)
LEMMA ConfigurationKept ==
    ASSUME ConfigurationInvariant, UNCHANGED <<config, stored, received, locked>>,
           phase' \in Parsing => phase \in Parsing, phase' \in Built => phase \in Built
    PROVE  ConfigurationInvariant'
BY DEF ConfigurationInvariant, ReceivedSpecifiers

(* A step of the parser.                                                   *)
LEMMA ConfigurationParsed ==
    ASSUME ConfigurationInvariant, UNCHANGED <<stored, received, locked>>,
           phase \in Parsing, phase' \in Parsing, IsSane(config'), AsParsed(config')
    PROVE  ConfigurationInvariant'
BY DEF ConfigurationInvariant, ReceivedSpecifiers, Parsing, Built

(* The steps of the parser.                                                *)
LEMMA ParserStep ==
    ASSUME LifecycleInvariant, ConfigurationInvariant, Kept,
           \/ ParseTracingProperties \/ ParseServiceType \/ ParseServiceTypesEnd
           \/ ParseServiceInstance \/ ParseServiceInstancesEnd \/ ParseGlobalProperties
           \/ Crosscheck
    PROVE  ConfigurationInvariant'
<1> USE DEF lifecycle, bindings, Kept
<1>1. IsSane(config) /\ (phase \in Parsing => AsParsed(config))
  BY DEF ConfigurationInvariant
<1>2. DOMAIN config = {"tracing", "types", "instances", "traced", "asil"}
  BY <1>1 DEF IsSane, IsConfiguration
<1>3. CASE Terminate
  BY <1>3, ConfigurationKept DEF Terminate, Parsing, Built
<1>4. ASSUME ParseTracingProperties, ~Terminate PROVE ConfigurationInvariant'
  <2>1. PICK switchedOn \in BOOLEAN : config' = [config EXCEPT !.tracing = switchedOn]
    BY <1>4 DEF ParseTracingProperties
  <2>2. UNCHANGED <<stored, received, locked>> /\ phase = "tracing" /\ phase' = "types"
    BY <1>4 DEF ParseTracingProperties
  <2>3. /\ DOMAIN config' = DOMAIN config /\ config'.types = config.types
        /\ config'.instances = config.instances /\ config'.traced = config.traced
        /\ config'.tracing \in BOOLEAN /\ config'.asil = config.asil
    BY <1>2, <2>1
  <2>4. \A n : /\ DOMAIN n = DOMAIN config /\ n.types = config.types
               /\ n.instances = config.instances /\ n.traced = config.traced
               /\ n.tracing \in BOOLEAN /\ n.asil \in Qualities
               => IsSane(n) /\ (AsParsed(config) => AsParsed(n))
    BY <1>1, SaneTogether
  <2>5. config.asil \in Qualities
    BY <1>1 DEF IsSane, IsConfiguration
  <2>6. IsSane(config') /\ AsParsed(config')
    BY <1>1, <2>2, <2>3, <2>4, <2>5 DEF Parsing
  <2> QED
    BY <2>2, <2>6, ConfigurationParsed DEF Parsing
<1>5. ASSUME ParseServiceType, ~Terminate PROVE ConfigurationInvariant'
  <2>1. PICK entry \in TypeEntries :
          /\ TypeAccepted(entry) /\ ServiceOf(entry) \notin DOMAIN config.types
          /\ config' = [config EXCEPT !.types = With(@, ServiceOf(entry), TypeDeployment(entry))]
    BY <1>5 DEF ParseServiceType
  <2>2. UNCHANGED <<stored, received, locked, phase>> /\ phase = "types"
    BY <1>5 DEF ParseServiceType
  <2>3. /\ ServiceOf(entry) \in Services /\ IsService(ServiceOf(entry))
        /\ IsTypeDeployment(TypeDeployment(entry))
        /\ TypeDeployment(entry) # Nothing
             => AreEventAndFieldIdsUnique(TypeDeployment(entry).elements)
    BY <2>1, TypeParsed
  <2> DEFINE s == ServiceOf(entry)
             t == TypeDeployment(entry)
  <2>4. \A n : n = [config EXCEPT !.types = With(@, s, t)]
               => /\ IsSane(n)
                  /\ AsParsed(config) /\ (t # Nothing => AreEventAndFieldIdsUnique(t.elements)) => AsParsed(n)
    <3> HIDE DEF s, t
    <3>1. s \in Services \cup {r.instance.service : r \in Remote} /\ IsService(s) /\ IsTypeDeployment(t)
      BY <2>3 DEF s, t
    <3> QED
      BY <1>1, <3>1, SaneWithType
  <2>5. IsSane(config') /\ AsParsed(config')
    BY <1>1, <2>1, <2>2, <2>3, <2>4 DEF Parsing
  <2> QED
    BY <2>2, <2>5, ConfigurationParsed DEF Parsing
<1>6. ASSUME ParseServiceTypesEnd PROVE ConfigurationInvariant'
  BY <1>1, <1>6, ConfigurationParsed DEF ParseServiceTypesEnd, Parsing
<1>7. ASSUME ParseServiceInstance, ~Terminate PROVE ConfigurationInvariant'
  <2>1. PICK entry \in InstanceEntries :
          /\ InstanceAccepted(entry) /\ entry.specifier \notin DOMAIN config.instances
          /\ config' =
               [config EXCEPT
                  !.instances = With(@, entry.specifier, InstanceDeployment(entry)),
                  !.traced = IF config.tracing THEN @ \cup TracedElements(entry) ELSE @]
    BY <1>7 DEF ParseServiceInstance
  <2>2. UNCHANGED <<stored, received, locked, phase>> /\ phase = "instances"
    BY <1>7 DEF ParseServiceInstance
  <2> DEFINE i == entry.specifier
             x == InstanceDeployment(entry)
             T == IF config.tracing THEN TracedElements(entry) ELSE {}
  <2>3. /\ IsInstanceDeployment(x) /\ i \in Specifiers /\ x.binding = "SHM" /\ IsFiniteSet(T)
        /\ AreTracedOf(T, i, x)
    <3>1. IsFiniteSet({}) /\ AreTracedOf({}, i, x)
      BY FS_EmptySet DEF AreTracedOf
    <3>2. CASE config.tracing
      BY <2>1, <3>2, InstanceParsed
    <3>3. CASE ~config.tracing
      BY <2>1, <3>1, <3>3, InstanceParsed
    <3> QED
      BY <3>2, <3>3
  <2>4. config' = WithInstance(config, i, x, T)
    <3>1. (IF config.tracing THEN config.traced \cup TracedElements(entry) ELSE config.traced)
            = config.traced \cup T
      OBVIOUS
    <3> QED
      BY <2>1, <3>1 DEF WithInstance
  <2>5. i \notin DOMAIN config.instances
    BY <2>1
  <2> HIDE DEF i, x, T
  <2>6. \A n : n = WithInstance(config, i, x, T)
               => IsSane(n) /\ (AsParsed(config) /\ x.binding = "SHM" => AsParsed(n))
    BY <1>1, <2>3, <2>5, SaneWithInstance
  <2>7. IsSane(config') /\ AsParsed(config')
    BY <1>1, <2>2, <2>3, <2>4, <2>6 DEF Parsing
  <2> QED
    BY <2>2, <2>7, ConfigurationParsed DEF Parsing
<1>8. ASSUME ParseServiceInstancesEnd PROVE ConfigurationInvariant'
  BY <1>1, <1>8, ConfigurationParsed DEF ParseServiceInstancesEnd, Parsing
<1>9. ASSUME ParseGlobalProperties, ~Terminate PROVE ConfigurationInvariant'
  <2>1. PICK q \in Qualities : config' = [config EXCEPT !.asil = q]
    <3>1. PICK entry \in GlobalEntries :
            /\ entry.asil \in Qualities \cup {Nothing}
            /\ config' = [config EXCEPT !.asil = IF entry.asil = Nothing THEN "QM" ELSE entry.asil]
      BY <1>9 DEF ParseGlobalProperties
    <3>2. (IF entry.asil = Nothing THEN "QM" ELSE entry.asil) \in Qualities
      BY <3>1 DEF Qualities
    <3> QED
      BY <3>1, <3>2
  <2>2. UNCHANGED <<stored, received, locked>> /\ phase = "global" /\ phase' = "crosscheck"
    BY <1>9 DEF ParseGlobalProperties
  <2>3. /\ DOMAIN config' = DOMAIN config /\ config'.types = config.types
        /\ config'.instances = config.instances /\ config'.traced = config.traced
        /\ config'.tracing = config.tracing /\ config'.asil \in Qualities
    BY <1>2, <2>1
  <2>4. \A n : /\ DOMAIN n = DOMAIN config /\ n.types = config.types
               /\ n.instances = config.instances /\ n.traced = config.traced
               /\ n.tracing \in BOOLEAN /\ n.asil \in Qualities
               => IsSane(n) /\ (AsParsed(config) => AsParsed(n))
    BY <1>1, SaneTogether
  <2>5. config.tracing \in BOOLEAN
    BY <1>1 DEF IsSane, IsConfiguration, IsTracingConfiguration
  <2>6. IsSane(config') /\ AsParsed(config')
    BY <1>1, <2>2, <2>3, <2>4, <2>5 DEF Parsing
  <2> QED
    BY <2>2, <2>6, ConfigurationParsed DEF Parsing
<1>10. ASSUME Crosscheck, ~Terminate PROVE ConfigurationInvariant'
  <2>1. /\ CrosscheckAsilLevels(config) /\ CrosscheckServiceInstancesToTypes(config)
        /\ phase = "crosscheck" /\ phase' = "parsed" /\ UNCHANGED <<config, stored, received, locked>>
    BY <1>10 DEF Crosscheck
  <2>2. IsConsistent(config, {})
    BY <1>1, <2>1, Crosschecked DEF Parsing
  <2>3. \A added : IsConsistent(config, added)
    BY <2>2 DEF IsConsistent
  <2> QED
    BY <2>1, <2>3 DEF ConfigurationInvariant, ReceivedSpecifiers, Parsing, Built
<1> QED
  BY <1>3, <1>4, <1>5, <1>6, <1>7, <1>8, <1>9, <1>10

(* The configurations.                                                     *)
LEMMA ConfigurationStep ==
    ASSUME LifecycleInvariant, ConfigurationInvariant, [BindingsNext]_allVars
    PROVE  ConfigurationInvariant'
<1> USE DEF Parsing, Built
<1>1. CASE Initialize /\ Kept
  <2>1. CASE locked
    BY <1>1, <2>1, ConfigurationKept DEF Initialize, InitializeAllowed, Kept, bindings
  <2>2. CASE ~locked
    BY <1>1, <2>2, EmptySane
       DEF Initialize, InitializeAllowed, StartParse, Kept, bindings, ConfigurationInvariant,
           ReceivedSpecifiers
  <2> QED
    BY <2>1, <2>2
<1>2. CASE getInstance /\ Kept
  <2>1. CASE stored = Nothing
    BY <1>2, <2>1, EmptySane
       DEF getInstance, StartParse, Kept, bindings, ConfigurationInvariant, ReceivedSpecifiers
  <2>2. CASE stored # Nothing
    BY <1>2, <2>2
       DEF getInstance, TakeStored, Kept, bindings, ConfigurationInvariant, ReceivedSpecifiers
  <2> QED
    BY <2>1, <2>2
<1>3. ASSUME Kept, \/ ParseTracingProperties \/ ParseServiceType \/ ParseServiceTypesEnd
                   \/ ParseServiceInstance \/ ParseServiceInstancesEnd \/ ParseGlobalProperties
                   \/ Crosscheck
      PROVE  ConfigurationInvariant'
  BY <1>3, ParserStep
<1>4. CASE ParseTraceConfig /\ Kept
  BY <1>4, ConfigurationKept DEF ParseTraceConfig, Kept, bindings, lifecycle
<1>5. CASE ParseFilterElement /\ Kept
  BY <1>5, ConfigurationKept DEF ParseFilterElement, Kept, bindings, lifecycle
<1>6. CASE ParseServicesEnd /\ Kept
  BY <1>6, ConfigurationKept DEF ParseServicesEnd, Kept, bindings, lifecycle
<1>7. CASE CreateRuntime /\ Kept
  BY <1>7, ConfigurationKept DEF CreateRuntime, Kept, bindings, lifecycle
<1>8. CASE StoreConfigurationAnew
  <2>1. IsConsistent(config, {}) /\ IsSane(config)
    BY <1>8 DEF StoreConfigurationAnew, StoreConfiguration, ConfigurationInvariant,
                LifecycleInvariant
  <2>2. ReceivedSpecifiers' = {}
    BY <1>8 DEF StoreConfigurationAnew, ReceivedSpecifiers
  <2> QED
    BY <1>8, <2>1, <2>2, EmptySane
       DEF StoreConfigurationAnew, StoreConfiguration, ConfigurationInvariant
<1>9. ASSUME NEW i, NEW x, RegisterServiceElement(i, x) /\ Kept
       PROVE  ConfigurationInvariant'
  BY <1>9, ConfigurationKept DEF RegisterServiceElement, Kept, bindings, lifecycle, Terminate
<1>10. CASE Create
  <2>1. CASE /\ UNCHANGED <<config, locked, stored, received, accepted, bound>>
             /\ phase' \in {phase, "misused"}
    BY <2>1, ConfigurationKept
  <2>2. CASE /\ UNCHANGED <<phase, config, locked, bound>> /\ ~locked
             /\ received' \in Remote /\ received' # Nothing /\ received = Nothing
             /\ \E json : stored' = Extended(stored, json)
             /\ IsSane(stored') /\ IsConsistent(stored', {received'.specifier})
             /\ Carries(stored', received')
    <3>1. ReceivedSpecifiers' = {received'.specifier}
      BY <2>2 DEF ReceivedSpecifiers
    <3> QED
      BY <2>2, <3>1 DEF ConfigurationInvariant
  <2> QED
    BY <1>10, <2>1, <2>2, Created
<1>11. ASSUME NEW i, NEW x, BindSkeletonElement(i, x) PROVE ConfigurationInvariant'
  BY <1>11, ConfigurationKept DEF BindSkeletonElement, Misused, allVars, configurationVars, bindings, lifecycle
<1>12. ASSUME NEW i, NEW x, NEW id, BindElement(i, x, id) PROVE ConfigurationInvariant'
  BY <1>12, ConfigurationKept DEF BindElement, Misused, allVars, configurationVars, bindings, lifecycle
<1>13. CASE UNCHANGED allVars
  BY <1>13, ConfigurationKept DEF allVars, configurationVars, bindings
<1> QED
  BY <1>1, <1>2, <1>3, <1>4, <1>5, <1>6, <1>7, <1>8, <1>9, <1>10, <1>11, <1>12, <1>13
     DEF BindingsNext, BindProxyElement, BindGenericProxyElements

(* The value of an absent optional is no configuration.                    *)
NothingIsNoConfiguration == \A c : IsConfiguration(c) => c # Nothing

(* A step that keeps the configuration with what was received in it.       *)
LEMMA ReceivedKept ==
    ASSUME ReceivedInvariant, UNCHANGED <<stored, received, locked>>,
           locked /\ phase \in Built \cup Ended => config' = config /\ phase' \in Built \cup Ended
    PROVE  ReceivedInvariant'
<1> SUFFICES ASSUME received # Nothing
             PROVE  /\ received \in Remote
                    /\ IF locked THEN phase' \in Built \cup Ended ELSE stored # Nothing
                    /\ Carries(IF locked THEN config' ELSE stored, received)
  BY DEF ReceivedInvariant, InUse
<1>1. /\ received \in Remote
      /\ IF locked THEN phase \in Built \cup Ended ELSE stored # Nothing
      /\ Carries(IF locked THEN config ELSE stored, received)
  BY DEF ReceivedInvariant, InUse
<1> QED
  BY <1>1

(* What was received stays in the configuration.                           *)
LEMMA ReceivedStep ==
    ASSUME NothingIsNoConfiguration, LifecycleInvariant, ConfigurationInvariant,
           ReceivedInvariant, [BindingsNext]_allVars
    PROVE  ReceivedInvariant'
<1> USE DEF Parsing, Built, Ended
<1>1. CASE Initialize /\ Kept
  BY <1>1, ReceivedKept DEF Initialize, InitializeAllowed, StartParse, Kept, bindings
<1>2. CASE getInstance /\ Kept
  <2> SUFFICES ASSUME received # Nothing
               PROVE  ReceivedInvariant'
    BY <1>2 DEF ReceivedInvariant, Kept, bindings
  <2>1. ~locked /\ stored # Nothing /\ received \in Remote /\ Carries(stored, received)
    BY <1>2 DEF getInstance, LifecycleInvariant, ReceivedInvariant, InUse
  <2>2. locked' /\ phase' = "parsed" /\ config' = stored /\ received' = received
    BY <1>2, <2>1 DEF getInstance, TakeStored, Kept, bindings
  <2> QED
    BY <2>1, <2>2 DEF ReceivedInvariant, InUse
<1>3. ASSUME Kept, ParseTracingProperties \/ ParseServiceType \/ ParseServiceTypesEnd
      PROVE  ReceivedInvariant'
  BY <1>3, ReceivedKept
     DEF Kept, bindings, lifecycle, Terminate, ParseTracingProperties, ParseServiceType,
         ParseServiceTypesEnd
<1>4. ASSUME Kept, ParseServiceInstance \/ ParseServiceInstancesEnd
      PROVE  ReceivedInvariant'
  BY <1>4, ReceivedKept
     DEF Kept, bindings, lifecycle, Terminate, ParseServiceInstance, ParseServiceInstancesEnd
<1>5. ASSUME Kept, ParseGlobalProperties \/ Crosscheck
      PROVE  ReceivedInvariant'
  BY <1>5, ReceivedKept
     DEF Kept, bindings, lifecycle, Terminate, ParseGlobalProperties, Crosscheck
<1>6. ASSUME Kept, ParseTraceConfig \/ ParseFilterElement \/ ParseServicesEnd \/ CreateRuntime
      PROVE  ReceivedInvariant'
  BY <1>6, ReceivedKept
     DEF Kept, bindings, lifecycle, ParseTraceConfig, ParseFilterElement, ParseServicesEnd,
         CreateRuntime
<1>7. CASE StoreConfigurationAnew
  BY <1>7 DEF StoreConfigurationAnew, ReceivedInvariant
<1>8. ASSUME NEW i, NEW x, RegisterServiceElement(i, x) /\ Kept
      PROVE  ReceivedInvariant'
  BY <1>8, ReceivedKept DEF RegisterServiceElement, Kept, bindings, lifecycle, Terminate
<1>9. CASE Create
  <2>1. CASE /\ UNCHANGED <<config, locked, stored, received, accepted, bound>>
             /\ phase' \in {phase, "misused"}
    BY <2>1, ReceivedKept
  <2>2. CASE /\ UNCHANGED <<phase, config, locked, bound>> /\ ~locked
             /\ received' \in Remote /\ received' # Nothing /\ received = Nothing
             /\ \E json : stored' = Extended(stored, json)
             /\ IsSane(stored') /\ IsConsistent(stored', {received'.specifier})
             /\ Carries(stored', received')
    <3>1. stored' # Nothing
      BY <2>2 DEF NothingIsNoConfiguration, IsSane
    <3> QED
      BY <2>2, <3>1 DEF ReceivedInvariant, InUse
  <2> QED
    BY <1>9, <2>1, <2>2, Created
<1>10. ASSUME NEW i, NEW x, BindSkeletonElement(i, x) PROVE ReceivedInvariant'
  BY <1>10, ReceivedKept DEF BindSkeletonElement, Misused, allVars, configurationVars, bindings, lifecycle
<1>11. ASSUME NEW i, NEW x, NEW id, BindElement(i, x, id) PROVE ReceivedInvariant'
  BY <1>11, ReceivedKept DEF BindElement, Misused, allVars, configurationVars, bindings, lifecycle
<1>12. CASE UNCHANGED allVars
  BY <1>12, ReceivedKept DEF allVars, configurationVars, bindings
<1> QED
  BY <1>1, <1>2, <1>3, <1>4, <1>5, <1>6, <1>7, <1>8, <1>9, <1>10, <1>11, <1>12
     DEF BindingsNext, BindProxyElement, BindGenericProxyElements

(* The element that was made, while it is there, and an element that is.   *)
LEMMA BoundKept ==
    ASSUME BoundInvariant, bound' = bound, bound # Nothing => config' = config /\ locked' = locked
    PROVE  BoundInvariant'
<1>1. CASE bound = Nothing
  BY <1>1 DEF BoundInvariant
<1>2. CASE bound # Nothing
  <2>1. config' = config /\ locked' = locked
    BY <1>2
  <2> QED
    BY <1>2, <2>1 DEF BoundInvariant
<1> QED
  BY <1>1, <1>2

(* An element that is made now.                                            *)
LEMMA BoundAnew ==
    ASSUME LifecycleInvariant, phase = "ready", UNCHANGED configurationVars,
           NEW side, NEW i \in DOMAIN config.instances, NEW x, NEW id, NEW slots,
           config.instances[i].binding = "SHM", config.instances[i].id \in {Nothing, id},
           bound' = Bound(side, i, x, id, slots)
    PROVE  BoundInvariant'
<1>1. locked /\ locked' = locked /\ config' = config
  BY DEF LifecycleInvariant, Built, configurationVars
<1>2. /\ bound'.instance = i /\ bound'.element = x /\ bound'.fq = ElementFqId(TypeOf(i), x, id)
      /\ bound'.files = FilesOf(TypeOf(i).serviceId, id) /\ bound'.fq.instance = id
  BY DEF Bound, ElementFqId
<1> QED
  BY <1>1, <1>2 DEF BoundInvariant, TypeOf

(* The element that was made, in every step.                               *)
LEMMA BoundStep ==
    ASSUME LifecycleInvariant, BoundInvariant, [BindingsNext]_allVars
    PROVE  BoundInvariant'
<1> USE DEF Parsing, Built, Ended
<1>0. phase \notin {"ready"} \cup Ended => bound = Nothing
  BY DEF LifecycleInvariant
<1>1. CASE Initialize /\ Kept
  BY <1>1, BoundKept DEF Initialize, InitializeAllowed, StartParse, Kept, bindings, LifecycleInvariant
<1>2. CASE getInstance /\ Kept
  BY <1>0, <1>2, BoundKept DEF getInstance, Kept, bindings
<1>3. ASSUME Kept, ParseTracingProperties \/ ParseServiceType \/ ParseServiceTypesEnd
      PROVE  BoundInvariant'
  BY <1>0, <1>3, BoundKept
     DEF Kept, bindings, ParseTracingProperties, ParseServiceType, ParseServiceTypesEnd
<1>4. ASSUME Kept, ParseServiceInstance \/ ParseServiceInstancesEnd
      PROVE  BoundInvariant'
  BY <1>0, <1>4, BoundKept DEF Kept, bindings, ParseServiceInstance, ParseServiceInstancesEnd
<1>5. ASSUME Kept, ParseGlobalProperties \/ Crosscheck
      PROVE  BoundInvariant'
  BY <1>0, <1>5, BoundKept DEF Kept, bindings, ParseGlobalProperties, Crosscheck
<1>6. ASSUME Kept, ParseTraceConfig \/ ParseFilterElement \/ ParseServicesEnd \/ CreateRuntime
      PROVE  BoundInvariant'
  BY <1>0, <1>6, BoundKept
     DEF Kept, bindings, lifecycle, ParseTraceConfig, ParseFilterElement, ParseServicesEnd,
         CreateRuntime
<1>7. CASE StoreConfigurationAnew
  BY <1>0, <1>7, BoundKept DEF StoreConfigurationAnew, StoreConfiguration
<1>8. ASSUME NEW i, NEW x, RegisterServiceElement(i, x) /\ Kept
      PROVE  BoundInvariant'
  BY <1>8, BoundKept DEF RegisterServiceElement, Kept, bindings, lifecycle, Terminate
<1>9. CASE Create
  BY <1>9, BoundKept DEF Create, Misused, allVars, configurationVars, bindings, lifecycle, parser
<1>10. ASSUME NEW i, NEW x, BindSkeletonElement(i, x) PROVE BoundInvariant'
  <2> DEFINE d == config.instances[i]
  <2>1. CASE Misused \/ UNCHANGED allVars
    BY <2>1, BoundKept DEF Misused, allVars, configurationVars, bindings, lifecycle
  <2>2. CASE /\ resolve(i) /\ d.binding = "SHM" /\ SkeletonElementDeployed(d, TypeOf(i), x)
             /\ bound' = Bound("skeleton", i, x, d.id, GetNumberOfSampleSlots(d.sizes[x]))
             /\ UNCHANGED <<configurationVars, received>>
    BY <1>10, <2>2, BoundAnew DEF BindSkeletonElement, resolve
  <2> QED
    BY <1>10, <2>1, <2>2 DEF BindSkeletonElement
<1>11. ASSUME NEW i \in DOMAIN config.instances, NEW x, NEW id \in HandlesOf(config.instances[i]),
              phase = "ready", BindElement(i, x, id)
       PROVE  BoundInvariant'
  <2> DEFINE d == config.instances[i]
  <2>1. CASE Misused \/ UNCHANGED allVars
    BY <2>1, BoundKept DEF Misused, allVars, configurationVars, bindings, lifecycle
  <2>2. CASE /\ d.binding = "SHM"
             /\ bound' = Bound("proxy", i, x, ExtractInstanceId(d, id)[2], Nothing)
             /\ UNCHANGED <<configurationVars, received>>
    <3>1. d.id \in {Nothing, ExtractInstanceId(d, id)[2]}
      BY <1>11, <2>2 DEF HandlesOf, ExtractInstanceId, GetServiceInstanceId
    <3> QED
      BY <1>11, <2>2, <3>1, BoundAnew
  <2> QED
    BY <1>11, <2>1, <2>2 DEF BindElement
<1>12. CASE UNCHANGED allVars
  BY <1>12, BoundKept DEF allVars, configurationVars, bindings
<1> QED
  BY <1>1, <1>2, <1>3, <1>4, <1>5, <1>6, <1>7, <1>8, <1>9, <1>10, <1>11, <1>12
     DEF BindingsNext, BindProxyElement, BindGenericProxyElements, resolve

(* The values of the lifecycle.                                            *)
LifecycleTypes ==
    /\ phase \in {"idle", "tracing", "types", "instances", "global", "crosscheck", "terminated",
                  "misused"} \cup Built
    /\ locked \in BOOLEAN
    /\ initialized \in 0..MaxInitializes

(* Every step keeps the values in their types.                             *)
LEMMA TypesStep ==
    ASSUME LifecycleTypes, [BindingsNext]_allVars
    PROVE  LifecycleTypes'
<1> USE DocumentAssumption DEF LifecycleTypes, Built, Kept, bindings, lifecycle, parser, Terminate
<1>1. CASE Initialize /\ Kept
  BY <1>1 DEF Initialize, StartParse
<1>2. CASE getInstance /\ Kept
  BY <1>2 DEF getInstance, StartParse, TakeStored
<1>3. ASSUME Kept, ParseTracingProperties \/ ParseServiceType \/ ParseServiceTypesEnd
      PROVE  LifecycleTypes'
  BY <1>3 DEF ParseTracingProperties, ParseServiceType, ParseServiceTypesEnd
<1>4. ASSUME Kept, ParseServiceInstance \/ ParseServiceInstancesEnd
      PROVE  LifecycleTypes'
  BY <1>4 DEF ParseServiceInstance, ParseServiceInstancesEnd
<1>5. ASSUME Kept, ParseGlobalProperties \/ Crosscheck
      PROVE  LifecycleTypes'
  BY <1>5 DEF ParseGlobalProperties, Crosscheck
<1>6. ASSUME Kept, ParseTraceConfig \/ ParseFilterElement \/ ParseServicesEnd \/ CreateRuntime
      PROVE  LifecycleTypes'
  BY <1>6 DEF ParseTraceConfig, ParseFilterElement, ParseServicesEnd, CreateRuntime
<1>7. CASE StoreConfigurationAnew
  BY <1>7 DEF StoreConfigurationAnew, StoreConfiguration
<1>8. ASSUME NEW i, NEW x, RegisterServiceElement(i, x) /\ Kept
      PROVE  LifecycleTypes'
  BY <1>8 DEF RegisterServiceElement
<1>9. CASE Create
  BY <1>9 DEF Create, Misused, allVars, configurationVars
<1>10. ASSUME NEW i, NEW x, BindSkeletonElement(i, x) PROVE LifecycleTypes'
  BY <1>10 DEF BindSkeletonElement, Misused, allVars, configurationVars
<1>11. ASSUME NEW i, NEW x, NEW id, BindElement(i, x, id) PROVE LifecycleTypes'
  BY <1>11 DEF BindElement, Misused, allVars, configurationVars
<1>12. CASE UNCHANGED allVars
  BY <1>12 DEF allVars, configurationVars
<1> QED
  BY <1>1, <1>2, <1>3, <1>4, <1>5, <1>6, <1>7, <1>8, <1>9, <1>10, <1>11, <1>12
     DEF BindingsNext, BindProxyElement, BindGenericProxyElements

(* The tracing flags of the elements are not in the text of an instance.   *)
LEMMA TracingIsNotWritten ==
    ASSUME NEW sizes, \A x \in DOMAIN sizes : IsElement(x) /\ IsElementDeployment(sizes[x]),
           NEW kind
    PROVE  ConvertServiceElementMapToJson(Untraced(sizes), kind)
             = ConvertServiceElementMapToJson(sizes, kind)
<1> DEFINE u == Untraced(sizes)
           names == {x[2] : x \in Named(sizes, kind)}
<1>1. DOMAIN u = DOMAIN sizes
  BY DEF Untraced
<1>2. Named(u, kind) = Named(sizes, kind)
  BY <1>1 DEF Named
<1>3. ASSUME NEW n \in names
      PROVE  SerializeElement(u[<<kind, n>>]) = SerializeElement(sizes[<<kind, n>>])
  <2>1. <<kind, n>> \in DOMAIN sizes
    BY DEF Named, IsElement
  <2>2. IsElementDeployment(sizes[<<kind, n>>])
    BY <2>1
  <2>3. u[<<kind, n>>] = [sizes[<<kind, n>>] EXCEPT !.tracing = FALSE]
    BY <2>1 DEF Untraced
  <2>4. SerializeElement([sizes[<<kind, n>>] EXCEPT !.tracing = FALSE])
          = SerializeElement(sizes[<<kind, n>>])
    BY <2>2, ElementBack
  <2> QED
    BY <2>3, <2>4
<1>4. ConvertServiceElementMapToJson(u, kind) = [n \in names |-> SerializeElement(u[<<kind, n>>])]
  BY <1>2 DEF ConvertServiceElementMapToJson
<1>5. ConvertServiceElementMapToJson(sizes, kind)
        = [n \in names |-> SerializeElement(sizes[<<kind, n>>])]
  BY DEF ConvertServiceElementMapToJson
<1> HIDE DEF u, names
<1> QED
  BY <1>3, <1>4, <1>5 DEF u

(* What was received means the same.                                       *)
LEMMA MeansTheSame ==
    ASSUME ReceivedInvariant
    PROVE  ReceivedMeansTheSame
<1> SUFFICES ASSUME received # Nothing
             PROVE  ReceivedMeansTheSame
  BY DEF ReceivedMeansTheSame
<1> DEFINE d == InUse.instances[received.specifier]
           t == InUse.types[d.service]
           e == received.instance
<1>1. received \in Remote /\ Carries(InUse, received)
  BY DEF ReceivedInvariant
<1>2. /\ d.service = e.service /\ d.asil = e.asil /\ d.binding = e.binding /\ d.id = e.id
      /\ t = received.type
      /\ d.binding = "SHM" => /\ d.strict = e.strict /\ d.consumer = e.consumer
                              /\ d.provider = e.provider /\ d.sizes = Untraced(e.sizes)
  BY <1>1 DEF Carries
<1>3. IsInstanceDeployment(e)
  BY <1>1, TextAssumption DEF IsIdentifier
<1> HIDE DEF d, t, e
<1>4. GetServiceInstanceId(d) = GetServiceInstanceId(e)
  BY <1>2 DEF GetServiceInstanceId
<1>5. \A id : ExtractInstanceId(d, id) = ExtractInstanceId(e, id)
  BY <1>4 DEF ExtractInstanceId
<1>6. IdentifierEqual(d, e)
  BY <1>2 DEF IdentifierEqual, InstanceEqual
<1>7. d.binding # "blank" => AreCompatible(d, e)
  BY <1>2 DEF AreCompatible, BindingCompatible
<1>8. ASSUME NEW id
      PROVE  HandleEqual(d, e, id) /\ HandleHash(d, t, id) = HandleHash(e, received.type, id)
  BY <1>2, <1>5, <1>6 DEF HandleEqual, HandleHash, ServiceInstanceIdEqual
<1>9. SearchTarget(d, t) = SearchTarget(e, received.type)
  BY <1>2, <1>4 DEF SearchTarget
<1>10. SerializeInstance(received.specifier, d) = SerializeInstance(received.specifier, e)
  <2>1. SerializeSomeIpInstance(d) = SerializeSomeIpInstance(e)
    BY <1>2 DEF SerializeSomeIpInstance
  <2>2. d.binding = "SHM" => SerializeLolaInstance(d) = SerializeLolaInstance(e)
    <3> SUFFICES ASSUME d.binding = "SHM" PROVE SerializeLolaInstance(d) = SerializeLolaInstance(e)
      OBVIOUS
    <3>1. \A x \in DOMAIN e.sizes : IsElement(x) /\ IsElementDeployment(e.sizes[x])
      BY <1>3 DEF IsInstanceDeployment, IsBindingDeployment
    <3>2. /\ ConvertServiceElementMapToJson(d.sizes, "EVENT") = ConvertServiceElementMapToJson(e.sizes, "EVENT")
          /\ ConvertServiceElementMapToJson(d.sizes, "FIELD") = ConvertServiceElementMapToJson(e.sizes, "FIELD")
      BY <1>2, <3>1, TracingIsNotWritten
    <3> QED
      BY <1>2, <3>2 DEF SerializeLolaInstance
  <2>3. InstanceBindingIndex(d) = InstanceBindingIndex(e)
    BY <1>2 DEF InstanceBindingIndex
  <2>4. (IF d.binding = "SHM" THEN SerializeLolaInstance(d) ELSE SerializeSomeIpInstance(d))
          = (IF e.binding = "SHM" THEN SerializeLolaInstance(e) ELSE SerializeSomeIpInstance(e))
    BY <1>2, <2>1, <2>2
  <2> QED
    BY <1>2, <2>3, <2>4 DEF SerializeInstance
<1>11. SerializeIdentifier(received.specifier, d, t)
         = SerializeIdentifier(received.specifier, e, received.type)
  BY <1>2, <1>10 DEF SerializeIdentifier
<1> QED
  BY <1>2, <1>6, <1>7, <1>8, <1>9, <1>11 DEF ReceivedMeansTheSame, d, t, e

(* The files of an instance tell its service and its id.                   *)
LEMMA FileOfInstance ==
    ASSUME NEW s, NEW id, NEW f \in FilesOf(s, id)
    PROVE  f[2] = <<s, id>>
<1>1. ASSUME NEW q, f = ControlFile(s, id, q)
      PROVE  f[2] = <<s, id>>
  <2>1. \A a, b, c : <<a, b, c>>[2] = b
    OBVIOUS
  <2> QED
    BY <1>1, <2>1 DEF ControlFile, AppendServiceAndInstance
<1>2. CASE f = DataFile(s, id)
  BY <1>2 DEF DataFile, AppendServiceAndInstance
<1>3. CASE f = ExistenceMarker(s, id)
  BY <1>3 DEF ExistenceMarker, AppendServiceAndInstance
<1>4. CASE f = UsageMarker(s, id)
  BY <1>4 DEF UsageMarker, AppendServiceAndInstance
<1> QED
  BY <1>1, <1>2, <1>3, <1>4 DEF FilesOf

(* Two instances that differ in one of them have no file in common.        *)
LEMMA FilesApart ==
    ASSUME NEW s, NEW id, NEW t, NEW jd, <<s, id>> # <<t, jd>>
    PROVE  FilesOf(s, id) \cap FilesOf(t, jd) = {}
BY FileOfInstance

(* An element that was made is the sender's.                               *)
LEMMA BoundAreTheSenders ==
    ASSUME ReceivedInvariant, BoundInvariant
    PROVE  BoundElementsAreTheSenders
<1> SUFFICES ASSUME bound # Nothing
             PROVE  BoundElementsAreTheSenders
  BY DEF BoundElementsAreTheSenders
<1> DEFINE d == config.instances[bound.instance]
           t == config.types[d.service]
           id == bound.fq.instance
<1>1. /\ locked /\ bound.instance \in DOMAIN config.instances /\ d.id \in {Nothing, id}
      /\ bound.fq = ElementFqId(t, bound.element, id) /\ bound.files = FilesOf(t.serviceId, id)
  BY DEF BoundInvariant
<1>2. ASSUME bound.instance \in ReceivedSpecifiers
      PROVE  /\ bound.fq = ElementFqId(received.type, bound.element, id)
             /\ received.instance.id \in {Nothing, id}
             /\ bound.files = FilesOf(received.type.serviceId, id)
  <2>1. received # Nothing /\ bound.instance = received.specifier
    BY <1>2 DEF ReceivedSpecifiers
  <2>2. Carries(config, received)
    BY <1>1, <2>1 DEF ReceivedInvariant, InUse
  <2>3. t = received.type /\ d.id = received.instance.id
    BY <2>1, <2>2 DEF Carries
  <2> QED
    BY <1>1, <2>3
<1>3. bound.fq.service = t.serviceId
  <2>1. \A a, x, j : ElementFqId(a, x, j).service = a.serviceId
    BY ONLY DEF ElementFqId
  <2> QED
    BY <1>1, <2>1
<1>4. ASSUME NEW i \in DOMAIN config.instances,
             <<TypeOf(i).serviceId, config.instances[i].id>> # <<bound.fq.service, id>>
      PROVE  bound.files \cap FilesOf(TypeOf(i).serviceId, config.instances[i].id) = {}
  <2>1. <<t.serviceId, id>> # <<TypeOf(i).serviceId, config.instances[i].id>>
    BY <1>3, <1>4
  <2>2. FilesOf(t.serviceId, id) \cap FilesOf(TypeOf(i).serviceId, config.instances[i].id) = {}
    BY ONLY <2>1, FilesApart
  <2> QED
    BY <1>1, <2>2, Zenon
<1> QED
  BY <1>2, <1>4 DEF BoundElementsAreTheSenders

(* The invariant gives each part of what the runs check.                   *)
LEMMA InvariantIsConsistent ==
    ASSUME BindingsInvariant, LifecycleTypes
    PROVE  ConfigurationIsConsistent
<1> USE DEF BindingsInvariant
<1>1. IsSane(config) /\ (stored = Nothing \/ IsSane(stored))
  BY DEF ConfigurationInvariant
<1>2. phase \in Built => \E added : IsConsistent(config, added)
  BY DEF ConfigurationInvariant
<1>3. BindingsTypeOK
  <2>1. filter = Nothing \/ filter \subseteq TracePoints
    BY DEF FilterInvariant
  <2>2. received \in Remote \cup {Nothing}
    BY DEF ReceivedInvariant
  <2>3. /\ registered # {} => Cardinality(registered) <= lolaRuntime.samplePtrs
        /\ registrations \in Nat
    BY DEF RuntimeInvariant
  <2>4. caller \in {Nothing, "Initialize", "getInstance"}
    BY DEF LifecycleInvariant
  <2> QED
    BY <1>1, <2>1, <2>2, <2>3, <2>4 DEF BindingsTypeOK, LifecycleTypes, IsSane
<1>4. DeploymentsResolve
  BY <1>2 DEF DeploymentsResolve, IsConsistent
<1>5. AsilBInstancesHaveAReceiver
  <2> SUFFICES ASSUME phase = "ready", NEW i \in DOMAIN config.instances \ ReceivedSpecifiers,
                      config.instances[i].asil = "B"
               PROVE  "B" \in DOMAIN lolaRuntime.allowed
    BY DEF AsilBInstancesHaveAReceiver
  <2>1. IsConsistent(config, ReceivedSpecifiers)
    BY DEF LifecycleInvariant, ConfigurationInvariant, Built
  <2>2. config.instances[i].binding = "SHM" /\ config.asil = "B"
    BY <2>1 DEF IsConsistent
  <2>3. HasLolaBinding
    BY <2>1, <2>2 DEF IsConsistent, Resolves, HasLolaBinding
  <2>4. PICK first \in PossibleFirst, order \in PossibleOrders : lolaRuntime = RuntimeOf(first, order)
    BY DEF RuntimeInvariant
  <2>5. lolaRuntime.allowed = GetMessagePassingCfg(order)
    BY <2>3, <2>4 DEF RuntimeOf
  <2> QED
    BY <2>2, <2>5 DEF GetMessagePassingCfg, HasAsilBSupport, Qualities
<1>6. TracePointsAreConfigured
  <2> SUFFICES ASSUME filter # Nothing, NEW t \in filter
               PROVE  /\ config.tracing
                      /\ t.specifier \in DOMAIN config.instances
                      /\ config.instances[t.specifier].service[1] = t.name
                      /\ t.element \in DOMAIN config.instances[t.specifier].sizes
                      /\ HasType(t)
    BY DEF TracePointsAreConfigured, HasType
  <2> DEFINE u == [name |-> t.name, element |-> t.element, specifier |-> t.specifier]
  <2>1. config.tracing /\ HasType(t) /\ u \in config.traced
    BY DEF FilterInvariant, IsServiceElementTracingEnabled
  <2>2. IsTracedIn(config, u)
    BY <1>1, <2>1 DEF IsSane
  <2>3. u.name = t.name /\ u.element = t.element /\ u.specifier = t.specifier
    OBVIOUS
  <2> QED
    BY <2>1, <2>2, <2>3 DEF IsTracedIn
<1>7. AcceptedConfigurationIsUsed
  BY DEF AcceptedConfigurationIsUsed, LifecycleInvariant
<1>8. ReceivedMeansTheSame /\ BoundElementsAreTheSenders
  BY MeansTheSame, BoundAreTheSenders
<1> QED
  BY <1>3, <1>4, <1>5, <1>6, <1>7, <1>8 DEF ConfigurationIsConsistent

(* The first state.                                                        *)
LEMMA BindingsBegin ==
    ASSUME BindingsInit
    PROVE  BindingsInvariant /\ LifecycleTypes /\ OnlyRepeatsEndTheProcess
<1> USE DEF BindingsInit, ConfigurationInit, Parsing, Built, Ended
<1>1. LifecycleInvariant /\ OnlyRepeatsEndTheProcess
  BY DocumentAssumption DEF LifecycleInvariant, OnlyRepeatsEndTheProcess
<1>2. LifecycleTypes
  <2>1. phase = "idle" /\ locked = FALSE /\ initialized = 0 /\ MaxInitializes \in Nat
    BY DocumentAssumption
  <2>2. locked \in BOOLEAN
    BY <2>1, Zenon
  <2>3. initialized \in 0..MaxInitializes
    BY <2>1
  <2> QED
    BY <2>1, <2>2, <2>3 DEF LifecycleTypes
<1>3. ConfigurationInvariant
  BY EmptySane DEF ConfigurationInvariant
<1>4. FilterInvariant /\ RuntimeInvariant /\ ReceivedInvariant /\ BoundInvariant
  BY DEF FilterInvariant, RuntimeInvariant, ReceivedInvariant, BoundInvariant
<1> QED
  BY <1>1, <1>2, <1>3, <1>4 DEF BindingsInvariant

(* A running process only ends because an element is registered for        *)
(* tracing when some element was registered more than once, whatever the   *)
(* files list (TracingRuntime::RegisterServiceElement and                  *)
(* FindNumberOfTracePointsNeedingTraceDoneCB): there is a sample pointer   *)
(* for each, but none is given back when a skeleton is destroyed.          *)
THEOREM TracersAreProvidedFor == BindingsSpec => []OnlyRepeatsEndTheProcess
<1> DEFINE Inv == /\ LifecycleInvariant /\ ConfigurationInvariant /\ FilterInvariant
                  /\ RuntimeInvariant /\ OnlyRepeatsEndTheProcess
<1>1. BindingsInit => Inv
  BY BindingsBegin DEF BindingsInvariant
<1>2. Inv /\ [BindingsNext]_allVars => Inv'
  BY LifecycleStep, ConfigurationStep, FilterStep, RuntimeStep, TracersStep
<1>3. Inv => OnlyRepeatsEndTheProcess
  OBVIOUS
<1> QED
  BY <1>1, <1>2, <1>3, PTL DEF BindingsSpec

(* A receiver admits the users every instance lists, in whichever order    *)
(* GetMessagePassingCfg comes across the instances.                        *)
THEOREM ListedUsersAdmitted == BindingsSpec => []ListedUsersAreAdmitted
<1> DEFINE Inv == /\ LifecycleInvariant /\ ConfigurationInvariant /\ FilterInvariant
                  /\ RuntimeInvariant
<1>1. BindingsInit => Inv
  BY BindingsBegin DEF BindingsInvariant
<1>2. Inv /\ [BindingsNext]_allVars => Inv'
  BY LifecycleStep, ConfigurationStep, FilterStep, RuntimeStep
<1>3. Inv => ListedUsersAreAdmitted
  BY UsersAdmitted
<1> QED
  BY <1>1, <1>2, <1>3, PTL DEF BindingsSpec

(* The configuration, the filter, the runtime and the identifiers agree,   *)
(* from the parser over Initialize, getInstance and InstanceIdentifier::   *)
(* Create to the elements made of them.                                    *)
THEOREM ConfigurationConsistent ==
    ASSUME NothingIsNoConfiguration
    PROVE  BindingsSpec => []ConfigurationIsConsistent
<1>1. BindingsInit => BindingsInvariant /\ LifecycleTypes
  BY BindingsBegin
<1>2. BindingsInvariant /\ LifecycleTypes /\ [BindingsNext]_allVars
        => (BindingsInvariant /\ LifecycleTypes)'
  BY LifecycleStep, ConfigurationStep, FilterStep, RuntimeStep, ReceivedStep, BoundStep, TypesStep
     DEF BindingsInvariant
<1>3. BindingsInvariant /\ LifecycleTypes => ConfigurationIsConsistent
  BY InvariantIsConsistent
<1> QED
  BY <1>1, <1>2, <1>3, PTL DEF BindingsSpec
=============================================================================
