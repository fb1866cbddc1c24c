------------------------- MODULE EventSubscription -------------------------
(***************************************************************************)
(* Subscriptions to one event: the set of transaction logs in shared       *)
(* memory (TransactionLogSet), the packed subscription counter             *)
(* (EventSubscriptionControl), the subscribe and unsubscribe paths of the  *)
(* SubscriptionStateMachine that use them, and the rollback that           *)
(* Proxy::Create runs for the logs a crashed predecessor left.             *)
(*                                                                         *)
(* Several proxies may live in one process; logs are told apart by the     *)
(* process (its uid) only.  The registration of a log and its reset are    *)
(* guarded by an interprocess mutex, the counter is lock-free, and a       *)
(* process may die between any two steps.                                  *)
(***************************************************************************)
EXTENDS Integers, FiniteSets, FiniteSetsExt

CONSTANTS
    Proxies,             \* proxy instances that may exist
    Processes,           \* application processes, each with a uid
    ProcessOf,           \* the process a proxy lives in
    SampleCount,         \* max_sample_count a proxy subscribes with
    MaxSubscribers,      \* max_subscribers: size of the log set as well
    MaxSlots,            \* max_subscribable_slots_
    EnforceMaxSamples,   \* enforce_max_samples_
    MaxCrashes           \* bound: process crashes in a behaviour

ASSUME SubscriptionAssumption ==
    /\ IsFiniteSet(Proxies)
    /\ ProcessOf \in [Proxies -> Processes]
    /\ SampleCount \in [Proxies -> Nat \ {0}]
    /\ MaxSubscribers \in Nat \ {0}
    /\ MaxSlots \in Nat
    /\ EnforceMaxSamples \in BOOLEAN
    /\ MaxCrashes \in Nat

Logs == 0 .. MaxSubscribers - 1
NoLog == MaxSubscribers

(* Nobody holds the mutex; its holder died and nobody can take it again.   *)
Free == "free"
Lost == "lost"
ASSUME MutexAssumption == Free \notin Proxies /\ Lost \notin Proxies

(* The id of a log that was never registered.                              *)
Nobody == "nobody"

VARIABLES
    active,        \* logs with is_active_
    marked,        \* logs with needs_rollback_
    owner,         \* transaction_log_id_ of each log
    sub,           \* subscribe_transactions_: (0,0), (1,0) or (1,1)
    count,         \* subscription_max_sample_count_
    refs,          \* the log's slot entries: none, references, one unfinished
    subscribers,   \* upper half of current_subscription_state_
    samples,       \* lower half of current_subscription_state_
    mutex,         \* transaction_log_mutex_
    prepared,      \* processes that have prepared their rollback
    pc,            \* where each proxy is
    idx,           \* the log it uses or rolls back
    todo,          \* logs its rollback has still to try
    try,           \* retries of the counter's exchange
    counted,       \* auxiliary: logs whose subscription the counter includes
    crashes        \* processes crashed so far

logVars == <<active, marked, owner, sub, count, refs>>
counterVars == <<subscribers, samples, counted>>
procVars == <<mutex, prepared>>
proxyVars == <<pc, idx, todo, try>>
vars == <<logVars, counterVars, procVars, proxyVars, crashes>>

SubStates == {"none", "begun", "recorded"}
RefStates == {"none", "held", "torn"}
ProxyStates ==
    {"none", "prepared", "rollback", "rollbackUnsubscribe", "rollbackCommit",
     "reset", "created", "registered", "subscribe", "subscribeCommit",
     "subscribeAbort", "subscribed", "unsubscribe", "unsubscribeCommit",
     "unregister"}

(* The proxy uses a log of its own.                                        *)
UsesLog(p) ==
    pc[p] \in {"registered", "subscribe", "subscribeCommit", "subscribeAbort",
               "subscribed", "unsubscribe", "unsubscribeCommit", "unregister"}

(* The proxy is inside RollbackProxyTransactions.                          *)
RollsBack(p) ==
    pc[p] \in {"rollback", "rollbackUnsubscribe", "rollbackCommit", "reset"}

Init ==
    /\ active = {} /\ marked = {}
    /\ owner = [i \in Logs |-> Nobody]
    /\ sub = [i \in Logs |-> "none"]
    /\ count = [i \in Logs |-> 0]
    /\ refs = [i \in Logs |-> "none"]
    /\ subscribers = 0 /\ samples = 0 /\ counted = {}
    /\ mutex = Free /\ prepared = {}
    /\ pc = [p \in Proxies |-> "none"]
    /\ idx = [p \in Proxies |-> NoLog]
    /\ todo = [p \in Proxies |-> {}]
    /\ try = [p \in Proxies |-> 0]
    /\ crashes = 0

First(S) == CHOOSE i \in S : \A j \in S : i <= j

-----------------------------------------------------------------------------
(* The death of a process, by a crash or by std::terminate.                *)

(* A proxy of process q holds the mutex, or may be inside one of the       *)
(* critical sections that are single steps here.                           *)
InCriticalSection(q) ==
    \E p \in Proxies :
        /\ ProcessOf[p] = q
        /\ mutex = p \/ (mutex = Free /\ pc[p] \in {"prepared", "created", "unregister"})

(* What is lost with process q; newRefs is what it leaves in the logs.  A  *)
(* mutex it holds is released or lost, as the mutex library decides.       *)
LoseProcess(q, newRefs) ==
    /\ pc' = [p \in Proxies |-> IF ProcessOf[p] = q THEN "none" ELSE pc[p]]
    /\ idx' = [p \in Proxies |-> IF ProcessOf[p] = q THEN NoLog ELSE idx[p]]
    /\ todo' = [p \in Proxies |-> IF ProcessOf[p] = q THEN {} ELSE todo[p]]
    /\ try' = [p \in Proxies |-> IF ProcessOf[p] = q THEN 0 ELSE try[p]]
    /\ prepared' = prepared \ {q}
    /\ \/ mutex' = mutex /\ ~\E p \in Proxies : mutex = p /\ ProcessOf[p] = q
       \/ mutex' \in {Free, Lost} /\ InCriticalSection(q)
    /\ refs' = newRefs
    /\ UNCHANGED <<active, marked, owner, sub, count, counterVars>>

(* The logs in whose slot entries process q may be writing: those of its   *)
(* subscribed proxies, and one whose references it is giving back.         *)
Writing(q) ==
    {i \in Logs : \E p \in Proxies :
        /\ ProcessOf[p] = q
        /\ \/ pc[p] = "subscribed" /\ i = idx[p]
           \/ pc[p] = "rollback" /\ i = First(todo[p]) /\ refs[i] = "held"}

Crash(q) ==
    /\ \E p \in Proxies : ProcessOf[p] = q /\ pc[p] # "none"
    /\ crashes < MaxCrashes /\ crashes' = crashes + 1
    /\ \E torn \in SUBSET Writing(q) :
          LoseProcess(q, [i \in Logs |-> IF i \in torn THEN "torn" ELSE refs[i]])

-----------------------------------------------------------------------------
(* Proxy::Create: TransactionLogRollbackExecutor::RollbackTransactionLogs. *)

(* PrepareRollback, in the first proxy of a process only, marks the logs   *)
(* that the process finds under its uid.                                   *)
PrepareRollback(p) ==
    LET q == ProcessOf[p] IN
    /\ pc[p] = "none"
    /\ pc' = [pc EXCEPT ![p] = "prepared"]
    /\ marked' = IF q \in prepared THEN marked
                 ELSE marked \union {i \in active : owner[i] = q}
    /\ prepared' = prepared \union {q}
    /\ UNCHANGED <<active, owner, sub, count, refs, counterVars, mutex, idx, todo, try,
                   crashes>>

(* Mutant: logs of the running process are not told from old ones.         *)
LogsOfProcess(q) == {i \in active : owner[i] = q}

(* FindTransactionLogIndicesToBeRolledBack.                                *)
LogsToRollBack(q) == {i \in active \intersect marked : owner[i] = q}

(* RollbackProxyTransactions enters the mutex; with nothing to roll back   *)
(* it leaves it at once and the proxy is created.                          *)
RollbackProxyTransactions(p) ==
    /\ pc[p] = "prepared" /\ mutex = Free
    /\ LET found == LogsToRollBack(ProcessOf[p]) IN
       IF found = {}
       THEN /\ pc' = [pc EXCEPT ![p] = "created"]
            /\ UNCHANGED <<mutex, todo>>
       ELSE /\ pc' = [pc EXCEPT ![p] = "rollback"]
            /\ mutex' = p
            /\ todo' = [todo EXCEPT ![p] = found]
    /\ UNCHANGED <<logVars, counterVars, prepared, idx, try, crashes>>

(* Mutant: the failure is not reported, the proxy is created all the same. *)
RollbackFailsSilently(p) ==
    /\ pc[p] = "rollback"
    /\ refs[First(todo[p])] = "torn" \/ sub[First(todo[p])] = "begun"
    /\ todo' = [todo EXCEPT ![p] = {}]
    /\ pc' = [pc EXCEPT ![p] = "created"] /\ mutex' = Free
    /\ UNCHANGED <<logVars, counterVars, prepared, idx, try, crashes>>

(* A log that cannot be rolled back: an unfinished slot entry, or, after   *)
(* its references were given back, an unfinished subscription.  When it    *)
(* was the last one, Proxy::Create fails.                                  *)
RollbackFails(p) ==
    /\ pc[p] = "rollback"
    /\ LET i == First(todo[p])
           rest == todo[p] \ {i}
       IN  /\ refs[i] = "torn" \/ sub[i] = "begun"
           /\ refs' = [refs EXCEPT ![i] = IF @ = "torn" THEN @ ELSE "none"]
           /\ todo' = [todo EXCEPT ![p] = rest]
           /\ IF rest = {}
              THEN pc' = [pc EXCEPT ![p] = "none"] /\ mutex' = Free
              ELSE UNCHANGED <<pc, mutex>>
    /\ UNCHANGED <<active, marked, owner, sub, count, counterVars, prepared, idx, try,
                   crashes>>

(* RollbackProxyElementLog of an intact log: the references are given      *)
(* back, then a recorded subscription is withdrawn.                        *)
RollbackProxyElementLog(p) ==
    /\ pc[p] = "rollback"
    /\ LET i == First(todo[p]) IN
       /\ refs[i] # "torn" /\ sub[i] # "begun"
       /\ refs' = [refs EXCEPT ![i] = "none"]
       /\ idx' = [idx EXCEPT ![p] = i]
       /\ IF sub[i] = "recorded"
          THEN /\ sub' = [sub EXCEPT ![i] = "begun"]
               /\ pc' = [pc EXCEPT ![p] = "rollbackUnsubscribe"]
          ELSE /\ sub' = sub
               /\ pc' = [pc EXCEPT ![p] = "reset"]
    /\ todo' = [todo EXCEPT ![p] = {}]
    /\ UNCHANGED <<active, marked, owner, count, counterVars, procVars, try, crashes>>

(* TransactionLogNode::Reset after the first rollback that succeeds; the   *)
(* others are left for the next proxy, and this one is created.            *)
Reset(p) ==
    /\ pc[p] = "reset"
    /\ active' = active \ {idx[p]}
    /\ marked' = marked \ {idx[p]}
    /\ mutex' = Free
    /\ pc' = [pc EXCEPT ![p] = "created"]
    /\ idx' = [idx EXCEPT ![p] = NoLog]
    /\ UNCHANGED <<owner, sub, count, refs, counterVars, prepared, todo, try, crashes>>

-----------------------------------------------------------------------------
(* NotSubscribedState::SubscribeEvent.                                     *)

(* RegisterProxyElement takes the first free log; without one Subscribe    *)
(* fails and nothing changes.                                              *)
RegisterProxyElement(p) ==
    /\ pc[p] = "created" /\ mutex = Free
    /\ Logs \ active # {}
    /\ LET i == First(Logs \ active) IN
       /\ owner' = [owner EXCEPT ![i] = ProcessOf[p]]
       /\ active' = active \union {i}
       /\ marked' = marked \ {i}
       /\ idx' = [idx EXCEPT ![p] = i]
    /\ pc' = [pc EXCEPT ![p] = "registered"]
    /\ UNCHANGED <<sub, count, refs, counterVars, procVars, todo, try, crashes>>

SubscribeTransactionBegin(p) ==
    /\ pc[p] = "registered"
    /\ sub' = [sub EXCEPT ![idx[p]] = "begun"]
    /\ count' = [count EXCEPT ![idx[p]] = SampleCount[p]]
    /\ pc' = [pc EXCEPT ![p] = "subscribe"]
    /\ UNCHANGED <<active, marked, owner, refs, counterVars, procVars, idx, todo, try,
                   crashes>>

(* Mutant: the samples asked for are not added to those in use.            *)
SlotOverflowAlone(n) == EnforceMaxSamples /\ n > MaxSlots

(* The check of Subscribe against max_subscribable_slots_.                 *)
SlotOverflow(n) == EnforceMaxSamples /\ samples + n > MaxSlots

(* EventSubscriptionControl::Subscribe: the exchange succeeds.             *)
Subscribe(p) ==
    /\ pc[p] = "subscribe"
    /\ subscribers < MaxSubscribers
    /\ ~SlotOverflow(SampleCount[p])
    /\ subscribers' = subscribers + 1
    /\ samples' = samples + SampleCount[p]
    /\ counted' = counted \union {idx[p]}
    /\ pc' = [pc EXCEPT ![p] = "subscribeCommit"]
    /\ try' = [try EXCEPT ![p] = 0]
    /\ UNCHANGED <<logVars, procVars, idx, todo, crashes>>

(* The exchange fails, because of another process or by itself.            *)
SubscribeRetry(p) ==
    /\ pc[p] = "subscribe"
    /\ IF try[p] + 1 < 2 * MaxSubscribers
       THEN try' = [try EXCEPT ![p] = @ + 1] /\ pc' = pc
       ELSE /\ try' = [try EXCEPT ![p] = 0]
            /\ pc' = [pc EXCEPT ![p] = "subscribeAbort"]
    /\ UNCHANGED <<logVars, counterVars, procVars, idx, todo, crashes>>

(* kMaxSubscribersOverflow, which the caller asserts against, or           *)
(* kSlotOverflow.                                                          *)
SubscribeRejected(p) ==
    /\ pc[p] = "subscribe"
    /\ subscribers >= MaxSubscribers \/ SlotOverflow(SampleCount[p])
    /\ pc' = [pc EXCEPT ![p] = "subscribeAbort"]
    /\ try' = [try EXCEPT ![p] = 0]
    /\ UNCHANGED <<logVars, counterVars, procVars, idx, todo, crashes>>

SubscribeTransactionAbort(p) ==
    /\ pc[p] = "subscribeAbort"
    /\ sub' = [sub EXCEPT ![idx[p]] = "none"]
    /\ pc' = [pc EXCEPT ![p] = "unregister"]
    /\ UNCHANGED <<active, marked, owner, count, refs, counterVars, procVars, idx, todo,
                   try, crashes>>

SubscribeTransactionCommit(p) ==
    /\ pc[p] = "subscribeCommit"
    /\ sub' = [sub EXCEPT ![idx[p]] = "recorded"]
    /\ pc' = [pc EXCEPT ![p] = "subscribed"]
    /\ UNCHANGED <<active, marked, owner, count, refs, counterVars, procVars, idx, todo,
                   try, crashes>>

(* The subscribed proxy takes its first or gives back its last sample.     *)
UseSamples(p) ==
    /\ pc[p] = "subscribed"
    /\ refs' = [refs EXCEPT ![idx[p]] = IF @ = "none" THEN "held" ELSE "none"]
    /\ UNCHANGED <<active, marked, owner, sub, count, counterVars, procVars, proxyVars,
                   crashes>>

-----------------------------------------------------------------------------
(* NotSubscribedState::OnEntry.  The samples the user still holds are      *)
(* looked at by nobody before the log is reset.                            *)

UnsubscribeTransactionBegin(p) ==
    /\ pc[p] = "subscribed"
    /\ sub' = [sub EXCEPT ![idx[p]] = "begun"]
    /\ pc' = [pc EXCEPT ![p] = "unsubscribe"]
    /\ UNCHANGED <<active, marked, owner, count, refs, counterVars, procVars, idx, todo,
                   try, crashes>>

(* EventSubscriptionControl::Unsubscribe, from OnEntry or from a rollback: *)
(* the exchange succeeds.                                                  *)
Unsubscribe(p) ==
    /\ pc[p] \in {"unsubscribe", "rollbackUnsubscribe"}
    /\ subscribers > 0 /\ samples >= count[idx[p]]
    /\ subscribers' = subscribers - 1
    /\ samples' = samples - count[idx[p]]
    /\ counted' = counted \ {idx[p]}
    /\ pc' = [pc EXCEPT ![p] = IF @ = "unsubscribe" THEN "unsubscribeCommit"
                               ELSE "rollbackCommit"]
    /\ try' = [try EXCEPT ![p] = 0]
    /\ UNCHANGED <<logVars, procVars, idx, todo, crashes>>

(* The exchange fails; at the retry limit the process terminates.          *)
UnsubscribeRetry(p) ==
    /\ pc[p] \in {"unsubscribe", "rollbackUnsubscribe"}
    /\ IF try[p] + 1 < 3 * MaxSubscribers
       THEN /\ try' = [try EXCEPT ![p] = @ + 1]
            /\ UNCHANGED <<logVars, counterVars, procVars, pc, idx, todo>>
       ELSE LoseProcess(ProcessOf[p], refs)
    /\ UNCHANGED crashes

UnsubscribeTransactionCommit(p) ==
    /\ pc[p] \in {"unsubscribeCommit", "rollbackCommit"}
    /\ sub' = [sub EXCEPT ![idx[p]] = "none"]
    /\ count' = [count EXCEPT ![idx[p]] = 0]
    /\ pc' = [pc EXCEPT ![p] = IF @ = "unsubscribeCommit" THEN "unregister" ELSE "reset"]
    /\ UNCHANGED <<active, marked, owner, refs, counterVars, procVars, idx, todo, try,
                   crashes>>

(* Unregister resets the log.  Reset asserts that the log is empty: the    *)
(* process terminates when the user still holds samples.                   *)
Unregister(p) ==
    /\ pc[p] = "unregister" /\ mutex = Free
    /\ IF refs[idx[p]] = "none"
       THEN /\ active' = active \ {idx[p]}
            /\ marked' = marked \ {idx[p]}
            /\ pc' = [pc EXCEPT ![p] = "created"]
            /\ idx' = [idx EXCEPT ![p] = NoLog]
            /\ UNCHANGED <<owner, sub, count, refs, counterVars, procVars, todo, try>>
       ELSE LoseProcess(ProcessOf[p], refs)
    /\ UNCHANGED crashes

(* A proxy without a subscription is destroyed.                            *)
Destroy(p) ==
    /\ pc[p] = "created"
    /\ pc' = [pc EXCEPT ![p] = "none"]
    /\ UNCHANGED <<logVars, counterVars, procVars, idx, todo, try, crashes>>

-----------------------------------------------------------------------------
ProxyStep(p) ==
    \/ PrepareRollback(p)
    \/ RollbackProxyTransactions(p)
    \/ RollbackFails(p)
    \/ RollbackProxyElementLog(p)
    \/ Reset(p)
    \/ RegisterProxyElement(p)
    \/ SubscribeTransactionBegin(p)
    \/ Subscribe(p)
    \/ SubscribeRetry(p)
    \/ SubscribeRejected(p)
    \/ SubscribeTransactionAbort(p)
    \/ SubscribeTransactionCommit(p)
    \/ UseSamples(p)
    \/ UnsubscribeTransactionBegin(p)
    \/ Unsubscribe(p)
    \/ UnsubscribeRetry(p)
    \/ UnsubscribeTransactionCommit(p)
    \/ Unregister(p)
    \/ Destroy(p)

Next ==
    \/ \E p \in Proxies : ProxyStep(p)
    \/ \E q \in Processes : Crash(q)

Spec == Init /\ [][Next]_vars

-----------------------------------------------------------------------------
LogTypeOK ==
    /\ active \in SUBSET Logs /\ marked \in SUBSET Logs
    /\ owner \in [Logs -> Processes \union {Nobody}]
    /\ sub \in [Logs -> SubStates]
    /\ count \in [Logs -> Nat]
    /\ refs \in [Logs -> RefStates]

CounterTypeOK ==
    /\ subscribers \in 0 .. MaxSubscribers
    /\ samples \in Int
    /\ counted \in SUBSET Logs
    /\ crashes \in 0 .. MaxCrashes

ProxyTypeOK ==
    /\ mutex \in Proxies \union {Free, Lost}
    /\ prepared \in SUBSET Processes
    /\ pc \in [Proxies -> ProxyStates]
    /\ idx \in [Proxies -> Logs \union {NoLog}]
    /\ todo \in [Proxies -> SUBSET Logs]
    /\ try \in [Proxies -> 0 .. 3 * MaxSubscribers - 1]

(* Every variable stays in its type, and no exchange is retried more often *)
(* than Subscribe and Unsubscribe allow.                                   *)
TypeOK == LogTypeOK /\ CounterTypeOK /\ ProxyTypeOK

(* What SubscribeEvent asserts of EventSubscriptionControl::Subscribe: a   *)
(* proxy that got a log never meets kMaxSubscribersOverflow, because every *)
(* subscriber the counter counts has a log of its own, crashed ones        *)
(* included.                                                               *)
NoSubscriberOverflow ==
    \A p \in Proxies : pc[p] = "subscribe" => subscribers < MaxSubscribers

(* Unsubscribe never finds fewer subscribers or samples than it withdraws, *)
(* on which it would terminate the process, in a rollback neither.         *)
UnsubscribeNeverUnderflows ==
    \A p \in Proxies :
        pc[p] \in {"unsubscribe", "rollbackUnsubscribe"} =>
            subscribers > 0 /\ samples >= count[idx[p]]

TotalOf(f, S) == MapThenSumSet(LAMBDA x : f[x], S)

(* With enforce_max_samples, the samples that subscribed proxies may hold  *)
(* together fit the slots of the event, on which the sizing of             *)
(* AllocateNextSlot rests.                                                 *)
SubscribedSamplesFit ==
    EnforceMaxSamples =>
        TotalOf(SampleCount, {p \in Proxies : pc[p] = "subscribed"}) <= MaxSlots

(* The packed counter never leaves its range at either end.                *)
CounterWithinBounds == UnsubscribeNeverUnderflows /\ SubscribedSamplesFit

(* The rollback has chosen the log it withdraws.                           *)
WithdrawsLog(p) == pc[p] \in {"rollbackUnsubscribe", "rollbackCommit", "reset"}

(* The log a live proxy uses is its own: no other proxy uses it, no        *)
(* rollback is marked for it and none works on it, in the same process     *)
(* neither.                                                                *)
LiveLogsSafe ==
    \A p \in Proxies : UsesLog(p) =>
        /\ idx[p] \in active \ marked
        /\ owner[idx[p]] = ProcessOf[p]
        /\ \A r \in Proxies \ {p} :
              /\ UsesLog(r) \/ WithdrawsLog(r) => idx[r] # idx[p]
              /\ idx[p] \notin todo[r]

(* What RegisterProxyElement and Reset assert: a log that is free for      *)
(* registration, and one that a rollback is about to reset, is empty.      *)
EmptyLogsReused ==
    /\ \A i \in Logs \ active : sub[i] = "none" /\ refs[i] = "none"
    /\ \A p \in Proxies :
          pc[p] = "reset" => sub[idx[p]] = "none" /\ refs[idx[p]] = "none"

(* Proxy p is beyond its creation and an old log of its process is left.   *)
OldLogLeft(p) ==
    (pc[p] = "created" \/ UsesLog(p)) /\ LogsToRollBack(ProcessOf[p]) # {}

(* A proxy that was created has no log of a crashed predecessor left: all  *)
(* logs of its transaction log id were rolled back, or creation failed.    *)
CreationLeavesNoOldLog == \A p \in Proxies : ~OldLogLeft(p)

Alone(p) == \A r \in Proxies \ {p} : ProcessOf[r] # ProcessOf[p]

(* The same where it can be expected: in a process with one proxy.         *)
SingleCreationLeavesNoOldLog == \A p \in Proxies : Alone(p) => ~OldLogLeft(p)

-----------------------------------------------------------------------------
(* The inductive invariant behind the properties above.                    *)

CounterExact == subscribers = Cardinality(counted)

CountedLogs ==
    \A i \in Logs :
        /\ sub[i] = "recorded" => i \in counted
        /\ sub[i] = "none" => i \notin counted
        /\ i \notin active => sub[i] = "none" /\ refs[i] = "none"

(* The state of the log of a proxy follows from where the proxy is.        *)
LogFollowsProxy ==
    \A p \in Proxies :
        LET i == idx[p] IN
        /\ UsesLog(p) \/ (RollsBack(p) /\ pc[p] # "rollback") => i \in active
        /\ pc[p] \in {"registered", "unregister", "reset"} => sub[i] = "none"
        /\ pc[p] \in {"subscribe", "subscribeAbort", "unsubscribeCommit", "rollbackCommit"}
              => sub[i] = "begun" /\ i \notin counted
        /\ pc[p] \in {"subscribeCommit", "unsubscribe", "rollbackUnsubscribe"}
              => sub[i] = "begun" /\ i \in counted
        /\ pc[p] = "subscribed" => sub[i] = "recorded"
        /\ pc[p] \in {"rollbackUnsubscribe", "rollbackCommit", "reset"}
              => refs[i] = "none"
        /\ UsesLog(p) => refs[i] # "torn"

LogsOwned ==
    \A p \in Proxies :
        /\ pc[p] # "none" => ProcessOf[p] \in prepared
        /\ UsesLog(p) => idx[p] \notin marked /\ owner[idx[p]] = ProcessOf[p]
        /\ RollsBack(p) /\ pc[p] # "rollback"
              => idx[p] \in marked /\ owner[idx[p]] = ProcessOf[p]
        /\ \A i \in todo[p] : i \in active \intersect marked /\ owner[i] = ProcessOf[p]
        /\ pc[p] = "rollback" <=> todo[p] # {}
        /\ \A r \in Proxies \ {p} : UsesLog(p) /\ UsesLog(r) => idx[p] # idx[r]

MutexHeld ==
    \A p \in Proxies : RollsBack(p) <=> mutex = p

(* The parts hold together: what the counter counts, what the logs record  *)
(* and where the proxies are always agree.                                 *)
SubscriptionInvariant ==
    /\ CounterExact
    /\ CountedLogs
    /\ LogFollowsProxy
    /\ LogsOwned
    /\ MutexHeld

(* A process with one proxy has at most one log; when the proxy is created *)
(* it has none, and before that every log it has is marked.                *)
LoneLog(p) ==
    LET mine == {i \in active : owner[i] = ProcessOf[p]} IN
    /\ \A i, j \in mine : i = j
    /\ pc[p] = "created" => mine = {}
    /\ pc[p] = "prepared" \/ (pc[p] = "none" /\ ProcessOf[p] \in prepared)
          => mine \subseteq marked

LoneLogs == \A p \in Proxies : Alone(p) => LoneLog(p)

(* The units that f gives to the elements of S, told apart.                *)
Units(f, S) == UNION {{x} \X (1 .. f[x]) : x \in S}

(* The lower half of the counter is what the logs it counts have recorded, *)
(* which is what their proxies asked for.                                  *)
SamplesInvariant ==
    /\ samples = Cardinality(Units(count, counted))
    /\ EnforceMaxSamples => samples <= MaxSlots
    /\ \A p \in Proxies :
          pc[p] \in {"subscribe", "subscribeCommit", "subscribed", "unsubscribe"} =>
              count[idx[p]] = SampleCount[p]
=============================================================================
