----------------------- MODULE EventSubscriptionProofs -----------------------
(***************************************************************************)
(* Proofs about EventSubscription for every number of proxies, processes   *)
(* and subscribers, every assignment of proxies to processes, and whatever *)
(* a crash does to the mutex; and about the registration of the pids, in   *)
(* ProxyCreation.                                                          *)
(***************************************************************************)
EXTENDS MCEventSubscription, FiniteSetTheorems, NaturalsInduction,
        WellFoundedInduction, TLAPS

(* A set of logs that is not empty has a first log.                        *)
LEMMA FirstLog ==
    ASSUME NEW S \in SUBSET Logs, S # {}
    PROVE  First(S) \in S
<1>1. S \subseteq Nat
  BY SubscriptionAssumption DEF Logs
<1>2. PICK x \in S : \A y \in S : ~(<<y, x>> \in OpToRel(<, Nat))
  BY <1>1, NatLessThanWellFounded, WFMin
<1>3. \A y \in S : x <= y
  <2> TAKE y \in S
  <2>1. ~(y < x)
    BY <1>1, <1>2 DEF OpToRel
  <2> QED
    BY <1>1, <2>1
<1> QED
  BY <1>3 DEF First

(* As many logs as subscribers are allowed.                                *)
LEMMA LogCount ==
    ASSUME NEW S \in SUBSET Logs
    PROVE  /\ IsFiniteSet(S) /\ Cardinality(S) \in 0 .. MaxSubscribers
           /\ \A i \in Logs \ S : /\ Cardinality(S \union {i}) = Cardinality(S) + 1
                                  /\ Cardinality(S) < MaxSubscribers
           /\ \A i \in S : Cardinality(S \ {i}) = Cardinality(S) - 1
<1>1. IsFiniteSet(Logs) /\ Cardinality(Logs) = MaxSubscribers
  BY FS_Interval, SubscriptionAssumption DEF Logs
<1>2. ASSUME NEW T \in SUBSET Logs
      PROVE  /\ IsFiniteSet(T) /\ Cardinality(T) \in Nat
             /\ Cardinality(T) <= MaxSubscribers
  BY <1>1, FS_Subset, FS_CardinalityType
<1>3. ASSUME NEW i \in Logs \ S
      PROVE  /\ Cardinality(S \union {i}) = Cardinality(S) + 1
             /\ Cardinality(S) < MaxSubscribers
  <2>1. Cardinality(S \union {i}) = Cardinality(S) + 1
    BY <1>2, FS_AddElement
  <2>2. Cardinality(S \union {i}) <= MaxSubscribers
    BY <1>2
  <2>3. Cardinality(S) \in Nat
    BY <1>2
  <2> QED
    BY <2>1, <2>2, <2>3, SubscriptionAssumption
<1>4. \A i \in S : Cardinality(S \ {i}) = Cardinality(S) - 1
  BY <1>2, FS_RemoveElement
<1> QED
  BY <1>2, <1>3, <1>4, SubscriptionAssumption

-----------------------------------------------------------------------------
(* Types and the invariant of the subscriptions hold at first.             *)
LEMMA InitOK == Init => TypeOK /\ SubscriptionInvariant
<1> SUFFICES ASSUME Init PROVE TypeOK /\ SubscriptionInvariant
  OBVIOUS
<1> USE SubscriptionAssumption, MutexAssumption DEF Init
<1>1. LogTypeOK
  BY DEF LogTypeOK, SubStates, RefStates
<1>2. CounterTypeOK
  BY DEF CounterTypeOK
<1>3. ProxyTypeOK
  BY DEF ProxyTypeOK, ProxyStates
<1>4. CounterExact
  BY FS_EmptySet DEF CounterExact
<1>5. CountedLogs
  BY DEF CountedLogs
<1>6. LogFollowsProxy /\ LogsOwned /\ MutexHeld
  BY DEF LogFollowsProxy, LogsOwned, MutexHeld, UsesLog, RollsBack
<1> QED
  BY <1>1, <1>2, <1>3, <1>4, <1>5, <1>6 DEF TypeOK, SubscriptionInvariant

(* The steps of Proxy::Create.                                             *)
LEMMA RollbackSteps ==
    ASSUME TypeOK, SubscriptionInvariant, NEW p \in Proxies,
           \/ PrepareRollback(p) \/ RollbackProxyTransactions(p)
           \/ RollbackFails(p) \/ RollbackProxyElementLog(p) \/ Reset(p)
    PROVE  TypeOK' /\ SubscriptionInvariant'
<1> USE SubscriptionAssumption, MutexAssumption
    DEF TypeOK, SubscriptionInvariant, NoLog, logVars, counterVars, procVars,
        proxyVars
<1>a. /\ active \in SUBSET Logs /\ marked \in SUBSET Logs /\ counted \in SUBSET Logs
      /\ owner \in [Logs -> Processes \union {Nobody}]
      /\ sub \in [Logs -> SubStates] /\ refs \in [Logs -> RefStates]
      /\ count \in [Logs -> Nat]
      /\ pc \in [Proxies -> ProxyStates]
      /\ idx \in [Proxies -> Logs \union {MaxSubscribers}]
      /\ todo \in [Proxies -> SUBSET Logs]
      /\ try \in [Proxies -> 0 .. 3 * MaxSubscribers - 1]
      /\ mutex \in Proxies \union {Free, Lost}
      /\ MaxSubscribers \notin Logs
  BY DEF LogTypeOK, CounterTypeOK, ProxyTypeOK, Logs
<1>b. ASSUME pc[p] = "rollback" PROVE First(todo[p]) \in todo[p] /\ First(todo[p]) \in Logs
  BY <1>a, <1>b, FirstLog DEF LogsOwned
<1>1. CASE PrepareRollback(p)
  <2>1. LogTypeOK'
    BY <1>a, <1>1 DEF PrepareRollback, LogTypeOK, SubStates, RefStates
  <2>2. CounterTypeOK'
    BY <1>a, <1>1 DEF PrepareRollback, CounterTypeOK
  <2>3. ProxyTypeOK'
    BY <1>a, <1>1 DEF PrepareRollback, ProxyTypeOK, ProxyStates
  <2>4. CounterExact'
    BY <1>a, <1>1 DEF PrepareRollback, CounterExact
  <2>5. CountedLogs'
    BY <1>a, <1>1 DEF PrepareRollback, CountedLogs, LogFollowsProxy, UsesLog
  <2>6. LogFollowsProxy'
    BY <1>a, <1>1 DEF PrepareRollback, LogFollowsProxy, LogsOwned, CountedLogs, MutexHeld, UsesLog, RollsBack
  <2>7. LogsOwned'
    BY <1>a, <1>1 DEF PrepareRollback, LogsOwned, LogFollowsProxy, MutexHeld, UsesLog, RollsBack
  <2>8. MutexHeld'
    BY <1>a, <1>1 DEF PrepareRollback, MutexHeld, LogsOwned, RollsBack
  <2> QED
    BY <2>1, <2>2, <2>3, <2>4, <2>5, <2>6, <2>7, <2>8
<1>2. CASE RollbackProxyTransactions(p)
  <2>1. LogTypeOK'
    BY <1>a, <1>2 DEF RollbackProxyTransactions, LogsToRollBack, LogTypeOK, SubStates, RefStates
  <2>2. CounterTypeOK'
    BY <1>a, <1>2 DEF RollbackProxyTransactions, LogsToRollBack, CounterTypeOK
  <2>3. ProxyTypeOK'
    BY <1>a, <1>2 DEF RollbackProxyTransactions, LogsToRollBack, ProxyTypeOK, ProxyStates
  <2>4. CounterExact'
    BY <1>a, <1>2 DEF RollbackProxyTransactions, LogsToRollBack, CounterExact
  <2>5. CountedLogs'
    BY <1>a, <1>2 DEF RollbackProxyTransactions, LogsToRollBack, CountedLogs, LogFollowsProxy, UsesLog
  <2>6. LogFollowsProxy'
    BY <1>a, <1>2 DEF RollbackProxyTransactions, LogsToRollBack, LogFollowsProxy, LogsOwned, CountedLogs, MutexHeld, UsesLog, RollsBack
  <2>7. LogsOwned'
    BY <1>a, <1>2 DEF RollbackProxyTransactions, LogsToRollBack, LogsOwned, LogFollowsProxy, MutexHeld, UsesLog, RollsBack
  <2>8. MutexHeld'
    BY <1>a, <1>2 DEF RollbackProxyTransactions, LogsToRollBack, MutexHeld, LogsOwned, RollsBack
  <2> QED
    BY <2>1, <2>2, <2>3, <2>4, <2>5, <2>6, <2>7, <2>8
<1>3. CASE RollbackFails(p)
  <2>1. LogTypeOK'
    BY <1>a, <1>3, <1>b DEF RollbackFails, LogTypeOK, SubStates, RefStates
  <2>2. CounterTypeOK'
    BY <1>a, <1>3 DEF RollbackFails, CounterTypeOK
  <2>3. ProxyTypeOK'
    BY <1>a, <1>3, <1>b DEF RollbackFails, ProxyTypeOK, ProxyStates
  <2>4. CounterExact'
    BY <1>a, <1>3 DEF RollbackFails, CounterExact
  <2>5. CountedLogs'
    BY <1>a, <1>3, <1>b DEF RollbackFails, CountedLogs, LogFollowsProxy, UsesLog
  <2>6. LogFollowsProxy'
    BY <1>a, <1>3, <1>b DEF RollbackFails, LogFollowsProxy, LogsOwned, CountedLogs, MutexHeld, UsesLog, RollsBack
  <2>7. LogsOwned'
    BY <1>a, <1>3, <1>b DEF RollbackFails, LogsOwned, LogFollowsProxy, MutexHeld, UsesLog, RollsBack
  <2>8. MutexHeld'
    BY <1>a, <1>3, <1>b DEF RollbackFails, MutexHeld, LogsOwned, RollsBack
  <2> QED
    BY <2>1, <2>2, <2>3, <2>4, <2>5, <2>6, <2>7, <2>8
<1>4. CASE RollbackProxyElementLog(p)
  <2>1. LogTypeOK'
    BY <1>a, <1>4, <1>b DEF RollbackProxyElementLog, LogTypeOK, SubStates, RefStates
  <2>2. CounterTypeOK'
    BY <1>a, <1>4 DEF RollbackProxyElementLog, CounterTypeOK
  <2>3. ProxyTypeOK'
    BY <1>a, <1>4, <1>b DEF RollbackProxyElementLog, ProxyTypeOK, ProxyStates
  <2>4. CounterExact'
    BY <1>a, <1>4 DEF RollbackProxyElementLog, CounterExact
  <2>5. CountedLogs'
    BY <1>a, <1>4, <1>b DEF RollbackProxyElementLog, CountedLogs, LogFollowsProxy, UsesLog
  <2>6. LogFollowsProxy'
    <3> DEFINE k == First(todo[p])
    <3>1. /\ k \in Logs /\ k \in active \intersect marked /\ mutex = p
          /\ sub[k] # "begun" /\ pc[p] = "rollback"
      BY <1>4, <1>b DEF RollbackProxyElementLog, LogsOwned, MutexHeld, RollsBack
    <3>2. /\ refs' = [refs EXCEPT ![k] = "none"]
          /\ idx' = [idx EXCEPT ![p] = k]
          /\ UNCHANGED <<active, counted>>
          /\ \/ /\ sub[k] = "recorded" /\ sub' = [sub EXCEPT ![k] = "begun"]
                /\ pc' = [pc EXCEPT ![p] = "rollbackUnsubscribe"]
             \/ /\ sub[k] # "recorded" /\ sub' = sub
                /\ pc' = [pc EXCEPT ![p] = "reset"]
      BY <1>4 DEF RollbackProxyElementLog
    <3> HIDE DEF k
    <3>3. \A r \in Proxies \ {p} : ~RollsBack(r) /\ (UsesLog(r) => idx[r] # k)
      BY <3>1 DEF MutexHeld, LogsOwned
    <3>4. sub[k] \in {"none", "recorded"} /\ (sub[k] = "recorded" => k \in counted)
      BY <1>a, <3>1 DEF CountedLogs, SubStates
    <3>5. ASSUME NEW r \in Proxies \ {p}
          PROVE  /\ pc'[r] = pc[r] /\ idx'[r] = idx[r]
                 /\ UsesLog(r) => sub'[idx[r]] = sub[idx[r]] /\ refs'[idx[r]] = refs[idx[r]]
      <4>1. UsesLog(r) => idx[r] \in Logs
        BY <1>a DEF LogFollowsProxy
      <4> QED
        BY <1>a, <3>1, <3>2, <3>3, <4>1
    <3>6. /\ idx'[p] = k /\ refs'[k] = "none"
          /\ \/ pc'[p] = "rollbackUnsubscribe" /\ sub'[k] = "begun" /\ k \in counted
             \/ pc'[p] = "reset" /\ sub'[k] = "none"
      BY <1>a, <3>1, <3>2, <3>4
    <3> QED
      BY <1>a, <3>1, <3>2, <3>3, <3>5, <3>6 DEF LogFollowsProxy, UsesLog, RollsBack
  <2>7. LogsOwned'
    BY <1>a, <1>4, <1>b DEF RollbackProxyElementLog, LogsOwned, LogFollowsProxy, MutexHeld, UsesLog, RollsBack
  <2>8. MutexHeld'
    BY <1>a, <1>4, <1>b DEF RollbackProxyElementLog, MutexHeld, LogsOwned, RollsBack
  <2> QED
    BY <2>1, <2>2, <2>3, <2>4, <2>5, <2>6, <2>7, <2>8
<1>5. CASE Reset(p)
  <2>1. LogTypeOK'
    BY <1>a, <1>5 DEF Reset, LogTypeOK, SubStates, RefStates
  <2>2. CounterTypeOK'
    BY <1>a, <1>5 DEF Reset, CounterTypeOK
  <2>3. ProxyTypeOK'
    BY <1>a, <1>5 DEF Reset, ProxyTypeOK, ProxyStates
  <2>4. CounterExact'
    BY <1>a, <1>5 DEF Reset, CounterExact
  <2>5. CountedLogs'
    BY <1>a, <1>5 DEF Reset, CountedLogs, LogFollowsProxy, UsesLog
  <2>6. LogFollowsProxy'
    BY <1>a, <1>5 DEF Reset, LogFollowsProxy, LogsOwned, CountedLogs, MutexHeld, UsesLog, RollsBack
  <2>7. LogsOwned'
    BY <1>a, <1>5 DEF Reset, LogsOwned, LogFollowsProxy, MutexHeld, UsesLog, RollsBack
  <2>8. MutexHeld'
    BY <1>a, <1>5 DEF Reset, MutexHeld, LogsOwned, RollsBack
  <2> QED
    BY <2>1, <2>2, <2>3, <2>4, <2>5, <2>6, <2>7, <2>8
<1> QED
  BY <1>1, <1>2, <1>3, <1>4, <1>5

(* The steps of a subscription.                                            *)
LEMMA SubscribeSteps ==
    ASSUME TypeOK, SubscriptionInvariant, NEW p \in Proxies,
           \/ RegisterProxyElement(p) \/ SubscribeTransactionBegin(p)
           \/ Subscribe(p) \/ SubscribeRetry(p) \/ SubscribeRejected(p)
           \/ SubscribeTransactionAbort(p) \/ SubscribeTransactionCommit(p)
           \/ UseSamples(p)
    PROVE  TypeOK' /\ SubscriptionInvariant'
<1> USE SubscriptionAssumption, MutexAssumption
    DEF TypeOK, SubscriptionInvariant, NoLog, logVars, counterVars, procVars,
        proxyVars
<1>a. /\ active \in SUBSET Logs /\ marked \in SUBSET Logs /\ counted \in SUBSET Logs
      /\ owner \in [Logs -> Processes \union {Nobody}]
      /\ sub \in [Logs -> SubStates] /\ refs \in [Logs -> RefStates]
      /\ count \in [Logs -> Nat]
      /\ pc \in [Proxies -> ProxyStates]
      /\ idx \in [Proxies -> Logs \union {MaxSubscribers}]
      /\ todo \in [Proxies -> SUBSET Logs]
      /\ try \in [Proxies -> 0 .. 3 * MaxSubscribers - 1]
      /\ mutex \in Proxies \union {Free, Lost}
      /\ MaxSubscribers \notin Logs
  BY DEF LogTypeOK, CounterTypeOK, ProxyTypeOK, Logs
<1>b. ASSUME pc[p] = "rollback" PROVE First(todo[p]) \in todo[p] /\ First(todo[p]) \in Logs
  BY <1>a, <1>b, FirstLog DEF LogsOwned
<1>1. CASE RegisterProxyElement(p)
  <2> DEFINE k == First(Logs \ active)
  <2>a. k \in Logs \ active
    BY <1>1, FirstLog DEF RegisterProxyElement
  <2>b. /\ owner' = [owner EXCEPT ![k] = ProcessOf[p]]
        /\ active' = active \union {k} /\ marked' = marked \ {k}
        /\ idx' = [idx EXCEPT ![p] = k] /\ pc' = [pc EXCEPT ![p] = "registered"]
        /\ UNCHANGED <<sub, count, refs, counterVars, procVars, todo, try, crashes>>
        /\ pc[p] = "created" /\ mutex = Free
    BY <1>1 DEF RegisterProxyElement
  <2> HIDE DEF k
  <2>1. LogTypeOK'
    BY <1>a, <2>a, <2>b DEF LogTypeOK, SubStates, RefStates
  <2>2. CounterTypeOK'
    BY <1>a, <2>a, <2>b DEF CounterTypeOK
  <2>3. ProxyTypeOK'
    BY <1>a, <2>a, <2>b DEF ProxyTypeOK, ProxyStates
  <2>4. CounterExact'
    BY <1>a, <2>a, <2>b DEF CounterExact
  <2>5. CountedLogs'
    BY <1>a, <2>a, <2>b DEF CountedLogs, LogFollowsProxy, UsesLog
  <2>6. LogFollowsProxy'
    BY <1>a, <2>a, <2>b DEF LogFollowsProxy, LogsOwned, CountedLogs, MutexHeld, UsesLog, RollsBack
  <2>7. LogsOwned'
    BY <1>a, <2>a, <2>b DEF LogsOwned, LogFollowsProxy, MutexHeld, UsesLog, RollsBack
  <2>8. MutexHeld'
    BY <1>a, <2>a, <2>b DEF MutexHeld, LogsOwned, RollsBack
  <2> QED
    BY <2>1, <2>2, <2>3, <2>4, <2>5, <2>6, <2>7, <2>8
<1>2. CASE SubscribeTransactionBegin(p)
  <2>1. LogTypeOK'
    BY <1>a, <1>2 DEF SubscribeTransactionBegin, LogTypeOK, SubStates, RefStates
  <2>2. CounterTypeOK'
    BY <1>a, <1>2 DEF SubscribeTransactionBegin, CounterTypeOK
  <2>3. ProxyTypeOK'
    BY <1>a, <1>2 DEF SubscribeTransactionBegin, ProxyTypeOK, ProxyStates
  <2>4. CounterExact'
    BY <1>a, <1>2 DEF SubscribeTransactionBegin, CounterExact
  <2>5. CountedLogs'
    BY <1>a, <1>2 DEF SubscribeTransactionBegin, CountedLogs, LogFollowsProxy, UsesLog
  <2>6. LogFollowsProxy'
    BY <1>a, <1>2 DEF SubscribeTransactionBegin, LogFollowsProxy, LogsOwned, CountedLogs, MutexHeld, UsesLog, RollsBack
  <2>7. LogsOwned'
    BY <1>a, <1>2 DEF SubscribeTransactionBegin, LogsOwned, LogFollowsProxy, MutexHeld, UsesLog, RollsBack
  <2>8. MutexHeld'
    BY <1>a, <1>2 DEF SubscribeTransactionBegin, MutexHeld, LogsOwned, RollsBack
  <2> QED
    BY <2>1, <2>2, <2>3, <2>4, <2>5, <2>6, <2>7, <2>8
<1>3. CASE Subscribe(p)
  <2>1. LogTypeOK'
    BY <1>a, <1>3 DEF Subscribe, LogTypeOK, SubStates, RefStates
  <2>2. CounterTypeOK'
    <3>1. subscribers \in 0 .. MaxSubscribers /\ subscribers + 1 \in 0 .. MaxSubscribers
      BY <1>3 DEF Subscribe, CounterTypeOK
    <3>2. idx[p] \in Logs
      BY <1>3, <1>a DEF Subscribe, LogFollowsProxy, UsesLog
    <3> QED
      BY <1>a, <1>3, <3>1, <3>2 DEF Subscribe, CounterTypeOK
  <2>3. ProxyTypeOK'
    BY <1>a, <1>3 DEF Subscribe, ProxyTypeOK, ProxyStates
  <2>4. CounterExact'
    <3>1. idx[p] \in Logs \ counted
      BY <1>3, <1>a DEF Subscribe, LogFollowsProxy, UsesLog
    <3> QED
      BY <1>a, <1>3, <3>1, LogCount DEF Subscribe, CounterExact
  <2>5. CountedLogs'
    BY <1>a, <1>3 DEF Subscribe, CountedLogs, LogFollowsProxy, UsesLog
  <2>6. LogFollowsProxy'
    BY <1>a, <1>3 DEF Subscribe, LogFollowsProxy, LogsOwned, CountedLogs, MutexHeld, UsesLog, RollsBack
  <2>7. LogsOwned'
    BY <1>a, <1>3 DEF Subscribe, LogsOwned, LogFollowsProxy, MutexHeld, UsesLog, RollsBack
  <2>8. MutexHeld'
    BY <1>a, <1>3 DEF Subscribe, MutexHeld, LogsOwned, RollsBack
  <2> QED
    BY <2>1, <2>2, <2>3, <2>4, <2>5, <2>6, <2>7, <2>8
<1>4. CASE SubscribeRetry(p)
  <2>1. LogTypeOK'
    BY <1>a, <1>4 DEF SubscribeRetry, LogTypeOK, SubStates, RefStates
  <2>2. CounterTypeOK'
    BY <1>a, <1>4 DEF SubscribeRetry, CounterTypeOK
  <2>3. ProxyTypeOK'
    BY <1>a, <1>4 DEF SubscribeRetry, ProxyTypeOK, ProxyStates
  <2>4. CounterExact'
    BY <1>a, <1>4 DEF SubscribeRetry, CounterExact
  <2>5. CountedLogs'
    BY <1>a, <1>4 DEF SubscribeRetry, CountedLogs, LogFollowsProxy, UsesLog
  <2>6. LogFollowsProxy'
    BY <1>a, <1>4 DEF SubscribeRetry, LogFollowsProxy, LogsOwned, CountedLogs, MutexHeld, UsesLog, RollsBack
  <2>7. LogsOwned'
    BY <1>a, <1>4 DEF SubscribeRetry, LogsOwned, LogFollowsProxy, MutexHeld, UsesLog, RollsBack
  <2>8. MutexHeld'
    BY <1>a, <1>4 DEF SubscribeRetry, MutexHeld, LogsOwned, RollsBack
  <2> QED
    BY <2>1, <2>2, <2>3, <2>4, <2>5, <2>6, <2>7, <2>8
<1>5. CASE SubscribeRejected(p)
  <2>1. LogTypeOK'
    BY <1>a, <1>5 DEF SubscribeRejected, LogTypeOK, SubStates, RefStates
  <2>2. CounterTypeOK'
    BY <1>a, <1>5 DEF SubscribeRejected, CounterTypeOK
  <2>3. ProxyTypeOK'
    BY <1>a, <1>5 DEF SubscribeRejected, ProxyTypeOK, ProxyStates
  <2>4. CounterExact'
    BY <1>a, <1>5 DEF SubscribeRejected, CounterExact
  <2>5. CountedLogs'
    BY <1>a, <1>5 DEF SubscribeRejected, CountedLogs, LogFollowsProxy, UsesLog
  <2>6. LogFollowsProxy'
    BY <1>a, <1>5 DEF SubscribeRejected, LogFollowsProxy, LogsOwned, CountedLogs, MutexHeld, UsesLog, RollsBack
  <2>7. LogsOwned'
    BY <1>a, <1>5 DEF SubscribeRejected, LogsOwned, LogFollowsProxy, MutexHeld, UsesLog, RollsBack
  <2>8. MutexHeld'
    BY <1>a, <1>5 DEF SubscribeRejected, MutexHeld, LogsOwned, RollsBack
  <2> QED
    BY <2>1, <2>2, <2>3, <2>4, <2>5, <2>6, <2>7, <2>8
<1>6. CASE SubscribeTransactionAbort(p)
  <2>1. LogTypeOK'
    BY <1>a, <1>6 DEF SubscribeTransactionAbort, LogTypeOK, SubStates, RefStates
  <2>2. CounterTypeOK'
    BY <1>a, <1>6 DEF SubscribeTransactionAbort, CounterTypeOK
  <2>3. ProxyTypeOK'
    BY <1>a, <1>6 DEF SubscribeTransactionAbort, ProxyTypeOK, ProxyStates
  <2>4. CounterExact'
    BY <1>a, <1>6 DEF SubscribeTransactionAbort, CounterExact
  <2>5. CountedLogs'
    BY <1>a, <1>6 DEF SubscribeTransactionAbort, CountedLogs, LogFollowsProxy, UsesLog
  <2>6. LogFollowsProxy'
    BY <1>a, <1>6 DEF SubscribeTransactionAbort, LogFollowsProxy, LogsOwned, CountedLogs, MutexHeld, UsesLog, RollsBack
  <2>7. LogsOwned'
    BY <1>a, <1>6 DEF SubscribeTransactionAbort, LogsOwned, LogFollowsProxy, MutexHeld, UsesLog, RollsBack
  <2>8. MutexHeld'
    BY <1>a, <1>6 DEF SubscribeTransactionAbort, MutexHeld, LogsOwned, RollsBack
  <2> QED
    BY <2>1, <2>2, <2>3, <2>4, <2>5, <2>6, <2>7, <2>8
<1>7. CASE SubscribeTransactionCommit(p)
  <2>1. LogTypeOK'
    BY <1>a, <1>7 DEF SubscribeTransactionCommit, LogTypeOK, SubStates, RefStates
  <2>2. CounterTypeOK'
    BY <1>a, <1>7 DEF SubscribeTransactionCommit, CounterTypeOK
  <2>3. ProxyTypeOK'
    BY <1>a, <1>7 DEF SubscribeTransactionCommit, ProxyTypeOK, ProxyStates
  <2>4. CounterExact'
    BY <1>a, <1>7 DEF SubscribeTransactionCommit, CounterExact
  <2>5. CountedLogs'
    BY <1>a, <1>7 DEF SubscribeTransactionCommit, CountedLogs, LogFollowsProxy, UsesLog
  <2>6. LogFollowsProxy'
    BY <1>a, <1>7 DEF SubscribeTransactionCommit, LogFollowsProxy, LogsOwned, CountedLogs, MutexHeld, UsesLog, RollsBack
  <2>7. LogsOwned'
    BY <1>a, <1>7 DEF SubscribeTransactionCommit, LogsOwned, LogFollowsProxy, MutexHeld, UsesLog, RollsBack
  <2>8. MutexHeld'
    BY <1>a, <1>7 DEF SubscribeTransactionCommit, MutexHeld, LogsOwned, RollsBack
  <2> QED
    BY <2>1, <2>2, <2>3, <2>4, <2>5, <2>6, <2>7, <2>8
<1>8. CASE UseSamples(p)
  <2>1. LogTypeOK'
    BY <1>a, <1>8 DEF UseSamples, LogTypeOK, SubStates, RefStates
  <2>2. CounterTypeOK'
    BY <1>a, <1>8 DEF UseSamples, CounterTypeOK
  <2>3. ProxyTypeOK'
    BY <1>a, <1>8 DEF UseSamples, ProxyTypeOK, ProxyStates
  <2>4. CounterExact'
    BY <1>a, <1>8 DEF UseSamples, CounterExact
  <2>5. CountedLogs'
    BY <1>a, <1>8 DEF UseSamples, CountedLogs, LogFollowsProxy, UsesLog
  <2>6. LogFollowsProxy'
    BY <1>a, <1>8 DEF UseSamples, LogFollowsProxy, LogsOwned, CountedLogs, MutexHeld, UsesLog, RollsBack
  <2>7. LogsOwned'
    BY <1>a, <1>8 DEF UseSamples, LogsOwned, LogFollowsProxy, MutexHeld, UsesLog, RollsBack
  <2>8. MutexHeld'
    BY <1>a, <1>8 DEF UseSamples, MutexHeld, LogsOwned, RollsBack
  <2> QED
    BY <2>1, <2>2, <2>3, <2>4, <2>5, <2>6, <2>7, <2>8
<1> QED
  BY <1>1, <1>2, <1>3, <1>4, <1>5, <1>6, <1>7, <1>8

(* The steps of an unsubscription, and the end of a proxy.                 *)
LEMMA UnsubscribeSteps ==
    ASSUME TypeOK, SubscriptionInvariant, NEW p \in Proxies,
           \/ UnsubscribeTransactionBegin(p) \/ Unsubscribe(p)
           \/ UnsubscribeTransactionCommit(p) \/ Destroy(p)
    PROVE  TypeOK' /\ SubscriptionInvariant'
<1> USE SubscriptionAssumption, MutexAssumption
    DEF TypeOK, SubscriptionInvariant, NoLog, logVars, counterVars, procVars,
        proxyVars
<1>a. /\ active \in SUBSET Logs /\ marked \in SUBSET Logs /\ counted \in SUBSET Logs
      /\ owner \in [Logs -> Processes \union {Nobody}]
      /\ sub \in [Logs -> SubStates] /\ refs \in [Logs -> RefStates]
      /\ count \in [Logs -> Nat]
      /\ pc \in [Proxies -> ProxyStates]
      /\ idx \in [Proxies -> Logs \union {MaxSubscribers}]
      /\ todo \in [Proxies -> SUBSET Logs]
      /\ try \in [Proxies -> 0 .. 3 * MaxSubscribers - 1]
      /\ mutex \in Proxies \union {Free, Lost}
      /\ MaxSubscribers \notin Logs
  BY DEF LogTypeOK, CounterTypeOK, ProxyTypeOK, Logs
<1>b. ASSUME pc[p] = "rollback" PROVE First(todo[p]) \in todo[p] /\ First(todo[p]) \in Logs
  BY <1>a, <1>b, FirstLog DEF LogsOwned
<1>1. CASE UnsubscribeTransactionBegin(p)
  <2>1. LogTypeOK'
    BY <1>a, <1>1 DEF UnsubscribeTransactionBegin, LogTypeOK, SubStates, RefStates
  <2>2. CounterTypeOK'
    BY <1>a, <1>1 DEF UnsubscribeTransactionBegin, CounterTypeOK
  <2>3. ProxyTypeOK'
    BY <1>a, <1>1 DEF UnsubscribeTransactionBegin, ProxyTypeOK, ProxyStates
  <2>4. CounterExact'
    BY <1>a, <1>1 DEF UnsubscribeTransactionBegin, CounterExact
  <2>5. CountedLogs'
    BY <1>a, <1>1 DEF UnsubscribeTransactionBegin, CountedLogs, LogFollowsProxy, UsesLog
  <2>6. LogFollowsProxy'
    BY <1>a, <1>1 DEF UnsubscribeTransactionBegin, LogFollowsProxy, LogsOwned, CountedLogs, MutexHeld, UsesLog, RollsBack
  <2>7. LogsOwned'
    BY <1>a, <1>1 DEF UnsubscribeTransactionBegin, LogsOwned, LogFollowsProxy, MutexHeld, UsesLog, RollsBack
  <2>8. MutexHeld'
    BY <1>a, <1>1 DEF UnsubscribeTransactionBegin, MutexHeld, LogsOwned, RollsBack
  <2> QED
    BY <2>1, <2>2, <2>3, <2>4, <2>5, <2>6, <2>7, <2>8
<1>2. CASE Unsubscribe(p)
  <2>1. LogTypeOK'
    BY <1>a, <1>2 DEF Unsubscribe, LogTypeOK, SubStates, RefStates
  <2>2. CounterTypeOK'
    <3>1. subscribers \in 0 .. MaxSubscribers /\ subscribers - 1 \in 0 .. MaxSubscribers
      BY <1>2 DEF Unsubscribe, CounterTypeOK
    <3>2. samples - count[idx[p]] \in Int
      <4>1. idx[p] \in Logs
        BY <1>2, <1>a DEF Unsubscribe, LogFollowsProxy, UsesLog, RollsBack
      <4> QED
        BY <1>a, <4>1 DEF CounterTypeOK
    <3> QED
      BY <1>a, <1>2, <3>1, <3>2 DEF Unsubscribe, CounterTypeOK
  <2>3. ProxyTypeOK'
    BY <1>a, <1>2 DEF Unsubscribe, ProxyTypeOK, ProxyStates
  <2>4. CounterExact'
    <3>1. idx[p] \in counted
      BY <1>2 DEF Unsubscribe, LogFollowsProxy
    <3> QED
      BY <1>a, <1>2, <3>1, LogCount DEF Unsubscribe, CounterExact
  <2>5. CountedLogs'
    BY <1>a, <1>2 DEF Unsubscribe, CountedLogs, LogFollowsProxy, UsesLog
  <2>6. LogFollowsProxy'
    BY <1>a, <1>2 DEF Unsubscribe, LogFollowsProxy, LogsOwned, CountedLogs, MutexHeld, UsesLog, RollsBack
  <2>7. LogsOwned'
    BY <1>a, <1>2 DEF Unsubscribe, LogsOwned, LogFollowsProxy, MutexHeld, UsesLog, RollsBack
  <2>8. MutexHeld'
    BY <1>a, <1>2 DEF Unsubscribe, MutexHeld, LogsOwned, RollsBack
  <2> QED
    BY <2>1, <2>2, <2>3, <2>4, <2>5, <2>6, <2>7, <2>8
<1>3. CASE UnsubscribeTransactionCommit(p)
  <2>1. LogTypeOK'
    BY <1>a, <1>3 DEF UnsubscribeTransactionCommit, LogTypeOK, SubStates, RefStates
  <2>2. CounterTypeOK'
    BY <1>a, <1>3 DEF UnsubscribeTransactionCommit, CounterTypeOK
  <2>3. ProxyTypeOK'
    BY <1>a, <1>3 DEF UnsubscribeTransactionCommit, ProxyTypeOK, ProxyStates
  <2>4. CounterExact'
    BY <1>a, <1>3 DEF UnsubscribeTransactionCommit, CounterExact
  <2>5. CountedLogs'
    BY <1>a, <1>3 DEF UnsubscribeTransactionCommit, CountedLogs, LogFollowsProxy, UsesLog
  <2>6. LogFollowsProxy'
    BY <1>a, <1>3 DEF UnsubscribeTransactionCommit, LogFollowsProxy, LogsOwned, CountedLogs, MutexHeld, UsesLog, RollsBack
  <2>7. LogsOwned'
    BY <1>a, <1>3 DEF UnsubscribeTransactionCommit, LogsOwned, LogFollowsProxy, MutexHeld, UsesLog, RollsBack
  <2>8. MutexHeld'
    BY <1>a, <1>3 DEF UnsubscribeTransactionCommit, MutexHeld, LogsOwned, RollsBack
  <2> QED
    BY <2>1, <2>2, <2>3, <2>4, <2>5, <2>6, <2>7, <2>8
<1>4. CASE Destroy(p)
  <2>1. LogTypeOK'
    BY <1>a, <1>4 DEF Destroy, LogTypeOK, SubStates, RefStates
  <2>2. CounterTypeOK'
    BY <1>a, <1>4 DEF Destroy, CounterTypeOK
  <2>3. ProxyTypeOK'
    BY <1>a, <1>4 DEF Destroy, ProxyTypeOK, ProxyStates
  <2>4. CounterExact'
    BY <1>a, <1>4 DEF Destroy, CounterExact
  <2>5. CountedLogs'
    BY <1>a, <1>4 DEF Destroy, CountedLogs, LogFollowsProxy, UsesLog
  <2>6. LogFollowsProxy'
    BY <1>a, <1>4 DEF Destroy, LogFollowsProxy, LogsOwned, CountedLogs, MutexHeld, UsesLog, RollsBack
  <2>7. LogsOwned'
    BY <1>a, <1>4 DEF Destroy, LogsOwned, LogFollowsProxy, MutexHeld, UsesLog, RollsBack
  <2>8. MutexHeld'
    BY <1>a, <1>4 DEF Destroy, MutexHeld, LogsOwned, RollsBack
  <2> QED
    BY <2>1, <2>2, <2>3, <2>4, <2>5, <2>6, <2>7, <2>8
<1> QED
  BY <1>1, <1>2, <1>3, <1>4

(* The death of process q, whatever happens to the mutex it may hold, and  *)
(* to the log entries it was writing.                                      *)
LEMMA ProcessLost ==
    ASSUME TypeOK, SubscriptionInvariant, NEW q \in Processes,
           NEW torn \in SUBSET Writing(q),
           LoseProcess(q, [i \in Logs |-> IF i \in torn THEN "torn" ELSE refs[i]]),
           crashes' \in 0 .. MaxCrashes
    PROVE  TypeOK' /\ SubscriptionInvariant'
<1> USE SubscriptionAssumption, MutexAssumption
    DEF TypeOK, SubscriptionInvariant, NoLog, counterVars
<1>a. /\ active \in SUBSET Logs /\ marked \in SUBSET Logs
      /\ refs \in [Logs -> RefStates]
      /\ pc \in [Proxies -> ProxyStates]
      /\ idx \in [Proxies -> Logs \union {MaxSubscribers}]
      /\ todo \in [Proxies -> SUBSET Logs]
      /\ try \in [Proxies -> 0 .. 3 * MaxSubscribers - 1]
      /\ mutex \in Proxies \union {Free, Lost}
  BY DEF LogTypeOK, ProxyTypeOK
<1>b. ASSUME NEW r \in Proxies
      PROVE  /\ ProcessOf[r] = q =>
                    pc'[r] = "none" /\ idx'[r] = MaxSubscribers /\ todo'[r] = {} /\ try'[r] = 0
             /\ ProcessOf[r] # q =>
                    /\ pc'[r] = pc[r] /\ idx'[r] = idx[r] /\ todo'[r] = todo[r]
                    /\ try'[r] = try[r]
  BY DEF LoseProcess
<1>c. /\ UNCHANGED <<active, marked, owner, sub, count, counterVars>>
      /\ refs' = [i \in Logs |-> IF i \in torn THEN "torn" ELSE refs[i]]
      /\ prepared' = prepared \ {q}
  BY DEF LoseProcess
<1>d. ASSUME NEW i \in torn PROVE i \in active /\ owner[i] = q
  <2>1. PICK r \in Proxies : /\ ProcessOf[r] = q
                             /\ \/ pc[r] = "subscribed" /\ i = idx[r]
                                \/ pc[r] = "rollback" /\ i = First(todo[r])
    BY DEF Writing
  <2>2. CASE pc[r] = "subscribed" /\ i = idx[r]
    BY <2>1, <2>2 DEF LogFollowsProxy, LogsOwned, UsesLog
  <2>3. CASE pc[r] = "rollback" /\ i = First(todo[r])
    <3>1. i \in todo[r]
      BY <1>a, <2>3, FirstLog DEF LogsOwned
    <3> QED
      BY <2>1, <3>1 DEF LogsOwned
  <2> QED
    BY <2>1, <2>2, <2>3
<1>e. ASSUME NEW r \in Proxies, ProcessOf[r] # q,
             UsesLog(r) \/ (RollsBack(r) /\ pc[r] # "rollback")
      PROVE  idx[r] \in Logs /\ refs'[idx[r]] = refs[idx[r]]
  <2>1. idx[r] \in active /\ owner[idx[r]] # q
    BY <1>e DEF LogFollowsProxy, LogsOwned
  <2> QED
    BY <1>a, <1>c, <1>d, <2>1
<1>1. LogTypeOK' /\ CounterTypeOK'
  BY <1>a, <1>c DEF LogTypeOK, CounterTypeOK, RefStates
<1>2. ProxyTypeOK'
  <2>1. mutex' \in Proxies \union {Free, Lost}
    BY <1>a DEF LoseProcess
  <2>2. pc' \in [Proxies -> ProxyStates] /\ todo' \in [Proxies -> SUBSET Logs]
    BY <1>a DEF LoseProcess, ProxyStates
  <2>3. idx' \in [Proxies -> Logs \union {MaxSubscribers}]
    BY <1>a DEF LoseProcess
  <2>4. try' \in [Proxies -> 0 .. 3 * MaxSubscribers - 1]
    BY <1>a DEF LoseProcess
  <2> QED
    BY <1>c, <2>1, <2>2, <2>3, <2>4 DEF ProxyTypeOK
<1>3. CounterExact'
  BY <1>c DEF CounterExact
<1>4. CountedLogs'
  BY <1>c, <1>d DEF CountedLogs
<1>5. LogFollowsProxy'
  BY <1>b, <1>c, <1>e DEF LogFollowsProxy, UsesLog, RollsBack
<1>6. LogsOwned'
  BY <1>a, <1>b, <1>c DEF LogsOwned, UsesLog, RollsBack
<1>7. MutexHeld'
  <2> SUFFICES ASSUME NEW r \in Proxies PROVE RollsBack(r)' <=> mutex' = r
    BY DEF MutexHeld
  <2>1. CASE ProcessOf[r] = q
    <3>1. ~RollsBack(r)'
      BY <1>b, <2>1 DEF RollsBack
    <3>2. mutex' # r
      BY <2>1 DEF LoseProcess
    <3> QED
      BY <3>1, <3>2
  <2>2. CASE ProcessOf[r] # q
    <3>1. RollsBack(r)' <=> RollsBack(r)
      BY <1>b, <2>2 DEF RollsBack
    <3>2. mutex' = r <=> mutex = r
      BY <2>2 DEF LoseProcess, InCriticalSection
    <3> QED
      BY <3>1, <3>2 DEF MutexHeld
  <2> QED
    BY <2>1, <2>2
<1> QED
  BY <1>1, <1>2, <1>3, <1>4, <1>5, <1>6, <1>7

(* Unsubscribing and unregistering may end the process; the logs and the   *)
(* counter are left as the rollback of its successor expects them.         *)
LEMMA TerminatingSteps ==
    ASSUME TypeOK, SubscriptionInvariant, NEW p \in Proxies,
           UnsubscribeRetry(p) \/ Unregister(p)
    PROVE  TypeOK' /\ SubscriptionInvariant'
<1> USE SubscriptionAssumption, MutexAssumption
    DEF NoLog, logVars, counterVars, procVars
<1>a. /\ ProcessOf[p] \in Processes /\ crashes' \in 0 .. MaxCrashes
  BY DEF UnsubscribeRetry, Unregister, TypeOK, CounterTypeOK
<1>b. [i \in Logs |-> IF i \in {} THEN "torn" ELSE refs[i]] = refs
  BY DEF TypeOK, LogTypeOK
<1>c. ASSUME LoseProcess(ProcessOf[p], refs)
      PROVE  TypeOK' /\ SubscriptionInvariant'
  <2> DEFINE torn == {}
  <2>1. torn \in SUBSET Writing(ProcessOf[p])
    OBVIOUS
  <2>2. LoseProcess(ProcessOf[p], [i \in Logs |-> IF i \in torn THEN "torn" ELSE refs[i]])
    BY <1>b, <1>c
  <2> HIDE DEF torn
  <2> QED
    BY <1>a, <2>1, <2>2, ProcessLost
<1>d. /\ active \in SUBSET Logs /\ marked \in SUBSET Logs
      /\ pc \in [Proxies -> ProxyStates]
      /\ idx \in [Proxies -> Logs \union {MaxSubscribers}]
      /\ try \in [Proxies -> 0 .. 3 * MaxSubscribers - 1]
  BY DEF TypeOK, LogTypeOK, ProxyTypeOK
<1>1. CASE UnsubscribeRetry(p) /\ try[p] + 1 < 3 * MaxSubscribers
  <2>1. /\ UNCHANGED <<active, marked, owner, sub, count, refs, subscribers, samples,
                       counted, mutex, prepared, pc, idx, todo, crashes>>
        /\ try' = [try EXCEPT ![p] = @ + 1]
    BY <1>1 DEF UnsubscribeRetry
  <2>2. try' \in [Proxies -> 0 .. 3 * MaxSubscribers - 1]
    BY <1>1, <1>d, <2>1
  <2>3. TypeOK'
    BY <2>1, <2>2 DEF TypeOK, LogTypeOK, CounterTypeOK, ProxyTypeOK
  <2>4. SubscriptionInvariant'
    BY <2>1 DEF SubscriptionInvariant, CounterExact, CountedLogs, LogFollowsProxy,
                LogsOwned, MutexHeld, UsesLog, RollsBack
  <2> QED
    BY <2>3, <2>4
<1>2. CASE Unregister(p) /\ refs[idx[p]] = "none"
  <2>1. /\ active' = active \ {idx[p]} /\ marked' = marked \ {idx[p]}
        /\ pc' = [pc EXCEPT ![p] = "created"] /\ idx' = [idx EXCEPT ![p] = MaxSubscribers]
        /\ UNCHANGED <<owner, sub, count, refs, subscribers, samples, counted, mutex,
                       prepared, todo, try, crashes>>
        /\ pc[p] = "unregister" /\ mutex = Free
    BY <1>2 DEF Unregister
  <2>2. TypeOK'
    BY <1>d, <2>1 DEF TypeOK, LogTypeOK, CounterTypeOK, ProxyTypeOK, ProxyStates
  <2>3. CounterExact' /\ CountedLogs'
    BY <1>2, <2>1 DEF SubscriptionInvariant, CounterExact, CountedLogs, LogFollowsProxy
  <2>4. \A r \in Proxies : ~RollsBack(r) /\ todo[r] = {}
    BY <2>1 DEF SubscriptionInvariant, MutexHeld, LogsOwned, RollsBack
  <2>5. LogFollowsProxy'
    BY <1>d, <2>1, <2>4
       DEF SubscriptionInvariant, LogFollowsProxy, LogsOwned, UsesLog, RollsBack
  <2>6. LogsOwned'
    BY <1>d, <2>1, <2>4 DEF SubscriptionInvariant, LogsOwned, UsesLog, RollsBack
  <2>7. MutexHeld'
    BY <1>d, <2>1 DEF SubscriptionInvariant, MutexHeld, RollsBack
  <2> QED
    BY <2>2, <2>3, <2>5, <2>6, <2>7 DEF SubscriptionInvariant
<1> QED
  BY <1>c, <1>1, <1>2 DEF UnsubscribeRetry, Unregister

(* Logs, counter, mutex and proxies agree after every step of the system.  *)
LEMMA Inductive ==
    ASSUME TypeOK, SubscriptionInvariant, [Next]_vars
    PROVE  TypeOK' /\ SubscriptionInvariant'
<1>1. CASE UNCHANGED vars
  <2> USE <1>1 DEF vars, logVars, counterVars, procVars, proxyVars
  <2>1. TypeOK'
    BY DEF TypeOK, LogTypeOK, CounterTypeOK, ProxyTypeOK
  <2>2. SubscriptionInvariant'
    BY DEF SubscriptionInvariant, CounterExact, CountedLogs, LogFollowsProxy,
           LogsOwned, MutexHeld, UsesLog, RollsBack
  <2> QED
    BY <2>1, <2>2
<1>2. ASSUME NEW p \in Proxies, ProxyStep(p) PROVE TypeOK' /\ SubscriptionInvariant'
  BY <1>2, RollbackSteps, SubscribeSteps, UnsubscribeSteps, TerminatingSteps
     DEF ProxyStep
<1>3. ASSUME NEW q \in Processes, Crash(q) PROVE TypeOK' /\ SubscriptionInvariant'
  <2>1. crashes' \in 0 .. MaxCrashes
    BY <1>3, SubscriptionAssumption DEF Crash, TypeOK, CounterTypeOK
  <2>2. PICK torn \in SUBSET Writing(q) :
          LoseProcess(q, [i \in Logs |-> IF i \in torn THEN "torn" ELSE refs[i]])
    BY <1>3 DEF Crash
  <2> QED
    BY <2>1, <2>2, ProcessLost
<1> QED
  BY <1>1, <1>2, <1>3 DEF Next

-----------------------------------------------------------------------------
(* Types, and the agreement of counter, logs and proxies, at every step    *)
(* and after every crash.                                                  *)
THEOREM SubscriptionsCorrect == Spec => [](TypeOK /\ SubscriptionInvariant)
<1>1. TypeOK /\ SubscriptionInvariant /\ [Next]_vars => (TypeOK /\ SubscriptionInvariant)'
  BY Inductive
<1> QED
  BY <1>1, InitOK, PTL DEF Spec

(* The assertion of SubscribeEvent never fails: the counter has room for   *)
(* every proxy that was given a log.                                       *)
THEOREM CounterHasRoom == Spec => []NoSubscriberOverflow
<1>1. ASSUME TypeOK, SubscriptionInvariant PROVE NoSubscriberOverflow
  <2> SUFFICES ASSUME NEW p \in Proxies, pc[p] = "subscribe"
               PROVE  subscribers < MaxSubscribers
    BY DEF NoSubscriberOverflow
  <2>1. idx[p] \in Logs \ counted /\ counted \in SUBSET Logs
    BY <1>1 DEF TypeOK, LogTypeOK, CounterTypeOK, SubscriptionInvariant, LogFollowsProxy,
                UsesLog
  <2> QED
    BY <1>1, <2>1, LogCount DEF SubscriptionInvariant, CounterExact
<1> QED
  BY <1>1, SubscriptionsCorrect, PTL

(* No rollback touches the log of a live proxy, and no two proxies share   *)
(* one, however many proxies of one process are created at the same time.  *)
THEOREM LogsSafe == Spec => []LiveLogsSafe
<1>1. ASSUME TypeOK, SubscriptionInvariant PROVE LiveLogsSafe
  <2> SUFFICES ASSUME NEW p \in Proxies, UsesLog(p)
               PROVE  /\ idx[p] \in active \ marked
                      /\ owner[idx[p]] = ProcessOf[p]
                      /\ \A r \in Proxies \ {p} :
                            /\ UsesLog(r) \/ WithdrawsLog(r) => idx[r] # idx[p]
                            /\ idx[p] \notin todo[r]
    BY DEF LiveLogsSafe
  <2>1. idx[p] \in active \ marked /\ owner[idx[p]] = ProcessOf[p]
    BY <1>1 DEF SubscriptionInvariant, LogFollowsProxy, LogsOwned
  <2>2. ASSUME NEW r \in Proxies \ {p}
        PROVE  /\ UsesLog(r) \/ WithdrawsLog(r) => idx[r] # idx[p]
               /\ idx[p] \notin todo[r]
    BY <1>1, <2>1 DEF SubscriptionInvariant, LogsOwned, WithdrawsLog, RollsBack
  <2> QED
    BY <2>1, <2>2
<1> QED
  BY <1>1, SubscriptionsCorrect, PTL

(* The assertions of RegisterProxyElement and Reset never fail.            *)
THEOREM LogsEmptyWhenReused == Spec => []EmptyLogsReused
<1>1. ASSUME TypeOK, SubscriptionInvariant PROVE EmptyLogsReused
  BY <1>1 DEF EmptyLogsReused, SubscriptionInvariant, CountedLogs, LogFollowsProxy
<1> QED
  BY <1>1, SubscriptionsCorrect, PTL

-----------------------------------------------------------------------------
(* A process with one proxy.                                               *)

(* A step that gives the process no log, no proxy of it a new place and    *)
(* none of its logs an unmarked state.                                     *)
LEMMA LoneKept ==
    ASSUME NEW p \in Proxies, LoneLog(p), pc'[p] = pc[p],
           \A i \in active' : owner'[i] = ProcessOf[p] =>
               i \in active /\ owner[i] = ProcessOf[p] /\ (i \in marked => i \in marked'),
           ProcessOf[p] \in prepared' => ProcessOf[p] \in prepared
    PROVE  LoneLog(p)'
<1> DEFINE M == {i \in active : owner[i] = ProcessOf[p]}
           N == {i \in active' : owner'[i] = ProcessOf[p]}
<1>1. N \subseteq M /\ \A i \in N : i \in marked => i \in marked'
  OBVIOUS
<1>2. /\ \A i, j \in M : i = j
      /\ pc[p] = "created" => M = {}
      /\ pc[p] = "prepared" \/ (pc[p] = "none" /\ ProcessOf[p] \in prepared) => M \subseteq marked
  BY DEF LoneLog
<1> HIDE DEF M, N
<1>3. /\ \A i, j \in N : i = j
      /\ pc'[p] = "created" => N = {}
      /\ pc'[p] = "prepared" \/ (pc'[p] = "none" /\ ProcessOf[p] \in prepared')
            => N \subseteq marked'
  BY <1>1, <1>2
<1> QED
  BY <1>3 DEF LoneLog, N

(* A process that dies keeps its logs and is not prepared any more.        *)
LEMMA LoneLost ==
    ASSUME TypeOK, NEW p \in Proxies, LoneLog(p), NEW q \in Processes, NEW f, LoseProcess(q, f)
    PROVE  LoneLog(p)'
<1>1. /\ active' = active /\ marked' = marked /\ owner' = owner /\ prepared' = prepared \ {q}
      /\ pc'[p] = IF ProcessOf[p] = q THEN "none" ELSE pc[p]
  BY DEF LoseProcess
<1>2. CASE ProcessOf[p] = q
  BY <1>1, <1>2 DEF LoneLog
<1>3. CASE ProcessOf[p] # q
  BY <1>1, <1>3, LoneKept
<1> QED
  BY <1>2, <1>3

(* A step of a proxy in another process.                                   *)
LEMMA LoneOther ==
    ASSUME TypeOK, SubscriptionInvariant, NEW p \in Proxies, LoneLog(p),
           NEW r \in Proxies, ProcessOf[r] # ProcessOf[p], ProxyStep(r)
    PROVE  LoneLog(p)'
<1> USE SubscriptionAssumption
<1>0. pc \in [Proxies -> ProxyStates] /\ r # p /\ ProcessOf[r] \in Processes
      /\ owner \in [Logs -> Processes \union {Nobody}]
  BY DEF TypeOK, ProxyTypeOK, LogTypeOK
<1>1. CASE UNCHANGED <<active, owner, marked, prepared>> /\ pc'[p] = pc[p]
  BY <1>1, LoneKept
<1>2. CASE PrepareRollback(r)
  <2>1. /\ active' = active /\ owner' = owner /\ marked \subseteq marked'
        /\ prepared' = prepared \union {ProcessOf[r]} /\ pc'[p] = pc[p]
    BY <1>0, <1>2 DEF PrepareRollback
  <2> QED
    BY <2>1, LoneKept
<1>3. CASE \E i \in Logs : /\ active' = active \ {i} /\ marked' = marked \ {i}
                           /\ UNCHANGED <<owner, prepared>> /\ pc'[p] = pc[p]
  BY <1>3, LoneKept
<1>4. CASE RegisterProxyElement(r)
  <2> DEFINE i == First(Logs \ active)
  <2>1. /\ owner' = [owner EXCEPT ![i] = ProcessOf[r]]
        /\ active' = active \union {i} /\ marked' = marked \ {i}
        /\ prepared' = prepared /\ pc'[p] = pc[p]
    BY <1>0, <1>4 DEF RegisterProxyElement, procVars
  <2>2. i \in Logs
    BY <1>4, FirstLog DEF RegisterProxyElement
  <2> HIDE DEF i
  <2>3. owner'[i] = ProcessOf[r] /\ \A j \in Logs \ {i} : owner'[j] = owner[j]
    BY <1>0, <2>1, <2>2
  <2>4. active \in SUBSET Logs
    BY DEF TypeOK, LogTypeOK
  <2> QED
    BY <2>1, <2>2, <2>3, <2>4, LoneKept
<1>5. CASE UnsubscribeRetry(r) \/ Unregister(r)
  <2>1. CASE \E f : LoseProcess(ProcessOf[r], f)
    BY <1>0, <2>1, LoneLost
  <2>2. CASE ~\E f : LoseProcess(ProcessOf[r], f)
    <3>1. CASE UnsubscribeRetry(r)
      BY <2>2, <3>1, <1>1 DEF UnsubscribeRetry, logVars, procVars
    <3>2. CASE Unregister(r)
      <4>1. /\ active' = active \ {idx[r]} /\ marked' = marked \ {idx[r]}
            /\ UNCHANGED <<owner, prepared>> /\ pc' = [pc EXCEPT ![r] = "created"]
        BY <2>2, <3>2 DEF Unregister, procVars
      <4>2. pc'[p] = pc[p]
        BY <1>0, <4>1
      <4> QED
        BY <4>1, <4>2, LoneKept
    <3> QED
      BY <1>5, <3>1, <3>2
  <2> QED
    BY <2>1, <2>2
<1>6. CASE Reset(r)
  <2>1. /\ active' = active \ {idx[r]} /\ marked' = marked \ {idx[r]}
        /\ UNCHANGED <<owner, prepared>> /\ pc'[p] = pc[p]
    BY <1>0, <1>6 DEF Reset
  <2> QED
    BY <2>1, LoneKept
<1>7. CASE \/ RollbackProxyTransactions(r) \/ RollbackFails(r) \/ RollbackProxyElementLog(r)
           \/ SubscribeTransactionBegin(r) \/ Subscribe(r) \/ SubscribeRetry(r)
           \/ SubscribeRejected(r) \/ SubscribeTransactionAbort(r)
           \/ SubscribeTransactionCommit(r) \/ UseSamples(r) \/ UnsubscribeTransactionBegin(r)
           \/ Unsubscribe(r) \/ UnsubscribeTransactionCommit(r) \/ Destroy(r)
  <2>1. UNCHANGED <<active, owner, marked, prepared>>
    BY <1>7 DEF RollbackProxyTransactions, RollbackFails, RollbackProxyElementLog,
       SubscribeTransactionBegin, Subscribe, SubscribeRetry, SubscribeRejected,
       SubscribeTransactionAbort, SubscribeTransactionCommit, UseSamples,
       UnsubscribeTransactionBegin, Unsubscribe, UnsubscribeTransactionCommit, Destroy,
       logVars, procVars
  <2>2. pc'[p] = pc[p]
    BY <1>0, <1>7 DEF RollbackProxyTransactions, RollbackFails, RollbackProxyElementLog,
       SubscribeTransactionBegin, Subscribe, SubscribeRetry, SubscribeRejected,
       SubscribeTransactionAbort, SubscribeTransactionCommit, UseSamples,
       UnsubscribeTransactionBegin, Unsubscribe, UnsubscribeTransactionCommit, Destroy, proxyVars
  <2> QED
    BY <1>1, <2>1, <2>2
<1> QED
  BY <1>2, <1>4, <1>5, <1>6, <1>7 DEF ProxyStep

(* A step of the proxy itself: its log is the one that is marked, rolled   *)
(* back, reset, registered and used.                                       *)
LEMMA LoneOwn ==
    ASSUME TypeOK, SubscriptionInvariant, NEW p \in Proxies, LoneLog(p), ProxyStep(p)
    PROVE  LoneLog(p)'
<1> USE SubscriptionAssumption
<1> DEFINE q == ProcessOf[p]
           mine == {i \in active : owner[i] = q}
<1>0. /\ pc \in [Proxies -> ProxyStates] /\ q \in Processes
      /\ owner \in [Logs -> Processes \union {Nobody}] /\ active \in SUBSET Logs
  BY DEF TypeOK, ProxyTypeOK, LogTypeOK
<1>1. /\ \A i, j \in mine : i = j
      /\ pc[p] = "created" => mine = {}
      /\ pc[p] = "prepared" \/ (pc[p] = "none" /\ q \in prepared) => mine \subseteq marked
  BY DEF LoneLog
<1>2. CASE PrepareRollback(p)
  <2>1. /\ active' = active /\ owner' = owner /\ pc[p] = "none"
        /\ pc' = [pc EXCEPT ![p] = "prepared"]
        /\ marked' = IF q \in prepared THEN marked ELSE marked \union mine
    BY <1>2 DEF PrepareRollback
  <2>2. mine \subseteq marked' /\ pc'[p] = "prepared"
    BY <1>0, <1>1, <2>1
  <2> QED
    BY <1>1, <2>1, <2>2 DEF LoneLog
<1>3. CASE RollbackProxyTransactions(p)
  <2>1. UNCHANGED <<active, owner, marked>> /\ pc[p] = "prepared"
    BY <1>3 DEF RollbackProxyTransactions, logVars
  <2>2. \/ LogsToRollBack(q) = {} /\ pc'[p] = "created"
        \/ pc'[p] = "rollback"
    BY <1>0, <1>3 DEF RollbackProxyTransactions
  <2>3. pc'[p] = "created" => mine = {}
    BY <1>1, <2>1, <2>2 DEF LogsToRollBack
  <2> QED
    BY <1>1, <2>1, <2>2, <2>3 DEF LoneLog
<1>4. CASE RollbackFails(p)
  <2>1. UNCHANGED <<active, owner, marked>> /\ pc[p] = "rollback"
        /\ pc'[p] \in {"none", "rollback"}
    BY <1>0, <1>4 DEF RollbackFails
  <2>2. PICK i \in todo[p] : i \in active /\ i \in marked /\ owner[i] = q
    BY <2>1 DEF SubscriptionInvariant, LogsOwned
  <2>3. mine \subseteq marked
    BY <1>1, <2>2
  <2> QED
    BY <1>1, <2>1, <2>3 DEF LoneLog
<1>5. CASE Reset(p) \/ (Unregister(p) /\ refs[idx[p]] = "none")
  <2>1. /\ active' = active \ {idx[p]} /\ owner' = owner
        /\ pc' = [pc EXCEPT ![p] = "created"] /\ pc[p] \in {"reset", "unregister"}
    BY <1>5 DEF Reset, Unregister
  <2>2. idx[p] \in mine
    BY <2>1 DEF SubscriptionInvariant, LogFollowsProxy, LogsOwned, UsesLog, RollsBack
  <2>3. {i \in active' : owner'[i] = q} = {}
    BY <1>1, <2>1, <2>2
  <2>4. pc'[p] = "created"
    BY <1>0, <2>1
  <2> QED
    BY <2>3, <2>4 DEF LoneLog
<1>6. CASE RegisterProxyElement(p)
  <2> DEFINE i == First(Logs \ active)
  <2>1. /\ owner' = [owner EXCEPT ![i] = q] /\ active' = active \union {i}
        /\ pc[p] = "created" /\ pc' = [pc EXCEPT ![p] = "registered"]
    BY <1>6 DEF RegisterProxyElement
  <2>2. i \in Logs \ active
    BY <1>6, FirstLog DEF RegisterProxyElement
  <2> HIDE DEF i
  <2>3. \A j \in active' : owner'[j] = q => j = i
    BY <1>0, <1>1, <2>1, <2>2
  <2>4. pc'[p] = "registered"
    BY <1>0, <2>1
  <2> QED
    BY <2>3, <2>4 DEF LoneLog
<1>7. CASE UnsubscribeRetry(p) \/ (Unregister(p) /\ refs[idx[p]] # "none")
  <2>1. CASE LoseProcess(q, refs)
    BY <1>0, <2>1, LoneLost
  <2>2. CASE ~LoseProcess(q, refs)
    <3>1. UNCHANGED <<active, marked, owner, prepared, pc>>
      BY <1>7, <2>2 DEF UnsubscribeRetry, Unregister, logVars, procVars
    <3> QED
      BY <3>1, LoneKept
  <2> QED
    BY <2>1, <2>2
<1>8. CASE \/ RollbackProxyElementLog(p) \/ SubscribeTransactionBegin(p) \/ Subscribe(p)
           \/ SubscribeRetry(p) \/ SubscribeRejected(p) \/ SubscribeTransactionAbort(p)
           \/ SubscribeTransactionCommit(p) \/ UseSamples(p) \/ UnsubscribeTransactionBegin(p)
           \/ Unsubscribe(p) \/ UnsubscribeTransactionCommit(p)
  <2>1. UNCHANGED <<active, owner>>
    BY <1>8 DEF RollbackProxyElementLog, SubscribeTransactionBegin, Subscribe, SubscribeRetry,
       SubscribeRejected, SubscribeTransactionAbort, SubscribeTransactionCommit, UseSamples,
       UnsubscribeTransactionBegin, Unsubscribe, UnsubscribeTransactionCommit, logVars
  <2>2. pc'[p] \notin {"none", "prepared", "created"}
    BY <1>0, <1>8 DEF RollbackProxyElementLog, SubscribeTransactionBegin, Subscribe,
       SubscribeRetry, SubscribeRejected, SubscribeTransactionAbort, SubscribeTransactionCommit,
       UseSamples, UnsubscribeTransactionBegin, Unsubscribe, UnsubscribeTransactionCommit,
       proxyVars
  <2> QED
    BY <1>1, <2>1, <2>2 DEF LoneLog
<1>9. CASE Destroy(p)
  <2>1. UNCHANGED <<active, owner, marked>> /\ pc[p] = "created" /\ pc'[p] = "none"
    BY <1>0, <1>9 DEF Destroy, logVars
  <2> QED
    BY <1>1, <2>1 DEF LoneLog
<1> QED
  BY <1>2, <1>3, <1>4, <1>5, <1>6, <1>7, <1>8, <1>9 DEF ProxyStep

(* Every step, of any proxy and of a crash, keeps LoneLogs.                *)
LEMMA LoneStep ==
    ASSUME TypeOK, SubscriptionInvariant, LoneLogs, [Next]_vars
    PROVE  LoneLogs'
<1> SUFFICES ASSUME NEW p \in Proxies, Alone(p) PROVE LoneLog(p)'
  BY DEF LoneLogs, Alone
<1>1. LoneLog(p)
  BY DEF LoneLogs
<1>2. CASE \E r \in Proxies : ProxyStep(r)
  BY <1>1, <1>2, LoneOwn, LoneOther DEF Alone
<1>3. CASE \E q \in Processes : Crash(q)
  BY <1>1, <1>3, LoneLost DEF Crash
<1>4. CASE UNCHANGED vars
  BY <1>1, <1>4, LoneKept DEF vars, logVars, procVars, proxyVars
<1> QED
  BY <1>2, <1>3, <1>4 DEF Next

(* In a process with one proxy, Proxy::Create leaves no log of a crashed   *)
(* predecessor: it is rolled back, or the creation fails and is repeated   *)
(* with the log still marked.                                              *)
THEOREM SingleCreationsAreComplete == Spec => []SingleCreationLeavesNoOldLog
<1>1. Init => LoneLogs
  BY DEF Init, LoneLogs, LoneLog
<1>2. ASSUME TypeOK, SubscriptionInvariant, LoneLogs PROVE SingleCreationLeavesNoOldLog
  <2> SUFFICES ASSUME NEW p \in Proxies, Alone(p), OldLogLeft(p) PROVE FALSE
    BY DEF SingleCreationLeavesNoOldLog
  <2>1. LoneLog(p)
    BY <1>2 DEF LoneLogs
  <2>2. PICK i \in active \intersect marked : owner[i] = ProcessOf[p]
    BY DEF OldLogLeft, LogsToRollBack
  <2>3. pc[p] # "created"
    BY <2>1, <2>2 DEF LoneLog
  <2>4. UsesLog(p)
    BY <2>3 DEF OldLogLeft
  <2>5. idx[p] \in active /\ idx[p] \notin marked /\ owner[idx[p]] = ProcessOf[p]
    BY <1>2, <2>4 DEF SubscriptionInvariant, LogFollowsProxy, LogsOwned
  <2> QED
    BY <2>1, <2>2, <2>5 DEF LoneLog
<1> QED
  BY <1>1, <1>2, LoneStep, SubscriptionsCorrect, PTL DEF Spec

-----------------------------------------------------------------------------
(* The samples of the subscriptions.  A sum is a number of units.          *)

(* The fold of the sum, written out.                                       *)
LEMMA TotalUnfolds ==
    ASSUME NEW f, NEW S
    PROVE  TotalOf(f, S)
             = (CHOOSE g : g = [s \in SUBSET S |->
                    IF s = {} THEN 0
                    ELSE f[CHOOSE x \in s : TRUE] + g[s \ {CHOOSE x \in s : TRUE}]])[S]
BY DEF TotalOf, MapThenSumSet, MapThenFoldSet

(* An element has as many units as f gives it.                             *)
LEMMA UnitsOfOne ==
    ASSUME NEW x, NEW n \in Nat
    PROVE  IsFiniteSet({x} \X (1 .. n)) /\ Cardinality({x} \X (1 .. n)) = n
<1>1. IsFiniteSet({x}) /\ Cardinality({x}) = 1
  BY FS_Singleton
<1>2. IsFiniteSet(1 .. n) /\ Cardinality(1 .. n) = n
  BY FS_Interval
<1>3. /\ IsFiniteSet({x} \X (1 .. n))
      /\ Cardinality({x} \X (1 .. n)) = Cardinality({x}) * Cardinality(1 .. n)
  BY <1>1, <1>2, FS_Product
<1>4. 1 * n = n
  OBVIOUS
<1> QED
  BY <1>1, <1>2, <1>3, <1>4

(* Finitely many elements have finitely many units.                        *)
LEMMA UnitsFinite ==
    ASSUME NEW S, IsFiniteSet(S), NEW f, \A x \in S : f[x] \in Nat
    PROVE  IsFiniteSet(Units(f, S)) /\ Cardinality(Units(f, S)) \in Nat
<1> DEFINE part == [x \in S |-> {x} \X (1 .. f[x])]
           parts == {{x} \X (1 .. f[x]) : x \in S}
<1>1. part \in Surjection(S, parts)
  BY DEF Surjection
<1>2. IsFiniteSet(parts)
  BY <1>1, FS_Surjection
<1>3. ASSUME NEW x \in S PROVE IsFiniteSet({x} \X (1 .. f[x]))
  BY UnitsOfOne
<1>4. IsFiniteSet(UNION parts)
  BY <1>2, <1>3, FS_UNION
<1> QED
  BY <1>4, FS_CardinalityType DEF Units

(* The units of an element are none of the others'.                        *)
LEMMA UnitsSplit ==
    ASSUME NEW S, IsFiniteSet(S), NEW f, \A x \in S : f[x] \in Nat, NEW y \in S
    PROVE  Cardinality(Units(f, S)) = f[y] + Cardinality(Units(f, S \ {y}))
<1> DEFINE one == {y} \X (1 .. f[y])
           rest == Units(f, S \ {y})
<1>1. Units(f, S) = one \union rest
  BY DEF Units
<1>2. one \intersect rest = {}
  BY DEF Units
<1>3. IsFiniteSet(one) /\ Cardinality(one) = f[y]
  BY UnitsOfOne
<1>4. IsFiniteSet(S \ {y})
  BY FS_RemoveElement
<1>5. IsFiniteSet(rest) /\ Cardinality(rest) \in Nat
  BY <1>4, UnitsFinite
<1> HIDE DEF one, rest
<1>6. Cardinality(one \union rest) = Cardinality(one) + Cardinality(rest) - Cardinality({})
  BY <1>2, <1>3, <1>5, FS_Union
<1>7. Cardinality({}) = 0
  BY FS_EmptySet
<1> QED
  BY <1>1, <1>3, <1>5, <1>6, <1>7 DEF rest

(* Nothing has no units.                                                   *)
LEMMA UnitsOfNone == \A f : Cardinality(Units(f, {})) = 0
BY FS_EmptySet DEF Units

(* Units depend on what f gives to the elements only.                      *)
LEMMA UnitsSame ==
    ASSUME NEW S, NEW f, NEW g, \A x \in S : f[x] = g[x]
    PROVE  Units(f, S) = Units(g, S)
BY DEF Units

(* The sum is the number of the units: a smallest set with another sum     *)
(* would have an element without which the sum is right.                   *)
LEMMA TotalCountsUnits ==
    ASSUME NEW S, IsFiniteSet(S), NEW f, \A x \in S : f[x] \in Nat
    PROVE  TotalOf(f, S) = Cardinality(Units(f, S))
<1> DEFINE Any(s) == CHOOSE x \in s : TRUE
           Sums(g) == g = [s \in SUBSET S |-> IF s = {} THEN 0
                                             ELSE f[Any(s)] + g[s \ {Any(s)}]]
           u == [s \in SUBSET S |-> Cardinality(Units(f, s))]
<1>1. \A s \in SUBSET S : /\ IsFiniteSet(s)
                          /\ s # {} => /\ Any(s) \in s /\ s \ {Any(s)} \in SUBSET S
                                       /\ u[s] = f[Any(s)] + u[s \ {Any(s)}]
  <2> TAKE s \in SUBSET S
  <2>1. IsFiniteSet(s)
    BY FS_Subset
  <2>2. ASSUME s # {} PROVE Any(s) \in s /\ s \ {Any(s)} \in SUBSET S
    BY <2>2
  <2> HIDE DEF Any
  <2>3. ASSUME s # {} PROVE u[s] = f[Any(s)] + u[s \ {Any(s)}]
    BY <2>1, <2>2, <2>3, UnitsSplit
  <2> QED
    BY <2>1, <2>2, <2>3
<1>2. u[{}] = 0
  BY UnitsOfNone
<1> HIDE DEF Any
<1>3. Sums(u)
  <2>1. u = [s \in SUBSET S |-> u[s]]
    OBVIOUS
  <2>2. \A s \in SUBSET S : u[s] = IF s = {} THEN 0 ELSE f[Any(s)] + u[s \ {Any(s)}]
    BY <1>1, <1>2
  <2> HIDE DEF u
  <2> QED
    BY <2>1, <2>2
<1>4. ASSUME NEW g, Sums(g) PROVE g[S] = u[S]
  <2> DEFINE wrong == {s \in SUBSET S : g[s] # u[s]}
  <2>0. \A s \in SUBSET S : g[s] = IF s = {} THEN 0 ELSE f[Any(s)] + g[s \ {Any(s)}]
    BY <1>4
  <2>1. SUFFICES ASSUME wrong # {} PROVE FALSE
    OBVIOUS
  <2>2. wrong \subseteq FiniteSubsetsOf(S)
    BY <1>1 DEF FiniteSubsetsOf
  <2>3. PICK s \in wrong : \A t \in wrong : <<t, s>> \notin StrictSubsetOrdering(S)
    BY <2>1, <2>2, FS_StrictSubsetOrderingWellFounded, WFMin
  <2>4. s # {}
    BY <1>2, <2>0
  <2> DEFINE t == s \ {Any(s)}
  <2>5. t \in SUBSET S /\ t \subseteq s /\ t # s
    BY <1>1, <2>4
  <2>6. g[t] = u[t]
    BY <2>3, <2>5 DEF StrictSubsetOrdering
  <2> QED
    BY <1>1, <2>0, <2>4, <2>6
<1>5. Sums(CHOOSE g : Sums(g))
  BY <1>3
<1>6. (CHOOSE g : Sums(g))[S] = u[S]
  BY <1>4, <1>5
<1>7. TotalOf(f, S) = (CHOOSE g : Sums(g))[S]
  BY TotalUnfolds DEF Any
<1> QED
  BY <1>6, <1>7

(* Proxies whose subscription is recorded or is about to be.               *)
Subscribing == {"subscribe", "subscribeCommit", "subscribed", "unsubscribe"}

(* Steps that leave the counter and what is recorded as they are.          *)
LEMMA SamplesKept ==
    ASSUME SamplesInvariant, UNCHANGED <<samples, counted, count>>,
           \A p \in Proxies : pc'[p] \in Subscribing => pc[p] \in Subscribing /\ idx'[p] = idx[p]
    PROVE  SamplesInvariant'
<1>1. Units(count, counted)' = Units(count, counted)
  BY DEF Units
<1> QED
  BY <1>1 DEF SamplesInvariant, Subscribing

(* A log that is not counted records other samples.                        *)
LEMMA SamplesRecorded ==
    ASSUME TypeOK, SamplesInvariant, NEW i \in Logs, i \notin counted, NEW n \in Nat,
           count' = [count EXCEPT ![i] = n], UNCHANGED <<samples, counted>>,
           \A p \in Proxies : pc'[p] \in Subscribing =>
               \/ pc[p] \in Subscribing /\ idx'[p] = idx[p] /\ idx[p] \in Logs \ {i}
               \/ idx'[p] = i /\ n = SampleCount[p]
    PROVE  SamplesInvariant'
<1>1. count \in [Logs -> Nat] /\ counted \subseteq Logs
  BY DEF TypeOK, LogTypeOK, CounterTypeOK
<1>2. count'[i] = n /\ \A j \in Logs \ {i} : count'[j] = count[j]
  BY <1>1
<1>3. Units(count', counted') = Units(count, counted)
  BY <1>1, <1>2, UnitsSame
<1>4. Units(count, counted)' = Units(count', counted')
  BY DEF Units
<1> QED
  BY <1>2, <1>3, <1>4 DEF SamplesInvariant, Subscribing

(* Every step keeps the samples in the counter what the logs record.       *)
LEMMA SamplesStep ==
    ASSUME TypeOK, SubscriptionInvariant, SamplesInvariant, [Next]_vars
    PROVE  SamplesInvariant'
<1> USE SubscriptionAssumption
<1>0. /\ pc \in [Proxies -> ProxyStates] /\ idx \in [Proxies -> Logs \union {NoLog}]
      /\ count \in [Logs -> Nat] /\ counted \in SUBSET Logs /\ NoLog \notin Logs
      /\ IsFiniteSet(counted) /\ active \in SUBSET Logs
  <2>1. counted \in SUBSET Logs
    BY DEF TypeOK, CounterTypeOK
  <2> QED
    BY <2>1, LogCount DEF TypeOK, LogTypeOK, ProxyTypeOK, NoLog, Logs
<1>1. CASE UNCHANGED vars
  BY <1>1, SamplesKept DEF vars, logVars, counterVars, proxyVars
<1>2. ASSUME NEW q \in Processes, NEW f, LoseProcess(q, f) PROVE SamplesInvariant'
  <2>1. UNCHANGED <<samples, counted, count>>
    BY <1>2 DEF LoseProcess, counterVars
  <2>2. \A p \in Proxies : pc'[p] \in Subscribing => pc[p] \in Subscribing /\ idx'[p] = idx[p]
    BY <1>2 DEF LoseProcess, Subscribing
  <2> QED
    BY <2>1, <2>2, SamplesKept
<1>3. ASSUME NEW q \in Processes, Crash(q) PROVE SamplesInvariant'
  BY <1>2, <1>3 DEF Crash
<1>4. ASSUME NEW p \in Proxies,
             \/ PrepareRollback(p) \/ RollbackProxyTransactions(p) \/ RollbackFails(p)
             \/ RollbackProxyElementLog(p) \/ Reset(p) \/ RegisterProxyElement(p)
             \/ SubscribeRetry(p) \/ SubscribeRejected(p) \/ SubscribeTransactionAbort(p)
             \/ SubscribeTransactionCommit(p) \/ UseSamples(p)
             \/ UnsubscribeTransactionBegin(p) \/ Destroy(p)
      PROVE  SamplesInvariant'
  <2>1. UNCHANGED <<samples, counted, count>>
    BY <1>4 DEF PrepareRollback, RollbackProxyTransactions, RollbackFails,
       RollbackProxyElementLog, Reset, RegisterProxyElement, SubscribeRetry,
       SubscribeRejected, SubscribeTransactionAbort, SubscribeTransactionCommit, UseSamples,
       UnsubscribeTransactionBegin, Destroy, logVars, counterVars
  <2>2. ASSUME NEW r \in Proxies, pc'[r] \in Subscribing
        PROVE  pc[r] \in Subscribing /\ idx'[r] = idx[r]
    <3>1. CASE r # p
      BY <1>0, <1>4, <3>1, <2>2 DEF PrepareRollback, RollbackProxyTransactions, RollbackFails,
         RollbackProxyElementLog, Reset, RegisterProxyElement, SubscribeRetry,
         SubscribeRejected, SubscribeTransactionAbort, SubscribeTransactionCommit, UseSamples,
         UnsubscribeTransactionBegin, Destroy, proxyVars
    <3>2. CASE r = p
      <4>1. \/ SubscribeRetry(p) \/ SubscribeTransactionCommit(p) \/ UseSamples(p)
            \/ UnsubscribeTransactionBegin(p)
        BY <1>0, <1>4, <2>2, <3>2 DEF PrepareRollback, RollbackProxyTransactions,
           RollbackFails, RollbackProxyElementLog, Reset, RegisterProxyElement,
           SubscribeRejected, SubscribeTransactionAbort, Destroy, Subscribing
      <4> QED
        BY <1>0, <3>2, <4>1 DEF SubscribeRetry, SubscribeTransactionCommit, UseSamples,
           UnsubscribeTransactionBegin, proxyVars, Subscribing
    <3> QED
      BY <3>1, <3>2
  <2> QED
    BY <2>1, <2>2, SamplesKept
<1>5. ASSUME NEW p \in Proxies, SubscribeTransactionBegin(p) PROVE SamplesInvariant'
  <2>1. /\ pc[p] = "registered" /\ pc' = [pc EXCEPT ![p] = "subscribe"]
        /\ count' = [count EXCEPT ![idx[p]] = SampleCount[p]]
        /\ UNCHANGED <<idx, samples, counted>>
    BY <1>5 DEF SubscribeTransactionBegin, counterVars
  <2>2. idx[p] \in Logs /\ idx[p] \notin counted
    BY <1>0, <2>1 DEF SubscriptionInvariant, LogFollowsProxy, CountedLogs, UsesLog
  <2>3. \A r \in Proxies \ {p} : pc[r] \in Subscribing => idx[r] \in Logs \ {idx[p]}
    BY <1>0, <2>1 DEF SubscriptionInvariant, LogFollowsProxy, LogsOwned, UsesLog, Subscribing
  <2>4. \A r \in Proxies \ {p} : pc'[r] = pc[r]
    BY <1>0, <2>1
  <2> QED
    BY <2>1, <2>2, <2>3, <2>4, SamplesRecorded
<1>6. ASSUME NEW p \in Proxies, UnsubscribeTransactionCommit(p) PROVE SamplesInvariant'
  <2>1. /\ pc[p] \in {"unsubscribeCommit", "rollbackCommit"}
        /\ pc'[p] \in {"unregister", "reset"}
        /\ \A r \in Proxies \ {p} : pc'[r] = pc[r]
        /\ count' = [count EXCEPT ![idx[p]] = 0]
        /\ UNCHANGED <<idx, samples, counted>>
    BY <1>0, <1>6 DEF UnsubscribeTransactionCommit, counterVars
  <2>2. idx[p] \in Logs /\ idx[p] \notin counted
    BY <1>0, <2>1 DEF SubscriptionInvariant, LogFollowsProxy, UsesLog, RollsBack
  <2>3. \A r \in Proxies \ {p} : pc[r] \in Subscribing => idx[r] \in Logs \ {idx[p]}
    BY <1>0, <2>1 DEF SubscriptionInvariant, LogFollowsProxy, LogsOwned, UsesLog, RollsBack,
       Subscribing
  <2>4. pc'[p] \notin Subscribing
    BY <2>1 DEF Subscribing
  <2> QED
    BY <2>1, <2>2, <2>3, <2>4, SamplesRecorded
<1>7. ASSUME NEW p \in Proxies, Subscribe(p) PROVE SamplesInvariant'
  <2> DEFINE i == idx[p]
  <2>1. /\ pc[p] = "subscribe" /\ ~SlotOverflow(SampleCount[p])
        /\ samples' = samples + SampleCount[p] /\ counted' = counted \union {i}
        /\ UNCHANGED <<count, idx>>
        /\ pc' = [pc EXCEPT ![p] = "subscribeCommit"]
    BY <1>7 DEF Subscribe, logVars
  <2>2. i \in Logs /\ i \notin counted /\ count[i] = SampleCount[p]
    BY <1>0, <2>1 DEF SubscriptionInvariant, LogFollowsProxy, UsesLog, SamplesInvariant
  <2>3. IsFiniteSet(counted \union {i}) /\ (counted \union {i}) \ {i} = counted
    BY <1>0, <2>2, FS_AddElement
  <2>4. Cardinality(Units(count, counted \union {i}))
          = count[i] + Cardinality(Units(count, counted))
    BY <1>0, <2>2, <2>3, UnitsSplit
  <2>5. Units(count, counted)' = Units(count, counted \union {i})
    BY <2>1 DEF Units
  <2>6. Cardinality(Units(count, counted)) \in Nat /\ SampleCount[p] \in Nat
    BY <1>0, UnitsFinite
  <2>7. samples' = Cardinality(Units(count, counted)')
    BY <2>1, <2>2, <2>4, <2>5, <2>6 DEF SamplesInvariant
  <2>8. EnforceMaxSamples => samples' <= MaxSlots
    BY <2>1, <2>6 DEF SlotOverflow, SamplesInvariant
  <2>9. \A r \in Proxies : pc'[r] \in Subscribing => pc[r] \in Subscribing
    BY <1>0, <2>1 DEF Subscribing
  <2> QED
    BY <2>1, <2>7, <2>8, <2>9 DEF SamplesInvariant, Subscribing
<1>8. ASSUME NEW p \in Proxies, Unsubscribe(p) PROVE SamplesInvariant'
  <2> DEFINE i == idx[p]
  <2>1. /\ pc[p] \in {"unsubscribe", "rollbackUnsubscribe"}
        /\ samples' = samples - count[i] /\ counted' = counted \ {i}
        /\ UNCHANGED <<count, idx>>
        /\ pc'[p] \in {"unsubscribeCommit", "rollbackCommit"}
        /\ \A r \in Proxies \ {p} : pc'[r] = pc[r]
    BY <1>0, <1>8 DEF Unsubscribe, logVars
  <2>2. i \in counted /\ count[i] \in Nat
    BY <1>0, <2>1 DEF SubscriptionInvariant, LogFollowsProxy
  <2>3. Cardinality(Units(count, counted)) = count[i] + Cardinality(Units(count, counted \ {i}))
    BY <1>0, <2>2, UnitsSplit
  <2>4. Units(count, counted)' = Units(count, counted \ {i})
    BY <2>1 DEF Units
  <2>5. IsFiniteSet(counted \ {i})
    BY <1>0, FS_RemoveElement
  <2>6. Cardinality(Units(count, counted \ {i})) \in Nat
    BY <1>0, <2>5, UnitsFinite
  <2>7. samples' = Cardinality(Units(count, counted)') /\ samples' <= samples
    BY <2>1, <2>2, <2>3, <2>4, <2>6 DEF SamplesInvariant
  <2>8. EnforceMaxSamples => samples' <= MaxSlots
    BY <2>1, <2>2, <2>3, <2>6 DEF SamplesInvariant
  <2>9. \A r \in Proxies : pc'[r] \in Subscribing => pc[r] \in Subscribing
    BY <2>1 DEF Subscribing
  <2> QED
    BY <2>1, <2>7, <2>8, <2>9 DEF SamplesInvariant, Subscribing
<1>9. ASSUME NEW p \in Proxies, UnsubscribeRetry(p) \/ Unregister(p) PROVE SamplesInvariant'
  <2>1. ProcessOf[p] \in Processes
    OBVIOUS
  <2>2. CASE LoseProcess(ProcessOf[p], refs)
    BY <1>2, <2>1, <2>2
  <2>3. CASE /\ UNCHANGED <<samples, counted, count>>
             /\ \A r \in Proxies : \/ pc'[r] = pc[r] /\ idx'[r] = idx[r]
                                   \/ pc'[r] = "created"
    BY <2>3, SamplesKept DEF Subscribing
  <2>4. CASE UnsubscribeRetry(p)
    BY <2>2, <2>3, <2>4 DEF UnsubscribeRetry, logVars, counterVars
  <2>5. CASE Unregister(p)
    <3>1. CASE refs[idx[p]] = "none"
      BY <1>0, <2>3, <2>5, <3>1 DEF Unregister, counterVars
    <3>2. CASE refs[idx[p]] # "none"
      BY <2>2, <2>5, <3>2 DEF Unregister
    <3> QED
      BY <3>1, <3>2
  <2> QED
    BY <1>9, <2>4, <2>5
<1> QED
  BY <1>1, <1>3, <1>4, <1>5, <1>6, <1>7, <1>8, <1>9 DEF Next, ProxyStep

(* What the counter has suffices for every withdrawal, and covers what the *)
(* subscribed proxies may hold: their units are among those counted.       *)
LEMMA CounterCovers ==
    ASSUME TypeOK, SubscriptionInvariant, SamplesInvariant
    PROVE  CounterWithinBounds
<1> USE SubscriptionAssumption
<1>0. /\ idx \in [Proxies -> Logs \union {NoLog}] /\ count \in [Logs -> Nat]
      /\ counted \in SUBSET Logs /\ IsFiniteSet(counted)
  <2>1. counted \in SUBSET Logs
    BY DEF TypeOK, CounterTypeOK
  <2> QED
    BY <2>1, LogCount DEF TypeOK, LogTypeOK, ProxyTypeOK
<1>1. UnsubscribeNeverUnderflows
  <2> SUFFICES ASSUME NEW p \in Proxies, pc[p] \in {"unsubscribe", "rollbackUnsubscribe"}
               PROVE  subscribers > 0 /\ samples >= count[idx[p]]
    BY DEF UnsubscribeNeverUnderflows
  <2> DEFINE i == idx[p]
  <2>1. i \in counted
    BY DEF SubscriptionInvariant, LogFollowsProxy
  <2>2. /\ Cardinality(counted \ {i}) = Cardinality(counted) - 1
        /\ IsFiniteSet(counted \ {i})
    BY <1>0, <2>1, LogCount, FS_RemoveElement
  <2>3. Cardinality(counted \ {i}) \in Nat /\ Cardinality(counted) \in Nat
    BY <1>0, <2>2, FS_CardinalityType
  <2>4. Cardinality(Units(count, counted)) = count[i] + Cardinality(Units(count, counted \ {i}))
    BY <1>0, <2>1, UnitsSplit
  <2>5. Cardinality(Units(count, counted \ {i})) \in Nat /\ count[i] \in Nat
    BY <1>0, <2>1, <2>2, UnitsFinite
  <2>6. subscribers > 0
    BY <2>2, <2>3 DEF SubscriptionInvariant, CounterExact
  <2>7. samples >= count[i]
    BY <2>4, <2>5 DEF SamplesInvariant
  <2> QED
    BY <2>6, <2>7
<1>2. SubscribedSamplesFit
  <2> SUFFICES ASSUME EnforceMaxSamples
               PROVE  TotalOf(SampleCount, {p \in Proxies : pc[p] = "subscribed"}) <= MaxSlots
    BY DEF SubscribedSamplesFit
  <2> DEFINE S == {p \in Proxies : pc[p] = "subscribed"}
             own == Units(SampleCount, S)
             all == Units(count, counted)
             at == [u \in own |-> <<idx[u[1]], u[2]>>]
  <2>1. IsFiniteSet(S) /\ \A p \in S : SampleCount[p] \in Nat
    BY FS_Subset
  <2>2. \A p \in S : idx[p] \in counted /\ count[idx[p]] = SampleCount[p]
    BY <1>0 DEF SubscriptionInvariant, LogFollowsProxy, CountedLogs, SamplesInvariant, UsesLog,
       LogsOwned, TypeOK, LogTypeOK
  <2>3. \A p, r \in S : idx[p] = idx[r] => p = r
    BY DEF SubscriptionInvariant, LogsOwned, UsesLog
  <2>4. \A u \in own : u = <<u[1], u[2]>> /\ u[1] \in S /\ u[2] \in 1 .. SampleCount[u[1]]
    BY DEF Units
  <2>5. \A u \in own : at[u] \in all
    BY <2>2, <2>4 DEF Units
  <2>6. \A u, v \in own : at[u] = at[v] => u = v
    BY <2>3, <2>4
  <2>7. at \in Injection(own, all)
    BY <2>5, <2>6 DEF Injection, IsInjective
  <2>8. IsFiniteSet(all) /\ Cardinality(all) \in Nat
    BY <1>0, UnitsFinite
  <2>9. IsFiniteSet(own) /\ Cardinality(own) \in Nat
    BY <2>1, UnitsFinite
  <2>10. Cardinality(own) <= Cardinality(all)
    BY <2>7, <2>8, FS_Injection
  <2>11. TotalOf(SampleCount, S) = Cardinality(own)
    BY <2>1, TotalCountsUnits
  <2>12. Cardinality(all) <= MaxSlots
    BY DEF SamplesInvariant
  <2> QED
    BY <2>8, <2>9, <2>10, <2>11, <2>12
<1> QED
  BY <1>1, <1>2 DEF CounterWithinBounds

(* The packed counter never leaves its range: no withdrawal finds less     *)
(* than it takes, and with enforce_max_samples the subscribed proxies'     *)
(* samples fit the slots (EventSubscriptionControl), for any number of     *)
(* proxies, samples and crashes.                                           *)
THEOREM CounterKeepsBounds == Spec => []CounterWithinBounds
<1>1. Init => SamplesInvariant
  BY UnitsOfNone, SubscriptionAssumption DEF Init, SamplesInvariant
<1>2. TypeOK /\ SubscriptionInvariant /\ SamplesInvariant /\ [Next]_vars => SamplesInvariant'
  BY SamplesStep
<1>3. TypeOK /\ SubscriptionInvariant /\ SamplesInvariant => CounterWithinBounds
  BY CounterCovers
<1> QED
  BY <1>1, <1>2, <1>3, SubscriptionsCorrect, PTL DEF Spec
-----------------------------------------------------------------------------
(* Registration of the pids.  A process's entry is written by its own      *)
(* steps only, and what it says is known at each of them.                  *)

(* At the start nothing is registered.                                     *)
LEMMA CreationInitOK ==
    CreationInit => TypeOK /\ SubscriptionInvariant /\ MappingInvariant
<1> SUFFICES ASSUME CreationInit PROVE TypeOK /\ SubscriptionInvariant /\ MappingInvariant
  OBVIOUS
<1>1. TypeOK /\ SubscriptionInvariant
  BY InitOK DEF CreationInit
<1>2. MappingTypeOK
  BY MappingAssumption DEF CreationInit, MappingTypeOK, Idle
<1>3. \A q : EntriesOf(q) = {}
  BY DEF CreationInit, EntriesOf
<1>4. prepared = {} /\ interested = {}
  BY DEF CreationInit, Init
<1>5. \A q \in Processes : reg[q].at = "idle"
  BY DEF CreationInit, Idle
<1>6. \A i \in Entries : mapping[i].pid = 0
  BY DEF CreationInit
<1>7. EntriesFollowRegistration
  BY <1>3, <1>4, <1>5, <1>6 DEF EntriesFollowRegistration
<1> QED
  BY <1>1, <1>2, <1>4, <1>7 DEF MappingInvariant

(* A process that takes over its entry, or completes the one it claimed.   *)
LEMMA EntryWritten ==
    ASSUME MappingInvariant, NEW q \in Processes, NEW i \in EntriesOf(q),
           mapping' = [mapping EXCEPT ![i] = [status |-> "used", uid |-> q, pid |-> pid[q]]],
           NEW r \in [at : {"notify", "registered"}, entry : 0 .. NumEntries, pass : Nat, old : Nat],
           reg' = [reg EXCEPT ![q] = r],
           reg[q].at # "notify", q \notin prepared,
           r.at = "notify" => r.old = mapping[i].pid,
           r.at = "registered" => mapping[i].status # "used" \/ mapping[i].pid = pid[q],
           UNCHANGED <<pid, prepared, interested, forgotten>>
    PROVE  MappingInvariant'
<1> USE DEF MappingInvariant
<1>1. i \in Entries /\ mapping[i].status # "unused" /\ mapping[i].uid = q
  BY DEF EntriesOf
<1>2. /\ mapping'[i].status = "used" /\ mapping'[i].uid = q /\ mapping'[i].pid = pid[q]
      /\ \A j \in Entries \ {i} : mapping'[j] = mapping[j]
  BY <1>1 DEF MappingTypeOK
<1>3. \A s : EntriesOf(s)' = EntriesOf(s)
  BY <1>1, <1>2 DEF EntriesOf
<1>4. reg'[q] = r /\ \A s \in Processes \ {q} : reg'[s] = reg[s]
  BY DEF MappingTypeOK
<1>5. MappingTypeOK'
  BY <1>1 DEF MappingTypeOK
<1>6. EntriesFollowRegistration'
  <2>1. \A s \in Processes : \A j, k \in EntriesOf(s)' : j = k
    BY <1>3 DEF EntriesFollowRegistration
  <2>2. \A j \in Entries : mapping'[j].status # "used" => mapping'[j].pid = 0
    BY <1>2 DEF EntriesFollowRegistration
  <2>3. ASSUME NEW s \in Processes
        PROVE  /\ reg'[s].at = "scan" => EntriesOf(s)' = {} /\ reg'[s].entry \in Entries
               /\ reg'[s].at = "claimed" =>
                     reg'[s].entry \in EntriesOf(s)' /\ mapping'[reg'[s].entry].status = "updating"
               /\ reg'[s].at \in {"notify", "registered"} =>
                     \E j \in EntriesOf(s)' : mapping'[j].status = "used" /\ mapping'[j].pid = pid'[s]
               /\ s \in prepared' => reg'[s].at = "registered"
    <3>1. CASE s = q
      BY <1>1, <1>2, <1>3, <1>4, <3>1
    <3>2. CASE s # q
      <4>1. \A j \in EntriesOf(s) : j \in Entries /\ j # i
        BY <1>1, <3>2 DEF EntriesOf
      <4>2. reg'[s] = reg[s] /\ EntriesOf(s)' = EntriesOf(s)
            /\ \A j \in EntriesOf(s) : mapping'[j] = mapping[j]
        BY <1>2, <1>3, <1>4, <3>2, <4>1
      <4> QED
        BY <4>2 DEF EntriesFollowRegistration
    <3> QED
      BY <3>1, <3>2
  <2> QED
    BY <2>1, <2>2, <2>3 DEF EntriesFollowRegistration, Entries
<1>7. ASSUME NEW n \in interested' \ forgotten' PROVE NodeKept(n)'
  <2>1. n \in interested \ forgotten /\ NodeKept(n) /\ n[1] \in Processes /\ n[2] \in Nat \ {0}
    BY <1>7 DEF MappingTypeOK
  <2>2. CASE n[1] = q
    <3>1. \E j \in EntriesOf(q) : mapping[j].pid = n[2]
      BY <2>1, <2>2 DEF NodeKept
    <3>2. mapping[i].pid = n[2] /\ mapping[i].status = "used"
      BY <1>1, <2>1, <3>1 DEF EntriesFollowRegistration
    <3>3. CASE r.at = "notify"
      BY <1>4, <2>2, <3>2, <3>3 DEF NodeKept
    <3>4. CASE r.at = "registered"
      BY <1>2, <1>3, <2>2, <3>2, <3>4 DEF NodeKept
    <3> QED
      BY <3>3, <3>4
  <2>3. CASE n[1] # q
    <3>1. \A j \in EntriesOf(n[1]) : j \in Entries /\ j # i
      BY <1>1, <2>3 DEF EntriesOf
    <3> QED
      BY <1>2, <1>3, <1>4, <2>1, <2>3, <3>1 DEF NodeKept
  <2> QED
    BY <2>2, <2>3
<1> QED
  BY <1>5, <1>6, <1>7

(* TryUpdatePidForExistingUid finds the one entry of the uid, or none.     *)
LEMMA TryUpdateMapping ==
    ASSUME MappingInvariant, NEW q \in Processes, TryUpdatePidForExistingUid(q)
    PROVE  MappingInvariant'
<1> USE DEF MappingInvariant
<1>1. /\ reg[q].at = "idle" /\ q \notin prepared
      /\ UNCHANGED <<prepared, pid, interested, forgotten>>
  BY DEF TryUpdatePidForExistingUid, subscriptionVars, procVars
<1>2. CASE EntriesOf(q) = {}
  <2>1. /\ mapping' = mapping
        /\ reg' = [reg EXCEPT ![q] = [at |-> "scan", entry |-> 1, pass |-> 1, old |-> 0]]
    BY <1>2 DEF TryUpdatePidForExistingUid, Goto, Scanning
  <2>2. /\ reg'[q].at = "scan" /\ reg'[q].entry = 1
        /\ \A s \in Processes \ {q} : reg'[s] = reg[s]
    BY <2>1 DEF MappingTypeOK
  <2>3. 1 \in Entries /\ 1 \in 0 .. NumEntries
    BY MappingAssumption DEF Entries
  <2>4. MappingTypeOK'
    BY <1>1, <2>1, <2>3 DEF MappingTypeOK
  <2>5. \A s : EntriesOf(s)' = EntriesOf(s)
    BY <2>1 DEF EntriesOf
  <2>6. EntriesFollowRegistration'
    BY <1>1, <1>2, <2>1, <2>2, <2>3, <2>5 DEF EntriesFollowRegistration, Entries
  <2>7. \A n \in interested' \ forgotten' : NodeKept(n)'
    BY <1>1, <2>1, <2>2, <2>5 DEF NodeKept, MappingTypeOK
  <2> QED
    BY <2>4, <2>6, <2>7
<1>3. CASE EntriesOf(q) # {}
  <2> DEFINE i == CHOOSE j \in EntriesOf(q) : \A k \in EntriesOf(q) : j <= k
  <2>1. i \in EntriesOf(q)
    <3>1. PICK j \in EntriesOf(q) : TRUE
      BY <1>3
    <3>2. j \in Nat /\ \A k \in EntriesOf(q) : k = j
      BY <3>1, MappingAssumption DEF EntriesFollowRegistration, EntriesOf, Entries
    <3>3. \A k \in EntriesOf(q) : j <= k
      BY <3>2
    <3> QED
      BY <3>1, <3>3
  <2>2. i \in Entries
    BY <2>1 DEF EntriesOf
  <2>3. mapping[i].pid \in Nat /\ 0 \in 0 .. NumEntries
    BY <2>2, MappingAssumption DEF MappingTypeOK
  <2>4. mapping' = [mapping EXCEPT ![i] = [status |-> "used", uid |-> q, pid |-> pid[q]]]
    BY <1>3 DEF TryUpdatePidForExistingUid
  <2>5. Goto(q, IF mapping[i].status = "used" /\ mapping[i].pid # pid[q]
                THEN Outdated(mapping[i].pid)
                ELSE Registered)
    BY <1>3 DEF TryUpdatePidForExistingUid
  <2> HIDE DEF i
  <2>6. CASE mapping[i].status = "used" /\ mapping[i].pid # pid[q]
    <3> DEFINE r == [at |-> "notify", entry |-> 0, pass |-> 0, old |-> mapping[i].pid]
    <3>1. reg' = [reg EXCEPT ![q] = r]
      BY <2>5, <2>6 DEF Goto, Outdated
    <3>2. /\ r \in [at : {"notify", "registered"}, entry : 0 .. NumEntries, pass : Nat, old : Nat]
          /\ r.at = "notify" /\ r.old = mapping[i].pid
      BY <2>3
    <3> HIDE DEF r
    <3> QED
      BY <1>1, <2>1, <2>4, <3>1, <3>2, EntryWritten
  <2>7. CASE ~(mapping[i].status = "used" /\ mapping[i].pid # pid[q])
    <3> DEFINE r == [at |-> "registered", entry |-> 0, pass |-> 0, old |-> 0]
    <3>1. reg' = [reg EXCEPT ![q] = r]
      BY <2>5, <2>7 DEF Goto, Registered
    <3>2. /\ r \in [at : {"notify", "registered"}, entry : 0 .. NumEntries, pass : Nat, old : Nat]
          /\ r.at = "registered"
      BY <2>3
    <3> HIDE DEF r
    <3> QED
      BY <1>1, <2>1, <2>4, <2>7, <3>1, <3>2, EntryWritten
  <2> QED
    BY <2>6, <2>7
<1> QED
  BY <1>2, <1>3

(* The process writes the entry it has claimed.                            *)
LEMMA SetStatusMapping ==
    ASSUME MappingInvariant, NEW q \in Processes, SetStatusAndUidAtomic(q)
    PROVE  MappingInvariant'
<1> DEFINE r == [at |-> "registered", entry |-> 0, pass |-> 0, old |-> 0]
<1>1. /\ reg[q].at = "claimed" /\ reg' = [reg EXCEPT ![q] = r]
      /\ UNCHANGED <<prepared, pid, interested, forgotten>>
  BY DEF SetStatusAndUidAtomic, subscriptionVars, procVars, Goto, Registered
<1>2. reg[q].entry \in EntriesOf(q) /\ mapping[reg[q].entry].status = "updating" /\ q \notin prepared
  BY <1>1 DEF MappingInvariant, EntriesFollowRegistration
<1>3. mapping' = [mapping EXCEPT ![reg[q].entry] = [status |-> "used", uid |-> q, pid |-> pid[q]]]
  BY DEF SetStatusAndUidAtomic
<1>4. /\ r \in [at : {"notify", "registered"}, entry : 0 .. NumEntries, pass : Nat, old : Nat]
      /\ r.at = "registered"
  BY MappingAssumption
<1> HIDE DEF r
<1> QED
  BY <1>1, <1>2, <1>3, <1>4, EntryWritten

(* An entry is claimed by one process, which had none.                     *)
LEMMA ClaimMapping ==
    ASSUME MappingInvariant, NEW q \in Processes, ClaimEntry(q)
    PROVE  MappingInvariant'
<1> USE DEF MappingInvariant
<1> DEFINE e == reg[q].entry
<1>1. /\ reg[q].at = "scan" /\ mapping[e].status = "unused"
      /\ mapping' = [mapping EXCEPT ![e].status = "updating", ![e].uid = q]
      /\ reg' = [reg EXCEPT ![q] = [reg[q] EXCEPT !.at = "claimed"]]
      /\ UNCHANGED <<prepared, pid, interested, forgotten>>
  BY DEF ClaimEntry, subscriptionVars, procVars, Goto
<1>2. e \in Entries /\ EntriesOf(q) = {} /\ mapping[e].pid = 0
  BY <1>1 DEF EntriesFollowRegistration
<1>3. /\ mapping'[e].status = "updating" /\ mapping'[e].uid = q /\ mapping'[e].pid = 0
      /\ \A j \in Entries \ {e} : mapping'[j] = mapping[j]
  BY <1>1, <1>2 DEF MappingTypeOK
<1>4. /\ reg'[q].at = "claimed" /\ reg'[q].entry = e
      /\ \A s \in Processes \ {q} : reg'[s] = reg[s]
  BY <1>1 DEF MappingTypeOK
<1>5. MappingTypeOK'
  BY <1>1, <1>2 DEF MappingTypeOK
<1> HIDE DEF e
<1>6. EntriesOf(q)' = {e}
  BY <1>2, <1>3 DEF EntriesOf
<1>7. \A s : s # q => /\ EntriesOf(s)' = EntriesOf(s)
                      /\ \A j \in EntriesOf(s) : mapping'[j] = mapping[j]
  BY <1>1, <1>2, <1>3 DEF EntriesOf
<1>8. EntriesFollowRegistration'
  <2>1. \A s \in Processes : \A j, k \in EntriesOf(s)' : j = k
    BY <1>6, <1>7 DEF EntriesFollowRegistration
  <2>2. \A j \in Entries : mapping'[j].status # "used" => mapping'[j].pid = 0
    BY <1>3 DEF EntriesFollowRegistration
  <2>3. ASSUME NEW s \in Processes
        PROVE  /\ reg'[s].at = "scan" => EntriesOf(s)' = {} /\ reg'[s].entry \in Entries
               /\ reg'[s].at = "claimed" =>
                     reg'[s].entry \in EntriesOf(s)' /\ mapping'[reg'[s].entry].status = "updating"
               /\ reg'[s].at \in {"notify", "registered"} =>
                     \E j \in EntriesOf(s)' : mapping'[j].status = "used" /\ mapping'[j].pid = pid'[s]
               /\ s \in prepared' => reg'[s].at = "registered"
    <3>1. CASE s = q
      BY <1>1, <1>3, <1>4, <1>6, <3>1 DEF EntriesFollowRegistration
    <3>2. CASE s # q
      <4>1. reg'[s] = reg[s] /\ EntriesOf(s)' = EntriesOf(s)
            /\ \A j \in EntriesOf(s) : mapping'[j] = mapping[j]
        BY <1>4, <1>7, <3>2
      <4>2. pid'[s] = pid[s] /\ prepared' = prepared
        BY <1>1
      <4> QED
        BY <4>1, <4>2 DEF EntriesFollowRegistration
    <3> QED
      BY <3>1, <3>2
  <2> QED
    BY <2>1, <2>2, <2>3 DEF EntriesFollowRegistration, Entries
<1>9. ASSUME NEW n \in interested' \ forgotten' PROVE NodeKept(n)'
  <2>1. NodeKept(n) /\ n[1] \in Processes
    BY <1>1, <1>9 DEF MappingTypeOK
  <2>2. n[1] # q
    BY <1>1, <1>2, <2>1 DEF NodeKept
  <2> QED
    BY <1>4, <1>7, <2>1, <2>2 DEF NodeKept
<1> QED
  BY <1>5, <1>8, <1>9

(* Entries stay, and each process is where it was, goes on scanning, or    *)
(* ends; a pid about to be reported is forgotten then.                     *)
LEMMA MappingKept ==
    ASSUME MappingInvariant, MappingTypeOK', UNCHANGED mapping,
           interested' \subseteq interested, forgotten \subseteq forgotten',
           \A q \in Processes :
              \/ /\ reg'[q] = reg[q] /\ pid'[q] = pid[q]
                 /\ q \in prepared' => q \in prepared \/ reg[q].at = "registered"
              \/ /\ reg[q].at = "scan" /\ reg'[q].at = "scan" /\ reg'[q].entry \in Entries
                 /\ q \notin prepared'
              \/ /\ reg'[q].at = "idle" /\ q \notin prepared'
                 /\ reg[q].at = "notify" => <<q, reg[q].old>> \in forgotten'
    PROVE  MappingInvariant'
<1> USE DEF MappingInvariant
<1>1. \A s : EntriesOf(s)' = EntriesOf(s)
  BY DEF EntriesOf
<1>2. EntriesFollowRegistration'
  <2>1. ASSUME NEW s \in Processes
        PROVE  /\ reg'[s].at = "scan" => EntriesOf(s)' = {} /\ reg'[s].entry \in Entries
               /\ reg'[s].at = "claimed" =>
                     reg'[s].entry \in EntriesOf(s)' /\ mapping'[reg'[s].entry].status = "updating"
               /\ reg'[s].at \in {"notify", "registered"} =>
                     \E j \in EntriesOf(s)' : mapping'[j].status = "used" /\ mapping'[j].pid = pid'[s]
               /\ s \in prepared' => reg'[s].at = "registered"
    BY <1>1 DEF EntriesFollowRegistration
  <2>2. \A s \in Processes : \A j, k \in EntriesOf(s)' : j = k
    BY <1>1 DEF EntriesFollowRegistration
  <2>3. \A j \in Entries : mapping'[j].status # "used" => mapping'[j].pid = 0
    BY DEF EntriesFollowRegistration
  <2> QED
    BY <2>1, <2>2, <2>3 DEF EntriesFollowRegistration, Entries
<1>3. ASSUME NEW n \in interested' \ forgotten' PROVE NodeKept(n)'
  <2>1. NodeKept(n) /\ n[1] \in Processes /\ n = <<n[1], n[2]>>
    BY <1>3 DEF MappingTypeOK
  <2>2. CASE \E i \in EntriesOf(n[1]) : mapping[i].pid = n[2]
    BY <1>1, <2>2 DEF NodeKept
  <2>3. CASE reg[n[1]].at = "notify" /\ reg[n[1]].old = n[2]
    <3>1. <<n[1], reg[n[1]].old>> \notin forgotten'
      BY <1>3, <2>1, <2>3
    <3>2. reg'[n[1]] = reg[n[1]]
      BY <2>1, <2>3, <3>1
    <3> QED
      BY <2>3, <3>2 DEF NodeKept
  <2> QED
    BY <2>1, <2>2, <2>3 DEF NodeKept
<1> QED
  BY <1>2, <1>3

(* The scan goes on, or the process ends before its logs are marked.       *)
LEMMA ScanMapping ==
    ASSUME MappingInvariant, NEW q \in Processes, NextEntry(q) \/ CrashInRegistration(q)
    PROVE  MappingInvariant'
<1>1. UNCHANGED <<mapping, prepared, interested>> /\ forgotten \subseteq forgotten'
      /\ q \notin prepared
  BY DEF NextEntry, CrashInRegistration, subscriptionVars, procVars, MappingInvariant,
     EntriesFollowRegistration
<1>2. CASE ProcessEnds(q) /\ (reg[q].at = "notify" => <<q, reg[q].old>> \in forgotten')
  <2>1. /\ pid' = [pid EXCEPT ![q] = @ + 1]
        /\ reg' = [reg EXCEPT ![q] = [at |-> "idle", entry |-> 0, pass |-> 0, old |-> 0]]
    BY <1>2 DEF ProcessEnds, Goto, Idle
  <2>2. MappingTypeOK'
    BY <1>1, <2>1, MappingAssumption DEF MappingInvariant, MappingTypeOK
  <2>3. /\ reg'[q].at = "idle"
        /\ \A s \in Processes \ {q} : reg'[s] = reg[s] /\ pid'[s] = pid[s]
    BY <2>1 DEF MappingInvariant, MappingTypeOK
  <2> QED
    BY <1>1, <1>2, <2>2, <2>3, MappingKept
<1>3. ASSUME NEW e \in Entries, NEW n \in Nat, reg[q].at = "scan",
             reg' = [reg EXCEPT ![q] = Scanning(e, n)],
             pid' = pid
      PROVE  MappingInvariant'
  <2>1. /\ reg'[q].at = "scan" /\ reg'[q].entry = e
        /\ \A s \in Processes \ {q} : reg'[s] = reg[s]
    BY <1>3 DEF MappingInvariant, MappingTypeOK, Scanning
  <2>2. MappingTypeOK'
    <3>1. e \in 0 .. NumEntries
      BY MappingAssumption DEF Entries
    <3>2. Scanning(e, n)
            \in [at : {"idle", "scan", "claimed", "notify", "registered"},
                 entry : 0 .. NumEntries, pass : Nat, old : Nat]
      BY <3>1 DEF Scanning
    <3> QED
      BY <1>1, <1>3, <3>2 DEF MappingInvariant, MappingTypeOK
  <2> QED
    BY <1>1, <1>3, <2>1, <2>2, MappingKept
<1>4. CASE CrashInRegistration(q)
  BY <1>2, <1>4 DEF CrashInRegistration
<1>5. CASE NextEntry(q)
  <2>1. reg[q].at = "scan" /\ reg[q].entry \in Entries /\ reg[q].pass \in Nat /\ 1 \in Entries
    BY <1>5, MappingAssumption DEF NextEntry, MappingInvariant, EntriesFollowRegistration,
       MappingTypeOK, Entries
  <2>2. CASE ProcessEnds(q)
    BY <1>2, <2>1, <2>2
  <2>3. CASE /\ reg[q].entry < NumEntries
             /\ Goto(q, Scanning(reg[q].entry + 1, reg[q].pass)) /\ UNCHANGED <<pid, crashes>>
    <3>1. reg[q].entry + 1 \in Entries
      BY <2>1, <2>3, MappingAssumption DEF Entries
    <3> QED
      BY <1>3, <2>1, <2>3, <3>1 DEF Goto
  <2>4. CASE Goto(q, Scanning(1, reg[q].pass + 1)) /\ UNCHANGED <<pid, crashes>>
    <3>1. reg[q].pass + 1 \in Nat
      BY <2>1
    <3> QED
      BY <1>3, <2>1, <2>4, <3>1 DEF Goto
  <2> QED
    BY <1>5, <2>2, <2>3, <2>4 DEF NextEntry
<1> QED
  BY <1>4, <1>5

(* The pid that was replaced is reported, and the provider forgets it.     *)
LEMMA NotifyMapping ==
    ASSUME MappingInvariant, NEW q \in Processes, NotifyOutdatedNodeId(q)
    PROVE  MappingInvariant'
<1> USE DEF MappingInvariant
<1>1. /\ reg[q].at = "notify" /\ interested' = interested \ {<<q, reg[q].old>>}
      /\ reg' = [reg EXCEPT ![q] = [at |-> "registered", entry |-> 0, pass |-> 0, old |-> 0]]
      /\ UNCHANGED <<prepared, pid, mapping, forgotten>>
  BY DEF NotifyOutdatedNodeId, HandleOutdatedNodeIdMsg, Goto, Registered, subscriptionVars,
     procVars
<1>2. /\ reg'[q].at = "registered"
      /\ \A s \in Processes \ {q} : reg'[s] = reg[s]
  BY <1>1 DEF MappingTypeOK
<1>3. MappingTypeOK'
  BY <1>1, MappingAssumption DEF MappingTypeOK
<1>4. \A s : EntriesOf(s)' = EntriesOf(s)
  BY <1>1 DEF EntriesOf
<1>5. EntriesFollowRegistration'
  BY <1>1, <1>2, <1>4 DEF EntriesFollowRegistration, Entries
<1>6. ASSUME NEW n \in interested' \ forgotten' PROVE NodeKept(n)'
  <2>1. /\ NodeKept(n) /\ n[1] \in Processes /\ n = <<n[1], n[2]>>
        /\ n # <<q, reg[q].old>>
    BY <1>1, <1>6 DEF MappingTypeOK
  <2>2. CASE n[1] = q
    BY <1>1, <1>4, <2>1, <2>2 DEF NodeKept
  <2>3. CASE n[1] # q
    BY <1>1, <1>2, <1>4, <2>1, <2>3 DEF NodeKept
  <2> QED
    BY <2>2, <2>3
<1> QED
  BY <1>3, <1>5, <1>6

(* Who subscribes has its logs marked, so its pid is in the mapping.       *)
LEMMA SendRegisterMapping ==
    ASSUME SubscriptionInvariant, MappingInvariant, NEW q \in Processes,
           SendRegisterEventNotificationMessage(q)
    PROVE  MappingInvariant'
<1> USE DEF MappingInvariant
<1>1. /\ interested' = interested \union {<<q, pid[q]>>}
      /\ UNCHANGED <<prepared, mapping, reg, pid, forgotten>>
  BY DEF SendRegisterEventNotificationMessage, subscriptionVars, procVars, mappingVars
<1>2. q \in prepared
  BY DEF SendRegisterEventNotificationMessage, SubscriptionInvariant, LogsOwned
<1>3. NodeKept(<<q, pid[q]>>)
  BY <1>2 DEF EntriesFollowRegistration, NodeKept
<1>4. MappingTypeOK'
  BY <1>1 DEF MappingTypeOK
<1>5. \A s : EntriesOf(s)' = EntriesOf(s)
  BY <1>1 DEF EntriesOf
<1>6. EntriesFollowRegistration'
  BY <1>1, <1>5 DEF EntriesFollowRegistration, Entries
<1>7. \A n \in interested' \ forgotten' : NodeKept(n)'
  BY <1>1, <1>3, <1>5 DEF NodeKept
<1> QED
  BY <1>4, <1>6, <1>7

(* A process that ends, or marks its logs once its pid is registered.      *)
LEMMA SubscriptionStepMapping ==
    ASSUME MappingInvariant, prepared' \in SUBSET Processes, SubscriptionStep
    PROVE  MappingInvariant'
<1>1. /\ \A q \in prepared' \ prepared : reg[q].at = "registered"
      /\ reg' = [q \in Processes |-> IF q \in prepared \ prepared' THEN Idle ELSE reg[q]]
      /\ pid' = [q \in Processes |-> IF q \in prepared \ prepared' THEN pid[q] + 1 ELSE pid[q]]
      /\ UNCHANGED <<mapping, interested, forgotten>>
  BY DEF SubscriptionStep
<1>2. MappingTypeOK'
  <2>1. Idle \in [at : {"idle", "scan", "claimed", "notify", "registered"},
                  entry : 0 .. NumEntries, pass : Nat, old : Nat]
    BY MappingAssumption DEF Idle
  <2> QED
    BY <1>1, <2>1 DEF MappingInvariant, MappingTypeOK
<1>3. ASSUME NEW q \in Processes
      PROVE  \/ /\ reg'[q] = reg[q] /\ pid'[q] = pid[q]
                /\ q \in prepared' => q \in prepared \/ reg[q].at = "registered"
             \/ /\ reg'[q].at = "idle" /\ q \notin prepared'
                /\ reg[q].at = "notify" => <<q, reg[q].old>> \in forgotten'
  <2>1. CASE q \in prepared \ prepared'
    BY <1>1, <2>1 DEF MappingInvariant, EntriesFollowRegistration, Idle
  <2>2. CASE q \notin prepared \ prepared'
    BY <1>1, <2>2
  <2> QED
    BY <2>1, <2>2
<1> QED
  BY <1>1, <1>2, <1>3, MappingKept

(* The steps that only register leave the subscriptions as they are.       *)
LEMMA SubscriptionsKept ==
    ASSUME TypeOK, SubscriptionInvariant, UNCHANGED subscriptionVars,
           crashes' \in 0 .. MaxCrashes
    PROVE  TypeOK' /\ SubscriptionInvariant'
<1> USE DEF subscriptionVars, logVars, counterVars, procVars, proxyVars
<1>1. TypeOK'
  BY DEF TypeOK, LogTypeOK, CounterTypeOK, ProxyTypeOK
<1>2. SubscriptionInvariant'
  BY DEF SubscriptionInvariant, CounterExact, CountedLogs, LogFollowsProxy, LogsOwned,
         MutexHeld, UsesLog, RollsBack
<1> QED
  BY <1>1, <1>2

(* Subscriptions, entries and the nodes at the provider stay in agreement. *)
LEMMA CreationStep ==
    ASSUME TypeOK, SubscriptionInvariant, MappingInvariant,
           [CreationNext]_<<vars, creationVars>>
    PROVE  TypeOK' /\ SubscriptionInvariant' /\ MappingInvariant'
<1>1. CASE UNCHANGED <<vars, creationVars>>
  <2>1. TypeOK' /\ SubscriptionInvariant'
    BY <1>1, Inductive
  <2>2. UNCHANGED <<mapping, reg, pid, interested, forgotten, prepared>>
    BY <1>1 DEF vars, procVars, creationVars, mappingVars
  <2>3. MappingTypeOK'
    BY <2>2 DEF MappingInvariant, MappingTypeOK
  <2> QED
    BY <2>1, <2>2, <2>3, MappingKept
<1>2. CASE SubscriptionStep
  <2>1. TypeOK' /\ SubscriptionInvariant'
    BY <1>2, Inductive DEF SubscriptionStep
  <2> QED
    BY <1>2, <2>1, SubscriptionStepMapping DEF TypeOK, ProxyTypeOK
<1>3. ASSUME NEW q \in Processes,
             \/ TryUpdatePidForExistingUid(q) \/ ClaimEntry(q) \/ NextEntry(q)
             \/ SetStatusAndUidAtomic(q) \/ NotifyOutdatedNodeId(q) \/ CrashInRegistration(q)
             \/ SendRegisterEventNotificationMessage(q)
      PROVE  TypeOK' /\ SubscriptionInvariant' /\ MappingInvariant'
  <2>1. UNCHANGED subscriptionVars
    BY <1>3 DEF TryUpdatePidForExistingUid, ClaimEntry, NextEntry, SetStatusAndUidAtomic,
       NotifyOutdatedNodeId, CrashInRegistration, SendRegisterEventNotificationMessage
  <2>2. crashes' = crashes \/ (crashes' = crashes + 1 /\ crashes < MaxCrashes)
    BY <1>3 DEF TryUpdatePidForExistingUid, ClaimEntry, NextEntry, SetStatusAndUidAtomic,
       NotifyOutdatedNodeId, CrashInRegistration, SendRegisterEventNotificationMessage,
       ProcessEnds
  <2>3. crashes' \in 0 .. MaxCrashes
    BY <2>2, SubscriptionAssumption DEF TypeOK, CounterTypeOK
  <2>4. TypeOK' /\ SubscriptionInvariant'
    BY <2>1, <2>3, SubscriptionsKept
  <2>5. MappingInvariant'
    BY <1>3, TryUpdateMapping, ClaimMapping, ScanMapping, SetStatusMapping, NotifyMapping,
       SendRegisterMapping
  <2> QED
    BY <2>4, <2>5
<1> QED
  BY <1>1, <1>2, <1>3 DEF CreationNext

(* What the mapping says of registered processes and outdated nodes.       *)
LEMMA MappingReports ==
    ASSUME MappingInvariant, prepared \in SUBSET Processes
    PROVE  RestartsAreReported
<1>1. ASSUME NEW q \in Processes PROVE Cardinality(EntriesOf(q)) <= 1
  <2>1. CASE EntriesOf(q) = {}
    BY <2>1, FS_EmptySet
  <2>2. CASE EntriesOf(q) # {}
    <3>1. PICK i \in EntriesOf(q) : EntriesOf(q) = {i}
      BY <2>2 DEF MappingInvariant, EntriesFollowRegistration
    <3>2. Cardinality({i}) = 1
      BY FS_Singleton
    <3> QED
      BY <3>1, <3>2
  <2> QED
    BY <2>1, <2>2
<1>2. ASSUME NEW q \in prepared
      PROVE  \E i \in EntriesOf(q) : mapping[i].status = "used" /\ mapping[i].pid = pid[q]
  <2>1. q \in Processes
    BY <1>2
  <2> QED
    BY <2>1, <1>2 DEF MappingInvariant, EntriesFollowRegistration
<1>3. EntriesAreOwned
  BY <1>1, <1>2 DEF EntriesAreOwned
<1>4. OutdatedNodesAreReported
  BY DEF OutdatedNodesAreReported, MappingInvariant, NodeKept
<1> QED
  BY <1>3, <1>4 DEF RestartsAreReported

(* A process that is restarted finds its entry, at most one, whatever      *)
(* registers or crashes at the same time, and a node the provider should   *)
(* forget is in the mapping or about to be reported, unless its process    *)
(* crashed between the two (UidPidMapping::RegisterPid, Proxy::Create),    *)
(* for any number of processes and entries.                                *)
THEOREM RestartsReachProvider == CreationSpec => []RestartsAreReported
<1>1. CreationInit => TypeOK /\ SubscriptionInvariant /\ MappingInvariant
  BY CreationInitOK
<1>2. TypeOK /\ SubscriptionInvariant /\ MappingInvariant /\ [CreationNext]_<<vars, creationVars>>
        => (TypeOK /\ SubscriptionInvariant /\ MappingInvariant)'
  BY CreationStep
<1>3. TypeOK /\ MappingInvariant => RestartsAreReported
  BY MappingReports DEF TypeOK, ProxyTypeOK
<1> QED
  BY <1>1, <1>2, <1>3, PTL DEF CreationSpec

(* The same of the behaviours that are model-checked, which register pids  *)
(* or leave them aside.                                                    *)
THEOREM RestartsAreAlwaysReported == MCSpec => []RestartsReported
<1> DEFINE I == TypeOK /\ SubscriptionInvariant /\ (registers => MappingInvariant) /\ registers \in BOOLEAN
<1>1. MCInit => I
  BY CreationInitOK DEF MCInit
<1>2. I /\ [MCNext]_<<vars, creationVars, registers>> => I'
  <2> SUFFICES ASSUME I, [MCNext]_<<vars, creationVars, registers>> PROVE I'
    OBVIOUS
  <2>1. CASE ~registers /\ ~registers' /\ [Next]_vars /\ registers' = registers
    <3>1. TypeOK' /\ SubscriptionInvariant'
      BY <2>1, Inductive
    <3> QED
      BY <2>1, <3>1
  <2>2. CASE registers /\ [CreationNext]_<<vars, creationVars>> /\ registers' = registers
    <3>1. TypeOK' /\ SubscriptionInvariant' /\ MappingInvariant'
      BY <2>2, CreationStep
    <3> QED
      BY <2>2, <3>1
  <2>3. registers' = registers
    BY DEF MCNext
  <2>4. ~registers => [Next]_vars
    BY DEF MCNext
  <2>5. registers => [CreationNext]_<<vars, creationVars>>
    BY DEF MCNext
  <2> QED
    BY <2>1, <2>2, <2>3, <2>4, <2>5
<1>3. I => RestartsReported
  BY MappingReports DEF RestartsReported, TypeOK, ProxyTypeOK
<1> QED
  BY <1>1, <1>2, <1>3, PTL DEF MCSpec
=============================================================================
