--------------------- MODULE DiscoveryAndRestartProofs ---------------------
(***************************************************************************)
(* Theorems about the two parts that meet in the file system: the life of  *)
(* an instance's shared memory (PartialRestart), and the discovery of the  *)
(* instances of a service (ServiceDiscovery), for any number of processes, *)
(* restarts, instances, searches and threads.  The two components share no *)
(* state; their proofs are one after the other.                            *)
(*                                                                         *)
(* PartialRestart: RestartInvariant is the inductive invariant, proved in  *)
(* three parts (existence marker, usage marker, memory); the properties    *)
(* hold because of what the two marker files' locks say at every step.     *)
(*                                                                         *)
(* ServiceDiscovery: the inductive invariant has three parts on top of the *)
(* types, each proved step by step with the help of those before.          *)
(***************************************************************************)
EXTENDS PartialRestart, ServiceDiscovery, SequenceTheorems, FiniteSetTheorems,
        NaturalsInduction, WellFoundedInduction, TLAPS

(* The least number of a set of naturals with an element is in it.         *)
LEMMA LeastExists ==
    ASSUME NEW T \in SUBSET Nat, T # {}
    PROVE  Least(T) \in T
<1>1. PICK x \in T : \A y \in T : ~(<<y, x>> \in OpToRel(<, Nat))
  BY NatLessThanWellFounded, WFMin
<1>2. \A y \in T : ~(y < x)
  BY <1>1 DEF OpToRel
<1>3. \A y \in T : x <= y
  BY <1>2
<1> QED
  BY <1>3 DEF Least

(* The orders in which the three objects are made, opened and removed, and *)
(* in which an event goes into them.                                       *)
LEMMA Order ==
    /\ Len(ObjectOrder) = 3 /\ Len(RegisterOrder) = 3
    /\ ObjectOrder[1] = ControlQm /\ ObjectOrder[2] = ControlB /\ ObjectOrder[3] = Data
    /\ RegisterOrder[1] = Data /\ RegisterOrder[2] = ControlQm /\ RegisterOrder[3] = ControlB
    /\ \A i \in 1 .. 3 : ObjectOrder[i] \in Objects /\ RegisterOrder[i] \in Objects
    /\ ControlQm # ControlB /\ ControlQm # Data /\ ControlB # Data
    /\ Objects = {ControlQm, ControlB, Data}
BY DEF ObjectOrder, RegisterOrder, Objects, ControlQm, ControlB, Data

(* The lock of the existence marker is one skeleton's at a time.           *)
LEMMA Alone ==
    ASSUME MarkerHeld, NEW j \in Skeletons, NEW k \in Skeletons, Providing(j), Providing(k)
    PROVE  j = k
BY DEF MarkerHeld, Providing

(* Inodes are numbered from 1 and generations from 0, which is no memory.  *)
LEMMA InodesNumbered ==
    /\ Inodes \in SUBSET (Nat \ {0}) /\ 1 \in Inodes /\ 0 \notin Inodes
    /\ Generations \in SUBSET Nat /\ 0 \in Generations /\ NoMap \in [Objects -> Generations]
<1>1. Cardinality(Skeletons) \in Nat
  BY RestartAssumption, FS_CardinalityType
<1> QED
  BY <1>1, RestartAssumption DEF Inodes, Generations, NoMap

(* A skeleton that makes or removes memory has the usage marker to itself, *)
(* so no proxy is on the memory, or on its way to it.                      *)
LEMMA NoUsers ==
    ASSUME TypeOK, UsageHeld, NEW k \in Skeletons, spc[k] \in {"stale", "create", "remove"}
    PROVE  usageS = {} /\ \A p \in Proxies : ppc[p] = "none"
<1>1. usageX = k /\ k # None
  BY RestartAssumption DEF UsageHeld
<1>2. usageS = {}
  BY <1>1 DEF UsageHeld
<1> QED
  BY <1>2 DEF UsageHeld

-----------------------------------------------------------------------------
(* The inductive invariant, in three parts: the existence marker, the      *)
(* usage marker, and the memory.                                           *)

MarkerTyped ==
    /\ linked \in Inodes \union {0}
    /\ locked \in [Inodes -> Skeletons \union {None}]
    /\ inode \in [Skeletons -> Inodes \union {0}]
    /\ spc \in [Skeletons -> SkelStates]

UsageTyped ==
    /\ usageExists \in BOOLEAN
    /\ usageX \in Skeletons \union {None} /\ usageS \subseteq Proxies
    /\ ppc \in [Proxies -> ProxyStates] /\ crashes \in 0 .. MaxCrashes

MemoryTyped ==
    /\ shm \in [Objects -> Generations]
    /\ registered \subseteq Objects \X (Generations \ {0})
    /\ skeletonPid \in [Generations -> Skeletons \union {None}]
    /\ step \in [Skeletons -> 1 .. 3]
    /\ mapped \in [Skeletons -> [Objects -> Generations]]
    /\ reopened \in [Skeletons -> BOOLEAN]
    /\ control \in [Proxies -> Generations] /\ data \in [Proxies -> Generations]

MemoryHeld == OneGeneration /\ RegisteredInOrder /\ UsersOnMemory /\ ProviderOnMemory

(* The parts are the type invariant and the invariant.                     *)
LEMMA Parts ==
    TypeOK /\ RestartInvariant <=>
        /\ MarkerTyped /\ UsageTyped /\ MemoryTyped
        /\ MarkerHeld /\ UsageHeld /\ MemoryHeld
BY DEF TypeOK, RestartInvariant, MarkerTyped, UsageTyped, MemoryTyped, MemoryHeld

(* The existence marker: whoever opens it while a skeleton exists opens    *)
(* that skeleton's file.                                                   *)
LEMMA MarkerStep ==
    ASSUME MarkerTyped, MarkerHeld, ~OverlappingExit, [Next]_vars
    PROVE  (MarkerTyped /\ MarkerHeld)'
<1> USE RestartAssumption, InodesNumbered
<1>1. CASE UNCHANGED <<linked, locked, inode, spc>>
  BY <1>1 DEF MarkerTyped, MarkerHeld, Providing
<1>2. ASSUME NEW k \in Skeletons, OpenExistenceMarker(k) PROVE (MarkerTyped /\ MarkerHeld)'
  <2> DEFINE F == {j \in Inodes : \A l \in Skeletons : inode[l] # j}
  <2>0. /\ spc[k] = "none" /\ spc' = [spc EXCEPT ![k] = "opened"] /\ UNCHANGED locked
        /\ \A j \in Skeletons : spc[j] # "unlocked"
    BY <1>2 DEF OpenExistenceMarker, SkelGoes
  <2>1. CASE linked = 0
    <3>1. \A l \in Skeletons : spc[l] = "none" /\ inode[l] = 0
      BY <2>1 DEF MarkerHeld
    <3>2. F \in SUBSET Nat /\ F # {}
      BY <3>1
    <3>3. Least(F) \in Inodes
      BY <3>2, LeastExists
    <3>4. linked' = Least(F) /\ inode' = [inode EXCEPT ![k] = Least(F)]
      BY <1>2, <2>1 DEF OpenExistenceMarker
    <3>5. MarkerTyped'
      BY <2>0, <3>3, <3>4 DEF MarkerTyped, SkelStates
    <3>6. MarkerHeld'
      BY <2>0, <3>1, <3>3, <3>4 DEF MarkerTyped, MarkerHeld, Providing
    <3> QED
      BY <3>5, <3>6
  <2>2. CASE linked # 0
    <3>1. linked' = linked /\ inode' = [inode EXCEPT ![k] = linked]
      BY <1>2, <2>2 DEF OpenExistenceMarker
    <3>2. MarkerTyped'
      BY <2>0, <3>1 DEF MarkerTyped, SkelStates
    <3>3. MarkerHeld'
      BY <2>0, <2>2, <3>1 DEF MarkerTyped, MarkerHeld, Providing
    <3> QED
      BY <3>2, <3>3
  <2> QED
    BY <2>1, <2>2
<1>3. ASSUME NEW k \in Skeletons, LockExistenceMarker(k) PROVE (MarkerTyped /\ MarkerHeld)'
  <2>0. inode[k] = linked /\ linked # 0 /\ linked \in Inodes
    BY <1>3 DEF LockExistenceMarker, MarkerHeld, MarkerTyped
  <2>1. CASE locked[inode[k]] = None
    <3>1. \A j \in Skeletons : ~Providing(j)
      BY <2>0, <2>1 DEF MarkerHeld, Providing
    <3>2. /\ locked' = [locked EXCEPT ![inode[k]] = k] /\ spc' = [spc EXCEPT ![k] = "created"]
          /\ UNCHANGED <<inode, linked>> /\ spc[k] = "opened"
      BY <1>3, <2>1 DEF LockExistenceMarker
    <3>3. \A j \in Skeletons : Providing(j)' => j = k
      BY <3>1, <3>2 DEF Providing, MarkerTyped
    <3> QED
      BY <2>0, <3>2, <3>3 DEF MarkerHeld, MarkerTyped, SkelStates
  <2>2. CASE locked[inode[k]] # None
    BY <1>3, <2>0, <2>2 DEF LockExistenceMarker, MarkerHeld, Providing, MarkerTyped, SkelStates
  <2> QED
    BY <2>1, <2>2
<1>4. ASSUME NEW k \in Skeletons, UnlockExistenceMarker(k) PROVE (MarkerTyped /\ MarkerHeld)'
  <2>1. /\ spc[k] = "created" /\ spc' = [spc EXCEPT ![k] = "unlocked"]
        /\ locked' = [locked EXCEPT ![inode[k]] = None] /\ UNCHANGED <<linked, inode>>
        /\ \A j \in Skeletons : spc[j] # "opened"
    BY <1>4 DEF UnlockExistenceMarker, SkelGoes
  <2>2. \A j \in Skeletons \ {k} : spc[j] = "none"
    BY <2>1, Alone DEF MarkerHeld, Providing
  <2> QED
    BY <2>1, <2>2 DEF MarkerHeld, Providing, MarkerTyped, SkelStates
<1>5. ASSUME NEW k \in Skeletons, UnlinkExistenceMarker(k) PROVE (MarkerTyped /\ MarkerHeld)'
  BY <1>5 DEF UnlinkExistenceMarker, SkelGoes, MarkerHeld, Providing, MarkerTyped, SkelStates
<1>6. ASSUME NEW k \in Skeletons, Die(k), spc[k] # "none", UNCHANGED linked
      PROVE  (MarkerTyped /\ MarkerHeld)'
  BY <1>6 DEF Die, MarkerHeld, Providing, MarkerTyped, SkelStates
<1>7. ASSUME NEW k \in Skeletons, Providing(k), UNCHANGED <<linked, locked, inode>>,
             \E s \in SkelStates \ {"none", "opened", "unlocked"} :
                 spc' = [spc EXCEPT ![k] = s] \/ spc' = spc
      PROVE  (MarkerTyped /\ MarkerHeld)'
  BY <1>7 DEF MarkerHeld, Providing, MarkerTyped
<1>8. ASSUME NEW k \in Skeletons,
             \/ PrepareOffer(k) \/ RemoveStale(k) \/ CreateSharedMemory(k) \/ CreateFails(k)
             \/ OpenSharedMemory(k) \/ Offer(k) \/ StopOffer(k) \/ PrepareStopOffer(k)
             \/ RemoveSharedMemory(k)
      PROVE  (MarkerTyped /\ MarkerHeld)'
  <2>1. Providing(k) /\ UNCHANGED <<linked, locked, inode>>
    BY <1>8 DEF PrepareOffer, RemoveStale, CreateSharedMemory, CreateFails, OpenSharedMemory,
       Offer, StopOffer, PrepareStopOffer, RemoveSharedMemory, SkelGoes, Providing, fileVars
  <2>2. \/ spc' = spc \/ spc' = [spc EXCEPT ![k] = "stale"] \/ spc' = [spc EXCEPT ![k] = "open"]
        \/ spc' = [spc EXCEPT ![k] = "create"] \/ spc' = [spc EXCEPT ![k] = "prepared"]
        \/ spc' = [spc EXCEPT ![k] = "created"] \/ spc' = [spc EXCEPT ![k] = "offered"]
        \/ spc' = [spc EXCEPT ![k] = "unflagged"] \/ spc' = [spc EXCEPT ![k] = "remove"]
    BY <1>8 DEF PrepareOffer, RemoveStale, CreateSharedMemory, CreateFails, OpenSharedMemory,
       Offer, StopOffer, PrepareStopOffer, RemoveSharedMemory, SkelGoes
  <2> QED
    BY <1>7, <2>1, <2>2 DEF SkelStates
<1>9. ASSUME NEW k \in Skeletons, RegisterEvents(k) PROVE (MarkerTyped /\ MarkerHeld)'
  <2>1. CASE Die(k)
    BY <1>6, <1>9, <2>1 DEF RegisterEvents
  <2>2. CASE ~Die(k)
    <3>1. UNCHANGED <<linked, locked, inode>> /\ Providing(k)
          /\ (spc' = spc \/ spc' = [spc EXCEPT ![k] = "registered"])
      BY <1>9, <2>2 DEF RegisterEvents, Providing
    <3> QED
      BY <1>7, <3>1 DEF SkelStates
  <2> QED
    BY <2>1, <2>2
<1>10. ASSUME NEW k \in Skeletons, SkeletonCrash(k) PROVE (MarkerTyped /\ MarkerHeld)'
  BY <1>6, <1>10 DEF SkeletonCrash
<1>11. ASSUME NEW p \in Proxies, ProxyStep(p) PROVE UNCHANGED <<linked, locked, inode, spc>>
  BY <1>11 DEF ProxyStep, LockUsageMarker, OpenControl, OpenData, Connect, FindEvents,
     Disconnect, fileVars, skelVars
<1>12. UNCHANGED vars => UNCHANGED <<linked, locked, inode, spc>>
  BY DEF vars, fileVars, skelVars
<1>13. ASSUME NEW k \in Skeletons, SkeletonStep(k) PROVE (MarkerTyped /\ MarkerHeld)'
  BY <1>2, <1>3, <1>4, <1>5, <1>8, <1>9, <1>10, <1>13 DEF SkeletonStep
<1> QED
  BY <1>1, <1>11, <1>12, <1>13 DEF Next

(* The usage marker: it is locked exclusively only where the memory is     *)
(* made or removed, and shared by the proxies.                             *)
LEMMA UsageStep ==
    ASSUME TypeOK, UsageHeld, [Next]_vars
    PROVE  (UsageTyped /\ UsageHeld)'
<1> USE RestartAssumption
<1> DEFINE Taken == {"stale", "create", "remove"}
<1>0. UsageTyped /\ spc \in [Skeletons -> SkelStates] /\ step \in [Skeletons -> 1 .. 3]
  BY DEF TypeOK, UsageTyped
<1>1. ASSUME NEW k \in Skeletons, UNCHANGED <<usageX, usageS, ppc>>,
             usageExists' \in BOOLEAN, crashes' \in 0 .. MaxCrashes,
             \A j \in Skeletons : spc'[j] \in Taken <=> spc[j] \in Taken
      PROVE  (UsageTyped /\ UsageHeld)'
  BY <1>0, <1>1 DEF UsageTyped, UsageHeld
<1>2. ASSUME NEW k \in Skeletons, UNCHANGED <<usageS, ppc>>,
             usageX = None \/ usageX = k, usageX = None => usageS = {},
             usageExists' \in BOOLEAN, crashes' \in 0 .. MaxCrashes,
             usageX' = IF spc'[k] \in Taken THEN k ELSE None,
             \A j \in Skeletons \ {k} : spc'[j] = spc[j]
      PROVE  (UsageTyped /\ UsageHeld)'
  <2>1. usageS = {}
    BY <1>2 DEF UsageHeld
  <2>2. \A j \in Skeletons \ {k} : spc[j] \notin Taken
    BY <1>2 DEF UsageHeld
  <2> QED
    BY <1>0, <1>2, <2>1, <2>2 DEF UsageTyped, UsageHeld
<1>3. ASSUME NEW k \in Skeletons, Die(k), UNCHANGED <<usageExists, usageS, ppc>>,
             crashes' \in 0 .. MaxCrashes
      PROVE  (UsageTyped /\ UsageHeld)'
  BY <1>0, <1>3 DEF Die, UsageTyped, UsageHeld
<1>4. CASE UNCHANGED vars
  BY <1>4 DEF vars, usageVars, skelVars, proxyVars, TypeOK, UsageTyped, UsageHeld
<1>5. ASSUME NEW k \in Skeletons,
             \/ OpenExistenceMarker(k) \/ LockExistenceMarker(k)
             \/ UnlockExistenceMarker(k) \/ UnlinkExistenceMarker(k)
             \/ OpenSharedMemory(k) \/ Offer(k) \/ StopOffer(k)
      PROVE  (UsageTyped /\ UsageHeld)'
  <2>1. UNCHANGED <<usageX, usageS, ppc, usageExists, crashes>>
    BY <1>5 DEF OpenExistenceMarker, LockExistenceMarker, UnlockExistenceMarker,
       UnlinkExistenceMarker, OpenSharedMemory, Offer, StopOffer, usageVars, proxyVars
  <2>2. spc[k] \notin Taken /\ spc'[k] \notin Taken /\ \A j \in Skeletons \ {k} : spc'[j] = spc[j]
    BY <1>0, <1>5 DEF OpenExistenceMarker, LockExistenceMarker, UnlockExistenceMarker,
       UnlinkExistenceMarker, OpenSharedMemory, Offer, StopOffer, SkelGoes
  <2> QED
    BY <1>0, <1>1, <2>1, <2>2 DEF UsageTyped
<1>6. ASSUME NEW k \in Skeletons,
             \/ PrepareOffer(k) \/ PrepareStopOffer(k)
      PROVE  (UsageTyped /\ UsageHeld)'
  <2>1. UNCHANGED <<usageS, ppc, crashes>> /\ usageExists' \in BOOLEAN
    BY <1>0, <1>6 DEF PrepareOffer, PrepareStopOffer, proxyVars, UsageTyped
  <2>2. spc[k] \notin Taken /\ \A j \in Skeletons \ {k} : spc'[j] = spc[j]
    BY <1>0, <1>6 DEF PrepareOffer, PrepareStopOffer
  <2>3. CASE UsageFree
    BY <1>0, <1>2, <1>6, <2>1, <2>2, <2>3
       DEF PrepareOffer, PrepareStopOffer, UsageFree, UsageTyped
  <2>4. CASE ~UsageFree
    <3>1. UNCHANGED usageX /\ spc'[k] \notin Taken
      BY <1>0, <1>6, <2>4 DEF PrepareOffer, PrepareStopOffer
    <3> QED
      BY <1>0, <1>1, <2>1, <2>2, <3>1 DEF UsageTyped
  <2> QED
    BY <2>3, <2>4
<1>7. ASSUME NEW k \in Skeletons,
             \/ RemoveStale(k) \/ CreateSharedMemory(k) \/ CreateFails(k)
             \/ RemoveSharedMemory(k)
      PROVE  (UsageTyped /\ UsageHeld)'
  <2>1. UNCHANGED <<usageS, ppc, usageExists, crashes>>
    BY <1>7 DEF RemoveStale, CreateSharedMemory, CreateFails, RemoveSharedMemory, usageVars,
       proxyVars
  <2>2. spc[k] \in Taken /\ \A j \in Skeletons \ {k} : spc'[j] = spc[j]
    BY <1>0, <1>7
       DEF RemoveStale, CreateSharedMemory, CreateFails, RemoveSharedMemory, SkelGoes
  <2>3. usageX = k /\ k # None
    BY <2>2 DEF UsageHeld
  <2>4. usageX' = IF spc'[k] \in Taken THEN k ELSE None
    BY <1>0, <1>7, <2>2, <2>3
       DEF RemoveStale, CreateSharedMemory, CreateFails, RemoveSharedMemory, SkelGoes, usageVars
  <2> QED
    BY <1>0, <1>2, <2>1, <2>2, <2>3, <2>4 DEF UsageTyped
<1>8. ASSUME NEW k \in Skeletons, RegisterEvents(k) PROVE (UsageTyped /\ UsageHeld)'
  <2>1. UNCHANGED <<usageExists, usageS, ppc, crashes>>
    BY <1>8 DEF RegisterEvents, proxyVars
  <2>2. CASE Die(k)
    BY <1>0, <1>3, <2>1, <2>2 DEF UsageTyped
  <2>3. CASE ~Die(k)
    <3>1. UNCHANGED usageX /\ spc[k] = "prepared"
          /\ (spc' = spc \/ spc' = [spc EXCEPT ![k] = "registered"])
      BY <1>8, <2>3 DEF RegisterEvents
    <3> QED
      BY <1>0, <1>1, <2>1, <3>1 DEF UsageTyped
  <2> QED
    BY <2>2, <2>3
<1>9. ASSUME NEW k \in Skeletons, SkeletonCrash(k) PROVE (UsageTyped /\ UsageHeld)'
  <2>1. UNCHANGED <<usageExists, usageS, ppc>> /\ crashes' \in 0 .. MaxCrashes
    BY <1>0, <1>9 DEF SkeletonCrash, proxyVars, UsageTyped
  <2> QED
    BY <1>3, <1>9, <2>1 DEF SkeletonCrash
<1>10. ASSUME NEW p \in Proxies, ProxyStep(p) PROVE (UsageTyped /\ UsageHeld)'
  <2>1. UNCHANGED <<usageExists, usageX, spc>>
    BY <1>10 DEF ProxyStep, LockUsageMarker, OpenControl, OpenData, Connect, FindEvents,
       Disconnect, usageVars, skelVars
  <2>2. crashes' \in 0 .. MaxCrashes
    BY <1>0, <1>10 DEF ProxyStep, LockUsageMarker, OpenControl, OpenData, Connect, FindEvents,
       Disconnect, UsageTyped
  <2>3. CASE LockUsageMarker(p)
    BY <1>0, <2>1, <2>2, <2>3
       DEF LockUsageMarker, ProxyGoes, UsageTyped, UsageHeld, ProxyStates
  <2>4. CASE OpenControl(p) \/ OpenData(p) \/ Connect(p) \/ FindEvents(p)
    <3>1. UNCHANGED usageS /\ ppc[p] # "none"
          /\ \E s \in ProxyStates \ {"none"} : ppc' = [ppc EXCEPT ![p] = s]
      BY <2>4 DEF OpenControl, OpenData, Connect, FindEvents, ProxyGoes, usageVars, ProxyStates
    <3> QED
      BY <1>0, <2>1, <2>2, <3>1 DEF UsageTyped, UsageHeld
  <2>5. CASE Disconnect(p)
    <3>1. /\ ppc' = [ppc EXCEPT ![p] = "none"] /\ usageS' = usageS \ {p}
      BY <2>5 DEF Disconnect
    <3>2. (UsageTyped)'
      BY <1>0, <2>1, <2>2, <3>1 DEF UsageTyped, ProxyStates
    <3>3. (UsageHeld)'
      BY <1>0, <2>1, <3>1 DEF UsageTyped, UsageHeld
    <3> QED
      BY <3>2, <3>3
  <2> QED
    BY <1>10, <2>3, <2>4, <2>5 DEF ProxyStep
<1> QED
  BY <1>4, <1>5, <1>6, <1>7, <1>8, <1>9, <1>10 DEF Next, SkeletonStep

-----------------------------------------------------------------------------
(* The memory, action by action.                                           *)

(* A skeleton that has nothing to do with the memory, or no longer, leaves *)
(* it as it is; a process that ends takes only its own pid with it.        *)
LEMMA QuietSkeleton ==
    ASSUME TypeOK, RestartInvariant, NEW k \in Skeletons,
           UNCHANGED <<shm, registered, proxyVars>>,
           skeletonPid' \in [Generations -> Skeletons \union {None}],
           \A g \in Generations : skeletonPid'[g] = skeletonPid[g] \/ skeletonPid[g] = k,
           spc'[k] \notin {"stale", "create", "open", "prepared", "registered", "offered"},
           \A j \in Skeletons \ {k} :
               spc'[j] = spc[j] /\ step'[j] = step[j] /\ mapped'[j] = mapped[j],
           step' \in [Skeletons -> 1 .. 3], mapped' \in [Skeletons -> [Objects -> Generations]],
           reopened' \in [Skeletons -> BOOLEAN]
    PROVE  (MemoryTyped /\ MemoryHeld)'
<1>0. UNCHANGED <<ppc, control, data>>
  BY DEF proxyVars
<1>1. MemoryTyped'
  BY <1>0 DEF MemoryTyped, TypeOK
<1>2. OneGeneration' /\ RegisteredInOrder'
  BY DEF RestartInvariant, OneGeneration, RegisteredInOrder
<1>3. UsersOnMemory'
  BY <1>0 DEF RestartInvariant, UsersOnMemory, Connected
<1>4. ProviderOn(k)' /\ PidOf(k)'
  BY DEF ProviderOn, PidOf, HasMemory
<1>5. ASSUME NEW j \in Skeletons \ {k} PROVE ProviderOn(j)' /\ PidOf(j)'
  <2>1. ProviderOn(j) /\ PidOf(j)
    BY DEF RestartInvariant, ProviderOnMemory
  <2>2. ProviderOn(j)'
    BY <2>1 DEF ProviderOn, HasMemory
  <2>3. PidOf(j)'
    <3>1. HasMemory(j)' = HasMemory(j) /\ mapped'[j] = mapped[j]
      BY DEF HasMemory
    <3>2. mapped[j][Data] \in Generations
      BY Order DEF TypeOK
    <3> QED
      BY <2>1, <3>1, <3>2 DEF PidOf
  <2> QED
    BY <2>2, <2>3
<1> QED
  BY <1>1, <1>2, <1>3, <1>4, <1>5 DEF MemoryHeld, ProviderOnMemory

(* A skeleton at work on the memory is the only one.                       *)
LEMMA BusySkeleton ==
    ASSUME TypeOK, RestartInvariant, NEW k \in Skeletons, Providing(k),
           \A j \in Skeletons \ {k} : spc'[j] = spc[j],
           OneGeneration', RegisteredInOrder', UsersOnMemory', ProviderOn(k)', PidOf(k)'
    PROVE  MemoryHeld'
<1>1. ASSUME NEW j \in Skeletons \ {k} PROVE ProviderOn(j)' /\ PidOf(j)'
  <2>1. ~Providing(j)
    BY Alone DEF RestartInvariant
  <2> QED
    BY <2>1 DEF Providing, ProviderOn, PidOf, HasMemory
<1> QED
  BY <1>1 DEF MemoryHeld, ProviderOnMemory

(* The steps around the marker files, and those that only give memory up.  *)
LEMMA QuietSteps ==
    ASSUME TypeOK, RestartInvariant, NEW k \in Skeletons,
           \/ OpenExistenceMarker(k) \/ LockExistenceMarker(k)
           \/ UnlockExistenceMarker(k) \/ UnlinkExistenceMarker(k)
           \/ CreateFails(k) \/ StopOffer(k) \/ PrepareStopOffer(k)
    PROVE  (MemoryTyped /\ MemoryHeld)'
<1> USE DEF OpenExistenceMarker, LockExistenceMarker, UnlockExistenceMarker,
            UnlinkExistenceMarker, CreateFails, StopOffer, PrepareStopOffer, SkelGoes
<1>0. /\ spc \in [Skeletons -> SkelStates] /\ step \in [Skeletons -> 1 .. 3]
      /\ mapped \in [Skeletons -> [Objects -> Generations]]
      /\ skeletonPid \in [Generations -> Skeletons \union {None}]
  BY DEF TypeOK
<1>1. UNCHANGED <<shm, registered, skeletonPid, proxyVars, reopened>>
  BY DEF memVars
<1>2. /\ spc'[k] \notin {"stale", "create", "open", "prepared", "registered", "offered"}
      /\ \A j \in Skeletons \ {k} : spc'[j] = spc[j]
  BY <1>0
<1>3. /\ step' \in [Skeletons -> 1 .. 3]
      /\ \A j \in Skeletons \ {k} : step'[j] = step[j]
  BY <1>0
<1>4. /\ mapped' \in [Skeletons -> [Objects -> Generations]]
      /\ \A j \in Skeletons \ {k} : mapped'[j] = mapped[j]
  BY <1>0, InodesNumbered
<1>5. reopened' \in [Skeletons -> BOOLEAN]
  BY <1>1 DEF TypeOK
<1> QED
  BY <1>0, <1>1, <1>2, <1>3, <1>4, <1>5, QuietSkeleton

(* A process that ends.                                                    *)
LEMMA DieStep ==
    ASSUME TypeOK, RestartInvariant, NEW k \in Skeletons, Die(k),
           UNCHANGED <<shm, registered, reopened, proxyVars>>
    PROVE  (MemoryTyped /\ MemoryHeld)'
<1>0. /\ spc \in [Skeletons -> SkelStates] /\ step \in [Skeletons -> 1 .. 3]
      /\ mapped \in [Skeletons -> [Objects -> Generations]]
      /\ skeletonPid \in [Generations -> Skeletons \union {None}]
      /\ reopened' \in [Skeletons -> BOOLEAN]
  BY DEF TypeOK
<1>1. /\ skeletonPid' \in [Generations -> Skeletons \union {None}]
      /\ \A g \in Generations : skeletonPid'[g] = skeletonPid[g] \/ skeletonPid[g] = k
  BY <1>0 DEF Die
<1>2. /\ spc'[k] = "none" /\ step' \in [Skeletons -> 1 .. 3]
      /\ mapped' \in [Skeletons -> [Objects -> Generations]]
      /\ \A j \in Skeletons \ {k} :
             spc'[j] = spc[j] /\ step'[j] = step[j] /\ mapped'[j] = mapped[j]
  BY <1>0, InodesNumbered DEF Die
<1> QED
  BY <1>0, <1>1, <1>2, QuietSkeleton

(* An offer begins: nothing is removed or opened yet.                      *)
LEMMA PrepareOfferStep ==
    ASSUME TypeOK, RestartInvariant, NEW k \in Skeletons, PrepareOffer(k)
    PROVE  (MemoryTyped /\ MemoryHeld)'
<1>0. /\ spc[k] = "created" /\ UNCHANGED <<shm, registered, skeletonPid, mapped, ppc, control, data>>
      /\ step' = [step EXCEPT ![k] = 1] /\ reopened' = [reopened EXCEPT ![k] = ~UsageFree]
      /\ spc' = [spc EXCEPT ![k] = "stale"] \/ spc' = [spc EXCEPT ![k] = "open"]
  BY DEF PrepareOffer, memVars, proxyVars
<1>1. MemoryTyped'
  BY <1>0 DEF MemoryTyped, TypeOK, UsageFree
<1>2. OneGeneration' /\ RegisteredInOrder'
  BY <1>0 DEF RestartInvariant, OneGeneration, RegisteredInOrder
<1>3. UsersOnMemory'
  BY <1>0 DEF RestartInvariant, UsersOnMemory, Connected
<1>4. /\ spc'[k] \in {"stale", "open"} /\ step'[k] = 1 /\ Providing(k)
      /\ \A j \in Skeletons \ {k} : spc'[j] = spc[j]
  BY <1>0 DEF TypeOK, Providing
<1>5. ProviderOn(k)' /\ PidOf(k)'
  BY <1>4 DEF ProviderOn, PidOf, HasMemory
<1> QED
  BY <1>1, <1>2, <1>3, <1>4, <1>5, BusySkeleton

(* The removal of an object by the skeleton that has the usage marker to   *)
(* itself.                                                                 *)
LEMMA RemoveObject ==
    ASSUME TypeOK, RestartInvariant, NEW k \in Skeletons, NEW o \in Objects, Remove(o),
           spc[k] \in {"stale", "remove"}, UNCHANGED proxyVars
    PROVE  /\ OneGeneration' /\ RegisteredInOrder' /\ UsersOnMemory'
           /\ shm' \in [Objects -> Generations]
           /\ registered' \subseteq Objects \X (Generations \ {0})
           /\ skeletonPid' \in [Generations -> Skeletons \union {None}]
           /\ shm'[o] = 0 /\ \A q \in Objects : shm[q] = 0 => shm'[q] = 0
<1>0. /\ shm \in [Objects -> Generations] /\ registered \subseteq Objects \X (Generations \ {0})
      /\ skeletonPid \in [Generations -> Skeletons \union {None}]
  BY DEF TypeOK
<1>1. /\ shm' = [shm EXCEPT ![o] = 0] /\ shm' \in [Objects -> Generations]
      /\ shm'[o] = 0 /\ \A q \in Objects \ {o} : shm'[q] = shm[q]
  BY <1>0, InodesNumbered DEF Remove
<1>2. registered' = registered \ (Objects \X (IF o = Data THEN {shm[Data]} ELSE {}))
  BY DEF Remove
<1>3. skeletonPid' \in [Generations -> Skeletons \union {None}]
  BY <1>0 DEF Remove
<1>4. OneGeneration'
  BY <1>1 DEF OneGeneration, RestartInvariant
<1>5. RegisteredInOrder'
  <2>1. CASE o = Data
    <3>1. \A q \in Objects, g \in Generations : <<q, g>> \in registered => g = shm[Data]
      BY DEF RestartInvariant, RegisteredInOrder
    <3>2. \A q \in Objects, g \in Generations : <<q, g>> \notin registered'
      BY <1>2, <2>1, <3>1
    <3> QED
      BY <3>2, Order DEF RegisteredInOrder
  <2>2. CASE o # Data
    <3>1. registered' = registered /\ shm'[Data] = shm[Data]
      BY <1>1, <1>2, <2>2, Order
    <3> QED
      BY <3>1 DEF RestartInvariant, RegisteredInOrder
  <2> QED
    BY <2>1, <2>2
<1>6. UsersOnMemory'
  <2>1. \A p \in Proxies : ppc'[p] = "none"
    BY NoUsers DEF RestartInvariant, proxyVars
  <2> QED
    BY <2>1 DEF UsersOnMemory, Connected
<1> QED
  BY <1>0, <1>1, <1>2, <1>3, <1>4, <1>5, <1>6

(* Memory is removed only while no proxy holds the usage marker.           *)
LEMMA RemoveStaleStep ==
    ASSUME TypeOK, RestartInvariant, NEW k \in Skeletons, RemoveStale(k)
    PROVE  (MemoryTyped /\ MemoryHeld)'
<1> DEFINE o == ObjectOrder[step[k]]
<1>0. /\ spc[k] = "stale" /\ step[k] \in 1 .. 3 /\ o \in Objects /\ Remove(o)
      /\ UNCHANGED <<mapped, reopened, proxyVars>> /\ Providing(k)
  BY Order DEF RemoveStale, TypeOK, Providing
<1>1. \/ step[k] < 3 /\ step' = [step EXCEPT ![k] = step[k] + 1] /\ spc' = spc
      \/ step[k] = 3 /\ step' = [step EXCEPT ![k] = 1] /\ spc' = [spc EXCEPT ![k] = "create"]
  BY <1>0, Order DEF RemoveStale
<1>2. /\ OneGeneration' /\ RegisteredInOrder' /\ UsersOnMemory'
      /\ shm' \in [Objects -> Generations]
      /\ registered' \subseteq Objects \X (Generations \ {0})
      /\ skeletonPid' \in [Generations -> Skeletons \union {None}]
      /\ shm'[o] = 0 /\ \A q \in Objects : shm[q] = 0 => shm'[q] = 0
  BY <1>0, RemoveObject
<1>3. MemoryTyped'
  <2>1. step' \in [Skeletons -> 1 .. 3]
    BY <1>0, <1>1 DEF TypeOK
  <2> QED
    BY <1>0, <1>2, <2>1 DEF MemoryTyped, TypeOK, proxyVars
<1>4. \A i \in 1 .. step[k] : shm'[ObjectOrder[i]] = 0
  <2>1. \A i \in 1 .. step[k] - 1 : shm[ObjectOrder[i]] = 0
    BY <1>0 DEF RestartInvariant, ProviderOnMemory, ProviderOn
  <2> QED
    BY <1>0, <1>2, <2>1, Order
<1>5. ProviderOn(k)' /\ PidOf(k)'
  <2>1. CASE step[k] < 3
    <3>1. spc'[k] = "stale" /\ step'[k] - 1 = step[k]
      BY <1>0, <1>1, <2>1 DEF TypeOK
    <3> QED
      BY <1>4, <3>1 DEF ProviderOn, PidOf, HasMemory
  <2>2. CASE step[k] = 3
    <3>1. spc'[k] = "create" /\ step'[k] = 1
      BY <1>1, <2>2 DEF TypeOK
    <3> QED
      BY <1>4, <2>2, <3>1 DEF ProviderOn, PidOf, HasMemory
  <2> QED
    BY <1>0, <2>1, <2>2
<1>6. \A j \in Skeletons \ {k} : spc'[j] = spc[j]
  BY <1>1 DEF TypeOK
<1> QED
  BY <1>0, <1>2, <1>3, <1>5, <1>6, BusySkeleton

(* The memory goes with the offer, object by object.                       *)
LEMMA RemoveSharedMemoryStep ==
    ASSUME TypeOK, RestartInvariant, NEW k \in Skeletons, RemoveSharedMemory(k)
    PROVE  (MemoryTyped /\ MemoryHeld)'
<1> DEFINE o == ObjectOrder[step[k]]
<1>0. /\ spc[k] = "remove" /\ step[k] \in 1 .. 3 /\ o \in Objects /\ Remove(o)
      /\ UNCHANGED <<reopened, proxyVars>> /\ Providing(k)
  BY Order DEF RemoveSharedMemory, TypeOK, Providing
<1>1. \/ /\ step[k] < 3 /\ step' = [step EXCEPT ![k] = step[k] + 1]
         /\ spc' = spc /\ mapped' = mapped
      \/ /\ step' = [step EXCEPT ![k] = 1] /\ spc' = [spc EXCEPT ![k] = "created"]
         /\ mapped' = [mapped EXCEPT ![k] = NoMap]
  BY <1>0, Order DEF RemoveSharedMemory
<1>2. /\ OneGeneration' /\ RegisteredInOrder' /\ UsersOnMemory'
      /\ shm' \in [Objects -> Generations]
      /\ registered' \subseteq Objects \X (Generations \ {0})
      /\ skeletonPid' \in [Generations -> Skeletons \union {None}]
  BY <1>0, RemoveObject
<1>3. MemoryTyped'
  <2>1. step' \in [Skeletons -> 1 .. 3]
    BY <1>0, <1>1 DEF TypeOK
  <2>2. mapped' \in [Skeletons -> [Objects -> Generations]]
    BY <1>1, InodesNumbered DEF TypeOK
  <2> QED
    BY <1>0, <1>2, <2>1, <2>2 DEF MemoryTyped, TypeOK, proxyVars
<1>4. spc'[k] \in {"remove", "created"} /\ \A j \in Skeletons \ {k} : spc'[j] = spc[j]
  BY <1>0, <1>1 DEF TypeOK
<1>5. ProviderOn(k)' /\ PidOf(k)'
  BY <1>4 DEF ProviderOn, PidOf, HasMemory
<1> QED
  BY <1>0, <1>2, <1>3, <1>4, <1>5, BusySkeleton

(* The objects are made one by one, each with the number of this offer.    *)
LEMMA CreateSharedMemoryStep ==
    ASSUME TypeOK, RestartInvariant, NEW k \in Skeletons, CreateSharedMemory(k)
    PROVE  (MemoryTyped /\ MemoryHeld)'
<1> DEFINE o == ObjectOrder[step[k]]
           g == IF step[k] = 1 THEN Least(UnusedGenerations) ELSE mapped[k][ControlQm]
<1>0. /\ spc[k] = "create" /\ step[k] \in 1 .. 3 /\ o \in Objects /\ Providing(k)
      /\ shm \in [Objects -> Generations] /\ mapped \in [Skeletons -> [Objects -> Generations]]
      /\ skeletonPid \in [Generations -> Skeletons \union {None}]
      /\ step \in [Skeletons -> 1 .. 3] /\ spc \in [Skeletons -> SkelStates]
  BY Order DEF CreateSharedMemory, TypeOK, Providing
<1>a. \A i \in 1 .. 3 :
         LET q == ObjectOrder[i]
         IN  IF i < step[k] THEN shm[q] # 0 /\ shm[q] = mapped[k][q] ELSE shm[q] = 0
  BY <1>0 DEF RestartInvariant, ProviderOnMemory, ProviderOn
<1>b. /\ shm[o] = 0 /\ shm[Data] = 0
      /\ step[k] > 1 => shm[ControlQm] # 0 /\ shm[ControlQm] = mapped[k][ControlQm]
      /\ step[k] > 2 => shm[ControlB] # 0 /\ shm[ControlB] = mapped[k][ControlB]
      /\ step[k] < 3 => shm[ControlB] = 0
  BY <1>0, <1>a, Order
<1>c. g \in Generations /\ g # 0
  <2>1. UnusedGenerations \in SUBSET Nat
    BY InodesNumbered DEF UnusedGenerations
  <2>2. step[k] = 1 => UnusedGenerations # {}
    BY DEF CreateSharedMemory
  <2>3. step[k] = 1 => Least(UnusedGenerations) \in UnusedGenerations
    BY <2>1, <2>2, LeastExists
  <2>4. mapped[k][ControlQm] \in Generations
    BY <1>0, Order
  <2> QED
    BY <1>0, <1>b, <2>3, <2>4 DEF UnusedGenerations
<1>d. /\ UNCHANGED <<registered, reopened, ppc, control, data>> /\ shm' = [shm EXCEPT ![o] = g]
      /\ mapped' = [mapped EXCEPT ![k] = IF step[k] = 1 THEN [NoMap EXCEPT ![o] = g]
                                         ELSE [mapped[k] EXCEPT ![o] = g]]
      /\ skeletonPid' = IF o = Data THEN [skeletonPid EXCEPT ![g] = k] ELSE skeletonPid
  BY DEF CreateSharedMemory, proxyVars
<1>s. \/ step[k] < 3 /\ step' = [step EXCEPT ![k] = step[k] + 1] /\ spc' = spc
      \/ step[k] = 3 /\ step' = [step EXCEPT ![k] = 1] /\ spc' = [spc EXCEPT ![k] = "prepared"]
  BY <1>0, Order DEF CreateSharedMemory
<1>e. \/ step[k] = 1 /\ o = ControlQm
      \/ step[k] = 2 /\ o = ControlB
      \/ step[k] = 3 /\ o = Data
  BY <1>0, Order
<1>f. step[k] # 1 => g = shm[ControlQm]
  BY <1>0, <1>b
<1> HIDE DEF o, g
<1>g. /\ shm' \in [Objects -> Generations] /\ shm'[o] = g
      /\ \A q \in Objects \ {o} : shm'[q] = shm[q]
  BY <1>0, <1>c, <1>d
<1>h. /\ mapped' \in [Skeletons -> [Objects -> Generations]] /\ mapped'[k][o] = g
      /\ step[k] # 1 => \A q \in Objects \ {o} : mapped'[k][q] = mapped[k][q]
  <2>1. [NoMap EXCEPT ![o] = g] \in [Objects -> Generations] /\ [NoMap EXCEPT ![o] = g][o] = g
    BY <1>0, <1>c, InodesNumbered
  <2>2. /\ [mapped[k] EXCEPT ![o] = g] \in [Objects -> Generations]
        /\ [mapped[k] EXCEPT ![o] = g][o] = g
        /\ \A q \in Objects \ {o} : [mapped[k] EXCEPT ![o] = g][q] = mapped[k][q]
    BY <1>0, <1>c
  <2> QED
    BY <1>0, <1>d, <2>1, <2>2
<1>1. MemoryTyped'
  <2>1. skeletonPid' \in [Generations -> Skeletons \union {None}]
    BY <1>0, <1>c, <1>d
  <2>2. step' \in [Skeletons -> 1 .. 3]
    BY <1>0, <1>s
  <2> QED
    BY <1>d, <1>g, <1>h, <2>1, <2>2 DEF MemoryTyped, TypeOK
<1>2. OneGeneration'
  BY <1>b, <1>e, <1>f, <1>g, Order DEF RestartInvariant, OneGeneration
<1>3. RegisteredInOrder'
  <2>1. \A q \in Objects, h \in Generations : <<q, h>> \notin registered
    BY <1>b DEF RestartInvariant, RegisteredInOrder, TypeOK
  <2> QED
    BY <1>d, <2>1, Order DEF RegisteredInOrder
<1>4. UsersOnMemory'
  <2>1. \A p \in Proxies : ppc'[p] = "none"
    BY <1>0, <1>d, NoUsers DEF RestartInvariant
  <2> QED
    BY <2>1 DEF UsersOnMemory, Connected
<1>5. ProviderOn(k)' /\ PidOf(k)'
  <2>1. CASE step[k] = 1
    <3>1. spc'[k] = "create" /\ step'[k] = 2 /\ o = ControlQm
      BY <1>0, <1>s, <1>e, <2>1
    <3>2. shm'[ControlQm] = g /\ mapped'[k][ControlQm] = g /\ shm'[ControlB] = 0 /\ shm'[Data] = 0
      BY <1>b, <1>g, <1>h, <2>1, <3>1, Order
    <3>3. \A i \in 1 .. 3 : i = 1 \/ i = 2 \/ i = 3
      OBVIOUS
    <3> QED
      BY <1>c, <3>1, <3>2, <3>3, Order DEF ProviderOn, PidOf, HasMemory
  <2>2. CASE step[k] = 2
    <3>1. spc'[k] = "create" /\ step'[k] = 3 /\ o = ControlB
      BY <1>0, <1>s, <1>e, <2>2
    <3>2. /\ shm'[ControlQm] = g /\ mapped'[k][ControlQm] = g
          /\ shm'[ControlB] = g /\ mapped'[k][ControlB] = g /\ shm'[Data] = 0
      BY <1>b, <1>f, <1>g, <1>h, <2>2, <3>1, Order
    <3>3. \A i \in 1 .. 3 : i = 1 \/ i = 2 \/ i = 3
      OBVIOUS
    <3> QED
      BY <1>c, <3>1, <3>2, <3>3, Order DEF ProviderOn, PidOf, HasMemory
  <2>3. CASE step[k] = 3
    <3>1. spc'[k] = "prepared" /\ step'[k] = 1 /\ o = Data
      BY <1>0, <1>s, <1>e, <2>3
    <3>2. /\ shm'[ControlQm] = g /\ mapped'[k][ControlQm] = g
          /\ shm'[Data] = g /\ mapped'[k][Data] = g
      BY <1>b, <1>f, <1>g, <1>h, <2>3, <3>1, Order
    <3>3. shm[ControlB] = g /\ shm'[ControlB] = g /\ mapped'[k][ControlB] = g
      BY <1>b, <1>f, <1>g, <1>h, <2>3, <3>1, Order DEF RestartInvariant, OneGeneration
    <3>4. skeletonPid'[g] = k
      BY <1>0, <1>c, <1>d, <3>1
    <3> QED
      BY <1>c, <3>1, <3>2, <3>3, <3>4, Order DEF ProviderOn, PidOf, HasMemory
  <2> QED
    BY <1>0, <2>1, <2>2, <2>3
<1>6. \A j \in Skeletons \ {k} : spc'[j] = spc[j]
  BY <1>0, <1>s
<1> QED
  BY <1>0, <1>1, <1>2, <1>3, <1>4, <1>5, <1>6, BusySkeleton

(* The objects that are there are opened one by one; a missing one ends    *)
(* the attempt.                                                            *)
LEMMA OpenSharedMemoryStep ==
    ASSUME TypeOK, RestartInvariant, NEW k \in Skeletons, OpenSharedMemory(k)
    PROVE  (MemoryTyped /\ MemoryHeld)'
<1> DEFINE o == ObjectOrder[step[k]]
<1>0. /\ spc[k] = "open" /\ step[k] \in 1 .. 3 /\ o \in Objects /\ Providing(k)
      /\ shm \in [Objects -> Generations] /\ mapped \in [Skeletons -> [Objects -> Generations]]
      /\ skeletonPid \in [Generations -> Skeletons \union {None}]
      /\ step \in [Skeletons -> 1 .. 3] /\ spc \in [Skeletons -> SkelStates]
      /\ reopened \in [Skeletons -> BOOLEAN]
      /\ UNCHANGED <<shm, registered, reopened, proxyVars, ppc, control, data>>
  BY Order DEF OpenSharedMemory, TypeOK, Providing, proxyVars
<1>1. CASE shm[o] = 0
  <2>1. /\ spc' = [spc EXCEPT ![k] = "created"] /\ step' = [step EXCEPT ![k] = 1]
        /\ UNCHANGED <<mapped, skeletonPid>>
    BY <1>1 DEF OpenSharedMemory
  <2> QED
    BY <1>0, <2>1, QuietSkeleton
<1>2. CASE shm[o] # 0
  <2>0. /\ mapped' = [mapped EXCEPT ![k][o] = shm[o]]
        /\ skeletonPid' = IF o = Data THEN [skeletonPid EXCEPT ![shm[o]] = k] ELSE skeletonPid
    BY <1>2 DEF OpenSharedMemory, UpdatedPid
  <2>1. \/ step[k] < 3 /\ step' = [step EXCEPT ![k] = step[k] + 1] /\ spc' = spc
        \/ step[k] = 3 /\ step' = [step EXCEPT ![k] = 1] /\ spc' = [spc EXCEPT ![k] = "prepared"]
    BY <1>0, <1>2, Order DEF OpenSharedMemory
  <2>2. \A i \in 1 .. step[k] - 1 : shm[ObjectOrder[i]] # 0 /\ shm[ObjectOrder[i]] = mapped[k][ObjectOrder[i]]
    BY <1>0 DEF RestartInvariant, ProviderOnMemory, ProviderOn
  <2>3. step[k] = 3 => o = Data
    BY Order
  <2>4. /\ mapped' \in [Skeletons -> [Objects -> Generations]] /\ mapped'[k][o] = shm[o]
        /\ \A q \in Objects \ {o} : mapped'[k][q] = mapped[k][q]
    <3>1. /\ [mapped[k] EXCEPT ![o] = shm[o]] \in [Objects -> Generations]
          /\ [mapped[k] EXCEPT ![o] = shm[o]][o] = shm[o]
          /\ \A q \in Objects \ {o} : [mapped[k] EXCEPT ![o] = shm[o]][q] = mapped[k][q]
      BY <1>0
    <3> QED
      BY <1>0, <2>0, <3>1
  <2>5. \A i \in 1 .. step[k] :
           shm'[ObjectOrder[i]] # 0 /\ shm'[ObjectOrder[i]] = mapped'[k][ObjectOrder[i]]
    <3> SUFFICES ASSUME NEW i \in 1 .. step[k]
                 PROVE  shm[ObjectOrder[i]] # 0 /\ shm[ObjectOrder[i]] = mapped'[k][ObjectOrder[i]]
      BY <1>0
    <3>1. CASE i = step[k]
      BY <1>2, <2>4, <3>1
    <3>2. CASE i # step[k]
      <4>1. i \in 1 .. step[k] - 1 /\ ObjectOrder[i] \in Objects
        BY <1>0, <3>2, Order
      <4> QED
        BY <2>2, <2>4, <4>1
    <3> QED
      BY <3>1, <3>2
  <2> HIDE DEF o
  <2>6. MemoryTyped'
    <3>1. skeletonPid' \in [Generations -> Skeletons \union {None}]
      BY <1>0, <2>0
    <3>2. step' \in [Skeletons -> 1 .. 3]
      BY <1>0, <2>1
    <3> QED
      BY <1>0, <2>4, <3>1, <3>2 DEF MemoryTyped, TypeOK
  <2>7. OneGeneration' /\ RegisteredInOrder'
    BY <1>0 DEF RestartInvariant, OneGeneration, RegisteredInOrder
  <2>8. UsersOnMemory'
    BY <1>0 DEF RestartInvariant, UsersOnMemory, Connected
  <2>9. ProviderOn(k)' /\ PidOf(k)'
    <3>1. CASE step[k] < 3
      <4>1. spc'[k] = "open" /\ step'[k] - 1 = step[k]
        BY <1>0, <2>1, <3>1
      <4> QED
        BY <2>5, <4>1 DEF ProviderOn, PidOf, HasMemory
    <3>2. CASE step[k] = 3
      <4>1. spc'[k] = "prepared" /\ step'[k] = 1 /\ o = Data
        BY <1>0, <2>1, <2>3, <3>2
      <4>2. \A q \in Objects : shm'[q] # 0 /\ shm'[q] = mapped'[k][q]
        BY <2>5, <3>2, Order
      <4>3. \A q \in Objects : shm'[q] = shm'[Data]
        BY <2>7, <4>2, Order DEF OneGeneration
      <4>4. skeletonPid'[shm'[Data]] = k
        BY <1>0, <2>0, <4>1, Order
      <4>5. PidOf(k)'
        BY <4>2, <4>4, Order DEF PidOf
      <4>6. ProviderOn(k)'
        BY <4>1, <4>2, <4>3 DEF ProviderOn, HasMemory
      <4> QED
        BY <4>5, <4>6
    <3> QED
      BY <1>0, <3>1, <3>2
  <2>10. \A j \in Skeletons \ {k} : spc'[j] = spc[j]
    BY <1>0, <2>1
  <2> QED
    BY <1>0, <2>6, <2>7, <2>8, <2>9, <2>10, BusySkeleton
<1> QED
  BY <1>1, <1>2

(* The events go into the memory that is mapped, object by object, or the  *)
(* process ends.                                                           *)
LEMMA RegisterEventsStep ==
    ASSUME TypeOK, RestartInvariant, NEW k \in Skeletons, RegisterEvents(k)
    PROVE  (MemoryTyped /\ MemoryHeld)'
<1> DEFINE o == RegisterOrder[step[k]]
<1>0. /\ spc[k] = "prepared" /\ step[k] \in 1 .. 3 /\ o \in Objects /\ Providing(k)
      /\ UNCHANGED <<shm, reopened, proxyVars, ppc, control, data>>
      /\ step \in [Skeletons -> 1 .. 3] /\ spc \in [Skeletons -> SkelStates]
  BY Order DEF RegisterEvents, TypeOK, Providing, proxyVars
<1>1. CASE Die(k)
  <2>1. CASE UNCHANGED registered
    BY <1>0, <1>1, <2>1, DieStep
  <2>2. CASE ~UNCHANGED registered
    <3>1. UNCHANGED mapped
      BY <2>2 DEF RegisterEvents
    <3>2. spc'[k] = "none"
      BY <1>0, <1>1 DEF Die
    <3> QED
      BY <1>0, <2>2, <3>2 DEF RegisterEvents
  <2> QED
    BY <2>1, <2>2
<1>2. CASE ~Die(k)
  <2>0. /\ registered' = registered \union {<<o, mapped[k][o]>>}
        /\ UNCHANGED <<mapped, skeletonPid>>
    BY <1>2 DEF RegisterEvents
  <2>1. \/ step[k] < 3 /\ step' = [step EXCEPT ![k] = step[k] + 1] /\ spc' = spc
        \/ step[k] = 3 /\ step' = [step EXCEPT ![k] = 1] /\ spc' = [spc EXCEPT ![k] = "registered"]
    BY <1>0, <1>2, Order DEF RegisterEvents
  <2>2. /\ \A q \in Objects : mapped[k][q] = shm[q] /\ shm[q] = shm[Data] /\ shm[q] # 0
        /\ \A i \in 1 .. step[k] - 1 : <<RegisterOrder[i], shm[Data]>> \in registered
        /\ skeletonPid[mapped[k][Data]] = k
    BY <1>0 DEF RestartInvariant, ProviderOnMemory, ProviderOn, PidOf, HasMemory
  <2>3. registered' = registered \union {<<o, shm[Data]>>} /\ shm[Data] \in Generations \ {0}
    BY <1>0, <2>0, <2>2, Order DEF TypeOK
  <2>4. \A i \in 1 .. step[k] : <<RegisterOrder[i], shm'[Data]>> \in registered'
    <3>1. \A i \in 1 .. step[k] : i = step[k] \/ i \in 1 .. step[k] - 1
      BY <1>0
    <3> QED
      BY <1>0, <2>2, <2>3, <3>1
  <2>5. RegisteredInOrder'
    <3>1. \/ o = Data
          \/ o = ControlQm /\ <<Data, shm[Data]>> \in registered
          \/ o = ControlB /\ <<ControlQm, shm[Data]>> \in registered
      <4>1. step[k] = 1 => o = Data
        BY Order
      <4>2. step[k] = 2 => o = ControlQm /\ <<Data, shm[Data]>> \in registered
        BY <2>2, Order
      <4>3. step[k] = 3 => o = ControlB /\ <<ControlQm, shm[Data]>> \in registered
        BY <2>2, Order
      <4> QED
        BY <1>0, <4>1, <4>2, <4>3
    <3> HIDE DEF o
    <3> QED
      BY <1>0, <2>3, <3>1, Order DEF RestartInvariant, RegisteredInOrder
  <2> HIDE DEF o
  <2>6. MemoryTyped'
    <3>1. step' \in [Skeletons -> 1 .. 3]
      BY <1>0, <2>1
    <3> QED
      BY <1>0, <2>0, <2>3, <3>1 DEF MemoryTyped, TypeOK
  <2>7. OneGeneration'
    BY <1>0 DEF RestartInvariant, OneGeneration
  <2>8. UsersOnMemory'
    BY <1>0, <2>3 DEF RestartInvariant, UsersOnMemory, Connected
  <2>9. ProviderOn(k)' /\ PidOf(k)'
    <3>1. PidOf(k)'
      BY <2>0, <2>2 DEF PidOf
    <3>2. CASE step[k] < 3
      <4>1. spc'[k] = "prepared" /\ step'[k] - 1 = step[k]
        BY <1>0, <2>1, <3>2
      <4> QED
        BY <1>0, <2>0, <2>2, <2>4, <3>1, <4>1 DEF ProviderOn
    <3>3. CASE step[k] = 3
      <4>1. spc'[k] = "registered"
        BY <1>0, <2>1, <3>3
      <4>2. \A q \in Objects : <<q, shm'[Data]>> \in registered'
        BY <2>4, <3>3, Order
      <4> QED
        BY <1>0, <2>0, <2>2, <3>1, <4>1, <4>2 DEF ProviderOn
    <3> QED
      BY <1>0, <3>2, <3>3
  <2>10. \A j \in Skeletons \ {k} : spc'[j] = spc[j]
    BY <1>0, <2>1
  <2> QED
    BY <1>0, <2>5, <2>6, <2>7, <2>8, <2>9, <2>10, BusySkeleton
<1> QED
  BY <1>1, <1>2

(* The offer is published with everything registered.                      *)
LEMMA OfferStep ==
    ASSUME TypeOK, RestartInvariant, NEW k \in Skeletons, Offer(k)
    PROVE  (MemoryTyped /\ MemoryHeld)'
<1>0. /\ spc[k] = "registered" /\ spc' = [spc EXCEPT ![k] = "offered"] /\ Providing(k)
      /\ UNCHANGED <<shm, registered, skeletonPid, step, mapped, reopened, ppc, control, data>>
  BY DEF Offer, SkelGoes, Providing, memVars, proxyVars
<1>1. spc'[k] = "offered" /\ \A j \in Skeletons \ {k} : spc'[j] = spc[j]
  BY <1>0 DEF TypeOK
<1>2. MemoryTyped'
  BY <1>0 DEF MemoryTyped, TypeOK
<1>3. OneGeneration' /\ RegisteredInOrder'
  BY <1>0 DEF RestartInvariant, OneGeneration, RegisteredInOrder
<1>4. UsersOnMemory'
  BY <1>0 DEF RestartInvariant, UsersOnMemory, Connected
<1>5. ProviderOn(k) /\ PidOf(k)
  BY DEF RestartInvariant, ProviderOnMemory
<1>6. ProviderOn(k)' /\ PidOf(k)'
  BY <1>0, <1>1, <1>5 DEF ProviderOn, PidOf, HasMemory
<1> QED
  BY <1>0, <1>1, <1>2, <1>3, <1>4, <1>6, BusySkeleton

(* Proxies change nothing but what they have opened themselves, and they   *)
(* open what is there.                                                     *)
LEMMA ProxySteps ==
    ASSUME TypeOK, RestartInvariant, NEW p \in Proxies, ProxyStep(p)
    PROVE  (MemoryTyped /\ MemoryHeld)'
<1>0. /\ UNCHANGED <<shm, registered, skeletonPid, spc, step, mapped, reopened>>
      /\ ppc \in [Proxies -> ProxyStates] /\ shm \in [Objects -> Generations]
      /\ control \in [Proxies -> Generations] /\ data \in [Proxies -> Generations]
      /\ ControlOf[p] \in Objects /\ Data \in Objects
  BY Order, RestartAssumption DEF TypeOK, ProxyStep, LockUsageMarker, OpenControl, OpenData, Connect, FindEvents,
     Disconnect, memVars, skelVars
<1>1. UsersOnMemory
  BY DEF RestartInvariant
<1>2. \E s \in ProxyStates : ppc' = [ppc EXCEPT ![p] = s]
  BY DEF ProxyStep, LockUsageMarker, OpenControl, OpenData, Connect, FindEvents, Disconnect,
     ProxyGoes, ProxyStates
<1>3. /\ control' \in [Proxies -> Generations] /\ data' \in [Proxies -> Generations]
      /\ \A q \in Proxies \ {p} : control'[q] = control[q] /\ data'[q] = data[q]
  BY <1>0, InodesNumbered
     DEF ProxyStep, LockUsageMarker, OpenControl, OpenData, Connect, FindEvents, Disconnect
<1>4. \A q \in Proxies \ {p} : ppc'[q] = ppc[q]
  BY <1>0, <1>2
<1>5. UsersOnMemory'
  <2>1. CASE LockUsageMarker(p) \/ Disconnect(p)
    <3>1. ppc'[p] \in {"locked", "none"}
      BY <1>0, <2>1 DEF LockUsageMarker, Disconnect, ProxyGoes
    <3> QED
      BY <1>0, <1>1, <1>3, <1>4, <3>1 DEF UsersOnMemory, Connected
  <2>2. CASE OpenControl(p)
    <3>1. ppc'[p] = "controlOpen" /\ control'[p] = shm[ControlOf[p]]
      BY <1>0, <2>2 DEF OpenControl, ProxyGoes
    <3> QED
      BY <1>0, <1>1, <1>3, <1>4, <3>1 DEF UsersOnMemory, Connected
  <2>3. CASE OpenData(p)
    <3>1. ppc[p] = "controlOpen" /\ ppc'[p] = "bothOpen" /\ data'[p] = shm[Data] /\ control' = control
      BY <1>0, <2>3 DEF OpenData, ProxyGoes
    <3> QED
      BY <1>0, <1>1, <1>3, <1>4, <3>1 DEF UsersOnMemory, Connected
  <2>4. CASE Connect(p)
    <3>1. /\ ppc[p] = "bothOpen" /\ ppc'[p] = "connected" /\ data' = data /\ control' = control
          /\ control[p] # 0 /\ data[p] # 0
      BY <1>0, <2>4 DEF Connect, ProxyGoes
    <3> QED
      BY <1>0, <1>1, <1>3, <1>4, <3>1 DEF UsersOnMemory, Connected
  <2>5. CASE FindEvents(p)
    <3>1. /\ ppc[p] = "connected" /\ ppc'[p] = "bound" /\ data' = data /\ control' = control
          /\ <<ControlOf[p], control[p]>> \in registered /\ <<Data, data[p]>> \in registered
      BY <1>0, <2>5 DEF FindEvents, ProxyGoes
    <3> QED
      BY <1>0, <1>1, <1>3, <1>4, <3>1 DEF UsersOnMemory, Connected
  <2> QED
    BY <2>1, <2>2, <2>3, <2>4, <2>5 DEF ProxyStep
<1>6. MemoryTyped'
  BY <1>0, <1>3 DEF MemoryTyped, TypeOK
<1>7. OneGeneration' /\ RegisteredInOrder'
  BY <1>0 DEF RestartInvariant, OneGeneration, RegisteredInOrder
<1>8. ProviderOnMemory'
  BY <1>0 DEF RestartInvariant, ProviderOnMemory, ProviderOn, PidOf, HasMemory
<1> QED
  BY <1>5, <1>6, <1>7, <1>8 DEF MemoryHeld

(* The initial states: no files, no memory, no process.                    *)
LEMMA RestartInit == Init => TypeOK /\ RestartInvariant
<1> SUFFICES ASSUME Init PROVE TypeOK /\ RestartInvariant
  OBVIOUS
<1>1. TypeOK
  <2>1. /\ linked \in Inodes \union {0} /\ locked \in [Inodes -> Skeletons \union {None}]
        /\ inode \in [Skeletons -> Inodes \union {0}] /\ spc \in [Skeletons -> SkelStates]
    <3>1. 0 \in Inodes \union {0} /\ None \in Skeletons \union {None} /\ "none" \in SkelStates
      BY DEF SkelStates
    <3> QED
      BY <3>1 DEF Init
  <2>2. /\ usageExists \in BOOLEAN /\ usageX \in Skeletons \union {None} /\ usageS \subseteq Proxies
        /\ ppc \in [Proxies -> ProxyStates] /\ crashes \in 0 .. MaxCrashes
    <3>1. "none" \in ProxyStates /\ 0 \in 0 .. MaxCrashes
      BY RestartAssumption DEF ProxyStates
    <3> QED
      BY <3>1 DEF Init
  <2>3. /\ shm \in [Objects -> Generations] /\ registered \subseteq Objects \X (Generations \ {0})
        /\ skeletonPid \in [Generations -> Skeletons \union {None}]
    BY InodesNumbered DEF Init
  <2>4. /\ step \in [Skeletons -> 1 .. 3] /\ mapped \in [Skeletons -> [Objects -> Generations]]
        /\ reopened \in [Skeletons -> BOOLEAN]
        /\ control \in [Proxies -> Generations] /\ data \in [Proxies -> Generations]
    BY InodesNumbered DEF Init
  <2> QED
    BY <2>1, <2>2, <2>3, <2>4 DEF TypeOK
<1>2. MarkerHeld
  BY DEF Init, MarkerHeld, Providing
<1>3. UsageHeld
  <2>1. None \notin Skeletons /\ usageX = None /\ usageS = {}
    BY RestartAssumption DEF Init
  <2>2. \A k \in Skeletons : spc[k] = "none"
    BY DEF Init
  <2>3. \A p \in Proxies : ppc[p] = "none"
    BY DEF Init
  <2> QED
    BY <2>1, <2>2, <2>3 DEF UsageHeld
<1>4. OneGeneration /\ RegisteredInOrder
  BY DEF Init, OneGeneration, RegisteredInOrder, NoMap
<1>5. UsersOnMemory
  BY DEF Init, UsersOnMemory, Connected
<1>6. ProviderOnMemory
  BY DEF Init, ProviderOnMemory, ProviderOn, PidOf, HasMemory
<1> QED
  BY <1>1, <1>2, <1>3, <1>4, <1>5, <1>6 DEF RestartInvariant

(* Every step keeps the memory's part of the invariant.                    *)
LEMMA MemoryStep ==
    ASSUME TypeOK, RestartInvariant, [Next]_vars
    PROVE  (MemoryTyped /\ MemoryHeld)'
<1>1. CASE UNCHANGED vars
  <2>1. UNCHANGED <<shm, registered, skeletonPid, spc, step, mapped, reopened, ppc, control, data>>
    BY <1>1 DEF vars, memVars, skelVars, proxyVars
  <2>2. MemoryTyped'
    BY <2>1 DEF MemoryTyped, TypeOK
  <2>3. OneGeneration' /\ RegisteredInOrder' /\ UsersOnMemory'
    BY <2>1 DEF RestartInvariant, OneGeneration, RegisteredInOrder, UsersOnMemory, Connected
  <2>4. ProviderOnMemory'
    BY <2>1 DEF RestartInvariant, ProviderOnMemory, ProviderOn, PidOf, HasMemory
  <2> QED
    BY <2>2, <2>3, <2>4 DEF MemoryHeld
<1>2. ASSUME NEW k \in Skeletons, SkeletonStep(k) PROVE (MemoryTyped /\ MemoryHeld)'
  <2>1. CASE \/ OpenExistenceMarker(k) \/ LockExistenceMarker(k)
             \/ UnlockExistenceMarker(k) \/ UnlinkExistenceMarker(k)
             \/ CreateFails(k) \/ StopOffer(k) \/ PrepareStopOffer(k)
    BY <2>1, QuietSteps
  <2>2. CASE SkeletonCrash(k)
    BY <2>2, DieStep DEF SkeletonCrash
  <2>3. CASE \/ PrepareOffer(k) \/ RemoveStale(k) \/ CreateSharedMemory(k) \/ OpenSharedMemory(k)
    BY <2>3, PrepareOfferStep, RemoveStaleStep, CreateSharedMemoryStep, OpenSharedMemoryStep
  <2>4. CASE RegisterEvents(k) \/ Offer(k) \/ RemoveSharedMemory(k)
    BY <2>4, RegisterEventsStep, OfferStep, RemoveSharedMemoryStep
  <2> QED
    BY <1>2, <2>1, <2>2, <2>3, <2>4 DEF SkeletonStep
<1>3. ASSUME NEW p \in Proxies, ProxyStep(p) PROVE (MemoryTyped /\ MemoryHeld)'
  BY <1>3, ProxySteps
<1> QED
  BY <1>1, <1>2, <1>3 DEF Next

(* PartialRestart keeps its inductive invariant for any number of          *)
(* skeletons, proxies, crashes and restarts, and proxies created at any    *)
(* time, provided no skeleton is created while another one's destructor is *)
(* between its two steps.                                                  *)
THEOREM RestartInvariantHolds ==
    ~OverlappingExit /\ Spec => [](TypeOK /\ RestartInvariant)
<1> SUFFICES ASSUME ~OverlappingExit
             PROVE  Spec => [](TypeOK /\ RestartInvariant)
  OBVIOUS
<1>1. TypeOK /\ RestartInvariant /\ [Next]_vars => (TypeOK /\ RestartInvariant)'
  <2> SUFFICES ASSUME TypeOK, RestartInvariant, [Next]_vars
               PROVE  (TypeOK /\ RestartInvariant)'
    OBVIOUS
  <2>1. MarkerTyped /\ MarkerHeld /\ UsageHeld
    BY Parts
  <2>2. (MarkerTyped /\ MarkerHeld)'
    BY <2>1, MarkerStep
  <2>3. (UsageTyped /\ UsageHeld)'
    BY <2>1, UsageStep
  <2>4. (MemoryTyped /\ MemoryHeld)'
    BY MemoryStep
  <2> QED
    BY <2>2, <2>3, <2>4
       DEF TypeOK, RestartInvariant, MarkerTyped, UsageTyped, MemoryTyped, MemoryHeld
<1> QED
  BY <1>1, RestartInit, PTL DEF Spec

(* The existence marker lets one skeleton of an instance through, though   *)
(* its file is removed and made again, whatever proxies do and whoever     *)
(* crashes, provided no skeleton is created while another one's destructor *)
(* is between its two steps.                                               *)
THEOREM InstanceHasOneSkeleton ==
    ~OverlappingExit /\ Spec => []OneSkeletonPerInstance
<1>1. RestartInvariant => OneSkeletonPerInstance
  BY Alone DEF RestartInvariant, OneSkeletonPerInstance
<1> QED
  BY <1>1, RestartInvariantHolds, PTL

(* The provider and the users of an instance map the same memory, through  *)
(* crashes, restarts, and offers that reuse or replace the memory; the     *)
(* proxies may come while it is made, reopened or removed.  One hypothesis *)
(* stands for the environment: no skeleton is created while another one's  *)
(* destructor is between its two steps.                                    *)
THEOREM MemoryIsShared ==
    ~OverlappingExit /\ Spec => []ProviderAndUsersShareMemory
<1>1. ASSUME RestartInvariant, NEW k \in Skeletons, NEW p \in Proxies,
             HasMemory(k), Connected(p)
      PROVE  control[p] = mapped[k][ControlOf[p]] /\ data[p] = mapped[k][Data]
  <2>1. control[p] = shm[ControlOf[p]] /\ data[p] = shm[Data]
    BY <1>1 DEF RestartInvariant, UsersOnMemory, Connected
  <2>2. \A o \in Objects : mapped[k][o] = shm[o]
    BY <1>1 DEF RestartInvariant, ProviderOnMemory, ProviderOn
  <2>3. ControlOf[p] \in Objects /\ Data \in Objects
    BY RestartAssumption DEF Objects
  <2> QED
    BY <2>1, <2>2, <2>3
<1>2. RestartInvariant => ProviderAndUsersShareMemory
  BY <1>1 DEF ProviderAndUsersShareMemory
<1> QED
  BY <1>2, RestartInvariantHolds, PTL

(* The memory in use is whole: what a process maps was made together and   *)
(* stays, a skeleton that reopens memory in which an ASIL-B proxy found    *)
(* its events finds them all, the proxies of a complete offer find theirs, *)
(* and the pid they read there is the provider's.  Memory a crash left     *)
(* half made is reopened, too, if a proxy has come: nothing is said of it. *)
THEOREM MemoryStaysWhole ==
    ~OverlappingExit /\ Spec => []MemoryIsWhole
<1>1. ASSUME TypeOK, RestartInvariant PROVE MemoryIsWhole
  <2>0. /\ \A k \in Skeletons : ProviderOn(k) /\ PidOf(k)
        /\ UsersOnMemory /\ OneGeneration /\ RegisteredInOrder
        /\ \A p \in Proxies : ControlOf[p] \in Objects
    BY <1>1, RestartAssumption DEF RestartInvariant, ProviderOnMemory, Objects
  <2>1. MappedTogether
    <3>1. ASSUME NEW k \in Skeletons, HasMemory(k), NEW o \in Objects
          PROVE  mapped[k][o] = mapped[k][Data] /\ shm[o] = mapped[k][o]
      BY <2>0, <3>1, Order DEF ProviderOn
    <3>2. ASSUME NEW p \in Proxies, Connected(p) PROVE control[p] = data[p]
      BY <2>0, <3>2, Order DEF UsersOnMemory, Connected, OneGeneration
    <3> QED
      BY <3>1, <3>2 DEF MappedTogether
  <2>2. UsersKeepTheirMemory
    BY <2>0 DEF UsersKeepTheirMemory, UsersOnMemory, Connected
  <2>3. ReusedEventsAreComplete
    <3> SUFFICES ASSUME NEW k \in Skeletons, NEW p \in Proxies, HasMemory(k), ppc[p] = "bound",
                        ControlOf[p] = ControlB, NEW o \in Objects
                 PROVE  <<o, mapped[k][o]>> \in registered
      BY DEF ReusedEventsAreComplete
    <3>1. <<ControlB, control[p]>> \in registered /\ control[p] = shm[ControlB]
      BY <2>0 DEF UsersOnMemory
    <3>2. shm[ControlB] = shm[Data] /\ shm[Data] \in Generations /\ mapped[k][o] = shm[Data]
      BY <1>1, <2>0, Order DEF ProviderOn, TypeOK
    <3> QED
      BY <2>0, <3>1, <3>2, Order DEF RegisteredInOrder
  <2>4. UsersFindTheirEvents
    <3> SUFFICES ASSUME NEW k \in Skeletons, NEW p \in Proxies, spc[k] = "offered", Connected(p)
                 PROVE  <<ControlOf[p], control[p]>> \in registered /\ <<Data, data[p]>> \in registered
      BY DEF UsersFindTheirEvents
    <3>1. \A o \in Objects : <<o, shm[Data]>> \in registered /\ shm[o] = shm[Data]
      BY <2>0 DEF ProviderOn, HasMemory
    <3>2. control[p] = shm[ControlOf[p]] /\ data[p] = shm[Data]
      BY <2>0 DEF UsersOnMemory, Connected
    <3> QED
      BY <2>0, <3>1, <3>2, Order
  <2>5. OfferedPidIsCurrent
    BY <2>0 DEF OfferedPidIsCurrent, PidOf, HasMemory
  <2> QED
    BY <1>1, <2>1, <2>2, <2>3, <2>4, <2>5 DEF MemoryIsWhole
<1> QED
  BY <1>1, RestartInvariantHolds, PTL

-----------------------------------------------------------------------------
(* Service discovery: types, mutexes and callbacks (SearchInvariant). A    *)
(* handler runs under worker_mutex_, and a callback is removed under both  *)
(* mutexes.                                                                *)

(* The events the file system gives.                                       *)
LEMMA EventsAreTyped ==
    /\ \A i \in Instances : DirectoryCreated(i) \in Events
    /\ \A i \in Instances, q \in Qualities :
          FileEvent("create", i, q) \in Events /\ FileEvent("delete", i, q) \in Events
BY DEF Events, DirectoryCreated, FileEvent, Watches

(* An event that is queued keeps the queue in its type.                    *)
LEMMA QueuedType ==
    ASSUME NEW q \in Seq(Events), NEW e \in Events
    PROVE  Queued(q, e) \in Seq(Events)
BY DEF Queued

(* The deletions of flag files keep the queue in its type.                 *)
LEMMA DeletionsType ==
    ASSUME NEW q \in Seq(Events), NEW fs, NEW i \in Instances
    PROVE  Deletions(q, fs, i) \in Seq(Events)
<1>1. /\ FileEvent("delete", i, "qm") \in Events
      /\ FileEvent("delete", i, "b") \in Events
  BY EventsAreTyped DEF Qualities
<1>2. Deleted(q, fs, i, "qm") \in Seq(Events)
  BY <1>1, QueuedType DEF Deleted
<1> QED
  BY <1>1, <1>2, QueuedType DEF Deleted, Deletions

(* The events of removed watches stay where they are and lose their watch. *)
LEMMA OrphanedType ==
    ASSUME NEW q \in Seq(Events), NEW ws
    PROVE  /\ Orphaned(q, ws) \in Seq(Events)
           /\ Len(Orphaned(q, ws)) = Len(q)
           /\ \A n \in 1 .. Len(q) :
                 Orphaned(q, ws)[n] =
                     IF q[n].watch \in ws THEN [q[n] EXCEPT !.watch = NoOne] ELSE q[n]
<1>1. \A n \in 1 .. Len(q) : q[n] \in Events
  BY ElementOfSeq
<1>2. \A e \in Events : [e EXCEPT !.watch = NoOne] \in Events
  BY DEF Events
<1>3. Len(q) \in Nat
  OBVIOUS
<1>4. Orphaned(q, ws) \in [1 .. Len(q) -> Events]
  BY <1>1, <1>2 DEF Orphaned
<1>5. Orphaned(q, ws) \in Seq(Events)
  BY <1>3, <1>4, SeqDef
<1>6. DOMAIN Orphaned(q, ws) = 1 .. Len(q)
  BY DEF Orphaned
<1>7. Len(Orphaned(q, ws)) = Len(q)
  BY <1>3, <1>5, <1>6, LenProperties
<1> QED
  BY <1>5, <1>7 DEF Orphaned

(* The flag file a provider is making is one of its quality.               *)
LEMMA MadeType ==
    ASSUME DiskTypeOK, NEW i \in Instances, offerPc[i] # "idle"
    PROVE  Made(i) \in FlagFiles /\ Making(i) \in Qualities
BY DiscoveryAssumption DEF DiskTypeOK, Made, Making, FlagFiles, Qualities

(* The steps of the providers change files and events only.                *)
LEMMA ProviderType ==
    ASSUME DiscoveryTypeOK, NEW i \in Instances, ProviderStep(i)
    PROVE  DiskTypeOK' /\ EventTypeOK'
<1> USE DEF DiscoveryTypeOK
<1>0. queue \in Seq(Events) /\ UNCHANGED <<inotify, batch>>
  BY DEF EventTypeOK, ProviderStep, OfferService, CreateSearchPath, MakeFlagFile,
     MakeFlagFileFails, StopOfferService, ProviderCrash, ProviderUnchanged, threadVars
<1>1. CASE OfferService(i)
  BY <1>0, <1>1, DiscoveryAssumption DEF OfferService, DiskTypeOK, EventTypeOK
<1>2. CASE CreateSearchPath(i)
  <2>1. Deletions(queue, MatchingFlagFiles(i), i) \in Seq(Events)
    BY <1>0, DeletionsType
  <2>2. DirectoryCreated(i) \in Events
    BY EventsAreTyped
  <2>3. queue' \in Seq(Events)
    BY <1>2, <2>1, <2>2, QueuedType DEF CreateSearchPath
  <2>4. DiskTypeOK'
    BY <1>2 DEF CreateSearchPath, DiskTypeOK
  <2> QED
    BY <1>0, <2>3, <2>4 DEF EventTypeOK
<1>3. CASE MakeFlagFile(i)
  <2>1. Made(i) \in FlagFiles /\ Making(i) \in Qualities
    BY <1>3, MadeType DEF MakeFlagFile
  <2>2. queue' \in Seq(Events)
    BY <1>0, <1>3, <2>1, EventsAreTyped, QueuedType DEF MakeFlagFile
  <2>3. DiskTypeOK'
    BY <1>3, <2>1 DEF MakeFlagFile, DiskTypeOK
  <2> QED
    BY <1>0, <2>2, <2>3 DEF EventTypeOK
<1>4. CASE MakeFlagFileFails(i)
  <2>1. Made(i) \in FlagFiles /\ Making(i) \in Qualities
    BY <1>4, MadeType DEF MakeFlagFileFails
  <2>2. PICK left \in {{}, {Made(i)}} :
            /\ files' = (files \ offered[i]) \union left
            /\ LET events == IF left = {} THEN queue
                             ELSE Queued(queue, FileEvent("create", i, Making(i)))
               IN  queue' = Deletions(events, offered[i], i)
    BY <1>4 DEF MakeFlagFileFails
  <2> DEFINE events == IF left = {} THEN queue
                       ELSE Queued(queue, FileEvent("create", i, Making(i)))
  <2>3. events \in Seq(Events)
    BY <1>0, <2>1, EventsAreTyped, QueuedType
  <2>4. queue' \in Seq(Events)
    BY <2>2, <2>3, DeletionsType
  <2>5. files' \in SUBSET FlagFiles
    BY <2>1, <2>2 DEF DiskTypeOK
  <2>6. DiskTypeOK'
    BY <1>4, <2>5, DiscoveryAssumption DEF MakeFlagFileFails, DiskTypeOK
  <2> QED
    BY <1>0, <2>4, <2>6 DEF EventTypeOK
<1>5. CASE StopOfferService(i)
  <2>1. queue' \in Seq(Events)
    BY <1>0, <1>5, DeletionsType DEF StopOfferService
  <2>2. DiskTypeOK'
    BY <1>5 DEF StopOfferService, DiskTypeOK
  <2> QED
    BY <1>0, <2>1, <2>2 DEF EventTypeOK
<1>6. CASE ProviderCrash(i)
  BY <1>0, <1>6, DiscoveryAssumption DEF ProviderCrash, DiskTypeOK, EventTypeOK
<1> QED
  BY <1>1, <1>2, <1>3, <1>4, <1>5, <1>6 DEF ProviderStep

(* The providers change nothing of the consumer but its events.            *)
LEMMA ProviderLeavesConsumer ==
    ASSUME NEW i \in Instances, ProviderStep(i)
    PROVE  /\ ProviderUnchanged
           /\ UNCHANGED <<inotify, pc, arg, found, workerMutex, containerMutex, batch, impacted,
                          handler, stopping, started, callbacks, requests, obsolete, links,
                          previous, watches, keys, anyEntry, children, known, terminated>>
BY DEF ProviderStep, OfferService, CreateSearchPath, MakeFlagFile, MakeFlagFileFails,
   StopOfferService, ProviderCrash, ProviderUnchanged, threadVars, handlerVars, searchVars,
   watchVars

(* The providers disturb neither types nor mutexes and callbacks.          *)
LEMMA ProviderStepSearch ==
    ASSUME DiscoveryTypeOK, SearchInvariant, NEW i \in Instances, ProviderStep(i)
    PROVE  DiscoveryTypeOK' /\ SearchInvariant'
BY ProviderLeavesConsumer, ProviderType DEF DiscoveryTypeOK, ThreadTypeOK, SearchTypeOK, WatchTypeOK,
   SearchInvariant, MutexesHeld, SearchesHaveCallbacks, StoppedSearchesStaySilent, Ongoing

(* What a thread has found is watched with its types.                      *)
LEMMA AddWatchType ==
    ASSUME DiskTypeOK, EventTypeOK, NEW w \in Watches, AddWatch(w)
    PROVE  /\ dirs' \in SUBSET Instances /\ inotify' \in SUBSET Watches
           /\ queue' \in Seq(Events)
<1>1. w # Any => DirectoryCreated(w) \in Events
  BY EventsAreTyped DEF Watches
<1>2. queue' \in Seq(Events)
  BY <1>1, QueuedType DEF AddWatch, EventTypeOK
<1> QED
  BY <1>2 DEF AddWatch, DiskTypeOK, EventTypeOK, Watches

(* A handler that is called keeps the types and all other handlers.        *)
LEMMA HandlerType ==
    ASSUME ThreadTypeOK, NEW t \in Threads, NEW s \in Searches, EnterHandler(t, s)
    PROVE  /\ handler' \in [Threads -> Searches \union {NoOne}]
           /\ stopping' \in [Threads -> {"no", "yes", "done"}]
           /\ handler'[t] = s /\ stopping'[t] \in {"no", "yes"}
           /\ \A v \in Threads \ {t} : handler'[v] = handler[v] /\ stopping'[v] = stopping[v]
BY DEF EnterHandler, ThreadTypeOK

(* What the crawl, the cache and the merge of both give are instances.     *)
LEMMA KnownType ==
    ASSUME WatchTypeOK, NEW s \in Searches
    PROVE  /\ \A ids \in SUBSET Instances :
                 MapInstancesToQualityTypes(ids) \in [Qualities -> SUBSET Instances]
           /\ Nothing \in [Qualities -> SUBSET Instances]
           /\ \A instances \in [Qualities -> SUBSET Instances] :
                 /\ Merge(instances) \in [Qualities -> SUBSET Instances]
                 /\ GetKnownHandles(s, instances) \in SUBSET Instances
           /\ GetKnownHandles(s, known) \in SUBSET Instances
BY DiscoveryAssumption DEF WatchTypeOK, MapInstancesToQualityTypes, Nothing, Merge, GetKnownHandles

(* Watches that are stored and linked keep their types.                    *)
LEMMA StoreWatchType ==
    ASSUME WatchTypeOK, SearchTypeOK, NEW ws \in SUBSET Watches, NEW ss \in SUBSET Searches,
           StoreWatch(ws), Link(ws, ss)
    PROVE  /\ watches' \in SUBSET Watches /\ children' \in SUBSET Instances
           /\ anyEntry' \in {"absent", "none", "watch"}
           /\ keys' \in [Watches -> SUBSET Searches]
           /\ links' \in [Searches -> SUBSET Watches]
BY DEF WatchTypeOK, SearchTypeOK, StoreWatch, Link, Watches

(* A new search request keeps the types, and calls no handler but its own. *)
LEMMA TransferNewType ==
    ASSUME DiscoveryTypeOK, NEW u \in Users, NEW s \in started, NEW ws \in SUBSET Watches,
           NEW instances \in [Qualities -> SUBSET Instances], NEW handles \in SUBSET Instances,
           TransferNewSearchRequest(u, s, ws, instances, handles)
    PROVE  /\ WatchTypeOK'
           /\ requests' \in SUBSET started /\ links' \in [Searches -> SUBSET Watches]
           /\ previous' \in [Searches -> SUBSET Instances]
           /\ handler' \in [Threads -> Searches \union {NoOne}]
           /\ stopping' \in [Threads -> {"no", "yes", "done"}]
           /\ pc' = [pc EXCEPT ![u] = "called"]
           /\ \A t \in Threads : handler'[t] # NoOne /\ t # u => handler'[t] = handler[t] /\ stopping'[t] = stopping[t]
           /\ handler'[u] \in {handler[u], s}
           /\ handler'[u] # s => stopping'[u] = stopping[u]
           /\ requests' = requests \union {s}
<1> USE DEF DiscoveryTypeOK
<1>1. s \in Searches /\ u \in Threads
  BY DEF SearchTypeOK, Threads
<1>2. /\ watches' \in SUBSET Watches /\ children' \in SUBSET Instances
      /\ anyEntry' \in {"absent", "none", "watch"}
      /\ keys' \in [Watches -> SUBSET Searches]
      /\ links' \in [Searches -> SUBSET Watches]
  <2>1. StoreWatch(ws) /\ Link(ws, {s})
    BY DEF TransferNewSearchRequest
  <2>2. {s} \in SUBSET Searches
    BY <1>1
  <2> QED
    BY <2>1, <2>2, StoreWatchType
<1>3. known' \in [Qualities -> SUBSET Instances]
  <2>1. known' = Merge(instances)
    BY DEF TransferNewSearchRequest
  <2> QED
    BY <1>1, <2>1, KnownType
<1>4. WatchTypeOK'
  BY <1>2, <1>3 DEF WatchTypeOK
<1>5. /\ handler' \in [Threads -> Searches \union {NoOne}]
      /\ stopping' \in [Threads -> {"no", "yes", "done"}]
      /\ \A t \in Threads \ {u} : handler'[t] = handler[t] /\ stopping'[t] = stopping[t]
      /\ handler'[u] \in {handler[u], s}
      /\ handler'[u] # s => stopping'[u] = stopping[u]
  <2>1. CASE handles = {}
    BY <2>1 DEF TransferNewSearchRequest, handlerVars, ThreadTypeOK
  <2>2. CASE handles # {}
    <3>1. EnterHandler(u, s)
      BY <2>2 DEF TransferNewSearchRequest
    <3> QED
      BY <3>1, <1>1, HandlerType
  <2> QED
    BY <2>1, <2>2
<1>6. previous' \in [Searches -> SUBSET Instances] /\ requests' = requests \union {s}
      /\ pc' = [pc EXCEPT ![u] = "called"]
  BY DEF TransferNewSearchRequest, SearchTypeOK
<1> QED
  BY <1>2, <1>4, <1>5, <1>6 DEF SearchTypeOK

(* The worker and the users' threads are threads, and none is NoOne.       *)
LEMMA ThreadsAreDistinct ==
    /\ Worker \in Threads /\ Worker # NoOne
    /\ \A u \in Users : u \in Threads /\ u # Worker /\ u # NoOne
    /\ \A t \in Threads : t # NoOne /\ (t # Worker => t \in Users)
    /\ \A s \in Searches : s # NoOne
    /\ \A w \in Watches : w # NoOne
BY DiscoveryAssumption DEF Threads

(* StartFindService takes container_mutex_ and stores the callback.        *)
LEMMA StartFindServiceSearch ==
    ASSUME DiscoveryTypeOK, SearchInvariant, NEW u \in Users, NEW s \in Searches,
           StartFindService(u, s)
    PROVE  DiscoveryTypeOK' /\ SearchInvariant'
<1> USE DEF DiscoveryTypeOK, SearchInvariant
<1>0. u \in Threads /\ u # Worker /\ u # NoOne /\ Worker \in Threads /\ Worker # NoOne
  BY ThreadsAreDistinct
<1>1. DiskTypeOK' /\ EventTypeOK' /\ WatchTypeOK' /\ terminated' \in BOOLEAN
  BY DEF StartFindService, diskVars, kernelVars, watchVars, DiskTypeOK, EventTypeOK,
     WatchTypeOK
<1>2. ThreadTypeOK' /\ SearchTypeOK'
  BY <1>0 DEF StartFindService, handlerVars, ThreadTypeOK, SearchTypeOK
<1>3. MutexesHeld'
  BY <1>0, ThreadsAreDistinct DEF StartFindService, ThreadTypeOK, MutexesHeld
<1>4. SearchesHaveCallbacks'
  <2>1. \A v \in Users \ {u} : pc[v] = "idle" /\ pc'[v] = "idle"
    BY <1>0, ThreadsAreDistinct DEF StartFindService, MutexesHeld, ThreadTypeOK
  <2>2. /\ pc'[u] = "start" /\ arg'[u] = s /\ s \in started' /\ s \in callbacks' \ requests'
        /\ handler[u] = NoOne
    BY <1>0 DEF StartFindService, ThreadTypeOK, SearchTypeOK, SearchesHaveCallbacks
  <2>3. \A t \in Threads :
            handler'[t] # NoOne =>
                workerMutex' = t /\ pc'[t] \in {"called", "callDeleted", "callCreated"}
    BY <1>0, <2>2 DEF StartFindService, handlerVars, ThreadTypeOK, SearchesHaveCallbacks
  <2>4. Ongoing' \subseteq callbacks'
    BY DEF StartFindService, SearchesHaveCallbacks, Ongoing
  <2> QED
    BY <2>1, <2>2, <2>3, <2>4 DEF SearchesHaveCallbacks
<1>5. StoppedSearchesStaySilent'
  BY DEF StartFindService, handlerVars, StoppedSearchesStaySilent
<1> QED
  BY <1>1, <1>2, <1>3, <1>4, <1>5

(* A new search request is made by the thread that gets worker_mutex_,     *)
(* which has the callback.                                                 *)
LEMMA TransferNewSearch ==
    ASSUME DiscoveryTypeOK, SearchInvariant, NEW u \in Users, NEW ws \in SUBSET Watches,
           NEW instances \in [Qualities -> SUBSET Instances], NEW handles \in SUBSET Instances,
           pc[u] \in {"start", "map"},
           workerMutex \in {u, NoOne}, workerMutex' = u,
           TransferNewSearchRequest(u, arg[u], ws, instances, handles),
           UNCHANGED <<arg, containerMutex, started, callbacks, obsolete>>
    PROVE  MutexesHeld' /\ SearchesHaveCallbacks' /\ StoppedSearchesStaySilent'
<1> USE DEF DiscoveryTypeOK, SearchInvariant
<1>0. u \in Threads /\ u # Worker /\ u # NoOne /\ Worker \in Threads /\ Worker # NoOne
  BY ThreadsAreDistinct
<1>1. arg[u] \in started /\ arg[u] \in callbacks \ requests
  BY DEF SearchesHaveCallbacks
<1>2. /\ pc' = [pc EXCEPT ![u] = "called"]
      /\ \A t \in Threads : handler'[t] # NoOne /\ t # u => handler'[t] = handler[t] /\ stopping'[t] = stopping[t]
      /\ handler'[u] \in {handler[u], arg[u]}
      /\ handler'[u] # arg[u] => stopping'[u] = stopping[u]
      /\ requests' = requests \union {arg[u]}
  BY <1>1, TransferNewType
<1>3. MutexesHeld'
  BY <1>0, ThreadsAreDistinct, <1>2 DEF ThreadTypeOK, MutexesHeld
<1>4. \A t \in Threads : handler[t] = NoOne
  BY <1>0, ThreadsAreDistinct DEF SearchesHaveCallbacks, MutexesHeld
<1>5. SearchesHaveCallbacks'
  <2>1. pc'[u] = "called" /\ \A t \in Threads \ {u} : pc'[t] = pc[t]
    BY <1>0, <1>2 DEF ThreadTypeOK
  <2>2. \A v \in Users \ {u} : pc[v] \notin {"start", "gather", "map"} \/ pc[u] = "idle"
    BY <1>0, ThreadsAreDistinct DEF MutexesHeld, ThreadTypeOK
  <2>3. \A v \in Users :
            /\ pc'[v] # "idle" => arg'[v] \in started'
            /\ pc'[v] \in {"start", "gather", "map"} => arg'[v] \in callbacks' \ requests'
    BY <1>1, <2>1, <2>2 DEF SearchesHaveCallbacks, Threads
  <2>4. Ongoing' \subseteq callbacks'
    BY <1>1, <1>2 DEF SearchesHaveCallbacks, Ongoing
  <2>5. \A t \in Threads :
            handler'[t] # NoOne =>
                workerMutex' = t /\ pc'[t] \in {"called", "callDeleted", "callCreated"}
    BY <1>2, <1>4, <2>1
  <2> QED
    BY <2>3, <2>4, <2>5 DEF SearchesHaveCallbacks
<1>6. StoppedSearchesStaySilent'
  BY <1>0, <1>1, <1>2, <1>4, ThreadsAreDistinct DEF StoppedSearchesStaySilent
<1> QED
  BY <1>3, <1>5, <1>6

(* A search that reuses watches keeps mutexes and callbacks.               *)
LEMMA StartFromCacheSearch ==
    ASSUME DiscoveryTypeOK, SearchInvariant, NEW u \in Users, StartFromCache(u)
    PROVE  DiscoveryTypeOK' /\ SearchInvariant'
<1> USE DEF DiscoveryTypeOK, SearchInvariant
<1>0. u \in Threads /\ arg[u] \in started /\ arg[u] \in Searches
  BY DEF Threads, StartFromCache, SearchesHaveCallbacks, SearchTypeOK
<1>1. CachedWatches(arg[u]) \in SUBSET Watches
  BY <1>0, DiscoveryAssumption DEF CachedWatches, WatchTypeOK, Watches
<1>2. /\ Nothing \in [Qualities -> SUBSET Instances]
      /\ GetKnownHandles(arg[u], known) \in SUBSET Instances
  BY <1>0, KnownType
<1>3. TransferNewSearchRequest(u, arg[u], CachedWatches(arg[u]), Nothing,
                               GetKnownHandles(arg[u], known))
  BY DEF StartFromCache
<1>4. MutexesHeld' /\ SearchesHaveCallbacks' /\ StoppedSearchesStaySilent'
  BY <1>1, <1>2, <1>3, TransferNewSearch DEF StartFromCache
<1>5. /\ WatchTypeOK'
      /\ requests' \in SUBSET started /\ links' \in [Searches -> SUBSET Watches]
      /\ previous' \in [Searches -> SUBSET Instances]
      /\ handler' \in [Threads -> Searches \union {NoOne}]
      /\ stopping' \in [Threads -> {"no", "yes", "done"}]
      /\ pc' = [pc EXCEPT ![u] = "called"]
  BY <1>0, <1>1, <1>2, <1>3, TransferNewType
<1>6. DiskTypeOK' /\ EventTypeOK' /\ SearchTypeOK' /\ terminated' \in BOOLEAN
  BY <1>5 DEF StartFromCache, diskVars, kernelVars, DiskTypeOK, EventTypeOK, SearchTypeOK
<1>7. ThreadTypeOK'
  BY <1>0, <1>5 DEF StartFromCache, ThreadTypeOK
<1> QED
  BY <1>4, <1>5, <1>6, <1>7

(* A crawl begins under both mutexes and keeps them.                       *)
LEMMA CrawlSearch ==
    ASSUME DiscoveryTypeOK, SearchInvariant, NEW u \in Users,
           CrawlAndWatch(u) \/ GatherExistingInstanceDirectories(u)
    PROVE  DiscoveryTypeOK' /\ SearchInvariant'
<1> USE DEF DiscoveryTypeOK, SearchInvariant
<1>0. u \in Threads /\ u # Worker /\ u # NoOne /\ Worker \in Threads /\ Worker # NoOne
  BY ThreadsAreDistinct
<1>1. pc[u] \in {"start", "gather"} /\ arg[u] \in Searches /\ Target[arg[u]] \in Watches
  BY DiscoveryAssumption DEF CrawlAndWatch, GatherExistingInstanceDirectories, SearchesHaveCallbacks,
     SearchTypeOK
<1>2. /\ UNCHANGED <<arg, containerMutex, batch, impacted, handler, stopping, started, callbacks,
                     requests, obsolete, links, previous, watches, keys, anyEntry, children,
                     known, terminated, files, offerPc, offered, offers, faults>>
      /\ workerMutex' = u /\ workerMutex \in {u, NoOne}
  BY <1>0, ThreadsAreDistinct DEF CrawlAndWatch, GatherExistingInstanceDirectories, handlerVars, searchVars, watchVars,
     MutexesHeld, diskVars
<1>3. PICK place \in {"gather", "map"} : pc' = [pc EXCEPT ![u] = place]
  BY DEF CrawlAndWatch, GatherExistingInstanceDirectories
<1>4. /\ dirs' \in SUBSET Instances /\ inotify' \in SUBSET Watches
      /\ queue' \in Seq(Events) /\ found' \in [Threads -> SUBSET Watches]
  <2>1. CASE CrawlAndWatch(u)
    BY <1>1, <2>1, AddWatchType DEF CrawlAndWatch, ThreadTypeOK
  <2>2. CASE GatherExistingInstanceDirectories(u)
    BY <2>2 DEF GatherExistingInstanceDirectories, diskVars, DiskTypeOK, EventTypeOK, ThreadTypeOK,
       Watches
  <2> QED
    BY <2>1, <2>2
<1>5. DiscoveryTypeOK'
  <2>1. DiskTypeOK' /\ EventTypeOK' /\ SearchTypeOK' /\ WatchTypeOK' /\ terminated' \in BOOLEAN
    <3>1. DiskTypeOK' /\ EventTypeOK'
      BY <1>2, <1>4 DEF DiskTypeOK, EventTypeOK
    <3>2. SearchTypeOK' /\ WatchTypeOK' /\ terminated' \in BOOLEAN
      BY <1>2 DEF SearchTypeOK, WatchTypeOK
    <3> QED
      BY <3>1, <3>2
  <2>2. ThreadTypeOK'
    BY <1>0, <1>2, <1>3, <1>4 DEF ThreadTypeOK
  <2> QED
    BY <2>1, <2>2
<1>6. MutexesHeld'
  BY <1>0, ThreadsAreDistinct, <1>1, <1>2, <1>3 DEF ThreadTypeOK, MutexesHeld
<1>7. SearchesHaveCallbacks'
  <2>1. \A t \in Threads : handler[t] = NoOne
    BY <1>0, ThreadsAreDistinct, <1>1, <1>2 DEF SearchesHaveCallbacks, MutexesHeld
  <2> QED
    BY <1>0, <1>1, <1>2, <1>3, <2>1 DEF ThreadTypeOK, SearchesHaveCallbacks, Ongoing
<1>8. StoppedSearchesStaySilent'
  BY <1>2 DEF StoppedSearchesStaySilent
<1> QED
  BY <1>5, <1>6, <1>7, <1>8

(* The end of a crawl keeps mutexes and callbacks.                         *)
LEMMA FinishCrawlSearch ==
    ASSUME DiscoveryTypeOK, SearchInvariant, NEW u \in Users, FinishCrawl(u)
    PROVE  DiscoveryTypeOK' /\ SearchInvariant'
<1> USE DEF DiscoveryTypeOK, SearchInvariant
<1> DEFINE instances == MapInstancesToQualityTypes(found[u] \ {Any})
<1>0. u \in Threads /\ arg[u] \in started /\ arg[u] \in Searches
  BY DEF Threads, FinishCrawl, SearchesHaveCallbacks, SearchTypeOK
<1>1. found[u] \in SUBSET Watches /\ found[u] \ {Any} \in SUBSET Instances
  BY <1>0 DEF ThreadTypeOK, Watches
<1>2. /\ instances \in [Qualities -> SUBSET Instances]
      /\ GetKnownHandles(arg[u], instances) \in SUBSET Instances
  BY <1>0, <1>1, KnownType
<1>3. TransferNewSearchRequest(u, arg[u], found[u], instances,
                               GetKnownHandles(arg[u], instances))
  BY DEF FinishCrawl
<1>4. workerMutex = u /\ workerMutex' = u
  BY <1>0, ThreadsAreDistinct DEF FinishCrawl, MutexesHeld
<1> HIDE DEF instances
<1>5. MutexesHeld' /\ SearchesHaveCallbacks' /\ StoppedSearchesStaySilent'
  BY <1>1, <1>2, <1>3, <1>4, TransferNewSearch DEF FinishCrawl
<1>6. /\ WatchTypeOK'
      /\ requests' \in SUBSET started /\ links' \in [Searches -> SUBSET Watches]
      /\ previous' \in [Searches -> SUBSET Instances]
      /\ handler' \in [Threads -> Searches \union {NoOne}]
      /\ stopping' \in [Threads -> {"no", "yes", "done"}]
      /\ pc' = [pc EXCEPT ![u] = "called"]
  BY <1>0, <1>1, <1>2, <1>3, TransferNewType
<1>7. DiskTypeOK' /\ EventTypeOK' /\ SearchTypeOK' /\ terminated' \in BOOLEAN
  BY <1>6 DEF FinishCrawl, diskVars, kernelVars, DiskTypeOK, EventTypeOK, SearchTypeOK
<1>8. ThreadTypeOK'
  BY <1>0, <1>6 DEF FinishCrawl, ThreadTypeOK
<1> QED
  BY <1>5, <1>6, <1>7, <1>8

(* A thread leaves StartFindService and StopFindService with its mutexes   *)
(* released, and a search that ends is no longer ongoing when its callback *)
(* goes.                                                                   *)
LEMMA EndSearch ==
    ASSUME DiscoveryTypeOK, SearchInvariant, NEW u \in Users,
           StartFindServiceFails(u) \/ StartFindServiceReturns(u) \/ StopFindServiceAtClient(u)
    PROVE  DiscoveryTypeOK' /\ SearchInvariant'
<1> USE DEF DiscoveryTypeOK, SearchInvariant
<1>0. u \in Threads /\ u # Worker /\ u # NoOne /\ Worker \in Threads /\ Worker # NoOne
  BY ThreadsAreDistinct
<1>1. /\ pc[u] \in {"gather", "map", "called", "stop"} /\ arg[u] \in started
      /\ pc[u] = "called" => handler[u] = NoOne
      /\ pc[u] = "stop" => workerMutex = NoOne
  BY DEF StartFindServiceFails, StartFindServiceReturns, StopFindServiceAtClient,
     SearchesHaveCallbacks
<1>2. UNCHANGED <<batch, impacted, handler, stopping, started, requests, links, previous,
                  watches, keys, anyEntry, children, known, terminated, dirs, files, offerPc,
                  offered, offers, inotify, queue>>
  <2>1. CASE StartFindServiceFails(u)
    BY <2>1 DEF StartFindServiceFails, kernelVars, handlerVars, watchVars
  <2>2. CASE StartFindServiceReturns(u)
    BY <2>2 DEF StartFindServiceReturns, diskVars, kernelVars, handlerVars, searchVars, watchVars
  <2>3. CASE StopFindServiceAtClient(u)
    BY <2>3 DEF StopFindServiceAtClient, diskVars, kernelVars, handlerVars, watchVars
  <2> QED
    BY <2>1, <2>2, <2>3
<1>13. faults' = faults \/ (faults' = faults + 1 /\ faults < Faults)
  BY DEF StartFindServiceFails, StartFindServiceReturns, StopFindServiceAtClient, diskVars
<1>3. /\ pc' = [pc EXCEPT ![u] = "idle"] /\ arg' = [arg EXCEPT ![u] = NoOne]
      /\ workerMutex' = NoOne /\ containerMutex' = NoOne
      /\ found' \in {found, [found EXCEPT ![u] = {}]}
  BY DEF StartFindServiceFails, StartFindServiceReturns, StopFindServiceAtClient
<1>4. \/ UNCHANGED <<callbacks, obsolete>>
      \/ /\ callbacks' = callbacks \ {arg[u]}
         /\ obsolete' = obsolete \union {arg[u]}
  BY DEF StartFindServiceFails, StartFindServiceReturns, StopFindServiceAtClient, searchVars
<1>5. DiscoveryTypeOK'
  <2>1. DiskTypeOK' /\ EventTypeOK'
    BY <1>2, <1>13, DiscoveryAssumption DEF DiskTypeOK, EventTypeOK
  <2>2. SearchTypeOK' /\ WatchTypeOK' /\ terminated' \in BOOLEAN
    BY <1>1, <1>2, <1>4 DEF SearchTypeOK, WatchTypeOK
  <2>3. ThreadTypeOK'
    BY <1>0, <1>2, <1>3 DEF ThreadTypeOK
  <2> QED
    BY <2>1, <2>2, <2>3
<1>6. MutexesHeld'
  BY <1>0, <1>1, <1>3, ThreadsAreDistinct DEF ThreadTypeOK, MutexesHeld
<1>7. \A t \in Threads : handler[t] = NoOne
  BY <1>0, <1>1, ThreadsAreDistinct DEF SearchesHaveCallbacks, MutexesHeld
<1>8. SearchesHaveCallbacks'
  <2>1. pc'[u] = "idle" /\ \A v \in Users \ {u} : pc'[v] = "idle"
    BY <1>0, <1>1, <1>3, ThreadsAreDistinct DEF ThreadTypeOK, MutexesHeld
  <2>2. Ongoing' \subseteq callbacks'
    BY <1>2, <1>4 DEF SearchesHaveCallbacks, Ongoing
  <2> QED
    BY <1>2, <1>7, <2>1, <2>2 DEF SearchesHaveCallbacks
<1>9. StoppedSearchesStaySilent'
  BY <1>2, <1>7 DEF StoppedSearchesStaySilent
<1> QED
  BY <1>5, <1>6, <1>8, <1>9

(* StopFindService takes container_mutex_ before the callback goes.        *)
LEMMA StopFindServiceSearch ==
    ASSUME DiscoveryTypeOK, SearchInvariant, NEW u \in Users, NEW s \in Searches,
           StopFindService(u, s)
    PROVE  DiscoveryTypeOK' /\ SearchInvariant'
<1> USE DEF DiscoveryTypeOK, SearchInvariant
<1>0. u \in Threads /\ u # Worker /\ u # NoOne /\ Worker \in Threads /\ Worker # NoOne
  BY ThreadsAreDistinct
<1>1. DiskTypeOK' /\ EventTypeOK' /\ SearchTypeOK' /\ WatchTypeOK' /\ terminated' \in BOOLEAN
  BY DEF StopFindService, diskVars, kernelVars, searchVars, watchVars, DiskTypeOK, EventTypeOK,
     SearchTypeOK, WatchTypeOK
<1>2. ThreadTypeOK'
  BY <1>0 DEF StopFindService, handlerVars, ThreadTypeOK
<1>3. MutexesHeld'
  BY <1>0, ThreadsAreDistinct DEF StopFindService, ThreadTypeOK, MutexesHeld
<1>4. SearchesHaveCallbacks'
  <2>1. handler[u] = NoOne
    BY <1>0 DEF StopFindService, SearchesHaveCallbacks
  <2> QED
    BY <1>0, <2>1 DEF StopFindService, handlerVars, searchVars, ThreadTypeOK, SearchTypeOK,
       SearchesHaveCallbacks, Ongoing
<1>5. StoppedSearchesStaySilent'
  BY DEF StopFindService, handlerVars, searchVars, StoppedSearchesStaySilent
<1> QED
  BY <1>1, <1>2, <1>3, <1>4, <1>5

(* A handler that stops its own search or returns keeps the others.        *)
LEMMA HandlerSearch ==
    ASSUME DiscoveryTypeOK, SearchInvariant, NEW t \in Threads, HandlerStep(t)
    PROVE  DiscoveryTypeOK' /\ SearchInvariant'
<1> USE DEF DiscoveryTypeOK, SearchInvariant
<1>1. UNCHANGED <<dirs, files, offerPc, offered, offers, faults, inotify, queue, pc, arg, found,
                  workerMutex, containerMutex, batch, impacted, started, requests, links,
                  previous, watches, keys, anyEntry, children, known, terminated>>
  BY DEF HandlerStep, StopFindServiceInHandler, HandlerReturns, diskVars, kernelVars, threadVars,
     searchVars, watchVars
<1>2. DiskTypeOK' /\ EventTypeOK' /\ WatchTypeOK' /\ terminated' \in BOOLEAN /\ MutexesHeld'
  BY <1>1 DEF DiskTypeOK, EventTypeOK, WatchTypeOK, MutexesHeld
<1>3. CASE HandlerReturns(t)
  <2>1. /\ handler' = [handler EXCEPT ![t] = NoOne] /\ stopping' = [stopping EXCEPT ![t] = "no"]
        /\ UNCHANGED <<callbacks, obsolete>>
    BY <1>3 DEF HandlerReturns, searchVars
  <2>2. ThreadTypeOK' /\ SearchTypeOK'
    BY <1>1, <2>1 DEF ThreadTypeOK, SearchTypeOK
  <2>3. SearchesHaveCallbacks'
    BY <1>1, <2>1 DEF ThreadTypeOK, SearchesHaveCallbacks, Ongoing
  <2>4. StoppedSearchesStaySilent'
    BY <1>1, <2>1 DEF ThreadTypeOK, StoppedSearchesStaySilent
  <2> QED
    BY <1>2, <2>2, <2>3, <2>4
<1>4. CASE StopFindServiceInHandler(t)
  <2>1. /\ handler[t] # NoOne /\ stopping[t] = "yes" /\ containerMutex \in {NoOne, t}
        /\ handler' = handler /\ stopping' = [stopping EXCEPT ![t] = "done"]
        /\ callbacks' = callbacks \ {handler[t]} /\ obsolete' = obsolete \union {handler[t]}
    BY <1>4 DEF StopFindServiceInHandler
  <2>2. handler[t] \in callbacks /\ workerMutex = t
        /\ pc[t] \in {"called", "callDeleted", "callCreated"}
    BY <2>1 DEF SearchesHaveCallbacks, StoppedSearchesStaySilent
  <2>3. ThreadTypeOK'
    BY <1>1, <2>1 DEF ThreadTypeOK
  <2>4. SearchTypeOK'
    BY <1>1, <2>1, <2>2 DEF SearchTypeOK
  <2>5. SearchesHaveCallbacks'
    <3>1. \A u \in Users : pc[u] \notin {"start", "gather", "map"}
      BY <2>1, <2>2, ThreadsAreDistinct DEF MutexesHeld
    <3>2. Ongoing' \subseteq callbacks'
      BY <1>1, <2>1 DEF SearchesHaveCallbacks, Ongoing
    <3> QED
      BY <1>1, <2>1, <3>1, <3>2 DEF SearchesHaveCallbacks
  <2>6. \A v \in Threads \ {t} : handler[v] = NoOne
    BY <2>2 DEF SearchesHaveCallbacks
  <2>7. StoppedSearchesStaySilent'
    BY <1>1, <2>1, <2>6 DEF ThreadTypeOK, StoppedSearchesStaySilent
  <2> QED
    BY <1>2, <2>3, <2>4, <2>5, <2>7
<1> QED
  BY <1>3, <1>4 DEF HandlerStep

WorkerSteps == {"read", "handle", "deletions", "callDeleted", "creations", "map", "callCreated"}

(* A step of the worker that keeps the mutexes as its steps have them      *)
(* leaves each search with its callback.                                   *)
LEMMA WorkerSearchKept ==
    ASSUME DiscoveryTypeOK, SearchInvariant,
           UNCHANGED <<arg, containerMutex, started, callbacks, handler, stopping>>,
           NEW place \in WorkerSteps, pc' = [pc EXCEPT ![Worker] = place],
           handler[Worker] # NoOne => place \in {"callDeleted", "callCreated"},
           place \in {"read", "handle"} => workerMutex' # Worker,
           place \notin {"read", "handle"} => workerMutex' = Worker,
           workerMutex' # workerMutex => {workerMutex, workerMutex'} = {Worker, NoOne},
           requests' \ obsolete' \subseteq Ongoing, requests' \subseteq requests
    PROVE  SearchInvariant'
<1> USE DEF DiscoveryTypeOK, SearchInvariant
<1>1. pc'[Worker] = place /\ \A u \in Users : pc'[u] = pc[u]
  BY ThreadsAreDistinct DEF ThreadTypeOK
<1>2. MutexesHeld'
  BY <1>1, ThreadsAreDistinct DEF MutexesHeld, WorkerSteps
<1>3. \A t \in Threads :
          handler'[t] # NoOne =>
              workerMutex' = t /\ pc'[t] \in {"called", "callDeleted", "callCreated"}
  BY <1>1, ThreadsAreDistinct DEF SearchesHaveCallbacks
<1>4. SearchesHaveCallbacks'
  BY <1>1, <1>3 DEF SearchesHaveCallbacks, Ongoing
<1>5. StoppedSearchesStaySilent'
  BY DEF StoppedSearchesStaySilent
<1> QED
  BY <1>2, <1>4, <1>5

(* What only the threads of the consumer change has its type again when    *)
(* the worker has made a step of its calls.                                *)
LEMMA WorkerTypeKept ==
    ASSUME DiscoveryTypeOK, WorkerUnchanged,
           NEW place \in WorkerSteps, pc' = [pc EXCEPT ![Worker] = place],
           inotify' \in SUBSET Watches, queue' \in Seq(Events), batch' \in Seq(Events),
           found' \in [Threads -> SUBSET Watches], workerMutex' \in {Worker, NoOne, workerMutex},
           impacted' \in SUBSET Searches,
           handler' \in [Threads -> Searches \union {NoOne}],
           stopping' \in [Threads -> {"no", "yes", "done"}],
           requests' \in SUBSET started, obsolete' \in SUBSET started,
           links' \in [Searches -> SUBSET Watches], previous' \in [Searches -> SUBSET Instances],
           WatchTypeOK', terminated' \in BOOLEAN
    PROVE  DiscoveryTypeOK'
<1> USE DEF DiscoveryTypeOK, WorkerUnchanged
<1>1. DiskTypeOK' /\ EventTypeOK' /\ SearchTypeOK'
  BY DEF diskVars, DiskTypeOK, EventTypeOK, SearchTypeOK
<1>2. pc' \in [Threads -> {"idle", "start", "gather", "map", "called", "stop", "read",
                           "handle", "deletions", "callDeleted", "creations", "callCreated"}]
  BY ThreadsAreDistinct DEF ThreadTypeOK, WorkerSteps
<1>3. ThreadTypeOK'
  BY <1>2, ThreadsAreDistinct DEF ThreadTypeOK
<1> QED
  BY <1>1, <1>3

(* A read moves the first events of the queue to the batch, in order.      *)
LEMMA ReadSplits ==
    ASSUME queue \in Seq(Events), Read
    PROVE  \E n \in 0 .. Len(queue) :
              /\ batch' \in Seq(Events) /\ Len(batch') = n
              /\ \A k \in 1 .. n : batch'[k] = queue[k]
              /\ queue' \in Seq(Events) /\ Len(queue') = Len(queue) - n
              /\ \A k \in 1 .. Len(queue) - n : queue'[k] = queue[n + k]
<1> DEFINE n == IF Len(queue) < BatchSize THEN Len(queue) ELSE BatchSize
<1>1. Len(queue) \in Nat /\ \A k \in 1 .. Len(queue) : queue[k] \in Events
  BY ElementOfSeq
<1>2. n \in Nat /\ n <= Len(queue)
  BY <1>1, DiscoveryAssumption
<1>3. batch' = SubSeq(queue, 1, n) /\ queue' = SubSeq(queue, n + 1, Len(queue))
  BY DEF Read
<1> HIDE DEF n
<1>4. /\ SubSeq(queue, 1, n) \in Seq(Events)
      /\ Len(SubSeq(queue, 1, n)) = IF 1 <= n THEN n - 1 + 1 ELSE 0
      /\ \A k \in 1 .. n - 1 + 1 : SubSeq(queue, 1, n)[k] = queue[1 + k - 1]
  <2>1. 1 \in Int /\ n \in Int /\ \A k \in 1 .. n : queue[k] \in Events
    BY <1>1, <1>2
  <2> QED
    BY <2>1, SubSeqProperties
<1>5. /\ SubSeq(queue, n + 1, Len(queue)) \in Seq(Events)
      /\ Len(SubSeq(queue, n + 1, Len(queue))) =
            IF n + 1 <= Len(queue) THEN Len(queue) - (n + 1) + 1 ELSE 0
      /\ \A k \in 1 .. Len(queue) - (n + 1) + 1 :
            SubSeq(queue, n + 1, Len(queue))[k] = queue[(n + 1) + k - 1]
  <2>1. n + 1 \in Int /\ Len(queue) \in Int /\ \A k \in n + 1 .. Len(queue) : queue[k] \in Events
    BY <1>1, <1>2
  <2> QED
    BY <2>1, SubSeqProperties
<1>6. n \in 0 .. Len(queue)
  BY <1>1, <1>2
<1>7. Len(batch') = n /\ \A k \in 1 .. n : batch'[k] = queue[k]
  BY <1>2, <1>3, <1>4
<1>8. Len(queue') = Len(queue) - n /\ \A k \in 1 .. Len(queue) - n : queue'[k] = queue[n + k]
  BY <1>1, <1>2, <1>3, <1>5
<1> QED
  BY <1>3, <1>4, <1>5, <1>6, <1>7, <1>8

(* A read takes worker_mutex_ for the worker, or nothing is read.          *)
LEMMA ReadSearch ==
    ASSUME DiscoveryTypeOK, SearchInvariant, Read \/ ReadNothing
    PROVE  DiscoveryTypeOK' /\ SearchInvariant'
<1>1. /\ pc[Worker] = "read" /\ pc' = [pc EXCEPT ![Worker] = "handle"] /\ "handle" \in WorkerSteps
      /\ UNCHANGED <<arg, containerMutex, started, callbacks, handler, stopping, found, workerMutex,
                     impacted, requests, obsolete, links, previous, watches, keys, anyEntry,
                     children, known, terminated, inotify>>
      /\ WorkerUnchanged
  BY DEF Read, ReadNothing, WorkerUnchanged, handlerVars, watchVars, kernelVars, WorkerSteps
<1>2. batch' \in Seq(Events) /\ queue' \in Seq(Events)
  <2>1. queue \in Seq(Events) /\ batch \in Seq(Events)
    BY DEF DiscoveryTypeOK, EventTypeOK
  <2>2. CASE Read
    BY <2>1, <2>2, ReadSplits
  <2>3. CASE ReadNothing
    BY <2>1, <2>3 DEF ReadNothing, kernelVars
  <2> QED
    BY <2>2, <2>3
<1>3. handler[Worker] = NoOne /\ workerMutex # Worker
  BY <1>1, ThreadsAreDistinct DEF SearchInvariant, SearchesHaveCallbacks, MutexesHeld
<1>4. SearchInvariant'
  BY <1>1, <1>3, WorkerSearchKept DEF Ongoing
<1>5. DiscoveryTypeOK'
  <2>1. /\ inotify' \in SUBSET Watches /\ found' \in [Threads -> SUBSET Watches]
        /\ impacted' \in SUBSET Searches /\ handler' \in [Threads -> Searches \union {NoOne}]
        /\ stopping' \in [Threads -> {"no", "yes", "done"}]
        /\ requests' \in SUBSET started /\ obsolete' \in SUBSET started
        /\ links' \in [Searches -> SUBSET Watches] /\ previous' \in [Searches -> SUBSET Instances]
        /\ WatchTypeOK' /\ terminated' \in BOOLEAN
    BY <1>1 DEF DiscoveryTypeOK, EventTypeOK, ThreadTypeOK, SearchTypeOK, WatchTypeOK
  <2> QED
    BY <1>1, <1>2, <2>1, WorkerTypeKept
<1> QED
  BY <1>4, <1>5

(* The searches that were stopped leave their watches with every type.     *)
LEMMA TransferObsoleteSearch ==
    ASSUME DiscoveryTypeOK, SearchInvariant, TransferObsoleteSearchRequests
    PROVE  DiscoveryTypeOK' /\ SearchInvariant'
<1> DEFINE gone == requests \intersect obsolete
           unused == UnusedWithout(gone)
<1>1. /\ pc[Worker] = "handle" /\ workerMutex = NoOne /\ workerMutex' = Worker
      /\ pc' = [pc EXCEPT ![Worker] = "deletions"] /\ "deletions" \in WorkerSteps
      /\ UNCHANGED <<arg, containerMutex, started, callbacks, handler, stopping, found,
                     impacted, previous, terminated>>
      /\ WorkerUnchanged
      /\ requests' = requests \ gone /\ obsolete' = {}
  BY DEF TransferObsoleteSearchRequests, WorkerUnchanged, handlerVars, WorkerSteps
<1>2. handler[Worker] = NoOne
  BY <1>1, ThreadsAreDistinct DEF SearchInvariant, SearchesHaveCallbacks
<1>3. requests' \ obsolete' \subseteq Ongoing /\ requests' \subseteq requests
  BY <1>1 DEF Ongoing
<1>4. SearchInvariant'
  BY <1>1, <1>2, <1>3, WorkerSearchKept
<1>5. DiscoveryTypeOK'
  <2> USE DEF DiscoveryTypeOK
  <2>1. batch' \in Seq(Events) /\ queue' \in Seq(Events)
    <3>1. batch' = Orphaned(batch, unused) /\ queue' = Orphaned(queue, unused)
      BY DEF TransferObsoleteSearchRequests
    <3> QED
      BY <3>1, OrphanedType DEF EventTypeOK
  <2>2. inotify' \in SUBSET Watches
    BY DEF TransferObsoleteSearchRequests, EventTypeOK
  <2>3. WatchTypeOK'
    <3>1. EraseWatch(unused) /\ Unlink(gone) /\ known' = Forget(unused \ {Any})
      BY DEF TransferObsoleteSearchRequests
    <3>2. known' \in [Qualities -> SUBSET Instances]
      BY <3>1 DEF Forget, WatchTypeOK
    <3>3. keys' \in [Watches -> SUBSET Searches]
      BY <3>1 DEF Unlink, WatchTypeOK
    <3> QED
      BY <3>1, <3>2, <3>3 DEF EraseWatch, WatchTypeOK
  <2>4. links' \in [Searches -> SUBSET Watches]
    BY DEF TransferObsoleteSearchRequests, Unlink, SearchTypeOK
  <2>5. /\ found' \in [Threads -> SUBSET Watches]
        /\ impacted' \in SUBSET Searches /\ handler' \in [Threads -> Searches \union {NoOne}]
        /\ stopping' \in [Threads -> {"no", "yes", "done"}] /\ terminated' \in BOOLEAN
        /\ requests' \in SUBSET started /\ obsolete' \in SUBSET started
        /\ previous' \in [Searches -> SUBSET Instances]
    BY <1>1 DEF ThreadTypeOK, SearchTypeOK
  <2> QED
    BY <1>1, <2>1, <2>2, <2>3, <2>4, <2>5, WorkerTypeKept
<1> QED
  BY <1>4, <1>5

(* What the worker does with the events it has read: the instances it      *)
(* knows and the watches change, no search comes or goes.                  *)
LEMMA EventSearch ==
    ASSUME DiscoveryTypeOK, SearchInvariant,
           \/ HandleDeletionEvents \/ DeletionsHandled \/ SkipEvent \/ OnInstanceFlagFileCreated
           \/ CreationsHandled \/ EventsHandled
    PROVE  DiscoveryTypeOK' /\ SearchInvariant'
<1> USE DEF DiscoveryTypeOK
<1>1. /\ UNCHANGED <<inotify, queue, arg, containerMutex, started, callbacks, handler, stopping,
                     found, requests, obsolete, links, previous, watches, keys, anyEntry, children,
                     terminated>>
      /\ WorkerUnchanged
  BY DEF HandleDeletionEvents, DeletionsHandled, SkipEvent, OnInstanceFlagFileCreated,
     CreationsHandled, EventsHandled, WorkerUnchanged, kernelVars, handlerVars, watchVars
<1>2. PICK place \in WorkerSteps :
          /\ pc' = [pc EXCEPT ![Worker] = place]
          /\ pc[Worker] \notin {"read", "handle"}
          /\ handler[Worker] # NoOne => place = pc[Worker]
          /\ workerMutex' = IF place = "read" THEN NoOne ELSE workerMutex
          /\ place # "handle"
  <2>1. CASE HandleDeletionEvents
    BY <2>1, ThreadsAreDistinct DEF HandleDeletionEvents, WorkerSteps, SearchInvariant, SearchesHaveCallbacks
  <2>2. CASE SkipEvent \/ OnInstanceFlagFileCreated
    BY <2>2, ThreadsAreDistinct DEF SkipEvent, OnInstanceFlagFileCreated, WorkerSteps, ThreadTypeOK
  <2>3. CASE DeletionsHandled \/ CreationsHandled \/ EventsHandled
    BY <2>3, ThreadsAreDistinct DEF DeletionsHandled, CreationsHandled, EventsHandled, WorkerSteps,
       SearchInvariant, SearchesHaveCallbacks
  <2> QED
    BY <2>1, <2>2, <2>3
<1>3. workerMutex = Worker
  BY <1>2 DEF SearchInvariant, MutexesHeld
<1>4. handler[Worker] # NoOne => place \in {"callDeleted", "callCreated"}
  BY <1>2, ThreadsAreDistinct DEF SearchInvariant, SearchesHaveCallbacks, MutexesHeld
<1>5. SearchInvariant'
  BY <1>1, <1>2, <1>3, <1>4, ThreadsAreDistinct, WorkerSearchKept DEF Ongoing
<1>6. batch' \in Seq(Events)
  BY DEF HandleDeletionEvents, DeletionsHandled, SkipEvent, OnInstanceFlagFileCreated,
     CreationsHandled, EventsHandled, EventTypeOK
<1>7. impacted' \in SUBSET Searches
  <2>1. \A n \in 1 .. Len(batch) : batch[n] \in Events
    BY ElementOfSeq DEF EventTypeOK
  <2>2. \A e \in Events : e.watch \in watches => keys[e.watch] \in SUBSET Searches
    BY DEF WatchTypeOK
  <2>3. CASE HandleDeletionEvents
    <3>1. \A e \in BatchOf("delete") : keys[e.watch] \in SUBSET Searches
      BY <2>1, <2>2 DEF BatchOf
    <3> QED
      BY <2>3, <3>1 DEF HandleDeletionEvents
  <2>4. CASE OnInstanceFlagFileCreated
    <3>1. Head(batch) \in Events
      BY <2>4 DEF OnInstanceFlagFileCreated, EventTypeOK
    <3> QED
      BY <2>2, <2>4, <3>1 DEF OnInstanceFlagFileCreated, ThreadTypeOK
  <2>5. CASE DeletionsHandled \/ SkipEvent \/ CreationsHandled \/ EventsHandled
    BY <2>5 DEF DeletionsHandled, SkipEvent, CreationsHandled, EventsHandled, ThreadTypeOK
  <2> QED
    BY <2>3, <2>4, <2>5
<1>8. known' \in [Qualities -> SUBSET Instances]
  <2>1. CASE HandleDeletionEvents
    BY <2>1 DEF HandleDeletionEvents, OnInstanceFlagFilesRemoved, WatchTypeOK
  <2>2. CASE OnInstanceFlagFileCreated
    <3>1. Head(batch) \in Events
      BY <2>2 DEF OnInstanceFlagFileCreated, EventTypeOK
    <3>2. Head(batch).inst \in Instances
      BY <3>1 DEF Events
    <3> QED
      BY <2>2, <3>2 DEF OnInstanceFlagFileCreated, Insert, WatchTypeOK
  <2>3. CASE DeletionsHandled \/ SkipEvent \/ CreationsHandled \/ EventsHandled
    BY <2>3 DEF DeletionsHandled, SkipEvent, CreationsHandled, EventsHandled, watchVars, WatchTypeOK
  <2> QED
    BY <2>1, <2>2, <2>3
<1>9. WatchTypeOK'
  BY <1>1, <1>8 DEF WatchTypeOK
<1>10. /\ inotify' \in SUBSET Watches /\ queue' \in Seq(Events)
       /\ found' \in [Threads -> SUBSET Watches] /\ workerMutex' \in {Worker, NoOne, workerMutex}
       /\ handler' \in [Threads -> Searches \union {NoOne}]
       /\ stopping' \in [Threads -> {"no", "yes", "done"}]
       /\ requests' \in SUBSET started /\ obsolete' \in SUBSET started
       /\ links' \in [Searches -> SUBSET Watches] /\ previous' \in [Searches -> SUBSET Instances]
       /\ terminated' \in BOOLEAN
  BY <1>1, <1>2 DEF EventTypeOK, ThreadTypeOK, SearchTypeOK
<1>11. DiscoveryTypeOK'
  BY <1>1, <1>2, <1>6, <1>7, <1>9, <1>10, WorkerTypeKept
<1> QED
  BY <1>5, <1>11

(* A handler is called by the worker, which has worker_mutex_.             *)
LEMMA CallHandlersSearch ==
    ASSUME DiscoveryTypeOK, SearchInvariant, NEW s \in Searches, CallHandlers(s)
    PROVE  DiscoveryTypeOK' /\ SearchInvariant'
<1> USE DEF DiscoveryTypeOK, SearchInvariant
<1>1. /\ UNCHANGED <<inotify, queue, pc, arg, found, workerMutex, containerMutex, batch, started,
                     callbacks, requests, obsolete, links, watches, keys, anyEntry, children,
                     known, terminated>>
      /\ WorkerUnchanged
      /\ impacted' = impacted \ {s} /\ pc[Worker] \in {"callDeleted", "callCreated"}
      /\ handler[Worker] = NoOne
  BY DEF CallHandlers, WorkerUnchanged, kernelVars, watchVars
<1>2. workerMutex = Worker
  BY <1>1 DEF MutexesHeld
<1>3. GetKnownHandles(s, known) \in SUBSET Instances
  BY KnownType
<1>4. /\ handler' \in [Threads -> Searches \union {NoOne}]
      /\ stopping' \in [Threads -> {"no", "yes", "done"}]
      /\ previous' \in [Searches -> SUBSET Instances]
      /\ \A t \in Threads \ {Worker} : handler'[t] = handler[t] /\ stopping'[t] = stopping[t]
      /\ \/ UNCHANGED handlerVars
         \/ handler'[Worker] = s /\ s \in Ongoing
  <2>1. CASE s \notin requests \/ s \in obsolete \/ previous[s] = GetKnownHandles(s, known)
    BY <2>1 DEF CallHandlers, handlerVars, ThreadTypeOK, SearchTypeOK
  <2>2. CASE ~(s \notin requests \/ s \in obsolete \/ previous[s] = GetKnownHandles(s, known))
    <3>1. EnterHandler(Worker, s) /\ previous' = [previous EXCEPT ![s] = GetKnownHandles(s, known)]
      BY <2>2 DEF CallHandlers
    <3>2. /\ handler' \in [Threads -> Searches \union {NoOne}]
          /\ stopping' \in [Threads -> {"no", "yes", "done"}]
          /\ handler'[Worker] = s
          /\ \A v \in Threads \ {Worker} : handler'[v] = handler[v] /\ stopping'[v] = stopping[v]
      BY <3>1, ThreadsAreDistinct, HandlerType
    <3>3. previous' \in [Searches -> SUBSET Instances]
      BY <1>3, <3>1 DEF SearchTypeOK
    <3> QED
      BY <2>2, <3>2, <3>3 DEF Ongoing
  <2> QED
    BY <2>1, <2>2
<1>5. DiscoveryTypeOK'
  <2>1. DiskTypeOK' /\ EventTypeOK' /\ WatchTypeOK' /\ SearchTypeOK' /\ terminated' \in BOOLEAN
    BY <1>1, <1>4 DEF WorkerUnchanged, diskVars, DiskTypeOK, EventTypeOK, WatchTypeOK, SearchTypeOK
  <2>2. ThreadTypeOK'
    BY <1>1, <1>4 DEF ThreadTypeOK
  <2> QED
    BY <2>1, <2>2
<1>6. MutexesHeld'
  BY <1>1 DEF MutexesHeld
<1>7. SearchesHaveCallbacks'
  <2>1. \A t \in Threads :
            handler'[t] # NoOne =>
                workerMutex' = t /\ pc'[t] \in {"called", "callDeleted", "callCreated"}
    BY <1>1, <1>2, <1>4 DEF SearchesHaveCallbacks
  <2> QED
    BY <1>1, <2>1 DEF SearchesHaveCallbacks, Ongoing
<1>8. StoppedSearchesStaySilent'
  <2>1. \A t \in Threads \ {Worker} : handler'[t] = NoOne
    BY <1>2, <1>4 DEF SearchesHaveCallbacks
  <2>2. handler'[Worker] # NoOne => handler'[Worker] \in callbacks'
    BY <1>1, <1>4 DEF handlerVars, SearchesHaveCallbacks
  <2> QED
    BY <2>1, <2>2 DEF StoppedSearchesStaySilent
<1> QED
  BY <1>5, <1>6, <1>7, <1>8

(* A new directory is watched under worker_mutex_.                         *)
LEMMA OnInstanceDirectoryCreatedSearch ==
    ASSUME DiscoveryTypeOK, SearchInvariant, OnInstanceDirectoryCreated
    PROVE  DiscoveryTypeOK' /\ SearchInvariant'
<1> USE DEF DiscoveryTypeOK
<1>1. /\ UNCHANGED <<files, offerPc, offered, offers, faults, arg, containerMutex, started, callbacks,
                     workerMutex, batch, impacted, handler, stopping, requests, obsolete, links,
                     previous, watches, keys, anyEntry, children, known, terminated>>
      /\ pc[Worker] = "creations" /\ pc' = [pc EXCEPT ![Worker] = "map"] /\ "map" \in WorkerSteps
      /\ AddWatch(Head(batch).inst) /\ found' = [found EXCEPT ![Worker] = {Head(batch).inst}]
  BY DEF OnInstanceDirectoryCreated, handlerVars, watchVars, WorkerSteps
<1>2. Head(batch).inst \in Instances
  <2>1. Head(batch) \in Events
    BY DEF OnInstanceDirectoryCreated, EventTypeOK
  <2> QED
    BY <2>1 DEF Events
<1>3. dirs' \in SUBSET Instances /\ inotify' \in SUBSET Watches /\ queue' \in Seq(Events)
  BY <1>1, <1>2, AddWatchType DEF Watches
<1>4. workerMutex = Worker /\ handler[Worker] = NoOne
  BY <1>1, ThreadsAreDistinct DEF SearchInvariant, SearchesHaveCallbacks, MutexesHeld
<1>5. SearchInvariant'
  BY <1>1, <1>4, WorkerSearchKept DEF Ongoing
<1>6. DiscoveryTypeOK'
  <2>1. DiskTypeOK' /\ EventTypeOK' /\ WatchTypeOK' /\ SearchTypeOK' /\ terminated' \in BOOLEAN
    BY <1>1, <1>3 DEF DiskTypeOK, EventTypeOK, WatchTypeOK, SearchTypeOK
  <2>2. ThreadTypeOK'
    BY <1>1, <1>2, ThreadsAreDistinct DEF ThreadTypeOK, Watches
  <2> QED
    BY <2>1, <2>2
<1> QED
  BY <1>5, <1>6

(* Linking a new directory keeps mutexes and callbacks, whether or not the *)
(* assertion fails.                                                        *)
LEMMA LinkInstanceDirectorySearch ==
    ASSUME DiscoveryTypeOK, SearchInvariant, CrawlsAreWatched, LinkInstanceDirectory
    PROVE  DiscoveryTypeOK' /\ SearchInvariant'
<1> USE DEF DiscoveryTypeOK
<1> DEFINE ws == found[Worker]
<1>1. /\ UNCHANGED <<inotify, queue, arg, containerMutex, started, callbacks,
                     workerMutex, handler, stopping, requests, obsolete, previous>>
      /\ WorkerUnchanged
      /\ pc[Worker] = "map" /\ pc' = [pc EXCEPT ![Worker] = "creations"] /\ "creations" \in WorkerSteps
      /\ found' = [found EXCEPT ![Worker] = {}] /\ batch' = Tail(batch)
      /\ impacted' = impacted \union keys[Any]
  BY DEF LinkInstanceDirectory, WorkerUnchanged, handlerVars, kernelVars, WorkerSteps
<1>2. batch # <<>> /\ ws = {Head(batch).inst}
  BY <1>1 DEF CrawlsAreWatched
<1>3. ws \in SUBSET Instances /\ ws \in SUBSET Watches
  <2>1. Head(batch) \in Events
    BY <1>2 DEF EventTypeOK
  <2> QED
    BY <1>2, <2>1 DEF Events, Watches
<1>4. keys[Any] \in SUBSET Searches
  BY DEF WatchTypeOK, Watches
<1>5. WatchTypeOK' /\ links' \in [Searches -> SUBSET Watches] /\ terminated' \in BOOLEAN
  <2>1. CASE Linkable(ws, keys[Any])
    <3>1. /\ StoreWatch(ws) /\ Link(ws, keys[Any])
          /\ known' = Merge(MapInstancesToQualityTypes(ws)) /\ terminated' = terminated
      BY <2>1 DEF LinkInstanceDirectory
    <3>2. known' \in [Qualities -> SUBSET Instances]
      BY <1>3, <3>1 DEF Merge, MapInstancesToQualityTypes, WatchTypeOK
    <3> QED
      BY <1>3, <1>4, <3>1, <3>2, StoreWatchType DEF WatchTypeOK
  <2>2. CASE ~Linkable(ws, keys[Any])
    BY <2>2 DEF LinkInstanceDirectory, watchVars, WatchTypeOK, SearchTypeOK
  <2> QED
    BY <2>1, <2>2
<1>6. workerMutex = Worker /\ handler[Worker] = NoOne
  BY <1>1, ThreadsAreDistinct DEF SearchInvariant, SearchesHaveCallbacks, MutexesHeld
<1>7. SearchInvariant'
  BY <1>1, <1>6, WorkerSearchKept DEF Ongoing
<1>8. /\ inotify' \in SUBSET Watches /\ queue' \in Seq(Events) /\ batch' \in Seq(Events)
      /\ found' \in [Threads -> SUBSET Watches] /\ workerMutex' \in {Worker, NoOne, workerMutex}
      /\ impacted' \in SUBSET Searches
      /\ handler' \in [Threads -> Searches \union {NoOne}]
      /\ stopping' \in [Threads -> {"no", "yes", "done"}]
      /\ requests' \in SUBSET started /\ obsolete' \in SUBSET started
      /\ previous' \in [Searches -> SUBSET Instances]
  <2>1. batch' \in Seq(Events)
    BY <1>1, <1>2 DEF EventTypeOK
  <2>2. inotify' \in SUBSET Watches /\ queue' \in Seq(Events)
    BY <1>1 DEF EventTypeOK
  <2>3. /\ found' \in [Threads -> SUBSET Watches] /\ workerMutex' \in {Worker, NoOne, workerMutex}
        /\ impacted' \in SUBSET Searches
        /\ handler' \in [Threads -> Searches \union {NoOne}]
        /\ stopping' \in [Threads -> {"no", "yes", "done"}]
    BY <1>1, <1>4 DEF ThreadTypeOK
  <2>4. requests' \in SUBSET started /\ obsolete' \in SUBSET started
        /\ previous' \in [Searches -> SUBSET Instances]
    BY <1>1 DEF SearchTypeOK
  <2> QED
    BY <2>1, <2>2, <2>3, <2>4
<1>9. DiscoveryTypeOK'
  BY <1>1, <1>5, <1>8, WorkerTypeKept
<1> QED
  BY <1>7, <1>9

(* At the start nothing is offered, searched or locked.                    *)
LEMMA DiscoveryInitOK ==
    DiscoveryInit => DiscoveryTypeOK /\ SearchInvariant
<1> SUFFICES ASSUME DiscoveryInit PROVE DiscoveryTypeOK /\ SearchInvariant
  OBVIOUS
<1> USE DEF DiscoveryInit
<1>1. DiskTypeOK
  BY DiscoveryAssumption DEF DiskTypeOK
<1>2. EventTypeOK /\ terminated \in BOOLEAN
  <2>1. <<>> \in Seq(Events)
    OBVIOUS
  <2>2. inotify = {} /\ queue = <<>> /\ batch = <<>> /\ terminated = FALSE
    OBVIOUS
  <2> HIDE DEF DiscoveryInit
  <2> QED
    BY <2>1, <2>2 DEF EventTypeOK
<1>3. ThreadTypeOK
  BY DEF ThreadTypeOK
<1>4. SearchInvariant
  BY ThreadsAreDistinct DEF SearchInvariant, MutexesHeld, SearchesHaveCallbacks,
     StoppedSearchesStaySilent, Ongoing
<1>5. SearchTypeOK
  BY DEF SearchTypeOK
<1>6. WatchTypeOK
  BY DEF WatchTypeOK
<1> QED
  BY <1>1, <1>2, <1>3, <1>4, <1>5, <1>6 DEF DiscoveryTypeOK

(* Every step keeps types, mutexes and callbacks.                          *)
LEMMA DiscoveryStepSearch ==
    ASSUME DiscoveryTypeOK, SearchInvariant, CrawlsAreWatched, [DiscoveryNext]_discoveryVars
    PROVE  DiscoveryTypeOK' /\ SearchInvariant'
<1>1. CASE UNCHANGED discoveryVars
  <2>1. DiscoveryTypeOK'
    <3>1. DiskTypeOK' /\ EventTypeOK' /\ terminated' \in BOOLEAN
      BY <1>1 DEF DiscoveryTypeOK, discoveryVars, diskVars, kernelVars, threadVars, DiskTypeOK, EventTypeOK
    <3>2. ThreadTypeOK'
      BY <1>1 DEF DiscoveryTypeOK, discoveryVars, threadVars, handlerVars, ThreadTypeOK
    <3>3. SearchTypeOK' /\ WatchTypeOK'
      BY <1>1 DEF DiscoveryTypeOK, discoveryVars, searchVars, watchVars, SearchTypeOK, WatchTypeOK
    <3> QED
      BY <3>1, <3>2, <3>3 DEF DiscoveryTypeOK
  <2>2. SearchInvariant'
    BY <1>1 DEF discoveryVars, threadVars, handlerVars, searchVars, SearchInvariant, MutexesHeld,
       SearchesHaveCallbacks, StoppedSearchesStaySilent, Ongoing
  <2> QED
    BY <2>1, <2>2
<1>2. ASSUME NEW i \in Instances, ProviderStep(i)
      PROVE  DiscoveryTypeOK' /\ SearchInvariant'
  BY <1>2, ProviderStepSearch
<1>3. ASSUME NEW u \in Users, UserStep(u)
      PROVE  DiscoveryTypeOK' /\ SearchInvariant'
  <2>1. ASSUME NEW s \in Searches, StartFindService(u, s)
        PROVE  DiscoveryTypeOK' /\ SearchInvariant'
    BY <2>1, StartFindServiceSearch
  <2>2. ASSUME NEW s \in Searches, StopFindService(u, s)
        PROVE  DiscoveryTypeOK' /\ SearchInvariant'
    BY <2>2, StopFindServiceSearch
  <2>3. CASE StartFromCache(u)
    BY <2>3, StartFromCacheSearch
  <2>4. CASE CrawlAndWatch(u) \/ GatherExistingInstanceDirectories(u)
    BY <2>4, CrawlSearch
  <2>5. CASE FinishCrawl(u)
    BY <2>5, FinishCrawlSearch
  <2>6. CASE StartFindServiceFails(u) \/ StartFindServiceReturns(u) \/ StopFindServiceAtClient(u)
    BY <2>6, EndSearch
  <2> QED
    BY <1>3, <2>1, <2>2, <2>3, <2>4, <2>5, <2>6 DEF UserStep
<1>4. ASSUME NEW t \in Threads, HandlerStep(t)
      PROVE  DiscoveryTypeOK' /\ SearchInvariant'
  BY <1>4, HandlerSearch
<1>5. CASE WorkerStep
  <2>1. ASSUME NEW s \in Searches, CallHandlers(s)
        PROVE  DiscoveryTypeOK' /\ SearchInvariant'
    BY <2>1, CallHandlersSearch
  <2>2. CASE Read \/ ReadNothing
    BY <2>2, ReadSearch
  <2>3. CASE TransferObsoleteSearchRequests
    BY <2>3, TransferObsoleteSearch
  <2>4. CASE \/ HandleDeletionEvents \/ DeletionsHandled \/ SkipEvent \/ OnInstanceFlagFileCreated
             \/ CreationsHandled \/ EventsHandled
    BY <2>4, EventSearch
  <2>5. CASE OnInstanceDirectoryCreated
    BY <2>5, OnInstanceDirectoryCreatedSearch
  <2>6. CASE LinkInstanceDirectory
    BY <2>6, LinkInstanceDirectorySearch
  <2> QED
    BY <1>5, <2>1, <2>2, <2>3, <2>4, <2>5, <2>6 DEF WorkerStep
<1> QED
  BY <1>1, <1>2, <1>3, <1>4, <1>5 DEF DiscoveryNext

-----------------------------------------------------------------------------
(* Watches (WatchInvariant): the bookkeeping of watches and searches, and  *)
(* what events and crawls refer to.                                        *)

(* The events of a directory name the watch of that directory.             *)
LEMMA EventIsOfItsWatch ==
    ASSUME NEW i \in Instances
    PROVE  /\ Any \in inotify => EventIsOfWatch(DirectoryCreated(i))
           /\ \A q \in Qualities : \A kind \in {"create", "delete"} :
                 i \in inotify => EventIsOfWatch(FileEvent(kind, i, q))
           /\ DirectoryCreated(i).watch = Any
           /\ \A q \in Qualities : \A kind \in {"create", "delete"} :
                 FileEvent(kind, i, q).watch = i
BY DEF EventIsOfWatch, DirectoryCreated, FileEvent

(* An event is queued for a watch the kernel has.                          *)
LEMMA QueuedOfWatch ==
    ASSUME NEW q \in Seq(Events), NEW e \in Events,
           \A n \in 1 .. Len(q) : EventIsOfWatch(q[n]),
           e.watch \in inotify => EventIsOfWatch(e)
    PROVE  /\ Queued(q, e) \in Seq(Events)
           /\ \A n \in 1 .. Len(Queued(q, e)) : EventIsOfWatch(Queued(q, e)[n])
<1>1. CASE e.watch \in inotify
  <2>1. /\ Append(q, e) \in Seq(Events) /\ Len(Append(q, e)) = Len(q) + 1
        /\ \A n \in 1 .. Len(q) : Append(q, e)[n] = q[n]
        /\ Append(q, e)[Len(q) + 1] = e
    OBVIOUS
  <2>2. Len(q) \in Nat
    OBVIOUS
  <2>3. \A n \in 1 .. Len(q) + 1 : n = Len(q) + 1 \/ n \in 1 .. Len(q)
    BY <2>2
  <2>4. \A n \in 1 .. Len(q) + 1 : EventIsOfWatch(Append(q, e)[n])
    BY <1>1, <2>1, <2>3
  <2> QED
    BY <1>1, <2>1, <2>4 DEF Queued
<1>2. CASE e.watch \notin inotify
  BY <1>2 DEF Queued
<1> QED
  BY <1>1, <1>2

(* So are the deletions of flag files.                                     *)
LEMMA DeletionsOfWatch ==
    ASSUME NEW q \in Seq(Events), NEW fs, NEW i \in Instances,
           \A n \in 1 .. Len(q) : EventIsOfWatch(q[n])
    PROVE  /\ Deletions(q, fs, i) \in Seq(Events)
           /\ \A n \in 1 .. Len(Deletions(q, fs, i)) : EventIsOfWatch(Deletions(q, fs, i)[n])
<1>1. /\ FileEvent("delete", i, "qm") \in Events
      /\ FileEvent("delete", i, "b") \in Events
      /\ FileEvent("delete", i, "qm").watch \in inotify => EventIsOfWatch(FileEvent("delete", i, "qm"))
      /\ FileEvent("delete", i, "b").watch \in inotify => EventIsOfWatch(FileEvent("delete", i, "b"))
  BY EventsAreTyped, EventIsOfItsWatch DEF Qualities
<1>2. /\ Deleted(q, fs, i, "qm") \in Seq(Events)
      /\ \A n \in 1 .. Len(Deleted(q, fs, i, "qm")) : EventIsOfWatch(Deleted(q, fs, i, "qm")[n])
  BY <1>1, QueuedOfWatch DEF Deleted
<1> DEFINE d == Deleted(q, fs, i, "qm")
<1> HIDE DEF d
<1>3. /\ Deleted(d, fs, i, "b") \in Seq(Events)
      /\ \A n \in 1 .. Len(Deleted(d, fs, i, "b")) : EventIsOfWatch(Deleted(d, fs, i, "b")[n])
  <2>1. d \in Seq(Events) /\ \A n \in 1 .. Len(d) : EventIsOfWatch(d[n])
    BY <1>2 DEF d
  <2> QED
    BY <1>1, <2>1, QueuedOfWatch DEF Deleted
<1> QED
  BY <1>3 DEF d, Deletions

(* What stays as it is when no search and no watch comes or goes.          *)
LEMMA WatchesKept ==
    ASSUME WatchesMatchSearches, UNCHANGED <<watches, keys, anyEntry, children, links, requests>>,
           inotify \subseteq inotify',
           \A q \in Qualities : known'[q] \subseteq known[q]
    PROVE  WatchesMatchSearches'
BY DEF WatchesMatchSearches

(* Crawls that go on keep what they have found watched.                    *)
LEMMA CrawlsKept ==
    ASSUME CrawlsAreWatched, inotify \subseteq inotify', links' = links,
           Any \in watches => Any \in watches',
           \A u \in Users : pc'[u] \in {"gather", "map"} =>
               pc'[u] = pc[u] /\ arg'[u] = arg[u] /\ found'[u] = found[u],
           pc'[Worker] = "map" =>
               pc[Worker] = "map" /\ found'[Worker] = found[Worker] /\ batch' = batch
    PROVE  CrawlsAreWatched'
BY DEF CrawlsAreWatched

(* Events stay of their watches while the kernel keeps its watches.        *)
LEMMA EventsKept ==
    ASSUME \A n \in 1 .. Len(queue') : EventIsOfWatch(queue'[n]),
           \A n \in 1 .. Len(batch') : EventIsOfWatch(batch'[n]),
           inotify \subseteq inotify',
           pc'[Worker] \in {"read", "callCreated"} => batch' = <<>>,
           pc'[Worker] \in {"read", "handle", "deletions"} => impacted' = {}
    PROVE  EventsAreOfWatches'
BY DEF EventsAreOfWatches, EventIsOfWatch

(* The providers leave the watches alone and queue events of theirs only.  *)
LEMMA ProviderStepWatch ==
    ASSUME DiscoveryTypeOK, WatchInvariant, NEW i \in Instances, ProviderStep(i)
    PROVE  WatchInvariant'
<1>1. UNCHANGED <<inotify, pc, arg, found, batch, impacted, requests, links, watches, keys,
                  anyEntry, children, known>>
  BY ProviderLeavesConsumer
<1>2. /\ queue \in Seq(Events) /\ \A n \in 1 .. Len(queue) : EventIsOfWatch(queue[n])
      /\ DirectoryCreated(i) \in Events
      /\ DirectoryCreated(i).watch \in inotify => EventIsOfWatch(DirectoryCreated(i))
  BY EventsAreTyped, EventIsOfItsWatch DEF DiscoveryTypeOK, EventTypeOK, WatchInvariant, EventsAreOfWatches
<1>3. offerPc[i] # "idle" =>
          /\ FileEvent("create", i, Making(i)) \in Events
          /\ FileEvent("create", i, Making(i)).watch \in inotify =>
                EventIsOfWatch(FileEvent("create", i, Making(i)))
  <2>1. offerPc[i] # "idle" => Making(i) \in Qualities
    BY MadeType DEF DiscoveryTypeOK
  <2> QED
    BY <2>1, EventsAreTyped, EventIsOfItsWatch
<1>4. \A n \in 1 .. Len(queue') : EventIsOfWatch(queue'[n])
  <2>1. CASE OfferService(i) \/ ProviderCrash(i)
    BY <1>2, <2>1 DEF OfferService, ProviderCrash
  <2>2. CASE CreateSearchPath(i)
    <3> DEFINE events == Deletions(queue, MatchingFlagFiles(i), i)
    <3>1. events \in Seq(Events) /\ \A n \in 1 .. Len(events) : EventIsOfWatch(events[n])
      BY <1>2, DeletionsOfWatch
    <3>2. queue' \in {events, Queued(events, DirectoryCreated(i))}
      BY <2>2 DEF CreateSearchPath
    <3> HIDE DEF events
    <3> QED
      BY <1>2, <3>1, <3>2, QueuedOfWatch
  <2>3. CASE MakeFlagFile(i)
    BY <1>2, <1>3, <2>3, QueuedOfWatch DEF MakeFlagFile
  <2>4. CASE MakeFlagFileFails(i)
    <3>1. offerPc[i] # "idle"
      BY <2>4 DEF MakeFlagFileFails
    <3>2. PICK left \in {{}, {Made(i)}} :
              LET events == IF left = {} THEN queue
                            ELSE Queued(queue, FileEvent("create", i, Making(i)))
              IN  queue' = Deletions(events, offered[i], i)
      BY <2>4 DEF MakeFlagFileFails
    <3> DEFINE events == IF left = {} THEN queue
                         ELSE Queued(queue, FileEvent("create", i, Making(i)))
    <3>3. events \in Seq(Events) /\ \A n \in 1 .. Len(events) : EventIsOfWatch(events[n])
      BY <1>2, <1>3, <3>1, QueuedOfWatch
    <3>4. queue' = Deletions(events, offered[i], i)
      BY <3>2
    <3> HIDE DEF events
    <3> QED
      BY <3>3, <3>4, DeletionsOfWatch
  <2>5. CASE StopOfferService(i)
    BY <1>2, <2>5, DeletionsOfWatch DEF StopOfferService
  <2> QED
    BY <2>1, <2>2, <2>3, <2>4, <2>5 DEF ProviderStep
<1>5. EventsAreOfWatches'
  BY <1>1, <1>4, EventsKept DEF WatchInvariant, EventsAreOfWatches
<1>6. CrawlsAreWatched'
  BY <1>1, CrawlsKept DEF WatchInvariant
<1>7. WatchesMatchSearches'
  BY <1>1, WatchesKept DEF WatchInvariant
<1> QED
  BY <1>5, <1>6, <1>7 DEF WatchInvariant

(* The steps of searches and handlers that touch no watch.                 *)
LEMMA SearchStepWatch ==
    ASSUME DiscoveryTypeOK, SearchInvariant, WatchInvariant, NEW u \in Users, NEW s \in Searches,
           \/ StartFindService(u, s) \/ StopFindService(u, s) \/ StartFindServiceFails(u)
           \/ StartFindServiceReturns(u) \/ StopFindServiceAtClient(u)
    PROVE  WatchInvariant'
<1>1. /\ UNCHANGED <<inotify, queue, batch, impacted, requests, links, watches, keys,
                     anyEntry, children, known>>
      /\ \E place \in {"start", "stop", "idle"} : pc' = [pc EXCEPT ![u] = place]
      /\ found' \in {found, [found EXCEPT ![u] = {}]}
      /\ \E a \in {s, NoOne} : arg' = [arg EXCEPT ![u] = a]
  <2>1. CASE StartFindService(u, s) \/ StopFindService(u, s)
    BY <2>1 DEF StartFindService, StopFindService, kernelVars, watchVars, searchVars
  <2>2. CASE \/ StartFindServiceFails(u) \/ StartFindServiceReturns(u)
             \/ StopFindServiceAtClient(u)
    BY <2>2 DEF StartFindServiceFails, StartFindServiceReturns, StopFindServiceAtClient, kernelVars,
       watchVars, searchVars
  <2> QED
    BY <2>1, <2>2
<1>2. /\ pc'[Worker] = pc[Worker] /\ found'[Worker] = found[Worker]
      /\ pc'[u] \notin {"gather", "map"}
      /\ \A v \in Users \ {u} : pc'[v] = pc[v] /\ arg'[v] = arg[v] /\ found'[v] = found[v]
  BY <1>1, ThreadsAreDistinct DEF DiscoveryTypeOK, ThreadTypeOK
<1>3. EventsAreOfWatches'
  BY <1>1, <1>2, EventsKept DEF WatchInvariant, EventsAreOfWatches
<1>4. CrawlsAreWatched'
  BY <1>1, <1>2, CrawlsKept DEF WatchInvariant
<1>5. WatchesMatchSearches'
  BY <1>1, WatchesKept DEF WatchInvariant
<1> QED
  BY <1>3, <1>4, <1>5 DEF WatchInvariant

(* Handlers touch no watch.                                                *)
LEMMA HandlerWatch ==
    ASSUME WatchInvariant, NEW t \in Threads, HandlerStep(t)
    PROVE  WatchInvariant'
<1>1. UNCHANGED <<inotify, queue, pc, arg, found, batch, impacted, requests, links, watches, keys,
                  anyEntry, children, known>>
  BY DEF HandlerStep, StopFindServiceInHandler, HandlerReturns, kernelVars, threadVars,
     searchVars, watchVars
<1>2. EventsAreOfWatches'
  BY <1>1, EventsKept DEF WatchInvariant, EventsAreOfWatches
<1>3. CrawlsAreWatched'
  BY <1>1, CrawlsKept DEF WatchInvariant
<1>4. WatchesMatchSearches'
  BY <1>1, WatchesKept DEF WatchInvariant
<1> QED
  BY <1>2, <1>3, <1>4 DEF WatchInvariant

(* A new search and its watches refer to each other.                       *)
LEMMA TransferNewWatch ==
    ASSUME DiscoveryTypeOK, WatchInvariant, NEW u \in Users, NEW s \in started,
           NEW ws \in SUBSET Watches, NEW instances \in [Qualities -> SUBSET Instances],
           NEW handles, s \notin requests, Target[s] \in ws, ws \subseteq inotify,
           Target[s] # Any => ws = {Target[s]},
           \A q \in Qualities : instances[q] \subseteq ws,
           TransferNewSearchRequest(u, s, ws, instances, handles),
           inotify' = inotify
    PROVE  /\ WatchesMatchSearches'
           /\ Any \in watches => Any \in watches'
           /\ \A r \in Searches :
                /\ Any \in links'[r] => Target[r] = Any
                /\ Target[r] # Any => links'[r] \subseteq {Target[r]}
<1> USE DEF DiscoveryTypeOK, WatchInvariant
<1>1. s \in Searches /\ links[s] = {} /\ links \in [Searches -> SUBSET Watches]
      /\ keys \in [Watches -> SUBSET Searches]
  BY DEF SearchTypeOK, WatchTypeOK, WatchesMatchSearches
<1>2. /\ requests' = requests \union {s}
      /\ watches' = watches \union ws
      /\ children' = children \union (ws \ {Any})
      /\ anyEntry' \in IF anyEntry # "absent" \/ ws = {} THEN {anyEntry}
                       ELSE {IF w = Any THEN "watch" ELSE "none" : w \in ws}
      /\ keys' = [w \in Watches |-> IF w \in ws THEN keys[w] \union {s} ELSE keys[w]]
      /\ known' = [q \in Qualities |-> known[q] \union instances[q]]
  BY DEF TransferNewSearchRequest, StoreWatch, Link, Merge
<1>3. links'[s] = ws /\ \A r \in Searches \ {s} : links'[r] = links[r]
  <2>1. links' = [r \in Searches |-> IF r \in {s} THEN links[r] \union ws ELSE links[r]]
    BY DEF TransferNewSearchRequest, Link
  <2> QED
    BY <1>1, <2>1
<1>4. \A w \in Watches : keys'[w] = {r \in Searches : w \in links'[r]}
  <2>1. ASSUME NEW w \in Watches PROVE keys'[w] = {r \in Searches : w \in links'[r]}
    <3>1. keys[w] = {r \in Searches : w \in links[r]}
      BY DEF WatchesMatchSearches
    <3>2. keys'[w] = IF w \in ws THEN keys[w] \union {s} ELSE keys[w]
      BY <1>2
    <3> QED
      BY <1>1, <1>3, <3>1, <3>2
  <2> QED
    BY <2>1
<1>5. /\ \A r \in Searches : links'[r] # {} <=> r \in requests'
      /\ \A r \in requests' : Target[r] \in links'[r]
  BY <1>1, <1>2, <1>3 DEF WatchesMatchSearches, SearchTypeOK
<1>6. watches' = {w \in Watches : keys'[w] # {}} /\ watches' \subseteq inotify'
  <2>1. watches = {w \in Watches : keys[w] # {}} /\ watches \subseteq inotify
    BY DEF WatchesMatchSearches
  <2>2. \A w \in Watches : keys'[w] # {} <=> w \in ws \/ keys[w] # {}
    BY <1>2
  <2> QED
    BY <1>2, <2>1, <2>2
<1>7. children' = watches' \ {Any} /\ (anyEntry' = "watch" => Any \in watches')
  BY <1>2 DEF WatchesMatchSearches
<1>8. \A q \in Qualities : known'[q] \subseteq watches'
  BY <1>2 DEF WatchesMatchSearches
<1>9. WatchesMatchSearches'
  BY <1>4, <1>5, <1>6, <1>7, <1>8 DEF WatchesMatchSearches
<1>10. \A r \in Searches :
         /\ Any \in links'[r] => Target[r] = Any
         /\ Target[r] # Any => links'[r] \subseteq {Target[r]}
  BY <1>3 DEF CrawlsAreWatched
<1> QED
  BY <1>2, <1>9, <1>10

(* A search that reuses watches is linked with each of them once.          *)
LEMMA StartFromCacheWatch ==
    ASSUME DiscoveryTypeOK, SearchInvariant, WatchInvariant, NEW u \in Users, StartFromCache(u)
    PROVE  WatchInvariant'
<1> USE DEF DiscoveryTypeOK, SearchInvariant, WatchInvariant
<1> DEFINE s == arg[u]
           ws == CachedWatches(s)
           handles == GetKnownHandles(s, known)
<1>0. u \in Threads /\ s \in started /\ s \in Searches /\ s \notin requests
  BY DEF Threads, StartFromCache, SearchesHaveCallbacks, SearchTypeOK
<1>1. Target[s] \in Watches /\ Cached(s)
  BY <1>0, DiscoveryAssumption DEF StartFromCache
<1>2. ws \subseteq watches /\ Target[s] \in ws /\ (Target[s] # Any => ws = {Target[s]})
  BY <1>1 DEF CachedWatches, Cached, WatchesMatchSearches
<1>3. ws \in SUBSET Watches /\ ws \subseteq inotify
  BY <1>2 DEF WatchTypeOK, WatchesMatchSearches
<1>4. Nothing \in [Qualities -> SUBSET Instances] /\ \A q \in Qualities : Nothing[q] \subseteq ws
  BY DEF Nothing
<1>5. /\ TransferNewSearchRequest(u, s, ws, Nothing, handles)
      /\ UNCHANGED <<inotify, queue, arg, found, batch, impacted>>
  BY DEF StartFromCache, kernelVars
<1> HIDE DEF s, ws, handles
<1>6. /\ WatchesMatchSearches' /\ (Any \in watches => Any \in watches')
      /\ \A r \in Searches :
           /\ Any \in links'[r] => Target[r] = Any
           /\ Target[r] # Any => links'[r] \subseteq {Target[r]}
  BY <1>0, <1>2, <1>3, <1>4, <1>5, TransferNewWatch
<1>7. pc'[u] = "called" /\ \A t \in Threads \ {u} : pc'[t] = pc[t]
  BY <1>0, <1>5 DEF TransferNewSearchRequest, ThreadTypeOK
<1>8. EventsAreOfWatches'
  BY <1>5, <1>7, EventsKept, ThreadsAreDistinct DEF EventsAreOfWatches
<1>9. CrawlsAreWatched'
  BY <1>5, <1>6, <1>7, ThreadsAreDistinct DEF CrawlsAreWatched
<1> QED
  BY <1>6, <1>8, <1>9

(* A search that crawled is linked with all it found.                      *)
LEMMA FinishCrawlWatch ==
    ASSUME DiscoveryTypeOK, SearchInvariant, WatchInvariant, NEW u \in Users, FinishCrawl(u)
    PROVE  WatchInvariant'
<1> USE DEF DiscoveryTypeOK, SearchInvariant, WatchInvariant
<1> DEFINE s == arg[u]
           ws == found[u]
           instances == MapInstancesToQualityTypes(ws \ {Any})
           handles == GetKnownHandles(s, instances)
<1>0. u \in Threads /\ s \in started /\ s \in Searches /\ s \notin requests
  BY DEF Threads, FinishCrawl, SearchesHaveCallbacks, SearchTypeOK
<1>1. ws \subseteq inotify /\ Target[s] \in ws /\ (Target[s] # Any => ws = {Target[s]})
  BY DEF FinishCrawl, CrawlsAreWatched
<1>2. ws \in SUBSET Watches /\ ws \ {Any} \in SUBSET Instances
  BY <1>0 DEF ThreadTypeOK, Watches
<1>3. instances \in [Qualities -> SUBSET Instances]
  BY <1>0, <1>2, KnownType
<1>4. \A q \in Qualities : instances[q] \subseteq ws
  BY DEF MapInstancesToQualityTypes
<1>5. /\ TransferNewSearchRequest(u, s, ws, instances, handles)
      /\ UNCHANGED <<inotify, queue, arg, batch, impacted>>
      /\ found' = [found EXCEPT ![u] = {}]
  BY DEF FinishCrawl, kernelVars
<1> HIDE DEF s, ws, instances, handles
<1>6. /\ WatchesMatchSearches' /\ (Any \in watches => Any \in watches')
      /\ \A r \in Searches :
           /\ Any \in links'[r] => Target[r] = Any
           /\ Target[r] # Any => links'[r] \subseteq {Target[r]}
  BY <1>0, <1>1, <1>2, <1>3, <1>4, <1>5, TransferNewWatch
<1>7. pc'[u] = "called" /\ \A t \in Threads \ {u} : pc'[t] = pc[t] /\ found'[t] = found[t]
  BY <1>0, <1>5 DEF TransferNewSearchRequest, ThreadTypeOK
<1>8. EventsAreOfWatches'
  BY <1>5, <1>7, EventsKept, ThreadsAreDistinct DEF EventsAreOfWatches
<1>9. CrawlsAreWatched'
  BY <1>5, <1>6, <1>7, ThreadsAreDistinct DEF CrawlsAreWatched
<1> QED
  BY <1>6, <1>8, <1>9

(* A watch is added with its event queued for those who watched before.    *)
LEMMA AddWatchWatch ==
    ASSUME DiscoveryTypeOK, EventsAreOfWatches, NEW w \in Watches, AddWatch(w)
    PROVE  /\ inotify \subseteq inotify' /\ w \in inotify'
           /\ \A n \in 1 .. Len(queue') : EventIsOfWatch(queue'[n])
<1>1. /\ queue \in Seq(Events) /\ \A n \in 1 .. Len(queue) : EventIsOfWatch(queue[n])
  BY DEF DiscoveryTypeOK, EventTypeOK, EventsAreOfWatches
<1>2. w # Any => /\ DirectoryCreated(w) \in Events
                 /\ DirectoryCreated(w).watch \in inotify => EventIsOfWatch(DirectoryCreated(w))
  BY EventsAreTyped, EventIsOfItsWatch DEF Watches
<1>3. queue' = queue \/ (w # Any /\ queue' = Queued(queue, DirectoryCreated(w)))
  BY DEF AddWatch
<1>4. \A n \in 1 .. Len(queue') : EventIsOfWatch(queue'[n])
  BY <1>1, <1>2, <1>3, QueuedOfWatch
<1> QED
  BY <1>4 DEF AddWatch

(* A crawl watches each directory before it is looked into.                *)
LEMMA CrawlWatch ==
    ASSUME DiscoveryTypeOK, SearchInvariant, WatchInvariant, NEW u \in Users,
           CrawlAndWatch(u) \/ GatherExistingInstanceDirectories(u)
    PROVE  WatchInvariant'
<1> USE DEF DiscoveryTypeOK, SearchInvariant, WatchInvariant
<1> DEFINE s == arg[u]
<1>0. u \in Threads /\ s \in Searches /\ Target[s] \in Watches
  BY DiscoveryAssumption DEF Threads, CrawlAndWatch, GatherExistingInstanceDirectories, SearchesHaveCallbacks,
     SearchTypeOK
<1>1. /\ UNCHANGED <<arg, batch, impacted, requests, links, watches, keys, anyEntry, children, known>>
      /\ \E place \in {"gather", "map"} : pc' = [pc EXCEPT ![u] = place]
      /\ \E ws \in SUBSET Watches : found' = [found EXCEPT ![u] = ws]
  <2>1. CASE CrawlAndWatch(u)
    BY <1>0, <2>1 DEF CrawlAndWatch, searchVars, watchVars
  <2>2. CASE GatherExistingInstanceDirectories(u)
    <3>1. found[u] \union dirs \in SUBSET Watches
      BY <1>0 DEF ThreadTypeOK, DiskTypeOK, Watches
    <3> QED
      BY <1>0, <2>2, <3>1 DEF GatherExistingInstanceDirectories, searchVars, watchVars, ThreadTypeOK
  <2> QED
    BY <2>1, <2>2
<1>2. /\ pc'[u] \in {"gather", "map"}
      /\ \A t \in Threads \ {u} : pc'[t] = pc[t] /\ found'[t] = found[t]
  BY <1>0, <1>1 DEF ThreadTypeOK
<1>3. inotify \subseteq inotify' /\ \A n \in 1 .. Len(queue') : EventIsOfWatch(queue'[n])
  <2>1. CASE CrawlAndWatch(u)
    BY <1>0, <2>1, AddWatchWatch DEF CrawlAndWatch
  <2>2. CASE GatherExistingInstanceDirectories(u)
    BY <2>2 DEF GatherExistingInstanceDirectories, EventsAreOfWatches
  <2> QED
    BY <2>1, <2>2
<1>4. /\ Target[s] \in found'[u] /\ found'[u] \subseteq inotify'
      /\ Target[s] # Any => pc'[u] = "map" /\ found'[u] = {Target[s]}
  <2>1. CASE CrawlAndWatch(u)
    <3>1. found'[u] = {Target[s]} /\ Target[s] \in inotify'
          /\ pc'[u] = IF Target[s] = Any THEN "gather" ELSE "map"
      BY <1>0, <2>1, AddWatchWatch DEF CrawlAndWatch, ThreadTypeOK
    <3> QED
      BY <3>1
  <2>2. CASE GatherExistingInstanceDirectories(u)
    BY <1>0, <2>2 DEF GatherExistingInstanceDirectories, ThreadTypeOK, CrawlsAreWatched
  <2> QED
    BY <2>1, <2>2
<1>5. EventsAreOfWatches'
  BY <1>1, <1>2, <1>3, EventsKept, ThreadsAreDistinct DEF EventsAreOfWatches
<1>6. CrawlsAreWatched'
  <2>1. \A v \in Users :
            pc'[v] \in {"gather", "map"} =>
                /\ Target[arg'[v]] \in found'[v] /\ found'[v] \subseteq inotify'
                /\ Target[arg'[v]] # Any => pc'[v] = "map" /\ found'[v] = {Target[arg'[v]]}
    BY <1>1, <1>2, <1>3, <1>4, ThreadsAreDistinct DEF CrawlsAreWatched
  <2>2. pc'[Worker] = pc[Worker] /\ found'[Worker] = found[Worker]
    BY <1>2, ThreadsAreDistinct
  <2> QED
    BY <1>1, <1>3, <2>1, <2>2 DEF CrawlsAreWatched
<1>7. WatchesMatchSearches'
  BY <1>1, <1>3, WatchesKept
<1> QED
  BY <1>5, <1>6, <1>7

(* Reading moves events and changes no watch.                              *)
LEMMA ReadWatch ==
    ASSUME DiscoveryTypeOK, WatchInvariant, Read \/ ReadNothing
    PROVE  WatchInvariant'
<1> USE DEF DiscoveryTypeOK, WatchInvariant
<1>1. /\ UNCHANGED <<inotify, arg, found, impacted, requests, links, watches, keys, anyEntry,
                     children, known>>
      /\ pc[Worker] = "read" /\ pc' = [pc EXCEPT ![Worker] = "handle"]
  BY DEF Read, ReadNothing, WorkerUnchanged, watchVars, kernelVars
<1>2. pc'[Worker] = "handle" /\ \A u \in Users : pc'[u] = pc[u]
  BY <1>1, ThreadsAreDistinct DEF ThreadTypeOK
<1>3. /\ \A n \in 1 .. Len(queue') : EventIsOfWatch(queue'[n])
      /\ \A n \in 1 .. Len(batch') : EventIsOfWatch(batch'[n])
  <2>1. queue \in Seq(Events) /\ Len(queue) \in Nat
    BY DEF EventTypeOK
  <2>2. CASE Read
    <3>1. PICK n \in 0 .. Len(queue) :
              /\ Len(batch') = n /\ \A k \in 1 .. n : batch'[k] = queue[k]
              /\ Len(queue') = Len(queue) - n
              /\ \A k \in 1 .. Len(queue) - n : queue'[k] = queue[n + k]
      BY <2>1, <2>2, ReadSplits
    <3>2. /\ \A k \in 1 .. n : k \in 1 .. Len(queue)
          /\ \A k \in 1 .. Len(queue) - n : n + k \in 1 .. Len(queue)
      BY <2>1
    <3> QED
      BY <3>1, <3>2 DEF EventsAreOfWatches
  <2>3. CASE ReadNothing
    BY <2>3 DEF ReadNothing, kernelVars, EventsAreOfWatches
  <2> QED
    BY <2>2, <2>3
<1>4. EventsAreOfWatches'
  BY <1>1, <1>2, <1>3, EventsKept DEF EventsAreOfWatches
<1>5. CrawlsAreWatched'
  BY <1>1, <1>2, CrawlsKept
<1>6. WatchesMatchSearches'
  BY <1>1, WatchesKept
<1> QED
  BY <1>4, <1>5, <1>6

(* An event of a watch that was removed is of no watch.                    *)
LEMMA OrphanedOfWatch ==
    ASSUME NEW e \in Events, NEW ws, EventIsOfWatch(e),
           NEW o, o = IF e.watch \in ws THEN [e EXCEPT !.watch = NoOne] ELSE e
    PROVE  /\ o.watch \in (inotify \ ws) \union {NoOne}
           /\ o.kind = "dir" => o.watch \in {Any, NoOne}
           /\ o.kind # "dir" => o.watch \in {o.inst, NoOne} /\ o.quality \in Qualities
<1>1. CASE e.watch \in ws
  <2>1. o.watch = NoOne /\ o.kind = e.kind /\ o.inst = e.inst /\ o.quality = e.quality
    BY <1>1 DEF Events
  <2> QED
    BY <2>1 DEF EventIsOfWatch
<1>2. CASE e.watch \notin ws
  BY <1>2 DEF EventIsOfWatch
<1> QED
  BY <1>1, <1>2

(* A search that was stopped leaves its watches, and the watches nobody    *)
(* needs go from the bookkeeping, the cache and the kernel together.       *)
LEMMA TransferObsoleteWatch ==
    ASSUME DiscoveryTypeOK, SearchInvariant, WatchInvariant, TransferObsoleteSearchRequests
    PROVE  WatchInvariant'
<1> USE DEF DiscoveryTypeOK, WatchInvariant
<1> DEFINE gone == requests \intersect obsolete
           unused == UnusedWithout(gone)
<1>1. /\ requests' = requests \ gone
      /\ keys' = [w \in Watches |-> keys[w] \ gone]
      /\ links' = [s \in Searches |-> IF s \in gone THEN {} ELSE links[s]]
      /\ watches' = watches \ unused /\ children' = children \ unused
      /\ anyEntry' = IF Any \in unused THEN "none" ELSE anyEntry
      /\ inotify' = inotify \ unused
      /\ known' = [q \in Qualities |-> known[q] \ (unused \ {Any})]
      /\ queue' = Orphaned(queue, unused) /\ batch' = Orphaned(batch, unused)
      /\ UNCHANGED <<arg, found, impacted>>
      /\ pc[Worker] = "handle" /\ pc' = [pc EXCEPT ![Worker] = "deletions"]
      /\ workerMutex = NoOne
  BY DEF TransferObsoleteSearchRequests, WorkerUnchanged, Unlink, EraseWatch, Forget
<1>2. unused = {w \in watches : keys[w] # {} /\ keys[w] \subseteq gone}
  BY DEF UnusedWithout
<1>3. pc'[Worker] = "deletions" /\ \A u \in Users : pc'[u] = pc[u]
  BY <1>1, ThreadsAreDistinct DEF ThreadTypeOK
<1> HIDE DEF gone, unused
<1>4. EventsAreOfWatches'
  <2>1. ASSUME NEW q \in Seq(Events), \A n \in 1 .. Len(q) : EventIsOfWatch(q[n]),
               NEW n \in 1 .. Len(Orphaned(q, unused))
        PROVE  LET e == Orphaned(q, unused)[n] IN
               /\ e.watch \in inotify' \union {NoOne}
               /\ e.kind = "dir" => e.watch \in {Any, NoOne}
               /\ e.kind # "dir" => e.watch \in {e.inst, NoOne} /\ e.quality \in Qualities
    <3>1. /\ n \in 1 .. Len(q) /\ q[n] \in Events
          /\ Orphaned(q, unused)[n] =
                IF q[n].watch \in unused THEN [q[n] EXCEPT !.watch = NoOne] ELSE q[n]
      BY <2>1, OrphanedType, ElementOfSeq
    <3> QED
      BY <1>1, <2>1, <3>1, OrphanedOfWatch
  <2>2. queue \in Seq(Events) /\ batch \in Seq(Events)
    BY DEF EventTypeOK
  <2>3. /\ \A n \in 1 .. Len(queue) : EventIsOfWatch(queue[n])
        /\ \A n \in 1 .. Len(batch) : EventIsOfWatch(batch[n])
        /\ impacted = {}
    BY <1>1 DEF EventsAreOfWatches
  <2>4. \A n \in 1 .. Len(queue') : EventIsOfWatch(queue[n])'
    BY <1>1, <2>1, <2>2, <2>3 DEF EventIsOfWatch
  <2>5. \A n \in 1 .. Len(batch') : EventIsOfWatch(batch[n])'
    BY <1>1, <2>1, <2>2, <2>3 DEF EventIsOfWatch
  <2> QED
    BY <1>1, <1>3, <2>3, <2>4, <2>5 DEF EventsAreOfWatches
<1>5. CrawlsAreWatched'
  <2>1. \A u \in Users : pc'[u] \notin {"gather", "map"}
    BY <1>1, <1>3, ThreadsAreDistinct DEF SearchInvariant, MutexesHeld
  <2>2. \A s \in Searches : links'[s] \subseteq links[s]
    BY <1>1
  <2> QED
    BY <1>3, <2>1, <2>2 DEF CrawlsAreWatched
<1>6. WatchesMatchSearches'
  <2>1. \A w \in Watches : keys'[w] = {s \in Searches : w \in links'[s]}
    <3>1. ASSUME NEW w \in Watches PROVE keys'[w] = {s \in Searches : w \in links'[s]}
      <4>1. keys[w] = {s \in Searches : w \in links[s]} /\ keys'[w] = keys[w] \ gone
        BY <1>1 DEF WatchesMatchSearches
      <4>2. \A s \in Searches : links'[s] = IF s \in gone THEN {} ELSE links[s]
        BY <1>1
      <4> QED
        BY <4>1, <4>2
    <3> QED
      BY <3>1
  <2>2. /\ \A s \in Searches : links'[s] # {} <=> s \in requests'
        /\ \A s \in requests' : Target[s] \in links'[s]
    BY <1>1 DEF WatchesMatchSearches, SearchTypeOK
  <2>3. watches' = {w \in Watches : keys'[w] # {}} /\ watches' \subseteq inotify'
    <3>1. \A w \in Watches : keys'[w] # {} <=> keys[w] # {} /\ w \notin unused
      BY <1>1, <1>2 DEF WatchesMatchSearches
    <3> QED
      BY <1>1, <3>1 DEF WatchesMatchSearches
  <2>4. children' = watches' \ {Any} /\ (anyEntry' = "watch" => Any \in watches')
    BY <1>1 DEF WatchesMatchSearches
  <2>5. \A q \in Qualities : known'[q] \subseteq watches'
    <3>1. \A q \in Qualities : Any \notin known[q] /\ known[q] \subseteq watches
      BY DiscoveryAssumption DEF WatchesMatchSearches, WatchTypeOK
    <3> QED
      BY <1>1, <3>1
  <2> QED
    BY <2>1, <2>2, <2>3, <2>4, <2>5 DEF WatchesMatchSearches
<1> QED
  BY <1>4, <1>5, <1>6

(* The tail of the batch are its later events.                             *)
LEMMA BatchTail ==
    ASSUME batch \in Seq(Events), batch # <<>>, batch' = Tail(batch)
    PROVE  /\ Head(batch) = batch[1] /\ 1 \in 1 .. Len(batch) /\ Len(batch) \in Nat
           /\ batch' \in Seq(Events) /\ Len(batch') = Len(batch) - 1
           /\ \A n \in 1 .. Len(batch') : n + 1 \in 1 .. Len(batch) /\ batch'[n] = batch[n + 1]
BY HeadTailProperties

(* Handling events of flag files adds to the cache what is watched only.   *)
LEMMA EventWatch ==
    ASSUME DiscoveryTypeOK, SearchInvariant, WatchInvariant,
           \/ HandleDeletionEvents \/ DeletionsHandled \/ SkipEvent \/ OnInstanceFlagFileCreated
           \/ CreationsHandled \/ EventsHandled \/ \E s \in Searches : CallHandlers(s)
    PROVE  WatchInvariant'
<1> USE DEF DiscoveryTypeOK, WatchInvariant
<1>1. /\ UNCHANGED <<inotify, queue, arg, found, requests, links, watches, keys, anyEntry, children>>
      /\ \E place \in {"callDeleted", "creations", "callCreated", "read"} :
            pc' = [pc EXCEPT ![Worker] = place]
      /\ pc[Worker] \in {"deletions", "callDeleted", "creations", "callCreated"}
  <2>1. CASE \/ HandleDeletionEvents \/ DeletionsHandled \/ CreationsHandled \/ EventsHandled
    BY <2>1 DEF HandleDeletionEvents, DeletionsHandled, CreationsHandled, EventsHandled,
       WorkerUnchanged, kernelVars, watchVars
  <2>2. CASE SkipEvent \/ OnInstanceFlagFileCreated \/ \E s \in Searches : CallHandlers(s)
    BY <2>2 DEF SkipEvent, OnInstanceFlagFileCreated, CallHandlers, WorkerUnchanged, kernelVars,
       watchVars, ThreadTypeOK
  <2> QED
    BY <2>1, <2>2
<1>2. pc'[Worker] # "map" /\ \A u \in Users : pc'[u] = pc[u]
  BY <1>1, ThreadsAreDistinct DEF ThreadTypeOK
<1>3. CrawlsAreWatched'
  BY <1>1, <1>2, CrawlsKept
<1>4. EventsAreOfWatches'
  <2>1. /\ \A n \in 1 .. Len(queue) : EventIsOfWatch(queue[n])
        /\ \A n \in 1 .. Len(batch) : EventIsOfWatch(batch[n])
    BY DEF EventsAreOfWatches
  <2>2. CASE SkipEvent \/ OnInstanceFlagFileCreated
    <3>1. batch # <<>> /\ batch' = Tail(batch) /\ pc' = pc /\ pc[Worker] = "creations"
      BY <2>2 DEF SkipEvent, OnInstanceFlagFileCreated
    <3>2. \A n \in 1 .. Len(batch') : EventIsOfWatch(batch'[n])
      BY <2>1, <3>1, BatchTail DEF EventTypeOK
    <3> QED
      BY <1>1, <2>1, <3>1, <3>2, EventsKept
  <2>3. CASE \/ HandleDeletionEvents \/ DeletionsHandled \/ CreationsHandled \/ EventsHandled
             \/ \E s \in Searches : CallHandlers(s)
    <3>1. batch' = batch
      BY <2>3 DEF HandleDeletionEvents, DeletionsHandled, CreationsHandled, EventsHandled, CallHandlers
    <3>2. pc'[Worker] \in {"read", "callCreated"} => batch' = <<>>
      <4>1. CASE HandleDeletionEvents \/ DeletionsHandled
        BY <4>1, ThreadsAreDistinct DEF HandleDeletionEvents, DeletionsHandled, ThreadTypeOK
      <4>2. CASE CreationsHandled
        BY <4>2, <3>1 DEF CreationsHandled
      <4>3. CASE EventsHandled \/ \E s \in Searches : CallHandlers(s)
        BY <4>3, <3>1 DEF EventsHandled, CallHandlers, EventsAreOfWatches
      <4> QED
        BY <2>3, <4>1, <4>2, <4>3
    <3>3. pc'[Worker] \in {"read", "handle", "deletions"} => impacted' = {}
      BY <2>3, ThreadsAreDistinct DEF HandleDeletionEvents, DeletionsHandled, CreationsHandled,
         EventsHandled, CallHandlers, ThreadTypeOK
    <3> QED
      BY <1>1, <2>1, <3>1, <3>2, <3>3, EventsKept
  <2> QED
    BY <2>2, <2>3
<1>5. CASE OnInstanceFlagFileCreated
  <2>1. /\ Head(batch).kind = "create" /\ Head(batch).watch \in watches
        /\ known' = Insert(Head(batch).inst, Head(batch).quality)
        /\ batch # <<>> /\ batch' = Tail(batch)
    BY <1>5 DEF OnInstanceFlagFileCreated
  <2>2. EventIsOfWatch(Head(batch))
    BY <2>1, BatchTail DEF EventTypeOK, EventsAreOfWatches
  <2>3. Head(batch).inst \in watches
    BY <2>1, <2>2, ThreadsAreDistinct DEF EventIsOfWatch, WatchTypeOK
  <2> QED
    BY <1>1, <1>3, <1>4, <2>1, <2>3 DEF WatchesMatchSearches, WatchTypeOK, Insert
<1>6. CASE ~ OnInstanceFlagFileCreated
  <2>1. known' = known \/ HandleDeletionEvents
    BY <1>6 DEF DeletionsHandled, CreationsHandled, EventsHandled, SkipEvent, CallHandlers, watchVars
  <2>2. \A q \in Qualities : known'[q] \subseteq known[q]
    BY <2>1 DEF HandleDeletionEvents, OnInstanceFlagFilesRemoved
  <2>3. WatchesMatchSearches'
    BY <1>1, <2>2, WatchesKept
  <2> QED
    BY <1>3, <1>4, <2>3
<1> QED
  BY <1>5, <1>6

(* The new directory is watched before it is linked.                       *)
LEMMA OnInstanceDirectoryCreatedWatch ==
    ASSUME DiscoveryTypeOK, SearchInvariant, WatchInvariant, OnInstanceDirectoryCreated
    PROVE  WatchInvariant'
<1> USE DEF DiscoveryTypeOK, WatchInvariant
<1> DEFINE i == Head(batch).inst
<1>1. /\ UNCHANGED <<arg, batch, impacted, requests, links, watches, keys, anyEntry, children, known>>
      /\ pc' = [pc EXCEPT ![Worker] = "map"] /\ found' = [found EXCEPT ![Worker] = {i}]
      /\ batch # <<>> /\ Head(batch).kind = "dir" /\ Head(batch).watch \in watches
      /\ AddWatch(i)
  BY DEF OnInstanceDirectoryCreated, watchVars
<1>2. Head(batch) \in Events /\ EventIsOfWatch(Head(batch)) /\ i \in Watches
  <2>1. Head(batch) = batch[1] /\ 1 \in 1 .. Len(batch) /\ Head(batch) \in Events
    BY <1>1 DEF EventTypeOK
  <2> QED
    BY <2>1 DEF EventsAreOfWatches, Events, Watches
<1>3. /\ pc'[Worker] = "map" /\ found'[Worker] = {i}
      /\ \A u \in Users : pc'[u] = pc[u] /\ found'[u] = found[u]
  BY <1>1, ThreadsAreDistinct DEF ThreadTypeOK
<1>4. Any \in watches
  BY <1>1, <1>2, ThreadsAreDistinct DEF EventIsOfWatch, WatchTypeOK
<1> HIDE DEF i
<1>5. /\ inotify \subseteq inotify' /\ i \in inotify'
      /\ \A n \in 1 .. Len(queue') : EventIsOfWatch(queue'[n])
  BY <1>1, <1>2, AddWatchWatch
<1>6. EventsAreOfWatches'
  BY <1>1, <1>3, <1>5, EventsKept DEF EventsAreOfWatches
<1>7. CrawlsAreWatched'
  <2>1. /\ batch' # <<>> /\ Head(batch').kind = "dir" /\ Any \in watches'
        /\ found'[Worker] = {Head(batch').inst} /\ found'[Worker] \subseteq inotify'
    BY <1>1, <1>3, <1>4, <1>5 DEF i
  <2> QED
    BY <1>1, <1>3, <1>5, <2>1 DEF CrawlsAreWatched
<1>8. WatchesMatchSearches'
  BY <1>1, <1>5, WatchesKept
<1> QED
  BY <1>6, <1>7, <1>8

(* A new directory joins the searches for any instance.                    *)
LEMMA LinkInstanceDirectoryWatch ==
    ASSUME DiscoveryTypeOK, SearchInvariant, WatchInvariant, LinkInstanceDirectory
    PROVE  WatchInvariant'
<1> USE DEF DiscoveryTypeOK, WatchInvariant
<1> DEFINE ws == found[Worker]
           ss == keys[Any]
<1>1. /\ UNCHANGED <<inotify, queue, arg, requests>>
      /\ pc[Worker] = "map" /\ pc' = [pc EXCEPT ![Worker] = "creations"]
      /\ found' = [found EXCEPT ![Worker] = {}] /\ batch' = Tail(batch)
  BY DEF LinkInstanceDirectory, WorkerUnchanged, kernelVars
<1>2. batch # <<>> /\ Any \in watches /\ ws = {Head(batch).inst} /\ ws \subseteq inotify
  BY <1>1 DEF CrawlsAreWatched
<1>3. Head(batch).inst \in Instances /\ ws \in SUBSET Instances
  <2>1. Head(batch) \in Events
    BY <1>2 DEF EventTypeOK
  <2> QED
    BY <1>2, <2>1 DEF Events
<1>4. /\ pc'[Worker] = "creations"
      /\ \A u \in Users : pc'[u] = pc[u] /\ found'[u] = found[u]
  BY <1>1, ThreadsAreDistinct DEF ThreadTypeOK
<1>5. EventsAreOfWatches'
  <2>1. \A n \in 1 .. Len(batch') : EventIsOfWatch(batch'[n])
    BY <1>1, <1>2, BatchTail DEF EventTypeOK, EventsAreOfWatches
  <2> QED
    BY <1>1, <1>4, <2>1, EventsKept DEF EventsAreOfWatches
<1>6. CASE ~Linkable(ws, ss)
  <2>1. UNCHANGED <<watches, keys, anyEntry, children, known, links>>
    BY <1>6 DEF LinkInstanceDirectory, watchVars
  <2>2. CrawlsAreWatched'
    BY <1>1, <1>4, <2>1, CrawlsKept
  <2>3. WatchesMatchSearches'
    BY <1>1, <2>1, WatchesKept
  <2> QED
    BY <1>5, <2>2, <2>3
<1>7. CASE Linkable(ws, ss)
  <2>1. /\ watches' = watches \union ws
        /\ children' = children \union (ws \ {Any})
        /\ anyEntry' \in IF anyEntry # "absent" \/ ws = {} THEN {anyEntry}
                         ELSE {IF w = Any THEN "watch" ELSE "none" : w \in ws}
        /\ keys' = [w \in Watches |-> IF w \in ws THEN keys[w] \union ss ELSE keys[w]]
        /\ links' = [s \in Searches |-> IF s \in ss THEN links[s] \union ws ELSE links[s]]
        /\ known' = [q \in Qualities |-> known[q] \union {i \in ws : Exists(i, q)}]
    BY <1>7 DEF LinkInstanceDirectory, StoreWatch, Link, Merge, MapInstancesToQualityTypes
  <2>2. /\ Any \in Watches /\ Any \notin ws
        /\ ss # {} /\ ss = {s \in Searches : Any \in links[s]}
    BY <1>2, <1>3, DiscoveryAssumption DEF Watches, WatchesMatchSearches
  <2>3. \A s \in ss : s \in requests /\ Target[s] = Any
    BY <2>2 DEF WatchesMatchSearches, CrawlsAreWatched
  <2> HIDE DEF ws, ss
  <2>4. \A w \in Watches : keys'[w] = {s \in Searches : w \in links'[s]}
    <3>1. ASSUME NEW w \in Watches PROVE keys'[w] = {s \in Searches : w \in links'[s]}
      <4>1. /\ keys[w] = {s \in Searches : w \in links[s]}
            /\ keys'[w] = IF w \in ws THEN keys[w] \union ss ELSE keys[w]
        BY <2>1 DEF WatchesMatchSearches
      <4>2. \A s \in Searches : links'[s] = IF s \in ss THEN links[s] \union ws ELSE links[s]
        BY <2>1
      <4> QED
        BY <2>2, <4>1, <4>2
    <3> QED
      BY <3>1
  <2>5. /\ \A s \in Searches : links'[s] # {} <=> s \in requests'
        /\ \A s \in requests' : Target[s] \in links'[s]
    <3>1. requests \subseteq Searches
      BY DEF SearchTypeOK
    <3>2. \A s \in Searches : links'[s] = IF s \in ss THEN links[s] \union ws ELSE links[s]
      BY <2>1
    <3> QED
      BY <1>1, <2>2, <2>3, <3>1, <3>2 DEF WatchesMatchSearches
  <2>6. watches' = {w \in Watches : keys'[w] # {}} /\ watches' \subseteq inotify'
    <3>1. ws \subseteq inotify /\ ws \subseteq Watches
      BY <1>2, <1>3 DEF ws, Watches
    <3>2. \A w \in Watches : keys'[w] # {} <=> w \in ws \/ keys[w] # {}
      BY <2>1, <2>2
    <3> QED
      BY <1>1, <2>1, <3>1, <3>2 DEF WatchesMatchSearches
  <2>7. children' = watches' \ {Any} /\ (anyEntry' = "watch" => Any \in watches')
    BY <2>1 DEF WatchesMatchSearches
  <2>8. \A q \in Qualities : known'[q] \subseteq watches'
    BY <2>1 DEF WatchesMatchSearches
  <2>9. WatchesMatchSearches'
    BY <2>4, <2>5, <2>6, <2>7, <2>8 DEF WatchesMatchSearches
  <2>10. CrawlsAreWatched'
    <3>1. \A s \in Searches :
              /\ Any \in links'[s] => Target[s] = Any
              /\ Target[s] # Any => links'[s] \subseteq {Target[s]}
      <4>1. \A s \in Searches : links'[s] = links[s] \/ s \in ss
        BY <2>1
      <4> QED
        BY <2>3, <4>1 DEF CrawlsAreWatched
    <3> QED
      BY <1>1, <1>4, <3>1 DEF CrawlsAreWatched
  <2> QED
    BY <1>5, <2>9, <2>10
<1> QED
  BY <1>6, <1>7

(* At the start there are no watches and no events.                        *)
LEMMA WatchInitOK ==
    DiscoveryInit => WatchInvariant
<1> SUFFICES ASSUME DiscoveryInit PROVE WatchInvariant
  OBVIOUS
<1>1. /\ inotify = {} /\ queue = <<>> /\ batch = <<>> /\ impacted = {} /\ requests = {}
      /\ pc[Worker] = "read" /\ \A u \in Users : pc[u] = "idle"
      /\ \A s \in Searches : links[s] = {}
      /\ watches = {} /\ \A w \in Watches : keys[w] = {}
      /\ anyEntry = "absent" /\ children = {} /\ \A q \in Qualities : known[q] = {}
  BY ThreadsAreDistinct DEF DiscoveryInit
<1>2. Len(queue) = 0 /\ Len(batch) = 0
  BY <1>1
<1>3. EventsAreOfWatches
  BY <1>1, <1>2 DEF EventsAreOfWatches
<1>4. CrawlsAreWatched
  BY <1>1 DEF CrawlsAreWatched
<1>5. WatchesMatchSearches
  BY <1>1 DEF WatchesMatchSearches
<1> QED
  BY <1>3, <1>4, <1>5 DEF WatchInvariant

(* Every step keeps watches, searches and events together.                 *)
LEMMA DiscoveryStepWatch ==
    ASSUME DiscoveryTypeOK, SearchInvariant, WatchInvariant, [DiscoveryNext]_discoveryVars
    PROVE  WatchInvariant'
<1>1. CASE UNCHANGED discoveryVars
  <2>1. UNCHANGED <<inotify, queue, pc, arg, found, batch, impacted, requests, links, watches, keys,
                    anyEntry, children, known>>
    BY <1>1 DEF discoveryVars, kernelVars, threadVars, searchVars, watchVars
  <2>2. EventsAreOfWatches'
    BY <2>1, EventsKept DEF WatchInvariant, EventsAreOfWatches
  <2>3. CrawlsAreWatched'
    BY <2>1, CrawlsKept DEF WatchInvariant
  <2>4. WatchesMatchSearches'
    BY <2>1, WatchesKept DEF WatchInvariant
  <2> QED
    BY <2>2, <2>3, <2>4 DEF WatchInvariant
<1>2. ASSUME NEW i \in Instances, ProviderStep(i)
      PROVE  WatchInvariant'
  BY <1>2, ProviderStepWatch
<1>3. ASSUME NEW u \in Users, UserStep(u)
      PROVE  WatchInvariant'
  <2>1. ASSUME NEW s \in Searches, StartFindService(u, s) \/ StopFindService(u, s)
        PROVE  WatchInvariant'
    BY <2>1, SearchStepWatch
  <2>2. CASE \/ StartFindServiceFails(u) \/ StartFindServiceReturns(u)
             \/ StopFindServiceAtClient(u)
    <3>1. arg[u] \in Searches
      BY <2>2 DEF StartFindServiceFails, StartFindServiceReturns, StopFindServiceAtClient,
         SearchInvariant, SearchesHaveCallbacks, DiscoveryTypeOK, SearchTypeOK
    <3> QED
      BY <2>2, <3>1, SearchStepWatch
  <2>3. CASE StartFromCache(u)
    BY <2>3, StartFromCacheWatch
  <2>4. CASE CrawlAndWatch(u) \/ GatherExistingInstanceDirectories(u)
    BY <2>4, CrawlWatch
  <2>5. CASE FinishCrawl(u)
    BY <2>5, FinishCrawlWatch
  <2> QED
    BY <1>3, <2>1, <2>2, <2>3, <2>4, <2>5 DEF UserStep
<1>4. ASSUME NEW t \in Threads, HandlerStep(t)
      PROVE  WatchInvariant'
  BY <1>4, HandlerWatch
<1>5. CASE WorkerStep
  <2>1. CASE Read \/ ReadNothing
    BY <2>1, ReadWatch
  <2>2. CASE TransferObsoleteSearchRequests
    BY <2>2, TransferObsoleteWatch
  <2>3. CASE \/ HandleDeletionEvents \/ DeletionsHandled \/ SkipEvent \/ OnInstanceFlagFileCreated
             \/ CreationsHandled \/ EventsHandled \/ \E s \in Searches : CallHandlers(s)
    BY <2>3, EventWatch
  <2>4. CASE OnInstanceDirectoryCreated
    BY <2>4, OnInstanceDirectoryCreatedWatch
  <2>5. CASE LinkInstanceDirectory
    BY <2>5, LinkInstanceDirectoryWatch
  <2> QED
    BY <1>5, <2>1, <2>2, <2>3, <2>4, <2>5 DEF WorkerStep
<1> QED
  BY <1>1, <1>2, <1>3, <1>4, <1>5 DEF DiscoveryNext

-----------------------------------------------------------------------------
(* Offers (OfferInvariant): what is offered is known and told, or an event *)
(* that will tell it is pending and no deletion behind that event takes it *)
(* back.                                                                   *)

(* r is q with more events behind it.                                      *)
Extends(q, r) ==
    /\ q \in Seq(Events) /\ r \in Seq(Events) /\ Len(q) <= Len(r)
    /\ \A n \in 1 .. Len(q) : r[n] = q[n]

(* What has joined r behind q.                                             *)
Joined(q, r) == {r[n] : n \in Len(q) + 1 .. Len(r)}

(* What joins a queue in two steps has joined it in both.                  *)
LEMMA ExtendsTransitive ==
    ASSUME NEW p, NEW q, NEW r, Extends(p, q), Extends(q, r)
    PROVE  Extends(p, r) /\ Joined(p, r) = Joined(p, q) \union Joined(q, r)
<1>1. Len(p) \in Nat /\ Len(q) \in Nat /\ Len(r) \in Nat /\ Len(p) <= Len(q) /\ Len(q) <= Len(r)
  BY DEF Extends
<1>2. Extends(p, r)
  BY <1>1 DEF Extends
<1>3. \A n \in Len(p) + 1 .. Len(r) : n \in Len(p) + 1 .. Len(q) \/ n \in Len(q) + 1 .. Len(r)
  BY <1>1
<1>4. \A n \in Len(p) + 1 .. Len(q) : n \in Len(p) + 1 .. Len(r) /\ n \in 1 .. Len(q) /\ r[n] = q[n]
  <2>1. \A n \in Len(p) + 1 .. Len(q) : n \in Len(p) + 1 .. Len(r) /\ n \in 1 .. Len(q)
    BY <1>1
  <2> QED
    BY <2>1 DEF Extends
<1>5. \A n \in Len(q) + 1 .. Len(r) : n \in Len(p) + 1 .. Len(r)
  BY <1>1
<1>6. Joined(p, r) = Joined(p, q) \union Joined(q, r)
  BY <1>3, <1>4, <1>5 DEF Joined
<1> QED
  BY <1>2, <1>6

(* An event is queued behind all others, when it is queued.                *)
LEMMA QueuedExtends ==
    ASSUME NEW q \in Seq(Events), NEW e \in Events
    PROVE  /\ Extends(q, q) /\ Joined(q, q) = {}
           /\ Extends(q, Queued(q, e))
           /\ Joined(q, Queued(q, e)) = IF e.watch \in inotify THEN {e} ELSE {}
<1>1. Len(q) \in Nat
  OBVIOUS
<1>2. Extends(q, q) /\ Joined(q, q) = {}
  BY <1>1 DEF Extends, Joined
<1>3. CASE e.watch \in inotify
  <2>1. /\ Append(q, e) \in Seq(Events) /\ Len(Append(q, e)) = Len(q) + 1
        /\ \A n \in 1 .. Len(q) : Append(q, e)[n] = q[n]
        /\ Append(q, e)[Len(q) + 1] = e
    OBVIOUS
  <2>2. Len(q) + 1 .. Len(q) + 1 = {Len(q) + 1}
    BY <1>1
  <2>3. Joined(q, Append(q, e)) = {e}
    BY <2>1, <2>2 DEF Joined
  <2> QED
    BY <1>1, <1>2, <1>3, <2>1, <2>3 DEF Queued, Extends
<1>4. CASE e.watch \notin inotify
  BY <1>2, <1>4 DEF Queued
<1> QED
  BY <1>2, <1>3, <1>4

(* The deletions that are queued are of the files that were removed.       *)
LEMMA DeletionsExtend ==
    ASSUME NEW q \in Seq(Events), NEW fs, NEW i \in Instances
    PROVE  /\ Extends(q, Deletions(q, fs, i))
           /\ \A e \in Joined(q, Deletions(q, fs, i)) :
                 \E f \in fs : f.quality \in Qualities /\ e = Deletion(i, f.quality)
<1>1. /\ FileEvent("delete", i, "qm") \in Events
      /\ FileEvent("delete", i, "b") \in Events
  BY EventsAreTyped DEF Qualities
<1>2. /\ Extends(q, Deleted(q, fs, i, "qm"))
      /\ \A e \in Joined(q, Deleted(q, fs, i, "qm")) :
            \E f \in fs : f.quality = "qm" /\ e = Deletion(i, "qm")
  BY <1>1, QueuedExtends DEF Deleted, Deletion
<1> DEFINE d == Deleted(q, fs, i, "qm")
           r == Deleted(d, fs, i, "b")
<1>3. d \in Seq(Events)
  BY <1>2 DEF Extends
<1> HIDE DEF d
<1>4. Extends(d, r) /\ \A e \in Joined(d, r) : \E f \in fs : f.quality = "b" /\ e = Deletion(i, "b")
  BY <1>1, <1>3, QueuedExtends DEF Deleted, Deletion
<1>5. Deletions(q, fs, i) = r
  BY DEF d, Deletions
<1> HIDE DEF r
<1>6. Extends(q, r) /\ Joined(q, r) = Joined(q, d) \union Joined(d, r)
  BY <1>2, <1>4, ExtendsTransitive DEF d
<1>7. \A e \in Joined(q, d) : \E f \in fs : f.quality \in Qualities /\ e = Deletion(i, f.quality)
  BY <1>2 DEF d, Qualities
<1>8. \A e \in Joined(d, r) : \E f \in fs : f.quality \in Qualities /\ e = Deletion(i, f.quality)
  BY <1>4 DEF Qualities
<1> QED
  BY <1>5, <1>6, <1>7, <1>8

(* What was pending or has joined the queue is pending.                    *)
LEMMA PendingKept ==
    ASSUME Extends(queue, queue'), batch' = batch, NEW e
    PROVE  Pending(e) \/ e \in Joined(queue, queue') => Pending(e)'
<1>1. \A n \in 1 .. Len(queue) : n \in 1 .. Len(queue') /\ queue'[n] = queue[n]
  BY DEF Extends
<1>2. \A n \in Len(queue) + 1 .. Len(queue') : n \in 1 .. Len(queue')
  BY DEF Extends
<1> QED
  BY <1>1, <1>2 DEF Pending, Joined

(* What a step of a provider does to files, directories and events.        *)
LEMMA ProviderEvents ==
    ASSUME DiscoveryTypeOK, OneFileEach, NEW i \in Instances, ProviderStep(i)
    PROVE  /\ Extends(queue, queue')
           /\ \A j \in Instances, q \in Qualities :
                 /\ Deletion(j, q) \in Joined(queue, queue') => ~ Exists(j, q)'
                 /\ Exists(j, q)' => \/ Exists(j, q)
                                     \/ j \in inotify => Creation(j, q) \in Joined(queue, queue')
           /\ dirs \subseteq dirs'
           /\ \A j \in dirs' \ dirs :
                 Any \in inotify => DirectoryCreated(j) \in Joined(queue, queue')
<1> USE DEF DiscoveryTypeOK
<1>0. queue \in Seq(Events) /\ Extends(queue, queue) /\ Joined(queue, queue) = {}
  BY QueuedExtends, EventsAreTyped DEF EventTypeOK
<1>1. CASE OfferService(i) \/ ProviderCrash(i)
  BY <1>0, <1>1 DEF OfferService, ProviderCrash, Exists
<1>2. CASE CreateSearchPath(i)
  <2> DEFINE events == Deletions(queue, MatchingFlagFiles(i), i)
  <2>1. /\ Extends(queue, events)
        /\ \A e \in Joined(queue, events) :
              \E f \in MatchingFlagFiles(i) : f.quality \in Qualities /\ e = Deletion(i, f.quality)
    BY <1>0, DeletionsExtend
  <2>2. /\ files' = files \ MatchingFlagFiles(i) /\ dirs' = dirs \union {i}
        /\ queue' = IF i \in dirs THEN events ELSE Queued(events, DirectoryCreated(i))
    BY <1>2 DEF CreateSearchPath
  <2>3. events \in Seq(Events) /\ DirectoryCreated(i) \in Events
    BY <2>1, EventsAreTyped DEF Extends
  <2> HIDE DEF events
  <2>4. /\ Extends(events, queue')
        /\ Joined(events, queue') = IF i \in dirs \/ Any \notin inotify THEN {} ELSE {DirectoryCreated(i)}
    BY <2>2, <2>3, QueuedExtends DEF DirectoryCreated
  <2>5. /\ Extends(queue, queue')
        /\ Joined(queue, queue') = Joined(queue, events) \union Joined(events, queue')
    BY <2>1, <2>4, ExtendsTransitive
  <2>6. ASSUME NEW j \in Instances, NEW q \in Qualities, Deletion(j, q) \in Joined(queue, queue')
        PROVE  ~ Exists(j, q)'
    <3>1. Deletion(j, q) \in Joined(queue, events)
      BY <2>4, <2>5, <2>6 DEF Deletion, FileEvent, DirectoryCreated
    <3>2. j = i /\ q = Making(i)
      BY <2>1, <3>1 DEF Deletion, FileEvent, MatchingFlagFiles
    <3> QED
      BY <2>2, <3>2 DEF Exists, MatchingFlagFiles
  <2>7. \A j \in Instances, q \in Qualities : Exists(j, q)' => Exists(j, q)
    BY <2>2 DEF Exists
  <2> QED
    BY <2>2, <2>4, <2>5, <2>6, <2>7
<1>3. CASE MakeFlagFile(i)
  <2> DEFINE e == FileEvent("create", i, Making(i))
  <2>1. Making(i) \in Qualities /\ Made(i) \in FlagFiles
    BY <1>3, MadeType DEF MakeFlagFile
  <2>2. e \in Events /\ e = Creation(i, Making(i)) /\ e.watch = i
    BY <2>1, EventsAreTyped DEF FileEvent, Creation
  <2>3. files' = files \union {Made(i)} /\ queue' = Queued(queue, e) /\ dirs' = dirs
    BY <1>3 DEF MakeFlagFile
  <2> HIDE DEF e
  <2>4. Extends(queue, queue') /\ Joined(queue, queue') = IF i \in inotify THEN {e} ELSE {}
    BY <1>0, <2>2, <2>3, QueuedExtends
  <2>5. \A j \in Instances, q \in Qualities : Exists(j, q)' => Exists(j, q) \/ (j = i /\ q = Making(i))
    BY <2>3 DEF Exists, Made
  <2>6. \A j \in Instances, q \in Qualities : Deletion(j, q) # e
    BY <2>2 DEF Deletion, Creation, FileEvent
  <2> QED
    BY <2>2, <2>3, <2>4, <2>5, <2>6
<1>4. CASE MakeFlagFileFails(i)
  <2> DEFINE e == FileEvent("create", i, Making(i))
  <2>1. Making(i) \in Qualities /\ Made(i) \in FlagFiles
    BY <1>4, MadeType DEF MakeFlagFileFails
  <2>2. e \in Events /\ e = Creation(i, Making(i)) /\ e.watch = i
    BY <2>1, EventsAreTyped DEF FileEvent, Creation
  <2>3. PICK left \in {{}, {Made(i)}} :
            /\ files' = (files \ offered[i]) \union left
            /\ LET events == IF left = {} THEN queue ELSE Queued(queue, e)
               IN  queue' = Deletions(events, offered[i], i)
    BY <1>4 DEF MakeFlagFileFails
  <2> DEFINE events == IF left = {} THEN queue ELSE Queued(queue, e)
  <2>4. queue' = Deletions(events, offered[i], i) /\ dirs' = dirs
    BY <1>4, <2>3 DEF MakeFlagFileFails
  <2> HIDE DEF e
  <2>5. /\ Extends(queue, events)
        /\ Joined(queue, events) = IF left # {} /\ i \in inotify THEN {e} ELSE {}
    BY <1>0, <2>2, QueuedExtends
  <2>6. events \in Seq(Events)
    BY <2>5 DEF Extends
  <2> HIDE DEF events
  <2>7. /\ Extends(events, queue')
        /\ \A d \in Joined(events, queue') :
              \E f \in offered[i] : f.quality \in Qualities /\ d = Deletion(i, f.quality)
    BY <2>4, <2>6, DeletionsExtend
  <2>8. /\ Extends(queue, queue')
        /\ Joined(queue, queue') = Joined(queue, events) \union Joined(events, queue')
    BY <2>5, <2>7, ExtendsTransitive
  <2>9. \A f \in offered[i] : f.quality # Making(i)
    BY <1>4 DEF MakeFlagFileFails, OneFileEach, Making
  <2>10. ASSUME NEW j \in Instances, NEW q \in Qualities, Deletion(j, q) \in Joined(queue, queue')
         PROVE  ~ Exists(j, q)'
    <3>1. Deletion(j, q) \in Joined(events, queue')
      BY <2>2, <2>5, <2>8, <2>10 DEF Deletion, Creation, FileEvent
    <3>2. PICK f \in offered[i] : j = i /\ q = f.quality
      BY <2>7, <3>1 DEF Deletion, FileEvent
    <3>3. f \in files /\ f.inst = i /\ q # Making(i)
      BY <2>9, <3>2 DEF OneFileEach
    <3>4. \A g \in files : g.inst = i /\ g.quality = q => g = f
      BY <3>2, <3>3 DEF OneFileEach
    <3>5. \A g \in files' : g \in files \ offered[i] \/ g.quality = Making(i)
      BY <2>3 DEF Made
    <3> QED
      BY <3>2, <3>3, <3>4, <3>5 DEF Exists
  <2>11. \A j \in Instances, q \in Qualities :
            Exists(j, q)' => Exists(j, q) \/ (j = i /\ q = Making(i) /\ left # {})
    BY <2>3 DEF Exists, Made
  <2> QED
    BY <2>2, <2>4, <2>5, <2>8, <2>10, <2>11
<1>5. CASE StopOfferService(i)
  <2>1. PICK removed \in SUBSET offered[i] :
            files' = files \ removed /\ queue' = Deletions(queue, removed, i) /\ dirs' = dirs
    BY <1>5 DEF StopOfferService
  <2>2. /\ Extends(queue, queue')
        /\ \A e \in Joined(queue, queue') :
              \E f \in removed : f.quality \in Qualities /\ e = Deletion(i, f.quality)
    BY <1>0, <2>1, DeletionsExtend
  <2>3. ASSUME NEW j \in Instances, NEW q \in Qualities, Deletion(j, q) \in Joined(queue, queue')
        PROVE  ~ Exists(j, q)'
    <3>1. PICK f \in removed : j = i /\ q = f.quality
      BY <2>2, <2>3 DEF Deletion, FileEvent
    <3>2. f \in files /\ f.inst = i
      BY <2>1, <3>1 DEF OneFileEach
    <3>3. \A g \in files : g.inst = i /\ g.quality = q => g = f
      BY <3>1, <3>2 DEF OneFileEach
    <3> QED
      BY <2>1, <3>1, <3>3 DEF Exists
  <2>4. \A j \in Instances, q \in Qualities : Exists(j, q)' => Exists(j, q)
    BY <2>1 DEF Exists
  <2> QED
    BY <2>1, <2>2, <2>3, <2>4
<1> QED
  BY <1>1, <1>2, <1>3, <1>4, <1>5 DEF ProviderStep

(* A provider keeps the order of its files and directories.                *)
LEMMA ProviderOneFile ==
    ASSUME DiscoveryTypeOK, OneFileEach, NEW i \in Instances, ProviderStep(i)
    PROVE  OneFileEach'
<1> USE DEF DiscoveryTypeOK
<1>1. /\ \A f, g \in files : f.inst = g.inst /\ f.quality = g.quality => f = g
      /\ \A f \in files : f.inst \in dirs
      /\ \A j \in Instances :
            /\ \A f \in offered[j] : f.inst = j /\ f \in files
            /\ offerPc[j] \in {"clearB", "createB"} => offered[j] = {}
            /\ offerPc[j] \in {"clearQm", "createQm"} => \A f \in offered[j] : f.quality = "b"
            /\ offerPc[j] \in {"createB", "createQm"} => MatchingFlagFiles(j) = {} /\ j \in dirs
  BY DEF OneFileEach
<1>2. \A j \in Instances \ {i} : offered'[j] = offered[j] /\ offerPc'[j] = offerPc[j]
  BY DEF ProviderStep, OfferService, CreateSearchPath, MakeFlagFile, MakeFlagFileFails,
     StopOfferService, ProviderCrash, DiskTypeOK
<1>3. SUFFICES
        /\ \A f, g \in files' : f.inst = g.inst /\ f.quality = g.quality => f = g
        /\ \A f \in files' : f.inst \in dirs'
        /\ dirs \subseteq dirs'
        /\ \A f \in files : f.inst # i => f \in files'
        /\ \A f \in files' : f.inst # i => f \in files
        /\ \A f \in offered'[i] : f.inst = i /\ f \in files'
        /\ offerPc'[i] \in {"clearB", "createB"} => offered'[i] = {}
        /\ offerPc'[i] \in {"clearQm", "createQm"} => \A f \in offered'[i] : f.quality = "b"
        /\ offerPc'[i] \in {"createB", "createQm"} => MatchingFlagFiles(i)' = {} /\ i \in dirs'
  <2>1. \A j \in Instances \ {i} :
            offerPc[j] \in {"createB", "createQm"} => MatchingFlagFiles(j)' = {} /\ j \in dirs'
    BY <1>1, <1>2, <1>3 DEF MatchingFlagFiles, Making
  <2> QED
    BY <1>1, <1>2, <1>3, <2>1 DEF OneFileEach
<1>4. CASE OfferService(i)
  BY <1>1, <1>4 DEF OfferService, DiskTypeOK
<1>5. CASE CreateSearchPath(i)
  <2>1. /\ files' = files \ MatchingFlagFiles(i) /\ dirs' = dirs \union {i} /\ offered' = offered
        /\ offerPc[i] \in {"clearB", "clearQm"}
        /\ offerPc'[i] = IF offerPc[i] = "clearB" THEN "createB" ELSE "createQm"
    BY <1>5 DEF CreateSearchPath, DiskTypeOK
  <2>2. MatchingFlagFiles(i)' = {}
    BY <2>1 DEF MatchingFlagFiles, Making
  <2>3. \A f \in offered[i] : f \notin MatchingFlagFiles(i)
    BY <1>1, <2>1 DEF MatchingFlagFiles, Making
  <2>4. \A f \in MatchingFlagFiles(i) : f.inst = i
    BY DEF MatchingFlagFiles
  <2> QED
    BY <1>1, <2>1, <2>2, <2>3, <2>4
<1>6. CASE MakeFlagFile(i)
  <2>1. /\ files' = files \union {Made(i)} /\ dirs' = dirs
        /\ offered'[i] = offered[i] \union {Made(i)}
        /\ offerPc[i] \in {"createB", "createQm"}
        /\ offerPc'[i] = IF offerPc[i] = "createB" THEN "clearQm" ELSE "idle"
    BY <1>6 DEF MakeFlagFile, DiskTypeOK
  <2>2. /\ Made(i).inst = i /\ Made(i).quality = Making(i)
        /\ \A f \in files : ~ (f.inst = i /\ f.quality = Making(i))
    BY <1>1, <2>1 DEF Made, MatchingFlagFiles
  <2>3. offerPc[i] = "createB" => Making(i) = "b" /\ offered[i] = {}
    BY <1>1 DEF Making
  <2> QED
    BY <1>1, <2>1, <2>2, <2>3
<1>7. CASE MakeFlagFileFails(i)
  <2>1. PICK left \in {{}, {Made(i)}} : files' = (files \ offered[i]) \union left
    BY <1>7 DEF MakeFlagFileFails
  <2>2. /\ dirs' = dirs /\ offered'[i] = {} /\ offerPc'[i] = "idle"
        /\ offerPc[i] \in {"createB", "createQm"}
    BY <1>7 DEF MakeFlagFileFails, DiskTypeOK
  <2>3. /\ Made(i).inst = i /\ Made(i).quality = Making(i)
        /\ \A f \in files : ~ (f.inst = i /\ f.quality = Making(i))
    BY <1>1, <2>2 DEF Made, MatchingFlagFiles
  <2> QED
    BY <1>1, <2>1, <2>2, <2>3
<1>8. CASE StopOfferService(i)
  <2>1. PICK removed \in SUBSET offered[i] :
            files' = files \ removed /\ offered' = [offered EXCEPT ![i] = @ \ removed]
    BY <1>8 DEF StopOfferService
  <2>2. dirs' = dirs /\ offerPc'[i] = "idle" /\ offered'[i] = offered[i] \ removed
    BY <1>8, <2>1 DEF StopOfferService, DiskTypeOK
  <2> QED
    BY <1>1, <2>1, <2>2
<1>9. CASE ProviderCrash(i)
  BY <1>1, <1>9 DEF ProviderCrash, DiskTypeOK
<1> QED
  BY <1>4, <1>5, <1>6, <1>7, <1>8, <1>9 DEF ProviderStep

(* The files and the provider stay as they are, directories are only made. *)
LEMMA OneFileKept ==
    ASSUME OneFileEach, UNCHANGED <<files, offered, offerPc>>, dirs \subseteq dirs'
    PROVE  OneFileEach'
BY DEF OneFileEach, MatchingFlagFiles, Making

(* What is linked, wanted or crawled is watched by the kernel.             *)
LEMMA LinkedIsWatched ==
    ASSUME DiscoveryTypeOK, WatchInvariant, NEW s \in requests
    PROVE  /\ links[s] \subseteq watches /\ links[s] \subseteq inotify
           /\ \A w \in links[s] : w \in Watches /\ s \in keys[w]
           /\ Target[s] = Any => Any \in watches /\ Any \in inotify /\ s \in keys[Any]
           /\ Target[s] # Any => links[s] \subseteq {Target[s]}
           /\ s \in Searches
<1>1. s \in Searches /\ links[s] \subseteq Watches
  BY DEF DiscoveryTypeOK, SearchTypeOK
<1>2. Target[s] \in links[s]
  BY DEF WatchInvariant, WatchesMatchSearches
<1>3. \A w \in links[s] : w \in Watches /\ s \in keys[w] /\ w \in watches
  BY <1>1 DEF WatchInvariant, WatchesMatchSearches
<1> QED
  BY <1>1, <1>2, <1>3 DEF WatchInvariant, WatchesMatchSearches, CrawlsAreWatched

(* An event of a directory that nobody watches is no event of an instance. *)
LEMMA EventOfWatched ==
    ASSUME EventsAreOfWatches, NEW i \in Instances, NEW q \in Qualities
    PROVE  /\ \A n \in 1 .. Len(queue) : queue[n] = Deletion(i, q) => i \in inotify
           /\ \A n \in 1 .. Len(batch) : batch[n] = Deletion(i, q) => i \in inotify
BY DiscoveryAssumption DEF EventsAreOfWatches, EventIsOfWatch, Deletion, FileEvent, Watches

(* A provider removes no offer but its own, and each file it makes is      *)
(* followed by its creation event.                                         *)
LEMMA ProviderStepOffer ==
    ASSUME DiscoveryTypeOK, WatchInvariant, OneFileEach, DeletionsAreFollowed, OfferedAreKnown,
           LinkedAreTold, DirectoriesAreLinked, NEW i \in Instances, ProviderStep(i)
    PROVE  DeletionsAreFollowed' /\ OfferedAreKnown' /\ LinkedAreTold' /\ DirectoriesAreLinked'
<1>1. UNCHANGED <<inotify, pc, arg, found, batch, impacted, requests, obsolete, links, previous,
                  watches, keys, anyEntry, children, known>>
  BY ProviderLeavesConsumer
<1>2. /\ Extends(queue, queue')
      /\ \A j \in Instances, q \in Qualities :
            /\ Deletion(j, q) \in Joined(queue, queue') => ~ Exists(j, q)'
            /\ Exists(j, q)' => \/ Exists(j, q)
                                \/ j \in inotify => Creation(j, q) \in Joined(queue, queue')
      /\ dirs \subseteq dirs'
      /\ \A j \in dirs' \ dirs : Any \in inotify => DirectoryCreated(j) \in Joined(queue, queue')
  BY ProviderEvents
<1>3. \A e : Pending(e) \/ e \in Joined(queue, queue') => Pending(e)'
  BY <1>1, <1>2, PendingKept
<1>4. /\ Len(queue) \in Nat /\ Len(queue') \in Nat /\ Len(queue) <= Len(queue')
      /\ \A n \in 1 .. Len(queue) : queue'[n] = queue[n]
  BY <1>2 DEF Extends
<1>5. DeletionsAreFollowed'
  <2>1. ASSUME NEW j \in Instances, NEW q \in Qualities, Exists(j, q)',
               NEW n \in 1 .. Len(queue'), queue'[n] = Deletion(j, q)
        PROVE  \E m \in 1 .. Len(queue') : m > n /\ queue'[m] = Creation(j, q)
    <3>1. n \in 1 .. Len(queue)
      <4>1. n \notin Len(queue) + 1 .. Len(queue')
        BY <1>2, <2>1 DEF Joined
      <4> QED
        BY <1>4, <4>1
    <3>2. queue[n] = Deletion(j, q) /\ j \in inotify
      BY <1>4, <2>1, <3>1, EventOfWatched DEF WatchInvariant
    <3>3. CASE Exists(j, q)
      <4>1. PICK m \in 1 .. Len(queue) : m > n /\ queue[m] = Creation(j, q)
        BY <3>1, <3>2, <3>3 DEF DeletionsAreFollowed
      <4> QED
        BY <1>4, <4>1
    <3>4. CASE ~ Exists(j, q)
      <4>1. PICK m \in Len(queue) + 1 .. Len(queue') : queue'[m] = Creation(j, q)
        BY <1>2, <2>1, <3>2, <3>4 DEF Joined
      <4> QED
        BY <1>4, <3>1, <4>1
    <3> QED
      BY <3>3, <3>4
  <2>2. ASSUME NEW j \in Instances, NEW q \in Qualities, Exists(j, q)',
               pc[Worker] \in {"handle", "deletions"},
               NEW n \in 1 .. Len(batch), batch[n] = Deletion(j, q)
        PROVE  Pending(Creation(j, q))'
    <3>1. j \in inotify
      BY <2>2, EventOfWatched DEF WatchInvariant
    <3>2. CASE Exists(j, q)
      BY <1>3, <2>2, <3>2 DEF DeletionsAreFollowed
    <3>3. CASE ~ Exists(j, q)
      BY <1>2, <1>3, <2>2, <3>1, <3>3
    <3> QED
      BY <3>2, <3>3
  <2> QED
    BY <1>1, <2>1, <2>2 DEF DeletionsAreFollowed, Deletion, Creation, FileEvent
<1>6. OfferedAreKnown'
  <2>1. ASSUME NEW j \in watches \ {Any}, NEW q \in Qualities, Exists(j, q)'
        PROVE  j \in known[q] \/ Pending(Creation(j, q))'
    <3>1. j \in Instances /\ j \in inotify
      BY DEF DiscoveryTypeOK, WatchTypeOK, Watches, WatchInvariant, WatchesMatchSearches
    <3> QED
      BY <1>2, <1>3, <2>1, <3>1 DEF OfferedAreKnown
  <2> QED
    BY <1>1, <2>1 DEF OfferedAreKnown, Creation, FileEvent
<1>7. LinkedAreTold'
  <2>1. ASSUME NEW s \in Ongoing, NEW j \in links[s] \ {Any}, Exists(j, SearchQuality[s])'
        PROVE  \/ j \in previous[s] \/ s \in impacted
               \/ Pending(Creation(j, SearchQuality[s]))'
    <3>1. j \in Instances /\ j \in inotify /\ SearchQuality[s] \in Qualities
      BY LinkedIsWatched, DiscoveryAssumption DEF Ongoing, Watches
    <3> QED
      BY <1>2, <1>3, <2>1, <3>1 DEF LinkedAreTold
  <2> QED
    BY <1>1, <2>1 DEF LinkedAreTold, Ongoing, Creation, FileEvent
<1>8. DirectoriesAreLinked'
  <2>1. ASSUME NEW s \in requests, NEW j \in dirs', Target[s] = Any
        PROVE  j \in links[s] \/ Pending(DirectoryCreated(j))'
    BY <1>2, <1>3, <2>1, LinkedIsWatched DEF DirectoriesAreLinked
  <2>2. ASSUME NEW u \in Users, NEW j \in dirs', pc[u] = "map", Target[arg[u]] = Any
        PROVE  j \in found[u] \/ Pending(DirectoryCreated(j))'
    <3>1. Any \in inotify
      BY <2>2 DEF WatchInvariant, CrawlsAreWatched
    <3> QED
      BY <1>2, <1>3, <2>2, <3>1 DEF DirectoriesAreLinked
  <2> QED
    BY <1>1, <2>1, <2>2 DEF DirectoriesAreLinked, DirectoryCreated
<1> QED
  BY <1>5, <1>6, <1>7, <1>8

(* Adding a watch gives no event but that of a directory it makes.         *)
LEMMA AddWatchEvents ==
    ASSUME DiscoveryTypeOK, NEW w \in Watches, AddWatch(w)
    PROVE  /\ Extends(queue, queue') /\ \A e \in Joined(queue, queue') : e.kind = "dir"
           /\ dirs \subseteq dirs' /\ dirs' \subseteq dirs \union {w}
           /\ \A i \in dirs' \ dirs : Any \in inotify => DirectoryCreated(i) \in Joined(queue, queue')
<1>1. queue \in Seq(Events)
  BY DEF DiscoveryTypeOK, EventTypeOK
<1>2. w # Any => DirectoryCreated(w) \in Events
  BY EventsAreTyped DEF Watches
<1>3. /\ Extends(queue, queue) /\ Joined(queue, queue) = {}
      /\ w # Any => /\ Extends(queue, Queued(queue, DirectoryCreated(w)))
                    /\ Joined(queue, Queued(queue, DirectoryCreated(w))) =
                          IF Any \in inotify THEN {DirectoryCreated(w)} ELSE {}
  <2>1. \A e \in Events : Extends(queue, queue) /\ Joined(queue, queue) = {}
    BY <1>1, QueuedExtends
  <2>2. Extends(queue, queue) /\ Joined(queue, queue) = {}
    <3>1. Len(queue) \in Nat
      BY <1>1
    <3> QED
      BY <1>1, <3>1 DEF Extends, Joined
  <2> QED
    BY <1>1, <1>2, <2>2, QueuedExtends DEF DirectoryCreated
<1>4. DirectoryCreated(w).kind = "dir"
  BY DEF DirectoryCreated
<1> QED
  BY <1>3, <1>4 DEF AddWatch

(* A step that touches neither files nor the cache keeps offers followed.  *)
LEMMA OfferKept ==
    ASSUME DiscoveryTypeOK, WatchInvariant, OffersAreFollowed,
           UNCHANGED <<files, offered, offerPc, watches, known, links, requests, previous, batch>>,
           Extends(queue, queue'), \A e \in Joined(queue, queue') : e.kind = "dir",
           dirs \subseteq dirs',
           \A i \in dirs' \ dirs : Any \in inotify => DirectoryCreated(i) \in Joined(queue, queue'),
           impacted \subseteq impacted', Ongoing' \subseteq Ongoing,
           pc'[Worker] \in {"handle", "deletions"} =>
               pc[Worker] \in {"handle", "deletions"} \/ batch = <<>>,
           \A u \in Users : pc'[u] = "map" /\ Target[arg'[u]] = Any =>
               \/ dirs' \subseteq found'[u]
               \/ pc[u] = "map" /\ arg'[u] = arg[u] /\ found'[u] = found[u]
    PROVE  OffersAreFollowed'
<1> USE DEF OffersAreFollowed
<1>1. \A e : Pending(e) \/ e \in Joined(queue, queue') => Pending(e)'
  BY PendingKept
<1>2. /\ Len(queue) \in Nat /\ Len(queue') \in Nat /\ Len(queue) <= Len(queue')
      /\ \A n \in 1 .. Len(queue) : queue'[n] = queue[n]
  BY DEF Extends
<1>3. \A i \in Instances, q \in Qualities : Exists(i, q)' <=> Exists(i, q)
  BY DEF Exists
<1>4. OneFileEach'
  BY OneFileKept
<1>5. DeletionsAreFollowed'
  <2>1. ASSUME NEW i \in Instances, NEW q \in Qualities, Exists(i, q),
               NEW n \in 1 .. Len(queue'), queue'[n] = Deletion(i, q)
        PROVE  \E m \in 1 .. Len(queue') : m > n /\ queue'[m] = Creation(i, q)
    <3>1. n \in 1 .. Len(queue)
      <4>1. queue'[n].kind # "dir"
        BY <2>1 DEF Deletion, FileEvent
      <4>2. n \notin Len(queue) + 1 .. Len(queue')
        BY <4>1 DEF Joined
      <4> QED
        BY <1>2, <4>2
    <3>2. PICK m \in 1 .. Len(queue) : m > n /\ queue[m] = Creation(i, q)
      BY <1>2, <2>1, <3>1 DEF DeletionsAreFollowed
    <3> QED
      BY <1>2, <3>2
  <2>2. ASSUME NEW i \in Instances, NEW q \in Qualities, Exists(i, q),
               pc'[Worker] \in {"handle", "deletions"},
               NEW n \in 1 .. Len(batch), batch[n] = Deletion(i, q)
        PROVE  Pending(Creation(i, q))'
    <3>1. batch # <<>>
      <4>1. Len(<<>>) = 0
        OBVIOUS
      <4> QED
        BY <4>1
    <3> QED
      BY <1>1, <2>2, <3>1 DEF DeletionsAreFollowed
  <2> QED
    BY <1>3, <2>1, <2>2 DEF DeletionsAreFollowed, Deletion, Creation, FileEvent
<1>6. OfferedAreKnown'
  <2>1. watches \ {Any} \subseteq Instances
    BY DEF DiscoveryTypeOK, WatchTypeOK, Watches
  <2> QED
    BY <1>1, <1>3, <2>1 DEF OfferedAreKnown, Creation, FileEvent
<1>7. LinkedAreTold'
  <2>1. ASSUME NEW s \in Ongoing, NEW i \in links[s] \ {Any}, Exists(i, SearchQuality[s])
        PROVE  \/ i \in previous[s] \/ s \in impacted'
               \/ Pending(Creation(i, SearchQuality[s]))'
    BY <1>1, <2>1 DEF LinkedAreTold
  <2> QED
    BY <2>1 DEF LinkedAreTold, Creation, FileEvent, Exists
<1>8. DirectoriesAreLinked'
  <2>1. ASSUME NEW s \in requests, NEW j \in dirs', Target[s] = Any
        PROVE  j \in links[s] \/ Pending(DirectoryCreated(j))'
    BY <1>1, <2>1, LinkedIsWatched DEF DirectoriesAreLinked
  <2>2. ASSUME NEW u \in Users, NEW j \in dirs', pc'[u] = "map", Target[arg'[u]] = Any
        PROVE  j \in found'[u] \/ Pending(DirectoryCreated(j))'
    <3>1. CASE pc[u] = "map" /\ arg'[u] = arg[u] /\ found'[u] = found[u]
      <4>1. Any \in inotify
        BY <2>2, <3>1 DEF WatchInvariant, CrawlsAreWatched
      <4> QED
        BY <1>1, <2>2, <3>1, <4>1 DEF DirectoriesAreLinked
    <3> QED
      BY <2>2, <3>1
  <2> QED
    BY <2>1, <2>2 DEF DirectoriesAreLinked, DirectoryCreated
<1> QED
  BY <1>4, <1>5, <1>6, <1>7, <1>8

(* A queue that stays has nothing joining it.                              *)
LEMMA QueueUnchanged ==
    ASSUME DiscoveryTypeOK, queue' = queue
    PROVE  Extends(queue, queue') /\ Joined(queue, queue') = {}
<1>1. queue \in Seq(Events) /\ Len(queue) \in Nat
  BY DEF DiscoveryTypeOK, EventTypeOK
<1> QED
  BY <1>1 DEF Extends, Joined

(* Searches that start and stop leave the offers followed.                 *)
LEMMA SearchStepOffer ==
    ASSUME DiscoveryTypeOK, SearchInvariant, WatchInvariant, OffersAreFollowed,
           NEW u \in Users, NEW s \in Searches,
           \/ StartFindService(u, s) \/ StopFindService(u, s) \/ StartFindServiceFails(u)
           \/ StartFindServiceReturns(u) \/ StopFindServiceAtClient(u)
    PROVE  OffersAreFollowed'
<1>1. /\ UNCHANGED <<dirs, files, offered, offerPc, queue, batch, impacted, requests, links, previous,
                     watches, known>>
      /\ \E place \in {"start", "stop", "idle"} : pc' = [pc EXCEPT ![u] = place]
      /\ found' \in {found, [found EXCEPT ![u] = {}]}
      /\ \E a \in {s, NoOne} : arg' = [arg EXCEPT ![u] = a]
      /\ obsolete \subseteq obsolete'
  <2>1. CASE StartFindService(u, s) \/ StopFindService(u, s)
    BY <2>1 DEF StartFindService, StopFindService, diskVars, kernelVars, watchVars, searchVars
  <2>2. CASE \/ StartFindServiceFails(u) \/ StartFindServiceReturns(u)
             \/ StopFindServiceAtClient(u)
    BY <2>2 DEF StartFindServiceFails, StartFindServiceReturns, StopFindServiceAtClient, diskVars,
       kernelVars, watchVars, searchVars
  <2> QED
    BY <2>1, <2>2
<1>2. /\ pc'[Worker] = pc[Worker] /\ pc'[u] # "map"
      /\ \A v \in Users \ {u} : pc'[v] = pc[v] /\ arg'[v] = arg[v] /\ found'[v] = found[v]
  BY <1>1, ThreadsAreDistinct DEF DiscoveryTypeOK, ThreadTypeOK
<1>3. Extends(queue, queue') /\ Joined(queue, queue') = {}
  BY <1>1, QueueUnchanged
<1> QED
  BY <1>1, <1>2, <1>3, OfferKept DEF Ongoing

(* So do handlers.                                                         *)
LEMMA HandlerOffer ==
    ASSUME DiscoveryTypeOK, WatchInvariant, OffersAreFollowed, NEW t \in Threads, HandlerStep(t)
    PROVE  OffersAreFollowed'
<1>1. /\ UNCHANGED <<dirs, files, offered, offerPc, queue, batch, impacted, requests, links, previous,
                     watches, known, pc, arg, found>>
      /\ obsolete \subseteq obsolete'
  BY DEF HandlerStep, StopFindServiceInHandler, HandlerReturns, diskVars, kernelVars, threadVars,
     searchVars, watchVars
<1>2. Extends(queue, queue') /\ Joined(queue, queue') = {}
  BY <1>1, QueueUnchanged
<1> QED
  BY <1>1, <1>2, OfferKept DEF Ongoing

(* A crawl that begins knows each directory, or an event of it is pending. *)
LEMMA CrawlOffer ==
    ASSUME DiscoveryTypeOK, SearchInvariant, WatchInvariant, OffersAreFollowed, NEW u \in Users,
           CrawlAndWatch(u) \/ GatherExistingInstanceDirectories(u)
    PROVE  OffersAreFollowed'
<1> DEFINE s == arg[u]
<1>0. u \in Threads /\ s \in Searches /\ Target[s] \in Watches
  BY DiscoveryAssumption DEF Threads, CrawlAndWatch, GatherExistingInstanceDirectories, DiscoveryTypeOK,
     SearchInvariant, SearchesHaveCallbacks, SearchTypeOK
<1>1. /\ UNCHANGED <<files, offered, offerPc, arg, batch, impacted, requests, obsolete, links, previous,
                     watches, known>>
      /\ \E place \in {"gather", "map"} : pc' = [pc EXCEPT ![u] = place]
      /\ \E ws : found' = [found EXCEPT ![u] = ws]
  BY DEF CrawlAndWatch, GatherExistingInstanceDirectories, diskVars, searchVars, watchVars
<1>2. \A t \in Threads \ {u} : pc'[t] = pc[t] /\ found'[t] = found[t]
  BY <1>0, <1>1 DEF DiscoveryTypeOK, ThreadTypeOK
<1>3. /\ Extends(queue, queue') /\ \A e \in Joined(queue, queue') : e.kind = "dir"
      /\ dirs \subseteq dirs'
      /\ \A i \in dirs' \ dirs : Any \in inotify => DirectoryCreated(i) \in Joined(queue, queue')
  <2>1. CASE CrawlAndWatch(u)
    BY <1>0, <2>1, AddWatchEvents DEF CrawlAndWatch
  <2>2. CASE GatherExistingInstanceDirectories(u)
    BY <2>2, QueueUnchanged DEF GatherExistingInstanceDirectories, diskVars
  <2> QED
    BY <2>1, <2>2
<1>4. pc'[u] = "map" /\ Target[s] = Any => dirs' \subseteq found'[u]
  <2>1. CASE CrawlAndWatch(u)
    BY <1>0, <2>1 DEF CrawlAndWatch, DiscoveryTypeOK, ThreadTypeOK
  <2>2. CASE GatherExistingInstanceDirectories(u)
    BY <1>0, <2>2 DEF GatherExistingInstanceDirectories, diskVars, DiscoveryTypeOK, ThreadTypeOK
  <2> QED
    BY <2>1, <2>2
<1>5. \A v \in Users : pc'[v] = "map" /\ Target[arg'[v]] = Any =>
               \/ dirs' \subseteq found'[v]
               \/ pc[v] = "map" /\ arg'[v] = arg[v] /\ found'[v] = found[v]
  BY <1>1, <1>2, <1>4, ThreadsAreDistinct
<1>6. pc'[Worker] = pc[Worker]
  BY <1>2, ThreadsAreDistinct
<1> QED
  BY <1>1, <1>3, <1>5, <1>6, OfferKept DEF Ongoing

(* A new search is told of what is known and linked with every directory.  *)
LEMMA TransferNewOffer ==
    ASSUME DiscoveryTypeOK, WatchInvariant, OffersAreFollowed, NEW u \in Users, NEW s \in started,
           NEW ws \in SUBSET Watches, NEW instances \in [Qualities -> SUBSET Instances],
           NEW handles, s \notin requests,
           \A i \in ws \ {Any}, q \in Qualities : Exists(i, q) => i \in watches \/ i \in instances[q],
           \A i \in ws \ {Any} : Exists(i, SearchQuality[s]) =>
               i \in handles \/ Pending(Creation(i, SearchQuality[s])),
           Target[s] = Any => \A i \in dirs : i \in ws \/ Pending(DirectoryCreated(i)),
           TransferNewSearchRequest(u, s, ws, instances, handles),
           UNCHANGED <<dirs, files, offered, offerPc, queue, batch, arg, impacted, obsolete>>,
           \A v \in Users \ {u} : found'[v] = found[v]
    PROVE  OffersAreFollowed'
<1> USE DEF OffersAreFollowed
<1>1. s \in Searches /\ links[s] = {} /\ u \in Threads
  BY DEF DiscoveryTypeOK, SearchTypeOK, WatchInvariant, WatchesMatchSearches, Threads
<1>2. /\ requests' = requests \union {s} /\ watches' = watches \union ws
      /\ \A q \in Qualities : known'[q] = known[q] \union instances[q]
      /\ previous'[s] = handles /\ \A r \in Searches \ {s} : previous'[r] = previous[r]
      /\ links'[s] = ws /\ \A r \in Searches \ {s} : links'[r] = links[r]
      /\ pc'[u] = "called" /\ \A t \in Threads \ {u} : pc'[t] = pc[t]
  BY <1>1 DEF TransferNewSearchRequest, StoreWatch, Link, Merge, DiscoveryTypeOK, ThreadTypeOK, SearchTypeOK
<1>3. /\ \A i, q : Exists(i, q)' <=> Exists(i, q)
      /\ \A e : Pending(e)' <=> Pending(e)
  BY DEF Exists, Pending
<1>4. OneFileEach'
  BY OneFileKept
<1>5. DeletionsAreFollowed'
  <2>1. pc'[Worker] = pc[Worker]
    BY <1>2, ThreadsAreDistinct
  <2>2. ASSUME NEW i \in Instances, NEW q \in Qualities, Exists(i, q)
        PROVE  /\ \A n \in 1 .. Len(queue) : queue[n] = Deletion(i, q) =>
                     \E m \in 1 .. Len(queue) : m > n /\ queue[m] = Creation(i, q)
               /\ pc'[Worker] \in {"handle", "deletions"} =>
                     \A n \in 1 .. Len(batch) : batch[n] = Deletion(i, q) => Pending(Creation(i, q))
    BY <2>1, <2>2 DEF DeletionsAreFollowed
  <2>3. queue' = queue /\ batch' = batch /\ files' = files
    OBVIOUS
  <2> QED
    BY <2>2, <2>3 DEF DeletionsAreFollowed, Creation, Deletion, FileEvent, Pending, Exists
<1>6. OfferedAreKnown'
  <2>1. ASSUME NEW i \in watches' \ {Any}, NEW q \in Qualities, Exists(i, q)
        PROVE  i \in known'[q] \/ Pending(Creation(i, q))
    BY <1>2, <2>1 DEF OfferedAreKnown
  <2> QED
    BY <1>3, <2>1 DEF OfferedAreKnown, Creation, FileEvent
<1>7. LinkedAreTold'
  <2>1. ASSUME NEW r \in Ongoing', NEW i \in links'[r] \ {Any}, Exists(i, SearchQuality[r])
        PROVE  i \in previous'[r] \/ r \in impacted \/ Pending(Creation(i, SearchQuality[r]))
    <3>1. CASE r = s
      BY <1>2, <2>1, <3>1
    <3>2. CASE r # s
      <4>1. r \in Ongoing /\ r \in Searches \ {s}
        BY <1>2, <3>2 DEF Ongoing, DiscoveryTypeOK, SearchTypeOK
      <4> QED
        BY <1>2, <2>1, <4>1 DEF LinkedAreTold
    <3> QED
      BY <3>1, <3>2
  <2> QED
    BY <1>3, <2>1 DEF LinkedAreTold, Creation, FileEvent
<1>8. DirectoriesAreLinked'
  <2>1. ASSUME NEW r \in requests', NEW i \in dirs, Target[r] = Any
        PROVE  i \in links'[r] \/ Pending(DirectoryCreated(i))
    <3>1. CASE r = s
      BY <1>2, <2>1, <3>1
    <3>2. CASE r # s
      <4>1. r \in requests /\ r \in Searches \ {s}
        BY <1>2, <3>2 DEF DiscoveryTypeOK, SearchTypeOK
      <4> QED
        BY <1>2, <2>1, <4>1 DEF DirectoriesAreLinked
    <3> QED
      BY <3>1, <3>2
  <2>2. ASSUME NEW v \in Users, NEW i \in dirs, pc'[v] = "map", Target[arg[v]] = Any
        PROVE  i \in found'[v] \/ Pending(DirectoryCreated(i))
    BY <1>2, <2>2, ThreadsAreDistinct DEF DirectoriesAreLinked
  <2> QED
    BY <1>3, <2>1, <2>2 DEF DirectoriesAreLinked, DirectoryCreated
<1> QED
  BY <1>4, <1>5, <1>6, <1>7, <1>8

(* The cache tells the search of every instance known, the rest is         *)
(* pending.                                                                *)
LEMMA StartFromCacheOffer ==
    ASSUME DiscoveryTypeOK, SearchInvariant, WatchInvariant, OffersAreFollowed,
           NEW u \in Users, StartFromCache(u)
    PROVE  OffersAreFollowed'
<1> DEFINE s == arg[u]
           ws == CachedWatches(s)
           handles == GetKnownHandles(s, known)
<1>0. s \in started /\ s \in Searches /\ s \notin requests
  BY DEF StartFromCache, SearchInvariant, SearchesHaveCallbacks, DiscoveryTypeOK, SearchTypeOK
<1>1. Target[s] \in Watches /\ Cached(s) /\ SearchQuality[s] \in Qualities
  BY <1>0, DiscoveryAssumption DEF StartFromCache
<1>2. /\ ws \subseteq watches /\ Target[s] \in ws /\ (Target[s] # Any => ws = {Target[s]})
      /\ Target[s] = Any => Any \in watches /\ ws = watches
  BY <1>1 DEF CachedWatches, Cached, WatchInvariant, WatchesMatchSearches
<1>3. ws \in SUBSET Watches
  BY <1>2 DEF DiscoveryTypeOK, WatchTypeOK
<1>4. Nothing \in [Qualities -> SUBSET Instances]
  BY DEF Nothing
<1>5. /\ TransferNewSearchRequest(u, s, ws, Nothing, handles)
      /\ UNCHANGED <<dirs, files, offered, offerPc, queue, batch, arg, impacted, obsolete, found>>
  BY DEF StartFromCache, diskVars, kernelVars
<1>6. \A i \in ws \ {Any} : Exists(i, SearchQuality[s]) =>
          i \in handles \/ Pending(Creation(i, SearchQuality[s]))
  BY <1>1, <1>2 DEF GetKnownHandles, OffersAreFollowed, OfferedAreKnown
<1>7. Target[s] = Any => \A i \in dirs : i \in ws \/ Pending(DirectoryCreated(i))
  <2>1. ASSUME Target[s] = Any, NEW i \in dirs PROVE i \in ws \/ Pending(DirectoryCreated(i))
    <3>1. PICK r \in Searches : r \in keys[Any]
      BY <1>2, <2>1 DEF WatchInvariant, WatchesMatchSearches, DiscoveryTypeOK, WatchTypeOK
    <3>2. r \in requests /\ Target[r] = Any
      BY <3>1 DEF WatchInvariant, WatchesMatchSearches, CrawlsAreWatched, Watches
    <3>3. links[r] \subseteq watches
      BY <3>2, LinkedIsWatched
    <3>4. i \in links[r] \/ Pending(DirectoryCreated(i))
      BY <3>2 DEF OffersAreFollowed, DirectoriesAreLinked
    <3> QED
      BY <1>2, <2>1, <3>3, <3>4
  <2> QED
    BY <2>1
<1> HIDE DEF s, ws, handles
<1>8. \A i \in ws \ {Any}, q \in Qualities : Exists(i, q) => i \in watches \/ i \in Nothing[q]
  BY <1>2
<1> QED
  BY <1>0, <1>3, <1>4, <1>5, <1>6, <1>7, <1>8, TransferNewOffer

(* The crawl looks up the files after the watches are there: what it       *)
(* misses is pending.                                                      *)
LEMMA FinishCrawlOffer ==
    ASSUME DiscoveryTypeOK, SearchInvariant, WatchInvariant, OffersAreFollowed,
           NEW u \in Users, FinishCrawl(u)
    PROVE  OffersAreFollowed'
<1> DEFINE s == arg[u]
           ws == found[u]
           instances == MapInstancesToQualityTypes(ws \ {Any})
           handles == GetKnownHandles(s, instances)
<1>0. u \in Threads /\ s \in started /\ s \in Searches /\ s \notin requests /\ pc[u] = "map"
      /\ SearchQuality[s] \in Qualities
  BY DiscoveryAssumption DEF Threads, FinishCrawl, SearchInvariant, SearchesHaveCallbacks, DiscoveryTypeOK,
     SearchTypeOK
<1>1. Target[s] \in ws /\ (Target[s] # Any => ws = {Target[s]})
  BY <1>0 DEF WatchInvariant, CrawlsAreWatched
<1>2. ws \in SUBSET Watches /\ ws \ {Any} \in SUBSET Instances
  BY <1>0 DEF DiscoveryTypeOK, ThreadTypeOK, Watches
<1>3. instances \in [Qualities -> SUBSET Instances]
  BY <1>0, <1>2, KnownType DEF DiscoveryTypeOK
<1>4. \A i \in ws \ {Any}, q \in Qualities : Exists(i, q) => i \in instances[q]
  BY DEF MapInstancesToQualityTypes
<1>5. /\ TransferNewSearchRequest(u, s, ws, instances, handles)
      /\ UNCHANGED <<dirs, files, offered, offerPc, queue, batch, arg, impacted, obsolete>>
      /\ found' = [found EXCEPT ![u] = {}]
  BY DEF FinishCrawl, diskVars, kernelVars
<1>6. \A i \in ws \ {Any} : Exists(i, SearchQuality[s]) => i \in handles
  BY <1>0, <1>1, <1>4 DEF GetKnownHandles
<1>7. Target[s] = Any => \A i \in dirs : i \in ws \/ Pending(DirectoryCreated(i))
  BY <1>0 DEF OffersAreFollowed, DirectoriesAreLinked
<1>8. \A v \in Users \ {u} : found'[v] = found[v]
  BY <1>5, ThreadsAreDistinct DEF DiscoveryTypeOK, ThreadTypeOK
<1> HIDE DEF s, ws, instances, handles
<1> QED
  BY <1>0, <1>2, <1>3, <1>4, <1>5, <1>6, <1>7, <1>8, TransferNewOffer

(* What leaves the queue is in the batch, in the same order.               *)
LEMMA ReadOffer ==
    ASSUME DiscoveryTypeOK, WatchInvariant, OffersAreFollowed, Read \/ ReadNothing
    PROVE  OffersAreFollowed'
<1>1. /\ UNCHANGED <<dirs, files, offered, offerPc, arg, found, impacted, requests, obsolete, links,
                     previous, watches, known>>
      /\ pc[Worker] = "read" /\ pc' = [pc EXCEPT ![Worker] = "handle"]
  BY DEF Read, ReadNothing, WorkerUnchanged, diskVars, watchVars
<1>2. pc'[Worker] = "handle" /\ \A u \in Users : pc'[u] = pc[u]
  BY <1>1, ThreadsAreDistinct DEF DiscoveryTypeOK, ThreadTypeOK
<1>3. batch = <<>>
  BY <1>1 DEF WatchInvariant, EventsAreOfWatches
<1>4. CASE ReadNothing
  <2>1. queue' = queue /\ batch' = batch
    BY <1>4 DEF ReadNothing, kernelVars
  <2>2. Extends(queue, queue') /\ Joined(queue, queue') = {}
    BY <2>1, QueueUnchanged
  <2> QED
    BY <1>1, <1>2, <1>3, <2>1, <2>2, OfferKept DEF Ongoing
<1>5. CASE Read
  <2>1. queue \in Seq(Events) /\ Len(queue) \in Nat /\ Len(batch) = 0
    BY <1>3 DEF DiscoveryTypeOK, EventTypeOK
  <2>2. PICK n \in 0 .. Len(queue) :
            /\ Len(batch') = n /\ \A k \in 1 .. n : batch'[k] = queue[k]
            /\ Len(queue') = Len(queue) - n
            /\ \A k \in 1 .. Len(queue) - n : queue'[k] = queue[n + k]
    BY <1>5, <2>1, ReadSplits
  <2>3. \A k \in 1 .. Len(queue) :
            \/ k \in 1 .. n /\ batch'[k] = queue[k]
            \/ k - n \in 1 .. Len(queue') /\ queue'[k - n] = queue[k]
    <3>1. \A k \in 1 .. Len(queue) : k \in 1 .. n \/ k - n \in 1 .. Len(queue) - n
      BY <2>1
    <3>2. \A k \in 1 .. Len(queue) : n + (k - n) = k
      BY <2>1
    <3> QED
      BY <2>2, <3>1, <3>2
  <2>4. \A e : Pending(e) => Pending(e)'
    BY <2>1, <2>2, <2>3 DEF Pending
  <2>5. \A i, q : Exists(i, q)' <=> Exists(i, q)
    BY <1>1 DEF Exists
  <2> USE DEF OffersAreFollowed
  <2>6. OneFileEach'
    BY <1>1, OneFileKept
  <2>7. DeletionsAreFollowed'
    <3>1. ASSUME NEW i \in Instances, NEW q \in Qualities, Exists(i, q),
                 NEW k \in 1 .. Len(queue'), queue'[k] = Deletion(i, q)
          PROVE  \E m \in 1 .. Len(queue') : m > k /\ queue'[m] = Creation(i, q)
      <4>1. n + k \in 1 .. Len(queue) /\ queue[n + k] = Deletion(i, q)
        BY <2>1, <2>2, <3>1
      <4>2. PICK m \in 1 .. Len(queue) : m > n + k /\ queue[m] = Creation(i, q)
        BY <3>1, <4>1 DEF DeletionsAreFollowed
      <4>3. m - n \in 1 .. Len(queue') /\ m - n > k /\ queue'[m - n] = Creation(i, q)
        BY <2>1, <2>2, <2>3, <4>2
      <4> QED
        BY <4>3
    <3>2. ASSUME NEW i \in Instances, NEW q \in Qualities, Exists(i, q),
                 NEW k \in 1 .. Len(batch'), batch'[k] = Deletion(i, q)
          PROVE  Pending(Creation(i, q))'
      <4>1. k \in 1 .. Len(queue) /\ queue[k] = Deletion(i, q)
        BY <2>1, <2>2, <3>2
      <4>2. Pending(Creation(i, q))
        BY <3>2, <4>1 DEF DeletionsAreFollowed, Pending
      <4> QED
        BY <2>4, <4>2 DEF Creation, FileEvent
    <3> QED
      BY <2>5, <3>1, <3>2 DEF DeletionsAreFollowed, Creation, Deletion, FileEvent
  <2>8. OfferedAreKnown'
    <3>1. \A i \in watches \ {Any}, q \in Qualities :
              Exists(i, q) => i \in known[q] \/ Pending(Creation(i, q))'
      BY <2>4 DEF OfferedAreKnown, Creation, FileEvent
    <3> QED
      BY <1>1, <2>5, <3>1 DEF OfferedAreKnown, Creation, FileEvent
  <2>9. LinkedAreTold'
    <3>1. \A s \in Ongoing : \A i \in links[s] \ {Any} :
              Exists(i, SearchQuality[s]) =>
                  i \in previous[s] \/ s \in impacted \/ Pending(Creation(i, SearchQuality[s]))'
      BY <2>4 DEF LinkedAreTold, Creation, FileEvent
    <3> QED
      BY <1>1, <2>5, <3>1 DEF LinkedAreTold, Ongoing, Creation, FileEvent
  <2>10. DirectoriesAreLinked'
    <3>1. /\ \A s \in requests, i \in dirs :
                Target[s] = Any => i \in links[s] \/ Pending(DirectoryCreated(i))'
          /\ \A u \in Users, i \in dirs :
                pc[u] = "map" /\ Target[arg[u]] = Any => i \in found[u] \/ Pending(DirectoryCreated(i))'
      BY <2>4 DEF DirectoriesAreLinked, DirectoryCreated
    <3> QED
      BY <1>1, <1>2, <3>1 DEF DirectoriesAreLinked, DirectoryCreated
  <2> QED
    BY <2>6, <2>7, <2>8, <2>9, <2>10
<1> QED
  BY <1>4, <1>5

(* Watches that are removed are of no ongoing search, so their events are  *)
(* not missed.                                                             *)
LEMMA TransferObsoleteOffer ==
    ASSUME DiscoveryTypeOK, SearchInvariant, WatchInvariant, OffersAreFollowed,
           TransferObsoleteSearchRequests
    PROVE  OffersAreFollowed'
<1> DEFINE gone == requests \intersect obsolete
           unused == UnusedWithout(gone)
<1>1. /\ requests' = requests \ gone /\ obsolete' = {}
      /\ links' = [s \in Searches |-> IF s \in gone THEN {} ELSE links[s]]
      /\ watches' = watches \ unused
      /\ known' = [q \in Qualities |-> known[q] \ (unused \ {Any})]
      /\ queue' = Orphaned(queue, unused) /\ batch' = Orphaned(batch, unused)
      /\ UNCHANGED <<dirs, files, offered, offerPc, arg, found, impacted, previous>>
      /\ pc[Worker] = "handle" /\ pc' = [pc EXCEPT ![Worker] = "deletions"]
      /\ workerMutex = NoOne
  BY DEF TransferObsoleteSearchRequests, WorkerUnchanged, diskVars, Unlink, EraseWatch, Forget
<1>2. unused = {w \in watches : keys[w] # {} /\ keys[w] \subseteq gone}
  BY DEF UnusedWithout
<1>3. pc'[Worker] = "deletions" /\ \A u \in Users : pc'[u] # "map"
  BY <1>1, ThreadsAreDistinct DEF DiscoveryTypeOK, ThreadTypeOK, SearchInvariant, MutexesHeld
<1>4. Ongoing' = Ongoing /\ requests' = Ongoing
  BY <1>1 DEF Ongoing
<1> HIDE DEF gone, unused
<1>5. /\ Len(queue') = Len(queue) /\ Len(batch') = Len(batch)
      /\ \A n \in 1 .. Len(queue) :
            /\ queue[n].watch \notin unused => queue'[n] = queue[n]
            /\ queue[n].watch \in unused => queue'[n].watch = NoOne
      /\ \A n \in 1 .. Len(batch) :
            /\ batch[n].watch \notin unused => batch'[n] = batch[n]
            /\ batch[n].watch \in unused => batch'[n].watch = NoOne
  <2>1. queue \in Seq(Events) /\ batch \in Seq(Events)
    BY DEF DiscoveryTypeOK, EventTypeOK
  <2>2. \A e \in Events : [e EXCEPT !.watch = NoOne].watch = NoOne
    BY DEF Events
  <2>3. ASSUME NEW q \in Seq(Events)
        PROVE  /\ Len(Orphaned(q, unused)) = Len(q)
               /\ \A n \in 1 .. Len(q) :
                     /\ q[n].watch \notin unused => Orphaned(q, unused)[n] = q[n]
                     /\ q[n].watch \in unused => Orphaned(q, unused)[n].watch = NoOne
    <3>1. Len(Orphaned(q, unused)) = Len(q)
      BY OrphanedType
    <3>2. ASSUME NEW n \in 1 .. Len(q)
          PROVE  /\ q[n].watch \notin unused => Orphaned(q, unused)[n] = q[n]
                 /\ q[n].watch \in unused => Orphaned(q, unused)[n].watch = NoOne
      <4>1. q[n] \in Events
        BY ElementOfSeq
      <4>2. Orphaned(q, unused)[n] =
                IF q[n].watch \in unused THEN [q[n] EXCEPT !.watch = NoOne] ELSE q[n]
        BY OrphanedType
      <4> QED
        BY <2>2, <4>1, <4>2
    <3> QED
      BY <3>1, <3>2
  <2> QED
    BY <1>1, <2>1, <2>3
<1>6. \A e : Pending(e) /\ e.watch \notin unused => Pending(e)'
  BY <1>5 DEF Pending
<1>7. \A i, q : Exists(i, q)' <=> Exists(i, q)
  BY <1>1 DEF Exists
<1> USE DEF OffersAreFollowed
<1>8. OneFileEach'
  BY <1>1, OneFileKept
<1>9. DeletionsAreFollowed'
  <2>1. ASSUME NEW i \in Instances, NEW q \in Qualities
        PROVE  /\ Deletion(i, q).watch = i /\ Creation(i, q).watch = i /\ i # NoOne
               /\ \A n \in 1 .. Len(queue) : queue'[n] = Deletion(i, q) =>
                     queue[n] = Deletion(i, q) /\ i \notin unused
               /\ \A n \in 1 .. Len(batch) : batch'[n] = Deletion(i, q) =>
                     batch[n] = Deletion(i, q) /\ i \notin unused
    <3>1. Deletion(i, q).watch = i /\ Creation(i, q).watch = i /\ i # NoOne
      BY DiscoveryAssumption DEF Deletion, Creation, FileEvent, Watches
    <3> QED
      BY <1>5, <3>1
  <2>2. ASSUME NEW i \in Instances, NEW q \in Qualities, Exists(i, q),
               NEW n \in 1 .. Len(queue'), queue'[n] = Deletion(i, q)
        PROVE  \E m \in 1 .. Len(queue') : m > n /\ queue'[m] = Creation(i, q)
    <3>1. n \in 1 .. Len(queue) /\ queue[n] = Deletion(i, q) /\ i \notin unused
      BY <1>5, <2>1, <2>2
    <3>2. PICK m \in 1 .. Len(queue) : m > n /\ queue[m] = Creation(i, q)
      BY <2>2, <3>1 DEF DeletionsAreFollowed
    <3> QED
      BY <1>5, <2>1, <3>1, <3>2
  <2>3. ASSUME NEW i \in Instances, NEW q \in Qualities, Exists(i, q),
               NEW n \in 1 .. Len(batch'), batch'[n] = Deletion(i, q)
        PROVE  Pending(Creation(i, q))'
    <3>1. n \in 1 .. Len(batch) /\ batch[n] = Deletion(i, q) /\ i \notin unused
      BY <1>5, <2>1, <2>3
    <3>2. Pending(Creation(i, q))
      BY <1>1, <2>3, <3>1 DEF DeletionsAreFollowed
    <3> QED
      BY <1>6, <2>1, <3>1, <3>2 DEF Creation, FileEvent
  <2> QED
    BY <1>7, <2>2, <2>3 DEF DeletionsAreFollowed, Creation, Deletion, FileEvent
<1>10. OfferedAreKnown'
  <2>1. ASSUME NEW i \in watches' \ {Any}, NEW q \in Qualities, Exists(i, q)
        PROVE  i \in known'[q] \/ Pending(Creation(i, q))'
    <3>1. i \in watches \ {Any} /\ i \notin unused /\ Creation(i, q).watch = i
      BY <1>1 DEF Creation, FileEvent
    <3> QED
      BY <1>1, <1>6, <2>1, <3>1 DEF OfferedAreKnown, Creation, FileEvent
  <2> QED
    BY <1>7, <2>1 DEF OfferedAreKnown, Creation, FileEvent
<1>11. LinkedAreTold'
  <2>1. ASSUME NEW s \in Ongoing, NEW i \in links'[s] \ {Any}, Exists(i, SearchQuality[s])
        PROVE  \/ i \in previous[s] \/ s \in impacted
               \/ Pending(Creation(i, SearchQuality[s]))'
    <3>1. s \in requests /\ s \notin gone /\ s \in Searches
      BY DEF Ongoing, gone, DiscoveryTypeOK, SearchTypeOK
    <3>2. i \in links[s] /\ s \in keys[i]
      BY <1>1, <2>1, <3>1, LinkedIsWatched
    <3>3. i \notin unused /\ Creation(i, SearchQuality[s]).watch = i
      BY <1>2, <3>1, <3>2 DEF Creation, FileEvent
    <3> QED
      BY <1>6, <2>1, <3>2, <3>3 DEF LinkedAreTold, Creation, FileEvent
  <2> QED
    BY <1>1, <1>4, <1>7, <2>1 DEF LinkedAreTold, Creation, FileEvent
<1>12. DirectoriesAreLinked'
  <2>1. ASSUME NEW s \in requests', NEW i \in dirs, Target[s] = Any
        PROVE  i \in links'[s] \/ Pending(DirectoryCreated(i))'
    <3>1. s \in requests /\ s \notin gone /\ s \in Searches /\ links'[s] = links[s]
      BY <1>1, <2>1 DEF DiscoveryTypeOK, SearchTypeOK
    <3>2. Any \notin unused /\ DirectoryCreated(i).watch = Any
      BY <1>2, <2>1, <3>1, LinkedIsWatched DEF DirectoryCreated
    <3> QED
      BY <1>6, <2>1, <3>1, <3>2 DEF DirectoriesAreLinked, DirectoryCreated
  <2> QED
    BY <1>1, <1>3, <2>1 DEF DirectoriesAreLinked, DirectoryCreated
<1> QED
  BY <1>8, <1>9, <1>10, <1>11, <1>12

(* Deletions are followed while files and events stay.                     *)
LEMMA DeletionsKept ==
    ASSUME DeletionsAreFollowed, UNCHANGED <<files, queue>>,
           pc'[Worker] \in {"handle", "deletions"} =>
               pc[Worker] \in {"handle", "deletions"} /\ batch' = batch
    PROVE  DeletionsAreFollowed'
<1>1. ASSUME NEW i \in Instances, NEW q \in Qualities, Exists(i, q)
      PROVE  \A n \in 1 .. Len(queue) : queue[n] = Deletion(i, q) =>
                 \E m \in 1 .. Len(queue) : m > n /\ queue[m] = Creation(i, q)
  BY <1>1 DEF DeletionsAreFollowed
<1>2. ASSUME NEW i \in Instances, NEW q \in Qualities, Exists(i, q),
             pc'[Worker] \in {"handle", "deletions"}
      PROVE  \A n \in 1 .. Len(batch') : batch'[n] = Deletion(i, q) => Pending(Creation(i, q))'
  BY <1>2 DEF DeletionsAreFollowed, Pending, Creation, FileEvent
<1>3. queue' = queue /\ files' = files
  OBVIOUS
<1> QED
  BY <1>1, <1>2, <1>3 DEF DeletionsAreFollowed, Creation, Deletion, FileEvent, Exists

(* While the worker has worker_mutex_ no user's thread crawls.             *)
LEMMA NobodyCrawls ==
    ASSUME DiscoveryTypeOK, SearchInvariant, pc[Worker] \notin {"read", "handle"}
    PROVE  \A u \in Users : pc[u] \notin {"gather", "map"}
BY ThreadsAreDistinct DEF SearchInvariant, MutexesHeld

(* An event of the batch that is of a watch the client has.                *)
LEMMA BatchEvent ==
    ASSUME DiscoveryTypeOK, WatchInvariant, NEW n \in 1 .. Len(batch), batch[n].watch \in watches
    PROVE  /\ batch[n] \in Events
           /\ batch[n].kind = "delete" =>
                 batch[n] = Deletion(batch[n].inst, batch[n].quality) /\ batch[n].inst \in watches
           /\ batch[n].kind = "create" =>
                 batch[n] = Creation(batch[n].inst, batch[n].quality) /\ batch[n].inst \in watches
<1>1. batch[n] \in Events /\ EventIsOfWatch(batch[n])
  BY ElementOfSeq DEF DiscoveryTypeOK, EventTypeOK, WatchInvariant, EventsAreOfWatches
<1>2. batch[n].watch # NoOne
  BY ThreadsAreDistinct DEF DiscoveryTypeOK, WatchTypeOK
<1>3. batch[n].kind # "dir" => batch[n].watch = batch[n].inst
  BY <1>1, <1>2 DEF EventIsOfWatch
<1>4. batch[n] = [watch |-> batch[n].watch, kind |-> batch[n].kind, inst |-> batch[n].inst,
                  quality |-> batch[n].quality]
  BY <1>1 DEF Events
<1> QED
  BY <1>1, <1>3, <1>4 DEF Deletion, Creation, FileEvent

(* A deletion of an offered instance was followed by a creation, which     *)
(* stays pending.                                                          *)
LEMMA HandleDeletionEventsOffer ==
    ASSUME DiscoveryTypeOK, SearchInvariant, WatchInvariant, OffersAreFollowed, HandleDeletionEvents
    PROVE  OffersAreFollowed'
<1>1. /\ UNCHANGED <<dirs, files, offered, offerPc, queue, arg, found, batch, requests, obsolete,
                     links, previous, watches>>
      /\ pc[Worker] = "deletions" /\ pc' = [pc EXCEPT ![Worker] = "callDeleted"]
      /\ \A q \in Qualities :
            known'[q] = known[q] \ {e.inst : e \in {d \in BatchOf("delete") : d.quality = q}}
  BY DEF HandleDeletionEvents, OnInstanceFlagFilesRemoved, WorkerUnchanged, kernelVars, diskVars
<1>2. pc'[Worker] = "callDeleted" /\ \A u \in Users : pc'[u] # "map"
  BY <1>1, NobodyCrawls, ThreadsAreDistinct DEF DiscoveryTypeOK, ThreadTypeOK
<1>3. impacted = {}
  BY <1>1 DEF WatchInvariant, EventsAreOfWatches
<1>4. /\ \A i, q : Exists(i, q)' <=> Exists(i, q)
      /\ \A e : Pending(e)' <=> Pending(e)
  BY <1>1 DEF Exists, Pending
<1> USE DEF OffersAreFollowed
<1>5. OneFileEach'
  BY <1>1, OneFileKept
<1>6. DeletionsAreFollowed'
  BY <1>1, <1>2, DeletionsKept
<1>7. OfferedAreKnown'
  <2>1. ASSUME NEW i \in watches \ {Any}, NEW q \in Qualities, Exists(i, q)
        PROVE  i \in known'[q] \/ Pending(Creation(i, q))
    <3>1. CASE i \notin known[q]
      BY <2>1, <3>1 DEF OfferedAreKnown
    <3>2. CASE i \in known[q] /\ i \notin known'[q]
      <4>1. PICK e \in BatchOf("delete") : e.quality = q /\ e.inst = i
        BY <1>1, <3>2
      <4>2. PICK n \in 1 .. Len(batch) :
                batch[n] = e /\ e.kind = "delete" /\ e.watch \in watches
        BY <4>1 DEF BatchOf
      <4>3. batch[n] = Deletion(i, q)
        BY <4>1, <4>2, BatchEvent
      <4>4. i \in Instances
        BY DEF DiscoveryTypeOK, WatchTypeOK, Watches
      <4> QED
        BY <1>1, <2>1, <4>3, <4>4 DEF DeletionsAreFollowed
    <3> QED
      BY <3>1, <3>2
  <2> QED
    BY <1>1, <1>4, <2>1 DEF OfferedAreKnown, Creation, FileEvent
<1>8. LinkedAreTold'
  <2>1. ASSUME NEW s \in Ongoing, NEW i \in links[s] \ {Any}, Exists(i, SearchQuality[s])
        PROVE  i \in previous[s] \/ Pending(Creation(i, SearchQuality[s]))
    BY <1>3, <2>1 DEF LinkedAreTold
  <2> QED
    BY <1>1, <1>4, <2>1 DEF LinkedAreTold, Ongoing, Creation, FileEvent
<1>9. DirectoriesAreLinked'
  BY <1>1, <1>2, <1>4 DEF DirectoriesAreLinked, DirectoryCreated
<1> QED
  BY <1>5, <1>6, <1>7, <1>8, <1>9

(* A search that is called is told of all it wants.                        *)
LEMMA CallHandlersOffer ==
    ASSUME DiscoveryTypeOK, SearchInvariant, WatchInvariant, OffersAreFollowed,
           NEW s \in Searches, CallHandlers(s)
    PROVE  OffersAreFollowed'
<1> DEFINE handles == GetKnownHandles(s, known)
<1>1. /\ UNCHANGED <<dirs, files, offered, offerPc, queue, pc, arg, found, batch, requests, obsolete,
                     links, watches, known>>
      /\ impacted' = impacted \ {s}
      /\ \A r \in Searches \ {s} : previous'[r] = previous[r]
      /\ s \in Ongoing => previous'[s] = handles
  BY DEF CallHandlers, WorkerUnchanged, kernelVars, diskVars, watchVars, Ongoing, DiscoveryTypeOK, SearchTypeOK
<1>2. /\ \A i, q : Exists(i, q)' <=> Exists(i, q)
      /\ \A e : Pending(e)' <=> Pending(e)
  BY <1>1 DEF Exists, Pending
<1> USE DEF OffersAreFollowed
<1>3. OneFileEach'
  BY <1>1, OneFileKept
<1>4. DeletionsAreFollowed'
  BY <1>1, DeletionsKept
<1>5. OfferedAreKnown'
  BY <1>1, <1>2 DEF OfferedAreKnown, Creation, FileEvent
<1>6. LinkedAreTold'
  <2>1. ASSUME NEW r \in Ongoing, NEW i \in links[r] \ {Any}, Exists(i, SearchQuality[r])
        PROVE  \/ i \in previous'[r] \/ r \in impacted'
               \/ Pending(Creation(i, SearchQuality[r]))
    <3>1. CASE r # s
      <4>1. r \in Searches \ {s}
        BY <3>1 DEF Ongoing, DiscoveryTypeOK, SearchTypeOK
      <4> QED
        BY <1>1, <2>1, <4>1 DEF LinkedAreTold
    <3>2. CASE r = s
      <4>1. i \in watches \ {Any} /\ SearchQuality[s] \in Qualities
        BY <2>1, <3>2, LinkedIsWatched, DiscoveryAssumption DEF Ongoing
      <4>2. i \in known[SearchQuality[s]] \/ Pending(Creation(i, SearchQuality[s]))
        BY <2>1, <3>2, <4>1 DEF OfferedAreKnown
      <4>3. Target[s] # Any => i = Target[s]
        BY <2>1, <3>2, LinkedIsWatched DEF Ongoing
      <4>4. i \in known[SearchQuality[s]] => i \in handles
        BY <4>3 DEF GetKnownHandles
      <4> QED
        BY <1>1, <2>1, <3>2, <4>2, <4>4
    <3> QED
      BY <3>1, <3>2
  <2> QED
    BY <1>1, <1>2, <2>1 DEF LinkedAreTold, Ongoing, Creation, FileEvent
<1>7. DirectoriesAreLinked'
  BY <1>1, <1>2 DEF DirectoriesAreLinked, DirectoryCreated
<1> QED
  BY <1>3, <1>4, <1>5, <1>6, <1>7

(* The steps between the handling of events keep offers followed.          *)
LEMMA HandledOffer ==
    ASSUME DiscoveryTypeOK, SearchInvariant, WatchInvariant, OffersAreFollowed,
           \/ DeletionsHandled \/ CreationsHandled \/ EventsHandled \/ OnInstanceDirectoryCreated
    PROVE  OffersAreFollowed'
<1>1. /\ UNCHANGED <<files, offered, offerPc, arg, batch, impacted, requests, obsolete, links, previous,
                     watches, known>>
      /\ \E place \in {"creations", "callCreated", "read", "map"} : pc' = [pc EXCEPT ![Worker] = place]
      /\ \E ws : found' \in {found, [found EXCEPT ![Worker] = ws]}
  BY DEF DeletionsHandled, CreationsHandled, EventsHandled, OnInstanceDirectoryCreated, WorkerUnchanged,
     diskVars, watchVars
<1>2. /\ pc'[Worker] \notin {"handle", "deletions"}
      /\ \A u \in Users : pc'[u] = pc[u] /\ found'[u] = found[u]
  BY <1>1, ThreadsAreDistinct DEF DiscoveryTypeOK, ThreadTypeOK
<1>3. /\ Extends(queue, queue') /\ \A e \in Joined(queue, queue') : e.kind = "dir"
      /\ dirs \subseteq dirs'
      /\ \A i \in dirs' \ dirs : Any \in inotify => DirectoryCreated(i) \in Joined(queue, queue')
  <2>1. CASE OnInstanceDirectoryCreated
    <3>1. Head(batch) \in Events /\ AddWatch(Head(batch).inst)
      BY <2>1 DEF OnInstanceDirectoryCreated, DiscoveryTypeOK, EventTypeOK
    <3>2. Head(batch).inst \in Watches
      BY <3>1 DEF Events, Watches
    <3> QED
      BY <3>1, <3>2, AddWatchEvents
  <2>2. CASE DeletionsHandled \/ CreationsHandled \/ EventsHandled
    <3>1. dirs' = dirs /\ queue' = queue
      BY <2>2 DEF DeletionsHandled, CreationsHandled, EventsHandled, WorkerUnchanged, diskVars, kernelVars
    <3> QED
      BY <3>1, QueueUnchanged
  <2> QED
    BY <2>1, <2>2
<1> QED
  BY <1>1, <1>2, <1>3, OfferKept DEF Ongoing

(* All events stay pending but the first of the batch.                     *)
LEMMA TailPending ==
    ASSUME DiscoveryTypeOK, batch # <<>>, batch' = Tail(batch), queue' = queue,
           NEW e, Pending(e), e # Head(batch)
    PROVE  Pending(e)'
<1>1. /\ Head(batch) = batch[1] /\ Len(batch) \in Nat
      /\ batch \in Seq(Events) /\ Len(batch') = Len(batch) - 1
      /\ \A n \in 1 .. Len(batch') : batch'[n] = batch[n + 1]
  BY BatchTail DEF DiscoveryTypeOK, EventTypeOK
<1>2. CASE \E n \in 1 .. Len(queue) : queue[n] = e
  BY <1>2 DEF Pending
<1>3. CASE \E n \in 1 .. Len(batch) : batch[n] = e
  <2>1. PICK n \in 1 .. Len(batch) : batch[n] = e
    BY <1>3
  <2>2. n # 1
    BY <1>1, <2>1
  <2>3. n - 1 \in 1 .. Len(batch') /\ batch'[n - 1] = batch[n]
    <3>1. n - 1 \in 1 .. Len(batch') /\ (n - 1) + 1 = n
      BY <1>1, <2>2
    <3> QED
      BY <1>1, <3>1
  <2> QED
    BY <2>1, <2>3 DEF Pending
<1> QED
  BY <1>2, <1>3 DEF Pending

(* A creation that is handled becomes known to all searches linked with    *)
(* it.                                                                     *)
LEMMA CreationsOffer ==
    ASSUME DiscoveryTypeOK, SearchInvariant, WatchInvariant, OffersAreFollowed,
           SkipEvent \/ OnInstanceFlagFileCreated
    PROVE  OffersAreFollowed'
<1> DEFINE e == Head(batch)
<1>1. /\ UNCHANGED <<dirs, files, offered, offerPc, queue, pc, arg, found, requests, obsolete,
                     links, previous, watches, keys>>
      /\ pc[Worker] = "creations" /\ batch # <<>> /\ batch' = Tail(batch)
      /\ impacted \subseteq impacted' /\ \A q \in Qualities : known[q] \subseteq known'[q]
  BY DEF SkipEvent, OnInstanceFlagFileCreated, WorkerUnchanged, diskVars, kernelVars, watchVars, Insert,
     DiscoveryTypeOK, WatchTypeOK
<1>2. e = batch[1] /\ 1 \in 1 .. Len(batch)
  BY <1>1, BatchTail DEF DiscoveryTypeOK, EventTypeOK
<1>3. \A d : Pending(d) /\ d # e => Pending(d)'
  BY <1>1, TailPending
<1>4. \A i \in watches, q \in Qualities :
          e = Creation(i, q) => i \in known'[q] /\ keys[i] \subseteq impacted'
  <2>1. CASE SkipEvent
    BY <2>1 DEF SkipEvent, Creation, FileEvent
  <2>2. CASE OnInstanceFlagFileCreated
    BY <2>2 DEF OnInstanceFlagFileCreated, Creation, FileEvent, Insert, DiscoveryTypeOK, WatchTypeOK
  <2> QED
    BY <2>1, <2>2
<1>5. \A i : Any \in watches => e # DirectoryCreated(i)
  BY DEF SkipEvent, OnInstanceFlagFileCreated, DirectoryCreated
<1>6. \A i, q : Exists(i, q)' <=> Exists(i, q)
  BY <1>1 DEF Exists
<1> HIDE DEF e
<1> USE DEF OffersAreFollowed
<1>7. OneFileEach'
  BY <1>1, OneFileKept
<1>8. DeletionsAreFollowed'
  BY <1>1, DeletionsKept
<1>9. OfferedAreKnown'
  <2>1. ASSUME NEW i \in watches \ {Any}, NEW q \in Qualities, Exists(i, q)
        PROVE  i \in known'[q] \/ Pending(Creation(i, q))'
    BY <1>1, <1>3, <1>4, <2>1 DEF OfferedAreKnown, Creation, FileEvent
  <2> QED
    BY <1>1, <1>6, <2>1 DEF OfferedAreKnown, Creation, FileEvent
<1>10. LinkedAreTold'
  <2>1. ASSUME NEW s \in Ongoing, NEW i \in links[s] \ {Any}, Exists(i, SearchQuality[s])
        PROVE  \/ i \in previous[s] \/ s \in impacted'
               \/ Pending(Creation(i, SearchQuality[s]))'
    <3>1. i \in watches /\ s \in keys[i] /\ SearchQuality[s] \in Qualities
      BY LinkedIsWatched, DiscoveryAssumption DEF Ongoing
    <3> QED
      BY <1>1, <1>3, <1>4, <2>1, <3>1 DEF LinkedAreTold, Creation, FileEvent
  <2> QED
    BY <1>1, <1>6, <2>1 DEF LinkedAreTold, Ongoing, Creation, FileEvent
<1>11. DirectoriesAreLinked'
  <2>1. ASSUME NEW s \in requests, NEW i \in dirs, Target[s] = Any
        PROVE  i \in links[s] \/ Pending(DirectoryCreated(i))'
    <3>1. Any \in watches
      BY <2>1, LinkedIsWatched
    <3> QED
      BY <1>3, <1>5, <2>1, <3>1 DEF DirectoriesAreLinked, DirectoryCreated
  <2>2. \A u \in Users : pc'[u] # "map"
    BY <1>1, NobodyCrawls
  <2> QED
    BY <1>1, <2>1, <2>2 DEF DirectoriesAreLinked, DirectoryCreated
<1> QED
  BY <1>7, <1>8, <1>9, <1>10, <1>11

(* The files of a new directory are looked up after it is watched.         *)
LEMMA LinkInstanceDirectoryOffer ==
    ASSUME DiscoveryTypeOK, SearchInvariant, WatchInvariant, OffersAreFollowed,
           LinkInstanceDirectory, ~ terminated'
    PROVE  OffersAreFollowed'
<1> DEFINE e == Head(batch)
           ws == found[Worker]
           ss == keys[Any]
<1>1. /\ UNCHANGED <<dirs, files, offered, offerPc, queue, arg, requests, obsolete, previous>>
      /\ pc[Worker] = "map" /\ pc' = [pc EXCEPT ![Worker] = "creations"] /\ batch' = Tail(batch)
      /\ impacted' = impacted \union ss
      /\ found' = [found EXCEPT ![Worker] = {}]
      /\ watches' = watches \union ws
      /\ links' = [s \in Searches |-> IF s \in ss THEN links[s] \union ws ELSE links[s]]
      /\ known' = [q \in Qualities |-> known[q] \union {i \in ws : Exists(i, q)}]
  BY DEF LinkInstanceDirectory, WorkerUnchanged, diskVars, kernelVars, StoreWatch, Link, Merge,
     MapInstancesToQualityTypes
<1>2. /\ pc'[Worker] = "creations"
      /\ \A u \in Users : pc'[u] # "map"
  BY <1>1, NobodyCrawls, ThreadsAreDistinct DEF DiscoveryTypeOK, ThreadTypeOK
<1>3. batch # <<>> /\ e.kind = "dir" /\ ws = {e.inst} /\ Any \in watches
  BY <1>1 DEF WatchInvariant, CrawlsAreWatched
<1>4. \A d : Pending(d) /\ d # e => Pending(d)'
  BY <1>1, <1>3, TailPending
<1>5. \A i, q : e # Creation(i, q)
  BY <1>3 DEF Creation, FileEvent
<1>6. \A i, q : Exists(i, q)' <=> Exists(i, q)
  BY <1>1 DEF Exists
<1> HIDE DEF e, ws, ss
<1> USE DEF OffersAreFollowed
<1>7. OneFileEach'
  BY <1>1, OneFileKept
<1>8. DeletionsAreFollowed'
  BY <1>1, <1>2, DeletionsKept
<1>9. OfferedAreKnown'
  <2>1. ASSUME NEW i \in watches' \ {Any}, NEW q \in Qualities, Exists(i, q)
        PROVE  i \in known'[q] \/ Pending(Creation(i, q))'
    BY <1>1, <1>4, <1>5, <2>1 DEF OfferedAreKnown, Creation, FileEvent
  <2> QED
    BY <1>6, <2>1 DEF OfferedAreKnown, Creation, FileEvent
<1>10. LinkedAreTold'
  <2>1. ASSUME NEW s \in Ongoing, NEW i \in links'[s] \ {Any}, Exists(i, SearchQuality[s])
        PROVE  \/ i \in previous[s] \/ s \in impacted'
               \/ Pending(Creation(i, SearchQuality[s]))'
    <3>1. s \in Searches
      BY DEF Ongoing, DiscoveryTypeOK, SearchTypeOK
    <3>2. s \in ss \/ i \in links[s]
      BY <1>1, <2>1, <3>1
    <3> QED
      BY <1>1, <1>4, <1>5, <2>1, <3>2 DEF LinkedAreTold, Creation, FileEvent
  <2> QED
    BY <1>1, <1>6, <2>1 DEF LinkedAreTold, Ongoing, Creation, FileEvent
<1>11. DirectoriesAreLinked'
  <2>1. ASSUME NEW s \in requests, NEW i \in dirs, Target[s] = Any
        PROVE  i \in links'[s] \/ Pending(DirectoryCreated(i))'
    <3>1. s \in Searches /\ s \in ss
      BY <2>1, LinkedIsWatched DEF ss
    <3>2. links'[s] = links[s] \union ws
      BY <1>1, <3>1
    <3>3. e = DirectoryCreated(i) => i \in ws
      BY <1>3 DEF DirectoryCreated
    <3> QED
      BY <1>4, <2>1, <3>2, <3>3 DEF DirectoriesAreLinked, DirectoryCreated
  <2> QED
    BY <1>1, <1>2, <2>1 DEF DirectoriesAreLinked, DirectoryCreated
<1> QED
  BY <1>7, <1>8, <1>9, <1>10, <1>11

(* At the start there is nothing to follow.                                *)
LEMMA OfferInitOK ==
    DiscoveryInit => OfferInvariant
<1> SUFFICES ASSUME DiscoveryInit PROVE OffersAreFollowed
  BY DEF OfferInvariant
<1>1. /\ files = {} /\ dirs = {} /\ watches = {} /\ requests = {}
      /\ \A i \in Instances : offered[i] = {} /\ offerPc[i] = "idle"
      /\ \A u \in Users : pc[u] = "idle"
  BY ThreadsAreDistinct DEF DiscoveryInit
<1>2. \A i, q : ~ Exists(i, q)
  BY <1>1 DEF Exists
<1>3. OneFileEach
  BY <1>1 DEF OneFileEach
<1>4. DeletionsAreFollowed /\ OfferedAreKnown
  BY <1>2 DEF DeletionsAreFollowed, OfferedAreKnown
<1>5. LinkedAreTold /\ DirectoriesAreLinked
  BY <1>1 DEF LinkedAreTold, DirectoriesAreLinked, Ongoing
<1> QED
  BY <1>3, <1>4, <1>5 DEF OffersAreFollowed

(* Every step keeps offers followed, unless an assertion has failed.       *)
LEMMA DiscoveryStepOffer ==
    ASSUME DiscoveryTypeOK, SearchInvariant, WatchInvariant, OfferInvariant,
           [DiscoveryNext]_discoveryVars
    PROVE  OfferInvariant'
<1> SUFFICES ASSUME ~ terminated' PROVE OffersAreFollowed'
  BY DEF OfferInvariant
<1>1. CASE UNCHANGED discoveryVars
  <2>1. UNCHANGED <<dirs, files, offered, offerPc, queue, pc, arg, found, batch, impacted, requests,
                    obsolete, links, previous, watches, known, terminated>>
    BY <1>1 DEF discoveryVars, diskVars, kernelVars, threadVars, searchVars, watchVars
  <2>2. OffersAreFollowed
    BY <2>1 DEF OfferInvariant
  <2>3. Extends(queue, queue') /\ Joined(queue, queue') = {}
    BY <2>1, QueueUnchanged
  <2> QED
    BY <2>1, <2>2, <2>3, OfferKept DEF Ongoing
<1>2. CASE ~ UNCHANGED discoveryVars
  <2>1. OffersAreFollowed
    <3>1. ASSUME NEW i \in Instances, ProviderStep(i)
          PROVE  terminated' = terminated
      BY <3>1, ProviderLeavesConsumer
    <3>2. ASSUME NEW u \in Users, UserStep(u)
          PROVE  ~ terminated
      BY <3>2 DEF UserStep, StartFindService, StopFindService, StartFromCache, CrawlAndWatch,
         GatherExistingInstanceDirectories, FinishCrawl, StartFindServiceFails,
         StartFindServiceReturns, StopFindServiceAtClient
    <3>3. ASSUME NEW t \in Threads, HandlerStep(t)
          PROVE  ~ terminated
      BY <3>3 DEF HandlerStep, StopFindServiceInHandler, HandlerReturns
    <3>4. ASSUME WorkerStep
          PROVE  ~ terminated
      BY <3>4 DEF WorkerStep, Read, ReadNothing, TransferObsoleteSearchRequests,
         HandleDeletionEvents, CallHandlers, DeletionsHandled, SkipEvent,
         OnInstanceFlagFileCreated, OnInstanceDirectoryCreated, LinkInstanceDirectory,
         CreationsHandled, EventsHandled
    <3>5. ~ terminated
      BY <1>2, <3>1, <3>2, <3>3, <3>4 DEF DiscoveryNext
    <3> QED
      BY <3>5 DEF OfferInvariant
  <2>2. ASSUME NEW i \in Instances, ProviderStep(i)
        PROVE  OffersAreFollowed'
    <3>1. OneFileEach'
      BY <2>1, <2>2, ProviderOneFile DEF OffersAreFollowed
    <3>2. DeletionsAreFollowed' /\ OfferedAreKnown' /\ LinkedAreTold' /\ DirectoriesAreLinked'
      BY <2>1, <2>2, ProviderStepOffer DEF OffersAreFollowed
    <3> QED
      BY <3>1, <3>2 DEF OffersAreFollowed
  <2>3. ASSUME NEW u \in Users, UserStep(u)
        PROVE  OffersAreFollowed'
    <3>1. ASSUME NEW s \in Searches, StartFindService(u, s) \/ StopFindService(u, s)
          PROVE  OffersAreFollowed'
      BY <2>1, <3>1, SearchStepOffer
    <3>2. CASE \/ StartFindServiceFails(u) \/ StartFindServiceReturns(u)
               \/ StopFindServiceAtClient(u)
      <4>1. arg[u] \in Searches
        BY <3>2 DEF StartFindServiceFails, StartFindServiceReturns, StopFindServiceAtClient,
           SearchInvariant, SearchesHaveCallbacks, DiscoveryTypeOK, SearchTypeOK
      <4> QED
        BY <2>1, <3>2, <4>1, SearchStepOffer
    <3>3. CASE StartFromCache(u)
      BY <2>1, <3>3, StartFromCacheOffer
    <3>4. CASE CrawlAndWatch(u) \/ GatherExistingInstanceDirectories(u)
      BY <2>1, <3>4, CrawlOffer
    <3>5. CASE FinishCrawl(u)
      BY <2>1, <3>5, FinishCrawlOffer
    <3> QED
      BY <2>3, <3>1, <3>2, <3>3, <3>4, <3>5 DEF UserStep
  <2>4. ASSUME NEW t \in Threads, HandlerStep(t)
        PROVE  OffersAreFollowed'
    BY <2>1, <2>4, HandlerOffer
  <2>5. CASE WorkerStep
    <3>1. ASSUME NEW s \in Searches, CallHandlers(s)
          PROVE  OffersAreFollowed'
      BY <2>1, <3>1, CallHandlersOffer
    <3>2. CASE Read \/ ReadNothing
      BY <2>1, <3>2, ReadOffer
    <3>3. CASE TransferObsoleteSearchRequests
      BY <2>1, <3>3, TransferObsoleteOffer
    <3>4. CASE HandleDeletionEvents
      BY <2>1, <3>4, HandleDeletionEventsOffer
    <3>5. CASE \/ DeletionsHandled \/ CreationsHandled \/ EventsHandled
               \/ OnInstanceDirectoryCreated
      BY <2>1, <3>5, HandledOffer
    <3>6. CASE SkipEvent \/ OnInstanceFlagFileCreated
      BY <2>1, <3>6, CreationsOffer
    <3>7. CASE LinkInstanceDirectory
      BY <2>1, <3>7, LinkInstanceDirectoryOffer
    <3> QED
      BY <2>5, <3>1, <3>2, <3>3, <3>4, <3>5, <3>6, <3>7 DEF WorkerStep
  <2> QED
    BY <1>2, <2>2, <2>3, <2>4, <2>5 DEF DiscoveryNext
<1> QED
  BY <1>1, <1>2

(* With no event left to handle, every search has been told of each offer. *)
LEMMA FollowedOffersAreTold ==
    ASSUME DiscoveryTypeOK, SearchInvariant, WatchInvariant, OfferInvariant
    PROVE  NoOfferMissed
<1> SUFFICES ASSUME Quiet, NEW s \in Ongoing, NEW i \in Instances, Wanted(s, i),
                    Exists(i, SearchQuality[s])
             PROVE  i \in previous[s]
  BY DEF NoOfferMissed
<1>1. queue = <<>> /\ batch = <<>> /\ impacted = {} /\ OffersAreFollowed
  BY DEF Quiet, WatchInvariant, EventsAreOfWatches, OfferInvariant
<1>2. \A e : ~ Pending(e)
  <2>1. Len(<<>>) = 0
    OBVIOUS
  <2> QED
    BY <1>1, <2>1 DEF Pending
<1>3. s \in requests /\ i # Any
  BY DiscoveryAssumption DEF Ongoing
<1>4. i \in links[s]
  <2>1. CASE Target[s] = i
    BY <1>3, <2>1 DEF WatchInvariant, WatchesMatchSearches
  <2>2. CASE Target[s] = Any
    <3>1. i \in dirs
      BY <1>1 DEF Exists, OffersAreFollowed, OneFileEach
    <3> QED
      BY <1>1, <1>2, <1>3, <2>2, <3>1 DEF OffersAreFollowed, DirectoriesAreLinked
  <2> QED
    BY <2>1, <2>2 DEF Wanted
<1> QED
  BY <1>1, <1>2, <1>3, <1>4 DEF OffersAreFollowed, LinkedAreTold

(* DiscoveryTypeOK, SearchInvariant, WatchInvariant and OfferInvariant are *)
(* inductive together: the client (service_discovery_client.cpp) keeps     *)
(* mutexes, callbacks, watches, the cache and pending events in agreement, *)
(* for any number of instances, searches, threads and events.              *)
THEOREM DiscoveryInvariants ==
    DiscoverySpec => [](DiscoveryTypeOK /\ SearchInvariant /\ WatchInvariant /\ OfferInvariant)
<1>1. DiscoveryInit => DiscoveryTypeOK /\ SearchInvariant /\ WatchInvariant /\ OfferInvariant
  BY DiscoveryInitOK, WatchInitOK, OfferInitOK
<1>2. /\ DiscoveryTypeOK /\ SearchInvariant /\ WatchInvariant /\ OfferInvariant
      /\ [DiscoveryNext]_discoveryVars
      => (DiscoveryTypeOK /\ SearchInvariant /\ WatchInvariant /\ OfferInvariant)'
  BY DiscoveryStepSearch, DiscoveryStepWatch, DiscoveryStepOffer DEF WatchInvariant
<1> QED
  BY <1>1, <1>2, PTL DEF DiscoverySpec

(* Once StopFindService has returned, the handler of the search is neither *)
(* running nor called again, unless it stopped its search itself:          *)
(* callbacks go under container_mutex_ and worker_mutex_, which every      *)
(* handler runs under.                                                     *)
THEOREM SearchesStaySilent == DiscoverySpec => []StoppedSearchesStaySilent
<1>1. SearchInvariant => StoppedSearchesStaySilent
  BY DEF SearchInvariant
<1> QED
  BY <1>1, DiscoveryInvariants, PTL

(* Watches and search requests refer to each other, a watch is kept        *)
(* exactly as long as a search needs it, and the cache has watched         *)
(* instances only (StoreWatch, EraseWatch, Link- and                       *)
(* UnlinkWatchWithSearchRequest).                                          *)
THEOREM WatchesAndSearchesMatch == DiscoverySpec => []WatchesMatchSearches
<1>1. WatchInvariant => WatchesMatchSearches
  BY DEF WatchInvariant
<1> QED
  BY <1>1, DiscoveryInvariants, PTL

(* However crawls, shared watches, offers, stops, crashes and reads in     *)
(* batches interleave, once all events are handled each search has been    *)
(* told of every instance that has a flag file of its quality.             *)
THEOREM NoOfferIsMissed == DiscoverySpec => []NoOfferMissed
  BY FollowedOffersAreTold, DiscoveryInvariants, PTL

(* The types of all variables of the client, its threads, the files and    *)
(* the events hold in every state.                                         *)
THEOREM DiscoveryTypes == DiscoverySpec => []DiscoveryTypeOK
BY DiscoveryInvariants, PTL
=============================================================================
