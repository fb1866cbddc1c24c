--------------------------- MODULE PartialRestart ---------------------------
(***************************************************************************)
(* The life of the shared memory of one service instance.  A skeleton      *)
(* claims the instance with an exclusive lock on the existence marker      *)
(* file; proxies announce that they use its shared memory with a shared    *)
(* lock on the usage marker file.  A skeleton that offers creates the      *)
(* memory anew when it gets the usage marker exclusively and reopens the   *)
(* old memory when proxies prevent that; when it stops offering it removes *)
(* the memory under the same condition.  Any process may crash between any *)
(* two steps: its locks go, the files and the memory stay.                 *)
(*                                                                         *)
(* The shared memory is three objects, made and removed one by one.  An    *)
(* object is the number of its creation, its generation.                   *)
(***************************************************************************)
EXTENDS Naturals, FiniteSets, Sequences

CONSTANTS
    Skeletons,        \* processes that may provide the instance
    Proxies,          \* processes that may use it
    ControlOf,        \* per proxy: the control object of its quality type
    MaxGenerations,   \* bound: generations of the memory mapped at a time
    MaxCrashes,       \* bound: process crashes
    OverlappingExit   \* may a skeleton be destroyed while another process
                      \* creates one for the same instance?

None == "none"
ControlQm == "control_qm"
ControlB == "control_asil_b"
Data == "data"
Objects == {ControlQm, ControlB, Data}

(* CreateSharedMemory, OpenExistingSharedMemory and RemoveSharedMemory go  *)
(* through the objects in this order.                                      *)
ObjectOrder == <<ControlQm, ControlB, Data>>

(* An event is registered in, and looked up in, the objects in this order. *)
RegisterOrder == <<Data, ControlQm, ControlB>>

ASSUME RestartAssumption ==
    /\ IsFiniteSet(Skeletons) /\ IsFiniteSet(Proxies)
    /\ None \notin Skeletons
    /\ ControlOf \in [Proxies -> {ControlQm, ControlB}]
    /\ MaxGenerations \in Nat /\ MaxCrashes \in Nat
    /\ OverlappingExit \in BOOLEAN

VARIABLES
    \* the file system
    linked,        \* inode the existence marker's path names, 0 for none
    locked,        \* per inode: the skeleton that holds its exclusive lock
    usageExists,   \* the usage marker file exists (it is never removed)
    usageX,        \* the skeleton that holds it exclusively, or None
    usageS,        \* the proxies that hold it shared
    \* the shared memory
    shm,           \* per object: its generation, 0 when there is none
    registered,    \* objects, by name and generation, that have the events
    skeletonPid,   \* skeleton_pid_: per generation of the data object, the
                   \* skeleton whose present process has this pid, or None
    \* the processes
    spc,           \* where a skeleton is
    step,          \* its position in ObjectOrder
    inode,         \* the existence marker file it opened
    mapped,        \* per skeleton and object: the generation it works on
    reopened,      \* was_old_shm_region_reopened_
    ppc,           \* where a proxy is
    control, data, \* per proxy: the generations it mapped
    crashes

fileVars == <<linked, locked>>
usageVars == <<usageExists, usageX, usageS>>
memVars == <<shm, registered, skeletonPid>>
skelVars == <<spc, step, inode, mapped, reopened>>
proxyVars == <<ppc, control, data>>
vars == <<fileVars, usageVars, memVars, skelVars, proxyVars, crashes>>

SkelStates == {"none", "opened", "created", "stale", "create", "open", "prepared",
               "registered", "offered", "unflagged", "remove", "unlocked"}
ProxyStates == {"none", "locked", "controlOpen", "bothOpen", "connected", "bound"}

(* A marker file is opened by each skeleton at most once.                  *)
Inodes == 1 .. Cardinality(Skeletons) + 1

Least(S) == CHOOSE x \in S : \A y \in S : x <= y

Generations == 0 .. MaxGenerations
NoMap == [o \in Objects |-> 0]

Init ==
    /\ linked = 0 /\ locked = [i \in Inodes |-> None]
    /\ usageExists = FALSE /\ usageX = None /\ usageS = {}
    /\ shm = NoMap /\ registered = {}
    /\ skeletonPid = [g \in Generations |-> None]
    /\ spc = [k \in Skeletons |-> "none"]
    /\ step = [k \in Skeletons |-> 1]
    /\ inode = [k \in Skeletons |-> 0]
    /\ mapped = [k \in Skeletons |-> NoMap]
    /\ reopened = [k \in Skeletons |-> FALSE]
    /\ ppc = [p \in Proxies |-> "none"]
    /\ control = [p \in Proxies |-> 0] /\ data = [p \in Proxies |-> 0]
    /\ crashes = 0

SkelGoes(k, from, to) == spc[k] = from /\ spc' = [spc EXCEPT ![k] = to]

(* The process of skeleton k ends, and its pid is nobody's: the kernel     *)
(* releases its locks.                                                     *)
Die(k) ==
    /\ spc' = [spc EXCEPT ![k] = "none"]
    /\ skeletonPid' = [g \in Generations |-> IF skeletonPid[g] = k THEN None ELSE skeletonPid[g]]
    /\ locked' = [i \in DOMAIN locked |-> IF locked[i] = k THEN None ELSE locked[i]]
    /\ usageX' = IF usageX = k THEN None ELSE usageX
    /\ step' = [step EXCEPT ![k] = 1]
    /\ inode' = [inode EXCEPT ![k] = 0]
    /\ mapped' = [mapped EXCEPT ![k] = NoMap]

ProxyGoes(p, from, to) == ppc[p] = from /\ ppc' = [ppc EXCEPT ![p] = to]

-----------------------------------------------------------------------------
(* Skeleton::Create and ~Skeleton.                                         *)

(* CreateOrOpenServiceInstanceExistenceMarkerFile.  Without OverlappingExit *)
(* the environment calls it, and the destructor, only while the other is   *)
(* not under way.                                                          *)
OpenExistenceMarker(k) ==
    /\ SkelGoes(k, "none", "opened")
    /\ OverlappingExit \/ \A j \in Skeletons : spc[j] # "unlocked"
    /\ IF linked # 0
       THEN inode' = [inode EXCEPT ![k] = linked] /\ UNCHANGED linked
       ELSE LET i == Least({j \in Inodes : \A l \in Skeletons : inode[l] # j})
            IN  linked' = i /\ inode' = [inode EXCEPT ![k] = i]
    /\ UNCHANGED <<locked, usageVars, memVars, step, mapped, reopened,
                   proxyVars, crashes>>

(* Mutant: creation goes on without the lock.                              *)
CreateWithoutLock(k) ==
    /\ SkelGoes(k, "opened", "created")
    /\ locked' = IF locked[inode[k]] = None THEN [locked EXCEPT ![inode[k]] = k] ELSE locked
    /\ UNCHANGED <<linked, inode, usageVars, memVars, step, mapped,
                   reopened, proxyVars, crashes>>

(* The skeleton is created if the exclusive lock is free, and owns the     *)
(* file then; otherwise Create returns nothing.                            *)
LockExistenceMarker(k) ==
    /\ spc[k] = "opened"
    /\ IF locked[inode[k]] = None
       THEN /\ locked' = [locked EXCEPT ![inode[k]] = k]
            /\ spc' = [spc EXCEPT ![k] = "created"]
            /\ UNCHANGED inode
       ELSE /\ spc' = [spc EXCEPT ![k] = "none"]
            /\ inode' = [inode EXCEPT ![k] = 0]
            /\ UNCHANGED locked
    /\ UNCHANGED <<linked, usageVars, memVars, step, mapped, reopened,
                   proxyVars, crashes>>

(* ~Skeleton destroys the lock first ...                                   *)
UnlockExistenceMarker(k) ==
    /\ SkelGoes(k, "created", "unlocked")
    /\ OverlappingExit \/ \A j \in Skeletons : spc[j] # "opened"
    /\ locked' = [locked EXCEPT ![inode[k]] = None]
    /\ UNCHANGED <<linked, inode, usageVars, memVars, step, mapped,
                   reopened, proxyVars, crashes>>

(* ... and the owned file, whose path is unlinked, afterwards.             *)
UnlinkExistenceMarker(k) ==
    /\ SkelGoes(k, "unlocked", "none")
    /\ linked' = 0
    /\ inode' = [inode EXCEPT ![k] = 0]
    /\ mapped' = [mapped EXCEPT ![k] = NoMap]
    /\ UNCHANGED <<locked, usageVars, memVars, step, reopened,
                   proxyVars, crashes>>

-----------------------------------------------------------------------------
(* OfferService: PrepareOffer of the skeleton and of its events, then the  *)
(* service discovery.                                                      *)

(* Mutant: the shared locks are not respected.                             *)
UsageAlwaysFree == usageX = None

UsageFree == usageX = None /\ usageS = {}

(* The usage marker file is created or opened and tried exclusively.       *)
PrepareOffer(k) ==
    /\ spc[k] = "created"
    /\ usageExists' = TRUE
    /\ reopened' = [reopened EXCEPT ![k] = ~UsageFree]
    /\ step' = [step EXCEPT ![k] = 1]
    /\ IF UsageFree
       THEN usageX' = k /\ spc' = [spc EXCEPT ![k] = "stale"]
       ELSE usageX' = usageX /\ spc' = [spc EXCEPT ![k] = "open"]
    /\ UNCHANGED <<fileVars, usageS, memVars, inode, mapped, proxyVars, crashes>>

(* An object's name is removed.  What a generation contains is forgotten   *)
(* with its last object.                                                   *)
Remove(o) ==
    LET gone == IF o = Data THEN {shm[Data]} ELSE {}
    IN  /\ shm' = [shm EXCEPT ![o] = 0]
        /\ registered' = registered \ (Objects \X gone)
        /\ skeletonPid' = [g \in Generations |-> IF g \in gone THEN None ELSE skeletonPid[g]]

(* RemoveStaleSharedMemoryArtefacts, object by object.                     *)
RemoveStale(k) ==
    /\ spc[k] = "stale"
    /\ Remove(ObjectOrder[step[k]])
    /\ IF step[k] < Len(ObjectOrder)
       THEN step' = [step EXCEPT ![k] = @ + 1] /\ UNCHANGED spc
       ELSE step' = [step EXCEPT ![k] = 1] /\ spc' = [spc EXCEPT ![k] = "create"]
    /\ UNCHANGED <<fileVars, usageVars, inode, mapped, reopened, proxyVars, crashes>>

(* Numbers of generations nobody can see any more.                         *)
UnusedGenerations ==
    {g \in Generations \ {0} :
        /\ \A o \in Objects : shm[o] # g /\ \A k \in Skeletons : mapped[k][o] # g
        /\ \A p \in Proxies : control[p] # g /\ data[p] # g}

(* CreateSharedMemory makes the objects; one number stands for the three   *)
(* of one call.  The data object is born with the skeleton's pid.  With    *)
(* the last object the exclusive usage lock is given up.                   *)
CreateSharedMemory(k) ==
    /\ spc[k] = "create"
    /\ step[k] > 1 \/ UnusedGenerations # {}
    /\ LET o == ObjectOrder[step[k]]
           g == IF step[k] = 1 THEN Least(UnusedGenerations) ELSE mapped[k][ControlQm]
       IN  /\ shm' = [shm EXCEPT ![o] = g]
           /\ mapped' = [mapped EXCEPT ![k] = IF step[k] = 1 THEN [NoMap EXCEPT ![o] = g]
                                               ELSE [@ EXCEPT ![o] = g]]
           /\ skeletonPid' = IF o = Data THEN [skeletonPid EXCEPT ![g] = k]
                             ELSE skeletonPid
    /\ IF step[k] < Len(ObjectOrder)
       THEN /\ step' = [step EXCEPT ![k] = @ + 1]
            /\ UNCHANGED <<spc, usageX>>
       ELSE /\ step' = [step EXCEPT ![k] = 1]
            /\ spc' = [spc EXCEPT ![k] = "prepared"]
            /\ usageX' = None
    /\ UNCHANGED <<fileVars, usageExists, usageS, registered, inode, reopened,
                   proxyVars, crashes>>

(* An object cannot be made: OfferService fails and leaves the others.     *)
CreateFails(k) ==
    /\ SkelGoes(k, "create", "created")
    /\ usageX' = None
    /\ step' = [step EXCEPT ![k] = 1]
    /\ UNCHANGED <<fileVars, usageExists, usageS, memVars, inode, mapped,
                   reopened, proxyVars, crashes>>

(* Our pid has changed after a restart.                                    *)
UpdatedPid(k, g) == [skeletonPid EXCEPT ![g] = k]

(* OpenExistingSharedMemory, object by object; a missing one fails the     *)
(* offer.  With the last one the slots in writing are cleaned up, which is *)
(* the subject of EventDataControl.                                        *)
OpenSharedMemory(k) ==
    /\ spc[k] = "open"
    /\ LET o == ObjectOrder[step[k]]
       IN  IF shm[o] = 0
           THEN /\ spc' = [spc EXCEPT ![k] = "created"]
                /\ step' = [step EXCEPT ![k] = 1]
                /\ UNCHANGED <<mapped, skeletonPid>>
           ELSE /\ mapped' = [mapped EXCEPT ![k][o] = shm[o]]
                /\ skeletonPid' = IF o = Data THEN UpdatedPid(k, shm[o]) ELSE skeletonPid
                /\ IF step[k] < Len(ObjectOrder)
                   THEN step' = [step EXCEPT ![k] = @ + 1] /\ UNCHANGED spc
                   ELSE /\ step' = [step EXCEPT ![k] = 1]
                        /\ spc' = [spc EXCEPT ![k] = "prepared"]
    /\ UNCHANGED <<fileVars, usageVars, shm, registered, inode,
                   reopened, proxyVars, crashes>>

(* The events register, object by object: in new memory they are           *)
(* constructed, in reopened memory they are looked up, and a missing one   *)
(* terminates the process.                                                 *)
RegisterEvents(k) ==
    /\ spc[k] = "prepared"
    /\ LET o == RegisterOrder[step[k]]
           event == <<o, mapped[k][o]>>
       IN  IF reopened[k] /\ event \notin registered
           THEN Die(k) /\ UNCHANGED registered
           ELSE /\ registered' = registered \union {event}
                /\ IF step[k] < Len(RegisterOrder)
                   THEN step' = [step EXCEPT ![k] = @ + 1] /\ UNCHANGED spc
                   ELSE /\ step' = [step EXCEPT ![k] = 1]
                        /\ spc' = [spc EXCEPT ![k] = "registered"]
                /\ UNCHANGED <<locked, usageX, inode, mapped, skeletonPid>>
    /\ UNCHANGED <<linked, usageExists, usageS, shm, reopened,
                   proxyVars, crashes>>

(* The service discovery publishes the offer.                              *)
Offer(k) ==
    /\ SkelGoes(k, "registered", "offered")
    /\ UNCHANGED <<fileVars, usageVars, memVars, step, inode, mapped, reopened,
                   proxyVars, crashes>>

-----------------------------------------------------------------------------
(* StopOfferService: the service discovery first, then PrepareStopOffer.   *)

StopOffer(k) ==
    /\ SkelGoes(k, "offered", "unflagged")
    /\ UNCHANGED <<fileVars, usageVars, memVars, step, inode, mapped, reopened,
                   proxyVars, crashes>>

(* The memory is removed if nobody uses it.                                *)
PrepareStopOffer(k) ==
    /\ spc[k] = "unflagged"
    /\ IF UsageFree
       THEN usageX' = k /\ spc' = [spc EXCEPT ![k] = "remove"]
       ELSE usageX' = usageX /\ spc' = [spc EXCEPT ![k] = "created"]
    /\ UNCHANGED <<fileVars, usageExists, usageS, memVars, step, inode, mapped,
                   reopened, proxyVars, crashes>>

RemoveSharedMemory(k) ==
    /\ spc[k] = "remove"
    /\ Remove(ObjectOrder[step[k]])
    /\ IF step[k] < Len(ObjectOrder)
       THEN step' = [step EXCEPT ![k] = @ + 1] /\ UNCHANGED <<spc, usageX, mapped>>
       ELSE /\ step' = [step EXCEPT ![k] = 1]
            /\ spc' = [spc EXCEPT ![k] = "created"]
            /\ mapped' = [mapped EXCEPT ![k] = NoMap]
            /\ usageX' = None
    /\ UNCHANGED <<fileVars, usageExists, usageS, inode, reopened, proxyVars, crashes>>

(* A skeleton's process dies: its locks go with it.                        *)
SkeletonCrash(k) ==
    /\ spc[k] # "none" /\ crashes < MaxCrashes
    /\ crashes' = crashes + 1
    /\ Die(k)
    /\ UNCHANGED <<linked, usageExists, usageS, shm, registered, reopened, proxyVars>>

-----------------------------------------------------------------------------
(* Proxy::Create, the binding of the proxy's events, and ~Proxy.  A user   *)
(* creates a proxy from a handle the service discovery has given it, now   *)
(* or at any time before: nothing is asked of the offer any more.          *)

(* The usage marker file is opened and locked shared, or creation fails.   *)
LockUsageMarker(p) ==
    /\ usageExists /\ usageX = None
    /\ ProxyGoes(p, "none", "locked")
    /\ usageS' = usageS \union {p}
    /\ UNCHANGED <<fileVars, usageExists, usageX, memVars, skelVars, control,
                   data, crashes>>

(* The control object of the proxy's quality, then the data object; a      *)
(* missing one fails the creation, at its end.                             *)
OpenControl(p) ==
    /\ ProxyGoes(p, "locked", "controlOpen")
    /\ control' = [control EXCEPT ![p] = shm[ControlOf[p]]]
    /\ UNCHANGED <<fileVars, usageVars, memVars, skelVars, data, crashes>>

OpenData(p) ==
    /\ ProxyGoes(p, "controlOpen", "bothOpen")
    /\ data' = [data EXCEPT ![p] = shm[Data]]
    /\ UNCHANGED <<fileVars, usageVars, memVars, skelVars, control, crashes>>

(* ExecutePartialRestartLogic succeeds and the proxy holds on to the lock. *)
Connect(p) ==
    /\ control[p] # 0 /\ data[p] # 0
    /\ ProxyGoes(p, "bothOpen", "connected")
    /\ UNCHANGED <<fileVars, usageVars, memVars, skelVars, control, data, crashes>>

(* The proxy's events look themselves up in both objects.                  *)
FindEvents(p) ==
    /\ <<ControlOf[p], control[p]>> \in registered /\ <<Data, data[p]>> \in registered
    /\ ProxyGoes(p, "connected", "bound")
    /\ UNCHANGED <<fileVars, usageVars, memVars, skelVars, control, data, crashes>>

(* The creation fails, the process terminates because an event is missing, *)
(* the proxy is destroyed, or its process dies: each gives up the lock and *)
(* the memory.                                                             *)
Disconnect(p) ==
    /\ \/ ppc[p] \in {"bothOpen", "connected", "bound"} /\ UNCHANGED crashes
       \/ /\ ppc[p] \in {"locked", "controlOpen"}
          /\ crashes < MaxCrashes /\ crashes' = crashes + 1
    /\ ppc' = [ppc EXCEPT ![p] = "none"]
    /\ usageS' = usageS \ {p}
    /\ control' = [control EXCEPT ![p] = 0]
    /\ data' = [data EXCEPT ![p] = 0]
    /\ UNCHANGED <<fileVars, usageExists, usageX, memVars, skelVars>>

-----------------------------------------------------------------------------
SkeletonStep(k) ==
    \/ OpenExistenceMarker(k) \/ LockExistenceMarker(k)
    \/ UnlockExistenceMarker(k) \/ UnlinkExistenceMarker(k)
    \/ PrepareOffer(k) \/ RemoveStale(k)
    \/ CreateSharedMemory(k) \/ CreateFails(k) \/ OpenSharedMemory(k)
    \/ RegisterEvents(k) \/ Offer(k)
    \/ StopOffer(k) \/ PrepareStopOffer(k) \/ RemoveSharedMemory(k)
    \/ SkeletonCrash(k)

ProxyStep(p) ==
    \/ LockUsageMarker(p) \/ OpenControl(p) \/ OpenData(p) \/ Connect(p)
    \/ FindEvents(p) \/ Disconnect(p)

Next ==
    \/ \E k \in Skeletons : SkeletonStep(k)
    \/ \E p \in Proxies : ProxyStep(p)

Spec == Init /\ [][Next]_vars

-----------------------------------------------------------------------------
(* Every variable stays in its type.                                       *)
TypeOK ==
    /\ linked \in Inodes \union {0}
    /\ locked \in [Inodes -> Skeletons \union {None}]
    /\ usageExists \in BOOLEAN
    /\ usageX \in Skeletons \union {None} /\ usageS \subseteq Proxies
    /\ shm \in [Objects -> Generations]
    /\ registered \subseteq Objects \X (Generations \ {0})
    /\ skeletonPid \in [Generations -> Skeletons \union {None}]
    /\ spc \in [Skeletons -> SkelStates] /\ ppc \in [Proxies -> ProxyStates]
    /\ step \in [Skeletons -> 1 .. 3]
    /\ inode \in [Skeletons -> Inodes \union {0}]
    /\ mapped \in [Skeletons -> [Objects -> Generations]]
    /\ reopened \in [Skeletons -> BOOLEAN]
    /\ control \in [Proxies -> Generations] /\ data \in [Proxies -> Generations]
    /\ crashes \in 0 .. MaxCrashes

Providing(k) == spc[k] \notin {"none", "opened", "unlocked"}
HasMemory(k) == spc[k] \in {"prepared", "registered", "offered"}

Connected(p) == ppc[p] \in {"connected", "bound"}

(* The existence marker keeps a service instance to one skeleton: while    *)
(* one exists, from its creation to its destruction, no other is created.  *)
OneSkeletonPerInstance ==
    \A j, k \in Skeletons : Providing(j) /\ Providing(k) => j = k

(* A skeleton that has its memory and the proxies that use the instance    *)
(* work on the same memory: however offers, stops, crashes and proxies     *)
(* interleave, and however old a proxy's handle is, no proxy is left       *)
(* behind on memory that was replaced.                                     *)
ProviderAndUsersShareMemory ==
    \A k \in Skeletons, p \in Proxies :
        HasMemory(k) /\ Connected(p) =>
            /\ control[p] = mapped[k][ControlOf[p]]
            /\ data[p] = mapped[k][Data]

(* The objects a process maps were made together: nobody sees the control  *)
(* object of one offer with the data object of another, although an offer  *)
(* may die with some of its objects made or removed.                       *)
MappedTogether ==
    /\ \A k \in Skeletons : HasMemory(k) =>
          \A o \in Objects : mapped[k][o] = mapped[k][Data] /\ shm[o] = mapped[k][o]
    /\ \A p \in Proxies : Connected(p) => control[p] = data[p]

(* The memory of a proxy in use is neither removed nor replaced.           *)
UsersKeepTheirMemory ==
    \A p \in Proxies : Connected(p) =>
        control[p] = shm[ControlOf[p]] /\ data[p] = shm[Data]

(* A skeleton that reopens the memory an ASIL-B proxy found its events in  *)
(* finds them all, too; it would terminate its process otherwise.  Whether *)
(* a QM proxy found its own says nothing of the ASIL-B control object.     *)
ReusedEventsAreComplete ==
    \A k \in Skeletons, p \in Proxies :
        HasMemory(k) /\ ppc[p] = "bound" /\ ControlOf[p] = ControlB =>
            \A o \in Objects : <<o, mapped[k][o]>> \in registered

(* A proxy on the memory of a complete offer finds its events; it would    *)
(* terminate its process otherwise.                                        *)
UsersFindTheirEvents ==
    \A k \in Skeletons, p \in Proxies :
        spc[k] = "offered" /\ Connected(p) =>
            <<ControlOf[p], control[p]>> \in registered /\ <<Data, data[p]>> \in registered

(* The pid a proxy reads from the data section, to which it registers its  *)
(* event notifications, is the pid of the process that offers.             *)
OfferedPidIsCurrent ==
    \A k \in Skeletons : spc[k] = "offered" => skeletonPid[mapped[k][Data]] = k

(* The memory in use is whole: its objects belong together and stay, what  *)
(* is in use on both sides has all its events, and a complete offer has    *)
(* them for its proxies and carries the provider's pid.                    *)
MemoryIsWhole ==
    /\ TypeOK /\ MappedTogether /\ UsersKeepTheirMemory
    /\ ReusedEventsAreComplete /\ UsersFindTheirEvents /\ OfferedPidIsCurrent

(* What the comment in Skeleton::PrepareOffer says: "Since the previous    *)
(* shared memory region is being currently used by proxies, it must have   *)
(* been properly created and OfferService finished".  It does not hold: a  *)
(* proxy locks the usage marker before it looks at the memory, and what it *)
(* locks may be what a crashed provider left half made or half removed.    *)
ReusedMemoryIsComplete ==
    \A k \in Skeletons : spc[k] = "open" =>
        \A o \in Objects : shm[o] # 0 /\ <<o, shm[o]>> \in registered
-----------------------------------------------------------------------------
(* The inductive invariant behind the properties, for skeletons whose      *)
(* destruction does not overlap another's creation.                        *)

(* Whoever opened the existence marker opened the file its path names, and *)
(* a skeleton that exists holds its lock; one that is about to unlink the  *)
(* path is alone.                                                          *)
MarkerHeld ==
    /\ \A k \in Skeletons :
          IF spc[k] = "none" THEN inode[k] = 0 ELSE inode[k] = linked /\ linked # 0
    /\ \A k \in Skeletons : Providing(k) => locked[inode[k]] = k
    /\ \A j, k \in Skeletons : spc[k] = "unlocked" /\ j # k => spc[j] = "none"

(* The usage marker is held exclusively by a skeleton that makes or        *)
(* removes memory, or shared by every proxy from its creation on.          *)
UsageHeld ==
    /\ \A k \in Skeletons : usageX = k <=> spc[k] \in {"stale", "create", "remove"}
    /\ usageS = {p \in Proxies : ppc[p] # "none"}
    /\ usageX = None \/ usageS = {}

(* Objects that are there at the same time were made together, however     *)
(* many are missing.                                                       *)
OneGeneration ==
    \A o, q \in Objects : shm[o] # 0 /\ shm[q] # 0 => shm[o] = shm[q]

(* Events are in objects whose data object is still there, and an event    *)
(* that is in an object is in the objects before it.                       *)
RegisteredInOrder ==
    \A g \in Generations :
        /\ \A o \in Objects : <<o, g>> \in registered => shm[Data] = g
        /\ <<ControlB, g>> \in registered => <<ControlQm, g>> \in registered
        /\ <<ControlQm, g>> \in registered => <<Data, g>> \in registered

(* What a proxy opened is there as long as it holds the usage marker.      *)
UsersOnMemory ==
    \A p \in Proxies :
        /\ ppc[p] \in {"controlOpen", "bothOpen", "connected", "bound"} =>
              control[p] = shm[ControlOf[p]]
        /\ ppc[p] \in {"bothOpen", "connected", "bound"} => data[p] = shm[Data]
        /\ Connected(p) => control[p] # 0 /\ data[p] # 0
        /\ ppc[p] = "bound" =>
              <<ControlOf[p], control[p]>> \in registered /\ <<Data, data[p]>> \in registered

(* What a skeleton has removed is gone, what it has mapped so far is what  *)
(* is there now, and what it has registered is.                            *)
ProviderOn(k) ==
    /\ spc[k] = "stale" => \A i \in 1 .. step[k] - 1 : shm[ObjectOrder[i]] = 0
    /\ spc[k] = "create" => \A i \in 1 .. 3 :
          LET o == ObjectOrder[i]
          IN  IF i < step[k] THEN shm[o] # 0 /\ shm[o] = mapped[k][o]
                             ELSE shm[o] = 0
    /\ spc[k] = "open" => \A i \in 1 .. step[k] - 1 :
          LET o == ObjectOrder[i] IN shm[o] # 0 /\ shm[o] = mapped[k][o]
    /\ HasMemory(k) => \A o \in Objects :
          mapped[k][o] = shm[o] /\ shm[o] = shm[Data] /\ shm[o] # 0
    /\ spc[k] = "prepared" => \A i \in 1 .. step[k] - 1 :
          <<RegisterOrder[i], shm[Data]>> \in registered
    /\ spc[k] \in {"registered", "offered"} => \A o \in Objects :
          <<o, shm[Data]>> \in registered

(* The data section a skeleton mapped carries its pid.                     *)
PidOf(k) == HasMemory(k) => skeletonPid[mapped[k][Data]] = k

ProviderOnMemory == \A k \in Skeletons : ProviderOn(k) /\ PidOf(k)

RestartInvariant ==
    /\ MarkerHeld /\ UsageHeld /\ OneGeneration /\ RegisteredInOrder
    /\ UsersOnMemory /\ ProviderOnMemory
=============================================================================
