-------------------------- MODULE ServiceDiscovery ---------------------------
(***************************************************************************)
(* Discovery of the instances of one service: providers announce an        *)
(* instance with flag files in its directory, one file per quality; the    *)
(* discovery client of one consumer process watches the directories with   *)
(* inotify and calls the handlers of the searches that its user started.   *)
(*                                                                         *)
(* Threads of the consumer: the worker, which reads events, and the user's *)
(* threads.  They meet at two recursive mutexes, container_mutex_ of       *)
(* ServiceDiscovery and worker_mutex_ of ServiceDiscoveryClient.           *)
(***************************************************************************)
EXTENDS Naturals, Sequences, FiniteSets

CONSTANTS
    Instances,        \* instance ids of the service
    Searches,         \* find-service handles, each used for one search
    Target,           \* what a search looks for: an instance, or Any
    SearchQuality,    \* the quality of the instance identifier of a search
    OfferedAs,        \* the quality an instance is offered with
    Users,            \* the user's threads
    Worker,           \* the worker thread
    Any,              \* no instance id; also the watch of the service directory
    NoOne,
    BatchSize,        \* InotifyInstance::max_events
    HandlerStops,     \* whether handlers may stop their own search
    Faults,           \* bound: failures of the file system
    MaxOffers         \* bound: offers of each instance

Qualities == {"b", "qm"}
Watches == Instances \union {Any}
Threads == Users \union {Worker}

ASSUME DiscoveryAssumption ==
    /\ IsFiniteSet(Instances) /\ IsFiniteSet(Searches)
    /\ Any \notin Instances /\ Worker \notin Users
    /\ NoOne \notin Threads \union Searches \union Watches
    /\ Target \in [Searches -> Watches]
    /\ SearchQuality \in [Searches -> Qualities]
    /\ OfferedAs \in [Instances -> Qualities]
    /\ BatchSize \in Nat \ {0} /\ HandlerStops \in BOOLEAN
    /\ Faults \in Nat /\ MaxOffers \in Nat

VARIABLES
    dirs,         \* directories of instances
    files,        \* flag files: instance, quality and disambiguator
    inotify,      \* directories that the kernel watches for the client
    queue,        \* events the client has not read
    offerPc,      \* provider of an instance: where in OfferService it is
    offered,      \* flag_files_ of the provider: files it will remove
    offers,       \* offer_disambiguator_ of the provider
    faults,       \* failures so far
    pc,           \* where a thread of the consumer is
    arg,          \* the search a user's thread is about
    found,        \* watch_descriptors of a crawl under way
    handler,      \* the search whose handler a thread is inside of
    stopping,     \* whether that handler will stop its search: no, yes, done
    workerMutex, containerMutex,
    batch,        \* events the worker has read and not handled
    impacted,     \* impacted_searches
    started,      \* handles given out: next_free_uid_
    callbacks,    \* domain of user_callbacks_
    requests,     \* domain of search_requests_
    obsolete,     \* obsolete_search_requests_
    links,        \* watches of a search request
    previous,     \* previous_handles of a search request
    watches,      \* domain of watches_
    keys,         \* searches of a watch
    anyEntry,     \* watched_identifiers_[any]: absent, without or with a watch
    children,     \* its child_watches
    known,        \* known_instances_
    terminated    \* an assertion has failed

diskVars == <<dirs, files, offerPc, offered, offers, faults>>
kernelVars == <<inotify, queue>>
threadVars == <<pc, arg, found, workerMutex, containerMutex, batch, impacted>>
handlerVars == <<handler, stopping>>
searchVars == <<started, callbacks, requests, obsolete, links, previous>>
watchVars == <<watches, keys, anyEntry, children, known>>
discoveryVars == <<diskVars, kernelVars, threadVars, handlerVars, searchVars, watchVars, terminated>>

DiscoveryInit ==
    /\ dirs = {} /\ files = {} /\ inotify = {} /\ queue = <<>>
    /\ offerPc = [i \in Instances |-> "idle"]
    /\ offered = [i \in Instances |-> {}]
    /\ offers = [i \in Instances |-> 0] /\ faults = 0
    /\ pc = [t \in Threads |-> IF t = Worker THEN "read" ELSE "idle"]
    /\ arg = [t \in Threads |-> NoOne]
    /\ found = [t \in Threads |-> {}]
    /\ handler = [t \in Threads |-> NoOne]
    /\ stopping = [t \in Threads |-> "no"]
    /\ workerMutex = NoOne /\ containerMutex = NoOne
    /\ batch = <<>> /\ impacted = {}
    /\ started = {} /\ callbacks = {} /\ requests = {} /\ obsolete = {}
    /\ links = [s \in Searches |-> {}]
    /\ previous = [s \in Searches |-> {}]
    /\ watches = {} /\ keys = [w \in Watches |-> {}]
    /\ anyEntry = "absent" /\ children = {}
    /\ known = [q \in Qualities |-> {}]
    /\ terminated = FALSE

-----------------------------------------------------------------------------
(* The file system and inotify.  An event is queued for a directory that   *)
(* is watched when it happens.                                             *)

DirectoryCreated(i) == [watch |-> Any, kind |-> "dir", inst |-> i, quality |-> "none"]
FileEvent(kind, i, q) == [watch |-> i, kind |-> kind, inst |-> i, quality |-> q]

Queued(q, e) == IF e.watch \in inotify THEN Append(q, e) ELSE q

FlagFiles == [inst : Instances, quality : Qualities, offer : 1 .. MaxOffers]
Exists(i, q) == \E f \in files : f.inst = i /\ f.quality = q

(* Quality of the file that OfferService makes at this step.               *)
Making(i) == IF offerPc[i] \in {"clearB", "createB"} THEN "b" ELSE "qm"
Made(i) == [inst |-> i, quality |-> Making(i), offer |-> offers[i]]

(* The events of removing flag files of one instance, QM before ASIL-B.    *)
Deleted(events, fs, i, q) ==
    IF \E f \in fs : f.quality = q THEN Queued(events, FileEvent("delete", i, q)) ELSE events
Deletions(events, fs, i) == Deleted(Deleted(events, fs, i, "qm"), fs, i, "b")

-----------------------------------------------------------------------------
(* The provider of an instance.                                            *)

ProviderUnchanged ==
    UNCHANGED <<inotify, threadVars, handlerVars, searchVars, watchVars, terminated>>

(* OfferService until the first FlagFile::Make.                            *)
OfferService(i) ==
    /\ offerPc[i] = "idle" /\ offered[i] = {} /\ offers[i] < MaxOffers
    /\ offers' = [offers EXCEPT ![i] = @ + 1]
    /\ offerPc' = [offerPc EXCEPT ![i] = IF OfferedAs[i] = "b" THEN "clearB" ELSE "clearQm"]
    /\ UNCHANGED <<dirs, files, offered, faults, queue>>
    /\ ProviderUnchanged

(* What RemoveMatchingFlagFiles removes.                                   *)
MatchingFlagFiles(i) == {f \in files : f.inst = i /\ f.quality = Making(i)}

(* RemoveMatchingFlagFiles and CreateSearchPath: what a crashed provider   *)
(* left is removed, the directory is made.                                 *)
CreateSearchPath(i) ==
    /\ offerPc[i] \in {"clearB", "clearQm"}
    /\ files' = files \ MatchingFlagFiles(i)
    /\ LET events == Deletions(queue, MatchingFlagFiles(i), i)
       IN  queue' = IF i \in dirs THEN events ELSE Queued(events, DirectoryCreated(i))
    /\ dirs' = dirs \union {i}
    /\ offerPc' = [offerPc EXCEPT ![i] = IF @ = "clearB" THEN "createB" ELSE "createQm"]
    /\ UNCHANGED <<offered, offers, faults>>
    /\ ProviderUnchanged

(* The flag file is opened and its permissions are set.                    *)
MakeFlagFile(i) ==
    /\ offerPc[i] \in {"createB", "createQm"}
    /\ files' = files \union {Made(i)}
    /\ queue' = Queued(queue, FileEvent("create", i, Making(i)))
    /\ offered' = [offered EXCEPT ![i] = @ \union {Made(i)}]
    /\ offerPc' = [offerPc EXCEPT ![i] = IF @ = "createB" THEN "clearQm" ELSE "idle"]
    /\ UNCHANGED <<dirs, offers, faults>>
    /\ ProviderUnchanged

(* The file cannot be opened, or it is opened and keeps wrong permissions: *)
(* it stays then.  The FlagFile of the other quality is destroyed.         *)
MakeFlagFileFails(i) ==
    /\ offerPc[i] \in {"createB", "createQm"} /\ faults < Faults
    /\ \E left \in {{}, {Made(i)}} :
          /\ files' = (files \ offered[i]) \union left
          /\ LET events == IF left = {} THEN queue
                           ELSE Queued(queue, FileEvent("create", i, Making(i)))
             IN  queue' = Deletions(events, offered[i], i)
    /\ offered' = [offered EXCEPT ![i] = {}]
    /\ offerPc' = [offerPc EXCEPT ![i] = "idle"]
    /\ faults' = faults + 1
    /\ UNCHANGED <<dirs, offers>>
    /\ ProviderUnchanged

(* StopOfferService for both qualities or for QM only: FlagFiles are       *)
(* destroyed.                                                              *)
StopOfferService(i) ==
    /\ offerPc[i] = "idle" /\ offered[i] # {}
    /\ \E removed \in {offered[i], {f \in offered[i] : f.quality = "qm"}} :
          /\ removed # {}
          /\ files' = files \ removed
          /\ queue' = Deletions(queue, removed, i)
          /\ offered' = [offered EXCEPT ![i] = @ \ removed]
    /\ UNCHANGED <<dirs, offerPc, offers, faults>>
    /\ ProviderUnchanged

(* The provider dies: its flag files stay.                                 *)
ProviderCrash(i) ==
    /\ offerPc[i] # "idle" \/ offered[i] # {}
    /\ faults < Faults
    /\ faults' = faults + 1
    /\ offerPc' = [offerPc EXCEPT ![i] = "idle"]
    /\ offered' = [offered EXCEPT ![i] = {}]
    /\ UNCHANGED <<dirs, files, offers, queue>>
    /\ ProviderUnchanged

-----------------------------------------------------------------------------
(* The bookkeeping of watches and searches.                                *)

(* KnownInstancesContainer::GetKnownHandles                                *)
GetKnownHandles(s, instances) ==
    IF Target[s] = Any THEN instances[SearchQuality[s]]
    ELSE instances[SearchQuality[s]] \intersect {Target[s]}

(* Mutant: the crawl does not look at the files.                           *)
MapNoInstances(ids) == [q \in Qualities |-> {}]

(* FlagFileCrawler: the instances that have a flag file, by quality.       *)
MapInstancesToQualityTypes(ids) ==
    [q \in Qualities |-> {i \in ids : Exists(i, q)}]

(* KnownInstancesContainer: Insert, Merge, and Remove for both qualities.  *)
Insert(i, q) == [known EXCEPT ![q] = @ \union {i}]
Merge(instances) == [q \in Qualities |-> known[q] \union instances[q]]

(* Mutant: an instance that is no longer watched stays known.              *)
ForgetNothing(ids) == known
Forget(ids) == [q \in Qualities |-> known[q] \ ids]

(* StoreWatch for a set of watches, in any order (they are in an unordered *)
(* map).  The first one makes the entry for any instance: with a watch if  *)
(* it is that entry's own, else without, and that stays so.                *)
StoreWatch(ws) ==
    /\ watches' = watches \union ws
    /\ children' = children \union (ws \ {Any})
    /\ anyEntry' \in IF anyEntry # "absent" \/ ws = {} THEN {anyEntry}
                     ELSE {IF w = Any THEN "watch" ELSE "none" : w \in ws}

(* EraseWatch for a set of watches.                                        *)
EraseWatch(ws) ==
    /\ watches' = watches \ ws
    /\ children' = children \ ws
    /\ anyEntry' = IF Any \in ws THEN "none" ELSE anyEntry

(* LinkWatchWithSearchRequest for a set of watches and a set of searches:  *)
(* a pair that is linked already fails the assertion.                      *)
Linkable(ws, ss) == \A s \in ss : ws \intersect links[s] = {}
Link(ws, ss) ==
    /\ keys' = [w \in Watches |-> IF w \in ws THEN keys[w] \union ss ELSE keys[w]]
    /\ links' = [s \in Searches |-> IF s \in ss THEN links[s] \union ws ELSE links[s]]

(* UnlinkWatchWithSearchRequest for all watches of a set of searches.      *)
Unlink(ss) ==
    /\ keys' = [w \in Watches |-> keys[w] \ ss]
    /\ links' = [s \in Searches |-> IF s \in ss THEN {} ELSE links[s]]

(* The watches that a new search shares with one of the same target that   *)
(* is under way.                                                           *)
Cached(s) == IF Target[s] = Any THEN anyEntry = "watch" ELSE Target[s] \in watches
CachedWatches(s) == IF Target[s] = Any THEN {Any} \union children ELSE {Target[s]}

(* CreateSearchPath and AddWatch of AddWatchToInotifyInstance.             *)
AddWatch(w) ==
    /\ dirs' = dirs \union ({w} \ {Any})
    /\ inotify' = inotify \union {w}
    /\ queue' = IF w = Any \/ w \in dirs THEN queue ELSE Queued(queue, DirectoryCreated(w))

-----------------------------------------------------------------------------
(* StartFindService of a user's thread.                                    *)

StartFindService(u, s) ==
    /\ ~terminated
    /\ pc[u] = "idle" /\ containerMutex = NoOne
    /\ s \notin started
    /\ started' = started \union {s}
    /\ containerMutex' = u
    /\ callbacks' = callbacks \union {s}
    /\ pc' = [pc EXCEPT ![u] = "start"]
    /\ arg' = [arg EXCEPT ![u] = s]
    /\ UNCHANGED <<diskVars, kernelVars, found, workerMutex, batch, impacted, handlerVars,
                   requests, obsolete, links, previous, watchVars, terminated>>

(* A thread t calls the handler of search s; it may stop its search.       *)
EnterHandler(t, s) ==
    /\ handler' = [handler EXCEPT ![t] = s]
    /\ \E stop \in IF HandlerStops THEN {"no", "yes"} ELSE {"no"} :
          stopping' = [stopping EXCEPT ![t] = stop]

(* TransferNewSearchRequest, then the handler when something is known.     *)
TransferNewSearchRequest(u, s, ws, instances, handles) ==
    /\ requests' = requests \union {s}
    /\ previous' = [previous EXCEPT ![s] = handles]
    /\ StoreWatch(ws)
    /\ Link(ws, {s})
    /\ known' = Merge(instances)
    /\ pc' = [pc EXCEPT ![u] = "called"]
    /\ IF handles = {} THEN UNCHANGED handlerVars ELSE EnterHandler(u, s)

Nothing == [q \in Qualities |-> {}]

(* The search is under way already: its watches and the cache are reused.  *)
StartFromCache(u) ==
    LET s == arg[u] IN
    /\ ~terminated
    /\ pc[u] = "start" /\ workerMutex = NoOne
    /\ Cached(s)
    /\ workerMutex' = u
    /\ TransferNewSearchRequest(u, s, CachedWatches(s), Nothing, GetKnownHandles(s, known))
    /\ UNCHANGED <<diskVars, kernelVars, arg, found, containerMutex, batch, impacted,
                   started, callbacks, obsolete, terminated>>

(* CrawlAndWatch: the watch of the directory searched comes first.         *)
CrawlAndWatch(u) ==
    LET s == arg[u] IN
    /\ ~terminated
    /\ pc[u] = "start" /\ workerMutex = NoOne
    /\ ~Cached(s)
    /\ workerMutex' = u
    /\ AddWatch(Target[s])
    /\ found' = [found EXCEPT ![u] = {Target[s]}]
    /\ pc' = [pc EXCEPT ![u] = IF Target[s] = Any THEN "gather" ELSE "map"]
    /\ UNCHANGED <<files, offerPc, offered, offers, faults, arg, containerMutex, batch,
                   impacted, handlerVars, searchVars, watchVars, terminated>>

(* GatherExistingInstanceDirectories, each directory is watched.           *)
GatherExistingInstanceDirectories(u) ==
    /\ ~terminated
    /\ pc[u] = "gather"
    /\ inotify' = inotify \union dirs
    /\ found' = [found EXCEPT ![u] = @ \union dirs]
    /\ pc' = [pc EXCEPT ![u] = "map"]
    /\ UNCHANGED <<diskVars, queue, arg, workerMutex, containerMutex, batch, impacted,
                   handlerVars, searchVars, watchVars, terminated>>

(* The flag files are looked up, the search is stored.                     *)
FinishCrawl(u) ==
    LET s == arg[u]
        instances == MapInstancesToQualityTypes(found[u] \ {Any})
    IN
    /\ ~terminated
    /\ pc[u] = "map"
    /\ TransferNewSearchRequest(u, s, found[u], instances, GetKnownHandles(s, instances))
    /\ found' = [found EXCEPT ![u] = {}]
    /\ UNCHANGED <<diskVars, kernelVars, arg, workerMutex, containerMutex, batch, impacted,
                   started, callbacks, obsolete, terminated>>

(* The crawl fails: the upper layer stops the search at the client and     *)
(* forgets its callback; the watch stays in the kernel.                    *)
StartFindServiceFails(u) ==
    /\ ~terminated
    /\ pc[u] \in {"gather", "map"} /\ faults < Faults
    /\ faults' = faults + 1
    /\ obsolete' = obsolete \union {arg[u]}
    /\ callbacks' = callbacks \ {arg[u]}
    /\ found' = [found EXCEPT ![u] = {}]
    /\ pc' = [pc EXCEPT ![u] = "idle"]
    /\ arg' = [arg EXCEPT ![u] = NoOne]
    /\ workerMutex' = NoOne /\ containerMutex' = NoOne
    /\ UNCHANGED <<dirs, files, offerPc, offered, offers, kernelVars, batch, impacted,
                   handlerVars, started, requests, links, previous, watchVars, terminated>>

(* StartFindService returns and releases both mutexes.                     *)
StartFindServiceReturns(u) ==
    /\ ~terminated
    /\ pc[u] = "called" /\ handler[u] = NoOne
    /\ pc' = [pc EXCEPT ![u] = "idle"]
    /\ arg' = [arg EXCEPT ![u] = NoOne]
    /\ workerMutex' = NoOne /\ containerMutex' = NoOne
    /\ UNCHANGED <<diskVars, kernelVars, found, batch, impacted, handlerVars, searchVars,
                   watchVars, terminated>>

-----------------------------------------------------------------------------
(* StopFindService, from a user's thread or from inside a handler.         *)

StopFindService(u, s) ==
    /\ ~terminated
    /\ pc[u] = "idle" /\ containerMutex = NoOne
    /\ s \in callbacks
    /\ containerMutex' = u
    /\ pc' = [pc EXCEPT ![u] = "stop"]
    /\ arg' = [arg EXCEPT ![u] = s]
    /\ UNCHANGED <<diskVars, kernelVars, found, workerMutex, batch, impacted, handlerVars,
                   searchVars, watchVars, terminated>>

(* Mutant: the client does not wait for a running handler.                 *)
StopFindServiceUnlocked(u) ==
    /\ ~terminated
    /\ pc[u] = "stop"
    /\ obsolete' = obsolete \union {arg[u]}
    /\ callbacks' = callbacks \ {arg[u]}
    /\ containerMutex' = NoOne
    /\ pc' = [pc EXCEPT ![u] = "idle"]
    /\ arg' = [arg EXCEPT ![u] = NoOne]
    /\ UNCHANGED <<diskVars, kernelVars, found, workerMutex, batch, impacted, handlerVars,
                   started, requests, links, previous, watchVars, terminated>>

StopFindServiceAtClient(u) ==
    /\ ~terminated
    /\ pc[u] = "stop" /\ workerMutex = NoOne
    /\ obsolete' = obsolete \union {arg[u]}
    /\ callbacks' = callbacks \ {arg[u]}
    /\ containerMutex' = NoOne
    /\ pc' = [pc EXCEPT ![u] = "idle"]
    /\ arg' = [arg EXCEPT ![u] = NoOne]
    /\ UNCHANGED <<diskVars, kernelVars, found, workerMutex, batch, impacted, handlerVars,
                   started, requests, links, previous, watchVars, terminated>>

(* From inside a handler: the thread has worker_mutex_ already and waits   *)
(* for container_mutex_ unless it has it too.                              *)
StopFindServiceInHandler(t) ==
    /\ ~terminated
    /\ handler[t] # NoOne /\ stopping[t] = "yes"
    /\ containerMutex \in {NoOne, t}
    /\ obsolete' = obsolete \union {handler[t]}
    /\ callbacks' = callbacks \ {handler[t]}
    /\ stopping' = [stopping EXCEPT ![t] = "done"]
    /\ UNCHANGED <<diskVars, kernelVars, threadVars, handler, started, requests, links,
                   previous, watchVars, terminated>>

HandlerReturns(t) ==
    /\ ~terminated
    /\ handler[t] # NoOne /\ stopping[t] # "yes"
    /\ handler' = [handler EXCEPT ![t] = NoOne]
    /\ stopping' = [stopping EXCEPT ![t] = "no"]
    /\ UNCHANGED <<diskVars, kernelVars, threadVars, searchVars, watchVars, terminated>>

-----------------------------------------------------------------------------
(* The worker thread.                                                      *)

WorkerUnchanged == UNCHANGED <<diskVars, arg, containerMutex, started, callbacks>>

Read ==
    /\ ~terminated
    /\ pc[Worker] = "read" /\ queue # <<>>
    /\ LET n == IF Len(queue) < BatchSize THEN Len(queue) ELSE BatchSize
       IN  /\ batch' = SubSeq(queue, 1, n)
           /\ queue' = SubSeq(queue, n + 1, Len(queue))
    /\ pc' = [pc EXCEPT ![Worker] = "handle"]
    /\ UNCHANGED <<inotify, found, workerMutex, impacted, handlerVars, requests, obsolete,
                   links, previous, watchVars, terminated>>
    /\ WorkerUnchanged

(* Read returns without events: interrupted, or a watch was removed.       *)
ReadNothing ==
    /\ ~terminated
    /\ pc[Worker] = "read" /\ obsolete # {}
    /\ pc' = [pc EXCEPT ![Worker] = "handle"]
    /\ UNCHANGED <<kernelVars, found, workerMutex, batch, impacted, handlerVars, requests,
                   obsolete, links, previous, watchVars, terminated>>
    /\ WorkerUnchanged

(* TransferObsoleteSearchRequest: watches that only these searches use.    *)
UnusedWithout(gone) == {w \in watches : keys[w] # {} /\ keys[w] \subseteq gone}

(* Events of a removed watch stay, for a descriptor that does not return.  *)
Orphaned(events, ws) ==
    [n \in 1 .. Len(events) |->
        IF events[n].watch \in ws THEN [events[n] EXCEPT !.watch = NoOne] ELSE events[n]]

(* TransferObsoleteSearchRequests: the searches are removed, with the      *)
(* watches that no other search uses.                                      *)
TransferObsoleteSearchRequests ==
    LET gone == requests \intersect obsolete
        unused == UnusedWithout(gone)
    IN
    /\ ~terminated
    /\ pc[Worker] = "handle" /\ workerMutex = NoOne
    /\ workerMutex' = Worker
    /\ requests' = requests \ gone
    /\ Unlink(gone)
    /\ EraseWatch(unused)
    /\ inotify' = inotify \ unused
    /\ known' = Forget(unused \ {Any})
    /\ obsolete' = {}
    /\ queue' = Orphaned(queue, unused)
    /\ batch' = Orphaned(batch, unused)
    /\ pc' = [pc EXCEPT ![Worker] = "deletions"]
    /\ UNCHANGED <<found, impacted, previous, handlerVars, terminated>>
    /\ WorkerUnchanged

BatchOf(kind) == {e \in {batch[n] : n \in 1 .. Len(batch)} :
                     e.kind = kind /\ e.watch \in watches}

(* OnInstanceFlagFileRemoved for a set of events.                          *)
OnInstanceFlagFilesRemoved(events) ==
    [q \in Qualities |-> known[q] \ {e.inst : e \in {d \in events : d.quality = q}}]

(* The deletions of the batch come first, in one go.                       *)
HandleDeletionEvents ==
    LET deleted == BatchOf("delete") IN
    /\ ~terminated
    /\ pc[Worker] = "deletions"
    /\ known' = OnInstanceFlagFilesRemoved(deleted)
    /\ impacted' = UNION {keys[e.watch] : e \in deleted}
    /\ pc' = [pc EXCEPT ![Worker] = "callDeleted"]
    /\ UNCHANGED <<kernelVars, found, workerMutex, batch, handlerVars, requests, obsolete,
                   links, previous, watches, keys, anyEntry, children, terminated>>
    /\ WorkerUnchanged

(* CallHandlers, for one of the impacted searches.                         *)
CallHandlers(s) ==
    LET handles == GetKnownHandles(s, known) IN
    /\ ~terminated
    /\ pc[Worker] \in {"callDeleted", "callCreated"} /\ handler[Worker] = NoOne
    /\ s \in impacted
    /\ impacted' = impacted \ {s}
    /\ IF s \notin requests \/ s \in obsolete \/ previous[s] = handles
       THEN UNCHANGED <<previous, handlerVars>>
       ELSE /\ previous' = [previous EXCEPT ![s] = handles]
            /\ EnterHandler(Worker, s)
    /\ UNCHANGED <<kernelVars, pc, found, workerMutex, batch, requests, obsolete, links,
                   watchVars, terminated>>
    /\ WorkerUnchanged

DeletionsHandled ==
    /\ ~terminated
    /\ pc[Worker] = "callDeleted" /\ handler[Worker] = NoOne /\ impacted = {}
    /\ pc' = [pc EXCEPT ![Worker] = "creations"]
    /\ UNCHANGED <<kernelVars, found, workerMutex, batch, impacted, handlerVars, requests,
                   obsolete, links, previous, watchVars, terminated>>
    /\ WorkerUnchanged

(* HandleCreationEvents, for the next event of the batch.                  *)

(* A deletion, or an event of a watch that the client does not have.       *)
SkipEvent ==
    /\ ~terminated
    /\ pc[Worker] = "creations" /\ batch # <<>>
    /\ Head(batch).kind = "delete" \/ Head(batch).watch \notin watches
    /\ batch' = Tail(batch)
    /\ UNCHANGED <<kernelVars, pc, found, workerMutex, impacted, handlerVars, requests,
                   obsolete, links, previous, watchVars, terminated>>
    /\ WorkerUnchanged

OnInstanceFlagFileCreated ==
    LET e == Head(batch) IN
    /\ ~terminated
    /\ pc[Worker] = "creations" /\ batch # <<>>
    /\ e.kind = "create" /\ e.watch \in watches
    /\ known' = Insert(e.inst, e.quality)
    /\ impacted' = impacted \union keys[e.watch]
    /\ batch' = Tail(batch)
    /\ UNCHANGED <<kernelVars, pc, found, workerMutex, handlerVars, requests, obsolete,
                   links, previous, watches, keys, anyEntry, children, terminated>>
    /\ WorkerUnchanged

(* The new directory is watched, ...                                       *)
OnInstanceDirectoryCreated ==
    LET e == Head(batch) IN
    /\ ~terminated
    /\ pc[Worker] = "creations" /\ batch # <<>>
    /\ e.kind = "dir" /\ e.watch \in watches
    /\ AddWatch(e.inst)
    /\ found' = [found EXCEPT ![Worker] = {e.inst}]
    /\ pc' = [pc EXCEPT ![Worker] = "map"]
    /\ UNCHANGED <<files, offerPc, offered, offers, faults, arg, containerMutex, started,
                   callbacks, workerMutex, batch, impacted, handlerVars, requests, obsolete, links,
                   previous, watchVars, terminated>>

(* ... its flag files are looked up, and it joins all searches for any     *)
(* instance.                                                               *)
LinkInstanceDirectory ==
    LET ws == found[Worker] IN
    /\ ~terminated
    /\ pc[Worker] = "map"
    /\ IF Linkable(ws, keys[Any])
       THEN /\ StoreWatch(ws)
            /\ Link(ws, keys[Any])
            /\ known' = Merge(MapInstancesToQualityTypes(ws))
            /\ UNCHANGED terminated
       ELSE /\ terminated' = TRUE
            /\ UNCHANGED <<watchVars, links>>
    /\ impacted' = impacted \union keys[Any]
    /\ batch' = Tail(batch)
    /\ found' = [found EXCEPT ![Worker] = {}]
    /\ pc' = [pc EXCEPT ![Worker] = "creations"]
    /\ UNCHANGED <<kernelVars, workerMutex, handlerVars, requests, obsolete, previous>>
    /\ WorkerUnchanged

CreationsHandled ==
    /\ ~terminated
    /\ pc[Worker] = "creations" /\ batch = <<>>
    /\ pc' = [pc EXCEPT ![Worker] = "callCreated"]
    /\ UNCHANGED <<kernelVars, found, workerMutex, batch, impacted, handlerVars, requests,
                   obsolete, links, previous, watchVars, terminated>>
    /\ WorkerUnchanged

(* HandleEvents returns.                                                   *)
EventsHandled ==
    /\ ~terminated
    /\ pc[Worker] = "callCreated" /\ handler[Worker] = NoOne /\ impacted = {}
    /\ workerMutex' = NoOne
    /\ pc' = [pc EXCEPT ![Worker] = "read"]
    /\ UNCHANGED <<kernelVars, found, batch, impacted, handlerVars, requests, obsolete,
                   links, previous, watchVars, terminated>>
    /\ WorkerUnchanged

-----------------------------------------------------------------------------
ProviderStep(i) ==
    \/ OfferService(i) \/ CreateSearchPath(i) \/ MakeFlagFile(i) \/ MakeFlagFileFails(i)
    \/ StopOfferService(i) \/ ProviderCrash(i)

UserStep(u) ==
    \/ \E s \in Searches : StartFindService(u, s) \/ StopFindService(u, s)
    \/ StartFromCache(u) \/ CrawlAndWatch(u) \/ GatherExistingInstanceDirectories(u)
    \/ FinishCrawl(u) \/ StartFindServiceFails(u) \/ StartFindServiceReturns(u)
    \/ StopFindServiceAtClient(u)

HandlerStep(t) == StopFindServiceInHandler(t) \/ HandlerReturns(t)

WorkerStep ==
    \/ Read \/ ReadNothing \/ TransferObsoleteSearchRequests \/ HandleDeletionEvents
    \/ \E s \in Searches : CallHandlers(s)
    \/ DeletionsHandled \/ SkipEvent \/ OnInstanceFlagFileCreated
    \/ OnInstanceDirectoryCreated \/ LinkInstanceDirectory \/ CreationsHandled
    \/ EventsHandled

DiscoveryNext ==
    \/ \E i \in Instances : ProviderStep(i)
    \/ \E u \in Users : UserStep(u)
    \/ \E t \in Threads : HandlerStep(t)
    \/ WorkerStep

DiscoverySpec == DiscoveryInit /\ [][DiscoveryNext]_discoveryVars

-----------------------------------------------------------------------------
Events ==
    [watch : Watches \union {NoOne}, kind : {"dir", "create", "delete"}, inst : Instances,
     quality : Qualities \union {"none"}]

DiskTypeOK ==
    /\ dirs \in SUBSET Instances /\ files \in SUBSET FlagFiles
    /\ offerPc \in [Instances -> {"idle", "clearB", "createB", "clearQm", "createQm"}]
    /\ offered \in [Instances -> SUBSET FlagFiles]
    /\ offers \in [Instances -> 0 .. MaxOffers] /\ faults \in 0 .. Faults
    /\ \A i \in Instances : offerPc[i] # "idle" => offers[i] > 0

EventTypeOK ==
    /\ inotify \in SUBSET Watches /\ queue \in Seq(Events) /\ batch \in Seq(Events)

ThreadTypeOK ==
    /\ pc \in [Threads -> {"idle", "start", "gather", "map", "called", "stop", "read",
                           "handle", "deletions", "callDeleted", "creations",
                           "callCreated"}]
    /\ arg \in [Threads -> Searches \union {NoOne}]
    /\ found \in [Threads -> SUBSET Watches]
    /\ handler \in [Threads -> Searches \union {NoOne}]
    /\ stopping \in [Threads -> {"no", "yes", "done"}]
    /\ workerMutex \in Threads \union {NoOne}
    /\ containerMutex \in Threads \union {NoOne}
    /\ impacted \in SUBSET Searches

SearchTypeOK ==
    /\ started \in SUBSET Searches /\ callbacks \in SUBSET started
    /\ requests \in SUBSET started /\ obsolete \in SUBSET started
    /\ links \in [Searches -> SUBSET Watches]
    /\ previous \in [Searches -> SUBSET Instances]

WatchTypeOK ==
    /\ watches \in SUBSET Watches /\ keys \in [Watches -> SUBSET Searches]
    /\ anyEntry \in {"absent", "none", "watch"} /\ children \in SUBSET Instances
    /\ known \in [Qualities -> SUBSET Instances]

(* The type of every variable.                                             *)
DiscoveryTypeOK ==
    /\ DiskTypeOK /\ EventTypeOK /\ ThreadTypeOK /\ SearchTypeOK /\ WatchTypeOK
    /\ terminated \in BOOLEAN

(* All events have been handled and nobody crawls.                         *)
Quiet ==
    /\ queue = <<>> /\ pc[Worker] = "read" /\ ~terminated
    /\ \A u \in Users : pc[u] \notin {"gather", "map"}

Ongoing == requests \ obsolete
Wanted(s, i) == Target[s] \in {Any, i}

(* No offer is missed: when all events have been handled, every search has *)
(* been told of each instance that has a flag file of its quality, however *)
(* crawls, searches that share watches, offers and crashes were mixed.     *)
NoOfferMissed ==
    Quiet => \A s \in Ongoing, i \in Instances :
                 Wanted(s, i) /\ Exists(i, SearchQuality[s]) => i \in previous[s]

(* The handlers know of no instance that is not offered, once all events   *)
(* have been handled.                                                      *)
NoStaleOffer ==
    Quiet => \A s \in Ongoing : \A i \in previous[s] : Exists(i, SearchQuality[s])

(* Once StopFindService has returned, the handler of the search is neither *)
(* running nor called again, unless it stopped its search itself and is    *)
(* about to return: its callback would be destroyed under its feet.        *)
StoppedSearchesStaySilent ==
    \A t \in Threads :
        handler[t] # NoOne /\ stopping[t] # "done" => handler[t] \in callbacks

(* Watches and searches refer to each other, a watch is kept exactly as    *)
(* long as a search needs it, the entry for any instance is never without  *)
(* the watch it names, and the cache has watched instances only: what is   *)
(* no longer watched would be stale when the next search reads it.         *)
WatchesMatchSearches ==
    /\ \A w \in Watches : keys[w] = {s \in Searches : w \in links[s]}
    /\ \A s \in Searches : links[s] # {} <=> s \in requests
    /\ \A s \in requests : Target[s] \in links[s]
    /\ watches = {w \in Watches : keys[w] # {}} /\ watches \subseteq inotify
    /\ children = watches \ {Any}
    /\ anyEntry = "watch" => Any \in watches
    /\ \A q \in Qualities : known[q] \subseteq watches

(* The assertions of LinkWatchWithSearchRequest hold.                      *)
LinksAreNew == ~terminated

(* A handler that stops its own search gets on: the thread that has        *)
(* container_mutex_ does not wait for the handler.                         *)
HandlersMayStop ==
    \A t \in Threads, u \in Users :
        ~ /\ u # t /\ handler[t] # NoOne /\ stopping[t] = "yes" /\ containerMutex = u
          /\ pc[u] \in {"start", "stop"} /\ workerMutex = t

-----------------------------------------------------------------------------
(* What makes the invariants inductive.                                    *)

(* Who has which mutex, by the step a thread is at.                        *)
MutexesHeld ==
    /\ containerMutex # Worker
    /\ pc[Worker] \in {"read", "handle", "deletions", "callDeleted", "creations", "map",
                       "callCreated"}
    /\ workerMutex = Worker <=> pc[Worker] \notin {"read", "handle"}
    /\ \A u \in Users :
          /\ pc[u] \in {"idle", "start", "gather", "map", "called", "stop"}
          /\ workerMutex = u <=> pc[u] \in {"gather", "map", "called"}
          /\ containerMutex = u <=> pc[u] # "idle"

(* A handler runs under worker_mutex_, a search that is being started has  *)
(* its callback and no request, and an ongoing search has its callback.    *)
SearchesHaveCallbacks ==
    /\ \A t \in Threads :
          handler[t] # NoOne =>
              workerMutex = t /\ pc[t] \in {"called", "callDeleted", "callCreated"}
    /\ \A u \in Users :
          /\ pc[u] # "idle" => arg[u] \in started
          /\ pc[u] \in {"start", "gather", "map"} => arg[u] \in callbacks \ requests
    /\ Ongoing \subseteq callbacks

(* What a crawl has found is watched by the kernel, and the events are     *)
(* such as the watches give.                                               *)
CrawlsAreWatched ==
    /\ \A u \in Users :
          pc[u] \in {"gather", "map"} =>
              /\ Target[arg[u]] \in found[u] /\ found[u] \subseteq inotify
              /\ Target[arg[u]] # Any => pc[u] = "map" /\ found[u] = {Target[arg[u]]}
    /\ pc[Worker] = "map" =>
          /\ batch # <<>> /\ Head(batch).kind = "dir" /\ Any \in watches
          /\ found[Worker] = {Head(batch).inst} /\ found[Worker] \subseteq inotify
    /\ \A s \in Searches :
          /\ Any \in links[s] => Target[s] = Any
          /\ Target[s] # Any => links[s] \subseteq {Target[s]}

EventIsOfWatch(e) ==
    /\ e.watch \in inotify \union {NoOne}
    /\ e.kind = "dir" => e.watch \in {Any, NoOne}
    /\ e.kind # "dir" => e.watch \in {e.inst, NoOne} /\ e.quality \in Qualities

EventsAreOfWatches ==
    /\ \A n \in 1 .. Len(queue) : EventIsOfWatch(queue[n])
    /\ \A n \in 1 .. Len(batch) : EventIsOfWatch(batch[n])
    /\ pc[Worker] \in {"read", "callCreated"} => batch = <<>>
    /\ pc[Worker] \in {"read", "handle", "deletions"} => impacted = {}

(* Each quality of an instance has one flag file at most, in its           *)
(* directory; a provider knows its own.                                    *)
OneFileEach ==
    /\ \A f, g \in files : f.inst = g.inst /\ f.quality = g.quality => f = g
    /\ \A f \in files : f.inst \in dirs
    /\ \A i \in Instances :
          /\ \A f \in offered[i] : f.inst = i /\ f \in files
          /\ offerPc[i] \in {"clearB", "createB"} => offered[i] = {}
          /\ offerPc[i] \in {"clearQm", "createQm"} => \A f \in offered[i] : f.quality = "b"
          /\ offerPc[i] \in {"createB", "createQm"} => MatchingFlagFiles(i) = {} /\ i \in dirs

Pending(e) ==
    (\E n \in 1 .. Len(queue) : queue[n] = e) \/ (\E n \in 1 .. Len(batch) : batch[n] = e)
Creation(i, q) == FileEvent("create", i, q)
Deletion(i, q) == FileEvent("delete", i, q)

(* An instance that is offered will be known at the end of the events: a   *)
(* deletion that has not been handled is followed by a creation.           *)
DeletionsAreFollowed ==
    \A i \in Instances, q \in Qualities : Exists(i, q) =>
        /\ \A n \in 1 .. Len(queue) : queue[n] = Deletion(i, q) =>
              \E m \in 1 .. Len(queue) : m > n /\ queue[m] = Creation(i, q)
        /\ pc[Worker] \in {"handle", "deletions"} =>
              \A n \in 1 .. Len(batch) : batch[n] = Deletion(i, q) => Pending(Creation(i, q))

OfferedAreKnown ==
    \A i \in watches \ {Any}, q \in Qualities :
        Exists(i, q) => i \in known[q] \/ Pending(Creation(i, q))

(* A search is told of an instance it is linked with, or will be.          *)
LinkedAreTold ==
    \A s \in Ongoing : \A i \in links[s] \ {Any} :
        Exists(i, SearchQuality[s]) =>
            i \in previous[s] \/ s \in impacted \/ Pending(Creation(i, SearchQuality[s]))

(* A search for any instance is linked with each directory, or will be.    *)
DirectoriesAreLinked ==
    /\ \A s \in requests, i \in dirs :
          Target[s] = Any => i \in links[s] \/ Pending(DirectoryCreated(i))
    /\ \A u \in Users, i \in dirs :
          pc[u] = "map" /\ Target[arg[u]] = Any => i \in found[u] \/ Pending(DirectoryCreated(i))

SearchInvariant == MutexesHeld /\ SearchesHaveCallbacks /\ StoppedSearchesStaySilent
WatchInvariant == CrawlsAreWatched /\ EventsAreOfWatches /\ WatchesMatchSearches
OffersAreFollowed ==
    /\ OneFileEach /\ DeletionsAreFollowed /\ OfferedAreKnown /\ LinkedAreTold
    /\ DirectoriesAreLinked
OfferInvariant == ~terminated => OffersAreFollowed
=============================================================================
