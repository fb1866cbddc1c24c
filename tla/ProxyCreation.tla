--------------------------- MODULE ProxyCreation ---------------------------
(***************************************************************************)
(* Creation of proxies after a restart of their process, on top of         *)
(* EventSubscription.  The first proxy of a process registers the          *)
(* process's pid under its uid in the UidPidMapping of the service, which  *)
(* processes share in memory without a lock; a pid it replaces is outdated *)
(* and is reported to the provider, which forgets what it keeps for that   *)
(* node.  Only then are the old logs marked (PrepareRollback).             *)
(*                                                                         *)
(* A uid is a process, and a pid a number that grows as it is restarted.   *)
(* The entry of a uid is written by its own process only, so that reading  *)
(* all entries for one's own uid is a single step; so is reading an entry  *)
(* and the exchange that claims it.  Proxy::Create registers a second time *)
(* after the rollback, which finds the pid just registered and changes     *)
(* nothing.  The provider receives messages in the order they are sent and *)
(* nothing waits for it: a message is handled as it is sent.  The provider *)
(* does not restart here; there are at most MaxCrashes restarts.           *)
(***************************************************************************)
EXTENDS EventSubscription

CONSTANTS
    NumEntries,          \* kMaxUidPidMappings
    MaxRegisterRetries   \* kMaxRetries of RegisterPid

ASSUME MappingAssumption == NumEntries \in Nat \ {0} /\ MaxRegisterRetries \in Nat \ {0}

Entries == 1 .. NumEntries

VARIABLES
    mapping,     \* mapping_entries_, in shared memory
    pid,         \* the pid of each process
    reg,         \* where a process is in RegisterPid: step, entry, pass, outdated pid
    interested,  \* event_update_interested_nodes_ of the provider
    forgotten    \* history: outdated nodes whose process died before reporting them

mappingVars == <<mapping, reg>>
subscriptionVars == <<logVars, counterVars, procVars, proxyVars>>
creationVars == <<mappingVars, pid, interested, forgotten>>

Idle == [at |-> "idle", entry |-> 0, pass |-> 0, old |-> 0]

CreationInit ==
    /\ Init
    /\ mapping = [i \in Entries |-> [status |-> "unused", uid |-> Nobody, pid |-> 0]]
    /\ pid = [q \in Processes |-> 1]
    /\ reg = [q \in Processes |-> Idle]
    /\ interested = {} /\ forgotten = {}

-----------------------------------------------------------------------------
(* UidPidMapping::RegisterPid, under the mutex of the process's rollback   *)
(* data.                                                                   *)

Goto(q, r) == reg' = [reg EXCEPT ![q] = r]

RestartsBounded == MapThenSumSet(LAMBDA q : pid[q] - 1, Processes) <= MaxCrashes

Scanning(i, n) == [at |-> "scan", entry |-> i, pass |-> n, old |-> 0]
Outdated(n) == [at |-> "notify", entry |-> 0, pass |-> 0, old |-> n]
Registered == [at |-> "registered", entry |-> 0, pass |-> 0, old |-> 0]

EntriesOf(q) == {i \in Entries : mapping[i].status # "unused" /\ mapping[i].uid = q}

(* The entry of the uid is taken over: one in use hands back its pid, one  *)
(* that a crash left half-written has none to hand back.                   *)
TryUpdatePidForExistingUid(q) ==
    /\ reg[q].at = "idle" /\ q \notin prepared
    /\ IF EntriesOf(q) = {}
       THEN /\ Goto(q, Scanning(1, 1))
            /\ UNCHANGED mapping
       ELSE LET i == CHOOSE j \in EntriesOf(q) : \A k \in EntriesOf(q) : j <= k
            IN  /\ mapping' = [mapping EXCEPT ![i] = [status |-> "used", uid |-> q, pid |-> pid[q]]]
                /\ Goto(q, IF mapping[i].status = "used" /\ mapping[i].pid # pid[q]
                           THEN Outdated(mapping[i].pid)
                           ELSE Registered)
    /\ UNCHANGED <<subscriptionVars, crashes, pid, interested, forgotten>>

(* Mutant: the claim of an entry is not an exchange but a store.           *)
ClaimAnyEntry(q) ==
    /\ reg[q].at = "scan"
    /\ mapping[reg[q].entry].status # "used"
    /\ mapping' = [mapping EXCEPT ![reg[q].entry].status = "updating", ![reg[q].entry].uid = q]
    /\ Goto(q, [reg[q] EXCEPT !.at = "claimed"])
    /\ UNCHANGED <<subscriptionVars, crashes, pid, interested, forgotten>>

(* An unused entry is claimed for the uid.                                 *)
ClaimEntry(q) ==
    /\ reg[q].at = "scan"
    /\ mapping[reg[q].entry].status = "unused"
    /\ mapping' = [mapping EXCEPT ![reg[q].entry].status = "updating", ![reg[q].entry].uid = q]
    /\ Goto(q, [reg[q] EXCEPT !.at = "claimed"])
    /\ UNCHANGED <<subscriptionVars, crashes, pid, interested, forgotten>>

(* The entry is not free, or the exchange fails, which the weak one may do *)
(* for no reason: the next entry, the next pass; after the last one the    *)
(* registration fails and ends the process.                                *)
ProcessEnds(q) ==
    /\ crashes < MaxCrashes /\ crashes' = crashes + 1
    /\ pid' = [pid EXCEPT ![q] = @ + 1] /\ RestartsBounded'
    /\ Goto(q, Idle)

NextEntry(q) ==
    /\ reg[q].at = "scan"
    /\ \/ /\ reg[q].entry < NumEntries
          /\ Goto(q, Scanning(reg[q].entry + 1, reg[q].pass)) /\ UNCHANGED <<pid, crashes>>
       \/ /\ reg[q].entry = NumEntries /\ reg[q].pass < MaxRegisterRetries
          /\ Goto(q, Scanning(1, reg[q].pass + 1)) /\ UNCHANGED <<pid, crashes>>
       \/ /\ reg[q].entry = NumEntries /\ reg[q].pass = MaxRegisterRetries
          /\ ProcessEnds(q)
    /\ UNCHANGED <<subscriptionVars, mapping, interested, forgotten>>

SetStatusAndUidAtomic(q) ==
    /\ reg[q].at = "claimed"
    /\ mapping' = [mapping EXCEPT ![reg[q].entry] = [status |-> "used", uid |-> q, pid |-> pid[q]]]
    /\ Goto(q, Registered)
    /\ UNCHANGED <<subscriptionVars, crashes, pid, interested, forgotten>>

(* The pid that was replaced is reported; the provider erases the node     *)
(* from the interested nodes of every event.  The sender it drops as well  *)
(* is RemoveMessagePassingSender of MessagePassing.                        *)
HandleOutdatedNodeIdMsg(node) == interested' = interested \ {node}

NotifyOutdatedNodeId(q) ==
    /\ reg[q].at = "notify"
    /\ HandleOutdatedNodeIdMsg(<<q, reg[q].old>>)
    /\ Goto(q, Registered)
    /\ UNCHANGED <<subscriptionVars, crashes, pid, mapping, forgotten>>

(* The process crashes before its logs are marked.                         *)
CrashInRegistration(q) ==
    /\ reg[q].at # "idle" /\ q \notin prepared
    /\ ProcessEnds(q)
    /\ forgotten' = IF reg[q].at = "notify" THEN forgotten \cup {<<q, reg[q].old>>} ELSE forgotten
    /\ UNCHANGED <<subscriptionVars, mapping, interested>>

-----------------------------------------------------------------------------
(* Everything else a proxy does.  The logs are marked once the pid is      *)
(* registered; a process that ends is restarted with another pid.          *)
SubscriptionStep ==
    /\ Next
    /\ \A q \in prepared' \ prepared : reg[q].at = "registered"
    /\ reg' = [q \in Processes |-> IF q \in prepared \ prepared' THEN Idle ELSE reg[q]]
    /\ pid' = [q \in Processes |-> IF q \in prepared \ prepared' THEN pid[q] + 1 ELSE pid[q]]
    /\ RestartsBounded'
    /\ UNCHANGED <<mapping, interested, forgotten>>

(* A subscribed proxy with a receive handler makes its node known.         *)
SendRegisterEventNotificationMessage(q) ==
    /\ \E p \in Proxies : ProcessOf[p] = q /\ pc[p] = "subscribed"
    /\ interested' = interested \cup {<<q, pid[q]>>}
    /\ UNCHANGED <<subscriptionVars, crashes, mappingVars, pid, forgotten>>

CreationNext ==
    \/ \E q \in Processes :
          \/ TryUpdatePidForExistingUid(q) \/ ClaimEntry(q) \/ NextEntry(q)
          \/ SetStatusAndUidAtomic(q) \/ NotifyOutdatedNodeId(q) \/ CrashInRegistration(q)
          \/ SendRegisterEventNotificationMessage(q)
    \/ SubscriptionStep

CreationSpec == CreationInit /\ [][CreationNext]_<<vars, creationVars>>

-----------------------------------------------------------------------------
(* A uid has at most one entry, also when processes register at the same   *)
(* time or crash while they do, and a process whose logs are marked finds  *)
(* its own pid there.                                                      *)
EntriesAreOwned ==
    /\ \A q \in Processes : Cardinality(EntriesOf(q)) <= 1
    /\ \A q \in prepared : \E i \in EntriesOf(q) :
          mapping[i].status = "used" /\ mapping[i].pid = pid[q]

(* The provider gets rid of every node of a process that has gone: the pid *)
(* is still in the mapping for the next registration to find, or is about  *)
(* to be reported.  Only a second crash, between the exchange of the pids  *)
(* and the report, loses one.                                              *)
OutdatedNodesAreReported ==
    \A n \in interested \ forgotten :
        \/ n[2] = pid[n[1]]
        \/ reg[n[1]].at = "notify" /\ reg[n[1]].old = n[2]
        \/ \E i \in EntriesOf(n[1]) : mapping[i].pid = n[2]

(* Registrations survive restarts of the consumers, in the mapping and at  *)
(* the provider.                                                           *)
RestartsAreReported == EntriesAreOwned /\ OutdatedNodesAreReported

(* Nodes of restarted processes never stay registered for good.            *)
NoNodeForgotten == forgotten \cap interested = {}

-----------------------------------------------------------------------------
(* What makes RestartsAreReported inductive.                               *)

MappingTypeOK ==
    /\ mapping \in [Entries -> [status : {"unused", "updating", "used"},
                                uid : Processes \union {Nobody}, pid : Nat]]
    /\ pid \in [Processes -> Nat \ {0}]
    /\ reg \in [Processes -> [at : {"idle", "scan", "claimed", "notify", "registered"},
                              entry : 0 .. NumEntries, pass : Nat, old : Nat]]
    /\ interested \in SUBSET (Processes \X (Nat \ {0}))

(* No uid has two entries, and what an entry says follows from the step    *)
(* its process is at.                                                      *)
EntriesFollowRegistration ==
    /\ \A q \in Processes : \A i, j \in EntriesOf(q) : i = j
    /\ \A i \in Entries : mapping[i].status # "used" => mapping[i].pid = 0
    /\ \A q \in Processes :
          /\ reg[q].at = "scan" => EntriesOf(q) = {} /\ reg[q].entry \in Entries
          /\ reg[q].at = "claimed" =>
                reg[q].entry \in EntriesOf(q) /\ mapping[reg[q].entry].status = "updating"
          /\ reg[q].at \in {"notify", "registered"} =>
                \E i \in EntriesOf(q) : mapping[i].status = "used" /\ mapping[i].pid = pid[q]
          /\ q \in prepared => reg[q].at = "registered"

(* A node the provider knows is in the mapping or about to be reported.    *)
NodeKept(n) ==
    \/ reg[n[1]].at = "notify" /\ reg[n[1]].old = n[2]
    \/ \E i \in EntriesOf(n[1]) : mapping[i].pid = n[2]

MappingInvariant ==
    /\ MappingTypeOK /\ EntriesFollowRegistration
    /\ \A n \in interested \ forgotten : NodeKept(n)
=============================================================================
