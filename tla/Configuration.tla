--------------------------- MODULE Configuration ---------------------------
(***************************************************************************)
(* From the two configuration files to the running runtime of a process:   *)
(* mw_com_config.json is parsed into a Configuration (config_parser.cpp),  *)
(* by a Runtime::Initialize or by the first Runtime::getInstance; the      *)
(* trace filter file is parsed against it (tracing_filter_config_parser),  *)
(* and the binding's runtime is sized and restricted by both.              *)
(*                                                                         *)
(* The parser reads the document entry by entry: an action takes the next  *)
(* entry out of the set of entries a document may hold and adds what the   *)
(* code keeps of it, or ends the process.  Names, identifiers and users    *)
(* are values; what only ends the process, an attribute that is missing or *)
(* unknown, is one of the defects an entry may have.                       *)
(***************************************************************************)
EXTENDS Identifiers, Sequences, SequencesExt

CONSTANTS
    TypeEntries,      \* entries of serviceTypes
    InstanceEntries,  \* entries of serviceInstances
    GlobalEntries,    \* the forms of the global section
    FilterEntries,    \* elements listed in the trace filter file
    MaxTypes, MaxInstances, MaxFilterEntries,  \* bounds on a document's lists
    MaxInitializes    \* bound on the calls of Runtime::Initialize

Qualities == {"QM", "B"}

(***************************************************************************)
(* A document is finite, its entries hold values of the right kind, and    *)
(* enableIpcTracing is an attribute of an element the instance lists.      *)
(***************************************************************************)
IsTypeEntry(entry) ==
    /\ IsVersion(entry.version) /\ entry.serviceId \in Nat
    /\ \A p \in entry.elements : IsIdentifiedElement(p)

IsInstanceEntry(entry) ==
    /\ IsVersion(entry.version) /\ IsBindingDeployment(entry)
    /\ IsFiniteSet(entry.traced) /\ entry.traced \subseteq DOMAIN entry.sizes

ASSUME DocumentAssumption ==
    /\ Nothing \notin {"Initialize", "getInstance"}
    /\ IsFiniteSet(InstanceEntries)
    /\ \A entry \in TypeEntries : IsTypeEntry(entry)
    /\ \A entry \in InstanceEntries : IsInstanceEntry(entry)
    /\ MaxTypes \in Nat /\ MaxInstances \in Nat /\ MaxFilterEntries \in Nat
    /\ MaxInitializes \in Nat

(***************************************************************************)
(* A service is identified by its type name and version; an element by its *)
(* kind and name.  A type entry lists its elements with their identifiers, *)
(* an instance entry its elements with their sizes, the ones with          *)
(* enableIpcTracing, and per quality the users allowed (no key: absent; an *)
(* empty list: everyone).                                                  *)
(***************************************************************************)
ServiceOf(entry) == <<entry.name, entry.version>>

Services == {ServiceOf(entry) : entry \in TypeEntries \cup InstanceEntries}
Elements == (UNION {{pair[1] : pair \in entry.elements} : entry \in TypeEntries})
            \cup UNION {DOMAIN entry.sizes : entry \in InstanceEntries}
Names == {s[1] : s \in Services}
Specifiers == {entry.specifier : entry \in InstanceEntries}
Points   == UNION {entry.points : entry \in FilterEntries}
TracePoints ==
    [name : Names, element : Elements, point : Points, specifier : Specifiers]

VARIABLES
    phase,       \* where the parser stands, "idle", "ready" or "terminated"
    caller,      \* who holds Runtime::mutex_ while it parses
    initialized, \* ghost: the Initialize calls so far
    locked,      \* runtime_initialization_locked_
    stored,      \* initialization_config_
    accepted,    \* ghost: the configuration of the last Initialize that was not refused
    config,      \* the Configuration being built, then the runtime's own
    entries,     \* entries of the current list read so far
    filter,      \* tracing_filter_configuration_
    lolaRuntime, \* what the Lola runtime is built with
    registered,  \* <<specifier, element>> registered with the tracing runtime
    registrations \* current_service_element_idx_, counting a call that ends the process

parser == <<phase, config, entries>>
lifecycle == <<caller, initialized, locked, stored, accepted>>
configurationVars ==
    <<phase, caller, initialized, locked, stored, accepted, config, entries, filter,
      lolaRuntime, registered, registrations>>

\* The Configuration before anything is parsed.
EmptyConfig ==
    [tracing |-> FALSE, types |-> <<>>, instances |-> <<>>, traced |-> {}, asil |-> "QM"]

\* What a Configuration holds: the tracing section is the TracingConfiguration
\* with the elements that have enableIpcTracing.
IsTracingConfiguration(enabled, traced) ==
    /\ enabled \in BOOLEAN
    /\ \A t \in traced : <<t.name, t.element, t.specifier>> \in Names \X Elements \X Specifiers

IsConfiguration(c) ==
    /\ DOMAIN c = {"tracing", "types", "instances", "traced", "asil"}
    /\ \A s \in DOMAIN c.types : IsService(s) /\ IsTypeDeployment(c.types[s])
    /\ \A i \in DOMAIN c.instances : IsInstanceDeployment(c.instances[i])
    /\ IsTracingConfiguration(c.tracing, c.traced) /\ c.asil \in Qualities

NoRuntime == [samplePtrs |-> Nothing, allowed |-> <<>>]

ConfigurationInit ==
    /\ phase = "idle" /\ caller = Nothing /\ initialized = 0 /\ locked = FALSE
    /\ stored = Nothing /\ accepted = Nothing
    /\ config = EmptyConfig /\ entries = 0
    /\ filter = Nothing /\ lolaRuntime = NoRuntime
    /\ registered = {} /\ registrations = 0

Terminate ==
    /\ phase' = "terminated"
    /\ UNCHANGED <<config, entries, filter, lolaRuntime, registered, registrations, lifecycle>>

-----------------------------------------------------------------------------
(***************************************************************************)
(* configuration::Parse.                                                   *)
(***************************************************************************)
StartParse(who) ==
    /\ phase' = "tracing" /\ caller' = who
    /\ config' = EmptyConfig /\ entries' = 0

(***************************************************************************)
(* ParseTracingProperties: no section disables tracing; a section without  *)
(* an application instance id ends the process.                            *)
(***************************************************************************)
ParseTracingProperties ==
    /\ phase = "tracing"
    /\ \/ \E enabled \in BOOLEAN :
            /\ config' = [config EXCEPT !.tracing = enabled]
            /\ phase' = "types"
            /\ UNCHANGED <<entries, filter, lolaRuntime, registered, registrations, lifecycle>>
       \/ Terminate

(***************************************************************************)
(* Two elements of a type may not have the same identifier.                *)
(***************************************************************************)
AreEventIdsUnique(elements) ==
    \A p, q \in elements : p[2] = q[2] /\ p[1][1] = q[1][1] => p = q

AreEventAndFieldIdsUnique(elements) ==
    \A p, q \in elements : p[2] = q[2] => p = q

(***************************************************************************)
(* An entry passes a parser that ends the process on some defects.         *)
(***************************************************************************)
HasNone(entry, defects) == entry.defects \cap defects = {}

\* ParseServiceTypeIdentifier, for types and for instances.
IdentifierParsed(entry) == HasNone(entry, {"no name", "no version"})

\* The events and fields of a type: each with a name and an identifier, and
\* no name twice in a list.
ElementTypesParsed(entry) ==
    /\ HasNone(entry, {"element without name or id"})
    /\ \A p, q \in entry.elements : p[1] = q[1] => p = q

\* The Lola binding of a type, which needs a list of events or of fields.
LolaTypeParsed(entry) ==
    /\ HasNone(entry, {"no service id", "neither events nor fields"})
    /\ ElementTypesParsed(entry)
    /\ AreEventAndFieldIdsUnique(entry.elements)

(***************************************************************************)
(* The deployment of a type: its Lola binding, or blank when only SOME/IP  *)
(* is there.                                                               *)
(***************************************************************************)
TypeAccepted(entry) ==
    /\ IdentifierParsed(entry)
    /\ entry.binding \in {"SHM", "SOME/IP"}
    /\ entry.binding = "SHM" => LolaTypeParsed(entry)

TypeDeployment(entry) ==
    IF entry.binding = "SHM"
    THEN [serviceId |-> entry.serviceId, elements |-> entry.elements]
    ELSE Nothing

ParseServiceType ==
    /\ phase = "types"
    /\ entries < MaxTypes
    /\ \E entry \in TypeEntries :
         IF TypeAccepted(entry) /\ ServiceOf(entry) \notin DOMAIN config.types
         THEN /\ config' = [config EXCEPT !.types =
                              With(@, ServiceOf(entry), TypeDeployment(entry))]
              /\ entries' = entries + 1
              /\ UNCHANGED <<phase, filter, lolaRuntime, registered, registrations, lifecycle>>
         ELSE Terminate

\* The list of service types ends; without one the process does.
ParseServiceTypesEnd ==
    /\ phase = "types"
    /\ phase' = "instances" /\ entries' = 0
    /\ UNCHANGED <<config, filter, lolaRuntime, registered, registrations, lifecycle>>

\* ParseInstanceSpecifier.
SpecifierParsed(entry) == HasNone(entry, {"no specifier", "invalid specifier"})

\* ServiceElementInstanceDeploymentParser: the name of an element of the
\* instance, which may not be in its list before.
ElementsNamedOnce(entry) == HasNone(entry, {"element without name", "element twice"})

\* The events and fields of an instance, with the sizes given for them.
ElementInstancesParsed(entry) ==
    /\ HasNone(entry, {"maxConcurrentAllocations", "maxSamples and numberOfSampleSlots"})
    /\ ElementsNamedOnce(entry)

\* ParseAllowedUser: the lists are per quality.
UsersParsed(entry) == HasNone(entry, {"users of an unknown quality"})

\* ParsePermissionChecks.
PermissionsParsed(entry) == HasNone(entry, {"unknown permission"})

(***************************************************************************)
(* One service instance: exactly one deployment, with a Lola binding and a *)
(* known ASIL level, under a specifier that is not there yet.              *)
(***************************************************************************)
InstanceAccepted(entry) ==
    /\ SpecifierParsed(entry) /\ IdentifierParsed(entry)
    /\ HasNone(entry, {"no deployment", "two deployments"})
    /\ entry.asil \in Qualities
    /\ entry.binding = "SHM"
    /\ ElementInstancesParsed(entry) /\ PermissionsParsed(entry) /\ UsersParsed(entry)

(***************************************************************************)
(* ParseEventTracingEnabled, ParseFieldTracingEnabled: the elements of the *)
(* instance with enableIpcTracing, kept under the type name alone.         *)
(***************************************************************************)
TracedElements(entry) ==
    {[name |-> entry.name, element |-> x, specifier |-> entry.specifier] : x \in entry.traced}

(***************************************************************************)
(* ParseLolaServiceInstanceDeployment: what is kept of an instance.        *)
(***************************************************************************)
InstanceDeployment(entry) ==
    [service |-> ServiceOf(entry), asil |-> entry.asil, binding |-> entry.binding,
     id |-> entry.id, sizes |-> entry.sizes, strict |-> entry.strict,
     consumer |-> entry.consumer, provider |-> entry.provider]

ParseServiceInstance ==
    /\ phase = "instances"
    /\ entries < MaxInstances
    /\ \E entry \in InstanceEntries :
         IF InstanceAccepted(entry) /\ entry.specifier \notin DOMAIN config.instances
         THEN /\ config' =
                   [config EXCEPT
                      !.instances = With(@, entry.specifier, InstanceDeployment(entry)),
                      !.traced = IF config.tracing THEN @ \cup TracedElements(entry) ELSE @]
              /\ entries' = entries + 1
              /\ UNCHANGED <<phase, filter, lolaRuntime, registered, registrations, lifecycle>>
         ELSE Terminate

ParseServiceInstancesEnd ==
    /\ phase = "instances"
    /\ phase' = "global" /\ entries' = 0
    /\ UNCHANGED <<config, filter, lolaRuntime, registered, registrations, lifecycle>>

\* ParseShmSizeCalcMode.
CalcModeParsed(entry) == HasNone(entry, {"unknown shm-size-calc-mode"})

(***************************************************************************)
(* ParseGlobalProperties: QM when no level is given.  The sizes of the     *)
(* queues are left out.                                                    *)
(***************************************************************************)
ParseGlobalProperties ==
    /\ phase = "global"
    /\ \E entry \in GlobalEntries :
         IF CalcModeParsed(entry) /\ entry.asil \in Qualities \cup {Nothing}
         THEN /\ config' = [config EXCEPT !.asil =
                              IF entry.asil = Nothing THEN "QM" ELSE entry.asil]
              /\ phase' = "crosscheck"
              /\ UNCHANGED <<entries, filter, lolaRuntime, registered, registrations, lifecycle>>
         ELSE Terminate

(***************************************************************************)
(* CrosscheckAsilLevels: no instance above the level of the process.       *)
(***************************************************************************)
CrosscheckAsilLevels(c) ==
    \A i \in DOMAIN c.instances : c.instances[i].asil = "B" => c.asil = "B"

(***************************************************************************)
(* CrosscheckServiceInstancesToTypes: the type of an instance is there and *)
(* has a Lola binding (reading another alternative ends the process too),  *)
(* and has every element of the instance, by kind and name.                *)
(***************************************************************************)
CrosscheckServiceInstancesToTypes(c) ==
    \A i \in DOMAIN c.instances :
      LET instance == c.instances[i]
      IN  /\ instance.service \in DOMAIN c.types
          /\ c.types[instance.service] # Nothing
          /\ \A x \in DOMAIN instance.sizes :
               \E p \in c.types[instance.service].elements : p[1] = x

Crosscheck ==
    /\ phase = "crosscheck"
    /\ IF CrosscheckAsilLevels(config) /\ CrosscheckServiceInstancesToTypes(config)
       THEN /\ phase' = "parsed"
            /\ UNCHANGED <<config, entries, filter, lolaRuntime, registered, registrations, lifecycle>>
       ELSE Terminate

-----------------------------------------------------------------------------
(***************************************************************************)
(* The lifecycle of the runtime.  Runtime::mutex_ is held while a caller   *)
(* parses.  Initialize is refused once getInstance has locked the runtime. *)
(***************************************************************************)
InitializeAllowed == ~locked

Initialize ==
    /\ phase \in {"idle", "ready"} /\ caller = Nothing
    /\ initialized < MaxInitializes
    /\ initialized' = initialized + 1
    /\ IF InitializeAllowed
       THEN /\ StartParse("Initialize")
            /\ UNCHANGED <<locked, stored, accepted, filter, lolaRuntime, registered, registrations>>
       ELSE UNCHANGED <<phase, caller, config, entries, locked, stored, accepted, filter,
                        lolaRuntime, registered, registrations>>

(***************************************************************************)
(* StoreConfiguration: the parsed configuration waits for the runtime; an  *)
(* earlier one is replaced.                                                *)
(***************************************************************************)
StoreConfiguration ==
    /\ phase = "parsed" /\ caller = "Initialize"
    /\ stored' = config /\ accepted' = config
    /\ phase' = "idle" /\ caller' = Nothing
    /\ config' = EmptyConfig /\ entries' = 0
    /\ UNCHANGED <<initialized, locked, filter, lolaRuntime, registered, registrations>>

(***************************************************************************)
(* getInstance for the first time: locks the initialization, and takes the *)
(* stored configuration or parses the default one.                         *)
(***************************************************************************)
TakeStored ==
    /\ config' = stored /\ phase' = "parsed" /\ caller' = "getInstance"
    /\ stored' = Nothing /\ entries' = 0

getInstance ==
    /\ phase = "idle" /\ caller = Nothing
    /\ locked' = TRUE
    /\ IF stored = Nothing
       THEN StartParse("getInstance") /\ UNCHANGED stored
       ELSE TakeStored
    /\ UNCHANGED <<initialized, accepted, filter, lolaRuntime, registered, registrations>>

-----------------------------------------------------------------------------
(***************************************************************************)
(* The trace filter file (ParseTraceConfig).  It is not read when tracing  *)
(* is off; when it cannot be read there is no filter and no tracing.       *)
(***************************************************************************)
ParseTraceConfig ==
    /\ phase = "parsed" /\ caller = "getInstance"
    /\ \/ /\ config.tracing
          /\ phase' = "filter" /\ filter' = {} /\ entries' = 0
       \/ /\ phase' = "filtered"
          /\ UNCHANGED <<filter, entries>>
    /\ UNCHANGED <<config, lolaRuntime, registered, registrations, lifecycle>>

(***************************************************************************)
(* The instances of a service type, and its elements, by the name of the   *)
(* type alone: every version of it.                                        *)
(***************************************************************************)
GetInstancesOfServiceType(name) ==
    {i \in DOMAIN config.instances : config.instances[i].service[1] = name}

GetElementNamesOfServiceType(name) ==
    UNION {IF config.types[s] = Nothing THEN {} ELSE {p[1] : p \in config.types[s].elements} :
             s \in {t \in DOMAIN config.types : t[1] = name}}

\* TracingConfiguration::IsServiceElementTracingEnabled.
IsServiceElementTracingEnabled(name, x, i) ==
    [name |-> name, element |-> x, specifier |-> i] \in config.traced

(***************************************************************************)
(* An element of a service in the filter file adds its trace points for    *)
(* every instance of the service that has tracing enabled for it.          *)
(***************************************************************************)
AddedPoints(entry) ==
    {[name |-> entry.name, element |-> entry.element, point |-> p, specifier |-> i] :
       p \in entry.points,
       i \in {j \in GetInstancesOfServiceType(entry.name) :
                /\ entry.element \in GetElementNamesOfServiceType(entry.name)
                /\ IsServiceElementTracingEnabled(entry.name, entry.element, j)}}

ParseFilterElement ==
    /\ phase = "filter"
    /\ entries < MaxFilterEntries
    /\ \E entry \in FilterEntries : filter' = filter \cup AddedPoints(entry)
    /\ entries' = entries + 1
    /\ UNCHANGED <<phase, config, lolaRuntime, registered, registrations, lifecycle>>

ParseServicesEnd ==
    /\ phase = "filter"
    /\ phase' = "filtered" /\ entries' = 0
    /\ UNCHANGED <<config, filter, lolaRuntime, registered, registrations, lifecycle>>

-----------------------------------------------------------------------------
(***************************************************************************)
(* DoesTracePointNeedTraceDoneCB: the trace points that hold a sample      *)
(* until the trace is done.                                                *)
(***************************************************************************)
DoesTracePointNeedTraceDoneCB(p) == p \in {"SEND", "SEND_WITH_ALLOCATE"}

DonePoints == {t \in filter : DoesTracePointNeedTraceDoneCB(t.point)}

ElementOf(t) == <<t.name, t.element>>

(***************************************************************************)
(* FindNumberOfTracePointsNeedingTraceDoneCB: every element counts once,   *)
(* with the instances of the trace point of it that comes first in the     *)
(* unordered map (first, which may be any of them).                        *)
(***************************************************************************)
InstancesOf(x, p) == {t.specifier : t \in {d \in DonePoints : ElementOf(d) = x /\ d.point = p}}

CountElements(first) == Cardinality(DOMAIN first)

CountInstances(first) ==
    Cardinality({r \in (DOMAIN first) \X Specifiers : r[2] \in InstancesOf(r[1], first[r[1]])})

FirstPoints ==
    {first \in [{ElementOf(t) : t \in DonePoints} -> {t.point : t \in DonePoints}] :
       \A x \in DOMAIN first : InstancesOf(x, first[x]) # {}}

(***************************************************************************)
(* AggregateAllowedUsers over the instances, in any order (they are in an  *)
(* unordered map), the consumers of each before its providers.  No key     *)
(* adds nothing; an empty list allows everyone, which is the empty set,    *)
(* and ends the search.                                                    *)
(***************************************************************************)
StopOnly(sofar, list) ==
    IF sofar.everyone \/ list = Nothing THEN sofar
    ELSE IF list = {} THEN [sofar EXCEPT !.everyone = TRUE]
    ELSE [sofar EXCEPT !.users = @ \cup list]

AggregateAllowedUsers(sofar, list) ==
    IF sofar.everyone \/ list = Nothing THEN sofar
    ELSE IF list = {} THEN [users |-> {}, everyone |-> TRUE]
    ELSE [users |-> sofar.users \cup list, everyone |-> FALSE]

AggregateInstance(sofar, instance, q) ==
    AggregateAllowedUsers(AggregateAllowedUsers(sofar, instance.consumer[q]), instance.provider[q])

AllowedUsers(instances, order, q) ==
    FoldLeft(LAMBDA sofar, i : AggregateInstance(sofar, instances[i], q),
             [users |-> {}, everyone |-> FALSE], order).users

HasAsilBSupport == config.asil = "B"

\* GetMessagePassingCfg: a receiver for QM, and one for ASIL-B in an ASIL-B process.
GetMessagePassingCfg(order) ==
    [q \in IF HasAsilBSupport THEN Qualities ELSE {"QM"} |-> AllowedUsers(config.instances, order, q)]

(***************************************************************************)
(* The constructor of Runtime, with RuntimeBindingFactory: a Lola runtime  *)
(* if some type has a Lola binding, with room for the samples being traced *)
(* if there is a filter.                                                   *)
(***************************************************************************)
HasLolaBinding == \E s \in DOMAIN config.types : config.types[s] # Nothing

RuntimeOf(first, order) ==
    IF HasLolaBinding
    THEN [samplePtrs |-> IF filter = Nothing THEN Nothing ELSE CountInstances(first),
          allowed |-> GetMessagePassingCfg(order)]
    ELSE NoRuntime

\* The orders in which the maps may be walked.
PossibleFirst == IF filter = Nothing THEN {<<>>} ELSE FirstPoints
PossibleOrders == SetToSeqs(DOMAIN config.instances)

CreateRuntime ==
    /\ phase = "filtered"
    /\ \E first \in PossibleFirst, order \in PossibleOrders : lolaRuntime' = RuntimeOf(first, order)
    /\ phase' = "ready" /\ caller' = Nothing
    /\ UNCHANGED <<config, entries, filter, registered, registrations, initialized, locked, stored, accepted>>

(***************************************************************************)
(* RegisterServiceElement, whenever the skeleton of an instance is built:  *)
(* an element with a trace point that holds samples takes the next sample  *)
(* pointer, which it keeps when the skeleton is destroyed.  The process    *)
(* ends when none is left.                                                 *)
(***************************************************************************)
RegisterServiceElement(i, x) ==
    /\ phase = "ready" /\ lolaRuntime.samplePtrs # Nothing
    /\ x \in DOMAIN config.instances[i].sizes
    /\ \E t \in DonePoints :
         t.specifier = i /\ t.element = x /\ t.name = config.instances[i].service[1]
    /\ registered' = registered \cup {<<i, x>>}
    /\ registrations' = registrations + 1
    /\ phase' = IF registrations < lolaRuntime.samplePtrs THEN phase ELSE "terminated"
    /\ UNCHANGED <<config, entries, filter, lolaRuntime, lifecycle>>

-----------------------------------------------------------------------------
Built == {"parsed", "filter", "filtered", "ready"}

(* An instance has a Lola type, which has one id for each of its elements. *)
IdsOf(t, x) == {p[2] : p \in {e \in t.elements : e[1] = x}}

Resolves(instance, t) ==
    /\ t # Nothing
    /\ \A x \in DOMAIN instance.sizes : Cardinality(IdsOf(t, x)) = 1
    /\ \A x, y \in DOMAIN instance.sizes : x # y => IdsOf(t, x) \cap IdsOf(t, y) = {}

(***************************************************************************)
(* In every configuration that is used, each Lola instance resolves to a   *)
(* Lola type, and its elements to identifiers of that type that tell       *)
(* them apart: the binding factories look both up without asking again     *)
(* (events_.at, instance_id_.value), and the identifiers are the keys of   *)
(* the shared memory's maps.                                               *)
(***************************************************************************)
DeploymentsResolve ==
    phase \in Built =>
      \A i \in DOMAIN config.instances :
        LET instance == config.instances[i]
        IN  instance.binding = "SHM" =>
            /\ instance.service \in DOMAIN config.types
            /\ Resolves(instance, config.types[instance.service])

(***************************************************************************)
(* A trace point is on only where both files ask for it: tracing is        *)
(* enabled, and the instance it names is deployed, is of the named type    *)
(* and has the element, in its own version of the type.  The filter        *)
(* matches types by name alone, over all versions.                         *)
(***************************************************************************)
TracePointsAreConfigured ==
    filter # Nothing =>
      \A t \in filter :
        /\ config.tracing
        /\ t.specifier \in DOMAIN config.instances
        /\ config.instances[t.specifier].service[1] = t.name
        /\ t.element \in DOMAIN config.instances[t.specifier].sizes
        /\ \E p \in config.types[config.instances[t.specifier].service].elements : p[1] = t.element

(***************************************************************************)
(* A configuration an Initialize accepted reaches the runtime: none waits  *)
(* once the runtime is locked, and the runtime uses the last one.          *)
(***************************************************************************)
AcceptedConfigurationIsUsed ==
    locked /\ accepted # Nothing =>
      stored = Nothing /\ (phase \in Built => config = accepted)

(***************************************************************************)
(* There is a sample pointer for every traced element of every instance,   *)
(* whichever trace point of an element the count came across first: a      *)
(* registration only ends a running process that has registered some       *)
(* element more than once, by building a skeleton of its instance again.   *)
(***************************************************************************)
OnlyRepeatsEndTheProcess ==
    phase = "terminated" /\ caller = Nothing => registrations > Cardinality(registered)

(***************************************************************************)
(* Registering traced elements never ends a running process (refuted: the  *)
(* index of a sample pointer is never given back).                         *)
(***************************************************************************)
TracersNeverEndTheProcess == phase = "terminated" => caller # Nothing

(***************************************************************************)
(* Every user some instance lists for a quality may send to the receiver   *)
(* of that quality, and everyone may if a list is empty, in whichever      *)
(* order the instances come: an empty result means everyone.               *)
(***************************************************************************)
ListedUsersAreAdmitted ==
    phase = "ready" =>
      \A q \in DOMAIN lolaRuntime.allowed : \A i \in DOMAIN config.instances :
        \A list \in {config.instances[i].consumer[q], config.instances[i].provider[q]} \ {Nothing} :
          lolaRuntime.allowed[q] = {} \/ (list # {} /\ list \subseteq lolaRuntime.allowed[q])

(***************************************************************************)
(* An instance that lists no consumers for a quality leaves its messaging  *)
(* endpoint open to everyone (refuted: another instance's list closes the  *)
(* receiver the instances share).                                          *)
(***************************************************************************)
UnlistedInstancesStayOpen ==
    phase = "ready" =>
      \A q \in DOMAIN lolaRuntime.allowed :
        (\E i \in DOMAIN config.instances :
           config.instances[i].consumer[q] = Nothing /\ config.instances[i].provider[q] = Nothing)
          => lolaRuntime.allowed[q] = {}
=============================================================================
