------------------------------ MODULE Bindings ------------------------------
(***************************************************************************)
(* The identifiers of service instances in a process, and the elements of  *)
(* the Lola binding that proxies and skeletons are made of from them.  An  *)
(* identifier is resolved from a specifier of the configuration, or made   *)
(* from the text of an identifier of another process: that adds the        *)
(* deployments in the text to the configuration, which the next getInstance*)
(* takes over.                                                             *)
(***************************************************************************)
EXTENDS Configuration

CONSTANTS
    Remote,       \* identifiers in other processes: [specifier, instance, type]
    OtherTexts,   \* other texts Create may get: JSON objects, or Nothing for no JSON
    FoundIds      \* instance ids a search without one may find

(***************************************************************************)
(* What other processes send is what a configuration of theirs resolves,   *)
(* as it does in every configuration that was parsed.  A text that is not  *)
(* the text of an identifier cannot be read as one.                        *)
(***************************************************************************)
IsIdentifier(r) ==
    /\ IsInstanceDeployment(r.instance) /\ IsTypeDeployment(r.type)
    /\ r.instance.binding = "SHM" => Resolves(r.instance, r.type)

ASSUME TextAssumption ==
    /\ \A r \in Remote : r # Nothing /\ IsIdentifier(r)
    /\ \A json \in OtherTexts : json = Nothing \/ ~IdentifierReadable(json)

\* A text, with the identifier it is the text of.
Texts ==
    {[of |-> r, json |-> SerializeIdentifier(r.specifier, r.instance, r.type)] : r \in Remote}
      \cup {[of |-> Nothing, json |-> json] : json \in OtherTexts}

VARIABLES
    received,  \* the remote identifier one was created from, or Nothing
    bound      \* an element made for a proxy or a skeleton, or Nothing

bindings == <<received, bound>>
allVars == <<configurationVars, bindings>>

BindingsInit == ConfigurationInit /\ received = Nothing /\ bound = Nothing

(* A call that ends a running process.                                     *)
Misused ==
    /\ phase' = "misused"
    /\ UNCHANGED <<config, entries, filter, lolaRuntime, registered, registrations, lifecycle, bindings>>

(***************************************************************************)
(* The identifier enters the type and the instance into the configuration: *)
(* one that is there already ends the process.                             *)
(***************************************************************************)
AddServiceTypeDeployment(c, service, t) == [c EXCEPT !.types = With(@, service, t)]

AddServiceInstanceDeployments(c, specifier, d) == [c EXCEPT !.instances = With(@, specifier, d)]

Extended(c, json) ==
    LET d == InstanceFromJson(json.serviceInstanceDeployment)
        t == TypeFromJson(json.serviceTypeDeployment)
    IN  AddServiceInstanceDeployments(AddServiceTypeDeployment(c, d.service, t),
                                      json.serviceInstanceDeployment.instanceSpecifier, d)

MayExtend(c, json) ==
    /\ ServiceFromJson(json.serviceInstanceDeployment.service) \notin DOMAIN c.types
    /\ json.serviceInstanceDeployment.instanceSpecifier \notin DOMAIN c.instances

(***************************************************************************)
(* InstanceIdentifier::Create.  The configuration it extends is the one    *)
(* Initialize stored (a process that never calls Initialize has none and   *)
(* the call fails, as it does for a text that is no JSON).  Once           *)
(* getInstance has taken that configuration the pointer to it dangles.     *)
(***************************************************************************)
Create ==
    /\ phase \in {"idle", "ready"} /\ caller = Nothing
    /\ received = Nothing
    /\ \E text \in Texts :
         \/ /\ accepted = Nothing \/ text.json = Nothing
            /\ UNCHANGED allVars
         \/ /\ accepted # Nothing /\ text.json # Nothing /\ stored = Nothing
            /\ Misused \/ UNCHANGED allVars
         \/ /\ stored # Nothing /\ text.json # Nothing
            /\ IF IdentifierReadable(text.json) /\ MayExtend(stored, text.json)
               THEN /\ stored' = Extended(stored, text.json) /\ accepted' = stored'
                    /\ received' = text.of
                    /\ UNCHANGED <<parser, caller, initialized, locked, filter, lolaRuntime,
                                   registered, registrations, bound>>
               ELSE Misused

\* The identifiers made from a stored configuration go with it.
StoreConfigurationAnew == StoreConfiguration /\ received' = Nothing /\ UNCHANGED bound

-----------------------------------------------------------------------------
(***************************************************************************)
(* Runtime::resolve, GetInstanceIdentifier: the instance of a specifier,   *)
(* whose type is there.                                                    *)
(***************************************************************************)
resolve(i) ==
    i \in DOMAIN config.instances /\ config.instances[i].service \in DOMAIN config.types

TypeOf(i) == config.types[config.instances[i].service]

Known(t, x) == t # Nothing /\ \E p \in t.elements : p[1] = x

Bound(side, i, x, id, slots) ==
    [side |-> side, instance |-> i, element |-> x, fq |-> ElementFqId(TypeOf(i), x, id),
     files |-> FilesOf(TypeOf(i).serviceId, id), slots |-> slots]

(***************************************************************************)
(* An element of a skeleton: SkeletonBindingFactoryImpl,                   *)
(* SkeletonEventBindingFactoryImpl and SkeletonFieldBindingFactoryImpl     *)
(* look up its id and its sizes; one that is missing ends the process.     *)
(* Another binding than Lola makes no element.                             *)
(***************************************************************************)
SizesGiven(e) == Nothing \notin {e.slots, e.subscribers, e.enforce}

SkeletonElementDeployed(d, t, x) ==
    /\ Known(t, x) /\ d.id # Nothing
    /\ x \in DOMAIN d.sizes /\ SizesGiven(d.sizes[x])

BindSkeletonElement(i, x) ==
    /\ phase = "ready" /\ bound = Nothing
    /\ LET d == config.instances[i]
       IN  IF ~resolve(i) THEN Misused
           ELSE \/ d.binding # "SHM" /\ UNCHANGED allVars
                \/ d.binding = "SHM" /\ ~SkeletonElementDeployed(d, TypeOf(i), x) /\ Misused
                \/ /\ d.binding = "SHM" /\ SkeletonElementDeployed(d, TypeOf(i), x)
                   /\ bound' = Bound("skeleton", i, x, d.id, GetNumberOfSampleSlots(d.sizes[x]))
                   /\ UNCHANGED <<configurationVars, received>>

(***************************************************************************)
(* An element of a proxy, for the handle of an instance that was found:    *)
(* with the id of the configuration, or one that the search came across.   *)
(* A typed proxy names the element, a generic one takes the events of the  *)
(* type.                                                                   *)
(***************************************************************************)
HandlesOf(d) ==
    IF d.id = Nothing THEN {<<d.binding, id>> : id \in FoundIds} ELSE {GetServiceInstanceId(d)}

BindElement(i, x, id) ==
    \/ config.instances[i].binding # "SHM" /\ UNCHANGED allVars
    \/ config.instances[i].binding = "SHM" /\ ~Known(TypeOf(i), x) /\ Misused
    \/ /\ config.instances[i].binding = "SHM" /\ Known(TypeOf(i), x)
       /\ bound' = Bound("proxy", i, x, ExtractInstanceId(config.instances[i], id)[2], Nothing)
       /\ UNCHANGED <<configurationVars, received>>

BindProxyElement(i, x) ==
    /\ phase = "ready" /\ bound = Nothing /\ resolve(i)
    /\ \E id \in HandlesOf(config.instances[i]) : BindElement(i, x, id)

GetEventNameList(t) ==
    IF t = Nothing THEN {} ELSE {p[1] : p \in {q \in t.elements : q[1][1] = "EVENT"}}

BindGenericProxyElements(i) ==
    /\ phase = "ready" /\ bound = Nothing /\ resolve(i)
    /\ \E x \in GetEventNameList(TypeOf(i)), id \in HandlesOf(config.instances[i]) :
         BindElement(i, x, id)

Kept == UNCHANGED bindings

BindingsNext ==
    \/ Initialize /\ Kept
    \/ getInstance /\ Kept
    \/ ParseTracingProperties /\ Kept
    \/ ParseServiceType /\ Kept
    \/ ParseServiceTypesEnd /\ Kept
    \/ ParseServiceInstance /\ Kept
    \/ ParseServiceInstancesEnd /\ Kept
    \/ ParseGlobalProperties /\ Kept
    \/ Crosscheck /\ Kept
    \/ ParseTraceConfig /\ Kept
    \/ ParseFilterElement /\ Kept
    \/ ParseServicesEnd /\ Kept
    \/ CreateRuntime /\ Kept
    \/ StoreConfigurationAnew
    \/ \E i \in DOMAIN config.instances : \E x \in DOMAIN config.instances[i].sizes :
         RegisterServiceElement(i, x) /\ Kept
    \/ Create
    \/ \E i \in Specifiers \cup DOMAIN config.instances, x \in Elements : BindSkeletonElement(i, x)
    \/ \E i \in DOMAIN config.instances, x \in Elements : BindProxyElement(i, x)
    \/ \E i \in DOMAIN config.instances : BindGenericProxyElements(i)

BindingsSpec == BindingsInit /\ [][BindingsNext]_allVars

-----------------------------------------------------------------------------
(***************************************************************************)
(* The configuration is a configuration whatever the document holds, the   *)
(* filter holds trace points, and no more elements are registered for      *)
(* tracing than there are sample pointers.                                 *)
(***************************************************************************)
BindingsTypeOK ==
    /\ phase \in {"idle", "tracing", "types", "instances", "global", "crosscheck", "terminated",
                  "misused"} \cup Built
    /\ caller \in {Nothing, "Initialize", "getInstance"}
    /\ locked \in BOOLEAN
    /\ initialized \in 0..MaxInitializes
    /\ IsConfiguration(config)
    /\ DOMAIN config.types \subseteq Services \cup {r.instance.service : r \in Remote}
    /\ DOMAIN config.instances \subseteq Specifiers \cup {r.specifier : r \in Remote}
    /\ stored = Nothing \/ IsConfiguration(stored)
    /\ filter = Nothing \/ filter \subseteq TracePoints
    /\ registered # {} => Cardinality(registered) <= lolaRuntime.samplePtrs
    /\ registrations \in Nat
    /\ received \in Remote \cup {Nothing}

(***************************************************************************)
(* A running process with an ASIL-B instance of its own files has an       *)
(* ASIL-B receiver for its messages: an instance never offers a quality    *)
(* the process lacks.                                                      *)
(***************************************************************************)
ReceivedSpecifiers == IF received = Nothing THEN {} ELSE {received.specifier}

AsilBInstancesHaveAReceiver ==
    phase = "ready" =>
      \A i \in DOMAIN config.instances \ ReceivedSpecifiers :
        config.instances[i].asil = "B" => "B" \in DOMAIN lolaRuntime.allowed

(***************************************************************************)
(* An identifier made from a text means to its receiver what it means to   *)
(* the process the text comes from, from Create to the last use: it equals *)
(* the original and is compatible with it, gives equal handles with equal  *)
(* hashes, searches for the same service, admits the same users with the   *)
(* same sizes, and its text is the same, so that it can be passed on.      *)
(* Only the tracing flag stays behind.                                     *)
(***************************************************************************)
InUse == IF locked THEN config ELSE stored

Untraced(sizes) == [x \in DOMAIN sizes |-> [sizes[x] EXCEPT !.tracing = FALSE]]

ReceivedMeansTheSame ==
    received # Nothing /\ (locked => phase \in Built) =>
      LET d == InUse.instances[received.specifier]
          t == InUse.types[d.service]
          e == received.instance
      IN  /\ IdentifierEqual(d, e)
          /\ d.binding # "blank" => AreCompatible(d, e)
          /\ \A id \in HandlesOf(d) :
               HandleEqual(d, e, id) /\ HandleHash(d, t, id) = HandleHash(e, received.type, id)
          /\ SearchTarget(d, t) = SearchTarget(e, received.type)
          /\ d.binding = "SHM" =>
               /\ <<d.strict, d.consumer, d.provider>> = <<e.strict, e.consumer, e.provider>>
               /\ d.sizes = Untraced(e.sizes)
          /\ SerializeIdentifier(received.specifier, d, t)
               = SerializeIdentifier(received.specifier, e, received.type)

(***************************************************************************)
(* The element of a proxy or skeleton made from a received identifier is   *)
(* the sender's: the same id in the same instance, in the same files.  No  *)
(* other instance of the configuration with another service id or another  *)
(* instance id has a file in common with it.                               *)
(***************************************************************************)
BoundElementsAreTheSenders ==
    bound # Nothing =>
      /\ bound.instance \in ReceivedSpecifiers =>
           /\ bound.fq = ElementFqId(received.type, bound.element, bound.fq.instance)
           /\ received.instance.id \in {Nothing, bound.fq.instance}
           /\ bound.files = FilesOf(received.type.serviceId, bound.fq.instance)
      /\ \A i \in DOMAIN config.instances :
           LET t == TypeOf(i)
           IN  t # Nothing /\ config.instances[i].id # Nothing
               /\ <<t.serviceId, config.instances[i].id>> # <<bound.fq.service, bound.fq.instance>>
               => bound.files \cap FilesOf(t.serviceId, config.instances[i].id) = {}

(***************************************************************************)
(* Whatever the two files hold, a configuration that is used is consistent *)
(* in itself, with the trace filter and with the runtime built from it,    *)
(* and with the identifiers other processes sent.                          *)
(***************************************************************************)
ConfigurationIsConsistent ==
    /\ BindingsTypeOK /\ DeploymentsResolve /\ AsilBInstancesHaveAReceiver
    /\ TracePointsAreConfigured /\ AcceptedConfigurationIsUsed
    /\ ReceivedMeansTheSame /\ BoundElementsAreTheSenders

-----------------------------------------------------------------------------
(***************************************************************************)
(* The inductive invariant of the proofs.                                  *)
(***************************************************************************)
Parsing == {"tracing", "types", "instances", "global", "crosscheck"}
Ended   == {"terminated", "misused"}

(* What a configuration holds: elements with tracing are elements of its   *)
(* instances.                                                              *)
IsTracedIn(c, t) ==
    /\ t = [name |-> t.name, element |-> t.element, specifier |-> t.specifier]
    /\ t.specifier \in DOMAIN c.instances
    /\ c.instances[t.specifier].service[1] = t.name
    /\ c.instances[t.specifier].binding = "SHM"
    /\ t.element \in DOMAIN c.instances[t.specifier].sizes

IsSane(c) ==
    /\ IsConfiguration(c)
    /\ DOMAIN c.types \subseteq Services \cup {r.instance.service : r \in Remote}
    /\ DOMAIN c.instances \subseteq Specifiers \cup {r.specifier : r \in Remote}
    /\ IsFiniteSet(DOMAIN c.instances) /\ IsFiniteSet(c.traced)
    /\ \A t \in c.traced : IsTracedIn(c, t)

(* What the parser has found when it comes to the cross checks.            *)
AsParsed(c) ==
    /\ \A s \in DOMAIN c.types :
         c.types[s] # Nothing => AreEventAndFieldIdsUnique(c.types[s].elements)
    /\ \A i \in DOMAIN c.instances : c.instances[i].binding = "SHM"

(* What a configuration has passed that is used; the instance in received  *)
(* was added later.                                                        *)
IsConsistent(c, added) ==
    \A i \in DOMAIN c.instances :
      /\ c.instances[i].binding = "SHM" =>
           /\ c.instances[i].service \in DOMAIN c.types
           /\ Resolves(c.instances[i], c.types[c.instances[i].service])
      /\ i \notin added =>
           /\ c.instances[i].binding = "SHM"
           /\ c.instances[i].asil = "B" => c.asil = "B"

(* A parser runs for a caller; the runtime is locked by the first          *)
(* getInstance, which takes over what is stored; filter, runtime and       *)
(* elements come afterwards.                                               *)
LifecycleInvariant ==
    /\ phase \in Parsing \cup (Built \ {"ready"}) => caller # Nothing
    /\ caller \in {Nothing, "Initialize", "getInstance"}
    /\ caller = "Initialize" => ~locked
    /\ phase = "idle" => ~locked
    /\ caller = "getInstance" \/ phase \in Built \ {"parsed"} => locked
    /\ locked => stored = Nothing
    /\ ~locked => accepted = stored
    /\ locked /\ accepted # Nothing => phase \in Built \cup Ended /\ config = accepted
    /\ phase \in {"idle", "parsed"} \cup Parsing => filter = Nothing
    /\ phase \notin {"ready"} \cup Ended =>
         registered = {} /\ registrations = 0 /\ bound = Nothing

ConfigurationInvariant ==
    /\ IsSane(config) /\ (stored = Nothing \/ IsSane(stored))
    /\ phase \in Parsing => AsParsed(config)
    /\ phase \in Built => IsConsistent(config, IF locked THEN ReceivedSpecifiers ELSE {})
    /\ stored = Nothing \/ IsConsistent(stored, ReceivedSpecifiers)

(* A trace point is of an element of a type, and on for all instances that *)
(* have its element traced.                                                *)
HasType(t) ==
    \E p \in config.types[config.instances[t.specifier].service].elements : p[1] = t.element

FilterInvariant ==
    filter # Nothing \/ phase = "filter" =>
      /\ config.tracing
      /\ \A t \in filter :
           /\ t \in TracePoints /\ IsServiceElementTracingEnabled(t.name, t.element, t.specifier)
           /\ HasType(t)
           /\ \A i \in DOMAIN config.instances :
                IsServiceElementTracingEnabled(t.name, t.element, i)
                  => [t EXCEPT !.specifier = i] \in filter

(* The elements registered for tracing are among those counted; each was   *)
(* registered at least once.                                               *)
RegistersFor(r) ==
    /\ r = <<r[1], r[2]>>
    /\ \E t \in DonePoints :
         t.specifier = r[1] /\ t.element = r[2] /\ t.name = config.instances[r[1]].service[1]

RuntimeInvariant ==
    /\ registrations \in Nat
    /\ phase = "ready" =>
         \E first \in PossibleFirst, order \in PossibleOrders : lolaRuntime = RuntimeOf(first, order)
    /\ registered # {} =>
         /\ filter # Nothing /\ IsFiniteSet(registered)
         /\ Cardinality(registered) <= lolaRuntime.samplePtrs
         /\ Cardinality(registered) <= registrations
         /\ \A r \in registered : RegistersFor(r)

(* The identifier that was received is in the configuration as it was sent.*)
Carries(c, r) ==
    LET d == c.instances[r.specifier]
        e == r.instance
    IN  /\ r.specifier \in DOMAIN c.instances /\ e.service \in DOMAIN c.types
        /\ <<d.service, d.asil, d.binding, d.id>> = <<e.service, e.asil, e.binding, e.id>>
        /\ d.binding = "SHM" =>
             /\ <<d.strict, d.consumer, d.provider>> = <<e.strict, e.consumer, e.provider>>
             /\ d.sizes = Untraced(e.sizes)
        /\ c.types[e.service] = r.type

ReceivedInvariant ==
    received # Nothing =>
      /\ received \in Remote
      /\ IF locked THEN phase \in Built \cup Ended ELSE stored # Nothing
      /\ Carries(InUse, received)

(* An element is made from an instance, for the id the instance has.       *)
BoundInvariant ==
    bound # Nothing =>
      LET d == config.instances[bound.instance]
          t == config.types[d.service]
          id == bound.fq.instance
      IN  /\ locked /\ bound.instance \in DOMAIN config.instances /\ d.binding = "SHM"
          /\ d.id \in {Nothing, id}
          /\ bound.fq = ElementFqId(t, bound.element, id) /\ bound.files = FilesOf(t.serviceId, id)

BindingsInvariant ==
    /\ LifecycleInvariant /\ ConfigurationInvariant /\ FilterInvariant
    /\ RuntimeInvariant /\ ReceivedInvariant /\ BoundInvariant
=============================================================================
