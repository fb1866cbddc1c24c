---------------------------- MODULE Identifiers ----------------------------
(***************************************************************************)
(* What names a service instance: the deployments of its type and of       *)
(* itself, their serialised form, in which an InstanceIdentifier is passed *)
(* from one process to another as a text, and what the Lola binding makes  *)
(* of them: the ids of elements, the target of a search, the names of the  *)
(* files of an instance.                                                   *)
(*                                                                         *)
(* A JSON object is a function from its keys to values; an optional that   *)
(* is absent (Nothing) has no key.  Reading an object ends the process     *)
(* unless it is Readable: that is a predicate of its own here, and what is *)
(* read from a readable object another operator.  Every class has a        *)
(* serialisation version of its own, which is 1 for each of them.          *)
(***************************************************************************)
EXTENDS Naturals, FiniteSets

CONSTANT Nothing   \* the absent value of an optional

serializationVersion == 1

(* GetValueFromJson asserts that a key is there.                           *)
GetValueFromJson(json, keys) == keys \subseteq DOMAIN json

Versioned(json) ==
    /\ GetValueFromJson(json, {"serializationVersion"})
    /\ json.serializationVersion = serializationVersion

(* The keys of two objects; of a map and one more; of the values that are  *)
(* there.  (The provers know nothing of @@ and :>.)                        *)
Joined(json, more) ==
    [key \in (DOMAIN json) \cup (DOMAIN more) |->
        IF key \in DOMAIN json THEN json[key] ELSE more[key]]

With(map, key, value) ==
    [k \in {key} \cup DOMAIN map |-> IF k = key THEN value ELSE map[k]]

Optional(values) == [key \in {k \in DOMAIN values : values[k] # Nothing} |-> values[key]]

ValueOrNothing(json, key) == IF key \in DOMAIN json THEN json[key] ELSE Nothing

-----------------------------------------------------------------------------
(* What the classes hold.  A version is <<major, minor>>, a service        *)
(* <<name of the type, version>>, an element <<kind, name>>.               *)
IsQuality(q) == q \in {"invalid", "QM", "B"}

IsVersion(version) == version \in Nat \X Nat

IsService(service) == service = <<service[1], service[2]>> /\ IsVersion(service[2])

IsOptionalNumber(v) == v = Nothing \/ v \in Nat

(* LolaEventInstanceDeployment, of events and of fields.                   *)
IsElementDeployment(e) ==
    /\ e = [slots |-> e.slots, subscribers |-> e.subscribers, allocations |-> e.allocations,
            enforce |-> e.enforce, tracing |-> e.tracing]
    /\ \A size \in {"slots", "subscribers", "allocations"} : IsOptionalNumber(e[size])
    /\ e.enforce \in BOOLEAN \cup {Nothing} /\ e.tracing \in BOOLEAN

IsElement(x) == x = <<x[1], x[2]>> /\ x[1] \in {"EVENT", "FIELD"}

IsUserMap(users) ==
    /\ users = [q \in {"QM", "B"} |-> users[q]]
    /\ \A q \in DOMAIN users : users[q] = Nothing \/ IsFiniteSet(users[q])

(* LolaServiceInstanceDeployment; one of SOME/IP has no permissions.       *)
IsBindingDeployment(d) ==
    /\ IsOptionalNumber(d.id)
    /\ \A x \in DOMAIN d.sizes : IsElement(x) /\ IsElementDeployment(d.sizes[x])
    /\ d.strict \in BOOLEAN /\ IsUserMap(d.consumer) /\ IsUserMap(d.provider)

IsInstanceDeployment(d) ==
    /\ DOMAIN d = {"service", "asil", "binding", "id", "sizes", "strict", "consumer", "provider"}
    /\ IsService(d.service) /\ IsQuality(d.asil)
    /\ d.binding \in {"SHM", "SOME/IP", "blank"} /\ IsBindingDeployment(d)
    /\ d.binding = "blank" => d.id = Nothing

(* ServiceTypeDeployment: blank, or of Lola, a service id and the ids of   *)
(* its elements.  A name has one id.                                       *)
IsIdentifiedElement(p) == p = <<p[1], p[2]>> /\ IsElement(p[1]) /\ p[2] \in Nat

IsLolaTypeDeployment(t) ==
    /\ t = [serviceId |-> t.serviceId, elements |-> t.elements] /\ t.serviceId \in Nat
    /\ \A p \in t.elements : IsIdentifiedElement(p)
    /\ \A p, q \in t.elements : p[1] = q[1] => p = q

IsTypeDeployment(t) == t = Nothing \/ IsLolaTypeDeployment(t)

-----------------------------------------------------------------------------
(* Quality levels are written by name.                                     *)
QualityToString(q) ==
    CASE q = "invalid" -> "kInvalid" [] q = "QM" -> "kASIL_QM" [] q = "B" -> "kASIL_B"

QualityReadable(text) == text \in {"kInvalid", "kASIL_QM", "kASIL_B"}

QualityFromString(text) ==
    CASE text = "kInvalid" -> "invalid" [] text = "kASIL_QM" -> "QM" [] text = "kASIL_B" -> "B"

SerializeVersion(version) ==
    [serializationVersion |-> serializationVersion,
     majorVersion |-> version[1], minorVersion |-> version[2]]

VersionReadable(json) ==
    Versioned(json) /\ GetValueFromJson(json, {"majorVersion", "minorVersion"})

VersionFromJson(json) == <<json.majorVersion, json.minorVersion>>

SerializeService(service) ==
    [serializationVersion |-> serializationVersion,
     serviceType |-> service[1], version |-> SerializeVersion(service[2])]

ServiceReadable(json) ==
    /\ Versioned(json) /\ GetValueFromJson(json, {"serviceType", "version"})
    /\ VersionReadable(json.version)

ServiceFromJson(json) == <<json.serviceType, VersionFromJson(json.version)>>

(* A variant is written with the index of its alternative; the last one is *)
(* blank and has no content.  An index beyond it ends the process.         *)
Blank(alternatives) == alternatives - 1

VariantReadable(json, alternatives) ==
    /\ GetValueFromJson(json, {"bindingInfoIndex"})
    /\ json.bindingInfoIndex \in 0 .. alternatives - 1
    /\ json.bindingInfoIndex # Blank(alternatives) => GetValueFromJson(json, {"bindingInfo"})

SerializeVariant(index, alternatives, content) ==
    IF index = Blank(alternatives) THEN [bindingInfoIndex |-> index]
                                   ELSE [bindingInfoIndex |-> index, bindingInfo |-> content]

-----------------------------------------------------------------------------
(* The instance id of a binding: LolaServiceInstanceId and                 *)
(* SomeIpServiceInstanceId have the same form.                             *)
SerializeId(id) == [serializationVersion |-> serializationVersion, instanceId |-> id]

IdReadable(json) == Versioned(json) /\ GetValueFromJson(json, {"instanceId"})

IdFromJson(json) == json.instanceId

(* ServiceInstanceId: <<binding, id>>.  A blank one equals everything, on  *)
(* the left of the comparison only.                                        *)
ServiceInstanceIdEqual(lhs, rhs) == lhs[1] = "blank" \/ lhs = rhs

ServiceInstanceIdHash(id) == IF id[1] = "blank" THEN <<id[1]>> ELSE id

(* LolaEventInstanceDeployment, of events and fields: optional sizes and   *)
(* the tracing flag, which is not written and read as false.               *)
SerializeElement(e) ==
    Joined([serializationVersion |-> serializationVersion],
           Optional([numberOfSampleSlots |-> e.slots, maxSubscribers |-> e.subscribers,
                     maxConcurrentAllocations |-> e.allocations, enforceMaxSamples |-> e.enforce]))

ElementFromJson(json) ==
    [slots |-> ValueOrNothing(json, "numberOfSampleSlots"),
     subscribers |-> ValueOrNothing(json, "maxSubscribers"),
     allocations |-> ValueOrNothing(json, "maxConcurrentAllocations"),
     enforce |-> ValueOrNothing(json, "enforceMaxSamples"),
     tracing |-> FALSE]

(* The slots of an element: one more for the tracing subsystem.            *)
GetNumberOfSampleSlots(e) ==
    IF e.slots = Nothing THEN Nothing ELSE e.slots + (IF e.tracing THEN 1 ELSE 0)

(* The maps from the names of a kind of elements to their deployments, to  *)
(* their ids and from qualities to users.                                  *)
Named(map, kind) == {x \in DOMAIN map : x[1] = kind}

ConvertServiceElementMapToJson(map, kind) ==
    [n \in {x[2] : x \in Named(map, kind)} |-> SerializeElement(map[<<kind, n>>])]

ElementMapReadable(json, key) ==
    /\ GetValueFromJson(json, {key})
    /\ \A n \in DOMAIN json[key] : Versioned(json[key][n])

ConvertJsonToServiceElementMap(json, key, kind) ==
    [x \in {<<kind, n>> : n \in DOMAIN json[key]} |-> ElementFromJson(json[key][x[2]])]

ConvertServiceElementIdMapToJson(ids, kind) ==
    [n \in {p[1][2] : p \in {q \in ids : q[1][1] = kind}} |->
        (CHOOSE p \in ids : p[1] = <<kind, n>>)[2]]

ConvertJsonToServiceElementIdMap(json, key, kind) ==
    {<<<<kind, n>>, json[key][n]>> : n \in DOMAIN json[key]}

Listed(users) == {q \in DOMAIN users : users[q] # Nothing}

ConvertUidMapToJson(users) ==
    [text \in {QualityToString(q) : q \in Listed(users)} |-> users[QualityFromString(text)]]

UidMapReadable(json, key) ==
    GetValueFromJson(json, {key}) /\ \A text \in DOMAIN json[key] : QualityReadable(text)

ConvertJsonToUidMap(json, key) ==
    [q \in {"QM", "B"} |-> ValueOrNothing(json[key], QualityToString(q))]

-----------------------------------------------------------------------------
(* The deployment of an instance on a binding.                             *)
SerializeOptionalId(id) == IF id = Nothing THEN <<>> ELSE [instanceId |-> SerializeId(id)]

SerializeLolaInstance(d) ==
    Joined([serializationVersion |-> serializationVersion,
            events |-> ConvertServiceElementMapToJson(d.sizes, "EVENT"),
            fields |-> ConvertServiceElementMapToJson(d.sizes, "FIELD"),
            strict |-> d.strict,
            allowedConsumer |-> ConvertUidMapToJson(d.consumer),
            allowedProvider |-> ConvertUidMapToJson(d.provider)],
           SerializeOptionalId(d.id))

OptionalIdReadable(json) == "instanceId" \in DOMAIN json => IdReadable(json.instanceId)

LolaInstanceReadable(json) ==
    /\ Versioned(json) /\ GetValueFromJson(json, {"strict"})
    /\ ElementMapReadable(json, "events") /\ ElementMapReadable(json, "fields")
    /\ UidMapReadable(json, "allowedConsumer") /\ UidMapReadable(json, "allowedProvider")
    /\ OptionalIdReadable(json)

OptionalId(json) ==
    IF "instanceId" \in DOMAIN json THEN IdFromJson(json.instanceId) ELSE Nothing

ElementsFromJson(json) ==
    Joined(ConvertJsonToServiceElementMap(json, "events", "EVENT"),
           ConvertJsonToServiceElementMap(json, "fields", "FIELD"))

LolaInstanceFromJson(json) ==
    [binding |-> "SHM", id |-> OptionalId(json), sizes |-> ElementsFromJson(json),
     strict |-> json.strict,
     consumer |-> ConvertJsonToUidMap(json, "allowedConsumer"),
     provider |-> ConvertJsonToUidMap(json, "allowedProvider")]

(* A SOME/IP deployment has an id and elements only; the elements' own     *)
(* deployments are left out.                                               *)
SerializeSomeIpInstance(d) ==
    Joined([serializationVersion |-> serializationVersion, events |-> <<>>, fields |-> <<>>],
           SerializeOptionalId(d.id))

SomeIpInstanceReadable(json) ==
    /\ ElementMapReadable(json, "events") /\ ElementMapReadable(json, "fields")
    /\ OptionalIdReadable(json) /\ Versioned(json)

NoUsers == [q \in {"QM", "B"} |-> Nothing]

SomeIpInstanceFromJson(json) ==
    [binding |-> "SOME/IP", id |-> OptionalId(json), sizes |-> ElementsFromJson(json),
     strict |-> FALSE, consumer |-> NoUsers, provider |-> NoUsers]

BlankInstance ==
    [binding |-> "blank", id |-> Nothing, sizes |-> <<>>, strict |-> FALSE,
     consumer |-> NoUsers, provider |-> NoUsers]

(* ServiceInstanceDeployment: the service, the ASIL level and the          *)
(* specifier of an instance, with its binding's deployment.                *)
InstanceBindingIndex(d) ==
    CASE d.binding = "SHM" -> 0 [] d.binding = "SOME/IP" -> 1 [] d.binding = "blank" -> 2

SerializeInstance(specifier, d) ==
    Joined([serializationVersion |-> serializationVersion, asilLevel |-> QualityToString(d.asil),
            service |-> SerializeService(d.service), instanceSpecifier |-> specifier],
           SerializeVariant(InstanceBindingIndex(d), 3,
              IF d.binding = "SHM" THEN SerializeLolaInstance(d) ELSE SerializeSomeIpInstance(d)))

InstanceContentReadable(json) ==
    /\ VariantReadable(json, 3)
    /\ json.bindingInfoIndex = 0 => LolaInstanceReadable(json.bindingInfo)
    /\ json.bindingInfoIndex = 1 => SomeIpInstanceReadable(json.bindingInfo)

InstanceReadable(json) ==
    /\ GetValueFromJson(json, {"service", "asilLevel", "instanceSpecifier"})
    /\ ServiceReadable(json.service) /\ InstanceContentReadable(json)
    /\ QualityReadable(json.asilLevel) /\ Versioned(json)

BindingFromJson(json) ==
    CASE json.bindingInfoIndex = 0 -> LolaInstanceFromJson(json.bindingInfo)
      [] json.bindingInfoIndex = 1 -> SomeIpInstanceFromJson(json.bindingInfo)
      [] json.bindingInfoIndex = 2 -> BlankInstance

InstanceFromJson(json) ==
    Joined([service |-> ServiceFromJson(json.service), asil |-> QualityFromString(json.asilLevel)],
           BindingFromJson(json))

(* Equality looks at the level and the binding's id only.                  *)
InstanceEqual(d, e) == d.asil = e.asil /\ d.binding = e.binding /\ d.id = e.id

(* Two deployments of a binding are compatible if one has no id, or both   *)
(* have the same.                                                          *)
BindingCompatible(d, e) == Nothing \in {d.id, e.id} \/ d.id = e.id

AreCompatible(d, e) ==
    /\ d.asil = e.asil
    /\ d.binding = e.binding /\ d.binding # "blank"
    /\ BindingCompatible(d, e)

-----------------------------------------------------------------------------
(* The deployment of a type: for Lola a service id, and the ids of its     *)
(* elements as pairs <<element, id>>; Nothing is the blank one.            *)
SerializeLolaType(t) ==
    [serializationVersion |-> serializationVersion, serviceId |-> t.serviceId,
     events |-> ConvertServiceElementIdMapToJson(t.elements, "EVENT"),
     fields |-> ConvertServiceElementIdMapToJson(t.elements, "FIELD")]

LolaTypeReadable(json) ==
    Versioned(json) /\ GetValueFromJson(json, {"serviceId", "events", "fields"})

LolaTypeFromJson(json) ==
    [serviceId |-> json.serviceId,
     elements |-> ConvertJsonToServiceElementIdMap(json, "events", "EVENT")
                  \cup ConvertJsonToServiceElementIdMap(json, "fields", "FIELD")]

SerializeType(t) ==
    Joined([serializationVersion |-> serializationVersion],
           IF t = Nothing THEN SerializeVariant(1, 2, <<>>)
                          ELSE SerializeVariant(0, 2, SerializeLolaType(t)))

TypeReadable(json) ==
    /\ VariantReadable(json, 2)
    /\ json.bindingInfoIndex = 0 => LolaTypeReadable(json.bindingInfo)
    /\ Versioned(json)

TypeFromJson(json) ==
    IF json.bindingInfoIndex = 0 THEN LolaTypeFromJson(json.bindingInfo) ELSE Nothing

-----------------------------------------------------------------------------
(* InstanceIdentifier: the text another process can make it from.          *)
SerializeIdentifier(specifier, d, t) ==
    [serializationVersion |-> serializationVersion,
     serviceInstanceDeployment |-> SerializeInstance(specifier, d),
     serviceTypeDeployment |-> SerializeType(t)]

IdentifierReadable(json) ==
    /\ Versioned(json)
    /\ GetValueFromJson(json, {"serviceInstanceDeployment", "serviceTypeDeployment"})
    /\ InstanceReadable(json.serviceInstanceDeployment)
    /\ TypeReadable(json.serviceTypeDeployment)

IdentifierEqual(d, e) == d.service = e.service /\ InstanceEqual(d, e)

(* The id in the configuration, if there is one.                           *)
GetServiceInstanceId(d) ==
    IF d.binding = "blank" \/ d.id = Nothing THEN Nothing ELSE <<d.binding, d.id>>

(* HandleType: an id is given, or the configuration has one.               *)
ExtractInstanceId(d, id) == IF id # Nothing THEN id ELSE GetServiceInstanceId(d)

HandleEqual(d, e, id) ==
    IdentifierEqual(d, e) /\ ServiceInstanceIdEqual(ExtractInstanceId(d, id), ExtractInstanceId(e, id))

HandleHash(d, t, id) ==
    <<ServiceInstanceIdHash(ExtractInstanceId(d, id)), IF t = Nothing THEN Nothing ELSE t.serviceId>>

-----------------------------------------------------------------------------
(* What the Lola binding makes of an identifier.  EnrichedInstanceIdentifier*)
(* of a search: service id, the id if there is one, and the quality.       *)
GetBindingSpecificServiceId(t) == IF t = Nothing THEN Nothing ELSE t.serviceId

GetBindingSpecificInstanceId(id) ==
    IF id = Nothing \/ id[1] # "SHM" THEN Nothing ELSE id[2]

SearchTarget(d, t) ==
    <<GetBindingSpecificServiceId(t), GetBindingSpecificInstanceId(GetServiceInstanceId(d)), d.asil>>

(* ElementFqId of an element of an instance.                               *)
IdOfElement(t, x) == (CHOOSE p \in t.elements : p[1] = x)[2]

ElementFqId(t, x, id) == [service |-> t.serviceId, element |-> IdOfElement(t, x), instance |-> id]

(* The files of an instance: shared memory objects and marker files.       *)
AppendServiceAndInstance(serviceId, id) == <<serviceId, id>>

ControlFile(serviceId, id, q) ==
    <<"lola-ctl-", AppendServiceAndInstance(serviceId, id), IF q = "B" THEN "-b" ELSE "">>

DataFile(serviceId, id) == <<"lola-data-", AppendServiceAndInstance(serviceId, id), "">>

ExistenceMarker(serviceId, id) == <<"existence-", AppendServiceAndInstance(serviceId, id), "">>

UsageMarker(serviceId, id) == <<"usage-", AppendServiceAndInstance(serviceId, id), "">>

FilesOf(serviceId, id) ==
    {ControlFile(serviceId, id, q) : q \in {"QM", "B"}}
      \cup {DataFile(serviceId, id), ExistenceMarker(serviceId, id), UsageMarker(serviceId, id)}
=============================================================================
