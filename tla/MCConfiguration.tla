-------------------------- MODULE MCConfiguration --------------------------
(***************************************************************************)
(* The entries the checked documents are made of: a service in two         *)
(* versions that share an event, a type with other bindings, and every     *)
(* kind of entry the parser refuses.                                       *)
(***************************************************************************)
EXTENDS Bindings

Event == <<"EVENT", "x">>
Field == <<"FIELD", "x">>
Other == <<"EVENT", "y">>

Type(version, elements) ==
    [name |-> "service", version |-> <<version, 0>>, serviceId |-> version, binding |-> "SHM", defects |-> {},
     elements |-> elements]

MCTypeEntries ==
    {Type(1, {<<Event, 1>>, <<Field, 2>>}),
     Type(2, {<<Event, 1>>, <<Other, 2>>}),
     Type(2, {<<Event, 1>>, <<Field, 1>>}),          \* an identifier twice
     Type(2, {<<Event, 1>>, <<Event, 2>>}),          \* a name twice
     [Type(2, {}) EXCEPT !.binding = "SOME/IP"],
     [Type(2, {}) EXCEPT !.binding = "unknown"]}
    \cup {[Type(2, {}) EXCEPT !.defects = {d}] :
            d \in {"no name", "no version", "no service id", "neither events nor fields",
                   "element without name or id"}}

Open == [q \in Qualities |-> Nothing]

Sizes == [slots |-> 4, subscribers |-> 2, allocations |-> 1, enforce |-> TRUE, tracing |-> FALSE]

Instance(specifier, version, elements, traced) ==
    [specifier |-> specifier, name |-> "service", version |-> <<version, 0>>, binding |-> "SHM",
     asil |-> "QM", defects |-> {}, sizes |-> [x \in elements |-> Sizes], id |-> version,
     strict |-> FALSE, traced |-> traced, consumer |-> Open, provider |-> Open]

MCInstanceEntries ==
    {Instance("i1", 1, {Event, Field}, {Event, Field}),
     [Instance("i1", 1, {Event}, {}) EXCEPT !.asil = "B",
        !.consumer = ("QM" :> {"u1"} @@ "B" :> {"u1"})],
     [Instance("i2", 2, {Event}, {Event}) EXCEPT !.consumer = ("QM" :> {"u1"} @@ "B" :> Nothing)],
     [Instance("i2", 1, {Event, Field}, {}) EXCEPT !.asil = "B", !.id = Nothing,
        !.consumer = ("QM" :> {} @@ "B" :> {"u2"}), !.provider = ("QM" :> {"u2"} @@ "B" :> Nothing),
        !.sizes[Event] = [Sizes EXCEPT !.subscribers = Nothing]],   \* for proxies only
     Instance("i3", 2, {Event, Field}, {Field}),     \* a field the type may not have
     Instance("i3", 3, {Event}, {Event}),            \* a version that is no type
     [Instance("i3", 1, {Event}, {}) EXCEPT !.asil = "unknown"],
     [Instance("i3", 1, {Event}, {}) EXCEPT !.binding = "SOME/IP"]}
    \cup {[Instance("i3", 1, {Event}, {}) EXCEPT !.defects = {d}] :
            d \in {"no specifier", "invalid specifier", "no name", "no version",
                   "no deployment", "two deployments", "element without name", "element twice",
                   "maxConcurrentAllocations", "maxSamples and numberOfSampleSlots",
                   "users of an unknown quality", "unknown permission"}}

MCGlobalEntries ==
    {[asil |-> a, defects |-> {}] : a \in {"QM", "B", "unknown", Nothing}}
    \cup {[asil |-> "B", defects |-> {"unknown shm-size-calc-mode"}]}

MCFilterEntries ==
    {[name |-> "service", element |-> Event, points |-> {"SEND"}],
     [name |-> "service", element |-> Event, points |-> {"SEND_WITH_ALLOCATE", "GET_NEW_SAMPLES"}],
     [name |-> "service", element |-> Field, points |-> {"SEND", "SEND_WITH_ALLOCATE"}],
     [name |-> "service", element |-> Other, points |-> {"SEND"}],
     [name |-> "elsewhere", element |-> Event, points |-> {"SEND"}]}

(***************************************************************************)
(* Identifiers of other processes: one for a service of its own, one of    *)
(* ASIL-B without an id and with sizes left out, one with another binding, *)
(* and ones whose specifier or service may be configured already.          *)
(***************************************************************************)
RemoteInstance(service, id) ==
    [service |-> <<service, <<1, 0>>>>, asil |-> "QM", binding |-> "SHM", id |-> id,
     sizes |-> Event :> Sizes @@ Field :> [Sizes EXCEPT !.tracing = TRUE],
     strict |-> TRUE, consumer |-> ("QM" :> {"u1"} @@ "B" :> Nothing),
     provider |-> ("QM" :> {} @@ "B" :> {"u2"})]

RemoteType == [serviceId |-> 7, elements |-> {<<Event, 1>>, <<Other, 2>>, <<Field, 3>>}]

RemoteIdentifier ==
    [specifier |-> "r1", instance |-> RemoteInstance("remote", 1), type |-> RemoteType]

MCRemote ==
    {RemoteIdentifier,
     [RemoteIdentifier EXCEPT !.instance =
        [RemoteInstance("remote", Nothing) EXCEPT
           !.asil = "B", !.sizes[Event] = [Sizes EXCEPT !.slots = Nothing, !.enforce = Nothing]]],
     [specifier |-> "r1", type |-> Nothing, instance |->
        [BlankInstance EXCEPT !.binding = "SOME/IP", !.id = 9]
          @@ [service |-> <<"remote", <<1, 0>>>>, asil |-> "QM"]],
     [RemoteIdentifier EXCEPT !.specifier = "i1"],
     [RemoteIdentifier EXCEPT !.instance = RemoteInstance("service", 1)]}

Damaged == SerializeIdentifier("r1", RemoteInstance("remote", 1), RemoteType)

MCOtherTexts ==
    {Nothing,
     [Damaged EXCEPT !.serializationVersion = 2],
     [Damaged EXCEPT !.serviceInstanceDeployment.asilLevel = "unknown"],
     [Damaged EXCEPT !.serviceInstanceDeployment.bindingInfoIndex = 3],
     [Damaged EXCEPT !.serviceTypeDeployment.bindingInfo.serializationVersion = 2],
     [serializationVersion |-> 1]}
=============================================================================
