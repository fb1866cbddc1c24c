--------------------------- MODULE ServiceElements ---------------------------
(***************************************************************************)
(* The binding independent service elements of mw::com and what they make  *)
(* of the shared memory below them: on the provider side a skeleton with   *)
(* its events and fields (SkeletonBase, SkeletonEventBase, SkeletonField), *)
(* on the consumer side one proxy with its events (Proxy, ProxyEventBase)  *)
(* and the SampleReferenceTracker that bounds the samples an application   *)
(* may hold.                                                               *)
(*                                                                         *)
(* Provider and consumer are different processes.  The provider uses its   *)
(* skeleton from one thread.  The consumer calls the proxy's functions     *)
(* from one thread, releases SamplePtrs from any thread, and the service   *)
(* discovery calls the availability handler from a third one.              *)
(*                                                                         *)
(* The layers below are abstracted: a slot is the timestamp published in   *)
(* it (EventDataControl models the slot words), the memory of the service  *)
(* is absent or present (PartialRestart models how it is found) and the    *)
(* discovery is the flag inDiscovery (ServiceDiscovery models the search). *)
(***************************************************************************)
EXTENDS Integers, FiniteSets, FiniteSetsExt

CONSTANTS
    Events,           \* the events of the service
    Fields,           \* its fields
    Watched,          \* the elements the proxy subscribes to
    SampleCount,      \* max_sample_count of a subscription
    NumberOfSlots,    \* sample slots of an element
    MaxUpdates,       \* bound: values sent or updated, over all elements
    MaxOffers,        \* bound: calls of OfferService
    WaitsForRelease   \* the application unsubscribes only after every
                      \* destructor of a SamplePtr has returned

Elements == Events \cup Fields

ASSUME ElementsAssumption ==
    /\ Events \cap Fields = {}
    /\ Watched \subseteq Elements
    /\ IsFiniteSet(Elements)

ASSUME BoundsAssumption ==
    /\ SampleCount \in Nat \ {0} /\ NumberOfSlots \in Nat
    /\ SampleCount < NumberOfSlots
    /\ MaxUpdates \in Nat /\ MaxOffers \in Nat
    /\ WaitsForRelease \in BOOLEAN

VARIABLES
    \* provider: the skeleton object and its flags
    skeleton,       \* "idle", "offering" (inside OfferService) or "gone"
    toPrepare,      \* elements OfferService still has to prepare
    offered,        \* SkeletonBase::service_offered_flag_
    elementOffered, \* SkeletonEventBase::service_offered_flag_ of an element
    prepared,       \* SkeletonFieldBase::was_prepare_offer_called_
    initialValue,   \* SkeletonField::initial_field_value_, 0 when empty
    clock,          \* lola SkeletonEvent::current_timestamp_
    accepted,       \* history: the last value an Update accepted
    updates,        \* history: number of values used so far
    offers,         \* history: number of calls of OfferService
    \* the memory of the service, in which provider and consumer meet
    generation,     \* how often it was created; 0 before the first time
    present,        \* it exists
    slots,          \* timestamps published in the slots of an element
    newest,         \* value of the newest sample of a field, 0 if none
    preparedIn,     \* history: generation in which a field was first sent
    inDiscovery,    \* the service discovery announces the instance
    \* consumer: the proxy, its events, their trackers and samples
    proxy,          \* "none" or "connected"
    isAvailable,    \* Proxy::is_service_instance_available_
    registered,     \* elements in Proxy::event_bindings_
    providerSeen,   \* provider_service_instance_is_available_ of an element
    subscription,   \* "not_subscribed", "pending" or "subscribed"
    available,      \* SampleReferenceTracker::available_samples_
    maxSamples,     \* SampleReferenceTracker::max_num_samples_
    lastSeen,       \* SlotCollector::last_ts_
    call,           \* the thread inside GetNewSamples
    samples,        \* timestamps of the SamplePtrs the application holds
    releasing       \* timestamps of SamplePtrs whose guard is returned and
                    \* whose slot is not yet

skeletonVars == <<skeleton, toPrepare, offered, offers>>
eventVars == <<elementOffered, clock>>
fieldVars == <<prepared, initialValue, accepted, updates>>
provider == <<skeletonVars, eventVars, fieldVars>>
memory == <<generation, present, slots, newest, preparedIn, inDiscovery>>
proxyVars == <<proxy, isAvailable, registered, providerSeen>>
trackerVars == <<available, maxSamples>>
sampleVars == <<call, samples, releasing>>
consumer == <<proxyVars, subscription, trackerVars, lastSeen, sampleVars>>
vars == <<provider, memory, consumer>>

Idle == [at |-> "idle"]

(* One type invariant: in particular a tracker never counts more free      *)
(* samples than its subscription has (sample_reference_tracker.cpp:185     *)
(* terminates the process otherwise).                                      *)
TypeOK ==
    /\ skeleton \in {"idle", "offering", "gone"}
    /\ toPrepare \subseteq Elements
    /\ offered \in BOOLEAN
    /\ elementOffered \in [Elements -> BOOLEAN]
    /\ prepared \in [Fields -> BOOLEAN]
    /\ initialValue \in [Fields -> 0 .. MaxUpdates]
    /\ clock \in [Elements -> Nat]
    /\ accepted \in [Fields -> 0 .. MaxUpdates]
    /\ updates \in 0 .. MaxUpdates
    /\ offers \in 0 .. MaxOffers
    /\ generation \in 0 .. MaxOffers
    /\ present \in BOOLEAN
    /\ slots \in [Elements -> SUBSET Nat]
    /\ newest \in [Fields -> 0 .. MaxUpdates]
    /\ preparedIn \in [Fields -> 0 .. MaxOffers]
    /\ inDiscovery \in BOOLEAN
    /\ proxy \in {"none", "connected"}
    /\ isAvailable \in BOOLEAN
    /\ registered \subseteq Watched
    /\ providerSeen \in [Watched -> BOOLEAN]
    /\ subscription \in
          [Watched -> {"not_subscribed", "pending", "subscribed"}]
    /\ maxSamples \in [Watched -> {0, SampleCount}]
    /\ available \in [Watched -> Nat]
    /\ \A e \in Watched : available[e] \in 0 .. maxSamples[e]
    /\ lastSeen \in [Watched -> Nat]
    /\ call.at \in {"idle", "allocate", "dispatch", "deliver"}
    /\ samples \in [Watched -> SUBSET Nat]
    /\ releasing \in [Watched -> SUBSET Nat]

(* SkeletonBase and its elements have just been constructed: no flag is    *)
(* set, no field has a value, and the proxy does not exist yet.            *)
Init ==
    /\ skeleton = "idle" /\ toPrepare = {} /\ offered = FALSE
    /\ elementOffered = [e \in Elements |-> FALSE]
    /\ prepared = [f \in Fields |-> FALSE]
    /\ initialValue = [f \in Fields |-> 0]
    /\ clock = [e \in Elements |-> 1]
    /\ accepted = [f \in Fields |-> 0]
    /\ updates = 0 /\ offers = 0
    /\ generation = 0 /\ present = FALSE
    /\ slots = [e \in Elements |-> {}]
    /\ newest = [f \in Fields |-> 0]
    /\ preparedIn = [f \in Fields |-> 0]
    /\ inDiscovery = FALSE
    /\ proxy = "none" /\ isAvailable = FALSE /\ registered = {}
    /\ providerSeen = [e \in Watched |-> FALSE]
    /\ subscription = [e \in Watched |-> "not_subscribed"]
    /\ available = [e \in Watched |-> 0]
    /\ maxSamples = [e \in Watched |-> 0]
    /\ lastSeen = [e \in Watched |-> 0]
    /\ call = Idle
    /\ samples = [e \in Watched |-> {}]
    /\ releasing = [e \in Watched |-> {}]

-----------------------------------------------------------------------------
(* The slots of an element, as far as the service elements see them.       *)

Collected(e) == IF call.at = "deliver" /\ call.element = e
                  THEN call.collected ELSE {}

(* Timestamps the consumer references: no writer may reuse their slots.    *)
Referenced(e) ==
    IF e \in Watched THEN samples[e] \cup releasing[e] \cup Collected(e)
                     ELSE {}

(* Allocation takes a slot that was never written or the oldest one nobody *)
(* references.                                                             *)
SlotFree(e) ==
    \/ Cardinality(slots[e]) < NumberOfSlots
    \/ slots[e] \ Referenced(e) # {}

Kept(e) ==
    IF Cardinality(slots[e]) < NumberOfSlots THEN slots[e]
    ELSE slots[e] \ {Min(slots[e] \ Referenced(e))}

(* lola SkeletonEvent::Send(value): allocate a slot, write, publish it with *)
(* the next timestamp.                                                      *)
Publish(e) ==
    /\ SlotFree(e)
    /\ clock' = [clock EXCEPT ![e] = @ + 1]
    /\ slots' = [slots EXCEPT ![e] = Kept(e) \cup {clock[e] + 1}]

-----------------------------------------------------------------------------
(* The provider: SkeletonEvent::Send and SkeletonField::Update.            *)

(* SkeletonEvent::Send by copy: kNotOffered unless the element is offered. *)
Send(e) ==
    /\ e \in Events
    /\ skeleton = "idle" /\ updates < MaxUpdates
    /\ elementOffered[e]
    /\ Publish(e)
    /\ updates' = updates + 1
    /\ UNCHANGED <<skeleton, toPrepare, offered, elementOffered, prepared,
                   initialValue, accepted, offers, generation, present,
                   newest, preparedIn, inDiscovery, consumer>>

DeferredWhenNotOffered(f) == ~elementOffered[f]

(* SkeletonField::Update before the first PrepareOffer saves the value.    *)
Deferred(f) == ~prepared[f]

SaveInitialValue(f) ==
    /\ skeleton = "idle" /\ updates < MaxUpdates
    /\ Deferred(f)
    /\ updates' = updates + 1
    /\ initialValue' = [initialValue EXCEPT ![f] = updates + 1]
    /\ accepted' = [accepted EXCEPT ![f] = updates + 1]
    /\ UNCHANGED <<skeleton, toPrepare, offered, elementOffered, prepared,
                   clock, offers, memory, consumer>>

(* Later it sends the value; while the element is not offered, or when no  *)
(* slot is free, the call fails and changes nothing.                       *)
Update(f) ==
    /\ skeleton = "idle" /\ updates < MaxUpdates
    /\ ~Deferred(f) /\ elementOffered[f]
    /\ Publish(f)
    /\ updates' = updates + 1
    /\ newest' = [newest EXCEPT ![f] = updates + 1]
    /\ accepted' = [accepted EXCEPT ![f] = updates + 1]
    /\ UNCHANGED <<skeleton, toPrepare, offered, elementOffered, prepared,
                   initialValue, offers, generation, present, preparedIn,
                   inDiscovery, consumer>>

-----------------------------------------------------------------------------
(* The provider: SkeletonBase::OfferService, in its steps.                 *)

(* lola Skeleton::PrepareOffer: memory that proxies still use is opened    *)
(* again, any other is removed and created anew.                           *)
NeverReused == FALSE

Reused == proxy = "connected" /\ present

(* OfferService begins with PrepareOffer of the skeleton binding.          *)
BindingPrepareOffer ==
    /\ skeleton = "idle" /\ offers < MaxOffers
    /\ skeleton' = "offering"
    /\ offers' = offers + 1
    /\ toPrepare' = Elements
    /\ present' = TRUE
    /\ IF Reused
         THEN UNCHANGED <<generation, slots, newest>>
         ELSE /\ generation' = generation + 1
              /\ slots' = [e \in Elements |-> {}]
              /\ newest' = [f \in Fields |-> 0]
    /\ UNCHANGED <<offered, elementOffered, prepared, initialValue, clock,
                   accepted, updates, preparedIn, inDiscovery, consumer>>

(* lola SkeletonEvent::PrepareOffer continues after the newest timestamp.  *)
LatestTimestamp(e) == Max(slots[e] \cup {1})

(* OfferServiceEvents: SkeletonEventBase::PrepareOffer of one event.       *)
PrepareEvent(e) ==
    /\ skeleton = "offering" /\ e \in toPrepare \cap Events
    /\ toPrepare' = toPrepare \ {e}
    /\ elementOffered' = [elementOffered EXCEPT ![e] = TRUE]
    /\ clock' = [clock EXCEPT ![e] = LatestTimestamp(e)]
    /\ UNCHANGED <<skeleton, offered, prepared, initialValue, accepted,
                   updates, offers, memory, consumer>>

(* OfferServiceFields comes after the events.                              *)
FieldsNext(f) ==
    /\ skeleton = "offering" /\ f \in toPrepare \cap Fields
    /\ toPrepare \cap Events = {}

(* SkeletonFieldBase::PrepareOffer the first time: prepare the event, then *)
(* DoDeferredUpdate sends the saved value and forgets it.  It finds a slot: *)
(* a field that was never sent has none in use.                            *)
SentAt(f) == LatestTimestamp(f) + 1

PrepareFieldFirst(f) ==
    /\ FieldsNext(f)
    /\ ~prepared[f] /\ initialValue[f] # 0
    /\ SlotFree(f)
    /\ toPrepare' = toPrepare \ {f}
    /\ elementOffered' = [elementOffered EXCEPT ![f] = TRUE]
    /\ clock' = [clock EXCEPT ![f] = SentAt(f)]
    /\ slots' = [slots EXCEPT ![f] = Kept(f) \cup {SentAt(f)}]
    /\ newest' = [newest EXCEPT ![f] = initialValue[f]]
    /\ prepared' = [prepared EXCEPT ![f] = TRUE]
    /\ preparedIn' = [preparedIn EXCEPT ![f] = generation]
    /\ initialValue' = [initialValue EXCEPT ![f] = 0]
    /\ UNCHANGED <<skeleton, offered, accepted, updates, offers, generation,
                   present, inDiscovery, consumer>>

(* The next times: only the event is prepared, no value is sent.           *)
PrepareFieldAgain(f) ==
    /\ FieldsNext(f)
    /\ prepared[f]
    /\ toPrepare' = toPrepare \ {f}
    /\ elementOffered' = [elementOffered EXCEPT ![f] = TRUE]
    /\ clock' = [clock EXCEPT ![f] = LatestTimestamp(f)]
    /\ UNCHANGED <<skeleton, offered, prepared, initialValue, accepted,
                   updates, offers, memory, consumer>>

(* No initial value, kFieldValueIsNotValid: OfferService returns and takes *)
(* nothing back that it has prepared.                                      *)
PrepareFieldFails(f) ==
    /\ FieldsNext(f)
    /\ ~prepared[f] /\ initialValue[f] = 0
    /\ skeleton' = "idle" /\ toPrepare' = {}
    /\ UNCHANGED <<offered, elementOffered, prepared, initialValue, clock,
                   accepted, updates, offers, memory, consumer>>

(* The flag is set before the discovery is asked: when the discovery fails *)
(* to announce the instance, the flag stays.                               *)
FinishOffer ==
    /\ skeleton = "offering" /\ toPrepare = {}
    /\ skeleton' = "idle"
    /\ offered' = TRUE
    /\ inDiscovery' \in {inDiscovery, TRUE}
    /\ UNCHANGED <<toPrepare, elementOffered, prepared, initialValue, clock,
                   accepted, updates, offers, generation, present, slots,
                   newest, preparedIn, consumer>>

(* lola Skeleton::PrepareStopOffer removes memory no proxy uses.           *)
PrepareStopOffer ==
    IF proxy = "connected"
      THEN UNCHANGED <<present, slots, newest>>
      ELSE /\ present' = FALSE
           /\ slots' = [e \in Elements |-> {}]
           /\ newest' = [f \in Fields |-> 0]

(* PrepareStopOffer of every event and every field.                        *)
ElementsWithdrawn == [e \in Elements |-> FALSE]

(* SkeletonBase::StopOfferService: nothing unless the service is offered.  *)
StopOfferService ==
    /\ skeleton = "idle" /\ offered
    /\ inDiscovery' = FALSE
    /\ elementOffered' = ElementsWithdrawn
    /\ PrepareStopOffer
    /\ offered' = FALSE
    /\ UNCHANGED <<skeleton, toPrepare, prepared, initialValue, clock,
                   accepted, updates, offers, generation, preparedIn,
                   consumer>>

(* SkeletonBase::Cleanup, after the elements' own Cleanup.                 *)
Cleanup ==
    IF offered
      THEN /\ inDiscovery' = FALSE
           /\ PrepareStopOffer
           /\ offered' = FALSE
      ELSE UNCHANGED <<inDiscovery, present, slots, newest, offered>>

(* The skeleton is destroyed: first its elements, then ~SkeletonBase.      *)
DestroySkeleton ==
    /\ skeleton = "idle"
    /\ skeleton' = "gone"
    /\ elementOffered' = [e \in Elements |-> FALSE]
    /\ Cleanup
    /\ UNCHANGED <<toPrepare, prepared, initialValue, clock, accepted,
                   updates, offers, generation, preparedIn, consumer>>

-----------------------------------------------------------------------------
(* The consumer: the proxy and the availability of its service.            *)

(* A proxy is created for an instance the discovery has found.             *)
Connect ==
    /\ proxy = "none" /\ inDiscovery /\ present
    /\ proxy' = "connected"
    /\ isAvailable' = FALSE /\ registered' = {}
    /\ providerSeen' = [e \in Watched |-> FALSE]
    /\ UNCHANGED <<provider, memory, subscription, available, maxSamples,
                   lastSeen, call, samples, releasing>>

(* SubscriptionStateMachine::ReOfferEvent and StopOfferEvent.              *)
Notified(state, is) ==
    CASE state = "pending" /\ is -> "subscribed"
      [] state = "subscribed" /\ ~is -> "pending"
      [] OTHER -> state

RegisterWithoutNotice(e) ==
    /\ proxy = "connected" /\ e \in Watched \ registered
    /\ registered' = registered \cup {e}
    /\ UNCHANGED <<provider, memory, proxy, isAvailable, providerSeen,
                   subscription, available, maxSamples, lastSeen, call,
                   samples, releasing>>

(* Proxy::RegisterEventBinding: an event registered after the handler ran  *)
(* learns the availability here.                                           *)
RegisterEventBinding(e) ==
    /\ proxy = "connected" /\ e \in Watched \ registered
    /\ registered' = registered \cup {e}
    /\ providerSeen' = [providerSeen EXCEPT ![e] = isAvailable]
    /\ subscription' =
          [subscription EXCEPT ![e] = Notified(@, isAvailable)]
    /\ UNCHANGED <<provider, memory, proxy, isAvailable, available,
                   maxSamples, lastSeen, call, samples, releasing>>

(* The find service handler of the proxy, called by the discovery thread   *)
(* when the set of found instances changes, under the mutex of the         *)
(* registrations: ServiceAvailabilityChangeHandler tells every event.      *)
ServiceAvailabilityChangeHandler ==
    /\ proxy = "connected" /\ isAvailable # inDiscovery
    /\ isAvailable' = inDiscovery
    /\ providerSeen' = [e \in Watched |-> IF e \in registered
                          THEN inDiscovery ELSE providerSeen[e]]
    /\ subscription' = [e \in Watched |-> IF e \in registered
                          THEN Notified(subscription[e], inDiscovery)
                          ELSE subscription[e]]
    /\ UNCHANGED <<provider, memory, proxy, registered, available,
                   maxSamples, lastSeen, call, samples, releasing>>

-----------------------------------------------------------------------------
(* The consumer: subscriptions.                                            *)

(* ProxyEventBase::Subscribe resets the tracker before it asks the         *)
(* binding; the state machine enters the state the availability calls for. *)
Subscribe(e) ==
    /\ call = Idle /\ e \in registered
    /\ subscription[e] = "not_subscribed"
    /\ available' = [available EXCEPT ![e] = SampleCount]
    /\ maxSamples' = [maxSamples EXCEPT ![e] = SampleCount]
    /\ \/ /\ subscription' = [subscription EXCEPT ![e] =
                 IF providerSeen[e] THEN "subscribed" ELSE "pending"]
          /\ lastSeen' = [lastSeen EXCEPT ![e] = 0]
       \/ UNCHANGED <<subscription, lastSeen>>      \* the binding refuses
    /\ UNCHANGED <<provider, memory, proxy, isAvailable, registered,
                   providerSeen, call, samples, releasing>>

(* SampleReferenceTracker::IsUsed.                                         *)
IsUsed(e) == available[e] < maxSamples[e]

(* ProxyEventBase::Unsubscribe, by an application that follows its         *)
(* contract: no SamplePtr is held.  The code terminates it if the tracker  *)
(* is used.                                                                *)
Unsubscribe(e) ==
    /\ call = Idle
    /\ subscription[e] # "not_subscribed"
    /\ ~IsUsed(e)
    /\ WaitsForRelease => releasing[e] = {}
    /\ subscription' = [subscription EXCEPT ![e] = "not_subscribed"]
    /\ UNCHANGED <<provider, memory, proxy, isAvailable, registered,
                   providerSeen, available, maxSamples, lastSeen, call,
                   samples, releasing>>

(* The proxy is destroyed with its events: ~ProxyEventBase terminates when *)
(* samples are held, the binding unsubscribes, the usage marker is freed.  *)
(* The application has waited for the destructors of its SamplePtrs: the   *)
(* code only looks at the tracker.                                         *)
DestroyProxy ==
    /\ proxy = "connected" /\ call = Idle
    /\ \A e \in Watched : ~IsUsed(e) /\ releasing[e] = {}
    /\ proxy' = "none" /\ isAvailable' = FALSE /\ registered' = {}
    /\ providerSeen' = [e \in Watched |-> FALSE]
    /\ subscription' = [e \in Watched |-> "not_subscribed"]
    /\ available' = [e \in Watched |-> 0]
    /\ maxSamples' = [e \in Watched |-> 0]
    /\ lastSeen' = [e \in Watched |-> 0]
    /\ UNCHANGED <<provider, memory, call, samples, releasing>>

-----------------------------------------------------------------------------
(* The consumer: ProxyEvent::GetNewSamples.                                *)

GetNewSamples(e) ==
    /\ call = Idle /\ e \in registered
    /\ \E n \in 1 .. SampleCount + 1 :
          call' = [at |-> "allocate", element |-> e, wanted |-> n,
                   expected |-> available[e], guards |-> 0]
    /\ UNCHANGED <<provider, memory, proxy, isAvailable, registered,
                   providerSeen, subscription, available, maxSamples,
                   lastSeen, samples, releasing>>

(* A plain subtraction by a value computed from an older load.             *)
ExchangeUnchecked(c) ==
    LET n == Min({c.expected, c.wanted})
    IN  /\ available' = [available EXCEPT ![c.element] = c.expected - n]
        /\ call' = [c EXCEPT !.wanted = @ - n, !.guards = @ + n]

(* One round of the loop of SampleReferenceTracker::Allocate: the exchange *)
(* succeeds only when the counter still has the expected value; after a    *)
(* success the expected value is not read again.                           *)
Exchange(c) ==
    LET n == Min({c.expected, c.wanted})
    IN  IF available[c.element] = c.expected
          THEN /\ available' = [available EXCEPT ![c.element] = @ - n]
               /\ call' = [c EXCEPT !.wanted = @ - n, !.guards = @ + n]
          ELSE /\ call' = [c EXCEPT !.expected = available[c.element]]
               /\ UNCHANGED available

Allocate ==
    /\ call.at = "allocate" /\ call.wanted > 0 /\ call.expected > 0
    /\ Exchange(call)
    /\ UNCHANGED <<provider, memory, proxy, isAvailable, registered,
                   providerSeen, subscription, maxSamples, lastSeen,
                   samples, releasing>>

(* The loop ends; no guard: kMaxSamplesReached.  The binding then looks at *)
(* its state: kNotSubscribed unless it is subscribed, and the factory's    *)
(* destructor returns the guards.                                          *)
Allocated ==
    /\ call.at = "allocate" /\ (call.wanted = 0 \/ call.expected = 0)
    /\ IF call.guards > 0 /\ subscription[call.element] = "subscribed"
         THEN /\ call' = [at |-> "dispatch", element |-> call.element,
                          guards |-> call.guards]
              /\ UNCHANGED available
         ELSE /\ call' = Idle
              /\ available' = [available EXCEPT ![call.element] =
                                  @ + call.guards]
    /\ UNCHANGED <<provider, memory, proxy, isAvailable, registered,
                   providerSeen, subscription, maxSamples, lastSeen,
                   samples, releasing>>

(* SlotCollector::GetNewSamplesSlotIndices: the newest samples after the   *)
(* last one seen, at most as many as there are guards.                     *)
NewSamples(e, n) ==
    LET new == {t \in slots[e] : t > lastSeen[e]}
    IN  {t \in new : Cardinality({u \in new : u > t}) < n}

Collect ==
    /\ call.at = "dispatch"
    /\ LET new == NewSamples(call.element, call.guards)
       IN  /\ call' = [at |-> "deliver", element |-> call.element,
                       guards |-> call.guards, collected |-> new]
           /\ lastSeen' = [lastSeen EXCEPT ![call.element] =
                              Max(new \cup {@})]
    /\ UNCHANGED <<provider, memory, proxy, isAvailable, registered,
                   providerSeen, subscription, available, maxSamples,
                   samples, releasing>>

(* Guards the factory still owns when it is destroyed.                     *)
GuardsLeft == call.guards - Cardinality(call.collected)

(* Each collected slot goes to the receiver as a SamplePtr with a guard of *)
(* the factory; the guards that are left are returned.                     *)
Deliver ==
    /\ call.at = "deliver"
    /\ samples' = [samples EXCEPT ![call.element] = @ \cup call.collected]
    /\ available' = [available EXCEPT ![call.element] = @ + GuardsLeft]
    /\ call' = Idle
    /\ UNCHANGED <<provider, memory, proxy, isAvailable, registered,
                   providerSeen, subscription, maxSamples, lastSeen,
                   releasing>>

(* ~SamplePtr, on any thread: its members are destroyed in reverse order,  *)
(* the guard first, so the tracker counts the sample as free ...           *)
ReleaseGuard(e) ==
    /\ \E t \in samples[e] :
          /\ samples' = [samples EXCEPT ![e] = @ \ {t}]
          /\ releasing' = [releasing EXCEPT ![e] = @ \cup {t}]
    /\ available' = [available EXCEPT ![e] = @ + 1]
    /\ UNCHANGED <<provider, memory, proxy, isAvailable, registered,
                   providerSeen, subscription, maxSamples, lastSeen, call>>

(* ... then the binding's pointer, which gives the slot back.              *)
ReleaseSlot(e) ==
    /\ \E t \in releasing[e] :
          releasing' = [releasing EXCEPT ![e] = @ \ {t}]
    /\ UNCHANGED <<provider, memory, proxy, isAvailable, registered,
                   providerSeen, subscription, available, maxSamples,
                   lastSeen, call, samples>>

-----------------------------------------------------------------------------
(* The operations by class: SkeletonEvent, SkeletonField, SkeletonBase,    *)
(* ProxyBase with its binding, and ProxyEventBase.                         *)
EventStep(e) == Send(e) \/ PrepareEvent(e)

FieldStep(f) ==
    \/ SaveInitialValue(f) \/ Update(f)
    \/ PrepareFieldFirst(f) \/ PrepareFieldAgain(f) \/ PrepareFieldFails(f)

SkeletonStep ==
    BindingPrepareOffer \/ FinishOffer \/ StopOfferService \/ DestroySkeleton

ProxyStep == Connect \/ ServiceAvailabilityChangeHandler \/ DestroyProxy

ProxyEventStep(e) ==
    \/ RegisterEventBinding(e) \/ Subscribe(e) \/ Unsubscribe(e)
    \/ GetNewSamples(e) \/ ReleaseGuard(e) \/ ReleaseSlot(e)

GetNewSamplesStep == Allocate \/ Allocated \/ Collect \/ Deliver

Next ==
    \/ \E e \in Events : EventStep(e)
    \/ \E f \in Fields : FieldStep(f)
    \/ SkeletonStep
    \/ ProxyStep
    \/ \E e \in Watched : ProxyEventStep(e)
    \/ GetNewSamplesStep

Spec == Init /\ [][Next]_vars

(* The discovery keeps calling a proxy's handler: its thread runs as long  *)
(* as the process.  Nothing is assumed of the applications.                *)
FairSpec == Spec /\ WF_vars(ServiceAvailabilityChangeHandler)

-----------------------------------------------------------------------------
(* Every guard of a tracker is in one place: free, in the factory of a     *)
(* call, or in a SamplePtr.  Reset, the lock-free loop of Allocate, the    *)
(* factory's destructor and destructors of SamplePtrs on other threads     *)
(* neither lose nor duplicate one.                                         *)
GuardsAccounted ==
    \A e \in registered :
        available[e] + Cardinality(samples[e])
          + (IF call # Idle /\ call.element = e THEN call.guards ELSE 0)
        = maxSamples[e]

(* An application never references more slots of an element than it        *)
(* subscribed to, except for those of SamplePtrs inside their destructor:  *)
(* the sizing of the slots rests on it.                                    *)
ReferencesWithinSubscription ==
    \A e \in Watched :
        Cardinality(Referenced(e)) <= SampleCount + Cardinality(releasing[e])

(* The same without the exception, as the configuration of the slots       *)
(* assumes.                                                                *)
ReferencesWithinQuota ==
    \A e \in Watched : Cardinality(Referenced(e)) <= SampleCount

(* A sample an application holds, also while it lets go of it, is still in *)
(* the memory the proxy has mapped: memory is not recreated under it by an *)
(* OfferService, a StopOfferService or the skeleton's destruction.         *)
SamplesStay ==
    \A e \in Watched : Referenced(e) \subseteq slots[e]

(* A field that was sent in the memory in use shows the value of the last  *)
(* Update that was accepted, across failed, repeated and stopped offers.   *)
FieldShowsLastUpdate ==
    inDiscovery =>
        \A f \in Fields :
            \/ newest[f] = accepted[f]
            \/ newest[f] = 0 /\ preparedIn[f] < generation

(* A field always has a value: whoever has subscribed to one can retrieve  *)
(* it.                                                                     *)
SubscribedFieldHasValue ==
    \A f \in Fields \cap Watched :
        subscription[f] = "subscribed" /\ skeleton = "idle"
            => newest[f] # 0

(* An element that accepts samples has memory to write them to: no order   *)
(* of failed offers, repeated offers and stop-offers lets Send or Update   *)
(* through after the memory was removed.                                   *)
SendsReachMemory ==
    skeleton # "gone" => \A e \in Elements : elementOffered[e] => present

(* Destroying a skeleton that was never stop-offered ends its offer, also  *)
(* after an OfferService that was repeated or failed half-way.             *)
OfferEndsWithSkeleton == skeleton = "gone" => ~inDiscovery

(* Every registered event of a proxy agrees with the proxy on whether the  *)
(* service is there, whichever of registration, subscription and discovery *)
(* came first.                                                             *)
SubscriptionFollowsService ==
    \A e \in registered :
        /\ subscription[e] = "subscribed" => isAvailable
        /\ subscription[e] = "pending" => ~isAvailable

(* The quota of every subscription is kept, guard by guard.                *)
QuotaKept == TypeOK /\ GuardsAccounted /\ ReferencesWithinSubscription

(* Provider, elements and proxies agree on whether the service is there.   *)
OfferConsistent ==
    SendsReachMemory /\ OfferEndsWithSkeleton /\ SubscriptionFollowsService

(* While an offer lasts, no subscription stays pending.                    *)
PendingEnds ==
    \A e \in Watched :
        <>[](inDiscovery /\ proxy = "connected")
            => []<>(subscription[e] # "pending")

(* A slot is given back before its subscription ends: Unsubscribe gives    *)
(* the transaction log, in which the release is recorded, to others.       *)
ReleasedBeforeUnsubscribed ==
    \A e \in Watched :
        releasing[e] # {} => subscription[e] # "not_subscribed"

-----------------------------------------------------------------------------
(* The inductive invariant, of the provider, the consumer and the memory   *)
(* between them.                                                           *)

(* Only elements that were prepared are announced, in memory that exists.  *)
OfferComplete ==
    /\ inDiscovery => offered /\ present /\ \A f \in Fields : prepared[f]
    /\ skeleton = "offering" => present /\ \A f \in Fields \ toPrepare : prepared[f]
    /\ generation <= offers

(* A field waits with the value accepted last for its first offer; later   *)
(* the memory has this value, or none when it is newer than that offer.    *)
FieldsShown ==
    \A f \in Fields :
        /\ ~prepared[f] => accepted[f] = initialValue[f]
        /\ preparedIn[f] <= generation
        /\ prepared[f] /\ present =>
              \/ newest[f] = accepted[f]
              \/ newest[f] = 0 /\ preparedIn[f] < generation

(* The clock of an element is past everything in its slots.                *)
StampsIssued == \A e \in Elements : slots[e] \subseteq 1 .. clock[e]

ProviderInvariant ==
    SendsReachMemory /\ OfferEndsWithSkeleton /\ OfferComplete /\ FieldsShown /\ StampsIssued

(* The call in progress is at one of its steps, for a registered event;    *)
(* it only collects while it is subscribed.                                *)
CallOfSubscriber ==
    /\ \/ call = Idle
       \/ call \in [at : {"allocate"}, element : registered, wanted : Nat, expected : Nat,
                    guards : Nat]
       \/ call \in [at : {"dispatch"}, element : registered, guards : Nat]
       \/ call \in [at : {"deliver"}, element : registered, guards : Nat,
                    collected : SUBSET Nat]
    /\ call.at \in {"dispatch", "deliver"} => subscription[call.element] # "not_subscribed"

(* Samples are held by subscribers, and not by a proxy that is gone.       *)
SamplesOfSubscriber ==
    /\ \A e \in Watched :
          /\ subscription[e] = "not_subscribed" => samples[e] = {}
          /\ e \notin registered => subscription[e] = "not_subscribed" /\ maxSamples[e] = 0
    /\ proxy = "none" =>
          registered = {} /\ call = Idle /\ \A e \in Watched : releasing[e] = {}

(* What is collected was not seen before, and there is a guard for each.   *)
CollectedOnce ==
    /\ \A e \in Watched :
          /\ IsFiniteSet(samples[e]) /\ IsFiniteSet(releasing[e])
          /\ \A t \in samples[e] : t <= lastSeen[e]
    /\ call.at = "deliver" =>
          /\ IsFiniteSet(call.collected) /\ Cardinality(call.collected) <= call.guards
          /\ call.collected \cap samples[call.element] = {}
          /\ \A t \in call.collected : t <= lastSeen[call.element]

(* Registered events know what the proxy knows of the service.             *)
EventsKnowService ==
    SubscriptionFollowsService /\ \A e \in registered : providerSeen[e] = isAvailable

ConsumerInvariant ==
    /\ GuardsAccounted /\ CallOfSubscriber /\ SamplesOfSubscriber /\ CollectedOnce
    /\ EventsKnowService

(* A proxy keeps the memory, and the memory keeps its samples.             *)
MemoryInvariant == (proxy = "connected" => present) /\ SamplesStay

ElementInvariant == ProviderInvariant /\ ConsumerInvariant /\ MemoryInvariant
=============================================================================
