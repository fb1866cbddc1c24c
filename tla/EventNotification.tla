------------------------- MODULE EventNotification -------------------------
(***************************************************************************)
(* Notifications of one event to the receive handlers of the proxies in    *)
(* one consumer process: the SubscriptionStateMachine of each proxy event, *)
(* its EventReceiveHandlerManager, the NotifyEventHandler they share, and  *)
(* the register and unregister messages to the process that provides the   *)
(* event and that may stop offering, die and come back under a new pid.    *)
(*                                                                         *)
(* The event has one quality, and its provider is another process: a       *)
(* provider in the process itself posts the same loop over the handlers to *)
(* a thread pool.                                                          *)
(*                                                                         *)
(* A call into a state machine holds its mutex to the end, so calls on one *)
(* proxy exclude each other; calls on different proxies, the thread that   *)
(* runs the handlers and the provider interleave at every lock of the      *)
(* NotifyEventHandler and at every message.                                *)
(***************************************************************************)
EXTENDS Integers, Sequences, FiniteSets

CONSTANTS
    Proxies,             \* proxy events of the consumer process
    MaxPid,              \* bound: the provider's pids are 1 .. MaxPid
    MaxStopOffers,       \* bound: stop-offers of a provider that lives on
    MaxRegistrations,    \* bound on cur_registration_no_: handlers set
    MaxNotifications,    \* bound: notify messages to the consumer
    HandlerReadsState    \* does the user's handler call GetNewSamples or
                         \* GetSubscriptionState of its proxy event?

ASSUME NotificationAssumption ==
    /\ IsFiniteSet(Proxies)
    /\ MaxPid \in Nat \ {0}
    /\ MaxStopOffers \in Nat
    /\ MaxRegistrations \in Nat
    /\ MaxNotifications \in Nat
    /\ HandlerReadsState \in BOOLEAN

Pids == 1 .. MaxPid

(* An empty registration number, and an idle discovery thread.             *)
NoNumber == 0
Nobody == "nobody"
ASSUME NobodyAssumption == Nobody \notin Proxies

VARIABLES
    \* SubscriptionStateMachine and EventReceiveHandlerManager, per proxy
    state,         \* current_state_idx_
    available,     \* provider_service_instance_is_available_
    stored,        \* event_receiver_handler_ has a value
    number,        \* registration_number_
    sourcePid,     \* event_source_pid_
    request,       \* what the user's thread is about to ask of the proxy
    pc,            \* where the call inside the state machine is
    after,         \* what follows when its Unregister is done
    worker,        \* the proxy the service discovery thread is calling
    \* NotifyEventHandler of the consumer
    handlers,      \* event_update_handlers_: sorted by registration number
    lastNumber,    \* cur_registration_no_
    node,          \* node_id of event_update_remote_registrations_
    count,         \* its counter, 0 when there is no entry
    expired,       \* handlers whose scope the user has expired
    \* the thread that calls the handlers
    notifying,     \* "idle", "between" two handlers, or "calling" one
    current,       \* reg_no_start: the handler called last
    due,           \* auxiliary: handlers registered since the notification began
    called,        \* auxiliary: handlers it has called
    \* the provider
    provider,      \* its pid, as in the shared memory
    up,            \* its process runs
    offered,       \* it offers the service
    interested,    \* the consumer is in its event_update_interested_nodes_
    inbox,         \* its receive queue
    notify,        \* notify messages under way to the consumer
    stopOffers, notifications    \* counters for the bounds

machineVars == <<state, available, stored, number, sourcePid>>
callVars == <<request, pc, after, worker>>
handlerVars == <<handlers, lastNumber, expired>>
remoteVars == <<node, count>>
notifierVars == <<notifying, current, due, called>>
providerVars == <<provider, up, offered, interested, inbox, notify, stopOffers, notifications>>
vars == <<machineVars, callVars, handlerVars, remoteVars, notifierVars, providerVars>>

States == {"notSubscribed", "pending", "subscribed"}
Requests == {"none", "set", "unset"}
Steps ==
    {"idle", "unregister", "unregisterRemote", "sendUnregister", "register",
     "registerRemote", "reregisterRemote", "sendRegister"}

Init ==
    /\ state = [p \in Proxies |-> "notSubscribed"]
    /\ available = [p \in Proxies |-> TRUE]
    /\ stored = [p \in Proxies |-> FALSE]
    /\ number = [p \in Proxies |-> NoNumber]
    /\ sourcePid = [p \in Proxies |-> 1]
    /\ request = [p \in Proxies |-> "none"]
    /\ pc = [p \in Proxies |-> "idle"]
    /\ after = [p \in Proxies |-> "idle"]
    /\ worker = Nobody
    /\ handlers = {} /\ lastNumber = 0 /\ expired = {}
    /\ node = 1 /\ count = 0
    /\ notifying = "idle" /\ current = NoNumber /\ due = {} /\ called = {}
    /\ provider = 1 /\ up = TRUE /\ offered = TRUE
    /\ interested = FALSE /\ inbox = <<>> /\ notify = 0
    /\ stopOffers = 0 /\ notifications = 0

(* The handlers are called under the read lock of the handler list; who    *)
(* changes the list needs its write lock.                                  *)
WriteLockFree == notifying # "calling"

(* A message to the pid reaches the queue of a living provider, and is     *)
(* lost (with an error in the log) otherwise.                              *)
Send(pid, message) ==
    inbox' = IF up /\ pid = provider THEN Append(inbox, message) ELSE inbox

-----------------------------------------------------------------------------
(* The calls into a state machine.  The step that enters one changes the   *)
(* state of the machine; the mutex hides that from the others until the    *)
(* call is over.                                                           *)

(* The call returns, or goes on with what follows its Unregister.          *)
Continue(p, step) ==
    /\ pc' = [pc EXCEPT ![p] = step]
    /\ after' = [after EXCEPT ![p] = IF step = @ THEN "idle" ELSE @]
    /\ worker' = IF step = "idle" /\ worker = p THEN Nobody ELSE worker

(* Mutant: EventReceiveHandlerManager::Register without its Unregister.    *)
RegisterOnly(p) ==
    [pc |-> "register", after |-> "idle"]

(* EventReceiveHandlerManager::Register: an old registration goes first.   *)
Register(p) ==
    [pc |-> IF number[p] # NoNumber THEN "unregister" ELSE "register",
     after |-> IF number[p] # NoNumber THEN "register" ELSE "idle"]

(* EventReceiveHandlerManager::Unregister.                                 *)
Unregister(p) ==
    [pc |-> IF number[p] # NoNumber THEN "unregister" ELSE "idle", after |-> "idle"]

Return == [pc |-> "idle", after |-> "idle"]

(* The call of proxy p goes on with the given steps.                       *)
Enter(p, steps) ==
    /\ pc' = [pc EXCEPT ![p] = steps.pc]
    /\ after' = [after EXCEPT ![p] = steps.after]

Subscribe(p) ==
    /\ request[p] = "none" /\ pc[p] = "idle"
    /\ state[p] = "notSubscribed"
    /\ state' = [state EXCEPT ![p] = IF available[p] THEN "subscribed" ELSE "pending"]
    /\ Enter(p, IF stored[p] THEN Register(p) ELSE Return)
    /\ stored' = [stored EXCEPT ![p] = FALSE]
    /\ UNCHANGED <<available, number, sourcePid, request, worker, handlerVars, remoteVars,
                   notifierVars, providerVars>>

(* NotSubscribedState::OnEntry withdraws the handler; one that was only    *)
(* stored stays stored.                                                    *)
Unsubscribe(p) ==
    /\ request[p] = "none" /\ pc[p] = "idle"
    /\ state[p] # "notSubscribed"
    /\ state' = [state EXCEPT ![p] = "notSubscribed"]
    /\ Enter(p, Unregister(p))
    /\ UNCHANGED <<available, stored, number, sourcePid, request, worker, handlerVars,
                   remoteVars, notifierVars, providerVars>>

(* Another handler may be set within the bound.                            *)
MayRegister ==
    lastNumber + Cardinality({p \in Proxies : request[p] = "set"})
               + Cardinality({p \in Proxies : stored[p] \/ "register" \in {pc[p], after[p]}})
        < MaxRegistrations

(* ProxyEventBase expires the scope of the old handler, which waits for a  *)
(* call of it to end, before it asks the binding.                          *)
ExpireScope(p, r) ==
    /\ request[p] = "none"
    /\ r = "set" => MayRegister
    /\ ~(notifying = "calling" /\ current = number[p])
    /\ request' = [request EXCEPT ![p] = r]
    /\ expired' = expired \union ({number[p]} \ {NoNumber})
    /\ UNCHANGED <<machineVars, pc, after, worker, handlers, lastNumber, remoteVars,
                   notifierVars, providerVars>>

SetReceiveHandler(p) ==
    /\ request[p] = "set" /\ pc[p] = "idle"
    /\ request' = [request EXCEPT ![p] = "none"]
    /\ IF state[p] = "subscribed"
       THEN Enter(p, Register(p)) /\ UNCHANGED stored
       ELSE stored' = [stored EXCEPT ![p] = TRUE] /\ UNCHANGED <<pc, after>>
    /\ UNCHANGED <<state, available, number, sourcePid, worker, handlerVars, remoteVars,
                   notifierVars, providerVars>>

UnsetReceiveHandler(p) ==
    /\ request[p] = "unset" /\ pc[p] = "idle"
    /\ request' = [request EXCEPT ![p] = "none"]
    /\ IF state[p] = "subscribed"
       THEN Enter(p, Unregister(p)) /\ UNCHANGED stored
       ELSE stored' = [stored EXCEPT ![p] = FALSE] /\ UNCHANGED <<pc, after>>
    /\ UNCHANGED <<state, available, number, sourcePid, worker, handlerVars, remoteVars,
                   notifierVars, providerVars>>

(* The discovery thread calls one proxy after the other: first that the    *)
(* instance the proxy knows is gone ...                                    *)
StopOfferEvent(p) ==
    /\ worker = Nobody /\ pc[p] = "idle"
    /\ available[p]
    /\ ~offered \/ sourcePid[p] # provider
    /\ available' = [available EXCEPT ![p] = FALSE]
    /\ state' = [state EXCEPT ![p] = IF @ = "subscribed" THEN "pending" ELSE @]
    /\ UNCHANGED <<stored, number, sourcePid, callVars, handlerVars, remoteVars, notifierVars,
                   providerVars>>

(* ... and then that it is offered, with the pid in the shared memory.  A  *)
(* pending subscription registers the handler stored meanwhile, or renews  *)
(* the registration it has.                                                *)
ReOfferEvent(p) ==
    /\ worker = Nobody /\ pc[p] = "idle"
    /\ ~available[p] /\ offered
    /\ available' = [available EXCEPT ![p] = TRUE]
    /\ sourcePid' = [sourcePid EXCEPT ![p] = provider]
    /\ IF state[p] = "pending"
       THEN LET steps == IF stored[p] THEN Register(p)
                         ELSE IF number[p] # NoNumber
                              THEN [pc |-> "reregisterRemote", after |-> "idle"]
                              ELSE Return
            IN  /\ Enter(p, steps)
                /\ worker' = IF steps.pc = "idle" THEN Nobody ELSE p
                /\ state' = [state EXCEPT ![p] = "subscribed"]
                /\ stored' = [stored EXCEPT ![p] = FALSE]
       ELSE UNCHANGED <<state, stored, pc, after, worker>>
    /\ UNCHANGED <<number, request, handlerVars, remoteVars, notifierVars, providerVars>>

-----------------------------------------------------------------------------
(* The NotifyEventHandler of the consumer.                                 *)

(* Mutant: the handler list is changed without its lock.                   *)
SearchHandlerUnlocked(p) ==
    /\ pc[p] = "unregister"
    /\ handlers' = handlers \ {number[p]}
    /\ due' = due \ {number[p]}
    /\ number' = [number EXCEPT ![p] = NoNumber]
    /\ Continue(p, "unregisterRemote")
    /\ UNCHANGED <<state, available, stored, sourcePid, request, lastNumber, expired,
                   remoteVars, notifying, current, called, providerVars>>

(* SearchHandlerForNotification erases the handler.                        *)
SearchHandlerForNotification(p) ==
    /\ pc[p] = "unregister" /\ WriteLockFree
    /\ handlers' = handlers \ {number[p]}
    /\ due' = due \ {number[p]}
    /\ number' = [number EXCEPT ![p] = NoNumber]
    /\ Continue(p, "unregisterRemote")
    /\ UNCHANGED <<state, available, stored, sourcePid, request, lastNumber, expired,
                   remoteVars, notifying, current, called, providerVars>>

(* The remote registration loses one; the last one is to be withdrawn at   *)
(* the provider.  One of another pid is left alone.                        *)
UnregisterEventNotificationRemote(p) ==
    /\ pc[p] = "unregisterRemote"
    /\ IF count = 0 \/ node # sourcePid[p]
       THEN Continue(p, after[p]) /\ UNCHANGED count
       ELSE /\ count' = count - 1
            /\ Continue(p, IF count = 1 THEN "sendUnregister" ELSE after[p])
    /\ UNCHANGED <<machineVars, request, handlerVars, node, notifierVars, providerVars>>

SendUnregister(p) ==
    /\ pc[p] = "sendUnregister"
    /\ Send(sourcePid[p], "unregister")
    /\ Continue(p, after[p])
    /\ UNCHANGED <<machineVars, request, handlerVars, remoteVars, notifierVars, provider,
                   up, offered, interested, notify, stopOffers, notifications>>

RegisterEventNotification(p) ==
    /\ pc[p] = "register" /\ WriteLockFree
    /\ lastNumber' = lastNumber + 1
    /\ handlers' = handlers \union {lastNumber + 1}
    /\ number' = [number EXCEPT ![p] = lastNumber + 1]
    /\ Continue(p, "registerRemote")
    /\ UNCHANGED <<state, available, stored, sourcePid, request, expired, remoteVars,
                   notifierVars, providerVars>>

(* Mutant: a message is only sent for the first entry ever.                *)
RegisterEventNotificationSilently(p) ==
    /\ pc[p] = "registerRemote"
    /\ node' = sourcePid[p]
    /\ count' = IF count > 0 /\ node = sourcePid[p] THEN count + 1 ELSE 1
    /\ Continue(p, IF count = 0 THEN "sendRegister" ELSE "idle")
    /\ UNCHANGED <<machineVars, request, handlerVars, notifierVars, providerVars>>

(* The first registration at a pid is announced to it.                     *)
RegisterEventNotificationRemote(p) ==
    /\ pc[p] = "registerRemote"
    /\ node' = sourcePid[p]
    /\ count' = IF count > 0 /\ node = sourcePid[p] THEN count + 1 ELSE 1
    /\ Continue(p, IF count' = 1 THEN "sendRegister" ELSE "idle")
    /\ UNCHANGED <<machineVars, request, handlerVars, notifierVars, providerVars>>

(* A renewed registration counts once more at a pid that has one, and      *)
(* starts anew at another pid.                                             *)
ReregisterEventNotification(p) ==
    /\ pc[p] = "reregisterRemote"
    /\ IF count = 0
       THEN Continue(p, "idle") /\ UNCHANGED remoteVars
       ELSE /\ node' = sourcePid[p]
            /\ count' = IF node = sourcePid[p] THEN count + 1 ELSE 1
            /\ Continue(p, IF node = sourcePid[p] THEN "idle" ELSE "sendRegister")
    /\ UNCHANGED <<machineVars, request, handlerVars, notifierVars, providerVars>>

SendRegisterEventNotificationMessage(p) ==
    /\ pc[p] = "sendRegister"
    /\ Send(sourcePid[p], "register")
    /\ Continue(p, "idle")
    /\ UNCHANGED <<machineVars, request, handlerVars, remoteVars, notifierVars, provider,
                   up, offered, interested, notify, stopOffers, notifications>>

-----------------------------------------------------------------------------
(* The provider.                                                           *)

StopOffer ==
    /\ up /\ offered
    /\ stopOffers < MaxStopOffers /\ stopOffers' = stopOffers + 1
    /\ offered' = FALSE
    /\ UNCHANGED <<machineVars, callVars, handlerVars, remoteVars, notifierVars, provider, up,
                   interested, inbox, notify, notifications>>

Offer ==
    /\ up /\ ~offered
    /\ offered' = TRUE
    /\ UNCHANGED <<machineVars, callVars, handlerVars, remoteVars, notifierVars, provider, up,
                   interested, inbox, notify, stopOffers, notifications>>

(* The process dies with its registrations and its queue, and comes back   *)
(* under another pid.                                                      *)
ProviderCrash ==
    /\ up /\ provider < MaxPid
    /\ up' = FALSE /\ offered' = FALSE
    /\ interested' = FALSE /\ inbox' = <<>>
    /\ UNCHANGED <<machineVars, callVars, handlerVars, remoteVars, notifierVars, provider,
                   notify, stopOffers, notifications>>

ProviderRestart ==
    /\ ~up
    /\ up' = TRUE /\ offered' = TRUE /\ provider' = provider + 1
    /\ UNCHANGED <<machineVars, callVars, handlerVars, remoteVars, notifierVars, interested,
                   inbox, notify, stopOffers, notifications>>

(* One thread receives the messages in the order they were sent.           *)
HandleRegisterNotificationMsg ==
    /\ up /\ inbox # <<>> /\ Head(inbox) = "register"
    /\ inbox' = Tail(inbox)
    /\ interested' = TRUE
    /\ UNCHANGED <<machineVars, callVars, handlerVars, remoteVars, notifierVars, provider, up,
                   offered, notify, stopOffers, notifications>>

HandleUnregisterNotificationMsg ==
    /\ up /\ inbox # <<>> /\ Head(inbox) = "unregister"
    /\ inbox' = Tail(inbox)
    /\ interested' = FALSE
    /\ UNCHANGED <<machineVars, callVars, handlerVars, remoteVars, notifierVars, provider, up,
                   offered, notify, stopOffers, notifications>>

NotifyEventRemote ==
    /\ up /\ offered /\ interested
    /\ notifications < MaxNotifications /\ notifications' = notifications + 1
    /\ notify' = notify + 1
    /\ UNCHANGED <<machineVars, callVars, handlerVars, remoteVars, notifierVars, provider, up,
                   offered, interested, inbox, stopOffers>>

-----------------------------------------------------------------------------
(* The thread that receives a notification and calls the handlers, one     *)
(* after the other, each under the read lock of the list as it is then.    *)

IsFirst(n, S) == n \in S /\ \A k \in S : n <= k

(* Mutant: the search goes on behind the successor of the last number.     *)
HandlersAfterNext(n) == {k \in handlers : k > n + 1}

(* std::upper_bound of the number called last.                             *)
HandlersAfter(n) == {k \in handlers : k > n}

(* The scoped function of an expired handler does nothing.                 *)
CallHandler(n) ==
    /\ current' = n
    /\ called' = called \union {n}
    /\ notifying' = IF n \in expired THEN "between" ELSE "calling"

HandleNotifyEventMsg ==
    /\ notifying = "idle" /\ notify > 0
    /\ notify' = notify - 1
    /\ due' = handlers
    /\ IF handlers = {}
       THEN UNCHANGED <<notifying, current, called>>
       ELSE \E n \in handlers : IsFirst(n, handlers) /\ CallHandler(n)
    /\ UNCHANGED <<machineVars, callVars, handlerVars, remoteVars, provider, up, offered,
                   interested, inbox, stopOffers, notifications>>

(* The user's handler returns.  When it asks its proxy event for samples   *)
(* or for its state, it needs the mutex of the state machine before.       *)
HandlerReturns ==
    /\ notifying = "calling"
    /\ HandlerReadsState =>
          \A p \in Proxies : number[p] = current => pc[p] = "idle"
    /\ notifying' = "between"
    /\ UNCHANGED <<machineVars, callVars, handlerVars, remoteVars, current, due, called,
                   providerVars>>

CallNextHandler ==
    /\ notifying = "between"
    /\ \E n \in handlers : IsFirst(n, HandlersAfter(current)) /\ CallHandler(n)
    /\ UNCHANGED <<machineVars, callVars, handlerVars, remoteVars, due, providerVars>>

NoHandlerLeft ==
    /\ notifying = "between" /\ HandlersAfter(current) = {}
    /\ notifying' = "idle" /\ current' = NoNumber /\ due' = {} /\ called' = {}
    /\ UNCHANGED <<machineVars, callVars, handlerVars, remoteVars, providerVars>>

-----------------------------------------------------------------------------
ProxyStep(p) ==
    \/ Subscribe(p)
    \/ Unsubscribe(p)
    \/ \E r \in {"set", "unset"} : ExpireScope(p, r)
    \/ SetReceiveHandler(p)
    \/ UnsetReceiveHandler(p)
    \/ StopOfferEvent(p)
    \/ ReOfferEvent(p)
    \/ SearchHandlerForNotification(p)
    \/ UnregisterEventNotificationRemote(p)
    \/ SendUnregister(p)
    \/ RegisterEventNotification(p)
    \/ RegisterEventNotificationRemote(p)
    \/ ReregisterEventNotification(p)
    \/ SendRegisterEventNotificationMessage(p)

ProviderStep ==
    \/ StopOffer
    \/ Offer
    \/ ProviderCrash
    \/ ProviderRestart
    \/ HandleRegisterNotificationMsg
    \/ HandleUnregisterNotificationMsg
    \/ NotifyEventRemote

NotifierStep ==
    \/ HandleNotifyEventMsg
    \/ HandlerReturns
    \/ CallNextHandler
    \/ NoHandlerLeft

Next ==
    \/ \E p \in Proxies : ProxyStep(p)
    \/ ProviderStep
    \/ NotifierStep

Spec == Init /\ [][Next]_vars

-----------------------------------------------------------------------------
MachineTypeOK ==
    /\ state \in [Proxies -> States]
    /\ available \in [Proxies -> BOOLEAN]
    /\ stored \in [Proxies -> BOOLEAN]
    /\ number \in [Proxies -> 0 .. lastNumber]
    /\ sourcePid \in [Proxies -> Pids]
    /\ request \in [Proxies -> Requests]
    /\ pc \in [Proxies -> Steps]
    /\ after \in [Proxies -> {"idle", "register"}]
    /\ worker \in Proxies \union {Nobody}

HandlerTypeOK ==
    /\ lastNumber \in Nat
    /\ handlers \in SUBSET (1 .. lastNumber)
    /\ expired \in SUBSET (1 .. lastNumber)
    /\ node \in Pids /\ count \in Nat
    /\ notifying \in {"idle", "between", "calling"}
    /\ current \in 0 .. lastNumber
    /\ due \in SUBSET (1 .. lastNumber) /\ called \in SUBSET (1 .. lastNumber)

ProviderTypeOK ==
    /\ provider \in Pids
    /\ up \/ provider < MaxPid
    /\ up \in BOOLEAN /\ offered \in BOOLEAN /\ interested \in BOOLEAN
    /\ inbox \in Seq({"register", "unregister"})
    /\ notify \in Nat
    /\ stopOffers \in 0 .. MaxStopOffers
    /\ notifications \in 0 .. MaxNotifications

(* Every variable stays in its type; registration numbers are never        *)
(* invented.                                                               *)
TypeOK == MachineTypeOK /\ HandlerTypeOK /\ ProviderTypeOK

(* Each handler of the list is the registration of exactly one proxy: no   *)
(* sequence of subscribing, setting, unsetting, stop-offers and re-offers  *)
(* leaves a handler nobody can withdraw, nor a proxy with a number that is *)
(* not registered, nor a handler with a subscription that ended.           *)
HandlersOwned ==
    /\ handlers = {number[p] : p \in Proxies} \ {NoNumber}
    /\ \A p, q \in Proxies : number[p] = number[q] /\ p # q => number[p] = NoNumber
    /\ \A p \in Proxies :
          state[p] = "notSubscribed" /\ pc[p] = "idle" => number[p] = NoNumber

(* A handler is never running once UnsetReceiveHandler, SetReceiveHandler  *)
(* or Unsubscribe has withdrawn it: the erasure waits for the read lock    *)
(* the call is made under, the expiry of the scope for the call itself.    *)
NoWithdrawnHandlerRuns ==
    notifying = "calling" => current \in handlers \ expired

(* A notification calls every handler that is registered from its begin to *)
(* its end, although handlers come and go between two calls.               *)
EveryHandlerCalled ==
    [][notifying = "between" /\ notifying' = "idle" => due \subseteq called]_vars

(* Proxies whose registration the remote counter includes: from the        *)
(* registration at the remote node until the step that withdraws it there. *)
Counted ==
    {p \in Proxies : \/ number[p] # NoNumber /\ pc[p] # "registerRemote"
                     \/ pc[p] = "unregisterRemote"}

(* The remote counter is "how many local proxy-event instances have        *)
(* registered a receive-handler for this event at the given node".         *)
RegistrationsCounted == count = Cardinality(Counted)

(* No stop-offer, no crash: the provider of the first subscription.        *)
ProviderStays == up /\ offered /\ stopOffers = 0

(* When all calls have returned and all messages have arrived, a provider  *)
(* that a subscribed proxy with a handler knows has the consumer among its *)
(* interested nodes: "anytime the skeleton-event side did notify an event  *)
(* update, the registered callback gets called".                           *)
RegistrationReachesProvider ==
    up /\ inbox = <<>> /\ (\A p \in Proxies : pc[p] = "idle") =>
        \A p \in Proxies :
            state[p] = "subscribed" /\ number[p] # NoNumber /\ sourcePid[p] = provider
                => interested

(* A running handler may ask its proxy event for its state, which "can     *)
(* always be called": nobody who holds the mutex of that state machine     *)
(* waits for the handler to return.                                        *)
HandlerMayReadState ==
    HandlerReadsState /\ notifying = "calling" =>
        \A p \in Proxies : number[p] = current => pc[p] # "unregister"

-----------------------------------------------------------------------------
(* What makes HandlersOwned inductive: where a call is in the state        *)
(* machine says whether its proxy has a registration, and a call that      *)
(* will register is only ever made by a subscribed proxy.                  *)
Registering == {"register", "registerRemote", "reregisterRemote", "sendRegister"}

CallsFollowState ==
    \A p \in Proxies :
        /\ pc[p] \in {"unregisterRemote", "sendUnregister", "register"} => number[p] = NoNumber
        /\ pc[p] \in Registering \/ after[p] = "register" => state[p] # "notSubscribed"

(* The walk through the handler list has called every handler it is due to *)
(* call up to the one called last.                                         *)
WalkInvariant ==
    /\ due \subseteq handlers
    /\ \A n \in due : n <= current => n \in called
    /\ notifying = "idle" => due = {}

(* What the registrations at a provider that stays are counted with: every *)
(* proxy and the remote entry have its pid, no registration is renewed,    *)
(* and a handler has its number while its registration is remote.          *)
CountInvariant ==
    /\ provider = 1 /\ node = 1
    /\ \A p \in Proxies :
          /\ available[p] /\ sourcePid[p] = 1 /\ pc[p] # "reregisterRemote"
          /\ pc[p] \in {"unregister", "registerRemote"} => number[p] # NoNumber
    /\ RegistrationsCounted

(* What the provider has heard last, once all messages have arrived.       *)
WillBeInterested ==
    IF inbox = <<>> THEN interested ELSE inbox[Len(inbox)] = "register"

(* What brings the registration of p, the only proxy that is used, to the  *)
(* provider: its entry at the node counts with the pid p knows, and a node *)
(* with an entry has heard of it or is about to.                           *)
LoneInvariant(p) ==
    /\ \A q \in Proxies \ {p} : pc[q] = "idle" /\ state[q] = "notSubscribed"
    /\ node <= provider /\ sourcePid[p] <= provider
    /\ state[p] = "subscribed" => available[p]
    /\ pc[p] = "sendUnregister" => count = 0
    /\ pc[p] = "reregisterRemote" => count > 0
    /\ pc[p] = "sendRegister" \/ (pc[p] = "idle" /\ number[p] # NoNumber) =>
          count > 0 /\ node = sourcePid[p]
    /\ up /\ count > 0 /\ node = provider => pc[p] = "sendRegister" \/ WillBeInterested
=============================================================================
