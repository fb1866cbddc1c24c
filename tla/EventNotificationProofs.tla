----------------------- MODULE EventNotificationProofs -----------------------
(***************************************************************************)
(* Proofs about EventNotification for every number of proxies, handlers,   *)
(* stop-offers, restarts and messages, and for handlers that read the      *)
(* state of their proxy event as for those that do not.                    *)
(***************************************************************************)
EXTENDS MCEventNotification, FiniteSetTheorems, TLAPS

(* Types and ownership hold at first.                                      *)
LEMMA InitOK ==
    Init => TypeOK /\ HandlersOwned /\ CallsFollowState /\ NoWithdrawnHandlerRuns
<1> SUFFICES ASSUME Init
             PROVE  TypeOK /\ HandlersOwned /\ CallsFollowState /\ NoWithdrawnHandlerRuns
  OBVIOUS
<1> USE NotificationAssumption, NobodyAssumption DEF Init
<1>1. MachineTypeOK
  BY DEF MachineTypeOK, States, Requests, Steps, Pids, NoNumber
<1>2. HandlerTypeOK
  BY DEF HandlerTypeOK, Pids, NoNumber
<1>3. ProviderTypeOK
  <2>1. inbox \in Seq({"register", "unregister"})
    BY DEF ProviderTypeOK
  <2>2. provider \in Pids /\ stopOffers \in 0 .. MaxStopOffers
        /\ notifications \in 0 .. MaxNotifications
    BY DEF Pids
  <2> QED
    BY <2>1, <2>2 DEF ProviderTypeOK
<1>4. HandlersOwned
  BY DEF HandlersOwned
<1>5. CallsFollowState /\ NoWithdrawnHandlerRuns
  BY DEF CallsFollowState, NoWithdrawnHandlerRuns, Registering
<1> QED
  BY <1>1, <1>2, <1>3, <1>4, <1>5 DEF TypeOK

-----------------------------------------------------------------------------
(* Helpers of the calls yield steps and messages only.                     *)

(* A call goes on at one of the steps it has.                              *)
LEMMA ContinueType ==
    ASSUME MachineTypeOK, NEW p \in Proxies, NEW step \in Steps, Continue(p, step)
    PROVE  /\ pc' \in [Proxies -> Steps]
           /\ after' \in [Proxies -> {"idle", "register"}]
           /\ worker' \in Proxies \union {Nobody}
BY DEF MachineTypeOK, Continue

(* A call begins with one of the steps it has.                             *)
LEMMA EnterType ==
    ASSUME MachineTypeOK, NEW p \in Proxies,
           NEW steps \in {Register(p), Unregister(p), Return,
                          [pc |-> "reregisterRemote", after |-> "idle"]},
           Enter(p, steps)
    PROVE  /\ pc' \in [Proxies -> Steps]
           /\ after' \in [Proxies -> {"idle", "register"}]
<1>1. steps.pc \in Steps /\ steps.after \in {"idle", "register"}
  BY DEF Register, Unregister, Return, Steps
<1> QED
  BY <1>1 DEF MachineTypeOK, Enter

(* What is sent is a message.                                              *)
LEMMA SendType ==
    ASSUME ProviderTypeOK, NEW pid, NEW m \in {"register", "unregister"}, Send(pid, m)
    PROVE  inbox' \in Seq({"register", "unregister"})
<1>1. inbox \in Seq({"register", "unregister"})
  BY DEF ProviderTypeOK
<1> QED
  BY <1>1 DEF Send

-----------------------------------------------------------------------------
(* What a step of a proxy leaves alone.                                    *)

(* The calls of the user and of the discovery that start at a state        *)
(* machine keep the types.                                                 *)
LEMMA MachineStep ==
    ASSUME TypeOK, NEW p \in Proxies,
           \/ Subscribe(p) \/ Unsubscribe(p) \/ SetReceiveHandler(p)
           \/ UnsetReceiveHandler(p) \/ StopOfferEvent(p) \/ ReOfferEvent(p)
    PROVE  TypeOK'
<1> USE DEF TypeOK
<1>1. UNCHANGED <<handlerVars, remoteVars, notifierVars, providerVars>>
  BY DEF Subscribe, Unsubscribe, SetReceiveHandler, UnsetReceiveHandler, StopOfferEvent,
         ReOfferEvent, callVars
<1>2. HandlerTypeOK' /\ ProviderTypeOK'
  BY <1>1 DEF HandlerTypeOK, ProviderTypeOK, handlerVars, remoteVars, notifierVars,
              providerVars
<1>0. lastNumber' = lastNumber
  BY <1>1 DEF handlerVars
<1>3. CASE Subscribe(p)
  <2>1. PICK steps \in {Register(p), Return} : Enter(p, steps)
    BY <1>3 DEF Subscribe
  <2>2. pc' \in [Proxies -> Steps] /\ after' \in [Proxies -> {"idle", "register"}]
    BY <2>1, EnterType
  <2> QED
    BY <1>0, <1>2, <1>3, <2>2 DEF Subscribe, MachineTypeOK, States
<1>4. CASE Unsubscribe(p)
  <2>1. pc' \in [Proxies -> Steps] /\ after' \in [Proxies -> {"idle", "register"}]
    BY <1>4, EnterType DEF Unsubscribe
  <2> QED
    BY <1>0, <1>2, <1>4, <2>1 DEF Unsubscribe, MachineTypeOK, States
<1>5. CASE SetReceiveHandler(p)
  <2>1. pc' \in [Proxies -> Steps] /\ after' \in [Proxies -> {"idle", "register"}]
    BY <1>5, EnterType DEF SetReceiveHandler, MachineTypeOK
  <2> QED
    BY <1>0, <1>2, <1>5, <2>1 DEF SetReceiveHandler, MachineTypeOK, Requests
<1>6. CASE UnsetReceiveHandler(p)
  <2>1. pc' \in [Proxies -> Steps] /\ after' \in [Proxies -> {"idle", "register"}]
    BY <1>6, EnterType DEF UnsetReceiveHandler, MachineTypeOK
  <2> QED
    BY <1>0, <1>2, <1>6, <2>1 DEF UnsetReceiveHandler, MachineTypeOK, Requests
<1>7. CASE StopOfferEvent(p)
  BY <1>0, <1>2, <1>7 DEF StopOfferEvent, MachineTypeOK, States, callVars
<1>8. CASE ReOfferEvent(p)
  <2>1. /\ pc' \in [Proxies -> Steps] /\ after' \in [Proxies -> {"idle", "register"}]
        /\ worker' \in Proxies \union {Nobody}
    <3>1. CASE state[p] = "pending"
      <4>1. PICK steps \in {Register(p), Return,
                            [pc |-> "reregisterRemote", after |-> "idle"]} :
                /\ Enter(p, steps)
                /\ worker' = IF steps.pc = "idle" THEN Nobody ELSE p
        BY <1>8, <3>1 DEF ReOfferEvent
      <4> QED
        BY <4>1, EnterType
    <3>2. CASE state[p] # "pending"
      BY <1>8, <3>2 DEF ReOfferEvent, MachineTypeOK
    <3> QED
      BY <3>1, <3>2
  <2>2. sourcePid' \in [Proxies -> Pids]
    BY <1>8 DEF ReOfferEvent, MachineTypeOK, ProviderTypeOK
  <2>3. /\ state' \in [Proxies -> States] /\ stored' \in [Proxies -> BOOLEAN]
        /\ available' \in [Proxies -> BOOLEAN]
    BY <1>8 DEF ReOfferEvent, MachineTypeOK, States
  <2> QED
    BY <1>0, <1>2, <1>8, <2>1, <2>2, <2>3 DEF ReOfferEvent, MachineTypeOK
<1> QED
  BY <1>3, <1>4, <1>5, <1>6, <1>7, <1>8

(* The steps of a call through the shared handler list keep the types.     *)
LEMMA CallStep ==
    ASSUME TypeOK, NEW p \in Proxies,
           \/ \E r \in {"set", "unset"} : ExpireScope(p, r)
           \/ SearchHandlerForNotification(p)
           \/ UnregisterEventNotificationRemote(p)
           \/ SendUnregister(p)
           \/ RegisterEventNotification(p)
           \/ RegisterEventNotificationRemote(p)
           \/ ReregisterEventNotification(p)
           \/ SendRegisterEventNotificationMessage(p)
    PROVE  TypeOK'
<1> USE DEF TypeOK
<1>1. after[p] \in Steps /\ lastNumber \in Nat /\ number[p] \in 0 .. lastNumber
  BY DEF MachineTypeOK, HandlerTypeOK, Steps
<1>2. CASE \E r \in {"set", "unset"} : ExpireScope(p, r)
  <2>1. PICK r \in {"set", "unset"} : ExpireScope(p, r)
    BY <1>2
  <2>2. {number[p]} \ {NoNumber} \subseteq 1 .. lastNumber
    BY <1>1 DEF NoNumber
  <2>3. expired' = expired \union ({number[p]} \ {NoNumber})
    BY <2>1 DEF ExpireScope
  <2>4. expired' \in SUBSET (1 .. lastNumber)
    BY <2>2, <2>3 DEF HandlerTypeOK
  <2> QED
    BY <2>1, <2>4 DEF ExpireScope, MachineTypeOK, HandlerTypeOK, ProviderTypeOK, Requests,
       machineVars, remoteVars, notifierVars, providerVars
<1>3. CASE SearchHandlerForNotification(p)
  <2>1. /\ pc' \in [Proxies -> Steps] /\ after' \in [Proxies -> {"idle", "register"}]
        /\ worker' \in Proxies \union {Nobody}
    BY <1>3, ContinueType DEF SearchHandlerForNotification, Steps
  <2>2. number' \in [Proxies -> 0 .. lastNumber]
    BY <1>1, <1>3 DEF SearchHandlerForNotification, MachineTypeOK, NoNumber
  <2>3. handlers' \in SUBSET (1 .. lastNumber) /\ due' \in SUBSET (1 .. lastNumber)
    BY <1>3 DEF SearchHandlerForNotification, HandlerTypeOK
  <2> QED
    BY <1>3, <2>1, <2>2, <2>3 DEF SearchHandlerForNotification, MachineTypeOK, HandlerTypeOK,
       ProviderTypeOK, remoteVars, providerVars
<1>4. CASE UnregisterEventNotificationRemote(p)
  <2>1. PICK step \in Steps : Continue(p, step)
    BY <1>1, <1>4 DEF UnregisterEventNotificationRemote, Steps
  <2>2. count' \in Nat
    BY <1>4 DEF UnregisterEventNotificationRemote, HandlerTypeOK
  <2> QED
    BY <1>4, <2>1, <2>2, ContinueType DEF UnregisterEventNotificationRemote, MachineTypeOK,
       HandlerTypeOK, ProviderTypeOK, machineVars, handlerVars, notifierVars, providerVars
<1>5. CASE SendUnregister(p)
  <2>1. inbox' \in Seq({"register", "unregister"})
    BY <1>5, SendType DEF SendUnregister
  <2> QED
    BY <1>1, <1>5, <2>1, ContinueType DEF SendUnregister, MachineTypeOK, HandlerTypeOK,
       ProviderTypeOK, machineVars, handlerVars, remoteVars, notifierVars
<1>6. CASE RegisterEventNotification(p)
  <2>1. /\ pc' \in [Proxies -> Steps] /\ after' \in [Proxies -> {"idle", "register"}]
        /\ worker' \in Proxies \union {Nobody}
    BY <1>6, ContinueType DEF RegisterEventNotification, Steps
  <2>2. /\ lastNumber' = lastNumber + 1
        /\ 1 .. lastNumber \subseteq 1 .. lastNumber'
        /\ 0 .. lastNumber \subseteq 0 .. lastNumber'
        /\ lastNumber + 1 \in 1 .. lastNumber' /\ lastNumber + 1 \in 0 .. lastNumber'
    BY <1>1, <1>6 DEF RegisterEventNotification
  <2>3. number' \in [Proxies -> 0 .. lastNumber']
    BY <1>6, <2>2 DEF RegisterEventNotification, MachineTypeOK
  <2>4. HandlerTypeOK'
    BY <1>6, <2>2 DEF RegisterEventNotification, HandlerTypeOK, remoteVars, notifierVars
  <2> QED
    BY <1>6, <2>1, <2>3, <2>4 DEF RegisterEventNotification, MachineTypeOK, ProviderTypeOK,
       providerVars
<1>7. CASE RegisterEventNotificationRemote(p) \/ ReregisterEventNotification(p)
  <2>1. PICK step \in Steps : Continue(p, step)
    BY <1>7 DEF RegisterEventNotificationRemote, ReregisterEventNotification, Steps
  <2>2. count' \in Nat /\ node' \in Pids
    BY <1>7 DEF RegisterEventNotificationRemote, ReregisterEventNotification, HandlerTypeOK,
       MachineTypeOK, remoteVars
  <2>3. UNCHANGED <<machineVars, request, handlerVars, notifierVars, providerVars>>
    BY <1>7 DEF RegisterEventNotificationRemote, ReregisterEventNotification
  <2> QED
    BY <2>1, <2>2, <2>3, ContinueType DEF MachineTypeOK, HandlerTypeOK, ProviderTypeOK,
       machineVars, handlerVars, notifierVars, providerVars
<1>8. CASE SendRegisterEventNotificationMessage(p)
  <2>1. inbox' \in Seq({"register", "unregister"})
    BY <1>8, SendType DEF SendRegisterEventNotificationMessage
  <2>2. Continue(p, "idle") /\ "idle" \in Steps
    BY <1>8 DEF SendRegisterEventNotificationMessage, Steps
  <2> QED
    BY <1>8, <2>1, <2>2, ContinueType DEF SendRegisterEventNotificationMessage,
       MachineTypeOK, HandlerTypeOK, ProviderTypeOK, machineVars, handlerVars, remoteVars,
       notifierVars
<1> QED
  BY <1>2, <1>3, <1>4, <1>5, <1>6, <1>7, <1>8

(* The provider's handling of messages and its life keep the types.        *)
LEMMA ProviderStepType ==
    ASSUME TypeOK, ProviderStep
    PROVE  TypeOK'
<1> USE NotificationAssumption DEF TypeOK
<1>1. UNCHANGED <<machineVars, callVars, handlerVars, remoteVars, notifierVars>>
  BY DEF ProviderStep, StopOffer, Offer, ProviderCrash, ProviderRestart,
     HandleRegisterNotificationMsg, HandleUnregisterNotificationMsg, NotifyEventRemote
<1>2. MachineTypeOK' /\ HandlerTypeOK'
  BY <1>1 DEF MachineTypeOK, HandlerTypeOK, machineVars, callVars, handlerVars, remoteVars,
     notifierVars
<1>3. CASE StopOffer \/ Offer
  <2>1. UNCHANGED <<provider, up, interested, inbox, notify, notifications>>
    BY <1>3 DEF StopOffer, Offer
  <2>2. offered' \in BOOLEAN
    BY <1>3 DEF StopOffer, Offer
  <2>3. stopOffers' \in 0 .. MaxStopOffers
    <3>1. stopOffers \in 0 .. MaxStopOffers /\ MaxStopOffers \in Nat
      BY DEF ProviderTypeOK
    <3>2. CASE StopOffer
      BY <3>1, <3>2 DEF StopOffer
    <3>3. CASE Offer
      BY <3>1, <3>3 DEF Offer
    <3> QED
      BY <1>3, <3>2, <3>3
  <2> QED
    BY <1>2, <2>1, <2>2, <2>3 DEF ProviderTypeOK
<1>4. CASE ProviderCrash \/ ProviderRestart
  <2>1. provider' \in Pids
    BY <1>4 DEF ProviderCrash, ProviderRestart, ProviderTypeOK, Pids
  <2>3. up' \/ provider' < MaxPid
    BY <1>4 DEF ProviderCrash, ProviderRestart, ProviderTypeOK
  <2>2. inbox' \in Seq({"register", "unregister"})
    <3>1. inbox' = <<>> \/ inbox' = inbox
      BY <1>4 DEF ProviderCrash, ProviderRestart
    <3>2. inbox \in Seq({"register", "unregister"})
      BY DEF ProviderTypeOK
    <3>3. <<>> \in Seq({"register", "unregister"})
      OBVIOUS
    <3> QED
      BY <3>1, <3>2, <3>3
  <2> QED
    BY <1>2, <1>4, <2>1, <2>2, <2>3 DEF ProviderCrash, ProviderRestart, ProviderTypeOK
<1>5. CASE HandleRegisterNotificationMsg \/ HandleUnregisterNotificationMsg
  <2>1. inbox' \in Seq({"register", "unregister"})
    BY <1>5 DEF HandleRegisterNotificationMsg, HandleUnregisterNotificationMsg,
       ProviderTypeOK
  <2> QED
    BY <1>2, <1>5, <2>1 DEF HandleRegisterNotificationMsg, HandleUnregisterNotificationMsg,
       ProviderTypeOK
<1>6. CASE NotifyEventRemote
  BY <1>2, <1>6 DEF NotifyEventRemote, ProviderTypeOK
<1> QED
  BY <1>3, <1>4, <1>5, <1>6 DEF ProviderStep

(* The walk through the handler list keeps the types.                      *)
LEMMA NotifierStepType ==
    ASSUME TypeOK, NotifierStep
    PROVE  TypeOK'
<1> USE DEF TypeOK
<1>1. UNCHANGED <<machineVars, callVars, handlerVars, remoteVars, provider, up, offered,
                  interested, inbox, stopOffers, notifications>>
  BY DEF NotifierStep, HandleNotifyEventMsg, HandlerReturns, CallNextHandler, NoHandlerLeft,
     providerVars
<1>2. MachineTypeOK'
  BY <1>1 DEF MachineTypeOK, machineVars, callVars, handlerVars
<1>3. notify' \in Nat
  BY DEF NotifierStep, HandleNotifyEventMsg, HandlerReturns, CallNextHandler, NoHandlerLeft,
     providerVars, ProviderTypeOK
<1>4. ProviderTypeOK'
  BY <1>1, <1>3 DEF ProviderTypeOK
<1>5. ASSUME NEW n \in handlers, CallHandler(n)
      PROVE  /\ notifying' \in {"between", "calling"}
             /\ current' \in 0 .. lastNumber /\ called' \in SUBSET (1 .. lastNumber)
  BY <1>5 DEF CallHandler, HandlerTypeOK
<1>6. /\ notifying' \in {"idle", "between", "calling"}
      /\ current' \in 0 .. lastNumber
      /\ due' \in SUBSET (1 .. lastNumber) /\ called' \in SUBSET (1 .. lastNumber)
  <2>1. CASE HandleNotifyEventMsg
    BY <1>5, <2>1 DEF HandleNotifyEventMsg, HandlerTypeOK
  <2>2. CASE HandlerReturns
    BY <2>2 DEF HandlerReturns, HandlerTypeOK
  <2>3. CASE CallNextHandler
    BY <1>5, <2>3 DEF CallNextHandler, HandlerTypeOK
  <2>4. CASE NoHandlerLeft
    BY <2>4 DEF NoHandlerLeft, HandlerTypeOK, NoNumber
  <2> QED
    BY <2>1, <2>2, <2>3, <2>4 DEF NotifierStep
<1>7. HandlerTypeOK'
  BY <1>1, <1>6 DEF HandlerTypeOK, handlerVars, remoteVars
<1> QED
  BY <1>2, <1>4, <1>7

(* Every step keeps every variable in its type.                            *)
LEMMA TypeStep == TypeOK /\ [Next]_vars => TypeOK'
<1> SUFFICES ASSUME TypeOK, [Next]_vars PROVE TypeOK'
  OBVIOUS
<1>1. CASE \E p \in Proxies : ProxyStep(p)
  BY <1>1, MachineStep, CallStep DEF ProxyStep
<1>2. CASE ProviderStep
  BY <1>2, ProviderStepType
<1>3. CASE NotifierStep
  BY <1>3, NotifierStepType
<1>4. CASE UNCHANGED vars
  BY <1>4 DEF vars, machineVars, callVars, handlerVars, remoteVars, notifierVars,
     providerVars, TypeOK, MachineTypeOK, HandlerTypeOK, ProviderTypeOK
<1> QED
  BY <1>1, <1>2, <1>3, <1>4 DEF Next

-----------------------------------------------------------------------------
(* The registrations of the proxies.                                       *)

OwnedInvariant == HandlersOwned /\ CallsFollowState

(* A step that registers and withdraws nothing preserves the invariant     *)
(* when where each call goes fits the proxy's registration and state.      *)
LEMMA OwnedKept ==
    ASSUME TypeOK, OwnedInvariant, UNCHANGED <<handlers, number>>, NEW p \in Proxies,
           /\ state' \in [Proxies -> States]
           /\ pc' \in [Proxies -> Steps]
           /\ after' \in [Proxies -> {"idle", "register"}],
           \A q \in Proxies \ {p} :
               state'[q] = state[q] /\ pc'[q] = pc[q] /\ after'[q] = after[q],
           state'[p] = "notSubscribed" /\ pc'[p] = "idle" => number[p] = NoNumber,
           pc'[p] \in {"unregisterRemote", "sendUnregister", "register"}
               => number[p] = NoNumber,
           pc'[p] \in Registering \/ after'[p] = "register" => state'[p] # "notSubscribed"
    PROVE  OwnedInvariant'
BY DEF OwnedInvariant, HandlersOwned, CallsFollowState

(* Entering a call leaves each handler with its owner, as the calls chosen *)
(* follow the state.                                                       *)
LEMMA OwnedEnter ==
    ASSUME TypeOK, OwnedInvariant, NEW p \in Proxies,
           \/ Subscribe(p) \/ Unsubscribe(p) \/ SetReceiveHandler(p)
           \/ UnsetReceiveHandler(p) \/ StopOfferEvent(p) \/ ReOfferEvent(p)
    PROVE  OwnedInvariant'
<1>1. TypeOK'
  BY MachineStep
<1>2. UNCHANGED <<handlers, number>>
  BY DEF Subscribe, Unsubscribe, SetReceiveHandler, UnsetReceiveHandler, StopOfferEvent,
     ReOfferEvent, handlerVars
<1>3. pc[p] = "idle"
  BY DEF Subscribe, Unsubscribe, SetReceiveHandler, UnsetReceiveHandler, StopOfferEvent,
     ReOfferEvent
<1>4. /\ state' \in [Proxies -> States] /\ pc' \in [Proxies -> Steps]
      /\ after' \in [Proxies -> {"idle", "register"}]
      /\ state \in [Proxies -> States] /\ pc \in [Proxies -> Steps]
      /\ after \in [Proxies -> {"idle", "register"}]
  BY <1>1 DEF TypeOK, MachineTypeOK
<1>5. /\ state[p] = "notSubscribed" => number[p] = NoNumber
      /\ after[p] = "register" => state[p] # "notSubscribed"
  BY <1>3 DEF OwnedInvariant, HandlersOwned, CallsFollowState
<1>6. \A q \in Proxies \ {p} :
          state'[q] = state[q] /\ pc'[q] = pc[q] /\ after'[q] = after[q]
  BY <1>4 DEF Subscribe, Unsubscribe, SetReceiveHandler, UnsetReceiveHandler,
     StopOfferEvent, ReOfferEvent, Enter, callVars
<1>7. /\ state'[p] = "notSubscribed" /\ pc'[p] = "idle" => number[p] = NoNumber
      /\ pc'[p] \in {"unregisterRemote", "sendUnregister", "register"}
             => number[p] = NoNumber
      /\ pc'[p] \in Registering \/ after'[p] = "register" => state'[p] # "notSubscribed"
  <2>1. CASE Subscribe(p)
    BY <1>4, <1>5, <2>1 DEF Subscribe, Enter, Register, Return, Registering
  <2>2. CASE Unsubscribe(p)
    BY <1>4, <1>5, <2>2 DEF Unsubscribe, Enter, Unregister, Registering
  <2>3. CASE SetReceiveHandler(p)
    BY <1>3, <1>4, <1>5, <2>3 DEF SetReceiveHandler, Enter, Register, Registering
  <2>4. CASE UnsetReceiveHandler(p)
    BY <1>3, <1>4, <1>5, <2>4 DEF UnsetReceiveHandler, Enter, Unregister, Registering
  <2>5. CASE StopOfferEvent(p)
    BY <1>3, <1>4, <1>5, <2>5 DEF StopOfferEvent, callVars, Registering
  <2>6. CASE ReOfferEvent(p)
    BY <1>3, <1>4, <1>5, <2>6 DEF ReOfferEvent, Enter, Register, Return, Registering
  <2> QED
    BY <2>1, <2>2, <2>3, <2>4, <2>5, <2>6
<1> QED
  BY <1>2, <1>4, <1>6, <1>7, OwnedKept

(* The other steps of a call leave list, numbers and states alone.         *)
LEMMA OwnedCall ==
    ASSUME TypeOK, OwnedInvariant, NEW p \in Proxies,
           \/ UnregisterEventNotificationRemote(p)
           \/ SendUnregister(p)
           \/ RegisterEventNotificationRemote(p)
           \/ ReregisterEventNotification(p)
           \/ SendRegisterEventNotificationMessage(p)
    PROVE  OwnedInvariant'
<1>1. UNCHANGED <<handlers, number, state>>
  BY DEF UnregisterEventNotificationRemote, SendUnregister, RegisterEventNotificationRemote,
     ReregisterEventNotification, SendRegisterEventNotificationMessage, machineVars,
     handlerVars
<1>2. /\ state \in [Proxies -> States] /\ pc \in [Proxies -> Steps]
      /\ after \in [Proxies -> {"idle", "register"}]
  BY DEF TypeOK, MachineTypeOK
<1>3. PICK step \in Steps :
          /\ Continue(p, step)
          /\ \/ /\ pc[p] \in {"unregisterRemote", "sendUnregister"}
                /\ step \in {after[p], "sendUnregister"}
             \/ /\ pc[p] \in Registering \ {"register"}
                /\ step \in {"idle", "sendRegister"}
  BY <1>2 DEF UnregisterEventNotificationRemote, SendUnregister,
     RegisterEventNotificationRemote, ReregisterEventNotification,
     SendRegisterEventNotificationMessage, Registering, Steps
<1>4. /\ pc' = [pc EXCEPT ![p] = step]
      /\ after' = [after EXCEPT ![p] = IF step = @ THEN "idle" ELSE @]
  BY <1>3 DEF Continue
<1>5. /\ pc' \in [Proxies -> Steps] /\ after' \in [Proxies -> {"idle", "register"}]
      /\ \A q \in Proxies \ {p} : pc'[q] = pc[q] /\ after'[q] = after[q]
      /\ pc'[p] = step /\ after'[p] \in {after[p], "idle"}
  BY <1>2, <1>4
<1>6. /\ pc[p] \in {"unregisterRemote", "sendUnregister"} => number[p] = NoNumber
      /\ pc[p] \in Registering \/ after[p] = "register" => state[p] # "notSubscribed"
  BY DEF OwnedInvariant, CallsFollowState
<1>7. /\ state[p] = "notSubscribed" /\ step = "idle" => number[p] = NoNumber
      /\ step \in {"unregisterRemote", "sendUnregister", "register"}
             => number[p] = NoNumber
      /\ step \in Registering \/ after'[p] = "register" => state[p] # "notSubscribed"
  BY <1>2, <1>3, <1>5, <1>6 DEF Registering
<1> QED
  BY <1>1, <1>2, <1>5, <1>7, OwnedKept

(* Taking a handler out of the list takes the number from its owner as     *)
(* well.                                                                   *)
LEMMA OwnedSearch ==
    ASSUME TypeOK, OwnedInvariant, NEW p \in Proxies, SearchHandlerForNotification(p)
    PROVE  OwnedInvariant'
<1>1. /\ number \in [Proxies -> 0 .. lastNumber] /\ pc \in [Proxies -> Steps]
      /\ after \in [Proxies -> {"idle", "register"}]
  BY DEF TypeOK, MachineTypeOK
<1>2. /\ handlers' = handlers \ {number[p]}
      /\ number' = [number EXCEPT ![p] = NoNumber]
      /\ pc' = [pc EXCEPT ![p] = "unregisterRemote"]
      /\ after' = after /\ state' = state
  BY <1>1 DEF SearchHandlerForNotification, Continue
<1>3. /\ handlers = {number[q] : q \in Proxies} \ {NoNumber}
      /\ \A q, r \in Proxies : number[q] = number[r] /\ q # r => number[q] = NoNumber
  BY DEF OwnedInvariant, HandlersOwned
<1>4. handlers' = {number'[q] : q \in Proxies} \ {NoNumber}
  <2>1. ASSUME NEW n \in handlers' PROVE n \in {number'[q] : q \in Proxies} \ {NoNumber}
    BY <1>1, <1>2, <1>3, <2>1
  <2>2. ASSUME NEW q \in Proxies, number'[q] # NoNumber PROVE number'[q] \in handlers'
    BY <1>1, <1>2, <1>3, <2>2
  <2> QED
    BY <2>1, <2>2
<1>5. \A q, r \in Proxies : number'[q] = number'[r] /\ q # r => number'[q] = NoNumber
  BY <1>1, <1>2, <1>3
<1>6. \A q \in Proxies :
          state'[q] = "notSubscribed" /\ pc'[q] = "idle" => number'[q] = NoNumber
  BY <1>1, <1>2 DEF OwnedInvariant, HandlersOwned
<1>7. CallsFollowState'
  BY <1>1, <1>2 DEF OwnedInvariant, CallsFollowState, Registering
<1> QED
  BY <1>4, <1>5, <1>6, <1>7 DEF OwnedInvariant, HandlersOwned

(* A handler is registered under a new number for a proxy that has none.   *)
LEMMA OwnedRegister ==
    ASSUME TypeOK, OwnedInvariant, NEW p \in Proxies, RegisterEventNotification(p)
    PROVE  OwnedInvariant'
<1>1. /\ number \in [Proxies -> 0 .. lastNumber] /\ pc \in [Proxies -> Steps]
      /\ after \in [Proxies -> {"idle", "register"}] /\ lastNumber \in Nat
  BY DEF TypeOK, MachineTypeOK, HandlerTypeOK
<1> DEFINE new == lastNumber + 1
<1>2. /\ handlers' = handlers \union {new}
      /\ number' = [number EXCEPT ![p] = new]
      /\ pc' = [pc EXCEPT ![p] = "registerRemote"]
      /\ after' = after /\ state' = state /\ pc[p] = "register"
  BY <1>1 DEF RegisterEventNotification, Continue
<1>3. /\ handlers = {number[q] : q \in Proxies} \ {NoNumber}
      /\ \A q, r \in Proxies : number[q] = number[r] /\ q # r => number[q] = NoNumber
      /\ number[p] = NoNumber
  BY <1>2 DEF OwnedInvariant, HandlersOwned, CallsFollowState
<1>4. new # NoNumber /\ \A q \in Proxies : number[q] # new
  BY <1>1 DEF NoNumber
<1> HIDE DEF new
<1>5. handlers' = {number'[q] : q \in Proxies} \ {NoNumber}
  <2>1. ASSUME NEW n \in handlers' PROVE n \in {number'[q] : q \in Proxies} \ {NoNumber}
    BY <1>1, <1>2, <1>3, <1>4, <2>1
  <2>2. ASSUME NEW q \in Proxies, number'[q] # NoNumber PROVE number'[q] \in handlers'
    BY <1>1, <1>2, <1>3, <2>2
  <2> QED
    BY <2>1, <2>2
<1>6. \A q, r \in Proxies : number'[q] = number'[r] /\ q # r => number'[q] = NoNumber
  BY <1>1, <1>2, <1>3, <1>4
<1>7. \A q \in Proxies :
          state'[q] = "notSubscribed" /\ pc'[q] = "idle" => number'[q] = NoNumber
  BY <1>1, <1>2 DEF OwnedInvariant, HandlersOwned
<1>8. CallsFollowState'
  BY <1>1, <1>2 DEF OwnedInvariant, CallsFollowState, Registering
<1> QED
  BY <1>5, <1>6, <1>7, <1>8 DEF OwnedInvariant, HandlersOwned

(* Ownership of handlers is kept by every step.                            *)
LEMMA OwnedStep == TypeOK /\ OwnedInvariant /\ [Next]_vars => OwnedInvariant'
<1> SUFFICES ASSUME TypeOK, OwnedInvariant, [Next]_vars PROVE OwnedInvariant'
  OBVIOUS
<1>1. CASE \E p \in Proxies : ProxyStep(p)
  <2>1. PICK p \in Proxies : ProxyStep(p)
    BY <1>1
  <2>2. CASE \E r \in {"set", "unset"} : ExpireScope(p, r)
    BY <2>2 DEF ExpireScope, machineVars, OwnedInvariant, HandlersOwned, CallsFollowState
  <2> QED
    BY <2>1, <2>2, OwnedEnter, OwnedCall, OwnedSearch, OwnedRegister DEF ProxyStep
<1>2. CASE ProviderStep
  <2>1. UNCHANGED <<machineVars, callVars, handlerVars>>
    BY <1>2 DEF ProviderStep, StopOffer, Offer, ProviderCrash, ProviderRestart,
       HandleRegisterNotificationMsg, HandleUnregisterNotificationMsg, NotifyEventRemote
  <2> QED
    BY <2>1 DEF machineVars, callVars, handlerVars, OwnedInvariant, HandlersOwned,
       CallsFollowState
<1>3. CASE NotifierStep
  <2>1. UNCHANGED <<machineVars, callVars, handlerVars>>
    BY <1>3 DEF NotifierStep, HandleNotifyEventMsg, HandlerReturns, CallNextHandler,
       NoHandlerLeft
  <2> QED
    BY <2>1 DEF machineVars, callVars, handlerVars, OwnedInvariant, HandlersOwned,
       CallsFollowState
<1>4. CASE UNCHANGED vars
  BY <1>4 DEF vars, machineVars, callVars, handlerVars, OwnedInvariant, HandlersOwned,
     CallsFollowState
<1> QED
  BY <1>1, <1>2, <1>3, <1>4 DEF Next

-----------------------------------------------------------------------------
(* The running handler.                                                    *)

(* No step lets a withdrawn handler run.                                   *)
LEMMA RunningStep == TypeOK /\ NoWithdrawnHandlerRuns /\ [Next]_vars => NoWithdrawnHandlerRuns'
<1> SUFFICES ASSUME TypeOK, NoWithdrawnHandlerRuns, [Next]_vars
             PROVE  NoWithdrawnHandlerRuns'
  OBVIOUS
<1> USE DEF NoWithdrawnHandlerRuns
<1>1. CASE \E p \in Proxies : ProxyStep(p)
  <2>1. PICK p \in Proxies : ProxyStep(p)
    BY <1>1
  <2>2. CASE \E r \in {"set", "unset"} : ExpireScope(p, r)
    BY <2>2 DEF ExpireScope, notifierVars
  <2>3. CASE SearchHandlerForNotification(p) \/ RegisterEventNotification(p)
    BY <2>3 DEF SearchHandlerForNotification, RegisterEventNotification, WriteLockFree,
       notifierVars
  <2>4. CASE UNCHANGED <<handlerVars, notifierVars>>
    BY <2>4 DEF handlerVars, notifierVars
  <2>5. \/ \E r \in {"set", "unset"} : ExpireScope(p, r)
        \/ SearchHandlerForNotification(p) \/ RegisterEventNotification(p)
        \/ UNCHANGED <<handlerVars, notifierVars>>
    BY <2>1 DEF ProxyStep, Subscribe, Unsubscribe, SetReceiveHandler, UnsetReceiveHandler,
       StopOfferEvent, ReOfferEvent, UnregisterEventNotificationRemote, SendUnregister,
       RegisterEventNotificationRemote, ReregisterEventNotification,
       SendRegisterEventNotificationMessage
  <2> QED
    BY <2>2, <2>3, <2>4, <2>5
<1>2. CASE ProviderStep
  BY <1>2 DEF ProviderStep, StopOffer, Offer, ProviderCrash, ProviderRestart,
     HandleRegisterNotificationMsg, HandleUnregisterNotificationMsg, NotifyEventRemote,
     handlerVars, notifierVars
<1>3. CASE NotifierStep
  <2>1. UNCHANGED handlerVars
    BY <1>3 DEF NotifierStep, HandleNotifyEventMsg, HandlerReturns, CallNextHandler,
       NoHandlerLeft
  <2>2. notifying' # "calling" \/ UNCHANGED <<notifying, current>>
            \/ \E n \in handlers : CallHandler(n)
    BY <1>3 DEF NotifierStep, HandleNotifyEventMsg, HandlerReturns, CallNextHandler,
       NoHandlerLeft
  <2> QED
    BY <2>1, <2>2 DEF CallHandler, handlerVars
<1>4. CASE UNCHANGED vars
  BY <1>4 DEF vars, handlerVars, notifierVars
<1> QED
  BY <1>1, <1>2, <1>3, <1>4 DEF Next

(* The walk continues behind the handler called last: a handler that comes *)
(* has a higher number than all others, one that goes is no longer due.    *)
LEMMA WalkStep == TypeOK /\ WalkInvariant /\ [Next]_vars => WalkInvariant'
<1> SUFFICES ASSUME TypeOK, WalkInvariant, [Next]_vars PROVE WalkInvariant'
  OBVIOUS
<1> USE DEF WalkInvariant
<1>0. /\ lastNumber \in Nat /\ current \in 0 .. lastNumber
      /\ handlers \in SUBSET (1 .. lastNumber)
  BY DEF TypeOK, HandlerTypeOK
<1>1. CASE \E p \in Proxies : ProxyStep(p)
  <2>1. PICK p \in Proxies : ProxyStep(p)
    BY <1>1
  <2>2. CASE \E r \in {"set", "unset"} : ExpireScope(p, r)
    BY <2>2 DEF ExpireScope, notifierVars
  <2>3. CASE SearchHandlerForNotification(p)
    BY <2>3 DEF SearchHandlerForNotification
  <2>4. CASE RegisterEventNotification(p)
    BY <2>4 DEF RegisterEventNotification, notifierVars
  <2>5. CASE UNCHANGED <<handlerVars, notifierVars>>
    BY <2>5 DEF handlerVars, notifierVars
  <2>6. \/ \E r \in {"set", "unset"} : ExpireScope(p, r)
        \/ SearchHandlerForNotification(p) \/ RegisterEventNotification(p)
        \/ UNCHANGED <<handlerVars, notifierVars>>
    BY <2>1 DEF ProxyStep, Subscribe, Unsubscribe, SetReceiveHandler, UnsetReceiveHandler,
       StopOfferEvent, ReOfferEvent, UnregisterEventNotificationRemote, SendUnregister,
       RegisterEventNotificationRemote, ReregisterEventNotification,
       SendRegisterEventNotificationMessage
  <2> QED
    BY <2>2, <2>3, <2>4, <2>5, <2>6
<1>2. CASE ProviderStep
  BY <1>2 DEF ProviderStep, StopOffer, Offer, ProviderCrash, ProviderRestart,
     HandleRegisterNotificationMsg, HandleUnregisterNotificationMsg, NotifyEventRemote,
     handlerVars, notifierVars
<1>3. CASE HandleNotifyEventMsg
  <2>1. handlers' = handlers /\ due' = handlers /\ notifying = "idle"
    BY <1>3 DEF HandleNotifyEventMsg, handlerVars
  <2>2. CASE handlers = {}
    BY <1>3, <2>1, <2>2 DEF HandleNotifyEventMsg
  <2>3. CASE handlers # {}
    <3>1. PICK n \in handlers : (\A k \in handlers : n <= k) /\ CallHandler(n)
      BY <1>3, <2>3 DEF HandleNotifyEventMsg, IsFirst
    <3>2. current' = n /\ n \in called' /\ notifying' # "idle"
      BY <3>1 DEF CallHandler
    <3>3. \A k \in handlers : k <= n => k = n
      BY <1>0, <3>1
    <3> QED
      BY <2>1, <3>2, <3>3
  <2> QED
    BY <2>2, <2>3
<1>4. CASE HandlerReturns
  BY <1>4 DEF HandlerReturns, handlerVars
<1>5. CASE CallNextHandler
  <2>1. PICK n \in handlers : IsFirst(n, HandlersAfter(current)) /\ CallHandler(n)
    BY <1>5 DEF CallNextHandler
  <2>2. /\ handlers' = handlers /\ due' = due
        /\ current' = n /\ called' = called \union {n} /\ notifying' # "idle"
    BY <1>5, <2>1 DEF CallNextHandler, CallHandler, handlerVars
  <2>3. \A k \in handlers : k > current => n <= k
    BY <2>1 DEF IsFirst, HandlersAfter
  <2>4. ASSUME NEW k \in due, k <= n PROVE k \in called'
    <3>1. k \in Nat /\ n \in Nat /\ current \in Nat /\ k \in handlers
      BY <1>0
    <3>2. CASE k <= current
      BY <2>2, <3>2
    <3>3. CASE k > current
      <4>1. k = n
        BY <2>3, <2>4, <3>1, <3>3
      <4> QED
        BY <2>2, <4>1
    <3> QED
      BY <3>1, <3>2, <3>3
  <2> QED
    BY <2>2, <2>4
<1>6. CASE NoHandlerLeft
  BY <1>6 DEF NoHandlerLeft, handlerVars
<1>7. CASE UNCHANGED vars
  BY <1>7 DEF vars, handlerVars, notifierVars
<1> QED
  BY <1>1, <1>2, <1>3, <1>4, <1>5, <1>6, <1>7 DEF Next, NotifierStep

(* A notification ends behind the last handler, so each that is due was    *)
(* called.                                                                 *)
LEMMA WalkEnds ==
    ASSUME TypeOK, WalkInvariant, [Next]_vars, notifying = "between", notifying' = "idle"
    PROVE  due \subseteq called
<1>1. NoHandlerLeft
  <2>1. ASSUME UNCHANGED notifying PROVE FALSE
    BY <2>1
  <2>2. \A n : CallHandler(n) => notifying' # "idle"
    BY DEF CallHandler
  <2>3. \A p \in Proxies : ~ProxyStep(p)
    BY <2>1 DEF ProxyStep, Subscribe, Unsubscribe, SetReceiveHandler, UnsetReceiveHandler,
       StopOfferEvent, ReOfferEvent, UnregisterEventNotificationRemote, SendUnregister,
       RegisterEventNotificationRemote, ReregisterEventNotification,
       SendRegisterEventNotificationMessage, ExpireScope, SearchHandlerForNotification,
       RegisterEventNotification, notifierVars
  <2>4. ~ProviderStep
    BY <2>1 DEF ProviderStep, StopOffer, Offer, ProviderCrash, ProviderRestart,
       HandleRegisterNotificationMsg, HandleUnregisterNotificationMsg, NotifyEventRemote,
       notifierVars
  <2>5. ~(UNCHANGED vars)
    BY <2>1 DEF vars, notifierVars
  <2> QED
    BY <2>2, <2>3, <2>4, <2>5 DEF Next, NotifierStep, HandleNotifyEventMsg, HandlerReturns,
       CallNextHandler
<1>2. current \in Nat /\ handlers \in SUBSET Nat
  BY DEF TypeOK, HandlerTypeOK
<1>3. \A k \in handlers : k <= current
  BY <1>1, <1>2 DEF NoHandlerLeft, HandlersAfter
<1> QED
  BY <1>3 DEF WalkInvariant

-----------------------------------------------------------------------------
(* The registrations at a provider that stays.                             *)

(* A step that gives no proxy another place in the count.                  *)
LEMMA CountKept ==
    ASSUME CountInvariant, UNCHANGED <<provider, node, count>>,
           \A q \in Proxies : /\ available'[q] /\ sourcePid'[q] = 1 /\ pc'[q] # "reregisterRemote"
                              /\ pc'[q] \in {"unregister", "registerRemote"}
                                    => number'[q] # NoNumber,
           \A q \in Proxies : (q \in Counted)' <=> q \in Counted
    PROVE  CountInvariant'
<1>1. Counted' \subseteq Proxies /\ Counted \subseteq Proxies
  BY DEF Counted
<1>2. Counted' = Counted
  BY <1>1
<1> QED
  BY <1>2 DEF CountInvariant, RegistrationsCounted

(* The calls that enter a state machine find the service there.            *)
LEMMA CountEnter ==
    ASSUME TypeOK, OwnedInvariant, CountInvariant, ProviderStays, NEW p \in Proxies,
           \/ Subscribe(p) \/ Unsubscribe(p) \/ SetReceiveHandler(p)
           \/ UnsetReceiveHandler(p) \/ StopOfferEvent(p) \/ ReOfferEvent(p)
    PROVE  CountInvariant'
<1>1. pc \in [Proxies -> Steps] /\ after \in [Proxies -> {"idle", "register"}]
  BY DEF TypeOK, MachineTypeOK
<1>2. ~StopOfferEvent(p) /\ ~ReOfferEvent(p)
  BY DEF StopOfferEvent, ReOfferEvent, CountInvariant, ProviderStays
<1>3. /\ UNCHANGED <<available, sourcePid, number, node, count, provider>>
      /\ pc[p] = "idle"
      /\ \/ Enter(p, Register(p)) \/ Enter(p, Unregister(p)) \/ Enter(p, Return)
         \/ pc' = pc
  BY <1>2 DEF Subscribe, Unsubscribe, SetReceiveHandler, UnsetReceiveHandler, remoteVars,
     providerVars
<1>4. /\ \A q \in Proxies \ {p} : pc'[q] = pc[q]
      /\ pc'[p] \in {"idle", "unregister", "register"}
      /\ pc'[p] = "unregister" => number[p] # NoNumber
  BY <1>1, <1>3 DEF Enter, Register, Unregister, Return
<1>5. \A q \in Proxies : (q \in Counted)' <=> q \in Counted
  BY <1>3, <1>4 DEF Counted
<1> QED
  BY <1>3, <1>4, <1>5, CountKept DEF CountInvariant

(* The steps of a call count a registration once, and withdraw it once.    *)
LEMMA CountCall ==
    ASSUME TypeOK, OwnedInvariant, CountInvariant, NEW p \in Proxies,
           \/ SearchHandlerForNotification(p) \/ UnregisterEventNotificationRemote(p)
           \/ SendUnregister(p) \/ RegisterEventNotification(p)
           \/ RegisterEventNotificationRemote(p) \/ ReregisterEventNotification(p)
           \/ SendRegisterEventNotificationMessage(p)
    PROVE  CountInvariant'
<1>1. /\ pc \in [Proxies -> Steps] /\ after \in [Proxies -> {"idle", "register"}]
      /\ number \in [Proxies -> 0 .. lastNumber] /\ lastNumber \in Nat /\ count \in Nat
  BY DEF TypeOK, MachineTypeOK, HandlerTypeOK
<1>2. /\ provider = 1 /\ node = 1 /\ count = Cardinality(Counted)
      /\ \A q \in Proxies :
            /\ available[q] /\ sourcePid[q] = 1 /\ pc[q] # "reregisterRemote"
            /\ pc[q] \in {"unregister", "registerRemote"} => number[q] # NoNumber
      /\ pc[p] \in {"unregisterRemote", "sendUnregister", "register"} => number[p] = NoNumber
  BY DEF CountInvariant, RegistrationsCounted, OwnedInvariant, CallsFollowState
<1>3. IsFiniteSet(Counted) /\ Counted \in SUBSET Proxies
  <2>1. Counted \in SUBSET Proxies
    BY DEF Counted
  <2> QED
    BY <2>1, NotificationAssumption, FS_Subset
<1>4. CASE SearchHandlerForNotification(p)
  <2>1. /\ UNCHANGED <<available, sourcePid, node, count, provider>>
        /\ pc[p] = "unregister" /\ pc' = [pc EXCEPT ![p] = "unregisterRemote"]
        /\ number' = [number EXCEPT ![p] = NoNumber]
    BY <1>4 DEF SearchHandlerForNotification, Continue, remoteVars, providerVars
  <2>2. /\ \A q \in Proxies \ {p} : pc'[q] = pc[q] /\ number'[q] = number[q]
        /\ pc'[p] = "unregisterRemote"
    BY <1>1, <2>1
  <2>3. \A q \in Proxies : (q \in Counted)' <=> q \in Counted
    BY <1>2, <2>1, <2>2 DEF Counted
  <2> QED
    BY <1>2, <2>1, <2>2, <2>3, CountKept
<1>5. CASE UnregisterEventNotificationRemote(p)
  <2>1. p \in Counted /\ pc[p] = "unregisterRemote"
    BY <1>5 DEF UnregisterEventNotificationRemote, Counted
  <2>2. Cardinality(Counted \ {p}) = count - 1 /\ Cardinality(Counted \ {p}) \in Nat
    BY <1>2, <1>3, <2>1, FS_RemoveElement, FS_CardinalityType
  <2>3. count # 0
    BY <1>1, <2>2
  <2>4. /\ UNCHANGED <<available, sourcePid, number, node, provider>> /\ count' = count - 1
        /\ \E step \in {"sendUnregister", after[p]} : pc' = [pc EXCEPT ![p] = step]
    BY <1>2, <1>5, <2>3 DEF UnregisterEventNotificationRemote, Continue, machineVars, providerVars
  <2>5. /\ \A q \in Proxies \ {p} : pc'[q] = pc[q]
        /\ pc'[p] \in {"sendUnregister", "idle", "register"}
    BY <1>1, <2>4
  <2>6. Counted' = Counted \ {p}
    BY <1>2, <2>1, <2>4, <2>5 DEF Counted
  <2> QED
    BY <1>2, <2>2, <2>4, <2>5, <2>6 DEF CountInvariant, RegistrationsCounted
<1>6. CASE SendUnregister(p) \/ SendRegisterEventNotificationMessage(p)
  <2>1. /\ UNCHANGED <<available, sourcePid, number, node, count, provider>>
        /\ pc[p] \in {"sendUnregister", "sendRegister"}
        /\ \E step \in {"idle", after[p]} : pc' = [pc EXCEPT ![p] = step]
    BY <1>6 DEF SendUnregister, SendRegisterEventNotificationMessage, Continue, machineVars,
       remoteVars
  <2>2. \A q \in Proxies \ {p} : pc'[q] = pc[q]
    BY <1>1, <2>1
  <2>3. pc'[p] \in {"idle", "register"}
    BY <1>1, <2>1
  <2>4. \A q \in Proxies : (q \in Counted)' <=> q \in Counted
    BY <2>1, <2>2, <2>3 DEF Counted
  <2> QED
    BY <1>2, <2>1, <2>2, <2>3, <2>4, CountKept
<1>7. CASE RegisterEventNotification(p)
  <2>1. /\ UNCHANGED <<available, sourcePid, node, count, provider>>
        /\ pc[p] = "register" /\ pc' = [pc EXCEPT ![p] = "registerRemote"]
        /\ number' = [number EXCEPT ![p] = lastNumber + 1]
    BY <1>7 DEF RegisterEventNotification, Continue, remoteVars, providerVars
  <2>2. /\ \A q \in Proxies \ {p} : pc'[q] = pc[q] /\ number'[q] = number[q]
        /\ pc'[p] = "registerRemote" /\ number'[p] = lastNumber + 1
    BY <1>1, <2>1
  <2>3. number'[p] # NoNumber
    BY <1>1, <2>2 DEF NoNumber
  <2>4. \A q \in Proxies : (q \in Counted)' <=> q \in Counted
    BY <1>2, <2>1, <2>2 DEF Counted
  <2> QED
    BY <1>2, <2>1, <2>2, <2>3, <2>4, CountKept
<1>8. CASE RegisterEventNotificationRemote(p)
  <2>1. p \notin Counted /\ pc[p] = "registerRemote" /\ number[p] # NoNumber
    BY <1>2, <1>8 DEF RegisterEventNotificationRemote, Counted
  <2>2. Cardinality(Counted \union {p}) = count + 1
    BY <1>2, <1>3, <2>1, FS_AddElement
  <2>3. /\ UNCHANGED <<available, sourcePid, number, provider>>
        /\ node' = 1 /\ count' = count + 1
        /\ \E step \in {"sendRegister", "idle"} : pc' = [pc EXCEPT ![p] = step]
    <3>1. /\ UNCHANGED <<available, sourcePid, number, provider>> /\ node' = 1
          /\ count' = IF count > 0 THEN count + 1 ELSE 1
      BY <1>2, <1>8 DEF RegisterEventNotificationRemote, machineVars, providerVars
    <3>2. count' = count + 1
      BY <1>1, <3>1
    <3>3. Continue(p, IF count' = 1 THEN "sendRegister" ELSE "idle")
      BY <1>8 DEF RegisterEventNotificationRemote
    <3>4. CASE count' = 1
      BY <3>1, <3>2, <3>3, <3>4 DEF Continue
    <3>5. CASE count' # 1
      BY <3>1, <3>2, <3>3, <3>5 DEF Continue
    <3> QED
      BY <3>4, <3>5
  <2>4. /\ \A q \in Proxies \ {p} : pc'[q] = pc[q]
        /\ pc'[p] \in {"sendRegister", "idle"}
    BY <1>1, <2>3
  <2>5. Counted' = Counted \union {p}
    BY <2>1, <2>3, <2>4 DEF Counted
  <2> QED
    BY <1>2, <2>2, <2>3, <2>4, <2>5 DEF CountInvariant, RegistrationsCounted
<1>9. ~ReregisterEventNotification(p)
  BY <1>2 DEF ReregisterEventNotification
<1> QED
  BY <1>4, <1>5, <1>6, <1>7, <1>8, <1>9

(* Nothing is registered at first.                                         *)
LEMMA CountInit == Init => CountInvariant
<1> SUFFICES ASSUME Init PROVE CountInvariant
  OBVIOUS
<1>1. Counted = {}
  BY DEF Init, Counted
<1>2. Cardinality(Counted) = 0
  BY <1>1, FS_EmptySet
<1> QED
  BY <1>2 DEF Init, CountInvariant, RegistrationsCounted

(* Every step keeps the count while the provider stays.                    *)
LEMMA CountStep ==
    ASSUME TypeOK, OwnedInvariant, CountInvariant, ProviderStays, ProviderStays', [Next]_vars
    PROVE  CountInvariant'
<1>1. CASE UNCHANGED <<available, sourcePid, number, pc, node, count, provider>>
  <2>1. \A q \in Proxies : (q \in Counted)' <=> q \in Counted
    BY <1>1 DEF Counted
  <2> QED
    BY <1>1, <2>1, CountKept DEF CountInvariant
<1>2. CASE \E p \in Proxies : ProxyStep(p)
  <2>1. PICK p \in Proxies : ProxyStep(p)
    BY <1>2
  <2>2. CASE \E r \in {"set", "unset"} : ExpireScope(p, r)
    BY <1>1, <2>2 DEF ExpireScope, machineVars, remoteVars, providerVars
  <2> QED
    BY <2>1, <2>2, CountEnter, CountCall DEF ProxyStep
<1>3. CASE ProviderStep
  <2>1. ~ProviderRestart
    BY DEF ProviderRestart, ProviderStays
  <2> QED
    BY <1>1, <1>3, <2>1 DEF ProviderStep, StopOffer, Offer, ProviderCrash,
       HandleRegisterNotificationMsg, HandleUnregisterNotificationMsg, NotifyEventRemote,
       machineVars, callVars, remoteVars
<1>4. CASE NotifierStep
  BY <1>1, <1>4 DEF NotifierStep, HandleNotifyEventMsg, HandlerReturns, CallNextHandler,
     NoHandlerLeft, machineVars, callVars, remoteVars, providerVars
<1>5. CASE UNCHANGED vars
  BY <1>1, <1>5 DEF vars, machineVars, callVars, remoteVars, providerVars
<1> QED
  BY <1>2, <1>3, <1>4, <1>5 DEF Next

-----------------------------------------------------------------------------
(* A lone proxy of a provider that stops, crashes and restarts.            *)

(* What was sent last is what the provider will have heard.                *)
LEMMA LastSent ==
    ASSUME ProviderTypeOK, NEW m \in {"register", "unregister"}, inbox' = Append(inbox, m)
    PROVE  WillBeInterested' <=> m = "register"
<1>1. inbox \in Seq({"register", "unregister"})
  BY DEF ProviderTypeOK
<1>2. Len(inbox') = Len(inbox) + 1 /\ inbox'[Len(inbox) + 1] = m
  BY <1>1
<1>3. inbox' # <<>>
  BY <1>1
<1> QED
  BY <1>2, <1>3 DEF WillBeInterested

(* Receiving a message does not change what will have been heard.          *)
LEMMA LastReceived ==
    ASSUME ProviderTypeOK, inbox # <<>>, inbox' = Tail(inbox),
           interested' = (Head(inbox) = "register")
    PROVE  WillBeInterested' <=> WillBeInterested
<1>1. inbox \in Seq({"register", "unregister"}) /\ Len(inbox) \in Nat \ {0}
  BY DEF ProviderTypeOK
<1>2. CASE Len(inbox) = 1
  <2>1. Tail(inbox) = <<>> /\ Head(inbox) = inbox[1]
    BY <1>1, <1>2
  <2> QED
    BY <1>2, <2>1 DEF WillBeInterested
<1>3. CASE Len(inbox) > 1
  <2>1. Len(Tail(inbox)) = Len(inbox) - 1
    BY <1>1, <1>3
  <2>2. Tail(inbox) # <<>>
    <3>1. Len(Tail(inbox)) # 0
      BY <1>1, <1>3, <2>1
    <3>2. Len(<<>>) = 0
      OBVIOUS
    <3> QED
      BY <3>1, <3>2, Zenon
  <2>3. Tail(inbox)[Len(inbox) - 1] = inbox[Len(inbox)]
    BY <1>1, <1>3
  <2> QED
    BY <2>1, <2>2, <2>3 DEF WillBeInterested
<1>4. Len(inbox) = 1 \/ Len(inbox) > 1
  <2> DEFINE n == Len(inbox)
  <2>1. n \in Nat \ {0}
    BY <1>1
  <2> HIDE DEF n
  <2>2. n = 1 \/ n > 1
    BY <2>1
  <2> QED
    BY <2>2 DEF n
<1> QED
  BY <1>2, <1>3, <1>4

(* Nothing changes that a registration depends on.                         *)
LEMMA LoneKept ==
    ASSUME NEW p \in Proxies, LoneInvariant(p),
           \A q \in Proxies : pc'[q] = pc[q] /\ state'[q] = state[q],
           number'[p] = number[p], available'[p] = available[p], sourcePid'[p] = sourcePid[p],
           UNCHANGED <<node, count, provider, up, inbox, interested>>
    PROVE  LoneInvariant(p)'
<1>1. WillBeInterested' <=> WillBeInterested
  BY DEF WillBeInterested
<1> QED
  BY <1>1 DEF LoneInvariant

(* The proxies that are not used only learn of the provider.               *)
LEMMA LoneOthers ==
    ASSUME TypeOK, NEW p \in Proxies, LoneInvariant(p), NEW q \in Proxies \ {p}, ProxyStep(q),
           request'[q] = "none", state'[q] = "notSubscribed", ~stored'[q]
    PROVE  LoneInvariant(p)'
<1> USE DEF TypeOK, MachineTypeOK
<1>1. pc[q] = "idle" /\ state[q] = "notSubscribed"
  BY DEF LoneInvariant
<1>2. \/ SetReceiveHandler(q) \/ UnsetReceiveHandler(q) \/ StopOfferEvent(q) \/ ReOfferEvent(q)
  <2>1. ~Subscribe(q)
    BY DEF Subscribe, States
  <2>2. ~Unsubscribe(q)
    BY <1>1 DEF Unsubscribe
  <2>3. \A r \in {"set", "unset"} : ~ExpireScope(q, r)
    BY DEF ExpireScope
  <2>4. /\ ~SearchHandlerForNotification(q) /\ ~UnregisterEventNotificationRemote(q)
        /\ ~SendUnregister(q) /\ ~RegisterEventNotification(q)
        /\ ~RegisterEventNotificationRemote(q) /\ ~ReregisterEventNotification(q)
        /\ ~SendRegisterEventNotificationMessage(q)
    BY <1>1 DEF SearchHandlerForNotification, UnregisterEventNotificationRemote,
       SendUnregister, RegisterEventNotification, RegisterEventNotificationRemote,
       ReregisterEventNotification, SendRegisterEventNotificationMessage
  <2> QED
    BY <2>1, <2>2, <2>3, <2>4 DEF ProxyStep
<1>3. UNCHANGED <<node, count, provider, up, inbox, interested, number, pc>>
  BY <1>1, <1>2 DEF SetReceiveHandler, UnsetReceiveHandler, StopOfferEvent, ReOfferEvent,
     callVars, remoteVars, providerVars
<1>4. /\ \A r \in Proxies : state'[r] = state[r]
      /\ available'[p] = available[p] /\ sourcePid'[p] = sourcePid[p]
  BY <1>1, <1>2 DEF SetReceiveHandler, UnsetReceiveHandler, StopOfferEvent, ReOfferEvent
<1> QED
  BY <1>3, <1>4, LoneKept

(* A call into the lone proxy's state machine begins.                      *)
LEMMA LoneEnter ==
    ASSUME TypeOK, OwnedInvariant, NEW p \in Proxies, LoneInvariant(p),
           \/ Subscribe(p) \/ Unsubscribe(p) \/ SetReceiveHandler(p)
           \/ UnsetReceiveHandler(p) \/ StopOfferEvent(p) \/ ReOfferEvent(p)
    PROVE  LoneInvariant(p)'
<1> DEFINE Entered ==
        /\ \A q \in Proxies \ {p} : pc'[q] = pc[q] /\ state'[q] = state[q]
        /\ pc'[p] \in {"idle", "unregister", "register", "reregisterRemote"}
        /\ pc'[p] = "reregisterRemote" => number[p] # NoNumber
        /\ pc'[p] = "idle" /\ number[p] # NoNumber => sourcePid'[p] = sourcePid[p]
        /\ sourcePid'[p] \in {sourcePid[p], provider}
        /\ state'[p] = "subscribed" => available'[p]
<1>1. pc[p] = "idle" /\ UNCHANGED <<node, count, provider, up, inbox, interested, number>>
  BY DEF Subscribe, Unsubscribe, SetReceiveHandler, UnsetReceiveHandler, StopOfferEvent,
     ReOfferEvent, remoteVars, providerVars
<1>2. /\ pc \in [Proxies -> Steps] /\ state \in [Proxies -> States]
      /\ sourcePid \in [Proxies -> Pids] /\ available \in [Proxies -> BOOLEAN]
  BY DEF TypeOK, MachineTypeOK
<1>3. state[p] = "notSubscribed" => number[p] = NoNumber
  BY <1>1 DEF OwnedInvariant, HandlersOwned
<1>4. state[p] = "subscribed" => available[p]
  BY DEF LoneInvariant
<1>5. ASSUME Subscribe(p) PROVE Entered
  BY <1>1, <1>2, <1>5 DEF Subscribe, Enter, Register, Return
<1>6. ASSUME Unsubscribe(p) PROVE Entered
  BY <1>1, <1>2, <1>6 DEF Unsubscribe, Enter, Unregister
<1>7. ASSUME SetReceiveHandler(p) PROVE Entered
  BY <1>1, <1>2, <1>4, <1>7 DEF SetReceiveHandler, Enter, Register
<1>8. ASSUME UnsetReceiveHandler(p) PROVE Entered
  BY <1>1, <1>2, <1>4, <1>8 DEF UnsetReceiveHandler, Enter, Unregister
<1>9. ASSUME StopOfferEvent(p) PROVE Entered
  BY <1>1, <1>2, <1>9 DEF StopOfferEvent, callVars
<1>10. ASSUME ReOfferEvent(p) PROVE Entered
  <2>1. /\ available'[p] /\ sourcePid' = [sourcePid EXCEPT ![p] = provider]
        /\ ~available[p]
    BY <1>2, <1>10 DEF ReOfferEvent
  <2>2. CASE state[p] = "pending" /\ stored[p]
    BY <1>1, <1>2, <1>10, <2>1, <2>2 DEF ReOfferEvent, Enter, Register
  <2>3. CASE state[p] = "pending" /\ ~stored[p]
    BY <1>1, <1>2, <1>10, <2>1, <2>3 DEF ReOfferEvent, Enter, Return
  <2>4. CASE state[p] # "pending"
    <3>1. UNCHANGED <<state, pc>> /\ number[p] = NoNumber
      BY <1>2, <1>3, <1>4, <1>10, <2>1, <2>4 DEF ReOfferEvent, States
    <3> QED
      BY <1>1, <1>2, <2>1, <3>1
  <2> QED
    BY <2>2, <2>3, <2>4
<1>11. Entered
  BY <1>5, <1>6, <1>7, <1>8, <1>9, <1>10
<1>12. WillBeInterested' <=> WillBeInterested
  BY <1>1 DEF WillBeInterested
<1>13. node <= provider /\ sourcePid'[p] <= provider
  <2>1. provider \in Int /\ node <= provider /\ sourcePid[p] <= provider
    BY NotificationAssumption DEF LoneInvariant, TypeOK, ProviderTypeOK, Pids
  <2> QED
    BY <1>11, <2>1
<1>14. \A q \in Proxies \ {p} : pc'[q] = "idle" /\ state'[q] = "notSubscribed"
  BY <1>11 DEF LoneInvariant
<1>15. number[p] # NoNumber => count > 0 /\ node = sourcePid[p]
  BY <1>1 DEF LoneInvariant
<1>16. up /\ count > 0 /\ node = provider => WillBeInterested'
  BY <1>1, <1>12 DEF LoneInvariant
<1> HIDE DEF Entered
<1>17. /\ pc'[p] \notin {"sendUnregister", "sendRegister"}
       /\ pc'[p] = "reregisterRemote" => number[p] # NoNumber
       /\ pc'[p] = "idle" /\ number[p] # NoNumber => sourcePid'[p] = sourcePid[p]
       /\ state'[p] = "subscribed" => available'[p]
  BY <1>11 DEF Entered
<1> QED
  BY <1>1, <1>13, <1>14, <1>15, <1>16, <1>17 DEF LoneInvariant

(* A call of the lone proxy goes on.                                       *)
LEMMA LoneCall ==
    ASSUME TypeOK, OwnedInvariant, NEW p \in Proxies, LoneInvariant(p),
           \/ SearchHandlerForNotification(p) \/ UnregisterEventNotificationRemote(p)
           \/ SendUnregister(p) \/ RegisterEventNotification(p)
           \/ RegisterEventNotificationRemote(p) \/ ReregisterEventNotification(p)
           \/ SendRegisterEventNotificationMessage(p)
    PROVE  LoneInvariant(p)'
<1>1. /\ pc \in [Proxies -> Steps] /\ after[p] \in {"idle", "register"}
      /\ number \in [Proxies -> 0 .. lastNumber] /\ lastNumber \in Nat /\ count \in Nat
  BY DEF TypeOK, MachineTypeOK, HandlerTypeOK
<1>2. /\ \A q \in Proxies \ {p} : pc'[q] = pc[q]
      /\ UNCHANGED <<state, available, sourcePid, provider, up, interested>>
  BY <1>1 DEF SearchHandlerForNotification, UnregisterEventNotificationRemote, SendUnregister,
     RegisterEventNotification, RegisterEventNotificationRemote, ReregisterEventNotification,
     SendRegisterEventNotificationMessage, Continue, machineVars, providerVars
<1>3. pc[p] \in {"unregisterRemote", "sendUnregister"} => number[p] = NoNumber
  BY DEF OwnedInvariant, CallsFollowState
<1>4. CASE SearchHandlerForNotification(p)
  <2>1. pc[p] = "unregister" /\ pc'[p] = "unregisterRemote"
    BY <1>1, <1>4 DEF SearchHandlerForNotification, Continue
  <2>2. UNCHANGED <<node, count, inbox>>
    BY <1>4 DEF SearchHandlerForNotification, remoteVars, providerVars
  <2> QED
    BY <1>2, <2>1, <2>2 DEF LoneInvariant, WillBeInterested
<1>5. CASE UnregisterEventNotificationRemote(p)
  <2>1. /\ pc[p] = "unregisterRemote" /\ pc'[p] \in {"idle", "register", "sendUnregister"}
        /\ pc'[p] = "sendUnregister" => count' = 0
        /\ count' \in Nat /\ count' <= count
    BY <1>1, <1>5 DEF UnregisterEventNotificationRemote, Continue
  <2>2. UNCHANGED <<node, inbox, number>>
    BY <1>5 DEF UnregisterEventNotificationRemote, machineVars, providerVars
  <2>3. count' > 0 => count > 0
    BY <1>1, <2>1
  <2> QED
    BY <1>2, <1>3, <2>1, <2>2, <2>3 DEF LoneInvariant, WillBeInterested
<1>6. CASE SendUnregister(p)
  <2>1. /\ pc[p] = "sendUnregister" /\ pc'[p] \in {"idle", "register"} /\ count = 0
    BY <1>1, <1>6 DEF SendUnregister, Continue, LoneInvariant
  <2>2. UNCHANGED <<node, count, number>>
    BY <1>6 DEF SendUnregister, machineVars, remoteVars
  <2> QED
    BY <1>2, <1>3, <2>1, <2>2 DEF LoneInvariant
<1>7. CASE RegisterEventNotification(p)
  <2>1. pc[p] = "register" /\ pc'[p] = "registerRemote"
    BY <1>1, <1>7 DEF RegisterEventNotification, Continue
  <2>2. UNCHANGED <<node, count, inbox>>
    BY <1>7 DEF RegisterEventNotification, remoteVars, providerVars
  <2> QED
    BY <1>2, <2>1, <2>2 DEF LoneInvariant, WillBeInterested
<1>8. CASE RegisterEventNotificationRemote(p)
  <2>1. /\ pc[p] = "registerRemote" /\ node' = sourcePid[p]
        /\ pc'[p] \in {"idle", "sendRegister"}
        /\ count' > 0
        /\ pc'[p] = "idle" => count > 0 /\ node = sourcePid[p]
    BY <1>1, <1>8 DEF RegisterEventNotificationRemote, Continue
  <2>2. UNCHANGED <<inbox, number>>
    BY <1>8 DEF RegisterEventNotificationRemote, machineVars, providerVars
  <2> QED
    BY <1>2, <2>1, <2>2 DEF LoneInvariant, WillBeInterested
<1>9. CASE ReregisterEventNotification(p)
  <2>1. pc[p] = "reregisterRemote" /\ count > 0
    BY <1>9 DEF ReregisterEventNotification, LoneInvariant
  <2>2. /\ node' = sourcePid[p] /\ count' > 0
        /\ pc'[p] \in {"idle", "sendRegister"}
        /\ pc'[p] = "idle" => node = sourcePid[p]
    BY <1>1, <1>9, <2>1 DEF ReregisterEventNotification, Continue
  <2>3. UNCHANGED <<inbox, number>>
    BY <1>9 DEF ReregisterEventNotification, machineVars, providerVars
  <2> QED
    BY <1>2, <2>1, <2>2, <2>3 DEF LoneInvariant, WillBeInterested
<1>10. CASE SendRegisterEventNotificationMessage(p)
  <2>1. /\ pc[p] = "sendRegister" /\ pc'[p] = "idle" /\ node = sourcePid[p] /\ count > 0
    BY <1>1, <1>10 DEF SendRegisterEventNotificationMessage, Continue, LoneInvariant
  <2>2. UNCHANGED <<node, count, number>>
    BY <1>10 DEF SendRegisterEventNotificationMessage, machineVars, remoteVars
  <2>3. up /\ node = provider => WillBeInterested'
    <3> SUFFICES ASSUME up, node = provider PROVE WillBeInterested'
      OBVIOUS
    <3>1. inbox' = Append(inbox, "register")
      BY <1>10, <2>1 DEF SendRegisterEventNotificationMessage, Send
    <3> QED
      BY <3>1, LastSent DEF TypeOK
  <2> QED
    BY <1>2, <2>1, <2>2, <2>3 DEF LoneInvariant
<1> QED
  BY <1>4, <1>5, <1>6, <1>7, <1>8, <1>9, <1>10

(* The provider stops its offer, crashes, restarts, or reads a message.    *)
LEMMA LoneProvider ==
    ASSUME TypeOK, NEW p \in Proxies, LoneInvariant(p), ProviderStep
    PROVE  LoneInvariant(p)'
<1>1. UNCHANGED <<state, available, number, sourcePid, pc, node, count>>
  BY DEF ProviderStep, StopOffer, Offer, ProviderCrash, ProviderRestart,
     HandleRegisterNotificationMsg, HandleUnregisterNotificationMsg, NotifyEventRemote,
     machineVars, callVars, remoteVars
<1>2. CASE StopOffer \/ Offer \/ NotifyEventRemote
  BY <1>1, <1>2, LoneKept DEF StopOffer, Offer, NotifyEventRemote
<1>3. CASE ProviderCrash
  BY <1>1, <1>3 DEF ProviderCrash, LoneInvariant
<1>4. CASE ProviderRestart
  <2>1. /\ provider \in Int /\ node \in Int /\ sourcePid[p] \in Int
        /\ provider' = provider + 1
    BY <1>4, NotificationAssumption DEF ProviderRestart, TypeOK, ProviderTypeOK, HandlerTypeOK,
       MachineTypeOK, Pids
  <2>2. node <= provider /\ sourcePid[p] <= provider
    BY DEF LoneInvariant
  <2>3. node <= provider' /\ sourcePid[p] <= provider' /\ node # provider'
    BY <2>1, <2>2
  <2> QED
    BY <1>1, <2>3 DEF LoneInvariant
<1>5. CASE HandleRegisterNotificationMsg \/ HandleUnregisterNotificationMsg
  <2>1. /\ inbox # <<>> /\ inbox' = Tail(inbox) /\ UNCHANGED <<provider, up>>
        /\ interested' = (Head(inbox) = "register")
    BY <1>5 DEF HandleRegisterNotificationMsg, HandleUnregisterNotificationMsg
  <2>2. WillBeInterested' <=> WillBeInterested
    BY <2>1, LastReceived DEF TypeOK
  <2> QED
    BY <1>1, <2>1, <2>2 DEF LoneInvariant
<1> QED
  BY <1>2, <1>3, <1>4, <1>5 DEF ProviderStep

(* Every step keeps the registration of a lone proxy on its way.           *)
LEMMA LoneStep ==
    ASSUME TypeOK, OwnedInvariant, NEW p \in Proxies, LoneInvariant(p), Next,
           \A q \in Proxies \ {p} :
              request'[q] = "none" /\ state'[q] = "notSubscribed" /\ ~stored'[q]
    PROVE  LoneInvariant(p)'
<1>1. CASE ProxyStep(p)
  <2>1. CASE \E r \in {"set", "unset"} : ExpireScope(p, r)
    <3>1. UNCHANGED <<state, available, number, sourcePid, pc, node, count, provider, up, inbox,
                      interested>>
      BY <2>1 DEF ExpireScope, machineVars, remoteVars, providerVars
    <3> QED
      BY <3>1, LoneKept
  <2> QED
    BY <1>1, <2>1, LoneEnter, LoneCall DEF ProxyStep
<1>2. CASE \E q \in Proxies \ {p} : ProxyStep(q)
  BY <1>2, LoneOthers
<1>3. CASE NotifierStep
  <2>1. UNCHANGED <<state, available, number, sourcePid, pc, node, count, provider, up, inbox,
                    interested>>
    BY <1>3 DEF NotifierStep, HandleNotifyEventMsg, HandlerReturns, CallNextHandler,
       NoHandlerLeft, machineVars, callVars, remoteVars, providerVars
  <2> QED
    BY <2>1, LoneKept
<1> QED
  BY <1>1, <1>2, <1>3, LoneProvider DEF Next

(* A registration on its way has arrived when nothing is under way.        *)
LEMMA LoneReaches ==
    ASSUME NEW p \in Proxies, LoneInvariant(p)
    PROVE  RegistrationReachesProvider
BY DEF LoneInvariant, RegistrationReachesProvider, WillBeInterested

-----------------------------------------------------------------------------
(* Every variable stays in its type.                                       *)
THEOREM NotificationTypeCorrect == Spec => []TypeOK
<1> QED
  BY InitOK, TypeStep, PTL DEF Spec

(* Each handler in the list belongs to exactly one proxy with a            *)
(* subscription: setting, unsetting, subscribing, stop-offers and          *)
(* re-offers never orphan a handler nor lose one.                          *)
THEOREM HandlersHaveOwners == Spec => []HandlersOwned
<1>1. Init => TypeOK /\ OwnedInvariant
  BY InitOK DEF OwnedInvariant
<1>2. OwnedInvariant => HandlersOwned
  BY DEF OwnedInvariant
<1> QED
  BY <1>1, <1>2, TypeStep, OwnedStep, PTL DEF Spec

(* Once a handler was withdrawn, it is not running and never runs again.   *)
THEOREM WithdrawnHandlersStayQuiet == Spec => []NoWithdrawnHandlerRuns
<1> QED
  BY InitOK, TypeStep, RunningStep, PTL DEF Spec

(* Every handler that stays registered while a notification is handled is  *)
(* called by it, whatever is registered and withdrawn between two calls.   *)
THEOREM EveryHandlerIsCalled == Spec => EveryHandlerCalled
<1>1. Init => WalkInvariant
  BY DEF Init, WalkInvariant
<1>2. TypeOK /\ WalkInvariant /\ [Next]_vars
        => [notifying = "between" /\ notifying' = "idle" => due \subseteq called]_vars
  BY WalkEnds
<1> QED
  BY <1>1, <1>2, InitOK, TypeStep, WalkStep, PTL DEF Spec, EveryHandlerCalled

(* While the provider stays, the counter of the remote registrations is    *)
(* the number of proxies that have a handler registered at its node, at    *)
(* every step of setting, unsetting, subscribing and unsubscribing: the    *)
(* provider is told of the first and of the last one.                      *)
THEOREM RegistrationsAreCounted == Spec /\ []ProviderStays => []RegistrationsCounted
<1>1. Init => CountInvariant
  BY CountInit
<1>2. Init => TypeOK /\ OwnedInvariant
  BY InitOK DEF OwnedInvariant
<1>3. CountInvariant => RegistrationsCounted
  BY DEF CountInvariant
<1>4. TypeOK /\ OwnedInvariant /\ CountInvariant /\ ProviderStays /\ ProviderStays' /\ [Next]_vars
        => CountInvariant'
  BY CountStep
<1> QED
  BY <1>1, <1>2, <1>3, <1>4, TypeStep, OwnedStep, PTL DEF Spec

(* Registrations are counted right at a provider that stays, for any       *)
(* number of proxies, and that of a lone proxy reaches a provider that     *)
(* stops its offer, crashes and restarts any number of times               *)
(* (RegisterEventNotificationRemote, ReregisterEventNotification).         *)
THEOREM RegistrationsAreKept == MCSpec => []RegistrationsKept
<1> DEFINE Both == lone = Nobody => CountInvariant /\ ProviderStays
           Lone == \A p \in Proxies : lone = p => LoneInvariant(p)
           I == TypeOK /\ OwnedInvariant /\ lone \in Proxies \union {Nobody} /\ Both /\ Lone
<1>1. MCInit => I
  <2> SUFFICES ASSUME MCInit PROVE I
    OBVIOUS
  <2>1. Init /\ lone \in Proxies \union {Nobody}
    BY DEF MCInit
  <2>2. TypeOK /\ OwnedInvariant
    BY <2>1, InitOK DEF OwnedInvariant
  <2>3. CountInvariant /\ ProviderStays
    BY <2>1, CountInit DEF Init, ProviderStays
  <2>4. Lone
    BY <2>1 DEF Init, LoneInvariant, NoNumber
  <2> QED
    BY <2>1, <2>2, <2>3, <2>4
<1>2. I /\ [MCNext]_<<vars, lone>> => I'
  <2> SUFFICES ASSUME I, [MCNext]_<<vars, lone>> PROVE I'
    OBVIOUS
  <2>1. [Next]_vars /\ lone' = lone
    BY DEF MCNext
  <2>2. TypeOK' /\ OwnedInvariant'
    BY <2>1, TypeStep, OwnedStep
  <2>3. ASSUME lone = Nobody PROVE CountInvariant' /\ ProviderStays'
    <3>1. CountInvariant /\ ProviderStays
      BY <2>3
    <3>2. ProviderStays'
      <4>1. CASE UNCHANGED vars
        BY <3>1, <4>1 DEF ProviderStays, vars, providerVars
      <4>2. CASE MCNext
        BY <2>3, <4>2 DEF MCNext
      <4> QED
        BY <4>1, <4>2
    <3> QED
      BY <2>1, <3>1, <3>2, CountStep
  <2>4. ASSUME NEW p \in Proxies, lone = p PROVE LoneInvariant(p)'
    <3>1. LoneInvariant(p) /\ lone # Nobody
      BY <2>4, NobodyAssumption
    <3>2. CASE UNCHANGED vars
      BY <3>1, <3>2, LoneKept DEF vars, machineVars, callVars, remoteVars, providerVars
    <3>3. CASE MCNext
      <4>1. \A q \in Proxies \ {p} :
                request'[q] = "none" /\ state'[q] = "notSubscribed" /\ ~stored'[q]
        BY <2>1, <2>4, <3>1, <3>3 DEF MCNext, OnlyOneUsed
      <4> QED
        BY <3>1, <3>3, <4>1, LoneStep DEF MCNext
    <3> QED
      BY <3>2, <3>3
  <2> QED
    BY <2>1, <2>2, <2>3, <2>4
<1>3. I => RegistrationsKept
  <2> SUFFICES ASSUME I PROVE RegistrationsKept
    OBVIOUS
  <2>1. RegistrationsCountedWhileProviderStays
    BY DEF RegistrationsCountedWhileProviderStays, CountInvariant
  <2>2. LoneRegistrationReachesProvider
    BY LoneReaches DEF LoneRegistrationReachesProvider
  <2> QED
    BY <2>1, <2>2 DEF RegistrationsKept
<1> HIDE DEF I
<1> QED
  BY <1>1, <1>2, <1>3, PTL DEF MCSpec
=============================================================================
