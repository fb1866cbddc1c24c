------------------------ MODULE MCEventNotification ------------------------
(***************************************************************************)
(* The checked instance is one of two: two proxies of a provider that      *)
(* stays, or one proxy of a provider that stops its offer, crashes and     *)
(* restarts.  Which one is chosen in the initial state; together both      *)
(* would be too many states, and the counter of registrations is not kept  *)
(* through a stop-offer.                                                   *)
(***************************************************************************)
EXTENDS EventNotification, TLC

CONSTANTS a, b

VARIABLE lone  \* the only proxy that is used, or Nobody when both are

Symmetry == Permutations(Proxies)

MCInit == Init /\ lone \in Proxies \cup {Nobody}

OnlyOneUsed ==
    \A p \in Proxies \ {lone} :
        request[p] = "none" /\ state[p] = "notSubscribed" /\ ~stored[p]

MCNext ==
    /\ Next
    /\ UNCHANGED lone
    /\ IF lone # Nobody THEN OnlyOneUsed' ELSE ProviderStays'

MCSpec == MCInit /\ [][MCNext]_<<vars, lone>>

(* While the provider stays, the remote counter is the number of proxies   *)
(* that have registered a handler at its node (RegisterEventNotification-  *)
(* Remote and UnregisterEventNotificationRemote), at every moment of their *)
(* calls.                                                                  *)
RegistrationsCountedWhileProviderStays == lone = Nobody => RegistrationsCounted

(* Through stop-offers, a crash and a restart of the provider, the         *)
(* registration of a lone proxy reaches the provider it knows.             *)
LoneRegistrationReachesProvider == lone # Nobody => RegistrationReachesProvider

(* Registrations at the provider are neither lost nor counted wrongly: not *)
(* with two proxies of a provider that stays, and not with a lone proxy of *)
(* one that comes and goes.                                                *)
RegistrationsKept ==
    RegistrationsCountedWhileProviderStays /\ LoneRegistrationReachesProvider
=============================================================================
