------------------------ MODULE MCEventSubscription ------------------------
(***************************************************************************)
(* The checked instance is one of two, chosen in the initial state:        *)
(* subscriptions of three proxies, two of them in one process, whose pids  *)
(* are left aside; or a proxy in each of two processes that register their *)
(* pids as well and whose exchanges of the counter succeed at once.  Both  *)
(* together would be too many states.                                      *)
(***************************************************************************)
EXTENDS ProxyCreation

CONSTANTS a, b, c, p1, p2

VARIABLE registers  \* do the processes register their pids?

(* Proxies a and b share a process, c has one of its own.                  *)
TwoAndOne == [x \in Proxies |-> IF x = c THEN p2 ELSE p1]

(* One proxy subscribes with two samples, the others with one.             *)
UpToTwo == [x \in Proxies |-> IF x = a THEN 2 ELSE 1]

MCInit == CreationInit /\ registers \in BOOLEAN

MCNext ==
    /\ UNCHANGED registers
    /\ \/ ~registers /\ Next /\ UNCHANGED creationVars
       \/ registers /\ CreationNext /\ pc'[b] = "none" /\ \A p \in Proxies : try'[p] = 0

MCSpec == MCInit /\ [][MCNext]_<<vars, creationVars, registers>>

(* A process that is restarted finds its entry in the uid-pid mapping, at  *)
(* most one, and the provider is told of the pid it replaces, whatever     *)
(* registers or crashes at the same time.                                  *)
RestartsReported == registers => RestartsAreReported
=============================================================================
