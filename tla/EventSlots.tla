----------------------------- MODULE EventSlots -----------------------------
(***************************************************************************)
(* What the control block of an event promises, without status words,      *)
(* scans, retries or transaction logs: a slot is free, in writing or       *)
(* ready; the writer takes a slot only while nobody reads it and nobody    *)
(* reads a slot the writer has; what a reader sees is the timestamp the    *)
(* writer published until the last reader is gone.                         *)
(***************************************************************************)
EXTENDS Naturals

CONSTANTS Slots, Stamps

VARIABLES
    state,      \* per slot
    stamp,      \* timestamp of a ready slot, 0 otherwise
    readers     \* number of references to the slot

vars == <<state, stamp, readers>>

Init ==
    /\ state = [s \in Slots |-> "free"]
    /\ stamp = [s \in Slots |-> 0]
    /\ readers = [s \in Slots |-> 0]

(* The writer takes a slot.                                                *)
Lock(s) ==
    /\ state[s] # "writing" /\ readers[s] = 0
    /\ state' = [state EXCEPT ![s] = "writing"]
    /\ stamp' = [stamp EXCEPT ![s] = 0]
    /\ UNCHANGED readers

(* The writer publishes a slot it has.                                     *)
Publish(s, t) ==
    /\ state[s] = "writing"
    /\ state' = [state EXCEPT ![s] = "ready"]
    /\ stamp' = [stamp EXCEPT ![s] = t]
    /\ UNCHANGED readers

(* The writer, or its successor after a crash, gives slots back unwritten. *)
Abandon(S) ==
    /\ \A s \in S : state[s] = "writing"
    /\ state' = [s \in Slots |-> IF s \in S THEN "free" ELSE state[s]]
    /\ UNCHANGED <<stamp, readers>>

Acquire(s) ==
    /\ state[s] = "ready"
    /\ readers' = [readers EXCEPT ![s] = @ + 1]
    /\ UNCHANGED <<state, stamp>>

Release(s) ==
    /\ readers[s] > 0
    /\ readers' = [readers EXCEPT ![s] = @ - 1]
    /\ UNCHANGED <<state, stamp>>

Next ==
    \/ \E s \in Slots :
          \/ Lock(s)
          \/ \E t \in Stamps : Publish(s, t)
          \/ Acquire(s)
          \/ Release(s)
    \/ \E S \in SUBSET Slots : Abandon(S)

Spec == Init /\ [][Next]_vars
=============================================================================
