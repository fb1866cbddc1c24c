-------------------------- MODULE EventSlotStatus --------------------------
(***************************************************************************)
(* The status word of one event slot.  The code packs a 32-bit timestamp   *)
(* and a 32-bit reference count into one atomic 64-bit integer; here the   *)
(* word is a record of the two halves, and adding or subtracting one from  *)
(* the word carries or borrows between them exactly as the integer does.   *)
(* TimestampMax and RefCountMax stand for the largest value of each half.  *)
(***************************************************************************)
EXTENDS Naturals

CONSTANTS TimestampMax, RefCountMax

ASSUME StatusAssumption ==
    /\ TimestampMax \in Nat \ {0, 1}
    /\ RefCountMax \in Nat \ {0}

Timestamps == 0 .. TimestampMax
RefCounts == 0 .. RefCountMax

SlotStatus == [ts : Timestamps, refs : RefCounts]

INVALID == [ts |-> 0, refs |-> 0]
IN_WRITING == [ts |-> 0, refs |-> RefCountMax]

IsInvalid(st) == st = INVALID
IsInWriting(st) == st = IN_WRITING

(* Mutant: the reference count is not looked at.                           *)
IsUsedIgnoringReaders(st) == IsInWriting(st)

IsUsed(st) == st.refs # 0 \/ IsInWriting(st)

(* Mutant: the lower bound is not excluded.                                *)
IsTimeStampFrom(st, min, max) ==
    ~IsInWriting(st) /\ ~IsInvalid(st) /\ st.ts >= min /\ st.ts < max

IsTimeStampBetween(st, min, max) ==
    ~IsInWriting(st) /\ ~IsInvalid(st) /\ st.ts > min /\ st.ts < max

(* The packed word plus one: a full reference count carries into the       *)
(* timestamp.                                                              *)
Increment(st) ==
    IF st.refs < RefCountMax
    THEN [ts |-> st.ts, refs |-> st.refs + 1]
    ELSE [ts |-> (st.ts + 1) % (TimestampMax + 1), refs |-> 0]

(* The packed word minus one: an empty reference count borrows from the    *)
(* timestamp.                                                              *)
Decrement(st) ==
    IF st.refs > 0
    THEN [ts |-> st.ts, refs |-> st.refs - 1]
    ELSE [ts |-> (st.ts + TimestampMax) % (TimestampMax + 1),
          refs |-> RefCountMax]
=============================================================================
