----------------------------- MODULE PermitPool -----------------------------
(***************************************************************************)
(* What the storage gateway is promised by its admission control: calls    *)
(* take permits from a pool of Capacity and give them back, and the number *)
(* of calls holding one never exceeds the pool.  Who waits, in which lane  *)
(* and for how long is left to the implementation, StorageAdmission.       *)
(***************************************************************************)
EXTENDS FiniteSets, Integers

CONSTANTS
    Calls,      \* the fs calls that may ask for a permit
    Capacity    \* permits in the pool

VARIABLE holders    \* the calls that hold a permit

TypeOK == holders \subseteq Calls

Init == holders = {}

Take(c) ==
    /\ c \notin holders
    /\ Cardinality(holders) < Capacity
    /\ holders' = holders \cup {c}

Give(c) ==
    /\ c \in holders
    /\ holders' = holders \ {c}

(* A returned permit that goes straight to a call that waited for it.      *)
Pass(c, d) ==
    /\ c \in holders
    /\ d \notin holders
    /\ holders' = (holders \ {c}) \cup {d}

Next ==
    \/ \E c \in Calls : Take(c) \/ Give(c)
    \/ \E c, d \in Calls : Pass(c, d)

Spec == Init /\ [][Next]_holders
=============================================================================
