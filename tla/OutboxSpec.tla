------------------------------ MODULE OutboxSpec ------------------------------
(***************************************************************************)
(* What the hybrid cloud outbox promises, without rows, drains or locks:   *)
(* every change of an object leaves it pending; replication moves the      *)
(* other silo's copy forward, possibly several times and possibly skipping *)
(* versions; and an object stops being pending only when its copy is the   *)
(* current version.                                                        *)
(***************************************************************************)
EXTENDS Integers

CONSTANT Object

VARIABLES src, replica, pending

Init ==
    /\ src = [o \in Object |-> 0]
    /\ replica = [o \in Object |-> 0]
    /\ pending = [o \in Object |-> FALSE]

\* A transaction changes the object and queues its replication.
Change(o) ==
    /\ src' = [src EXCEPT ![o] = @ + 1]
    /\ pending' = [pending EXCEPT ![o] = TRUE]
    /\ UNCHANGED replica

\* At least once, and coalesced: any version from the last one replicated on.
Replicate(o) ==
    /\ pending[o]
    /\ \E v \in replica[o]..src[o] : replica' = [replica EXCEPT ![o] = v]
    /\ UNCHANGED <<src, pending>>

Retire(o) ==
    /\ pending[o]
    /\ replica[o] = src[o]
    /\ pending' = [pending EXCEPT ![o] = FALSE]
    /\ UNCHANGED <<src, replica>>

Next == \E o \in Object : Change(o) \/ Replicate(o) \/ Retire(o)

Spec == Init /\ [][Next]_<<src, replica, pending>>
=============================================================================
