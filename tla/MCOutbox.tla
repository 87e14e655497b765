------------------------------ MODULE MCOutbox ------------------------------
(* Small instances of Outbox, with the invariants of its proofs, for TLC. *)
EXTENDS OutboxProofs, TLC

CONSTANTS o1, o2, s1, s2, r1, r2, w1, w2

\* Objects of one shard contend for the same rows; objects of two do not.
OneShard == [o \in Object |-> s1]
TwoShards == (o1 :> s1) @@ (o2 :> s2)

\* Threads and objects of one shard are interchangeable.
Symmetry == Permutations(Request) \cup Permutations(Worker) \cup Permutations(Object)
=============================================================================
