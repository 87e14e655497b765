-------------------------- MODULE MCOutboxBackfill --------------------------
(* Small instances of OutboxBackfill, with the invariants of its proofs. *)
EXTENDS OutboxBackfillProofs, TLC

CONSTANT w1
TwoSmall == <<1..2, {1}>>
TwoThenOne == <<2, 1>>
=============================================================================
