-------------------------- MODULE MCWebhookMailbox --------------------------
(* Small instances of WebhookMailbox for TLC. *)
EXTENDS WebhookMailboxProofs, TLC

CONSTANTS w1, w2, a
OneBox == [m \in 1..MaxId |-> a]
Symmetry == Permutations(Worker)
=============================================================================
