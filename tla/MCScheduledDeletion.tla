------------------------ MODULE MCScheduledDeletion ------------------------
(* Small instances of ScheduledDeletion for TLC. *)
EXTENDS ScheduledDeletion, TLC

CONSTANTS w1, w2
=============================================================================
