------------------------------ MODULE MCDigest ------------------------------
(* Small instances of Digest for TLC. *)
EXTENDS Digest, TLC

CONSTANTS t1, t2

=============================================================================
