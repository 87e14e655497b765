------------------------ MODULE MCTombstoneCascade ------------------------
(* Small instances of TombstoneCascade for TLC. *)
EXTENDS TombstoneCascade, TLC

CONSTANTS o1, w1, w2

\* Rows and tombstones in one database, and in two.
BothSetups == {<<"CASCADE", TRUE>>, <<"SET_NULL", FALSE>>}
=============================================================================
