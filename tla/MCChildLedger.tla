--------------------------- MODULE MCChildLedger ---------------------------
(* Model values for ChildLedger: c1 an ordinary child, c2 the child of a job. *)
EXTENDS ChildLedger

CONSTANTS c1, c2
=============================================================================
