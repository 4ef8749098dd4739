----------------------------- MODULE MCJobWake -----------------------------
(* Small instances of JobWake. *)
EXTENDS JobWake

CONSTANTS j1, j2
=============================================================================
