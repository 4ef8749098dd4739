---------------------------- MODULE MCDecisions ----------------------------
(* Model values for Decisions.                                               *)
EXTENDS Decisions

CONSTANTS d1, d2, k1, i1, root
=============================================================================
