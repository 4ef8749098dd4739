----------------------------- MODULE MCLongtask -----------------------------
(* Small instances of Longtask: the owner's session and at most one child.   *)
EXTENDS Longtask

CONSTANTS root, kid

NoKid == {}
OneKid == {kid}
=============================================================================
