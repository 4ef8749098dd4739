----------------------------- MODULE TaskBudget -----------------------------
(***************************************************************************)
(* What the active-time budget of a long task promises its owner, with the  *)
(* turns, the crashes and the receipts hidden: time is spent only out of a  *)
(* hold, a hold is granted only when it fits the limit together with the    *)
(* checkpoint reserve, and only a grant of the owner moves the limit.       *)
(* Longtask implements this module (see Budget in Longtask).                *)
(***************************************************************************)
EXTENDS Naturals

CONSTANT Margin         \* the checkpoint reserve, never handed out

VARIABLES limit,        \* activeTimeLimitMs
          charged,      \* time that is gone: settled, or lost with a process
          held          \* time promised to calls in flight

Init == limit \in Nat /\ charged = 0 /\ held = 0

Hold ==
    /\ held' > held
    /\ charged + held' + Margin <= limit
    /\ UNCHANGED <<limit, charged>>

\* A call gives back what it did not use. A crash releases several holds at
\* once, each charged in full.
Release ==
    /\ held' < held
    /\ charged' >= charged
    /\ charged' - charged <= held - held'
    /\ UNCHANGED limit

Grant ==
    /\ limit' > limit
    /\ UNCHANGED <<charged, held>>

Next == Hold \/ Release \/ Grant

Spec == Init /\ [][Next]_<<limit, charged, held>>
=============================================================================
