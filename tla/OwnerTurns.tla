----------------------------- MODULE OwnerTurns -----------------------------
(***************************************************************************)
(* The turns of one owner session: runtime.start, the ways _run closes, the *)
(* finally block that outlives the close, Stop's cancellation and a restart *)
(* of the process.  The status of the session and the asyncio task of the   *)
(* turn are two things: the status leaves 'running' when the answer is      *)
(* saved, the task ends only after the executor's cleanup and the reaping   *)
(* of children, and a new turn needs the status only.                       *)
(*                                                                          *)
(* awaiting_decision is folded into running: start refuses both, and in a   *)
(* session whose own turn asks, the task is alive in both.  The card of an  *)
(* IDE session's child, put on an owner whose task is over, is left to      *)
(* Decisions, where the status outlives the task (ResumeHasTurn).           *)
(***************************************************************************)
EXTENDS Integers

CONSTANT MaxTurn     \* bound: turns the owner opens

ASSUME MaxTurnAssumption == MaxTurn \in Nat \ {0}

VARIABLES
    status,     \* sessions.status of the owner
    turns,      \* sessions.turn_count
    active,     \* rt.active_turn[sid], 0 where this process opened no turn
    current,    \* the turn whose task is rt.tasks[sid], 0 where there is none
    phase       \* where the task of each turn stands

turnVars == <<status, turns, active, current, phase>>

Turns == 1..MaxTurn
Ends == {"completed", "failed", "cancelled"}
Statuses == {"idle", "running", "interrupted"} \cup Ends

\* working: in the step loop; wrapping: closing on a partial answer, which still
\* has awaits to go; closing: the status is saved, the finally block runs.
Phases == {"unborn", "working", "wrapping", "closing", "over"}

TurnsTypeOK ==
    /\ status \in Statuses
    /\ turns \in 0..MaxTurn
    /\ active \in 0..MaxTurn
    /\ current \in 0..MaxTurn
    /\ phase \in [Turns -> Phases]

TurnsInit ==
    /\ status = "idle"
    /\ turns = 0
    /\ active = 0
    /\ current = 0
    /\ phase = [t \in Turns |-> "unborn"]

Runs(t) == phase[t] \in {"working", "wrapping"}
Alive(t) == phase[t] \in {"working", "wrapping", "closing"}

\* Variant: the status alone says whether a turn runs.
BusyByStatus(ph) == status = "running"

\* `task is not None and not task.done()`, in the phases ph.
Busy(ph) == current # 0 /\ ph[current] # "over"

\* The part of start that every turn shares, on the phases ph: the status is
\* asked, never the task.
OpenTurnFrom(ph) ==
    /\ status # "running"
    /\ turns < MaxTurn
    /\ status' = "running"
    /\ turns' = turns + 1
    /\ active' = turns + 1
    /\ current' = turns + 1
    /\ phase' = [ph EXCEPT ![turns + 1] = "working"]

OpenTurn == OpenTurnFrom(phase)

\* finish_partial: what is left is to measure the answer and to save it.
WrapTurn(t) ==
    /\ phase[t] = "working"
    /\ phase' = [phase EXCEPT ![t] = "wrapping"]
    /\ UNCHANGED <<status, turns, active, current>>

\* store.save with the final status; the finally block begins.
CloseTurn(t, s) ==
    /\ Runs(t)
    /\ phase' = [phase EXCEPT ![t] = "closing"]
    /\ status' = s
    /\ UNCHANGED <<turns, active, current>>

\* Variant: the interrupted turn is counted once more.
RestartTurnsCounted ==
    /\ status' = IF status = "running" THEN "interrupted" ELSE status
    /\ phase' = [t \in Turns |-> IF phase[t] = "unborn" THEN "unborn" ELSE "over"]
    /\ active' = 0
    /\ current' = 0
    /\ turns' = turns + 1

\* The process dies and starts again: no task survives, and a running session
\* is found interrupted.
RestartTurns ==
    /\ status' = IF status = "running" THEN "interrupted" ELSE status
    /\ phase' = [t \in Turns |-> IF phase[t] = "unborn" THEN "unborn" ELSE "over"]
    /\ active' = 0
    /\ current' = 0
    /\ UNCHANGED turns
=============================================================================
