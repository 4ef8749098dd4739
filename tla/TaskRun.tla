------------------------------ MODULE TaskRun ------------------------------
(***************************************************************************)
(* The row operations of longtask_store.py: a long task's run, its outbox   *)
(* of continuations, and the update each transaction makes to them.  A run  *)
(* is fenced by three counters: its revision moves on every change, its     *)
(* stop epoch on every stop, its lease epoch whenever a process gains or    *)
(* loses it.                                                                *)
(***************************************************************************)
EXTENDS Naturals

CONSTANTS MaxBoot,      \* processes started one after another (bound)
          MaxRev,       \* revisions of the run (bound)
          MaxStop       \* stops of the run (bound)

ASSUME CounterAssumption == MaxBoot \in Nat \ {0} /\ MaxRev \in Nat /\ MaxStop \in Nat

Terminal == {"completed", "cancelled", "failed"}
States == {"ready", "running", "waiting_children", "waiting_job", "needs_user",
           "interrupted", "paused", "budget_exhausted"} \cup Terminal

\* owner is the process that holds the lease, 0 for NULL; reason is "stale" when
\* blocked_reason is LONGTASK_STALE, the only reason any code looks at.
Runs == [state : States, rev : Nat, stop : Nat, lease : Nat,
         owner : 0..MaxBoot, reason : {"other", "stale"}]

NewRun == [state |-> "ready", rev |-> 1, stop |-> 0, lease |-> 0, owner |-> 0, reason |-> "other"]

\* The update of `transition`, `_inspection` and `action` (resume).
Moved(r, s, why) == [r EXCEPT !.state = s, !.rev = @ + 1, !.reason = why]

\* Variant: the epochs stay as they are.
BarredUnfenced(r, s) ==
    [r EXCEPT !.state = s, !.rev = @ + 1, !.owner = 0, !.reason = "other"]

\* `_barrier` on the run; its update of the outbox is Cancelled.
Barred(r, s) ==
    [r EXCEPT !.state = s, !.rev = @ + 1, !.stop = @ + 1, !.lease = @ + 1,
              !.owner = 0, !.reason = "other"]

\* `repin`: the only way out of needs_user that a new message of the owner opens.
Repinned(r) ==
    LET woken == r.state = "needs_user" /\ r.reason = "stale"
    IN  [r EXCEPT !.rev = @ + 1, !.state = IF woken THEN "ready" ELSE @,
                  !.reason = IF r.state \in {"needs_user", "ready"} THEN "other" ELSE @]

\* `claim_turn`: a lease is taken when free and kept when already ours.
Claimable(r, boot) == r.owner \in {0, boot}
Claimed(r, boot) == [r EXCEPT !.owner = boot, !.lease = @ + (IF r.owner = 0 THEN 1 ELSE 0)]

\* `recover` on the run: only a running row lost its worker.
Interrupted(r) ==
    IF r.state # "running" THEN r
    ELSE [r EXCEPT !.state = "interrupted", !.rev = @ + 1, !.lease = @ + 1,
                   !.owner = 0, !.reason = "other"]

\* `block`: what refusal leaves the run in which state.
Refusals == {"blocked", "manual", "stale", "pending", "unsafe", "lease",
             "exhausted", "too_small", "wall", "failed", "projection"}

BlockState(code) ==
    IF code = "exhausted" THEN "budget_exhausted" ELSE
    IF code = "wall" THEN "paused" ELSE "needs_user"

\* Variant: a paused run is blocked like any other.
BlocksPaused(r, code) ==
    /\ r.state \notin Terminal
    /\ ~(code = "pending" /\ r.state = "budget_exhausted")

Blocks(r, code) ==
    /\ r.state \notin Terminal \cup {"paused"}
    /\ ~(code = "pending" /\ r.state = "budget_exhausted")

Blocked(r, code) ==
    IF Blocks(r, code) THEN Moved(r, BlockState(code), IF code = "stale" THEN "stale" ELSE "other") ELSE r

---------------------------------------------------------------------------
(* longtask_continuations, one row for each source key.                     *)

ContStates == {"none", "pending", "admitted", "interrupted", "cancelled"}
NoCont == [state |-> "none", rev |-> 0, stop |-> 0]

\* `queue`: INSERT OR IGNORE on the source key.
Queued(cs, key, r) ==
    IF cs[key].state # "none" THEN cs
    ELSE [cs EXCEPT ![key] = [state |-> "pending", rev |-> r.rev, stop |-> r.stop]]

\* Every row of the outbox in state s moves to state t.
Turned(cs, s, t) == [c \in DOMAIN cs |-> IF cs[c].state = s THEN [cs[c] EXCEPT !.state = t] ELSE cs[c]]

\* The compare and swap of `pump`.
Admissible(c, r) == c.state = "pending" /\ r.state = "ready" /\ c.rev = r.rev /\ c.stop = r.stop
=============================================================================
