------------------------------- MODULE JobWake -------------------------------
(***************************************************************************)
(* The parked owner of job_wake.py and job_surface.py: a turn whose         *)
(* wait_jobs timed out leaves a subscription, the subscription is parked    *)
(* when the turn closes, and the first result that satisfies it opens one   *)
(* new turn.  Producers (children that close), the turn, its late done      *)
(* callback, the user's own turns, Stop, revocation and restarts interleave *)
(* here; everything between two awaits is one action.                       *)
(*                                                                          *)
(* The ledger is HarnessJobs seen through what the wake reads of it: the    *)
(* state of each job and its result row in the outbox.  The owner is the    *)
(* only consumer, and its stored cursors decide where reads start.          *)
(*                                                                          *)
(* The owner is a session of a sandbox: its status is written by its own    *)
(* turns.  In an IDE session a child's card is put on the owner as well,    *)
(* also when its turn is over; Decisions has that, and finds it broken      *)
(* (ResumeHasTurn), so nothing is claimed here of a parked IDE owner.       *)
(***************************************************************************)
EXTENDS OwnerTurns, FiniteSets

CONSTANT Jobs       \* the model jobs this owner starts

VARIABLES
    job,        \* the state of each job, "cancelling" when a request to cancel is recorded
    unprojected,\* open jobs whose child has closed and whose projection raised
    result,     \* its outbox row with predicate 'result': none, pending or delivered
    parks,      \* harness_parked_owners, one row at most for each source turn
    wokenBy,    \* the source turn whose park opened a turn, 0 for any other turn
    invocation, \* turn_invocations[sid]: the park of a 'job-wake-' invocation, or 0
    waiting,    \* the wait_jobs the running turn is suspended in
    owed,       \* parked turns whose done callback has not run
    stopped,    \* STOP_KEY in the owner's config
    granted,    \* the owner's tools and roles still admit its jobs
    stopping    \* Stop has written its barrier and not yet cancelled the task

wakeVars == <<job, unprojected, result, parks, wokenBy, invocation, waiting, owed, stopped, granted, stopping>>
vars == <<turnVars, wakeVars>>

OpenJobs == {"open", "cancelling"}
ClosedJobs == {"succeeded", "interrupted", "cancelled"}
Modes == {"any", "all"}
Waits == [jobs : SUBSET Jobs, mode : Modes]
NoWait == [jobs |-> {}, mode |-> "any"]
NoPark == [state |-> "none", jobs |-> {}, mode |-> "any"]
ParkStates == {"none", "candidate", "parked", "wake_claimed", "started", "start_unknown",
               "stopped", "superseded", "blocked", "interrupted"}

TypeOK ==
    /\ TurnsTypeOK
    /\ job \in [Jobs -> {"absent"} \cup OpenJobs \cup ClosedJobs]
    /\ unprojected \subseteq Jobs
    /\ result \in [Jobs -> {"none", "pending", "delivered"}]
    /\ parks \in [Turns -> [state : ParkStates, jobs : SUBSET Jobs, mode : Modes]]
    /\ wokenBy \in [Turns -> 0..MaxTurn]
    /\ invocation \in 0..MaxTurn
    /\ waiting \in Waits
    /\ owed \subseteq Turns
    /\ stopped \in BOOLEAN
    /\ granted \in BOOLEAN
    /\ stopping \in BOOLEAN

Init ==
    /\ TurnsInit
    /\ job = [j \in Jobs |-> "absent"]
    /\ unprojected = {}
    /\ result = [j \in Jobs |-> "none"]
    /\ parks = [t \in Turns |-> NoPark]
    /\ wokenBy = [t \in Turns |-> 0]
    /\ invocation = 0
    /\ waiting = NoWait
    /\ owed = {}
    /\ stopped = FALSE
    /\ granted = TRUE
    /\ stopping = FALSE

\* `invalidate`: every live row of the owner leaves for state s.
Invalidated(s) ==
    [t \in Turns |-> IF parks[t].state \in {"candidate", "parked", "wake_claimed", "started"}
                     THEN [parks[t] EXCEPT !.state = s] ELSE parks[t]]

\* `validate`, with the jobs in the states js: the owner and each job of the
\* park are still admitted, and no job of it was cancelled or interrupted.
Valid(p, js) ==
    /\ granted /\ ~stopped
    /\ status \notin {"cancelled", "interrupted", "failed"}
    /\ \A j \in parks[p].jobs : js[j] \in {"open", "succeeded"}

Satisfied(mode, ids, js) ==
    IF mode = "any" THEN \E j \in ids : js[j] \in ClosedJobs
                    ELSE \A j \in ids : js[j] \in ClosedJobs

\* Wait's effect on the result rows of the jobs it covers.
ReadOf(ids, rs) == [j \in Jobs |-> IF j \in ids /\ rs[j] = "pending" THEN "delivered" ELSE rs[j]]

---------------------------------------------------------------------------
(* try_wake.                                                                *)

Parked == {t \in Turns : parks[t].state = "parked"}
LatestParked == CHOOSE t \in Parked : \A u \in Parked : u <= t

\* What a notification leads to, with jobs js, rows rs and phases ph. The row
\* asked for is pending, so a park whose result was read already stays asleep.
Outcome(js, rs, ph) ==
    LET p == LatestParked
    IN  CASE Busy(ph) \/ Parked = {} -> "asleep"
          [] ~Busy(ph) /\ Parked # {} /\ ~Valid(p, js) -> "blocked"
          [] ~Busy(ph) /\ Parked # {} /\ Valid(p, js) /\ status = "running" -> "asleep"
          [] ~Busy(ph) /\ Parked # {} /\ Valid(p, js) /\ status # "running" /\ active # p -> "superseded"
          [] OTHER -> IF /\ \E j \in parks[p].jobs : rs[j] = "pending"
                         /\ Satisfied(parks[p].mode, parks[p].jobs, js)
                      THEN "claimed" ELSE "asleep"

\* The claim and the rows it read are committed before the turn is opened.
Claim(rs, ph) ==
    LET p == LatestParked
    IN  /\ result' = ReadOf(parks[p].jobs, rs)
        /\ parks' = [parks EXCEPT ![p].state = "wake_claimed"]
        /\ phase' = ph

\* Variant: the waiting turn's event is set and no parked owner is looked at.
NotifyWaitersOnly(js, rs, ph) ==
    /\ result' = rs
    /\ phase' = ph
    /\ UNCHANGED <<status, turns, active, current, wokenBy, invocation, parks>>

Notify(js, rs, ph) ==
    LET outcome == Outcome(js, rs, ph)
    IN  /\ \/ /\ outcome = "claimed"
              /\ Claim(rs, ph)
           \/ /\ outcome # "claimed"
              /\ parks' = IF outcome = "asleep" THEN parks ELSE Invalidated(outcome)
              /\ result' = rs
              /\ phase' = ph
        /\ UNCHANGED <<status, turns, active, current, wokenBy, invocation>>

\* Variant: a wake whose start raised goes back to sleep.
OutcomeUnknownRetried(p) == [parks EXCEPT ![p].state = "parked"]

OutcomeUnknown(p) == Invalidated("start_unknown")

\* Variant: after_start leaves the row as it found it before the claim.
StartClaimedParked(p) ==
    /\ parks[p].state = "wake_claimed"
    /\ Valid(p, job) /\ ~Busy(phase) /\ active = p
    /\ \/ /\ OpenTurn
          /\ parks' = [parks EXCEPT ![p].state = "parked"]
          /\ wokenBy' = [wokenBy EXCEPT ![turns + 1] = p]
          /\ invocation' = p
       \/ /\ parks' \in {OutcomeUnknown(p), Invalidated("blocked")}
          /\ invocation' \in {invocation, p}
          /\ UNCHANGED <<turnVars, wokenBy>>
    /\ UNCHANGED <<job, unprojected, result, waiting, owed, stopped, granted, stopping>>

\* No await lies between the claim and start, so nothing but a crash comes
\* between the two. start opens the turn, or refuses it, or raises and nobody
\* knows how far it came.
StartClaimed(p) ==
    /\ parks[p].state = "wake_claimed"
    /\ Valid(p, job) /\ ~Busy(phase) /\ active = p
    /\ \/ /\ OpenTurn
          /\ parks' = [parks EXCEPT ![p].state = "started"]
          /\ wokenBy' = [wokenBy EXCEPT ![turns + 1] = p]
          /\ invocation' = p
       \/ /\ parks' \in {OutcomeUnknown(p), Invalidated("blocked")}
          /\ invocation' \in {invocation, p}
          /\ UNCHANGED <<turnVars, wokenBy>>
    /\ UNCHANGED <<job, unprojected, result, waiting, owed, stopped, granted, stopping>>

---------------------------------------------------------------------------
(* The running turn.                                                        *)

StartJob(j) ==
    /\ \E t \in Turns : phase[t] = "working"
    /\ waiting = NoWait
    /\ job[j] = "absent" /\ granted /\ ~stopped
    /\ job' = [job EXCEPT ![j] = "open"]
    /\ UNCHANGED <<turnVars, unprojected, result, parks, wokenBy, invocation, waiting, owed, stopped, granted, stopping>>

\* cancel_job records the request; the child closes later, in ChildCloses. It
\* projects a child that is closed before, and then finds the job closed.
CancelJob(j) ==
    /\ \E t \in Turns : phase[t] = "working"
    /\ waiting = NoWait
    /\ job[j] = "open" /\ j \notin unprojected
    /\ job' = [job EXCEPT ![j] = "cancelling"]
    /\ UNCHANGED <<turnVars, unprojected, result, parks, wokenBy, invocation, waiting, owed, stopped, granted, stopping>>

\* One iteration of _wait: the rows are read whether or not the wait is ready.
WaitJobs(w) ==
    /\ \E t \in Turns : phase[t] = "working"
    /\ waiting = NoWait \/ waiting = w
    /\ w.jobs # {} /\ \A j \in w.jobs : job[j] # "absent"
    /\ result' = ReadOf(w.jobs, result)
    /\ waiting' = IF Satisfied(w.mode, w.jobs, job) THEN NoWait ELSE w
    /\ UNCHANGED <<turnVars, job, unprojected, parks, wokenBy, invocation, owed, stopped, granted, stopping>>

\* The deadline passes: `candidate` writes or rewrites the row of this turn, and
\* leaves alone a row that is no candidate any more. Bound: the last turn
\* leaves no candidate, since no turn is left for its wake.
WaitTimeout ==
    /\ waiting # NoWait
    /\ active < MaxTurn
    /\ parks' = IF parks[active].state \in {"none", "candidate"}
                THEN [parks EXCEPT ![active] = [state |-> "candidate", jobs |-> waiting.jobs,
                                                mode |-> waiting.mode]]
                ELSE parks
    /\ waiting' = NoWait
    /\ UNCHANGED <<turnVars, job, unprojected, result, wokenBy, invocation, owed, stopped, granted, stopping>>

\* Variant: the park relies on the notification of the result alone.
ParkNoCallback ==
    IF active = 0 \/ parks[active].state # "candidate" THEN UNCHANGED <<parks, owed>>
    ELSE IF Valid(active, job) THEN /\ parks' = [parks EXCEPT ![active].state = "parked"]
                                    /\ owed' = owed
    ELSE parks' = Invalidated("blocked") /\ UNCHANGED owed

\* park_after_batch: the candidate of the active turn becomes parked, and the
\* task of the turn owes a callback; a candidate no longer admitted blocks.
Park ==
    IF active = 0 \/ parks[active].state # "candidate" THEN UNCHANGED <<parks, owed>>
    ELSE IF Valid(active, job) THEN /\ parks' = [parks EXCEPT ![active].state = "parked"]
                                    /\ owed' = owed \cup {active}
    ELSE parks' = Invalidated("blocked") /\ UNCHANGED owed

\* The normal close: the answer is saved, then the hook runs, with no await
\* between. `Valid` looks at the status before it: completed admits as running.
Complete(t) ==
    /\ phase[t] = "working"
    /\ waiting = NoWait
    /\ CloseTurn(t, "completed")
    /\ Park
    /\ UNCHANGED <<job, unprojected, result, wokenBy, invocation, waiting, stopped, granted, stopping>>

\* finish_partial parks first, while the turn still runs.
ParkPartial(t) ==
    /\ WrapTurn(t)
    /\ Park
    /\ waiting' = NoWait
    /\ UNCHANGED <<job, unprojected, result, wokenBy, invocation, stopped, granted, stopping>>

CompletePartial(t) ==
    /\ phase[t] = "wrapping"
    /\ CloseTurn(t, "completed")
    /\ UNCHANGED wakeVars

\* An error or a refused model request: the hook does not run.
Fail(t) ==
    /\ CloseTurn(t, "failed")
    /\ waiting' = NoWait
    /\ UNCHANGED <<job, unprojected, result, parks, wokenBy, invocation, owed, stopped, granted, stopping>>

EndTask(t) ==
    /\ phase[t] = "closing"
    /\ phase' = [phase EXCEPT ![t] = "over"]
    /\ UNCHANGED <<status, turns, active, current, wakeVars>>

\* The done callback of a parked turn, some time after its task ended.
Callback(t) ==
    /\ t \in owed /\ phase[t] = "over"
    /\ owed' = owed \ {t}
    /\ Notify(job, result, phase)
    /\ UNCHANGED <<job, unprojected, waiting, stopped, granted, stopping>>

\* guard_active, before each model request of the turn: a job-wake invocation
\* must name the started row, and its jobs must still be admitted.
MayAskModel ==
    invocation # 0 => parks[invocation].state = "started" /\ Valid(invocation, job)

---------------------------------------------------------------------------
(* The children of the jobs.                                                *)

\* owns_child: the running job still keeps its child.
Admitted == granted /\ ~stopped /\ status \notin {"cancelled", "interrupted"}

\* project_child, of a child that closed with outcome s ("interrupted" also where
\* its row belongs to another run by now). A job no longer admitted, or asked to
\* cancel, closes as cancelled; the commit comes before the notification.
Projects(j, s) ==
    /\ LET final == IF job[j] = "cancelling" \/ ~Admitted THEN "cancelled" ELSE s
           js == [job EXCEPT ![j] = final]
           rs == [result EXCEPT ![j] = "pending"]
       IN  /\ job' = js
           /\ Notify(js, rs, phase)
    /\ unprojected' = unprojected \ {j}
    /\ UNCHANGED <<waiting, owed, stopped, granted, stopping>>

\* Every closer of a child projects its job in the same step; what the projection
\* raises is logged and swallowed: the child is closed, its job is not.
ChildCloses(j, s) ==
    /\ job[j] \in OpenJobs /\ j \notin unprojected
    /\ \/ Projects(j, s)
       \/ /\ unprojected' = unprojected \cup {j}
          /\ UNCHANGED <<turnVars, job, result, parks, wokenBy, invocation, waiting, owed, stopped, granted, stopping>>

\* `owned`: get_job, cancel_job and each iteration of _wait project again the
\* jobs they name. Nobody else does, until a restart.
ProjectedAgain(j, s) ==
    /\ \E t \in Turns : phase[t] = "working"
    /\ waiting = NoWait \/ j \in waiting.jobs
    /\ j \in unprojected
    /\ Projects(j, s)

\* guard_child and guard_request: the child is refused its next effect, and its
\* job is asked to cancel.
ChildRefused(j) ==
    /\ job[j] = "open" /\ j \notin unprojected /\ ~Admitted
    /\ job' = [job EXCEPT ![j] = "cancelling"]
    /\ UNCHANGED <<turnVars, unprojected, result, parks, wokenBy, invocation, waiting, owed, stopped, granted, stopping>>

---------------------------------------------------------------------------
(* The user, and the process.                                               *)

\* start for any turn no wake opens: begin_turn ends the subscriptions of the
\* earlier turns and takes the Stop mark back.
UserTurn ==
    /\ OpenTurn
    /\ parks' = Invalidated("superseded")
    /\ stopped' = FALSE
    /\ invocation' = 0
    /\ UNCHANGED <<job, unprojected, result, wokenBy, waiting, owed, granted, stopping>>

\* start while a turn runs raises SESSION_BUSY, after it has written the
\* invocation of the turn it did not open.
BusyTurn ==
    /\ status = "running"
    /\ invocation' = 0
    /\ UNCHANGED <<turnVars, job, unprojected, result, parks, wokenBy, waiting, owed, stopped, granted, stopping>>

\* The user edits the session's tools and specialists.
Regrant(b) ==
    /\ granted' = b
    /\ UNCHANGED <<turnVars, job, unprojected, result, parks, wokenBy, invocation, waiting, owed, stopped, stopping>>

\* Variant: Stop cancels the jobs and leaves the subscription.
StopBarrierJobsOnly ==
    /\ stopped' = TRUE
    /\ stopping' = TRUE
    /\ parks' = parks
    /\ job' = [j \in Jobs |-> IF job[j] = "open" THEN "cancelling" ELSE job[j]]
    /\ UNCHANGED <<turnVars, unprojected, result, wokenBy, invocation, waiting, owed, granted>>

\* on_stop: everything Stop writes before its first await.
StopBarrier ==
    /\ stopped' = TRUE
    /\ stopping' = TRUE
    /\ parks' = Invalidated("stopped")
    /\ job' = [j \in Jobs |-> IF job[j] = "open" THEN "cancelling" ELSE job[j]]
    /\ UNCHANGED <<turnVars, unprojected, result, wokenBy, invocation, waiting, owed, granted>>

\* The task Stop finds after those awaits is cancelled; a task already in its
\* finally block loses the rest of it.
StopCancel ==
    /\ stopping
    /\ stopping' = FALSE
    /\ \/ /\ Busy(phase) /\ Runs(current)
          /\ CloseTurn(current, "cancelled")
          /\ waiting' = NoWait
       \/ /\ Busy(phase) /\ phase[current] = "closing"
          /\ phase' = [phase EXCEPT ![current] = "over"]
          /\ UNCHANGED <<status, turns, active, current, waiting>>
       \/ /\ ~Busy(phase)
          /\ UNCHANGED <<turnVars, waiting>>
    /\ UNCHANGED <<job, unprojected, result, parks, wokenBy, invocation, owed, stopped, granted>>

\* Startup: no autonomous replay. Rows already started keep their state; an open
\* model job has lost its executor, and its row has the predicate 'reconcile'.
Restart ==
    /\ RestartTurns
    /\ parks' = [t \in Turns |-> IF parks[t].state \in {"candidate", "parked", "wake_claimed"}
                                THEN [parks[t] EXCEPT !.state = "interrupted"] ELSE parks[t]]
    /\ job' = [j \in Jobs |-> CASE job[j] = "open" -> "interrupted"
                               [] job[j] = "cancelling" -> "cancelled"
                               [] OTHER -> job[j]]
    /\ invocation' = 0
    /\ waiting' = NoWait
    /\ owed' = {}
    /\ unprojected' = {}
    /\ stopping' = FALSE
    /\ UNCHANGED <<result, wokenBy, stopped, granted>>

Claiming == \E t \in Turns : parks[t].state = "wake_claimed"

TurnStep ==
    \/ \E j \in Jobs : StartJob(j) \/ CancelJob(j)
    \/ \E w \in Waits : WaitJobs(w)
    \/ WaitTimeout
    \/ \E t \in Turns : Complete(t) \/ ParkPartial(t) \/ CompletePartial(t) \/ Fail(t) \/ EndTask(t)

Next ==
    \/ /\ ~Claiming
       /\ \/ TurnStep
          \/ \E t \in Turns : Callback(t)
          \/ \E j \in Jobs, s \in ClosedJobs : ChildCloses(j, s) \/ ProjectedAgain(j, s)
          \/ \E j \in Jobs : ChildRefused(j)
          \/ UserTurn
          \/ BusyTurn
          \/ \E b \in BOOLEAN : Regrant(b)
          \/ StopBarrier
          \/ StopCancel
    \/ \E t \in Turns : StartClaimed(t)
    \/ Restart

Spec == Init /\ [][Next]_vars

\* Turns and children run under deadlines, callbacks and claimed starts are run
\* by the event loop; the user, Stop and the crash owe nothing.
Fairness ==
    /\ \A t \in Turns : /\ WF_vars(~Claiming /\ (Complete(t) \/ CompletePartial(t) \/ Fail(t)))
                        /\ WF_vars(~Claiming /\ EndTask(t))
                        /\ WF_vars(~Claiming /\ Callback(t))
                        /\ WF_vars(StartClaimed(t))
    /\ \A j \in Jobs : WF_vars(~Claiming /\ \E s \in ClosedJobs : ChildCloses(j, s))

FairSpec == Spec /\ Fairness

---------------------------------------------------------------------------
(* Properties.                                                              *)

\* No result is missed: an idle owner whose parked jobs are admitted and whose
\* result satisfies the wait is being woken, or the callback that will look is
\* scheduled. The result may come between the timeout and the park, or between
\* the park and the end of the task (job_wake.py:112-113).
NoMissedWake ==
    (~Busy(phase) /\ Outcome(job, result, phase) = "claimed") =>
        \E t \in owed : phase[t] = "over"

\* A wake opens its turn only when no turn of the owner runs and the task that
\* parked has ended, also where the status already says completed (lines 170-172).
WakeAfterTask ==
    [][\A u \in Turns : (wokenBy[u] = 0 /\ wokenBy'[u] # 0) =>
            phase[wokenBy'[u]] = "over" /\ \A t \in Turns : ~Runs(t)]_vars

\* A subscription that was claimed, stopped, superseded or interrupted never
\* comes back: no later wait of the turn, unknown start or restart revives it.
NeverRevived ==
    [][\A t \in Turns : parks[t].state \notin {"none", "candidate", "parked"} =>
            parks'[t].state \notin {"candidate", "parked"}]_vars

\* Stop wins: until the user opens a turn no row can lead to a wake, although
\* the stopped turn goes on running until its task is cancelled and may still
\* time out, park and close (job_surface.py:231-248).
StopWins ==
    stopped => /\ \A t \in Turns : parks[t].state \notin {"parked", "wake_claimed"}
               /\ \A j \in Jobs : job[j] # "open"

\* The owner has one subscription at most, that of its last turn.
OneSubscription ==
    \A t \in Turns : parks[t].state \in {"parked", "wake_claimed"} =>
        t = active /\ \A u \in Turns : wokenBy[u] # t

\* A parked owner does not sleep past its jobs: while one of them is open, the
\* subscription ends, by a wake or by what withdrew it. A projection that raised
\* (job_surface.py:200-203) is the one way to oversleep: nobody repeats it for an
\* owner whose turn is over.
ParkEnds ==
    \A t \in Turns :
        (parks[t].state = "parked" /\ \E j \in parks[t].jobs : job[j] \in OpenJobs)
            ~> (parks[t].state # "parked" \/ parks[t].jobs \cap unprojected # {})
=============================================================================
