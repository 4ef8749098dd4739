# BoxFox Agent Box: TLA+ models of the harness

BoxFox runs an agent harness: a backend process (`src/backend/src/agentbox`, asyncio over one SQLite
file), a model router (`src/router`), a frontend and desktop shell, and sandbox executors. The logic
that is hard to test is in the backend's `agent_core`: sessions and their turns, the children a turn
delegates to, background jobs that outlive the turn that started them, the owner that sleeps until a job reports, the long tasks
that go on by themselves within a budget, and the decision cards that stop a turn until its owner answers. These modules model that part; everything between two `await`s of the event loop, and
every SQLite transaction, is one action.

## Inventory

| Component | State | Operations | Hard behaviour | What makes it correct | Modelled by |
|---|---|---|---|---|---|
| Job ledger (`harness_jobs.py`) | jobs, outbox of events with global `event_seq`, per (consumer, job) cursors, wake locks | start, append, cancel, subscribe, wait, acquire/release wake, reconcile | retries after a lost answer, completion after cancel, restart, several readers of one log | a cancelled job never ends as succeeded; log and job agree; a wake is read once and never skipped | `JobLedger`, `HarnessJobs`, `JobReader` |
| Job tools and parked owners (`job_surface.py`, `job_wake.py`) | `harness_parked_owners`, waiters, Stop mark | `wait_jobs`, park, wake, begin turn, Stop, startup, guards | result racing the time-out, the park and the end of the task; Stop during a turn; crash between claim and start | no missed wake, one turn per wake, Stop wins, nothing revived | `OwnerTurns`, `JobWake` |
| Turns (`runtime.start`, `_run`, `stop`) | session status, turn counter, `active_turn`, `rt.tasks` | open, close, finally block, stop | the status is final before the task is | one task per status 'running' | `OwnerTurns` |
| Children (`delegate`, `resume_child`, `close_detached_child`, `reap_children`, `cancel_child`, `peer_watchdog.py`) | children table, session status, tasks, fan-out slots, the reaper's marks | delegate, resume, six ways to close | closers racing for a row; a late callback against a resumed run | closed once, slot conserved, no work under a closed row | `ChildLedger` |
| Long tasks (`longtask_store.py`, `longtask_runtime.py`) | run, epochs, lease, budget, segments, continuations, the budget card | configure, repin, check, reserve, settle, finish, queue, pump, recover, the owner's actions, stop | stale snapshots, crash with a reserved segment, stop against a card, a lease of a dead process | budget never exceeded and never leaked, a stop holds, one turn per continuation | `TaskBudget`, `TaskRun`, `Longtask` |
| Decisions (`decision_store.py`, `runtime.decision` to `resolve_decision`, the approver of `machine_router.py`) | cards, replies, the futures of waiting coroutines, the plan ledger | request, wait, answer, retry, hydrate, settle, resume, Stop | answer, deadline, Stop and restart race; a status shared by several askers | one outcome told to all, the ledger says what the owner said, a wait ends | `Decisions` |
| Tasks (`task_service.py`, `task_surface.py`) | tasks, attempts bound to children | open, bind, resume, project | attempt and child close separately | at most one open attempt | only `finish_child`, in `ChildLedger` |
| Work graph (`work_graph.py`, `work_*.py`) | nodes, grants, continuations, worktrees | claim, grant, revoke, merge, recover | revocation against execution, merge crash | a revoked grant runs nothing | not modelled |
| Plans (`plan_registry.py`, `plan_workflow.py`) | versions, reviews, mode | save, review, approve | approval of a stale version | approval names the reviewed version | only the review a card writes, in `Decisions` |
| Usage ledger, permissions, recovery policy | reservations; tables | reserve, settle; decide | retry of a charged call | charged once | not modelled |
| Router (`src/router/src/*.mjs`) | keys, cool-downs, budgets | pick, report, retry | all keys cooling | a cooled key is not used | not modelled |
| Research, design, web, memory, skills, API, frontend, sandbox, desktop, vendored code | | | I/O, prompting, rendering | | not modelled |

How they interact: a turn calls the job tools, which write the ledger; a delegated child that closes
is *projected* on its job (`project_child`), which appends a result to the outbox and notifies the
waiting or parked owner (what it raises is swallowed); the wake opens a turn through `runtime.start`. Stop writes the job barrier,
stops the children one by one, closes the pending cards, then cancels the turn's task; its first step is the
barrier of the long task. The watchdog sweeps the children table. Every gate of a long task asks whether a card
is pending, and an exhausted budget is itself a card; a timer of the server admits queued continuations.

## Modules

| Module | What it is |
|---|---|
| `JobLedger` | Abstract promise: each job is absent, open, cancelling or closed, and which moves it may make. |
| `HarnessJobs` | The ledger itself, one action per transaction. Refines `JobLedger` (`LedgerSpec`). |
| `JobReader` | `HarnessJobs` with an owner that presents the cursor the last `wait` returned (one disagreement is checked on it). |
| `OwnerTurns` | Turns of one owner: status and asyncio task as separate things. Used by the two below. |
| `JobWake` | The parked owner over `OwnerTurns`. |
| `ChildLedger` | Children of the owner's turns over `OwnerTurns`. |
| `TaskBudget` | Abstract promise: time is spent out of holds that fit the limit, and only the owner moves the limit. |
| `TaskRun` | The row operations of the long-task store on a run and its outbox. |
| `Longtask` | One long task over processes: gates, turns, calls, the card, the pump, recovery. Refines `TaskBudget` (`BudgetKept`). |
| `Decisions` | The cards of one root session and of its children, and the status they share. |
| `HarnessJobs_proofs`, `JobReader_proofs`, `JobWake_proofs`, `ChildLedger_proofs`, `Longtask_proofs`, `Decisions_proofs` | Theorems about the module each is named after. |
| `ChildRuns_proofs` | The theorems about `ChildLedger` that speak of the runs of a child: who may touch what a working run holds. |
| `MC*` | Model values and small data sets for TLC. |

Definitions whose comment begins with *Variant* are not part of a specification: each states a
plausible slip in the definition that follows it, and the property named with it in `PROJECT.json`
fails when it replaces that definition.

### HarnessJobs
`admission`, `state`, `revision`, `epoch`, `resultRefs` are columns of `harness_jobs`; `outbox`,
`delivered` are `harness_wake_outbox`; `cursor` is `harness_wake_cursors` (`NoCursor` for no row, which
`wait` treats differently from 0); `lock` is `harness_wake_locks`; `childOpen` is what `_child_closed`
reads of the children table. `Append` answers exactly as `_append_locked`: replay before revision,
revision before closed state, closed state before artifact references. An error that writes nothing is
a disabled action. `reconcile` numbers its rows by `created_at`, which is not kept: any order is allowed.
Assumed of producers: no event but `cancel`'s has predicate `control` (true of every caller in the tree).
Not modelled: reasons and capability documents (shape only), the page limits, JSON decoding errors.

### OwnerTurns, JobWake
`status`/`turns`/`active`/`current` are `sessions.status`, `turn_count`, `rt.active_turn`, `rt.tasks`.
A turn is *working*, *wrapping* (`finish_partial` parks first and still awaits before it saves),
*closing* (saved, finally block) or *over*. `parks` is `harness_parked_owners`, one row per source turn;
`Outcome` is the decision of `try_wake`, in its order of checks. Reading the rows and claiming the park
are one transaction, starting the turn is the next step (`StartClaimed`), and only a crash can come
between them. Stop is `StopBarrier` (what `on_stop` writes before the first await) and `StopCancel`.
The result of a job is seen through its outbox row: none, pending, delivered. `granted` stands for the
owner's tools and specialists still admitting its jobs. A child closes and is projected in one step, as every
closer of a job's child does it (`close_detached_child`, the reaper, the watchdog, `cancel_child`, `delegate`,
`resume_child`); or the projection raises, is swallowed, and the job is `unprojected` until a turn of the owner
names it (`ProjectedAgain`) or a restart. The closers without a projection to jobs (runtime.py:7592,
work_feedback.py:753 and 779) close a row that was opened again after an earlier close, whose job is closed since then.
The owner is a session of a sandbox: there only its own turn asks the user, so *awaiting_decision* is folded into
*running*. In an IDE session a child's card writes the owner's status as well; that is in `Decisions`, and nothing is
claimed of a parked IDE owner. Assumed: `try_wake` itself does not raise (job_wake.py:162-165 logs it and tries no more).
The long-task continuation is another caller of
`start` and behaves here as `UserTurn`; what it needs to get there is `Longtask`.

### ChildLedger
`row` is the child's row in `children`, with a run number in place of the `started` stamp; `task` is the
asyncio task of each run; `held`/`permits` are `child_slot_holders` and the semaphore of the parent;
`reaping` is the set of children whose callback is muted, `reaper[t]` what `reap_children` of turn `t`
waits for. A cancel delivered before the `try` of `_run` (*queued*) saves nothing; later it saves the
session as cancelled and leaves the finally block to run (*dying*). `rt.owner_cancels` holds a child exactly while the
`cancel_child` of its owner is in its await, and is read off `await`. `Kept` are children of running jobs,
which no turn reaps and the orphan rule spares; how a job stops keeping its child is in `JobWake`.
Abstracted: the wait for a slot (a delegation with no permit is refused), failures in `_run` before its
`try`, grandchildren, a failed row with a ceiling's code (closed and resumed as a *partial* one), the forced wake of a waiting peer, the global slot ceiling (same release path),
a second Stop while one is in progress. The first sweep of the watchdog after a restart is part of
`Restart`; nothing of the process runs before it.

### Longtask
`run` is the row of `longtask_runs` with its three counters (revision, stop epoch, lease epoch), `budget` its
`budget_json`, `conts` the outbox keyed by source key, `cards` the budget card of each budget revision,
`turns[s]` what a process keeps of a session's turn: the snapshot, `autonomous`, and the open segment.
`owner` of a run is the number of the process that holds the lease. `Gate` is `check` in its order of tests,
`ReserveCodes` is `reserve` in its order, `Blocked` is `block`; a refused gate parks the run in the step that
met it. `Dispatch` is gate, reserve and the start of the call; `Settle`, `Cut` and `Dies` are the three ways a
segment ends: the call returns, its task is cancelled (the `finally` still settles), the process dies (nothing
settles, and a tool call may leave a `tool_start` without an end). `Stop` is the barrier before the first await
and `StopRest` what follows it. `spent`, `halted`, `opened` are history, read by no action.
Abstracted: runs owned by a work or plan controller; `resume_policy` and the environment flag are one rigid
`safe_auto` (so the pump's branch for a run switched off meanwhile is left out); the wall deadline may have
passed at any call; a call takes at most its bound; the binding of the card is its stop epoch; only the budget
card counts as a pending decision (an ordinary card refuses the gate in the same way); three turns without
progress are one of the projections `needs_user`; goals and scopes are seen as equal, goal changed or scope
changed. A session's own newest unfinished call does not block its own gate, so interruptions count for
sessions whose turn is over; the gates see to it that no turn opens over one.

### Decisions
`row` is `session_decisions`, `review` what a card wrote into the plan reviews, `verdict` the verdict on the
version of the plan, `future`/`waits`/`heard` the coroutines, `status` the root's status, `prev` the
`previous_status` an approver keeps over its await. The other tests of `plan_approval_blocked` (a brief revised
since the review or a version replaced, research the plan rests on gone stale) turn at any time, both ways, and
are in no binding, so they are no state of the model: `Ask` and `Answer`, the two actions that ask them, take the
answer `blocked` as an input. Every reader of `rt.pending` hydrates first and `settle` writes row and record
together, so a record is resolved when its row is. Time is the set `due` of overdue cards. Each action that begins
with `hydrate_decisions` closes the overdue cards in the same step.
Abstracted: the run part of a binding (its stop epoch is in `Longtask`), the interview as a question with the
outcome *answered*, the pruning of 100 settled records, validation of options and notes, the autopilot's
settlement and the work-feedback cards, which have a store of their own. Plan verification is in its mode
*enforce*. A turn starts when the finally block of the one before is over (their overlap is in `ChildLedger`);
which children a job keeps from the reaper is an arbitrary set.

## Runs

All bounds are constants of the modules or of the cfg.

| Run | Instance | Shows |
|---|---|---|
| `HarnessJobs_ledger` | 2 jobs (symmetric), 1 owner, 2 invocations, 1 alias, 4 events, sequence gaps of 1 | retries, cancels, aliases, reconcile; refinement of `JobLedger`. Deadlock is off: the number of rows is bounded and without readers the full ledger is quiescent. |
| `HarnessJobs_wake` | 2 jobs, 2 consumers, 2 lock holders, 3 events | sequence order, no redelivery, no skip |
| `JobWake_park` | 2 jobs, 2 turns, `any`/`all`, fair | missed wake, Stop, one subscription, wake only after the task, nothing revived, and a park ends unless a projection of its jobs was lost (655,102 states) |
| `ChildLedger_turn` | 2 children (one kept by a job), 2 slots, 2 turns, 1 run | slots, marks, rows closed once (3.6 million states) |
| `ChildLedger_runs` | 1 child, 2 runs, 2 turns, fair | a late callback or cancel of an earlier run or turn against a resumed run, and every run is closed at last |
| `Longtask_task` | root and child, 2 processes, 2 steps and 3 units of time (reserve 1, a call 1), one extension, one resume, 2 stops, 7 revisions | budget, leaks, grants (each limit moves with its card), lease, stop, continuations; refinement of `TaskBudget`. Deadlock is off: turns, stops and revisions are bounded. |
| `Decisions_cards` | 2 cards, 1 child, 1 invocation, fair | one outcome for all, the plan ledger, a wait ends (1.4 million states) |

Why these bounds: the events of a ledger run need a cancel, a late completion, its replay and one row of
another job (4). A cursor needs two consumers and a row of another job below it (3). A subscription that
is woken and meets a turn of the owner needs 2 turns, and two jobs are what tells `any` from `all`; longer histories
are covered by the proofs, which bound neither. The budget of 3 units refuses the third call by the limit and
lets the extension admit it; two processes are one crash or shutdown with work in flight on either side. Two cards
are needed for an answer that expires another card on its way, and for two askers of one status. Two runs
of a child and two turns of its owner are what a late callback needs to meet a run, and a reaper a turn, that are
not its own; the theorems on `ChildLedger` bound neither. `ClosedMeansStopped` and `LiveRunHoldsSlot` assume
`OwnReapers`, that no reaper takes a child of another turn: without it both fail, as a consequence of the finding
`ReapsOwnTurn` (the reaper of turn 1 holds a child of turn 2, the watchdog closes it, it is resumed, and the
reaper's close, which compares no stamp, ends the new run's row). `ApartReapOwn` proves what is needed for it: that no
turn is opened while the finally block of another still runs. `WaitTimeout` leaves no candidate in
the last turn, since no turn is left for its wake.

Fairness. `JobWake`: turns close (deadline of `_run`), tasks end, callbacks run, a claimed start runs,
children close (their own deadlines); weak fairness each, since nothing else disables them for ever.
`ChildLedger`: the same for owner and child tasks, plus the reaper's halves, Stop's steps and the orphan
rule of the sweep. `Decisions`: deadlines pass (`decision_deadline` gives every card one), and the event loop runs
a coroutine whose future is set, whose timer is up or that is cancelled. The user, a restart, Stop and the
six-hour wall limit are not fair. `Longtask` has no liveness property: every refusal there waits for the owner.

### Disagreements met while modelling

Each is a run that TLC finds violated.

* `JobReader_latejoin`: the docstring of `wait` promises that a job joining the watched set still shows
  its unread wakes. `subscribe_job` creates a cursor row, and the query then applies the caller's cursor.
* `ChildLedger_reaper`: the reaper asks for the active turn after an await, and may get the next turn.
* `Longtask_card`: Stop bars the run before it closes the cards, and the effect of the budget card refuses a
  barred run; the exception leaves the card pending, unanswerable, and the turn's task running.
* `Longtask_pump`: the pump commits a row as admitted and then meets the lease of an earlier process, which
  recovery frees for running runs only; the continuation is lost, not deferred.
* `Decisions_resume`: `resume` looks at the status of the session alone. The answer to a child's card puts a
  root whose turn has ended back to *running*; every later start is busy until the process restarts.

Others were met and have no run of their own.

* `start` writes `turn_invocations` (runtime.py:2125) before it refuses a busy session, so `guard_active` no longer
  recognises a wake turn whose park was withdrawn, and the turn goes on asking the model.
* A delegation with more than four recipients raises (runtime.py:7970) after the slot was tied to the child: the slot
  is not given back, against runtime.py:7913.
* A child that has answered and is in its finally block is reaped as abandoned (runtime.py:2447): the question is put
  to the task, which outlives the answer, against runtime.py:2414-2415.
* The owner's pause and cancel do not look at the state of the run (longtask_store.py:244-246): a completed run becomes
  paused, and a resume makes it ready.
* A queued continuation of a run that has finished meanwhile is not filtered by the pump: `root_run` finds no live
  run, `check` returns nothing, and the comparison of revisions raises at every tick.
* The graceful end of a process (server.py:2704-2715) is written so that recovery finds the run as it was; it stops
  each session, and a stop closes the pending budget card and pauses the run.
* `finish_partial` and the early returns of `_run` end a turn without a word to the run, which stays *running*.
* A budget card is made once for each budget revision: after a refusal, a run that exhausts the same budget asks nothing.
* Answering the card of one asker sets the session to *running* while another of its cards still waits, and the card
  of a child that was reaped or stopped stays pending on the root until its deadline.
* `cancel_child` turns away closed children (research_runtime.py:2281) but not a *partial* one: it answers that the
  branch was cancelled, and its row stays as it was.
* `close_owner_cancelled_child` (runtime.py:2371) says a child its owner cancels closes as `cancelled/OWNER_CANCELLED`.
  The task of a working `wait=false` child has saved the session as cancelled before its callback runs; the callback
  reads `owner_cancels` for open sessions only, and records the reason of any cancelled child. (The tests call the
  callback on a session that was never saved.)
* A plan card whose verdict changed can be neither approved nor refused by the owner before its deadline.
* `restored_decision` (runtime.py:6059) has no caller and calls `wait_for_decision` with one argument missing; the
  loop over pending cards at runtime.py:5126-5128 does nothing, since every record is durable.
* The watchdog's comment (peer_watchdog.py:173-174) wants the parent of a child cut at its wall limit to
  see `timedOut`. A parent that awaits the child is cancelled with it (`AwaitRaises`): `delegate`
  re-raises, the tool dispatch catches `Exception` only, and the parent's turn closes as cancelled.

## Proofs

`HarnessJobs_proofs` proves, for any jobs, owners, consumers, tokens, requests, events and bounds that
satisfy `ConstantsAssumption` (bounds are naturals, an event names one of the consumers and one of the
declared kinds and states, and only `cancel` writes control rows):

* `TypeCorrect`: `TypeOK` is inductive as it stands.
* `SeqOrder`: every number in the outbox is used once and none is above the last one. Append takes the
  last number plus a gap; `reconcile` numbers its rows upwards from the maximum in an injective order.
* `CancelWins`: a job asked to cancel is open or cancelled. `CancelHonoured` is inductive only together with
  `SeqIsGlobal`: `append` looks up the newest control row, and "newest" means nothing unless sequence
  numbers order the log.
* `ClosedStaysClosed`, `StartedOnce`, `AliasHeldOnce`: closed jobs do not move; an invocation or an alias
  in use admits no second job. Each follows from the transactions' guards and `TypeOK`.
* `LedgerImplemented`: every step of `HarnessJobs` is a step or a stutter of `JobLedger` under the mapping
  of `LedgerSpec`. `StatusMoves` classifies each transaction by what it does to the abstract status of
  each job; it needs that every row belongs to a started job (`RowsHaveJobs`), or a job could be
  cancelling before it starts.
* `DeliveredOnce`: a delivered row is behind the cursor of its consumer. Inductive with `DeliveredBehind`;
  `AdvanceTo` never moves a cursor backwards, so no subscription uncovers it.
* `NothingSkipped`: where readers rely on the stored cursor (`Afters \subseteq {0}`), an unread wake is
  never behind the cursor. Needs `CursorBehind`: a cursor never passes the end of the outbox.
* `LogExplains`: the log explains every job. Inductive with `RowsHaveJobs` (a job starts with no row), `SeqIsGlobal`
  (an appended row is the newest) and a finite outbox; `NewRowExplains` is the step for the one job that gets a row,
  `OthersExplained` for the rest, and a `Reconcile` is both at once for every job it closes.
* `RetryGetsReceipt` follows from `TypeOK` and `SeqIsGlobal`; `RestartConfirms` from `TypeOK` and the shape of
  `Confirmed`. With them every property of the two runs of `HarnessJobs` is proved.

`JobReader_proofs` takes the owner that presents the cursor its last `wait` returned, for ledgers that accept any
position (`AnyAfter`):

* `ReaderImplementsLedger`: with the cursor hidden, its behaviours are behaviours of `HarnessJobs`; `ReaderToldOnce` is
  what it inherits. `NextMarkReads` shows the cursor returned to be the one presented or a number that was read.
* `WholeReaderShown`: if each of its waits covers every job it has started (`WholeSpec`), the next wait shows every unread
  wake (`WakesShown`). Inductive as `NoneBehind` (no unread wake is behind the presented or the stored cursor) with
  `MarksBehind` (neither cursor is ahead of the log). TLC refutes the same claim for sets of jobs that change
  from call to call (`JobReader_latejoin`): only a wait that leaves out a started job can hide a wake from this owner.
  The condition is on the caller, which names the jobs of each wait.

`JobWake_proofs` proves `TypeCorrect`, `SubscribedOnce`, `StopHolds`, `NoWakeMissed`, `WokenAfterTask` and
`NothingRevived` for any set of jobs and any positive number of turns (`MaxTurnAssumption`). The invariant is
`IInv`, the conjunction of `TypeOK`, `OneSubscription`, `StopWins` and two facts that no property names:

* `TurnOrder`: the active turn is the last one, its task is the one `rt.tasks` holds, no other task runs,
  and a woken turn comes after the turn that parked. It is what makes a subscription of the active turn the
  only one, and what a wake's "no task of this owner" test rests on.
* `AsleepRightly`: a park with no callback to come has its task over and nothing pending that satisfies its
  wait. `NoMissedWake` says less (it speaks only of an owner that could be woken now) and is not inductive:
  a park could be asleep wrongly while a task runs, and be missed when the task ends. Each notification
  re-establishes it (`NotifiedAsleep`), and the steps of a turn only make a wait less satisfied
  (`WakeableMonotone`).

`TurnMoves` and `RowMoves` of `JobWake_proofs` sort the steps by what they do to the turns and to the rows of the owner; the
lemmas after them have one case for each. `WakeAfterTask` and `NeverRevived` follow from `IInv` in one step.

`ChildLedger_proofs` proves `TypeCorrect`, `SlotsKept`, `MarksEnd` and `ClosedOnce` for any
children (a finite set or not: only the holders of slots are counted), any positive fan-out limit and any number of
turns and runs (`KeptAssumption`, `BoundsAssumption`, `MaxTurnAssumption`). An action starts a run, restarts the process or is `Calm`: it opens nothing,
and each row stays or goes from started to closed (`Steps`). `SlotsConserved` alone is not inductive: nothing in it
says that the child a slot is bought for holds none. `SlotRules` does, by three facts: a holder has a session and a
row no resume may open; a row that was never written has no reason; and a child that its owner awaits has paid its
slot back by the time its callback has run, so a row that the owner closes as *partial*, and a resume may open
again, holds none. The last also says that a task which returned has saved an answer, without which `AwaitReturns`
would write a row outside its type. `RowSteps` gives `RunsCloseOnce` in one step.

`ChildRuns_proofs` proves `RunsHoldSlots` and `ClosedAreStopped` (the properties `LiveRunHoldsSlot` and
`ClosedMeansStopped`, whose premise `OwnReapers` is part of them) under the same assumptions. Both follow from `Alone`: a
run that works is its child's only one, and the row, the registry entry and the slot of the child are its own. It is
inductive as part of `RunInv` and only where reapers keep to their own turn (`RunStep` has `ReapsOwnTurn'` as a
hypothesis, `RunsAlone` the premise `OwnReapers`). The other parts are what a late step needs to be harmless: what the
owner awaits is the child's last run and is the only one to owe an awaited callback (`AwaitRules`), a turn that reaps is
closing and what it reaps works no more (`ReapRules`), and the active turn is the current one (`TurnRules`). The
actions are sorted three ways, by the runs (`Quiet`: none starts, and what a working run holds is left alone),
by the turns (`TurnSteps`) and by what is awaited (`AwaitSteps`); each action is of one kind in each, and only
`Delegate` and `Resume` start a run.
`ApartReapOwn` settles where `OwnReapers` can come from: if no turn is opened while another's finally block runs
(`TurnsApart`, which `start` does not ask at runtime.py:2126-2127), every reaper takes children of its own turn.
The premise is a condition on the environment and not a claim about the code; the run `ChildLedger_reaper` is what
happens without it.

`Longtask_proofs` proves `TypeCorrect`, `BudgetNeverExceeded`, `NothingLeaks`, `LeaseFences`, `StopHeld`,
`ContinuationOpensOnce` and `BudgetImplemented` for any finite set of children and any positive budget and bounds
(`TaskAssumption`, `CounterAssumption`). Two classifications carry it, and each action is shown to be of one class
in each: `BudgetMove` (quiet, opens a call, closes some, loses all with the process, extends the limits) for the
account, and `FenceMove` for the counters of the run and the snapshots. The two halves are independent:
`BudgetHolds` and `UnusedReturned` are inductive together with `TypeOK`, because they speak of what is spent and what
is held together, so a crash that loses the holds leaves the sum below what was reserved; `FencedByLease` needs that
a snapshot is never ahead of the run (`SnapshotsBehind`) and that no turn is live outside a running process
(`TurnRules`). `BudgetKept` maps the account with the open holds subtracted, so that a settling is a `Release` and a
crash releases them all at once. `StopHolds` rests on `HaltInv` (after a stop the run is paused or over, and no gate
passes), `OpensOnce` on `ContInv` (a row that opened a turn is never pending again). `GrantedOnce` (`LimitsGranted`)
speaks of one step: the limits stay, or the pending card of the revision is approved and both double. It needs
`AnsweredOnce` (`GrantsAnswered`), that the revisions of the budget and the granted cards are the same numbers, so that
the card of the current revision has not been granted before; every step then grants the pending card (`Grants`) or
leaves all cards' grants and the limits alone (`CardsStay`).

`Decisions_proofs` proves `TypeCorrect`, `SameOutcomeForAll`, `LedgerFaithful`, `ClosedOnce` and `NoLostWakeUp` for any
cards, children and invocations (`DecisionsAssumption`). Every action that closes cards does it through
`SettleUnder`, with a map from pending cards to outcomes (`Closing`); the lemmas named `Settle...` say once that such a step
keeps each part of the invariant. `LedgerSaysWhatOwnerSaid` needs `CardOK`: a pending card has written nothing. An
approval is written under a passed verdict, and the binding compares that with the verdict the card was asked under; so
a question asked before the critique passed never approves a plan. The ledger may lack an approval the owner gave:
`record_plan_decision` leaves it out (runtime.py:6290-6312) when the brief or the research has moved meanwhile.
`WaiterIsWoken` (a waiting coroutine has a future that is set exactly when its card is closed) is what liveness
rests on; TLC checks the liveness itself (`WaitEnds`).

The temporal step of each theorem is by `PTL` from the facts of its invariant. No proof uses a
recursive operator or an induction over data; the sequence numbering of `reconcile` is an injection
chosen by the action, so none is needed.

## What is only model-checked

Liveness (`ParkEnds`, `RunsAreClosed`, `WaitEnds`): every other property of the passing runs is a theorem. Liveness
under fairness and ENABLED are outside the prover. Induction over data is too, so what a recursive definition computes is
never claimed as a theorem. The five disagreements are counterexamples TLC finds, not theorems.

## Not modelled

* Tasks and attempts, the work graph with its grants, continuations and worktrees, plan versions and reviews: state
  machines of a size of their own around git and file operations. What they share with the modelled part is there:
  the child's row, the cards, the admission of a turn.
* `controller_continue`, the hook by which a work or plan run continues a long task, and the work-feedback cards.
* Permissions, tool contracts, the recovery policy and the usage ledger: decisions over one call, with no
  interleaving of their own.
* The router, a process with its own state in memory; research, design, web, memory, skills, prompting and rendering;
  sandboxes and executors, which are I/O.
* `src/code-reference` and the other vendored trees are third-party code the harness does not run. They are about
  seven eighths of the implementation lines in the repository, so the share of all lines that the map covers is small
  although the modelled files are covered in their state-changing parts.
