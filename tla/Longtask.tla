------------------------------ MODULE Longtask ------------------------------
(***************************************************************************)
(* One long task of an owner (longtask_runtime.py, and its call sites in    *)
(* runtime.py and server.py): the root turn and the turns of its children   *)
(* draw on one budget, a turn that ends queues the next one, the pump       *)
(* admits it, the owner stops, resumes, inspects and answers the budget     *)
(* card, and the process may die or be shut down anywhere.                  *)
(*                                                                          *)
(* Everything between two awaits is one action.  A refused gate is part of  *)
(* the action that met it, with the parking of the run it leads to.         *)
(***************************************************************************)
EXTENDS TaskRun, FiniteSets

CONSTANTS Root, Kids,           \* the owner's session and the sessions of its children
          StepLimit, TimeLimit, \* the budget the owner first approved
          Bound,                \* turn_budget_seconds, the most one call can take
          Reserve,              \* checkpointReserveMs
          MaxTurn,              \* turns of one session (bound)
          MaxOwner,             \* resumes of the owner (bound)
          MaxGrant              \* extensions of the budget (bound)

Sessions == {Root} \cup Kids

ASSUME TaskAssumption ==
    /\ Root \notin Kids /\ IsFiniteSet(Kids)
    /\ StepLimit \in Nat \ {0} /\ TimeLimit \in Nat \ {0} /\ Bound \in Nat \ {0}
    /\ Reserve \in Nat /\ MaxTurn \in Nat /\ MaxOwner \in Nat /\ MaxGrant \in Nat

VARIABLES
    safe_auto,  \* resume_policy and BOXFOX_LONGTASK_CONTINUITY: may the harness go on alone?
    run,        \* the row of longtask_runs
    auth,       \* current authority against the pinned binding: same, goal or scope differs
    budget,     \* budget_json
    cards,      \* the budget card of each budget revision, in session_decisions
    conts,      \* longtask_continuations
    unsafe,     \* of each session, a mutating call cut short: open (no tool_end) or receipt
    phase,      \* the process: down, recovering or up
    boot,       \* how many processes have started; names the runner
    turns,      \* snapshots, autonomous and the open segment of each session's turn
    turnNo,     \* active_turn
    stopping,   \* a stop has written its barrier and not yet reached the cards and the task
    resumes,    \* resumes of the owner so far
    spent,      \* time calls really took (history, read by no action)
    halted,     \* the last stop, or owner's word after it, is a stop (history)
    opened      \* continuations that ever opened a turn (history)

procVars == <<phase, boot, turns, turnNo, stopping>>
history == <<spent, halted, opened>>
vars == <<safe_auto, run, auth, budget, cards, conts, unsafe, procVars, resumes, history>>

MaxLease == 2 * (MaxBoot + MaxStop)      \* each process and each stop frees a lease once
Keys == ({"turn"} \X (1..MaxTurn)) \cup ({"restart"} \X (0..MaxLease)) \cup ({"owner"} \X (1..MaxOwner))
Segs == {"none", "model", "tool"}
NoTurn == [live |-> FALSE, stop |-> 0, lease |-> 0, auto |-> FALSE, seg |-> "none"]
NoCard == [state |-> "none", stop |-> 0]
CardStates == {"none", "pending", "approved", "rejected", "cancelled"}
Revisions == 1..(MaxGrant + 1)

TypeOK ==
    /\ safe_auto \in BOOLEAN
    /\ run \in Runs
    /\ auth \in {"same", "goal", "scope"}
    /\ budget \in [rev : Revisions, steps : Nat, ms : Nat, stepLimit : Nat, timeLimit : Nat]
    /\ cards \in [Revisions -> [state : CardStates, stop : Nat]]
    /\ conts \in [Keys -> [state : ContStates, rev : Nat, stop : Nat]]
    /\ unsafe \in [Sessions -> {"none", "open", "receipt"}]
    /\ phase \in {"down", "recovering", "up"}
    /\ boot \in 0..MaxBoot
    /\ turns \in [Sessions -> [live : BOOLEAN, stop : Nat, lease : Nat, auto : BOOLEAN, seg : Segs]]
    /\ turnNo \in [Sessions -> 0..MaxTurn]
    /\ stopping \in BOOLEAN
    /\ resumes \in 0..MaxOwner
    /\ spent \in Nat
    /\ halted \in BOOLEAN
    /\ opened \subseteq Keys

\* `configure` has just created the run, in the first process.
Init ==
    /\ safe_auto \in BOOLEAN
    /\ run = NewRun
    /\ auth = "same"
    /\ budget = [rev |-> 1, steps |-> 0, ms |-> 0, stepLimit |-> StepLimit, timeLimit |-> TimeLimit]
    /\ cards = [b \in Revisions |-> NoCard]
    /\ conts = [c \in Keys |-> NoCont]
    /\ unsafe = [s \in Sessions |-> "none"]
    /\ phase = "up"
    /\ boot = 1
    /\ turns = [s \in Sessions |-> NoTurn]
    /\ turnNo = [s \in Sessions |-> 0]
    /\ stopping = FALSE
    /\ resumes = 0
    /\ spent = 0
    /\ halted = FALSE
    /\ opened = {}

Live == run.state \notin Terminal
Busy == turns[Root].live
Open == {s \in Sessions : turns[s].seg # "none"}
Interruption == \E s \in Sessions : unsafe[s] # "none"
Asked == \E b \in Revisions : cards[b].state = "pending"

---------------------------------------------------------------------------
(* The gates.                                                               *)

\* `check`, up to its snapshot: the reason it raises, or "ok".
Gate(auto) ==
    IF \/ auto /\ run.state \notin {"ready", "running", "interrupted"}
       \/ ~auto /\ run.state = "paused" THEN "blocked" ELSE
    IF auto /\ ~safe_auto THEN "manual" ELSE
    IF auth = "scope" \/ (auth = "goal" /\ auto) THEN "stale" ELSE
    IF Asked THEN "pending" ELSE
    IF Interruption THEN "unsafe" ELSE "ok"

\* `check` pins the run to the owner's new contract before its last two tests.
Repins(auto) == auth = "goal" /\ Gate(auto) \in {"pending", "unsafe", "ok"}
Checked(auto) == IF Repins(auto) THEN Repinned(run) ELSE run
AuthAfter(auto) == IF Repins(auto) THEN "same" ELSE auth

\* The snapshot of a turn against the run; nothing of the turn passes without it.
Fenced(s) == turns[s].stop = run.stop /\ turns[s].lease = run.lease
TurnGate(s) == IF ~Fenced(s) THEN "stale" ELSE Gate(FALSE)
TurnChecked(s) == IF Fenced(s) THEN Checked(FALSE) ELSE run
TurnAuth(s) == IF Fenced(s) THEN AuthAfter(FALSE) ELSE auth

\* `reserve`, on a run r: the reason it raises, or "ok".  The wall deadline is
\* a clock, so it may have passed at any call.
Workable(auto) ==
    IF auto THEN {"ready", "running"}
    ELSE {"ready", "running", "waiting_children", "waiting_job", "needs_user", "interrupted"}

\* Variant: the checkpoint reserve is forgotten.
FitsBare(steps) ==
    /\ budget.steps + steps + 1 <= budget.stepLimit
    /\ budget.ms + Bound <= budget.timeLimit

Fits(steps) ==
    /\ budget.steps + steps + 1 <= budget.stepLimit
    /\ budget.ms + Bound + Reserve <= budget.timeLimit

ReserveCodes(r, auto, steps) ==
    IF r.state = "budget_exhausted" THEN {"exhausted"} ELSE
    IF r.state \notin Workable(auto) THEN {"stale"} ELSE
    IF Fits(steps) THEN {"ok", "wall"} ELSE
    IF budget.ms = 0 /\ budget.steps = 0 THEN {"too_small", "wall"} ELSE {"exhausted", "wall"}

\* `block` with the card it may lead to: one card for each budget revision.
BlockedCards(r, code) ==
    IF Blocks(r, code) /\ code = "exhausted" /\ cards[budget.rev].state = "none"
    THEN [cards EXCEPT ![budget.rev] = [state |-> "pending", stop |-> r.stop]]
    ELSE cards

Park(r, code) == run' = Blocked(r, code) /\ cards' = BlockedCards(r, code)

Closed(s) == [turns EXCEPT ![s] = NoTurn]
Snapshot(s, r, auto) ==
    [turns EXCEPT ![s] = [live |-> TRUE, stop |-> r.stop, lease |-> r.lease, auto |-> auto, seg |-> "none"]]

\* A bound of the model: no action starts that could pass MaxRev or MaxStop.
Room == run.rev + 3 <= MaxRev /\ run.stop < MaxStop
Up == phase = "up" /\ Room

---------------------------------------------------------------------------
(* Turns.                                                                   *)

\* The head of `start`: gate, lease, snapshot.  The lease and the snapshot are
\* written before SESSION_BUSY is looked at, so a refused start moves both.
Admit(s, auto, code, r) ==
    /\ code = "ok" /\ Claimable(r, boot)
    /\ run' = Claimed(r, boot)
    /\ turns' = IF turns[s].live
                THEN [turns EXCEPT ![s].stop = run'.stop, ![s].lease = run'.lease, ![s].auto = auto]
                ELSE Snapshot(s, run', auto)
    /\ turnNo' = IF turns[s].live THEN turnNo ELSE [turnNo EXCEPT ![s] = @ + 1]
    /\ UNCHANGED cards

Refuse(code, r) ==
    /\ code # "ok" \/ ~Claimable(r, boot)
    /\ Park(r, IF code = "ok" THEN "lease" ELSE code)
    /\ UNCHANGED <<turns, turnNo>>

\* The owner sends a message.  A turn that opens records it in the contract.
OwnerTurn ==
    /\ Up /\ Live /\ turnNo[Root] < MaxTurn
    /\ \/ Refuse(Gate(FALSE), Checked(FALSE)) /\ auth' = AuthAfter(FALSE)
       \/ /\ Admit(Root, FALSE, Gate(FALSE), Checked(FALSE))
          /\ auth' \in IF Busy THEN {AuthAfter(FALSE)} ELSE {AuthAfter(FALSE), "goal"}
    /\ UNCHANGED <<safe_auto, budget, conts, unsafe, phase, boot, stopping, resumes, history>>

\* A delegate tool of the root turn starts the child's turn, under the same run.
KidTurn(k) ==
    /\ Up /\ Live /\ turns[Root].seg = "tool" /\ ~turns[k].live /\ turnNo[k] < MaxTurn
    /\ \/ Refuse(Gate(FALSE), Checked(FALSE))
       \/ Admit(k, FALSE, Gate(FALSE), Checked(FALSE))
    /\ auth' = AuthAfter(FALSE)
    /\ UNCHANGED <<safe_auto, budget, conts, unsafe, phase, boot, stopping, resumes, history>>

\* `model` or `tool`: gate, reserve, dispatch.  A model call that may not start
\* ends the turn, whose handler blocks the run once more; a tool call that the
\* reserve refuses is an error the turn goes on with.
Steps(seg) == IF seg = "model" THEN 1 ELSE 0

\* Variant: the time of a call is not charged before the call.
DispatchUncharged(s, seg) ==
    /\ turns[s].live /\ turns[s].seg = "none" /\ seg # "none"
    /\ \E code \in ReserveCodes(TurnChecked(s), turns[s].auto, Steps(seg)) :
          /\ TurnGate(s) = "ok" /\ code = "ok"
          /\ run' = [TurnChecked(s) EXCEPT !.state = "running"]
          /\ budget' = [budget EXCEPT !.steps = @ + Steps(seg)]
          /\ turns' = [turns EXCEPT ![s].seg = seg]
    /\ UNCHANGED cards

Dispatch(s, seg) ==
    /\ turns[s].live /\ turns[s].seg = "none" /\ seg # "none"
    /\ \E code \in ReserveCodes(TurnChecked(s), turns[s].auto, Steps(seg)) :
          /\ TurnGate(s) = "ok" /\ code = "ok"
          /\ run' = [TurnChecked(s) EXCEPT !.state = "running"]
          /\ budget' = [budget EXCEPT !.steps = @ + Steps(seg), !.ms = @ + Bound]
          /\ turns' = [turns EXCEPT ![s].seg = seg]
    /\ UNCHANGED cards

\* The two updates of the card table when the run is blocked twice are one: the
\* card of a budget revision is only ever created.
DispatchRefused(s, seg) ==
    /\ turns[s].live /\ turns[s].seg = "none" /\ seg # "none"
    /\ \/ /\ TurnGate(s) # "ok"
          /\ Park(TurnChecked(s), TurnGate(s))
          /\ turns' = Closed(s)
       \/ /\ TurnGate(s) = "ok"
          /\ \E code \in ReserveCodes(TurnChecked(s), turns[s].auto, Steps(seg)) \ {"ok"} :
                IF seg = "model"
                THEN /\ run' = Blocked(Blocked(TurnChecked(s), code), code)
                     /\ cards' = BlockedCards(TurnChecked(s), code)
                     /\ turns' = Closed(s)
                ELSE /\ Park(TurnChecked(s), code)
                     /\ UNCHANGED turns
    /\ UNCHANGED budget

Call(s, seg) ==
    /\ Up
    /\ Dispatch(s, seg) \/ DispatchRefused(s, seg)
    /\ auth' = TurnAuth(s)
    /\ UNCHANGED <<safe_auto, conts, unsafe, phase, boot, turnNo, stopping, resumes, history>>

\* Variant: the segment is not marked settled, so the next settling gives back again.
SettleAgain(s) ==
    /\ turns[s].seg # "none"
    /\ \E u \in 0..Bound :
          /\ budget' = [budget EXCEPT !.ms = @ + u - Bound]
          /\ spent' = spent + u
    /\ UNCHANGED <<safe_auto, run, auth, cards, conts, unsafe, phase, boot, turns, turnNo, stopping,
                   resumes, halted, opened>>

\* `settle_segment`, in the finally of the call: it took u of its bound.
Settle(s) ==
    /\ turns[s].seg # "none"
    /\ \E u \in 0..Bound :
          /\ budget' = [budget EXCEPT !.ms = @ + u - Bound]
          /\ spent' = spent + u
    /\ turns' = [turns EXCEPT ![s].seg = "none"]
    /\ UNCHANGED <<safe_auto, run, auth, cards, conts, unsafe, phase, boot, turnNo, stopping,
                   resumes, halted, opened>>

\* What the completion hook makes of the session's tree.
Projections(s) ==
    IF s = Root /\ \E k \in Kids : turns[k].live THEN {"waiting_children"}
    ELSE {"runnable", "waiting_children", "waiting_job", "needs_user", "completed"}

\* `finish`: the turn answered.  A runnable run queues its own next turn, under
\* the number of the turn of the session that finished.
FinishOk(s, p) ==
    LET r == TurnChecked(s)
        next == Moved(r, IF p = "runnable" THEN "ready" ELSE p, "other")
    IN  /\ TurnGate(s) = "ok"
        /\ run' = IF r.state \in Terminal THEN r ELSE next
        /\ conts' = IF p = "runnable" /\ safe_auto /\ r.state \notin Terminal
                    THEN Queued(conts, <<"turn", turnNo[s]>>, next) ELSE conts
        /\ UNCHANGED cards

Finish(s) ==
    /\ Up /\ turns[s].live /\ turns[s].seg = "none"
    /\ \/ \E p \in Projections(s) : FinishOk(s, p)
       \/ /\ TurnGate(s) # "ok"
          /\ Park(TurnChecked(s), TurnGate(s))
          /\ UNCHANGED conts
    /\ auth' = TurnAuth(s)
    /\ turns' = Closed(s)
    /\ UNCHANGED <<safe_auto, budget, unsafe, phase, boot, turnNo, stopping, resumes, history>>

\* finish_partial and the two early returns of the loop close the turn without
\* a word to the run; any other error goes through `park_failed_turn`.
TurnEnds(s) ==
    /\ Up /\ turns[s].live /\ turns[s].seg = "none"
    /\ \/ UNCHANGED <<run, cards>>
       \/ /\ run.state \in {"ready", "running"}
          /\ Park(run, "failed")
    /\ turns' = Closed(s)
    /\ UNCHANGED <<safe_auto, auth, budget, conts, unsafe, phase, boot, turnNo, stopping,
                   resumes, history>>

---------------------------------------------------------------------------
(* The owner.                                                               *)

\* The barrier of `stop` leaves a finished run alone; that of the owner's pause
\* and cancel does not look.
Stop(s) ==
    /\ Up /\ ~stopping
    /\ run' = Barred(run, s)
    /\ conts' = Turned(conts, "pending", "cancelled")
    /\ stopping' = TRUE
    /\ halted' = TRUE
    /\ UNCHANGED <<safe_auto, auth, budget, cards, unsafe, phase, boot, turns, turnNo, resumes,
                   spent, opened>>

OwnerStop ==
    \/ Live /\ Stop("paused")
    \/ /\ Up /\ ~stopping /\ ~Live
       /\ stopping' = TRUE
       /\ UNCHANGED <<safe_auto, run, auth, budget, cards, conts, unsafe, phase, boot, turns,
                      turnNo, resumes, history>>
OwnerPause == Stop("paused")
OwnerCancel == Stop("cancelled")

\* Configuring the run off bars it and cancels no task.
OwnerDisable ==
    /\ Up /\ Live
    /\ run' = Barred(run, "paused")
    /\ conts' = Turned(conts, "pending", "cancelled")
    /\ halted' = TRUE
    /\ UNCHANGED <<safe_auto, auth, budget, cards, unsafe, procVars, resumes, spent, opened>>

\* Variant: a cancelled call is not settled.
CutUnsettled(ss) ==
    LET tools == {s \in ss : turns[s].seg = "tool" /\ unsafe[s] = "none"}
    IN  /\ turns' = [s \in Sessions |-> IF s \in ss THEN NoTurn ELSE turns[s]]
        /\ UNCHANGED budget
        /\ \E u \in 0..(Bound * Cardinality(ss \cap Open)) : spent' = spent + u
        /\ \E cut \in SUBSET tools :
              unsafe' = [s \in Sessions |-> IF s \in cut THEN "open" ELSE unsafe[s]]

\* A task is cancelled: its open call settles, and a tool call it cut short
\* leaves its tool_start without an end.
Cut(ss) ==
    LET tools == {s \in ss : turns[s].seg = "tool" /\ unsafe[s] = "none"}
    IN  /\ turns' = [s \in Sessions |-> IF s \in ss THEN NoTurn ELSE turns[s]]
        /\ \E u \in 0..(Bound * Cardinality(ss \cap Open)) :
              /\ budget' = [budget EXCEPT !.ms = @ + u - Bound * Cardinality(ss \cap Open)]
              /\ spent' = spent + u
        /\ \E cut \in SUBSET tools :
              unsafe' = [s \in Sessions |-> IF s \in cut THEN "open" ELSE unsafe[s]]

\* `settle` of the pending card with its default choice, reject; the effect on
\* the run raises unless the run is over or still blocked on its budget.
CardClosable == ~Live \/ run.state \in {"budget_exhausted", "needs_user"}
CardsClosed == [b \in Revisions |-> IF cards[b].state = "pending"
                                    THEN [cards[b] EXCEPT !.state = "cancelled"] ELSE cards[b]]
RunAfterClosing == IF Asked /\ Live THEN Moved(run, "paused", run.reason) ELSE run

\* `stop` after its barrier: the children's turns, the pending card, the task.
\* An effect that raises leaves the card pending and the task running.
StopRest ==
    /\ phase = "up" /\ stopping
    /\ \/ /\ Asked => CardClosable
          /\ run' = RunAfterClosing
          /\ cards' = CardsClosed
          /\ Cut(Sessions)
       \/ /\ Asked /\ ~CardClosable
          /\ Cut(Kids)
          /\ UNCHANGED <<run, cards>>
    /\ stopping' = FALSE
    /\ UNCHANGED <<safe_auto, auth, conts, phase, boot, turnNo, resumes, halted, opened>>

\* `longtask_action` resume, then its own gate and the queue.
OwnerResume ==
    /\ Up /\ resumes < MaxOwner
    /\ run.state \notin Terminal \cup {"budget_exhausted", "needs_user"}
    /\ resumes' = resumes + 1
    /\ halted' = FALSE
    /\ LET r == Moved(run, "ready", "other")
           pinned == IF auth = "goal" THEN Repinned(r) ELSE r
           code == IF auth = "scope" THEN "stale" ELSE
                   IF Asked THEN "pending" ELSE
                   IF Interruption THEN "unsafe" ELSE "ok"
       IN  /\ auth' = IF auth = "goal" THEN "same" ELSE auth
           /\ IF code = "ok"
              THEN /\ run' = pinned
                   /\ conts' = IF safe_auto THEN Queued(conts, <<"owner", resumes'>>, pinned) ELSE conts
                   /\ UNCHANGED cards
              ELSE /\ Park(pinned, code)
                   /\ UNCHANGED conts
    /\ UNCHANGED <<safe_auto, budget, unsafe, procVars, spent, opened>>

\* The owner has looked at the receipt of the interrupted call, or accepts the
\* work as done: both need the pinned binding to be the current one.
Inspectable == Up /\ auth = "same" /\ run.state \in {"ready", "needs_user", "paused", "interrupted"}

OwnerInspect ==
    /\ Inspectable /\ \E s \in Sessions : unsafe[s] = "receipt"
    /\ unsafe' = [s \in Sessions |-> IF unsafe[s] = "receipt" THEN "none" ELSE unsafe[s]]
    /\ run' = Moved(run, "ready", "other")
    /\ halted' = FALSE
    /\ UNCHANGED <<safe_auto, auth, budget, cards, conts, procVars, resumes, spent, opened>>

OwnerAccept ==
    /\ Inspectable
    /\ run' = Moved(run, "completed", "other")
    /\ UNCHANGED <<safe_auto, auth, budget, cards, conts, unsafe, procVars, resumes, history>>

\* PUT of the configuration pins the run to the current contract and scope.
OwnerRepin ==
    /\ Up /\ Live
    /\ run' = Repinned(run)
    /\ auth' = "same"
    /\ UNCHANGED <<safe_auto, budget, cards, conts, unsafe, procVars, resumes, history>>

\* The project, the permissions or the workspace of the session change.
ScopeChanges ==
    /\ Up /\ Live /\ auth # "scope"
    /\ auth' = "scope"
    /\ UNCHANGED <<safe_auto, run, budget, cards, conts, unsafe, procVars, resumes, history>>

\* The owner answers the budget card.  It was bound to the stop epoch it was
\* asked under, and its effect needs a run still blocked on its budget.
Answerable(b) ==
    /\ cards[b].state = "pending" /\ Live /\ cards[b].stop = run.stop
    /\ run.state \in {"budget_exhausted", "needs_user"}

\* Variant: the extension leaves the revision of the budget as it is.
OwnerAnswerUnmarked(extend) ==
    /\ Up /\ Answerable(budget.rev)
    /\ IF extend
       THEN /\ run' = Moved(run, "ready", "other")
            /\ budget' = [budget EXCEPT !.stepLimit = 2 * @, !.timeLimit = 2 * @]
            /\ cards' = [cards EXCEPT ![budget.rev].state = "approved"]
       ELSE /\ run' = Moved(run, "paused", run.reason)
            /\ cards' = [cards EXCEPT ![budget.rev].state = "rejected"]
            /\ UNCHANGED budget
    /\ UNCHANGED <<safe_auto, auth, conts, unsafe, procVars, resumes, history>>

OwnerAnswer(extend) ==
    /\ Up /\ Answerable(budget.rev)
    /\ IF extend
       THEN /\ budget.rev <= MaxGrant
            /\ run' = Moved(run, "ready", "other")
            /\ budget' = [budget EXCEPT !.rev = @ + 1, !.stepLimit = 2 * @, !.timeLimit = 2 * @]
            /\ cards' = [cards EXCEPT ![budget.rev].state = "approved"]
       ELSE /\ run' = Moved(run, "paused", run.reason)
            /\ cards' = [cards EXCEPT ![budget.rev].state = "rejected"]
            /\ UNCHANGED budget
    /\ UNCHANGED <<safe_auto, auth, conts, unsafe, procVars, resumes, history>>

---------------------------------------------------------------------------
(* The pump and the process.                                                *)

\* The process dies.  Nothing of the turns is settled: their bounds stay spent.
Dies ==
    LET tools == {s \in Sessions : turns[s].seg = "tool" /\ unsafe[s] = "none"}
    IN  /\ phase' = "down"
        /\ turns' = [s \in Sessions |-> NoTurn]
        /\ stopping' = FALSE
        /\ \E u \in 0..(Bound * Cardinality(Open)) : spent' = spent + u
        /\ \E cut \in SUBSET tools :
              unsafe' = [s \in Sessions |-> IF s \in cut THEN "open" ELSE unsafe[s]]

Crash ==
    /\ phase # "down" /\ boot < MaxBoot
    /\ Dies
    /\ UNCHANGED <<safe_auto, run, auth, budget, cards, conts, boot, turnNo, resumes, halted, opened>>

\* One row of `pump`: gate, then the fence of the row.
PumpRefused(c) ==
    LET code == IF Gate(TRUE) # "ok" THEN Gate(TRUE) ELSE
                IF conts[c].rev # run.rev \/ conts[c].stop # run.stop THEN "stale" ELSE "ok"
    IN  /\ code # "ok"
        /\ Park(run, code)
        /\ UNCHANGED <<conts, turns, turnNo, phase, stopping, spent, unsafe, opened>>

\* The admission is committed before `start` looks at the lease.
PumpAdmits(c) ==
    /\ Gate(TRUE) = "ok" /\ Admissible(conts[c], run)
    /\ conts' = [conts EXCEPT ![c].state = "admitted"]
    /\ \/ /\ Admit(Root, TRUE, "ok", run)
          /\ opened' = opened \cup {c}
          /\ UNCHANGED <<phase, stopping, spent, unsafe>>
       \/ /\ ~Claimable(run, boot)
          /\ run' = Blocked(Blocked(run, "lease"), "lease")
          /\ UNCHANGED <<cards, turns, turnNo, phase, stopping, spent, unsafe, opened>>
       \/ /\ boot < MaxBoot
          /\ Dies
          /\ UNCHANGED <<run, cards, turnNo, opened>>

Pump(c) ==
    /\ Up /\ Live /\ ~Busy /\ conts[c].state = "pending" /\ turnNo[Root] < MaxTurn
    /\ PumpRefused(c) \/ PumpAdmits(c)
    /\ UNCHANGED <<safe_auto, auth, budget, boot, resumes, halted>>

\* A graceful end stops every session this process opened a turn in, without
\* the barrier, so a pending card is settled like in any stop.
Shutdown ==
    /\ phase = "up" /\ Room /\ ~stopping /\ boot < MaxBoot
    /\ \/ Asked /\ CardClosable /\ run' = RunAfterClosing /\ cards' = CardsClosed
       \/ UNCHANGED <<run, cards>>
    /\ Cut(Sessions)
    /\ phase' = "down"
    /\ UNCHANGED <<safe_auto, auth, conts, boot, turnNo, stopping, resumes, halted, opened>>

\* Variant: a restart admits again what was admitted when the process died.
BootRequeues ==
    /\ phase = "down" /\ run.rev + 3 <= MaxRev
    /\ phase' = "recovering"
    /\ boot' = boot + 1
    /\ unsafe' = IF Live /\ unsafe[Root] = "open" THEN [unsafe EXCEPT ![Root] = "receipt"] ELSE unsafe
    /\ run' = Interrupted(run)
    /\ conts' = Turned(conts, "admitted", "pending")
    /\ UNCHANGED <<safe_auto, auth, budget, cards, turns, turnNo, stopping, resumes, history>>

\* The next process: `reconcile` writes the receipt of the root's cut call, then
\* `recover` of the store settles the outbox and the run.
Boot ==
    /\ phase = "down" /\ run.rev + 3 <= MaxRev
    /\ phase' = "recovering"
    /\ boot' = boot + 1
    /\ unsafe' = IF Live /\ unsafe[Root] = "open" THEN [unsafe EXCEPT ![Root] = "receipt"] ELSE unsafe
    /\ run' = Interrupted(run)
    /\ conts' = Turned(conts, "admitted", "interrupted")
    /\ UNCHANGED <<safe_auto, auth, budget, cards, turns, turnNo, stopping, resumes, history>>

\* The loop of `recover` over interrupted runs.
RecoverManual ==
    /\ run' = Barred(run, "paused")
    /\ conts' = Turned(conts, "pending", "cancelled")
    /\ halted' = TRUE
    /\ UNCHANGED cards

RecoverAuto ==
    /\ \/ /\ Gate(TRUE) = "ok"
          /\ run' = Moved(run, "ready", "other")
          /\ conts' = Queued(conts, <<"restart", run.lease>>, run')
          /\ UNCHANGED cards
       \/ /\ Park(run, IF Gate(TRUE) = "ok" THEN "projection" ELSE Gate(TRUE))
          /\ UNCHANGED conts
    /\ UNCHANGED halted

Recover ==
    /\ phase = "recovering" /\ Room /\ run.lease <= MaxLease
    /\ phase' = "up"
    /\ \/ run.state # "interrupted" /\ UNCHANGED <<run, cards, conts, halted>>
       \/ run.state = "interrupted" /\ ~safe_auto /\ RecoverManual
       \/ run.state = "interrupted" /\ safe_auto /\ RecoverAuto
    /\ UNCHANGED <<safe_auto, auth, budget, unsafe, boot, turns, turnNo, stopping, resumes,
                   spent, opened>>

---------------------------------------------------------------------------
TurnStep(s) == \/ \E seg \in Segs : Call(s, seg)
               \/ Settle(s) \/ Finish(s) \/ TurnEnds(s)

OwnerStep == \/ OwnerTurn \/ OwnerStop \/ OwnerPause \/ OwnerCancel \/ OwnerDisable
             \/ OwnerResume \/ OwnerInspect \/ OwnerAccept \/ OwnerRepin
             \/ \E extend \in BOOLEAN : OwnerAnswer(extend)

ProcessStep == \/ Crash \/ Shutdown \/ Boot \/ Recover \/ StopRest \/ ScopeChanges
               \/ \E c \in Keys : Pump(c)

Next == \/ \E s \in Sessions : TurnStep(s)
        \/ \E k \in Kids : KidTurn(k)
        \/ OwnerStep \/ ProcessStep

Spec == Init /\ [][Next]_vars

---------------------------------------------------------------------------
(* What must hold.                                                          *)

Held == Bound * Cardinality(Open)
Started == IF phase = "down" THEN boot ELSE boot - 1      \* processes that have ended

\* The time calls really took, over every process, stays inside the limit with
\* the checkpoint reserve to spare: a crash never gives a hold back, and two
\* sessions never hand out the same remainder (longtask_store.py:317-326, 336-342).
BudgetHolds ==
    /\ spent + Held <= budget.ms
    /\ budget.ms = 0 \/ budget.ms + Reserve <= budget.timeLimit
    /\ budget.steps = 0 \/ budget.steps + 1 <= budget.stepLimit

\* What a call did not use comes back, however the call ends: the owner is charged
\* for time nobody worked only once for each call a process died under, whether
\* the call answered, was cancelled or was cut by a shutdown (longtask_store.py:328-344).
UnusedReturned == budget.ms <= spent + Held + Bound * Cardinality(Sessions) * Started

Granted == {b \in Revisions : cards[b].state = "approved"}

LimitsStay ==
    /\ Granted' = Granted /\ budget'.rev = budget.rev
    /\ budget'.stepLimit = budget.stepLimit /\ budget'.timeLimit = budget.timeLimit

LimitsDoubled ==
    /\ cards[budget.rev].state = "pending" /\ Granted' = Granted \cup {budget.rev}
    /\ budget'.rev = budget.rev + 1
    /\ budget'.stepLimit = 2 * budget.stepLimit /\ budget'.timeLimit = 2 * budget.timeLimit

\* The limits only grow by the owner's answer to the pending card of their revision,
\* by what they were when it was asked, and never twice for it, whatever becomes of
\* the card in between (longtask_runtime.py:219, 257-260, 276-280).
GrantedOnce == [][LimitsStay \/ LimitsDoubled]_vars

\* From a stop until the owner's next word nothing is dispatched and nothing is
\* admitted, whatever was in flight, queued or restarted in between
\* (longtask_store.py:167-172, longtask_runtime.py:125-143).
StopHolds ==
    [][halted /\ halted' => /\ \A s \in Sessions : turns'[s].seg # "none" => turns[s].seg # "none"
                            /\ opened' = opened]_vars

\* A continuation opens one turn at most, across every crash between its
\* admission and its turn (longtask_store.py:359-360, longtask_runtime.py:420-424).
OpensOnce ==
    [][\A c \in Keys : conts[c].state # "admitted" /\ conts'[c].state = "admitted" => c \notin opened]_vars

\* A turn whose snapshot passes the fence works under the lease of this process,
\* though stops, resumes and refused starts of other turns move the lease and the
\* snapshot in between (longtask_store.py:292-302, longtask_runtime.py:125-128).
FencedByLease ==
    \A s \in Sessions : turns[s].live /\ Fenced(s) => run.owner = boot

\* The budget of the run keeps the promise of TaskBudget.
Budget == INSTANCE TaskBudget WITH Margin <- Reserve, limit <- budget.timeLimit,
                                   charged <- budget.ms - Held, held <- Held
BudgetKept == Budget!Spec

(* What the repository says of the program and the program does not do.     *)

\* runtime.py:2266, "A stopped session must never leave a decision hanging": when a
\* stop is through, no budget card is pending.
StopClosesCards ==
    [][stopping /\ ~stopping' /\ phase' = "up" => \A b \in Revisions : cards'[b].state # "pending"]_vars

\* server.py:637-638, the outbox is durable, so a bad tick of the pump only defers
\* work: a row the pump takes out of the outbox has its turn, unless the process dies.
TickOnlyDefers ==
    [][\A c \in Keys : conts[c].state = "pending" /\ conts'[c].state = "admitted" /\ phase' = "up"
                       => c \in opened']_vars
=============================================================================
