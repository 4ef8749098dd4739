--------------------------- MODULE Longtask_proofs ---------------------------
(***************************************************************************)
(* Theorems about Longtask, for any children, budget and bounds.  The two   *)
(* halves of the argument are independent: what a step does to the budget   *)
(* and the open calls (BudgetMove), and what it does to the fence of the    *)
(* run and the snapshots of the turns (FenceMove).                          *)
(***************************************************************************)
EXTENDS Longtask, FiniteSetTheorems, TLAPS

Budgets == [rev : Revisions, steps : Nat, ms : Nat, stepLimit : Nat, timeLimit : Nat]
Cards == [Revisions -> [state : CardStates, stop : Nat]]
Conts == [Keys -> [state : ContStates, rev : Nat, stop : Nat]]
TurnRows == [live : BOOLEAN, stop : Nat, lease : Nat, auto : BOOLEAN, seg : Segs]

---------------------------------------------------------------------------
(* The row operators keep the type of what they update.                     *)

LEMMA RowFields ==
    ASSUME NEW r \in Runs
    PROVE  /\ r.state \in States /\ r.rev + 1 \in Nat /\ r.stop + 1 \in Nat /\ r.lease + 1 \in Nat
           /\ r.lease + 0 \in Nat /\ 0 \in 0..MaxBoot /\ r.reason \in {"other", "stale"}
BY CounterAssumption DEF Runs

LEMMA RowTypes ==
    ASSUME NEW r \in Runs
    PROVE  /\ \A s \in States, why \in {"other", "stale"} : Moved(r, s, why) \in Runs
           /\ \A s \in States : Barred(r, s) \in Runs
           /\ Repinned(r) \in Runs
           /\ \A b \in 0..MaxBoot : Claimed(r, b) \in Runs
           /\ Interrupted(r) \in Runs
           /\ \A code : Blocked(r, code) \in Runs
<1>1. \A s \in States, why \in {"other", "stale"} : Moved(r, s, why) \in Runs
  BY RowFields, Zenon DEF Moved, Runs
<1>2. \A s \in States : Barred(r, s) \in Runs
  BY RowFields, Zenon DEF Barred, Runs
<1>3. Repinned(r) \in Runs
  <2>1. "ready" \in States /\ "other" \in {"other", "stale"}
    BY DEF States
  <2>2. \A s \in States, why \in {"other", "stale"} :
           [r EXCEPT !.rev = @ + 1, !.state = s, !.reason = why] \in Runs
    BY RowFields, Zenon DEF Runs
  <2> QED
    BY <2>1, <2>2, RowFields, Zenon DEF Repinned
<1>4. \A b \in 0..MaxBoot : Claimed(r, b) \in Runs
  BY RowFields, Zenon DEF Claimed, Runs
<1>5. Interrupted(r) \in Runs
  BY RowFields, Zenon DEF Interrupted, Runs, States
<1>6. \A code : Blocked(r, code) \in Runs
  BY <1>1, Zenon DEF Blocked, BlockState, States
<1> QED
  BY <1>1, <1>2, <1>3, <1>4, <1>5, <1>6

\* The fence of a run: only Barred, Claimed and Interrupted touch it.
Fence(r) == <<r.stop, r.lease, r.owner>>

LEMMA RowFences ==
    ASSUME NEW r \in Runs
    PROVE  /\ \A s, st : Fence(Moved(r, s, st)) = Fence(r) /\ Moved(r, s, st).state = s
           /\ \A s : /\ Barred(r, s).stop = r.stop + 1 /\ Barred(r, s).lease = r.lease + 1
                     /\ Barred(r, s).state = s
           /\ Fence(Repinned(r)) = Fence(r)
           /\ Repinned(r).state = r.state \/ r.state = "needs_user"
           /\ \A b : /\ Claimed(r, b).stop = r.stop /\ Claimed(r, b).owner = b
                     /\ Claimed(r, b).lease \in {r.lease, r.lease + 1}
                     /\ Claimed(r, b).state = r.state
           /\ Interrupted(r).state = r.state \/ r.state = "running"
           /\ \A code : Fence(Blocked(r, code)) = Fence(r)
           /\ \A code : r.state \in Terminal \cup {"paused"} => Blocked(r, code) = r
<1>1. \A s, st : Fence(Moved(r, s, st)) = Fence(r) /\ Moved(r, s, st).state = s
  BY DEF Moved, Runs, Fence
<1>2. \A s : /\ Barred(r, s).stop = r.stop + 1 /\ Barred(r, s).lease = r.lease + 1
             /\ Barred(r, s).state = s
  BY DEF Barred, Runs
<1>3. /\ Fence(Repinned(r)) = Fence(r)
      /\ Repinned(r).state = r.state \/ r.state = "needs_user"
  BY DEF Repinned, Runs, Fence
<1>4. \A b : /\ Claimed(r, b).stop = r.stop /\ Claimed(r, b).owner = b
             /\ Claimed(r, b).lease \in {r.lease, r.lease + 1}
             /\ Claimed(r, b).state = r.state
  BY DEF Claimed, Runs
<1>5. Interrupted(r).state = r.state \/ r.state = "running"
  BY DEF Interrupted, Runs
<1>6. /\ \A code : Fence(Blocked(r, code)) = Fence(r)
      /\ \A code : r.state \in Terminal \cup {"paused"} => Blocked(r, code) = r
  BY <1>1 DEF Blocked, Blocks
<1> QED
  BY <1>1, <1>2, <1>3, <1>4, <1>5, <1>6

LEMMA ContTypes ==
    ASSUME NEW cs \in Conts, NEW r \in Runs
    PROVE  /\ \A key : Queued(cs, key, r) \in Conts
           /\ \A s, t \in ContStates : Turned(cs, s, t) \in Conts
BY DEF Queued, Turned, Conts, Runs, ContStates

\* What `queue` and the two bulk updates of the outbox do to one row.
LEMMA ContMoves ==
    ASSUME NEW cs \in Conts, NEW r, NEW c \in Keys
    PROVE  /\ \A key : \/ Queued(cs, key, r)[c] = cs[c]
                       \/ cs[c].state = "none" /\ Queued(cs, key, r)[c].state = "pending"
           /\ \A s, t \in ContStates : Turned(cs, s, t)[c].state = IF cs[c].state = s THEN t ELSE cs[c].state
BY DEF Queued, Turned, Conts

---------------------------------------------------------------------------
(* Turns.  TurnRules is what the scheduling of turns rests on: a turn that  *)
(* is not live has no call, and no turn is live outside a running process.  *)

TurnRules ==
    /\ \A s \in Sessions : ~turns[s].live => turns[s].seg = "none"
    /\ phase # "up" => \A s \in Sessions : ~turns[s].live
    /\ phase = "down" => boot < MaxBoot
    /\ boot >= 1

\* What the head of `start` may do to the turns and the fence.
LEMMA AdmitMoves ==
    ASSUME TypeOK, TurnRules, NEW s \in Sessions, NEW auto, NEW code, NEW r \in Runs,
           Admit(s, auto, code, r)
    PROVE  /\ \A q \in Sessions : turns'[q].seg = turns[q].seg
           /\ \A q \in Sessions : q # s => turns'[q] = turns[q]
           /\ turns'[s].live /\ turns'[s].stop = run'.stop /\ turns'[s].lease = run'.lease
           /\ run' = Claimed(r, boot) /\ Claimable(r, boot) /\ cards' = cards
<1>1. turns \in [Sessions -> TurnRows]
  BY DEF TypeOK, TurnRows
<1>2. run' = Claimed(r, boot) /\ Claimable(r, boot) /\ cards' = cards
  BY DEF Admit
<1>3. CASE turns[s].live
  <2>1. turns' = [turns EXCEPT ![s].stop = run'.stop, ![s].lease = run'.lease, ![s].auto = auto]
    BY <1>3 DEF Admit
  <2> QED
    BY <1>1, <1>2, <1>3, <2>1, Zenon DEF TurnRows
<1>4. CASE ~turns[s].live
  <2>1. turns' = Snapshot(s, run', auto)
    BY <1>4 DEF Admit
  <2>2. turns[s].seg = "none"
    BY <1>4 DEF TurnRules
  <2> QED
    BY <1>1, <1>2, <2>1, <2>2, Zenon DEF Snapshot
<1> QED
  BY <1>3, <1>4

LEMMA ClosedMoves ==
    ASSUME TypeOK, NEW s \in Sessions, turns' = Closed(s)
    PROVE  /\ turns'[s] = NoTurn
           /\ \A q \in Sessions : q # s => turns'[q] = turns[q]
BY DEF Closed, TypeOK

\* A cancelled set of tasks.
LEMMA CutMoves ==
    ASSUME TypeOK, NEW ss, Cut(ss)
    PROVE  /\ \A q \in Sessions : turns'[q] = IF q \in ss THEN NoTurn ELSE turns[q]
           /\ Open' = Open \ (ss \cap Open)
           /\ \E u \in 0..(Bound * Cardinality(ss \cap Open)) :
                 /\ budget' = [budget EXCEPT !.ms = @ + u - Bound * Cardinality(ss \cap Open)]
                 /\ spent' = spent + u
<1>1. \A q \in Sessions : turns'[q] = IF q \in ss THEN NoTurn ELSE turns[q]
  BY DEF Cut
<1>2. Open' = Open \ (ss \cap Open)
  BY <1>1 DEF Open, NoTurn
<1> QED
  BY <1>1, <1>2 DEF Cut

LEMMA DiesMoves ==
    ASSUME Dies
    PROVE  /\ \A q \in Sessions : turns'[q] = NoTurn
           /\ Open' = {}
           /\ phase' = "down"
           /\ \E u \in 0..(Bound * Cardinality(Open)) : spent' = spent + u
<1>1. \A q \in Sessions : turns'[q] = NoTurn
  BY DEF Dies
<1>2. Open' = {}
  BY <1>1 DEF Open, NoTurn
<1> QED
  BY <1>1, <1>2 DEF Dies

LEMMA OpenSame ==
    ASSUME \A q \in Sessions : turns'[q].seg = turns[q].seg
    PROVE  Open' = Open
BY DEF Open

LEMMA CheckedRows ==
    ASSUME TypeOK
    PROVE  /\ run \in Runs
           /\ \A a : Checked(a) \in Runs
           /\ \A s : TurnChecked(s) \in Runs
           /\ RunAfterClosing \in Runs
<1>1. run \in Runs
  BY DEF TypeOK
<1>2. \A a : Checked(a) \in Runs
  BY <1>1, RowTypes, Zenon DEF Checked
<1>3. \A s : TurnChecked(s) \in Runs
  BY <1>1, <1>2, Zenon DEF TurnChecked
<1>4. RunAfterClosing \in Runs
  BY <1>1, RowTypes, RowFields DEF RunAfterClosing, States
<1> QED
  BY <1>1, <1>2, <1>3, <1>4

---------------------------------------------------------------------------
(* The budget.  Every step leaves the account alone, opens one call, closes *)
(* some, loses all of them with the process, or extends the limits.         *)

Spending == <<budget, spent>>

Quiet == Open' = Open /\ Started' = Started /\ UNCHANGED Spending

Opens ==
    \E s \in Sessions \ Open :
        /\ Open' = Open \cup {s} /\ Started' = Started /\ spent' = spent
        /\ \E n \in {0, 1} : budget' = [budget EXCEPT !.steps = @ + n, !.ms = @ + Bound] /\ Fits(n)

Closes ==
    \E gone \in SUBSET Open : \E u \in 0..(Bound * Cardinality(gone)) :
        /\ Open' = Open \ gone /\ spent' = spent + u
        /\ budget' = [budget EXCEPT !.ms = @ + u - Bound * Cardinality(gone)]
        /\ Started' \in {Started, Started + 1}

Loses ==
    /\ Open' = {} /\ budget' = budget /\ Started' = Started + 1
    /\ \E u \in 0..(Bound * Cardinality(Open)) : spent' = spent + u

Extends ==
    /\ Open' = Open /\ Started' = Started /\ spent' = spent
    /\ budget.rev <= MaxGrant
    /\ budget' = [budget EXCEPT !.rev = @ + 1, !.stepLimit = 2 * @, !.timeLimit = 2 * @]

BudgetMove == Quiet \/ Opens \/ Closes \/ Loses \/ Extends

LEMMA StartedSame ==
    ASSUME UNCHANGED <<phase, boot>>
    PROVE  Started' = Started
BY DEF Started

LEMMA OneGone ==
    ASSUME NEW s
    PROVE  Cardinality({s}) = 1
BY FS_Singleton

LEMMA TurnBudget ==
    ASSUME TypeOK, TurnRules, NEW s \in Sessions, TurnStep(s)
    PROVE  BudgetMove
<1>0. budget \in Budgets /\ turns \in [Sessions -> TurnRows] /\ Bound \in Nat
  BY TaskAssumption DEF TypeOK, Budgets, TurnRows
<1>1. ASSUME NEW seg \in Segs, Call(s, seg) PROVE BudgetMove
  <2>0. UNCHANGED <<phase, boot, spent>>
    BY <1>1 DEF Call, history
  <2>1. CASE Dispatch(s, seg)
    <3>1. turns' = [turns EXCEPT ![s].seg = seg] /\ turns[s].seg = "none" /\ seg # "none"
      BY <2>1 DEF Dispatch
    <3>2. Open' = Open \cup {s} /\ s \in Sessions \ Open
      BY <1>0, <3>1 DEF Open, TurnRows
    <3>3. Steps(seg) \in {0, 1} /\ Fits(Steps(seg))
      BY <2>1, Zenon DEF Dispatch, ReserveCodes, Steps
    <3>4. budget' = [budget EXCEPT !.steps = @ + Steps(seg), !.ms = @ + Bound]
      BY <2>1 DEF Dispatch
    <3> QED
      BY <2>0, <3>2, <3>3, <3>4, StartedSame DEF BudgetMove, Opens
  <2>2. CASE DispatchRefused(s, seg)
    <3>1. budget' = budget
      BY <2>2 DEF DispatchRefused
    <3>2. turns[s].seg = "none" /\ (turns' = Closed(s) \/ turns' = turns)
      BY <2>2 DEF DispatchRefused
    <3>3. Open' = Open
      BY <3>2, ClosedMoves, OpenSame DEF NoTurn
    <3> QED
      BY <2>0, <3>1, <3>3, StartedSame DEF BudgetMove, Quiet, Spending
  <2> QED
    BY <1>1, <2>1, <2>2 DEF Call
<1>2. CASE Settle(s)
  <2>1. turns[s].seg # "none" /\ turns' = [turns EXCEPT ![s].seg = "none"] /\ UNCHANGED <<phase, boot>>
    BY <1>2 DEF Settle
  <2>2. Open' = Open \ {s} /\ {s} \in SUBSET Open
    BY <1>0, <2>1 DEF Open, TurnRows
  <2>3. Bound * Cardinality({s}) = Bound
    BY <1>0, OneGone
  <2>4. PICK u \in 0..Bound : budget' = [budget EXCEPT !.ms = @ + u - Bound] /\ spent' = spent + u
    BY <1>2 DEF Settle
  <2>5. u \in 0..(Bound * Cardinality({s}))
    BY <2>3
  <2>6. budget' = [budget EXCEPT !.ms = @ + u - Bound * Cardinality({s})]
    BY <2>3, <2>4
  <2>7. Started' \in {Started, Started + 1}
    BY <2>1, StartedSame
  <2> QED
    BY <2>2, <2>4, <2>5, <2>6, <2>7 DEF BudgetMove, Closes
<1>3. CASE Finish(s) \/ TurnEnds(s)
  <2>1. turns[s].seg = "none" /\ turns' = Closed(s) /\ UNCHANGED <<budget, spent, phase, boot>>
    BY <1>3 DEF Finish, TurnEnds, history
  <2>2. Open' = Open
    BY <2>1, ClosedMoves, OpenSame DEF NoTurn
  <2> QED
    BY <2>1, <2>2, StartedSame DEF BudgetMove, Quiet, Spending
<1> QED
  BY <1>1, <1>2, <1>3 DEF TurnStep

\* A step that leaves the calls, the account and the process alone.
LEMMA QuietTurns ==
    ASSUME UNCHANGED <<turns, budget, spent, phase, boot>>
    PROVE  BudgetMove
BY StartedSame DEF BudgetMove, Quiet, Spending, Open

LEMMA StartBudget ==
    ASSUME TypeOK, TurnRules, OwnerTurn \/ \E k \in Kids : KidTurn(k)
    PROVE  BudgetMove
<1>1. UNCHANGED <<budget, spent, phase, boot>>
  BY DEF OwnerTurn, KidTurn, history
<1>2. \/ turns' = turns
      \/ \E s \in Sessions : \E a, c : Admit(s, a, c, Checked(FALSE))
  BY DEF OwnerTurn, KidTurn, Refuse, Sessions
<1>3. Open' = Open
  BY <1>2, AdmitMoves, CheckedRows, OpenSame
<1> QED
  BY <1>1, <1>3, StartedSame DEF BudgetMove, Quiet, Spending

LEMMA OwnerBudget ==
    ASSUME TypeOK, TurnRules, OwnerStep, ~OwnerTurn
    PROVE  BudgetMove
<1>1. CASE OwnerStop \/ OwnerPause \/ OwnerCancel \/ OwnerDisable
  BY <1>1, QuietTurns DEF OwnerStop, OwnerPause, OwnerCancel, OwnerDisable, Stop, procVars, history
<1>2. CASE OwnerResume \/ OwnerInspect \/ OwnerAccept \/ OwnerRepin
  BY <1>2, QuietTurns DEF OwnerResume, OwnerInspect, OwnerAccept, OwnerRepin, procVars, history
<1>3. ASSUME NEW extend \in BOOLEAN, OwnerAnswer(extend) PROVE BudgetMove
  <2>1. UNCHANGED <<turns, spent, phase, boot>>
    BY <1>3 DEF OwnerAnswer, procVars, history
  <2>2. \/ budget' = budget
        \/ /\ budget.rev <= MaxGrant
           /\ budget' = [budget EXCEPT !.rev = @ + 1, !.stepLimit = 2 * @, !.timeLimit = 2 * @]
    BY <1>3 DEF OwnerAnswer
  <2>3. Open' = Open
    BY <2>1 DEF Open
  <2> QED
    BY <2>1, <2>2, <2>3, StartedSame DEF BudgetMove, Quiet, Spending, Extends
<1> QED
  BY <1>1, <1>2, <1>3 DEF OwnerStep

LEMMA LosesBudget ==
    ASSUME TypeOK, Dies, phase # "down", UNCHANGED <<budget, boot>>
    PROVE  BudgetMove
<1>1. Started' = Started + 1
  BY DiesMoves DEF Started, TypeOK
<1> QED
  BY <1>1, DiesMoves DEF BudgetMove, Loses

LEMMA CutBudget ==
    ASSUME TypeOK, TurnRules, NEW ss, Cut(ss), phase = "up", phase' \in {"up", "down"}, boot' = boot
    PROVE  BudgetMove
<1>1. Started' \in {Started, Started + 1}
  BY DEF Started, TypeOK
<1>2. ss \cap Open \in SUBSET Open
  OBVIOUS
<1> QED
  BY <1>1, <1>2, CutMoves DEF BudgetMove, Closes

LEMMA ProcessBudget ==
    ASSUME TypeOK, TurnRules, ProcessStep
    PROVE  BudgetMove
<1>1. CASE Crash
  BY <1>1, LosesBudget DEF Crash
<1>2. CASE Shutdown
  BY <1>2, CutBudget DEF Shutdown
<1>3. CASE Boot
  <2>1. Started' = Started
    BY <1>3 DEF Boot, Started, TypeOK
  <2> QED
    BY <1>3, <2>1 DEF Boot, BudgetMove, Quiet, Spending, Open, history
<1>4. CASE Recover
  <2>1. Started' = Started
    BY <1>4 DEF Recover, Started
  <2> QED
    BY <1>4, <2>1 DEF Recover, BudgetMove, Quiet, Spending, Open
<1>5. CASE StopRest
  <2>1. PICK ss : Cut(ss)
    BY <1>5 DEF StopRest
  <2> QED
    BY <1>5, <2>1, CutBudget DEF StopRest
<1>6. CASE ScopeChanges
  BY <1>6, QuietTurns DEF ScopeChanges, procVars, history
<1>7. ASSUME NEW c \in Keys, Pump(c) PROVE BudgetMove
  <2>0. UNCHANGED <<budget, boot>> /\ phase = "up"
    BY <1>7 DEF Pump, Up
  <2>1. CASE PumpRefused(c)
    BY <2>0, <2>1, QuietTurns DEF PumpRefused
  <2>2. CASE PumpAdmits(c) /\ phase' = phase /\ spent' = spent
    <3>1. turns' = turns \/ Admit(Root, TRUE, "ok", run)
      BY <2>0, <2>2 DEF PumpAdmits, Dies
    <3>2. Open' = Open
      BY <3>1, AdmitMoves, CheckedRows, OpenSame DEF Sessions
    <3> QED
      BY <2>0, <2>2, <3>2, StartedSame DEF BudgetMove, Quiet, Spending
  <2>3. CASE PumpAdmits(c) /\ Dies
    BY <2>0, <2>3, LosesBudget
  <2> QED
    BY <1>7, <2>1, <2>2, <2>3 DEF Pump, PumpAdmits
<1> QED
  BY <1>1, <1>2, <1>3, <1>4, <1>5, <1>6, <1>7 DEF ProcessStep

LEMMA BudgetMoves ==
    ASSUME TypeOK, TurnRules, [Next]_vars
    PROVE  BudgetMove
<1>1. CASE UNCHANGED vars
  BY <1>1, QuietTurns DEF vars, procVars, history
<1>2. CASE Next
  BY <1>2, TurnBudget, StartBudget, OwnerBudget, ProcessBudget DEF Next
<1> QED
  BY <1>1, <1>2

\* The open calls are finitely many, and what is held for them is a product.
LEMMA OpenCalls ==
    /\ IsFiniteSet(Sessions) /\ IsFiniteSet(Open)
    /\ Cardinality(Sessions) \in Nat /\ Cardinality(Open) \in Nat
    /\ Cardinality(Open) <= Cardinality(Sessions)
<1>1. IsFiniteSet({Root})
  BY FS_Singleton
<1>2. IsFiniteSet(Sessions)
  BY <1>1, TaskAssumption, FS_Union DEF Sessions
<1>3. Open \subseteq Sessions
  BY DEF Open
<1> QED
  BY <1>2, <1>3, FS_Subset, FS_CardinalityType

LEMMA Products ==
    ASSUME NEW b \in Nat, NEW m \in Nat, NEW n \in Nat
    PROVE  /\ b * m \in Nat
           /\ b * (m + 1) = b * m + b
           /\ m <= n => b * (n - m) = b * n - b * m /\ b * m <= b * n
OBVIOUS

\* What is held after each kind of step.
LEMMA HeldAfter ==
    /\ Held \in Nat /\ Held <= Bound * Cardinality(Sessions)
    /\ Open' = Open => Held' = Held
    /\ Open' = {} => Held' = 0
    /\ \A s : s \notin Open /\ Open' = Open \cup {s} => Held' = Held + Bound
    /\ \A gone \in SUBSET Open : Open' = Open \ gone =>
          /\ Bound * Cardinality(gone) \in Nat /\ Bound * Cardinality(gone) <= Held
          /\ Held' = Held - Bound * Cardinality(gone)
<1>0. Bound \in Nat
  BY TaskAssumption
<1>1. Held \in Nat /\ Held <= Bound * Cardinality(Sessions)
  BY <1>0, OpenCalls, Products DEF Held
<1>2. Open' = Open => Held' = Held
  BY DEF Held
<1>3. ASSUME Open' = {} PROVE Held' = 0
  <2>1. Cardinality(Open') = 0
    BY <1>3, FS_EmptySet
  <2> QED
    BY <1>0, <2>1 DEF Held
<1>4. ASSUME NEW s, s \notin Open, Open' = Open \cup {s} PROVE Held' = Held + Bound
  <2>1. Cardinality(Open') = Cardinality(Open) + 1
    BY <1>4, OpenCalls, FS_AddElement
  <2> QED
    BY <1>0, <2>1, OpenCalls, Products DEF Held
<1>5. ASSUME NEW gone \in SUBSET Open, Open' = Open \ gone
      PROVE  /\ Bound * Cardinality(gone) \in Nat /\ Bound * Cardinality(gone) <= Held
             /\ Held' = Held - Bound * Cardinality(gone)
  <2>1. Cardinality(gone) \in Nat /\ Cardinality(gone) <= Cardinality(Open)
    BY OpenCalls, FS_Subset, FS_CardinalityType
  <2>2. Open \cap gone = gone
    OBVIOUS
  <2>3. Cardinality(Open') = Cardinality(Open) - Cardinality(gone)
    BY <1>5, <2>2, OpenCalls, FS_Difference
  <2> QED
    BY <1>0, <2>1, <2>3, OpenCalls, Products DEF Held
<1> QED
  BY <1>1, <1>2, <1>3, <1>4, <1>5

\* The fields of the account after a step.
LEMMA BudgetFields ==
    ASSUME budget \in Budgets
    PROVE  /\ Quiet => budget' = budget /\ spent' = spent
           /\ Loses => budget' = budget
           /\ Extends => /\ budget'.ms = budget.ms /\ budget'.steps = budget.steps
                         /\ budget'.timeLimit = 2 * budget.timeLimit
                         /\ budget'.stepLimit = 2 * budget.stepLimit
                         /\ budget'.rev = budget.rev + 1 /\ spent' = spent
BY DEF Quiet, Loses, Extends, Spending, Budgets

BudgetInv == BudgetHolds /\ UnusedReturned

LEMMA BudgetStep ==
    ASSUME TypeOK, BudgetInv, TurnRules, BudgetMove
    PROVE  BudgetInv' /\ budget' \in Budgets /\ spent' \in Nat
<1>0. /\ budget \in Budgets /\ spent \in Nat /\ Bound \in Nat /\ Reserve \in Nat /\ MaxGrant \in Nat
      /\ Started \in Nat /\ Bound * Cardinality(Sessions) \in Nat
  BY TaskAssumption, OpenCalls, Products DEF TypeOK, Budgets, TurnRules, Started
<1>1. CASE Quiet
  BY <1>0, <1>1, HeldAfter DEF Quiet, Spending, BudgetInv, BudgetHolds, UnusedReturned
<1> DEFINE all == Bound * Cardinality(Sessions)
<1>6. all * Started \in Nat /\ all * (Started + 1) = all * Started + all
  BY <1>0, Products
<1>2. CASE Opens
  <2>1. PICK s \in Sessions \ Open, n \in {0, 1} :
           /\ Open' = Open \cup {s} /\ Started' = Started /\ spent' = spent
           /\ budget' = [budget EXCEPT !.steps = @ + n, !.ms = @ + Bound] /\ Fits(n)
    BY <1>2 DEF Opens
  <2>2. Held' = Held + Bound
    BY <2>1, HeldAfter
  <2>3. /\ budget'.ms = budget.ms + Bound /\ budget'.steps = budget.steps + n
        /\ budget'.stepLimit = budget.stepLimit /\ budget'.timeLimit = budget.timeLimit
    BY <1>0, <2>1 DEF Budgets
  <2>4. budget.steps + n \in Nat /\ budget.ms + Bound \in Nat
    BY <1>0 DEF Budgets
  <2>5. budget' \in Budgets
    BY <1>0, <2>1, <2>4, Zenon DEF Budgets
  <2>6. BudgetHolds'
    BY <1>0, <2>1, <2>2, <2>3, HeldAfter DEF BudgetInv, BudgetHolds, Fits, Budgets
  <2>7. UnusedReturned'
    BY <1>0, <1>6, <2>1, <2>2, <2>3, HeldAfter DEF BudgetInv, UnusedReturned, Budgets
  <2> QED
    BY <1>0, <2>1, <2>5, <2>6, <2>7 DEF BudgetInv
<1>3. CASE Closes
  <2>0. PICK gone \in SUBSET Open : \E u \in 0..(Bound * Cardinality(gone)) :
           /\ Open' = Open \ gone /\ spent' = spent + u
           /\ budget' = [budget EXCEPT !.ms = @ + u - Bound * Cardinality(gone)]
           /\ Started' \in {Started, Started + 1}
    BY <1>3 DEF Closes
  <2>1. PICK u \in 0..(Bound * Cardinality(gone)) :
           /\ Open' = Open \ gone /\ spent' = spent + u
           /\ budget' = [budget EXCEPT !.ms = @ + u - Bound * Cardinality(gone)]
           /\ Started' \in {Started, Started + 1}
    BY <2>0
  <2> DEFINE h == Bound * Cardinality(gone)
  <2>2. h \in Nat /\ h <= Held /\ Held' = Held - h /\ u \in 0..h
        /\ Held \in Nat /\ spent' = spent + u /\ Started' \in {Started, Started + 1}
    BY <2>1, HeldAfter
  <2>3. /\ budget'.ms = budget.ms + u - h /\ budget'.steps = budget.steps
        /\ budget'.stepLimit = budget.stepLimit /\ budget'.timeLimit = budget.timeLimit
    BY <1>0, <2>1 DEF Budgets
  <2> HIDE DEF h
  <2>4. budget.ms + u - h \in Nat /\ budget.ms + u - h <= budget.ms
    BY <1>0, <2>2, HeldAfter DEF BudgetInv, BudgetHolds, Budgets
  <2>5. budget' \in Budgets
    BY <1>0, <2>1, <2>4, Zenon DEF Budgets, h
  <2>6. BudgetHolds'
    <3>1. /\ budget.ms = 0 \/ budget.ms + Reserve <= budget.timeLimit
          /\ budget.steps = 0 \/ budget.steps + 1 <= budget.stepLimit
          /\ spent + Held <= budget.ms
      BY DEF BudgetInv, BudgetHolds
    <3>2. spent' + Held' <= budget'.ms
      BY <1>0, <2>2, <2>3, <3>1 DEF Budgets
    <3>3. budget'.ms = 0 \/ budget'.ms + Reserve <= budget'.timeLimit
      BY <1>0, <2>2, <2>3, <2>4, <3>1 DEF Budgets
    <3> QED
      BY <2>3, <3>1, <3>2, <3>3 DEF BudgetHolds
  <2>7. UnusedReturned'
    <3>1. budget.ms <= spent + Held + all * Started
      BY DEF BudgetInv, UnusedReturned
    <3>2. budget'.ms <= spent' + Held' + all * Started'
      BY <1>0, <1>6, <2>2, <2>3, <3>1 DEF Budgets
    <3> QED
      BY <3>2 DEF UnusedReturned
  <2> QED
    BY <1>0, <2>1, <2>2, <2>5, <2>6, <2>7 DEF BudgetInv
<1>4. CASE Loses
  <2>1. PICK u \in 0..Held : spent' = spent + u
    BY <1>4 DEF Loses, Held
  <2>2. Open' = {} /\ budget' = budget /\ Started' = Started + 1 /\ Held' = 0
    BY <1>4, HeldAfter DEF Loses
  <2>3. BudgetHolds'
    BY <1>0, <2>1, <2>2, HeldAfter DEF BudgetInv, BudgetHolds, Budgets
  <2>4. UnusedReturned'
    BY <1>0, <1>6, <2>1, <2>2, HeldAfter DEF BudgetInv, UnusedReturned, Budgets
  <2> QED
    BY <1>0, <2>1, <2>2, <2>3, <2>4, HeldAfter DEF BudgetInv
<1>5. CASE Extends
  <2>1. /\ Held' = Held /\ Started' = Started /\ spent' = spent
        /\ budget'.ms = budget.ms /\ budget'.steps = budget.steps
        /\ budget'.timeLimit = 2 * budget.timeLimit /\ budget'.stepLimit = 2 * budget.stepLimit
    BY <1>0, <1>5, HeldAfter, BudgetFields DEF Extends
  <2>2. budget.rev + 1 \in Revisions /\ 2 * budget.stepLimit \in Nat /\ 2 * budget.timeLimit \in Nat
    BY <1>0, <1>5 DEF Extends, Budgets, Revisions
  <2>3. budget' \in Budgets
    BY <1>0, <1>5, <2>2, Zenon DEF Extends, Budgets
  <2>4. BudgetHolds'
    BY <1>0, <2>1, HeldAfter DEF BudgetInv, BudgetHolds, Budgets
  <2>5. UnusedReturned'
    BY <1>0, <2>1 DEF BudgetInv, UnusedReturned
  <2> QED
    BY <1>0, <2>1, <2>3, <2>4, <2>5 DEF BudgetInv
<1> QED
  BY <1>1, <1>2, <1>3, <1>4, <1>5 DEF BudgetMove

---------------------------------------------------------------------------
(* Type correctness.                                                        *)

\* TypeOK without the account, which BudgetStep types.
RestOK ==
    /\ safe_auto \in BOOLEAN /\ run \in Runs /\ auth \in {"same", "goal", "scope"}
    /\ cards \in Cards /\ conts \in Conts
    /\ unsafe \in [Sessions -> {"none", "open", "receipt"}]
    /\ phase \in {"down", "recovering", "up"} /\ boot \in 0..MaxBoot
    /\ turns \in [Sessions -> TurnRows] /\ turnNo \in [Sessions -> 0..MaxTurn]
    /\ stopping \in BOOLEAN /\ resumes \in 0..MaxOwner
    /\ halted \in BOOLEAN /\ opened \in SUBSET Keys

LEMMA TypeSplit == TypeOK <=> RestOK /\ budget \in Budgets /\ spent \in Nat
BY Zenon DEF TypeOK, RestOK, Budgets, Cards, Conts, TurnRows

LEMMA TypeSplitNext == TypeOK' <=> RestOK' /\ budget' \in Budgets /\ spent' \in Nat
BY Zenon DEF TypeOK, RestOK, Budgets, Cards, Conts, TurnRows

LEMMA TurnTypes ==
    ASSUME TypeOK, NEW s \in Sessions
    PROVE  /\ NoTurn \in TurnRows /\ Closed(s) \in [Sessions -> TurnRows]
           /\ \A seg \in Segs : [turns EXCEPT ![s].seg = seg] \in [Sessions -> TurnRows]
           /\ \A r \in Runs, a \in BOOLEAN :
                 /\ Snapshot(s, r, a) \in [Sessions -> TurnRows]
                 /\ [turns EXCEPT ![s].stop = r.stop, ![s].lease = r.lease, ![s].auto = a]
                       \in [Sessions -> TurnRows]
<1>1. turns \in [Sessions -> TurnRows] /\ 0 \in Nat
  BY DEF TypeOK, TurnRows
<1>2. NoTurn \in TurnRows
  BY DEF NoTurn, TurnRows, Segs
<1>3. Closed(s) \in [Sessions -> TurnRows]
  BY <1>1, <1>2 DEF Closed
<1>4. \A seg \in Segs : [turns EXCEPT ![s].seg = seg] \in [Sessions -> TurnRows]
  BY <1>1 DEF TurnRows
<1>5. ASSUME NEW r \in Runs, NEW a \in BOOLEAN
      PROVE  /\ Snapshot(s, r, a) \in [Sessions -> TurnRows]
             /\ [turns EXCEPT ![s].stop = r.stop, ![s].lease = r.lease, ![s].auto = a]
                   \in [Sessions -> TurnRows]
  <2>1. r.stop \in Nat /\ r.lease \in Nat
    BY DEF Runs
  <2>2. [live |-> TRUE, stop |-> r.stop, lease |-> r.lease, auto |-> a, seg |-> "none"] \in TurnRows
    BY <2>1, Zenon DEF TurnRows, Segs
  <2>3. Snapshot(s, r, a) \in [Sessions -> TurnRows]
    BY <1>1, <2>2, Zenon DEF Snapshot
  <2>4. [turns EXCEPT ![s].stop = r.stop, ![s].lease = r.lease, ![s].auto = a] \in [Sessions -> TurnRows]
    BY <1>1, <2>1, Zenon DEF TurnRows
  <2> QED
    BY <2>3, <2>4
<1> QED
  BY <1>2, <1>3, <1>4, <1>5

LEMMA CardTypes ==
    ASSUME TypeOK, NEW r \in Runs
    PROVE  /\ \A code : BlockedCards(r, code) \in Cards
           /\ CardsClosed \in Cards
           /\ \A b : \A st \in CardStates : [cards EXCEPT ![b].state = st] \in Cards
<1>1. cards \in Cards /\ r.stop \in Nat
  BY DEF TypeOK, Cards, Runs
<1>2. \A code : BlockedCards(r, code) \in Cards
  BY <1>1 DEF BlockedCards, Cards, CardStates
<1>3. CardsClosed \in Cards
  BY <1>1 DEF CardsClosed, Cards, CardStates
<1>4. \A b : \A st \in CardStates : [cards EXCEPT ![b].state = st] \in Cards
  BY <1>1, Zenon DEF Cards
<1> QED
  BY <1>2, <1>3, <1>4

LEMMA ParkTypes ==
    ASSUME TypeOK, NEW r \in Runs, NEW code, Park(r, code)
    PROVE  run' \in Runs /\ cards' \in Cards
BY RowTypes, CardTypes DEF Park

LEMMA AdmitTypes ==
    ASSUME TypeOK, NEW s \in Sessions, turnNo[s] < MaxTurn, NEW a \in BOOLEAN, NEW code,
           NEW r \in Runs, Admit(s, a, code, r)
    PROVE  /\ run' \in Runs /\ cards' \in Cards
           /\ turns' \in [Sessions -> TurnRows] /\ turnNo' \in [Sessions -> 0..MaxTurn]
<1>1. run' \in Runs /\ cards' = cards
  BY RowTypes DEF Admit, TypeOK
<1>2. cards' \in Cards
  BY <1>1 DEF TypeOK, Cards
<1>3. turns' \in [Sessions -> TurnRows]
  BY <1>1, TurnTypes, Zenon DEF Admit
<1>4. turnNo' \in [Sessions -> 0..MaxTurn]
  BY TaskAssumption DEF Admit, TypeOK
<1> QED
  BY <1>1, <1>2, <1>3, <1>4

LEMMA UnsafeTypes ==
    ASSUME TypeOK
    PROVE  /\ \A ss : Cut(ss) => unsafe' \in [Sessions -> {"none", "open", "receipt"}]
                                 /\ turns' \in [Sessions -> TurnRows]
           /\ Dies => unsafe' \in [Sessions -> {"none", "open", "receipt"}]
                      /\ turns' \in [Sessions -> TurnRows]
<1>1. /\ unsafe \in [Sessions -> {"none", "open", "receipt"}] /\ turns \in [Sessions -> TurnRows]
      /\ NoTurn \in TurnRows
  BY DEF TypeOK, NoTurn, TurnRows, Segs
<1>2. \A ss : Cut(ss) => unsafe' \in [Sessions -> {"none", "open", "receipt"}]
                         /\ turns' \in [Sessions -> TurnRows]
  BY <1>1, Zenon DEF Cut
<1>3. Dies => unsafe' \in [Sessions -> {"none", "open", "receipt"}] /\ turns' \in [Sessions -> TurnRows]
  BY <1>1, Zenon DEF Dies
<1> QED
  BY <1>2, <1>3

LEMMA AuthTypes ==
    ASSUME TypeOK
    PROVE  /\ auth \in {"same", "goal", "scope"}
           /\ \A a : AuthAfter(a) \in {"same", "goal", "scope"}
           /\ \A s : TurnAuth(s) \in {"same", "goal", "scope"}
<1>1. auth \in {"same", "goal", "scope"}
  BY DEF TypeOK
<1>2. \A a : AuthAfter(a) \in {"same", "goal", "scope"}
  BY <1>1, Zenon DEF AuthAfter
<1> QED
  BY <1>1, <1>2, Zenon DEF TurnAuth

LEMMA RestSame ==
    ASSUME TypeOK
    PROVE  /\ UNCHANGED safe_auto => safe_auto' \in BOOLEAN
           /\ UNCHANGED run => run' \in Runs
           /\ UNCHANGED auth => auth' \in {"same", "goal", "scope"}
           /\ UNCHANGED cards => cards' \in Cards
           /\ UNCHANGED conts => conts' \in Conts
           /\ UNCHANGED unsafe => unsafe' \in [Sessions -> {"none", "open", "receipt"}]
           /\ UNCHANGED phase => phase' \in {"down", "recovering", "up"}
           /\ UNCHANGED boot => boot' \in 0..MaxBoot
           /\ UNCHANGED turns => turns' \in [Sessions -> TurnRows]
           /\ UNCHANGED turnNo => turnNo' \in [Sessions -> 0..MaxTurn]
           /\ UNCHANGED stopping => stopping' \in BOOLEAN
           /\ UNCHANGED resumes => resumes' \in 0..MaxOwner
           /\ UNCHANGED halted => halted' \in BOOLEAN
           /\ UNCHANGED opened => opened' \in SUBSET Keys
BY Zenon DEF TypeOK, Cards, Conts, TurnRows

LEMMA StartTypes ==
    ASSUME TypeOK, OwnerTurn \/ \E k \in Kids : KidTurn(k)
    PROVE  RestOK'
<1>1. /\ UNCHANGED <<safe_auto, conts, unsafe, phase, boot, stopping, resumes, halted, opened>>
      /\ auth' \in {"same", "goal", "scope"}
  BY AuthTypes DEF OwnerTurn, KidTurn, history
<1>2. PICK s \in Sessions :
         /\ turnNo[s] < MaxTurn
         /\ \/ \E code : \E r \in Runs : Refuse(code, r)
            \/ \E code : \E r \in Runs : Admit(s, FALSE, code, r)
  BY CheckedRows DEF OwnerTurn, KidTurn, Sessions
<1>3. CASE \E code : \E r \in Runs : Refuse(code, r)
  <2>1. run' \in Runs /\ cards' \in Cards /\ UNCHANGED <<turns, turnNo>>
    BY <1>3, ParkTypes DEF Refuse
  <2> QED
    BY <1>1, <2>1, RestSame, Zenon DEF RestOK
<1>4. CASE \E code : \E r \in Runs : Admit(s, FALSE, code, r)
  <2>1. /\ run' \in Runs /\ cards' \in Cards
        /\ turns' \in [Sessions -> TurnRows] /\ turnNo' \in [Sessions -> 0..MaxTurn]
    BY <1>2, <1>4, AdmitTypes
  <2> QED
    BY <1>1, <2>1, RestSame, Zenon DEF RestOK
<1> QED
  BY <1>2, <1>3, <1>4

LEMMA TurnRest ==
    ASSUME TypeOK, NEW s \in Sessions, TurnStep(s)
    PROVE  RestOK'
<1>0. run \in Runs /\ TurnChecked(s) \in Runs
  BY CheckedRows
<1>1. ASSUME NEW seg \in Segs, Call(s, seg) PROVE RestOK'
  <2>1. /\ UNCHANGED <<safe_auto, conts, unsafe, phase, boot, turnNo, stopping, resumes, halted, opened>>
        /\ auth' \in {"same", "goal", "scope"}
    BY <1>1, AuthTypes DEF Call, history
  <2>2. CASE Dispatch(s, seg)
    <3>1. run' = [TurnChecked(s) EXCEPT !.state = "running"] /\ UNCHANGED cards
          /\ turns' = [turns EXCEPT ![s].seg = seg]
      BY <2>2 DEF Dispatch
    <3>2. run' \in Runs
      BY <1>0, <3>1 DEF Runs, States
    <3>3. turns' \in [Sessions -> TurnRows]
      <4>1. seg \in Segs
        BY <1>1
      <4> QED
        BY <3>1, <4>1, TurnTypes, Zenon
    <3> QED
      BY <2>1, <3>1, <3>2, <3>3, RestSame, Zenon DEF RestOK
  <2>3. CASE DispatchRefused(s, seg)
    <3>1. run' \in Runs /\ cards' \in Cards
      BY <1>0, <2>3, ParkTypes, RowTypes, CardTypes DEF DispatchRefused
    <3>2. turns' \in [Sessions -> TurnRows]
      <4>1. turns' = Closed(s) \/ UNCHANGED turns
        BY <2>3 DEF DispatchRefused
      <4> QED
        BY <4>1, TurnTypes, RestSame, Zenon
    <3> QED
      BY <2>1, <3>1, <3>2, RestSame, Zenon DEF RestOK
  <2> QED
    BY <1>1, <2>2, <2>3 DEF Call
<1>2. CASE Settle(s)
  <2>1. turns' \in [Sessions -> TurnRows]
    BY <1>2, TurnTypes DEF Settle, Segs
  <2>2. UNCHANGED <<safe_auto, run, auth, cards, conts, unsafe, phase, boot, turnNo, stopping,
                    resumes, halted, opened>>
    BY <1>2 DEF Settle
  <2> QED
    BY <2>1, <2>2, RestSame, Zenon DEF RestOK
<1>3. CASE Finish(s)
  <2>1. /\ UNCHANGED <<safe_auto, unsafe, phase, boot, turnNo, stopping, resumes, halted, opened>>
        /\ auth' \in {"same", "goal", "scope"} /\ turns' \in [Sessions -> TurnRows]
    BY <1>3, AuthTypes, TurnTypes DEF Finish, history
  <2>2. ASSUME NEW p \in Projections(s), FinishOk(s, p)
        PROVE  run' \in Runs /\ conts' \in Conts /\ cards' \in Cards
    <3> DEFINE next == Moved(TurnChecked(s), IF p = "runnable" THEN "ready" ELSE p, "other")
    <3>1. (IF p = "runnable" THEN "ready" ELSE p) \in States
      BY DEF Projections, States, Terminal
    <3>2. next \in Runs
      BY <1>0, <3>1, RowTypes
    <3>3. run' \in {TurnChecked(s), next} /\ UNCHANGED cards
      BY <2>2, Zenon DEF FinishOk
    <3>4. conts' = conts \/ \E key : conts' = Queued(conts, key, next)
      BY <2>2, Zenon DEF FinishOk
    <3> HIDE DEF next
    <3> QED
      BY <1>0, <3>2, <3>3, <3>4, ContTypes, RestSame DEF TypeOK, Conts
  <2>3. ASSUME Park(TurnChecked(s), TurnGate(s)), UNCHANGED conts
        PROVE  run' \in Runs /\ conts' \in Conts /\ cards' \in Cards
    BY <1>0, <2>3, ParkTypes, RestSame
  <2>4. run' \in Runs /\ conts' \in Conts /\ cards' \in Cards
    BY <1>3, <2>2, <2>3 DEF Finish
  <2> QED
    BY <2>1, <2>4, RestSame, Zenon DEF RestOK
<1>4. CASE TurnEnds(s)
  <2>1. /\ UNCHANGED <<safe_auto, auth, conts, unsafe, phase, boot, turnNo, stopping, resumes,
                       halted, opened>>
        /\ turns' \in [Sessions -> TurnRows]
    BY <1>4, TurnTypes DEF TurnEnds, history
  <2>2. run' \in Runs /\ cards' \in Cards
    BY <1>0, <1>4, ParkTypes, RestSame DEF TurnEnds
  <2> QED
    BY <2>1, <2>2, RestSame, Zenon DEF RestOK
<1> QED
  BY <1>1, <1>2, <1>3, <1>4 DEF TurnStep

LEMMA OwnerRest ==
    ASSUME TypeOK, OwnerStep, ~OwnerTurn
    PROVE  RestOK'
<1>0. run \in Runs /\ cards \in Cards /\ conts \in Conts
  BY DEF TypeOK, Cards, Conts
<1>1. ASSUME NEW st \in {"paused", "cancelled"}, Stop(st) PROVE RestOK'
  <2>1. run' \in Runs /\ conts' \in Conts
    BY <1>0, <1>1, RowTypes, ContTypes DEF Stop, States, Terminal, ContStates
  <2>2. /\ UNCHANGED <<safe_auto, auth, cards, unsafe, phase, boot, turns, turnNo, resumes, opened>>
        /\ stopping' = TRUE /\ halted' = TRUE
    BY <1>1 DEF Stop
  <2> QED
    BY <2>1, <2>2, RestSame, Zenon DEF RestOK
<1>2. CASE OwnerStop \/ OwnerPause \/ OwnerCancel
  <2>1. CASE \E st \in {"paused", "cancelled"} : Stop(st)
    BY <1>1, <2>1
  <2>2. CASE /\ stopping' = TRUE
             /\ UNCHANGED <<safe_auto, run, auth, cards, conts, unsafe, phase, boot, turns, turnNo,
                            resumes, halted, opened>>
    BY <2>2, RestSame, Zenon DEF RestOK
  <2> QED
    BY <1>2, <2>1, <2>2 DEF OwnerStop, OwnerPause, OwnerCancel, history
<1>3. CASE OwnerDisable
  <2>1. run' \in Runs /\ conts' \in Conts
    BY <1>0, <1>3, RowTypes, ContTypes DEF OwnerDisable, States, ContStates
  <2>2. UNCHANGED <<safe_auto, auth, cards, unsafe, phase, boot, turns, turnNo, stopping, resumes, opened>>
        /\ halted' = TRUE
    BY <1>3 DEF OwnerDisable, procVars
  <2> QED
    BY <2>1, <2>2, RestSame, Zenon DEF RestOK
<1>4. CASE OwnerResume
  <2> DEFINE r == Moved(run, "ready", "other")
             pinned == IF auth = "goal" THEN Repinned(r) ELSE r
  <2>1. pinned \in Runs
    BY <1>0, RowTypes DEF States
  <2>2. \/ run' = pinned /\ cards' = cards
        \/ \E code : Park(pinned, code)
    BY <1>4, Zenon DEF OwnerResume
  <2>3. conts' = conts \/ \E key : conts' = Queued(conts, key, pinned)
    BY <1>4, Zenon DEF OwnerResume
  <2>4. /\ UNCHANGED <<safe_auto, unsafe, phase, boot, turns, turnNo, stopping, opened>>
        /\ auth' \in {auth, "same"} /\ halted' = FALSE /\ resumes' = resumes + 1 /\ resumes < MaxOwner
    BY <1>4 DEF OwnerResume, procVars
  <2> HIDE DEF pinned
  <2>5. run' \in Runs /\ cards' \in Cards
    BY <1>0, <2>1, <2>2, ParkTypes
  <2>6. conts' \in Conts
    BY <1>0, <2>1, <2>3, ContTypes
  <2>7. auth' \in {"same", "goal", "scope"} /\ resumes' \in 0..MaxOwner
    BY <2>4, TaskAssumption, AuthTypes DEF TypeOK
  <2> QED
    BY <2>4, <2>5, <2>6, <2>7, RestSame, Zenon DEF RestOK
<1>5. CASE OwnerInspect \/ OwnerAccept \/ OwnerRepin
  <2>1. run' \in Runs
    BY <1>0, <1>5, RowTypes DEF OwnerInspect, OwnerAccept, OwnerRepin, States, Terminal
  <2>2. unsafe' \in [Sessions -> {"none", "open", "receipt"}]
    BY <1>5 DEF TypeOK, OwnerInspect, OwnerAccept, OwnerRepin
  <2>3. /\ UNCHANGED <<safe_auto, cards, conts, phase, boot, turns, turnNo, stopping, resumes, opened>>
        /\ auth' \in {auth, "same"} /\ (halted' = FALSE \/ UNCHANGED halted)
    BY <1>5 DEF OwnerInspect, OwnerAccept, OwnerRepin, procVars, history
  <2>4. auth' \in {"same", "goal", "scope"}
    BY <2>3, AuthTypes
  <2> QED
    BY <2>1, <2>2, <2>3, <2>4, RestSame, Zenon DEF RestOK
<1>6. ASSUME NEW extend \in BOOLEAN, OwnerAnswer(extend) PROVE RestOK'
  <2>1. run' \in Runs
    BY <1>0, <1>6, RowTypes, RowFields DEF OwnerAnswer, States
  <2>2. cards' \in Cards
    <3>1. "approved" \in CardStates /\ "rejected" \in CardStates
      BY DEF CardStates
    <3>2. \/ cards' = [cards EXCEPT ![budget.rev].state = "approved"]
          \/ cards' = [cards EXCEPT ![budget.rev].state = "rejected"]
      BY <1>6 DEF OwnerAnswer
    <3> QED
      BY <1>0, <3>1, <3>2, CardTypes
  <2>3. UNCHANGED <<safe_auto, auth, conts, unsafe, phase, boot, turns, turnNo, stopping, resumes,
                    halted, opened>>
    BY <1>6 DEF OwnerAnswer, procVars, history
  <2> QED
    BY <2>1, <2>2, <2>3, RestSame, Zenon DEF RestOK
<1> QED
  BY <1>2, <1>3, <1>4, <1>5, <1>6 DEF OwnerStep

LEMMA ProcessRest ==
    ASSUME TypeOK, TurnRules, ProcessStep
    PROVE  RestOK'
<1>0. run \in Runs /\ cards \in Cards /\ conts \in Conts /\ RunAfterClosing \in Runs
  BY CheckedRows DEF TypeOK, Cards, Conts
<1>1. CASE Crash
  <2>1. /\ UNCHANGED <<safe_auto, run, auth, cards, conts, boot, turnNo, resumes, halted, opened>>
        /\ Dies /\ phase' = "down" /\ stopping' = FALSE
    BY <1>1 DEF Crash, Dies
  <2> QED
    BY <2>1, UnsafeTypes, RestSame, Zenon DEF RestOK
<1>2. CASE Shutdown
  <2>1. run' \in Runs /\ cards' \in Cards
    BY <1>0, <1>2, CardTypes, RestSame DEF Shutdown
  <2>2. /\ UNCHANGED <<safe_auto, auth, conts, boot, turnNo, stopping, resumes, halted, opened>>
        /\ Cut(Sessions) /\ phase' = "down"
    BY <1>2 DEF Shutdown
  <2> QED
    BY <2>1, <2>2, UnsafeTypes, RestSame, Zenon DEF RestOK
<1>3. CASE Boot
  <2>1. run' \in Runs /\ conts' \in Conts
    BY <1>0, <1>3, RowTypes, ContTypes DEF Boot, ContStates
  <2>2. unsafe' \in [Sessions -> {"none", "open", "receipt"}]
    BY <1>3 DEF Boot, TypeOK
  <2>3. boot' \in 0..MaxBoot
    BY <1>3, CounterAssumption DEF Boot, TypeOK, TurnRules
  <2>4. /\ UNCHANGED <<safe_auto, auth, cards, turns, turnNo, stopping, resumes, halted, opened>>
        /\ phase' = "recovering"
    BY <1>3 DEF Boot, history
  <2> QED
    BY <2>1, <2>2, <2>3, <2>4, RestSame, Zenon DEF RestOK
<1>4. CASE Recover
  <2>1. /\ UNCHANGED <<safe_auto, auth, unsafe, boot, turns, turnNo, stopping, resumes, opened>>
        /\ phase' = "up"
    BY <1>4 DEF Recover
  <2>2. ASSUME RecoverManual PROVE run' \in Runs /\ cards' \in Cards /\ conts' \in Conts
    BY <1>0, <2>2, RowTypes, ContTypes, RestSame DEF RecoverManual, States, ContStates
  <2>3. ASSUME RecoverAuto PROVE run' \in Runs /\ cards' \in Cards /\ conts' \in Conts
    <3>1. CASE /\ run' = Moved(run, "ready", "other") /\ UNCHANGED cards
               /\ conts' = Queued(conts, <<"restart", run.lease>>, run')
      <4>1. run' \in Runs
        BY <1>0, <3>1, RowTypes DEF States
      <4> QED
        BY <1>0, <3>1, <4>1, ContTypes, RestSame
    <3>2. CASE UNCHANGED conts /\ \E code : Park(run, code)
      BY <1>0, <3>2, ParkTypes, RestSame
    <3> QED
      BY <2>3, <3>1, <3>2 DEF RecoverAuto
  <2>4. /\ run' \in Runs /\ cards' \in Cards /\ conts' \in Conts
        /\ halted' = TRUE \/ UNCHANGED halted
    BY <1>4, <2>2, <2>3, RestSame DEF Recover, RecoverManual, RecoverAuto
  <2> QED
    BY <2>1, <2>4, RestSame, Zenon DEF RestOK
<1>5. CASE StopRest
  <2>1. run' \in Runs /\ cards' \in Cards
    BY <1>0, <1>5, CardTypes, RestSame DEF StopRest
  <2>2. /\ UNCHANGED <<safe_auto, auth, conts, phase, boot, turnNo, resumes, halted, opened>>
        /\ stopping' = FALSE /\ \E ss : Cut(ss)
    BY <1>5 DEF StopRest
  <2> QED
    BY <2>1, <2>2, UnsafeTypes, RestSame, Zenon DEF RestOK
<1>6. CASE ScopeChanges
  <2>1. /\ UNCHANGED <<safe_auto, run, cards, conts, unsafe, phase, boot, turns, turnNo, stopping,
                       resumes, halted, opened>>
        /\ auth' = "scope"
    BY <1>6 DEF ScopeChanges, procVars, history
  <2> QED
    BY <2>1, RestSame, Zenon DEF RestOK
<1>7. ASSUME NEW c \in Keys, Pump(c) PROVE RestOK'
  <2>0. UNCHANGED <<safe_auto, auth, boot, resumes, halted>> /\ turnNo[Root] < MaxTurn
    BY <1>7 DEF Pump
  <2>1. CASE PumpRefused(c)
    <3>1. /\ UNCHANGED <<conts, turns, turnNo, phase, stopping, unsafe, opened>>
          /\ \E code : Park(run, code)
      BY <2>1 DEF PumpRefused
    <3>2. run' \in Runs /\ cards' \in Cards
      BY <1>0, <3>1, ParkTypes
    <3> QED
      BY <2>0, <3>1, <3>2, RestSame, Zenon DEF RestOK
  <2>2. CASE PumpAdmits(c)
    <3>1. conts' \in Conts
      BY <1>0, <2>2, Zenon DEF PumpAdmits, Conts, ContStates
    <3>2. CASE /\ Admit(Root, TRUE, "ok", run) /\ opened' = opened \cup {c}
               /\ UNCHANGED <<phase, stopping, unsafe>>
      <4>1. /\ run' \in Runs /\ cards' \in Cards
            /\ turns' \in [Sessions -> TurnRows] /\ turnNo' \in [Sessions -> 0..MaxTurn]
        BY <1>0, <2>0, <3>2, AdmitTypes DEF Sessions
      <4>2. opened' \in SUBSET Keys
        BY <3>2 DEF TypeOK
      <4> QED
        BY <2>0, <3>1, <3>2, <4>1, <4>2, RestSame, Zenon DEF RestOK
    <3>3. CASE /\ run' = Blocked(Blocked(run, "lease"), "lease")
               /\ UNCHANGED <<cards, turns, turnNo, phase, stopping, unsafe, opened>>
      <4>1. run' \in Runs
        BY <1>0, <3>3, RowTypes
      <4> QED
        BY <2>0, <3>1, <3>3, <4>1, RestSame, Zenon DEF RestOK
    <3>4. CASE Dies /\ UNCHANGED <<run, cards, turnNo, opened>>
      <4>1. phase' = "down" /\ stopping' = FALSE
        BY <3>4 DEF Dies
      <4> QED
        BY <2>0, <3>1, <3>4, <4>1, UnsafeTypes, RestSame, Zenon DEF RestOK
    <3> QED
      BY <2>2, <3>2, <3>3, <3>4, Zenon DEF PumpAdmits
  <2> QED
    BY <1>7, <2>1, <2>2 DEF Pump
<1> QED
  BY <1>1, <1>2, <1>3, <1>4, <1>5, <1>6, <1>7 DEF ProcessStep

LEMMA RestStep ==
    ASSUME TypeOK, TurnRules, [Next]_vars
    PROVE  RestOK'
<1>1. CASE UNCHANGED vars
  <2>1. UNCHANGED <<safe_auto, run, auth, cards, conts, unsafe, phase, boot, turns, turnNo, stopping,
                    resumes, halted, opened>>
    BY <1>1 DEF vars, procVars, history
  <2> QED
    BY <2>1, RestSame, Zenon DEF RestOK
<1>2. CASE Next
  BY <1>2, TurnRest, StartTypes, OwnerRest, ProcessRest DEF Next
<1> QED
  BY <1>1, <1>2

---------------------------------------------------------------------------
(* The fence.  A step leaves the fence and the snapshots alone, raises both *)
(* epochs, claims the lease for this process (and may take a snapshot of    *)
(* it), or leaves no turn live.                                             *)

Kept(q) == turns'[q].live => /\ turns[q].live
                             /\ turns'[q].stop = turns[q].stop /\ turns'[q].lease = turns[q].lease

FenceKept == Fence(run') = Fence(run) /\ boot' = boot /\ \A q \in Sessions : Kept(q)

FenceBarred ==
    /\ run'.stop = run.stop + 1 /\ run'.lease = run.lease + 1
    /\ \A q \in Sessions : Kept(q)

FenceClaimed ==
    /\ run'.stop = run.stop /\ run'.owner = boot /\ run'.lease \in {run.lease, run.lease + 1}
    /\ boot' = boot
    /\ \A q \in Sessions : Kept(q) \/ (turns'[q].stop = run'.stop /\ turns'[q].lease = run'.lease)

NoneLive == \A q \in Sessions : ~turns'[q].live

\* The calls follow their turns, and the process its phases.
TurnKept == \A q \in Sessions : ~turns'[q].live => turns'[q].seg = "none"

FenceMove ==
    /\ TurnKept
    /\ \/ (FenceKept \/ FenceBarred \/ FenceClaimed) /\ UNCHANGED <<phase, boot>> /\ phase = "up"
       \/ /\ NoneLive /\ boot' >= 1
          /\ phase' = "down" => boot' < MaxBoot

LEMMA CheckedFences ==
    ASSUME TypeOK
    PROVE  /\ \A a : Fence(Checked(a)) = Fence(run)
           /\ \A s : Fence(TurnChecked(s)) = Fence(run)
           /\ Fence(RunAfterClosing) = Fence(run)
<1>1. run \in Runs
  BY DEF TypeOK
<1>2. \A a : Fence(Checked(a)) = Fence(run)
  BY <1>1, RowFences, Zenon DEF Checked
<1> QED
  BY <1>1, <1>2, RowFences, Zenon DEF TurnChecked, RunAfterClosing

LEMMA ParkFences ==
    ASSUME TypeOK, NEW r \in Runs, Fence(r) = Fence(run), NEW code, Park(r, code)
    PROVE  Fence(run') = Fence(run)
BY RowFences DEF Park

LEMMA SameTurns ==
    ASSUME TypeOK, TurnRules, turns' = turns
    PROVE  TurnKept /\ \A q \in Sessions : Kept(q)
BY DEF TurnRules, TurnKept, Kept

LEMMA ClosedTurns ==
    ASSUME TypeOK, TurnRules, NEW s \in Sessions, turns' = Closed(s)
    PROVE  TurnKept /\ \A q \in Sessions : Kept(q)
BY ClosedMoves DEF TurnRules, TurnKept, Kept, NoTurn

LEMMA CutTurns ==
    ASSUME TypeOK, TurnRules, NEW ss, Cut(ss)
    PROVE  TurnKept /\ \A q \in Sessions : Kept(q)
<1>1. \A q \in Sessions : turns'[q] \in {NoTurn, turns[q]}
  BY CutMoves
<1>2. NoTurn.live = FALSE /\ NoTurn.seg = "none"
  BY DEF NoTurn
<1> QED
  BY <1>1, <1>2 DEF TurnRules, TurnKept, Kept

LEMMA AdmitFences ==
    ASSUME TypeOK, TurnRules, NEW s \in Sessions, NEW a, NEW code, NEW r \in Runs,
           Fence(r) = Fence(run), Admit(s, a, code, r), boot' = boot
    PROVE  FenceClaimed /\ TurnKept
<1>1. /\ run'.stop = run.stop /\ run'.owner = boot /\ run'.lease \in {run.lease, run.lease + 1}
  BY AdmitMoves, RowFences DEF Fence
<1>2. \A q \in Sessions : Kept(q) \/ (turns'[q].stop = run'.stop /\ turns'[q].lease = run'.lease)
  BY AdmitMoves DEF Kept
<1>3. TurnKept
  BY AdmitMoves DEF TurnKept, TurnRules
<1> QED
  BY <1>1, <1>2, <1>3 DEF FenceClaimed

LEMMA StartFences ==
    ASSUME TypeOK, TurnRules, OwnerTurn \/ \E k \in Kids : KidTurn(k)
    PROVE  FenceMove
<1>1. UNCHANGED <<phase, boot>> /\ phase = "up"
  BY DEF OwnerTurn, KidTurn, Up
<1>2. \/ turns' = turns /\ \E code : Park(Checked(FALSE), code)
      \/ \E s \in Sessions : \E code : Admit(s, FALSE, code, Checked(FALSE))
  BY DEF OwnerTurn, KidTurn, Refuse, Sessions
<1>3. CASE turns' = turns /\ \E code : Park(Checked(FALSE), code)
  BY <1>1, <1>3, CheckedRows, CheckedFences, ParkFences, SameTurns DEF FenceMove, FenceKept
<1>4. CASE \E s \in Sessions : \E code : Admit(s, FALSE, code, Checked(FALSE))
  BY <1>1, <1>4, CheckedRows, CheckedFences, AdmitFences DEF FenceMove
<1> QED
  BY <1>2, <1>3, <1>4

LEMMA TurnFences ==
    ASSUME TypeOK, TurnRules, NEW s \in Sessions, TurnStep(s)
    PROVE  FenceMove
<1>0. /\ TurnChecked(s) \in Runs /\ Fence(TurnChecked(s)) = Fence(run) /\ run \in Runs
      /\ turns \in [Sessions -> TurnRows]
  BY CheckedRows, CheckedFences DEF TypeOK, TurnRows
<1>1. ASSUME NEW seg \in Segs, Call(s, seg) PROVE FenceMove
  <2>0. UNCHANGED <<phase, boot>> /\ phase = "up"
    BY <1>1 DEF Call, Up
  <2>1. CASE Dispatch(s, seg)
    <3>1. run' = [TurnChecked(s) EXCEPT !.state = "running"] /\ turns[s].live
          /\ turns' = [turns EXCEPT ![s].seg = seg]
      BY <2>1 DEF Dispatch
    <3>2. Fence(run') = Fence(run)
      BY <1>0, <3>1 DEF Runs, Fence
    <3>3. \A q \in Sessions : Kept(q) /\ (~turns'[q].live => turns'[q].seg = "none")
      BY <1>0, <3>1 DEF Kept, TurnRows, TurnRules
    <3> QED
      BY <2>0, <3>2, <3>3 DEF FenceMove, FenceKept, TurnKept
  <2>2. CASE DispatchRefused(s, seg)
    <3>1. turns' = Closed(s) \/ turns' = turns
      BY <2>2 DEF DispatchRefused
    <3>2. \A code : Blocked(TurnChecked(s), code) \in Runs
      BY <1>0, RowTypes
    <3>3. Fence(run') = Fence(run)
      BY <1>0, <2>2, <3>2, ParkFences, RowFences DEF DispatchRefused
    <3> QED
      BY <2>0, <3>1, <3>3, SameTurns, ClosedTurns DEF FenceMove, FenceKept
  <2> QED
    BY <1>1, <2>1, <2>2 DEF Call
<1>2. CASE Settle(s)
  <2>1. turns' = [turns EXCEPT ![s].seg = "none"] /\ UNCHANGED <<run, phase, boot>>
        /\ turns[s].seg # "none"
    BY <1>2 DEF Settle
  <2>2. phase = "up"
    BY <2>1 DEF TurnRules
  <2>3. \A q \in Sessions : Kept(q) /\ (~turns'[q].live => turns'[q].seg = "none")
    BY <1>0, <2>1 DEF Kept, TurnRows, TurnRules
  <2> QED
    BY <2>1, <2>2, <2>3 DEF FenceMove, FenceKept, TurnKept, Fence
<1>3. CASE Finish(s)
  <2>0. UNCHANGED <<phase, boot>> /\ phase = "up" /\ turns' = Closed(s)
    BY <1>3 DEF Finish, Up
  <2>1. ASSUME NEW p, FinishOk(s, p) PROVE Fence(run') = Fence(run)
    <3>1. \/ run' = TurnChecked(s)
          \/ \E st : run' = Moved(TurnChecked(s), st, "other")
      BY <2>1, Zenon DEF FinishOk
    <3> QED
      BY <1>0, <3>1, RowFences
  <2>2. ASSUME Park(TurnChecked(s), TurnGate(s)) PROVE Fence(run') = Fence(run)
    BY <1>0, <2>2, ParkFences
  <2>3. Fence(run') = Fence(run)
    BY <1>3, <2>1, <2>2 DEF Finish
  <2> QED
    BY <2>0, <2>3, ClosedTurns DEF FenceMove, FenceKept
<1>4. CASE TurnEnds(s)
  <2>1. UNCHANGED <<phase, boot>> /\ phase = "up" /\ turns' = Closed(s)
    BY <1>4 DEF TurnEnds, Up
  <2>2. run' = run \/ Park(run, "failed")
    BY <1>4 DEF TurnEnds
  <2>3. Fence(run') = Fence(run)
    BY <1>0, <2>2, ParkFences DEF Fence
  <2> QED
    BY <2>1, <2>3, ClosedTurns DEF FenceMove, FenceKept
<1> QED
  BY <1>1, <1>2, <1>3, <1>4 DEF TurnStep

LEMMA OwnerFences ==
    ASSUME TypeOK, TurnRules, OwnerStep, ~OwnerTurn
    PROVE  FenceMove
<1>0. run \in Runs /\ RunAfterClosing \in Runs
  BY CheckedRows
<1>1. UNCHANGED <<turns, phase, boot>> /\ phase = "up"
  BY DEF OwnerStep, OwnerStop, OwnerPause, OwnerCancel, Stop, OwnerDisable, OwnerResume, OwnerInspect,
         OwnerAccept, OwnerRepin, OwnerAnswer, Inspectable, Up, procVars, history
<1>2. CASE OwnerStop \/ OwnerPause \/ OwnerCancel \/ OwnerDisable
  <2>1. run' = run \/ \E st : run' = Barred(run, st)
    BY <1>2 DEF OwnerStop, OwnerPause, OwnerCancel, Stop, OwnerDisable
  <2>2. CASE run' = run
    BY <1>1, <2>2, SameTurns DEF FenceMove, FenceKept
  <2>3. CASE \E st : run' = Barred(run, st)
    BY <1>0, <1>1, <2>3, SameTurns, RowFences DEF FenceMove, FenceBarred
  <2> QED
    BY <2>1, <2>2, <2>3
<1>3. ASSUME OwnerResume PROVE Fence(run') = Fence(run)
  <2> DEFINE r == Moved(run, "ready", "other")
             pinned == IF auth = "goal" THEN Repinned(r) ELSE r
  <2>1. pinned \in Runs /\ Fence(pinned) = Fence(run)
    BY <1>0, RowTypes, RowFences DEF States
  <2>2. \/ run' = pinned
        \/ \E code : Park(pinned, code)
    BY <1>3, Zenon DEF OwnerResume
  <2> HIDE DEF pinned
  <2> QED
    BY <2>1, <2>2, ParkFences
<1>4. ASSUME OwnerInspect \/ OwnerAccept \/ OwnerRepin PROVE Fence(run') = Fence(run)
  BY <1>0, <1>4, RowFences DEF OwnerInspect, OwnerAccept, OwnerRepin
<1>5. ASSUME NEW extend \in BOOLEAN, OwnerAnswer(extend) PROVE Fence(run') = Fence(run)
  BY <1>0, <1>5, RowFences DEF OwnerAnswer
<1>6. CASE Fence(run') = Fence(run)
  BY <1>1, <1>6, SameTurns DEF FenceMove, FenceKept
<1> QED
  BY <1>2, <1>3, <1>4, <1>5, <1>6 DEF OwnerStep

LEMMA NoneLiveMoves ==
    ASSUME TypeOK, TurnRules, NoneLive, \A q \in Sessions : turns'[q] \in {NoTurn, turns[q]},
           boot' >= 1, phase' = "down" => boot' < MaxBoot
    PROVE  FenceMove
<1>1. NoTurn.seg = "none"
  BY DEF NoTurn
<1>2. TurnKept
  BY <1>1 DEF TurnKept, TurnRules
<1> QED
  BY <1>2 DEF FenceMove

LEMMA DiesFences ==
    ASSUME TypeOK, TurnRules, Dies, boot' = boot, boot < MaxBoot
    PROVE  FenceMove
<1>1. \A q \in Sessions : turns'[q] \in {NoTurn, turns[q]}
  BY DiesMoves
<1>2. NoneLive
  BY DiesMoves DEF NoneLive, NoTurn
<1>3. boot' >= 1 /\ boot' < MaxBoot
  BY DEF TurnRules
<1> QED
  BY <1>1, <1>2, <1>3, NoneLiveMoves

LEMMA ProcessFences ==
    ASSUME TypeOK, TurnRules, ProcessStep
    PROVE  FenceMove
<1>0. run \in Runs /\ Fence(RunAfterClosing) = Fence(run) /\ boot \in Nat
  BY CheckedRows, CheckedFences DEF TypeOK
<1>1. CASE Crash
  BY <1>1, DiesFences DEF Crash
<1>2. CASE Shutdown
  <2>1. \A q \in Sessions : turns'[q] = NoTurn
    BY <1>2, CutMoves DEF Shutdown
  <2>2. NoneLive
    BY <2>1 DEF NoneLive, NoTurn
  <2>3. boot' >= 1 /\ boot' < MaxBoot
    BY <1>2 DEF Shutdown, TurnRules
  <2> QED
    BY <2>1, <2>2, <2>3, NoneLiveMoves
<1>3. CASE Boot \/ Recover
  <2>1. turns' = turns /\ NoneLive
    BY <1>3 DEF Boot, Recover, TurnRules, NoneLive
  <2>2. boot' >= 1 /\ phase' # "down"
    BY <1>0, <1>3 DEF Boot, Recover, TurnRules
  <2> QED
    BY <2>1, <2>2, NoneLiveMoves
<1>4. CASE StopRest
  <2>1. UNCHANGED <<phase, boot>> /\ phase = "up" /\ \E ss : Cut(ss)
    BY <1>4 DEF StopRest
  <2>2. Fence(run') = Fence(run)
    BY <1>0, <1>4 DEF StopRest
  <2> QED
    BY <2>1, <2>2, CutTurns DEF FenceMove, FenceKept
<1>5. CASE ScopeChanges
  <2>1. UNCHANGED <<run, turns, phase, boot>> /\ phase = "up"
    BY <1>5 DEF ScopeChanges, Up, procVars
  <2> QED
    BY <2>1, SameTurns DEF FenceMove, FenceKept
<1>6. ASSUME NEW c \in Keys, Pump(c) PROVE FenceMove
  <2>0. boot' = boot /\ phase = "up"
    BY <1>6 DEF Pump, Up
  <2>1. CASE PumpRefused(c)
    <3>1. UNCHANGED <<turns, phase>> /\ \E code : Park(run, code)
      BY <2>1 DEF PumpRefused
    <3>2. Fence(run') = Fence(run)
      BY <1>0, <3>1, ParkFences
    <3> QED
      BY <2>0, <3>1, <3>2, SameTurns DEF FenceMove, FenceKept
  <2>2. CASE Admit(Root, TRUE, "ok", run) /\ UNCHANGED phase
    BY <1>0, <2>0, <2>2, AdmitFences DEF FenceMove, Sessions
  <2>3. CASE run' = Blocked(Blocked(run, "lease"), "lease") /\ UNCHANGED <<turns, phase>>
    <3>1. Fence(run') = Fence(run)
      BY <1>0, <2>3, RowTypes, RowFences
    <3> QED
      BY <2>0, <2>3, <3>1, SameTurns DEF FenceMove, FenceKept
  <2>4. CASE Dies /\ boot < MaxBoot
    BY <2>0, <2>4, DiesFences
  <2> QED
    BY <1>6, <2>1, <2>2, <2>3, <2>4 DEF Pump, PumpAdmits
<1> QED
  BY <1>1, <1>2, <1>3, <1>4, <1>5, <1>6 DEF ProcessStep

LEMMA FenceMoves ==
    ASSUME TypeOK, TurnRules, [Next]_vars
    PROVE  FenceMove \/ UNCHANGED <<run, turns, phase, boot>>
<1>1. CASE UNCHANGED vars
  BY <1>1 DEF vars, procVars
<1>2. CASE Next
  BY <1>2, StartFences, TurnFences, OwnerFences, ProcessFences DEF Next
<1> QED
  BY <1>1, <1>2

\* A snapshot is never ahead of the run.
SnapshotsBehind ==
    \A q \in Sessions : turns[q].live => turns[q].stop <= run.stop /\ turns[q].lease <= run.lease

FenceInv == TurnRules /\ SnapshotsBehind /\ FencedByLease

LEMMA FenceStep ==
    ASSUME TypeOK, FenceInv, [Next]_vars
    PROVE  FenceInv'
<1>0. /\ run.stop \in Nat /\ run.lease \in Nat
      /\ \A q \in Sessions : turns[q].stop \in Nat /\ turns[q].lease \in Nat
  BY DEF TypeOK, Runs
<1>1. CASE UNCHANGED <<run, turns, phase, boot>>
  BY <1>1 DEF FenceInv, TurnRules, SnapshotsBehind, FencedByLease, Fenced
<1>2. CASE FenceMove
  <2>1. TurnRules'
    BY <1>2 DEF FenceInv, FenceMove, TurnKept, TurnRules, NoneLive
  <2>2. CASE NoneLive
    BY <2>1, <2>2 DEF FenceInv, NoneLive, SnapshotsBehind, FencedByLease
  <2>3. CASE FenceKept
    <3>1. run'.stop = run.stop /\ run'.lease = run.lease /\ run'.owner = run.owner
      BY <2>3 DEF FenceKept, Fence
    <3> QED
      BY <2>1, <2>3, <3>1 DEF FenceInv, FenceKept, Kept, SnapshotsBehind, FencedByLease, Fenced
  <2>4. CASE FenceBarred
    BY <1>0, <2>1, <2>4 DEF FenceInv, FenceBarred, Kept, SnapshotsBehind, FencedByLease, Fenced
  <2>5. CASE FenceClaimed
    BY <1>0, <2>1, <2>5 DEF FenceInv, FenceClaimed, Kept, SnapshotsBehind, FencedByLease
  <2> QED
    BY <1>2, <2>2, <2>3, <2>4, <2>5 DEF FenceMove
<1> QED
  BY <1>1, <1>2, FenceMoves DEF FenceInv
---------------------------------------------------------------------------
(* The invariant and what follows from it at once.                          *)

IInv == TypeOK /\ BudgetInv /\ FenceInv

LEMMA InitTypes ==
    ASSUME Init
    PROVE  TypeOK
<1>1. NewRun \in Runs
  BY CounterAssumption DEF NewRun, Runs, States
<1>2. budget \in Budgets
  <2>1. 1 \in Revisions /\ 0 \in Nat /\ StepLimit \in Nat /\ TimeLimit \in Nat
    BY TaskAssumption DEF Revisions
  <2> QED
    BY <2>1, Zenon DEF Init, Budgets
<1>3. cards \in Cards
  BY DEF Init, Cards, NoCard, CardStates
<1>4. conts \in Conts
  BY DEF Init, Conts, NoCont, ContStates
<1>5. turns \in [Sessions -> TurnRows]
  BY DEF Init, NoTurn, TurnRows, Segs
<1>6. turnNo \in [Sessions -> 0..MaxTurn] /\ boot \in 0..MaxBoot /\ resumes \in 0..MaxOwner
      /\ spent \in Nat
  BY CounterAssumption, TaskAssumption DEF Init
<1>7. RestOK
  BY <1>1, <1>3, <1>4, <1>5, <1>6, Zenon DEF Init, RestOK
<1> QED
  BY <1>2, <1>6, <1>7, TypeSplit

LEMMA InitInv ==
    ASSUME Init
    PROVE  IInv
<1>1. Open = {}
  BY DEF Init, Open, NoTurn
<1>2. Held = 0
  BY <1>1, FS_EmptySet, TaskAssumption DEF Held
<1>3. Bound * Cardinality(Sessions) \in Nat
  BY TaskAssumption, OpenCalls, Products
<1>4. BudgetInv
  BY <1>2, <1>3 DEF Init, BudgetInv, BudgetHolds, UnusedReturned, Started
<1>5. FenceInv
  BY CounterAssumption DEF Init, FenceInv, TurnRules, SnapshotsBehind, FencedByLease, NoTurn
<1> QED
  BY <1>4, <1>5, InitTypes DEF IInv

LEMMA InvStep ==
    ASSUME IInv, [Next]_vars
    PROVE  IInv'
<1>1. TypeOK /\ BudgetInv /\ TurnRules /\ FenceInv
  BY DEF IInv, FenceInv
<1>2. BudgetMove
  BY <1>1, BudgetMoves
<1>3. BudgetInv' /\ budget' \in Budgets /\ spent' \in Nat
  BY <1>1, <1>2, BudgetStep
<1>4. RestOK'
  BY <1>1, RestStep
<1>5. FenceInv'
  BY <1>1, FenceStep
<1> QED
  BY <1>3, <1>4, <1>5, TypeSplitNext DEF IInv

THEOREM Invariance == Spec => []IInv
<1>1. Init => IInv
  BY InitInv
<1>2. IInv /\ [Next]_vars => IInv'
  BY InvStep
<1> QED
  BY <1>1, <1>2, PTL DEF Spec

\* Every row of the long task keeps its type: a run is in one of its states, its
\* lease belongs to a process that was started, and no key of the outbox is left out.
THEOREM TypeCorrect == Spec => []TypeOK
<1>1. IInv => TypeOK
  BY DEF IInv
<1> QED
  BY <1>1, Invariance, PTL

\* The time the calls really took, together with what is held for the calls in
\* flight, never passes what the budget has charged, and what it has charged leaves
\* the checkpoint reserve untouched, whatever dies in between.
THEOREM BudgetNeverExceeded == Spec => []BudgetHolds
<1>1. IInv => BudgetHolds
  BY DEF IInv, BudgetInv
<1> QED
  BY <1>1, Invariance, PTL

\* The account overstates the work by one bound for each session and each process
\* that ended, and by no more: every call that returns gives its rest back.
THEOREM NothingLeaks == Spec => []UnusedReturned
<1>1. IInv => UnusedReturned
  BY DEF IInv, BudgetInv
<1> QED
  BY <1>1, Invariance, PTL

\* A turn whose snapshot still passes the fence runs under the lease of this process.
THEOREM LeaseFences == Spec => []FencedByLease
<1>1. IInv => FencedByLease
  BY DEF IInv, FenceInv
<1> QED
  BY <1>1, Invariance, PTL

---------------------------------------------------------------------------
(* The account of TaskBudget.                                               *)

LimitInv == budget.timeLimit > 0

LEMMA AccountInit ==
    ASSUME Init
    PROVE  Budget!Init /\ LimitInv
<1>1. Open = {}
  BY DEF Init, Open, NoTurn
<1>2. Held = 0
  BY <1>1, FS_EmptySet, TaskAssumption DEF Held
<1> QED
  BY <1>2, TaskAssumption DEF Init, Budget!Init, LimitInv

LEMMA AccountStep ==
    ASSUME TypeOK, BudgetInv, LimitInv, BudgetMove
    PROVE  /\ [Budget!Next]_<<budget.timeLimit, budget.ms - Held, Held>>
           /\ LimitInv'
<1>0. /\ budget \in Budgets /\ Bound \in Nat \ {0} /\ Reserve \in Nat /\ Held \in Nat
      /\ budget.ms \in Nat /\ budget.timeLimit \in Nat
  BY TaskAssumption, HeldAfter DEF TypeOK, Budgets
<1>1. CASE Quiet
  BY <1>1, HeldAfter DEF Quiet, Spending, LimitInv
<1>2. CASE Opens
  <2>1. PICK s \in Sessions \ Open, n \in {0, 1} :
           /\ Open' = Open \cup {s}
           /\ budget' = [budget EXCEPT !.steps = @ + n, !.ms = @ + Bound] /\ Fits(n)
    BY <1>2 DEF Opens
  <2>2. Held' = Held + Bound
    BY <2>1, HeldAfter
  <2>3. budget'.ms = budget.ms + Bound /\ budget'.timeLimit = budget.timeLimit
    BY <1>0, <2>1 DEF Budgets
  <2>4. Budget!Hold
    BY <1>0, <2>1, <2>2, <2>3 DEF Budget!Hold, Fits
  <2> QED
    BY <2>3, <2>4 DEF Budget!Next, LimitInv
<1>3. CASE Closes
  <2>1. PICK gone \in SUBSET Open : \E u \in 0..(Bound * Cardinality(gone)) :
           /\ Open' = Open \ gone
           /\ budget' = [budget EXCEPT !.ms = @ + u - Bound * Cardinality(gone)]
    BY <1>3 DEF Closes
  <2>2. PICK u \in 0..(Bound * Cardinality(gone)) :
           /\ Open' = Open \ gone
           /\ budget' = [budget EXCEPT !.ms = @ + u - Bound * Cardinality(gone)]
    BY <2>1
  <2> DEFINE h == Bound * Cardinality(gone)
  <2>3. h \in Nat /\ h <= Held /\ Held' = Held - h /\ u \in 0..h
    BY <2>2, HeldAfter
  <2>4. budget'.ms = budget.ms + u - h /\ budget'.timeLimit = budget.timeLimit
    BY <1>0, <2>2 DEF Budgets
  <2> HIDE DEF h
  <2>5. CASE h = 0
    <3>1. budget'.ms = budget.ms /\ Held' = Held
      BY <1>0, <2>3, <2>4, <2>5
    <3> QED
      BY <2>4, <3>1 DEF LimitInv
  <2>6. CASE h # 0
    <3>1. Budget!Release
      BY <1>0, <2>3, <2>4, <2>6 DEF Budget!Release
    <3> QED
      BY <2>4, <3>1 DEF Budget!Next, LimitInv
  <2> QED
    BY <2>5, <2>6
<1>4. CASE Loses
  <2>1. Held' = 0 /\ budget' = budget
    BY <1>4, HeldAfter DEF Loses
  <2>2. CASE Held = 0
    BY <2>1, <2>2 DEF LimitInv
  <2>3. CASE Held # 0
    <3>1. Budget!Release
      BY <1>0, <2>1, <2>3 DEF Budget!Release
    <3> QED
      BY <2>1, <3>1 DEF Budget!Next, LimitInv
  <2> QED
    BY <2>2, <2>3
<1>5. CASE Extends
  <2>1. Held' = Held /\ budget'.ms = budget.ms /\ budget'.timeLimit = 2 * budget.timeLimit
    BY <1>0, <1>5, HeldAfter, BudgetFields DEF Extends
  <2>2. Budget!Grant
    BY <1>0, <2>1 DEF Budget!Grant, LimitInv
  <2> QED
    BY <1>0, <2>1, <2>2 DEF Budget!Next, LimitInv
<1> QED
  BY <1>1, <1>2, <1>3, <1>4, <1>5 DEF BudgetMove

\* The run keeps the promise of TaskBudget, whatever its turns, its children and its
\* processes do: a hold is granted only when it fits with the reserve, a call is
\* charged at most its hold, and only the owner moves the limit.
THEOREM BudgetImplemented == Spec => BudgetKept
<1>1. Init => Budget!Init /\ LimitInv
  BY AccountInit
<1>2. IInv /\ LimitInv /\ [Next]_vars =>
         [Budget!Next]_<<budget.timeLimit, budget.ms - Held, Held>> /\ LimitInv'
  <2> SUFFICES ASSUME IInv, LimitInv, [Next]_vars
               PROVE  [Budget!Next]_<<budget.timeLimit, budget.ms - Held, Held>> /\ LimitInv'
    OBVIOUS
  <2>1. TypeOK /\ BudgetInv /\ TurnRules
    BY DEF IInv, FenceInv
  <2> QED
    BY <2>1, BudgetMoves, AccountStep
<1> QED
  BY <1>1, <1>2, Invariance, PTL DEF Spec, BudgetKept, Budget!Spec
---------------------------------------------------------------------------
(* A stop holds.  HaltInv is what makes it so: from a stop to the owner's   *)
(* next word the run stays paused or over, and no gate opens for either.    *)

Resting == Terminal \cup {"paused"}
HaltInv == halted => run.state \in Resting

\* No operation but the owner's takes a run out of rest.
LEMMA RestRows ==
    ASSUME NEW r \in Runs, r.state \in Resting
    PROVE  /\ Repinned(r).state \in Resting
           /\ \A code : Blocked(r, code) = r
           /\ \A b : Claimed(r, b).state \in Resting
           /\ Interrupted(r).state \in Resting
BY RowFences DEF Resting, Terminal

LEMMA RestGates ==
    ASSUME TypeOK, run.state \in Resting
    PROVE  /\ Gate(TRUE) # "ok"
           /\ \A a : Checked(a).state \in Resting
           /\ \A s : TurnChecked(s).state \in Resting
           /\ \A s : TurnGate(s) = "ok" => TurnChecked(s).state \in Terminal
           /\ \A s, seg : ~Dispatch(s, seg)
<1>1. run \in Runs
  BY DEF TypeOK
<1>2. Gate(TRUE) # "ok"
  BY DEF Gate, Resting, Terminal
<1>3. \A a : Checked(a).state \in Resting /\ (run.state \in Terminal => Checked(a).state \in Terminal)
  BY <1>1, RowFences DEF Checked, Resting, Terminal
<1>4. \A s : /\ TurnChecked(s).state \in Resting
             /\ run.state \in Terminal => TurnChecked(s).state \in Terminal
  BY <1>3 DEF TurnChecked
<1>5. \A s : TurnGate(s) = "ok" => run.state # "paused"
  BY DEF TurnGate, Gate
<1>6. \A s, seg : ~Dispatch(s, seg)
  BY <1>4 DEF Dispatch, ReserveCodes, Workable, Resting, Terminal
<1> QED
  BY <1>2, <1>3, <1>4, <1>5, <1>6 DEF Resting

LEMMA TurnHalts ==
    ASSUME TypeOK, HaltInv, NEW s \in Sessions, TurnStep(s)
    PROVE  HaltInv'
<1> SUFFICES ASSUME halted' PROVE run'.state \in Resting
  BY DEF HaltInv
<1>1. halted' = halted
  BY DEF TurnStep, Call, Settle, Finish, TurnEnds, history
<1>2. run.state \in Resting /\ run \in Runs /\ TurnChecked(s) \in Runs
  BY <1>1, CheckedRows DEF HaltInv
<1>3. TurnChecked(s).state \in Resting
  BY <1>2, RestGates
<1>4. \A code : Blocked(run, code) = run /\ Blocked(TurnChecked(s), code) = TurnChecked(s)
  BY <1>2, <1>3, RestRows
<1>5. ASSUME NEW seg \in Segs, Call(s, seg) PROVE run'.state \in Resting
  <2>1. DispatchRefused(s, seg)
    BY <1>2, <1>5, RestGates DEF Call
  <2>2. run' = TurnChecked(s)
    BY <1>4, <2>1 DEF DispatchRefused, Park
  <2> QED
    BY <1>3, <2>2
<1>6. CASE Settle(s)
  BY <1>2, <1>6 DEF Settle
<1>7. CASE Finish(s)
  <2>1. ASSUME NEW p, FinishOk(s, p) PROVE run' = TurnChecked(s)
    BY <1>2, <2>1, RestGates DEF FinishOk
  <2>2. run' = TurnChecked(s)
    BY <1>4, <1>7, <2>1 DEF Finish, Park
  <2> QED
    BY <1>3, <2>2
<1>8. CASE TurnEnds(s)
  BY <1>2, <1>4, <1>8 DEF TurnEnds, Park
<1> QED
  BY <1>5, <1>6, <1>7, <1>8 DEF TurnStep

LEMMA StartHalts ==
    ASSUME TypeOK, HaltInv, OwnerTurn \/ \E k \in Kids : KidTurn(k)
    PROVE  HaltInv'
<1> SUFFICES ASSUME halted' PROVE run'.state \in Resting
  BY DEF HaltInv
<1>1. halted' = halted
  BY DEF OwnerTurn, KidTurn, history
<1>2. Checked(FALSE) \in Runs /\ Checked(FALSE).state \in Resting
  BY <1>1, CheckedRows, RestGates DEF HaltInv
<1>3. \/ \E code : Park(Checked(FALSE), code)
      \/ \E s : \E code : Admit(s, FALSE, code, Checked(FALSE))
  BY DEF OwnerTurn, KidTurn, Refuse
<1>4. run' = Checked(FALSE) \/ run' = Claimed(Checked(FALSE), boot)
  BY <1>2, <1>3, RestRows DEF Park, Admit
<1> QED
  BY <1>2, <1>4, RestRows

LEMMA OwnerHalts ==
    ASSUME TypeOK, HaltInv, OwnerStep, ~OwnerTurn
    PROVE  HaltInv'
<1> SUFFICES ASSUME halted' PROVE run'.state \in Resting
  BY DEF HaltInv
<1>0. run \in Runs
  BY DEF TypeOK
<1>1. CASE OwnerStop \/ OwnerPause \/ OwnerCancel \/ OwnerDisable
  <2>1. run' = Barred(run, "paused") \/ run' = Barred(run, "cancelled")
        \/ (run' = run /\ ~Live)
    BY <1>1 DEF OwnerStop, OwnerPause, OwnerCancel, Stop, OwnerDisable
  <2> QED
    BY <1>0, <2>1, RowFences DEF Live, Resting, Terminal
<1>2. CASE OwnerResume \/ OwnerInspect
  BY <1>2 DEF OwnerResume, OwnerInspect
<1>3. CASE OwnerAccept
  BY <1>0, <1>3, RowFences DEF OwnerAccept, Resting, Terminal
<1>4. CASE OwnerRepin
  <2>1. run.state \in Resting /\ run' = Repinned(run)
    BY <1>4 DEF OwnerRepin, HaltInv, history
  <2> QED
    BY <1>0, <2>1, RestRows
<1>5. ASSUME NEW extend \in BOOLEAN, OwnerAnswer(extend) PROVE run'.state \in Resting
  <2>1. run.state \in Resting /\ run.state \in {"budget_exhausted", "needs_user"}
    BY <1>5 DEF OwnerAnswer, Answerable, HaltInv, history
  <2> QED
    BY <2>1 DEF Resting, Terminal
<1> QED
  BY <1>1, <1>2, <1>3, <1>4, <1>5 DEF OwnerStep

LEMMA ProcessHalts ==
    ASSUME TypeOK, HaltInv, ProcessStep
    PROVE  HaltInv'
<1> SUFFICES ASSUME halted' PROVE run'.state \in Resting
  BY DEF HaltInv
<1>0. run \in Runs /\ RunAfterClosing.state \in {run.state, "paused"}
  BY RowFences DEF TypeOK, RunAfterClosing
<1>1. CASE Crash \/ Shutdown \/ StopRest \/ ScopeChanges
  <2>1. run.state \in Resting
    BY <1>1 DEF Crash, Shutdown, StopRest, ScopeChanges, HaltInv, history
  <2>2. run' = run \/ run' = RunAfterClosing
    BY <1>1 DEF Crash, Shutdown, StopRest, ScopeChanges
  <2> QED
    BY <1>0, <2>1, <2>2 DEF Resting
<1>2. CASE Boot
  BY <1>0, <1>2, RestRows DEF Boot, HaltInv, history
<1>3. CASE Recover
  <2>1. CASE run.state # "interrupted" /\ UNCHANGED <<run, halted>>
    BY <2>1 DEF HaltInv
  <2>2. CASE RecoverManual
    BY <1>0, <2>2, RowFences DEF RecoverManual, Resting
  <2>3. CASE RecoverAuto /\ run.state = "interrupted"
    BY <2>3 DEF RecoverAuto, HaltInv, Resting, Terminal
  <2> QED
    BY <1>3, <2>1, <2>2, <2>3 DEF Recover
<1>4. ASSUME NEW c \in Keys, Pump(c) PROVE run'.state \in Resting
  <2>1. run.state \in Resting
    BY <1>4 DEF Pump, HaltInv
  <2>2. PumpRefused(c)
    BY <1>4, <2>1, RestGates DEF Pump, PumpAdmits
  <2> QED
    BY <1>0, <2>1, <2>2, RestRows DEF PumpRefused, Park
<1> QED
  BY <1>1, <1>2, <1>3, <1>4 DEF ProcessStep

LEMMA HaltStep ==
    ASSUME TypeOK, HaltInv, [Next]_vars
    PROVE  HaltInv'
<1>1. CASE UNCHANGED vars
  BY <1>1 DEF vars, history, HaltInv
<1>2. CASE Next
  BY <1>2, TurnHalts, StartHalts, OwnerHalts, ProcessHalts DEF Next
<1> QED
  BY <1>1, <1>2
\* What a step out of a stop may do: close calls, and admit nothing.
LEMMA StopStep ==
    ASSUME TypeOK, TurnRules, HaltInv, [Next]_vars, halted
    PROVE  /\ \A s \in Sessions : turns'[s].seg # "none" => turns[s].seg # "none"
           /\ opened' = opened
<1>0. /\ run.state \in Resting /\ turns \in [Sessions -> TurnRows] /\ run \in Runs
      /\ \A a : Checked(a) \in Runs
  BY CheckedRows DEF HaltInv, TypeOK, TurnRows
<1>1. CASE UNCHANGED <<turns, opened>>
  BY <1>1
<1>2. ASSUME NEW s \in Sessions, TurnStep(s)
      PROVE  /\ \A q \in Sessions : turns'[q].seg # "none" => turns[q].seg # "none"
             /\ opened' = opened
  <2>1. opened' = opened
    BY <1>2 DEF TurnStep, Call, Settle, Finish, TurnEnds, history
  <2>2. \/ \E seg \in Segs : DispatchRefused(s, seg)
        \/ turns' = [turns EXCEPT ![s].seg = "none"]
        \/ turns' = Closed(s)
    BY <1>0, <1>2, RestGates DEF TurnStep, Call, Settle, Finish, TurnEnds
  <2>3. turns' \in {turns, Closed(s), [turns EXCEPT ![s].seg = "none"]}
    BY <2>2 DEF DispatchRefused
  <2> QED
    BY <1>0, <2>1, <2>3, ClosedMoves DEF NoTurn, TurnRows
<1>3. ASSUME OwnerTurn \/ \E k \in Kids : KidTurn(k)
      PROVE  /\ \A q \in Sessions : turns'[q].seg # "none" => turns[q].seg # "none"
             /\ opened' = opened
  <2>1. opened' = opened
    BY <1>3 DEF OwnerTurn, KidTurn, history
  <2>2. \/ turns' = turns
        \/ \E s \in Sessions : \E a, c : Admit(s, a, c, Checked(FALSE))
    BY <1>3 DEF OwnerTurn, KidTurn, Refuse, Sessions
  <2> QED
    BY <1>0, <2>1, <2>2, AdmitMoves
<1>4. ASSUME OwnerStep, ~OwnerTurn PROVE UNCHANGED <<turns, opened>>
  BY <1>4 DEF OwnerStep, OwnerStop, OwnerPause, OwnerCancel, Stop, OwnerDisable, OwnerResume,
              OwnerInspect, OwnerAccept, OwnerRepin, OwnerAnswer, procVars, history
<1>5. ASSUME ProcessStep
      PROVE  /\ \A q \in Sessions : turns'[q].seg # "none" => turns[q].seg # "none"
             /\ opened' = opened
  <2>1. CASE Boot \/ Recover \/ ScopeChanges
    BY <2>1 DEF Boot, Recover, ScopeChanges, procVars, history
  <2>2. CASE Crash \/ Shutdown \/ StopRest
    <3>1. opened' = opened /\ (Dies \/ \E ss : Cut(ss))
      BY <2>2 DEF Crash, Shutdown, StopRest
    <3>2. \A q \in Sessions : turns'[q] \in {NoTurn, turns[q]}
      BY <3>1, DiesMoves, CutMoves
    <3> QED
      BY <3>1, <3>2 DEF NoTurn
  <2>3. ASSUME NEW c \in Keys, Pump(c) PROVE UNCHANGED <<turns, opened>>
    BY <1>0, <2>3, RestGates DEF Pump, PumpRefused, PumpAdmits
  <2> QED
    BY <1>5, <2>1, <2>2, <2>3 DEF ProcessStep
<1>6. CASE UNCHANGED vars
  BY <1>1, <1>6 DEF vars, procVars, history
<1>7. CASE Next
  BY <1>1, <1>2, <1>3, <1>4, <1>5, <1>7 DEF Next
<1> QED
  BY <1>6, <1>7

\* From a stop until the owner's next word no call is dispatched and no continuation
\* is admitted, through every crash, restart, late answer and queued row.
THEOREM StopHeld == Spec => StopHolds
<1>1. Init => HaltInv
  BY DEF Init, HaltInv
<1>2. IInv /\ HaltInv /\ [Next]_vars => HaltInv'
  BY HaltStep DEF IInv
<1>3. IInv /\ HaltInv /\ [Next]_vars =>
         [halted /\ halted' => /\ \A s \in Sessions : turns'[s].seg # "none" => turns[s].seg # "none"
                               /\ opened' = opened]_vars
  BY StopStep DEF IInv, FenceInv
<1> QED
  BY <1>1, <1>2, <1>3, Invariance, PTL DEF Spec, StopHolds

---------------------------------------------------------------------------
(* The outbox.  A row is opened only from pending, and never goes back.     *)

ContInv == \A c \in opened : conts[c].state \notin {"none", "pending"}

\* A row moves forward only, and is admitted only by the pump that opens it.
ContStep ==
    /\ \A c \in Keys : conts[c].state \notin {"none", "pending"} =>
                          conts'[c].state \notin {"none", "pending"}
    /\ \A c \in opened' : c \in opened \/ (c \in Keys /\ conts'[c].state = "admitted")
    /\ \A c \in Keys : conts'[c].state = "admitted" => conts[c].state \in {"pending", "admitted"}

LEMMA ContForward ==
    ASSUME TypeOK, opened' = opened,
           \/ conts' = conts
           \/ \E key, r : conts' = Queued(conts, key, r)
           \/ conts' = Turned(conts, "pending", "cancelled")
           \/ conts' = Turned(conts, "admitted", "interrupted")
    PROVE  ContStep
<1>1. conts \in Conts
  BY DEF TypeOK, Conts
<1>2. {"pending", "cancelled", "admitted", "interrupted"} \subseteq ContStates
  BY DEF ContStates
<1>3. CASE conts' = conts
  BY <1>3 DEF ContStep
<1>4. ASSUME NEW key, NEW r, conts' = Queued(conts, key, r) PROVE ContStep
  <2>1. \A c \in Keys : conts'[c] = conts[c]
                        \/ (conts[c].state = "none" /\ conts'[c].state = "pending")
    BY <1>1, <1>4 DEF Queued, Conts
  <2> QED
    BY <2>1 DEF ContStep
<1>5. CASE conts' = Turned(conts, "pending", "cancelled")
  <2>1. \A c \in Keys : conts'[c].state = IF conts[c].state = "pending" THEN "cancelled" ELSE conts[c].state
    BY <1>1, <1>5 DEF Turned, Conts
  <2> QED
    BY <2>1 DEF ContStep
<1>6. CASE conts' = Turned(conts, "admitted", "interrupted")
  <2>1. \A c \in Keys : conts'[c].state = IF conts[c].state = "admitted" THEN "interrupted" ELSE conts[c].state
    BY <1>1, <1>6 DEF Turned, Conts
  <2> QED
    BY <2>1 DEF ContStep
<1> QED
  BY <1>3, <1>4, <1>5, <1>6

LEMMA ContSteps ==
    ASSUME TypeOK, [Next]_vars
    PROVE  ContStep
<1>1. CASE UNCHANGED vars
  BY <1>1, ContForward DEF vars, history
<1>2. ASSUME NEW s \in Sessions, TurnStep(s) PROVE ContStep
  <2>1. opened' = opened /\ (conts' = conts \/ \E key, r : conts' = Queued(conts, key, r))
    BY <1>2, Zenon DEF TurnStep, Call, Settle, Finish, FinishOk, TurnEnds, history
  <2> QED
    BY <2>1, ContForward
<1>3. CASE OwnerTurn \/ \E k \in Kids : KidTurn(k)
  BY <1>3, ContForward DEF OwnerTurn, KidTurn, history
<1>4. CASE OwnerStep /\ ~OwnerTurn
  <2>1. CASE OwnerResume
    <3>1. opened' = opened /\ (conts' = conts \/ \E key, r : conts' = Queued(conts, key, r))
      BY <2>1, Zenon DEF OwnerResume
    <3> QED
      BY <3>1, ContForward
  <2>2. CASE ~OwnerResume
    BY <1>4, <2>2, ContForward DEF OwnerStep, OwnerStop, OwnerPause, OwnerCancel, Stop, OwnerDisable,
       OwnerInspect, OwnerAccept, OwnerRepin, OwnerAnswer, procVars, history
  <2> QED
    BY <2>1, <2>2
<1>5. CASE Crash \/ Shutdown \/ Boot \/ StopRest \/ ScopeChanges
  BY <1>5, ContForward DEF Crash, Shutdown, Boot, StopRest, ScopeChanges, history
<1>6. CASE Recover
  <2>1. opened' = opened
    BY <1>6 DEF Recover
  <2>2. \/ conts' = conts \/ conts' = Turned(conts, "pending", "cancelled")
        \/ \E key, r : conts' = Queued(conts, key, r)
    BY <1>6, Zenon DEF Recover, RecoverManual, RecoverAuto
  <2> QED
    BY <2>1, <2>2, ContForward
<1>7. ASSUME NEW c \in Keys, Pump(c) PROVE ContStep
  <2>1. CASE PumpRefused(c)
    BY <2>1, ContForward DEF PumpRefused
  <2>2. CASE PumpAdmits(c)
    <3>1. conts' = [conts EXCEPT ![c].state = "admitted"] /\ conts[c].state = "pending"
      BY <2>2 DEF PumpAdmits, Admissible
    <3>2. opened' \subseteq opened \cup {c}
      BY <2>2 DEF PumpAdmits
    <3>3. \A d \in Keys : IF d = c THEN conts'[d].state = "admitted" ELSE conts'[d] = conts[d]
      BY <3>1 DEF TypeOK
    <3> QED
      BY <3>1, <3>2, <3>3 DEF ContStep
  <2> QED
    BY <1>7, <2>1, <2>2 DEF Pump
<1>8. CASE Next
  BY <1>2, <1>3, <1>4, <1>5, <1>6, <1>7, <1>8 DEF Next, ProcessStep
<1> QED
  BY <1>1, <1>8

\* A continuation opens one turn at most, whatever dies between its admission and
\* its turn, and however often the same source asks for it.
THEOREM ContinuationOpensOnce == Spec => OpensOnce
<1>1. Init => ContInv
  BY DEF Init, ContInv
<1>2. TypeOK /\ ContInv /\ [Next]_vars => ContInv'
  <2> SUFFICES ASSUME TypeOK, ContInv, [Next]_vars PROVE ContInv'
    OBVIOUS
  <2>1. ContStep /\ opened \subseteq Keys
    BY ContSteps DEF TypeOK
  <2> QED
    BY <2>1 DEF ContInv, ContStep
<1>3. TypeOK /\ ContInv /\ [Next]_vars =>
         [\A c \in Keys : conts[c].state # "admitted" /\ conts'[c].state = "admitted" => c \notin opened]_vars
  <2> SUFFICES ASSUME TypeOK, ContInv, [Next]_vars, NEW c \in Keys,
                      conts[c].state # "admitted", conts'[c].state = "admitted"
               PROVE  c \notin opened
    OBVIOUS
  <2> QED
    BY ContSteps DEF ContStep, ContInv
<1> QED
  BY <1>1, <1>2, <1>3, TypeCorrect, PTL DEF Spec, OpensOnce

---------------------------------------------------------------------------
(* The cards.                                                               *)

\* A step leaves the revision and grants no card, or it is the owner's grant.
CardsStay ==
    /\ budget'.rev = budget.rev
    /\ \/ cards' = cards \/ cards' = CardsClosed
       \/ \E r, code : cards' = BlockedCards(r, code)
       \/ cards' = [cards EXCEPT ![budget.rev].state = "rejected"]

Grants ==
    /\ cards[budget.rev].state = "pending"
    /\ budget' = [budget EXCEPT !.rev = @ + 1, !.stepLimit = 2 * @, !.timeLimit = 2 * @]
    /\ cards' = [cards EXCEPT ![budget.rev].state = "approved"]

LEMMA CardSteps ==
    ASSUME TypeOK, [Next]_vars
    PROVE  CardsStay \/ Grants
<1>0. budget \in Budgets
  BY DEF TypeOK, Budgets
<1>1. CASE UNCHANGED vars
  BY <1>1 DEF vars, CardsStay
<1>2. ASSUME NEW s \in Sessions, TurnStep(s) PROVE CardsStay
  <2>1. budget'.rev = budget.rev
    BY <1>0, <1>2, Zenon DEF TurnStep, Call, Dispatch, DispatchRefused, Settle, Finish, TurnEnds, Budgets
  <2>2. cards' = cards \/ \E r, code : cards' = BlockedCards(r, code)
    BY <1>2, Zenon DEF TurnStep, Call, Dispatch, DispatchRefused, Settle, Finish, FinishOk, TurnEnds, Park
  <2> QED
    BY <2>1, <2>2 DEF CardsStay
<1>3. ASSUME OwnerTurn \/ \E k \in Kids : KidTurn(k) PROVE CardsStay
  <2>1. budget' = budget
    BY <1>3 DEF OwnerTurn, KidTurn
  <2>2. cards' = cards \/ \E r, code : cards' = BlockedCards(r, code)
    BY <1>3, Zenon DEF OwnerTurn, KidTurn, Refuse, Admit, Park
  <2> QED
    BY <2>1, <2>2 DEF CardsStay
<1>4. ASSUME NEW extend \in BOOLEAN, OwnerAnswer(extend) PROVE CardsStay \/ Grants
  BY <1>4 DEF OwnerAnswer, Answerable, CardsStay, Grants
<1>5. ASSUME OwnerResume PROVE CardsStay
  BY <1>5, Zenon DEF OwnerResume, Park, CardsStay
<1>6. CASE OwnerStep /\ ~OwnerTurn /\ ~OwnerResume /\ ~(\E extend \in BOOLEAN : OwnerAnswer(extend))
  BY <1>6 DEF OwnerStep, OwnerStop, OwnerPause, OwnerCancel, Stop, OwnerDisable,
     OwnerInspect, OwnerAccept, OwnerRepin, CardsStay
<1>7. ASSUME Crash \/ Shutdown \/ Boot \/ StopRest \/ ScopeChanges PROVE CardsStay
  <2>1. cards' = cards \/ cards' = CardsClosed
    BY <1>7 DEF Crash, Shutdown, Boot, StopRest, ScopeChanges
  <2>2. budget' = budget \/ \E ss : Cut(ss)
    BY <1>7 DEF Crash, Shutdown, Boot, StopRest, ScopeChanges
  <2>3. budget'.rev = budget.rev
    BY <1>0, <2>2 DEF Cut, Budgets
  <2> QED
    BY <2>1, <2>3 DEF CardsStay
<1>8. ASSUME Recover PROVE CardsStay
  <2>1. budget' = budget /\ (cards' = cards \/ \E r, code : cards' = BlockedCards(r, code))
    BY <1>8, Zenon DEF Recover, RecoverManual, RecoverAuto, Park
  <2> QED
    BY <2>1 DEF CardsStay
<1>9. ASSUME NEW c \in Keys, Pump(c) PROVE CardsStay
  <2>1. budget' = budget /\ (cards' = cards \/ \E r, code : cards' = BlockedCards(r, code))
    BY <1>9, Zenon DEF Pump, PumpRefused, PumpAdmits, Park, Admit
  <2> QED
    BY <2>1 DEF CardsStay
<1>10. CASE Next
  BY <1>2, <1>3, <1>4, <1>5, <1>6, <1>7, <1>8, <1>9, <1>10 DEF Next, OwnerStep, ProcessStep
<1> QED
  BY <1>1, <1>10

\* The cards the owner granted are those of the earlier revisions of the budget.
AnsweredOnce == \A b \in Revisions : cards[b].state = "approved" <=> b < budget.rev

\* A card that stays as it is, is closed, asked or rejected was not granted before.
LEMMA GrantedStay ==
    ASSUME TypeOK, AnsweredOnce, CardsStay
    PROVE  \A b \in Revisions : cards'[b].state = "approved" <=> cards[b].state = "approved"
<1>0. cards \in Cards /\ budget.rev \in Revisions
  BY TaskAssumption DEF TypeOK, Cards
<1>1. cards[budget.rev].state # "approved"
  BY <1>0 DEF AnsweredOnce, Revisions
<1>2. CASE cards' = CardsClosed
  BY <1>2 DEF CardsClosed
<1>3. ASSUME NEW r, NEW code, cards' = BlockedCards(r, code)
      PROVE  \A b \in Revisions : cards'[b].state = "approved" <=> cards[b].state = "approved"
  BY <1>0, <1>1, <1>3 DEF BlockedCards, Cards
<1>4. CASE cards' = [cards EXCEPT ![budget.rev].state = "rejected"]
  BY <1>0, <1>1, <1>4 DEF Cards
<1> QED
  BY <1>2, <1>3, <1>4 DEF CardsStay

LEMMA GrantFields ==
    ASSUME TypeOK, Grants
    PROVE  /\ budget'.rev = budget.rev + 1
           /\ budget'.stepLimit = 2 * budget.stepLimit /\ budget'.timeLimit = 2 * budget.timeLimit
           /\ budget.rev \in Revisions
           /\ \A b \in Revisions : cards'[b].state = "approved" <=> cards[b].state = "approved" \/ b = budget.rev
<1>0. cards \in Cards /\ budget.rev \in Revisions /\ budget \in Budgets
  BY TaskAssumption DEF TypeOK, Cards, Budgets
<1>1. /\ budget'.rev = budget.rev + 1
      /\ budget'.stepLimit = 2 * budget.stepLimit /\ budget'.timeLimit = 2 * budget.timeLimit
  BY <1>0 DEF Grants, Budgets
<1> QED
  BY <1>0, <1>1 DEF Grants, Cards

LEMMA AnsweredStep ==
    ASSUME TypeOK, AnsweredOnce, [Next]_vars
    PROVE  AnsweredOnce'
<1>1. CASE CardsStay
  BY <1>1, GrantedStay DEF CardsStay, AnsweredOnce
<1>2. CASE Grants
  BY <1>2, GrantFields DEF AnsweredOnce, Revisions
<1> QED
  BY <1>1, <1>2, CardSteps

\* The limits move with the revision and the cards, and with them only.
LEMMA LimitsStep ==
    ASSUME TypeOK, TurnRules, AnsweredOnce, [Next]_vars
    PROVE  LimitsStay \/ LimitsDoubled
<1>0. budget \in Budgets /\ budget.rev # budget.rev + 1
  BY TaskAssumption DEF TypeOK, Budgets, Revisions
<1>1. CASE Grants
  BY <1>1, GrantFields DEF Grants, LimitsDoubled, Granted
<1>2. CASE CardsStay
  <2>1. ~Extends
    BY <1>0, <1>2, BudgetFields DEF CardsStay
  <2>2. Quiet \/ Opens \/ Closes \/ Loses
    BY <2>1, BudgetMoves DEF BudgetMove
  <2>3. /\ budget'.rev = budget.rev
        /\ budget'.stepLimit = budget.stepLimit /\ budget'.timeLimit = budget.timeLimit
    BY <1>0, <2>2 DEF Quiet, Spending, Opens, Closes, Loses, Budgets
  <2> QED
    BY <1>2, <2>3, GrantedStay DEF LimitsStay, Granted
<1> QED
  BY <1>1, <1>2, CardSteps

\* The owner's grants and the revisions of the budget are one and the same: no card
\* is granted twice, and no revision appears without its grant.
THEOREM GrantsAnswered == Spec => []AnsweredOnce
<1>1. Init => AnsweredOnce
  BY DEF Init, AnsweredOnce, NoCard, Revisions
<1>2. IInv /\ AnsweredOnce /\ [Next]_vars => AnsweredOnce'
  BY AnsweredStep DEF IInv
<1> QED
  BY <1>1, <1>2, Invariance, PTL DEF Spec

\* The limits grow by the owner's answer to the one pending card of their revision,
\* by what they were, and by nothing else.
THEOREM LimitsGranted == Spec => GrantedOnce
<1>1. IInv /\ AnsweredOnce /\ [Next]_vars => [LimitsStay \/ LimitsDoubled]_vars
  BY LimitsStep DEF IInv, FenceInv
<1> QED
  BY <1>1, GrantsAnswered, Invariance, PTL DEF Spec, GrantedOnce
=============================================================================
