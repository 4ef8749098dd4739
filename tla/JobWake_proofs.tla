---------------------------- MODULE JobWake_proofs ----------------------------
(***************************************************************************)
(* Theorems about JobWake, for any set of jobs and any number of turns.     *)
(* The safety of the parked owner rests on two facts that no property names: *)
(* the order of the turns (TurnOrder), by which the task of the active turn *)
(* is the only one that can run, and the rule of sleep (AsleepRightly), by   *)
(* which a park with no callback to come has nothing to wake it.             *)
(***************************************************************************)
EXTENDS JobWake, TLAPS

Rows == [state : ParkStates, jobs : SUBSET Jobs, mode : Modes]
Live == {"candidate", "parked", "wake_claimed", "started"}
Read == {"none", "pending", "delivered"}

---------------------------------------------------------------------------
(* What the operators of the wake do to a row.                              *)

\* invalidate moves the live rows to s and leaves their wait alone.
LEMMA InvalidatedRows ==
    ASSUME parks \in [Turns -> Rows], NEW s \in ParkStates
    PROVE  /\ Invalidated(s) \in [Turns -> Rows]
           /\ \A t \in Turns : Invalidated(s)[t].state = IF parks[t].state \in Live THEN s ELSE parks[t].state
BY DEF Invalidated, Rows, Live

\* A wake is claimed for the park of the active turn only, when no task runs, the
\* jobs are admitted and a pending result satisfies the wait.
LEMMA OutcomeClaimed ==
    ASSUME NEW js, NEW rs, NEW ph, Outcome(js, rs, ph) = "claimed"
    PROVE  /\ ~Busy(ph) /\ Parked # {} /\ active = LatestParked
           /\ status # "running" /\ Valid(active, js)
           /\ \E j \in parks[active].jobs : rs[j] = "pending"
           /\ Satisfied(parks[active].mode, parks[active].jobs, js)
BY Zenon DEF Outcome

LEMMA OutcomeKinds ==
    ASSUME NEW js, NEW rs, NEW ph
    PROVE  Outcome(js, rs, ph) \in {"asleep", "blocked", "superseded", "claimed"}
BY Zenon DEF Outcome

\* What a notification may do: nothing, withdraw every live row, or claim.
LEMMA NotifyCases ==
    ASSUME NEW js, NEW rs, NEW ph, Notify(js, rs, ph)
    PROVE  /\ phase' = ph
           /\ UNCHANGED <<status, turns, active, current, wokenBy, invocation>>
           /\ \/ /\ Outcome(js, rs, ph) = "asleep"
                 /\ parks' = parks /\ result' = rs
              \/ /\ parks' \in {Invalidated("blocked"), Invalidated("superseded")}
                 /\ result' = rs
              \/ /\ Outcome(js, rs, ph) = "claimed"
                 /\ active = LatestParked
                 /\ parks' = [parks EXCEPT ![active].state = "wake_claimed"]
                 /\ result' = ReadOf(parks[active].jobs, rs)
<1>1. CASE Outcome(js, rs, ph) = "claimed"
  BY <1>1, OutcomeClaimed DEF Notify, Claim
<1>2. CASE Outcome(js, rs, ph) # "claimed"
  BY <1>2, OutcomeKinds DEF Notify
<1> QED
  BY <1>1, <1>2

LEMMA ReadTyped ==
    ASSUME NEW ids, NEW rs \in [Jobs -> Read]
    PROVE  ReadOf(ids, rs) \in [Jobs -> Read]
BY DEF ReadOf, Read

\* What the close of a turn may do to the rows: park the active candidate, which
\* then owes a callback, or withdraw every live row, or nothing.
LEMMA ParkCases ==
    ASSUME Park
    PROVE  \/ UNCHANGED <<parks, owed>>
           \/ /\ active # 0 /\ parks[active].state = "candidate" /\ Valid(active, job)
              /\ parks' = [parks EXCEPT ![active].state = "parked"]
              /\ owed' = owed \cup {active}
           \/ parks' = Invalidated("blocked") /\ UNCHANGED owed
BY DEF Park

\* A child that closes, or is asked for again, has its job projected, or leaves a
\* mark that it was not.
LEMMA ChildCases ==
    ASSUME NEW j \in Jobs, NEW s \in ClosedJobs, ChildCloses(j, s) \/ ProjectedAgain(j, s)
    PROVE  \/ Projects(j, s)
           \/ /\ unprojected' = unprojected \cup {j}
              /\ UNCHANGED <<turnVars, job, result, parks, wokenBy, invocation, waiting, owed, stopped, granted, stopping>>
BY DEF ChildCloses, ProjectedAgain

---------------------------------------------------------------------------
(* Type correctness.                                                        *)

USE DEF Read

LEMMA NotifyTyped ==
    ASSUME TypeOK, NEW js, NEW rs \in [Jobs -> Read], NEW ph \in [Turns -> Phases],
           Notify(js, rs, ph)
    PROVE  /\ parks' \in [Turns -> Rows] /\ result' \in [Jobs -> Read]
           /\ TurnsTypeOK' /\ wokenBy' = wokenBy /\ invocation' = invocation
<1>1. parks \in [Turns -> Rows] /\ TurnsTypeOK
  BY DEF TypeOK, Rows
<1>2. TurnsTypeOK'
  BY <1>1, NotifyCases DEF TurnsTypeOK
<1>3. result' \in [Jobs -> Read]
  BY NotifyCases, ReadTyped
<1>4. Invalidated("blocked") \in [Turns -> Rows] /\ Invalidated("superseded") \in [Turns -> Rows]
  BY <1>1, InvalidatedRows DEF ParkStates
<1>5. [parks EXCEPT ![active].state = "wake_claimed"] \in [Turns -> Rows]
  BY <1>1 DEF Rows, ParkStates
<1> QED
  BY <1>1, <1>2, <1>3, <1>4, <1>5, NotifyCases

LEMMA InitTypeOK == Init => TypeOK
<1> SUFFICES ASSUME Init PROVE TypeOK
  OBVIOUS
<1>1. TurnsTypeOK
  BY MaxTurnAssumption DEF Init, TurnsInit, TurnsTypeOK, Turns, Statuses, Phases
<1>2. parks \in [Turns -> Rows] /\ waiting \in Waits
  BY DEF Init, NoPark, NoWait, Rows, ParkStates, Modes, Waits
<1>3. wokenBy \in [Turns -> 0..MaxTurn] /\ invocation \in 0..MaxTurn
  BY MaxTurnAssumption DEF Init
<1> QED
  BY <1>1, <1>2, <1>3 DEF Init, TypeOK, Rows

LEMMA ParkTyped ==
    ASSUME TypeOK, Park
    PROVE  parks' \in [Turns -> Rows] /\ owed' \subseteq Turns
<1>1. parks \in [Turns -> Rows] /\ active \in 0..MaxTurn /\ owed \subseteq Turns
  BY DEF TypeOK, Rows, TurnsTypeOK
<1>2. Invalidated("blocked") \in [Turns -> Rows]
  BY <1>1, InvalidatedRows DEF ParkStates
<1>3. [parks EXCEPT ![active].state = "parked"] \in [Turns -> Rows]
  BY <1>1 DEF Rows, ParkStates
<1>4. active # 0 => active \in Turns
  BY <1>1, MaxTurnAssumption DEF Turns
<1> QED
  BY <1>1, <1>2, <1>3, <1>4, ParkCases

LEMMA OpenTurnTyped ==
    ASSUME TurnsTypeOK, OpenTurn
    PROVE  TurnsTypeOK' /\ turns + 1 \in Turns
BY MaxTurnAssumption DEF TurnsTypeOK, OpenTurn, OpenTurnFrom, Turns, Statuses, Phases

LEMMA CloseTurnTyped ==
    ASSUME TurnsTypeOK, NEW t, NEW s \in Ends, CloseTurn(t, s)
    PROVE  TurnsTypeOK'
BY DEF TurnsTypeOK, CloseTurn, Statuses, Phases

LEMMA StartClaimedTyped ==
    ASSUME TypeOK, NEW p \in Turns, StartClaimed(p)
    PROVE  TypeOK'
<1>1. parks \in [Turns -> Rows] /\ TurnsTypeOK /\ p \in 0..MaxTurn
  BY MaxTurnAssumption DEF TypeOK, Rows, Turns
<1>2. UNCHANGED <<job, unprojected, result, waiting, owed, stopped, granted, stopping>>
  BY DEF StartClaimed
<1>3. CASE OpenTurn /\ parks' = [parks EXCEPT ![p].state = "started"]
           /\ wokenBy' = [wokenBy EXCEPT ![turns + 1] = p] /\ invocation' = p
  <2>1. parks' \in [Turns -> Rows]
    BY <1>1, <1>3 DEF Rows, ParkStates
  <2>2. TurnsTypeOK' /\ wokenBy' \in [Turns -> 0..MaxTurn]
    BY <1>1, <1>3, OpenTurnTyped DEF TypeOK
  <2> QED
    BY <1>1, <1>2, <1>3, <2>1, <2>2 DEF TypeOK, Rows
<1>4. CASE /\ parks' \in {OutcomeUnknown(p), Invalidated("blocked")}
           /\ invocation' \in {invocation, p} /\ UNCHANGED <<turnVars, wokenBy>>
  <2>1. parks' \in [Turns -> Rows]
    BY <1>1, <1>4, InvalidatedRows DEF OutcomeUnknown, ParkStates
  <2>2. TurnsTypeOK'
    BY <1>1, <1>4 DEF TurnsTypeOK, turnVars
  <2> QED
    BY <1>1, <1>2, <1>4, <2>1, <2>2 DEF TypeOK, Rows
<1> QED
  BY <1>3, <1>4 DEF StartClaimed

LEMMA TurnStepTyped == TypeOK /\ TurnStep => TypeOK'
<1> SUFFICES ASSUME TypeOK, TurnStep PROVE TypeOK'
  OBVIOUS
<1>0. parks \in [Turns -> Rows] /\ TurnsTypeOK /\ result \in [Jobs -> Read]
  BY DEF TypeOK, Rows
<1>1. ASSUME NEW j \in Jobs, StartJob(j) \/ CancelJob(j) PROVE TypeOK'
  BY <1>1, <1>0 DEF StartJob, CancelJob, TypeOK, turnVars, TurnsTypeOK, OpenJobs
<1>2. ASSUME NEW w \in Waits, WaitJobs(w) PROVE TypeOK'
  <2>1. result' \in [Jobs -> Read] /\ waiting' \in Waits
    BY <1>0, <1>2, ReadTyped DEF WaitJobs, Waits, NoWait, Modes
  <2> QED
    BY <1>2, <2>1 DEF WaitJobs, TypeOK, turnVars, TurnsTypeOK
<1>3. CASE WaitTimeout
  <2>1. parks' \in [Turns -> Rows]
    BY <1>0, <1>3 DEF WaitTimeout, TypeOK, Waits, Rows, ParkStates
  <2>2. waiting' \in Waits
    BY <1>3 DEF WaitTimeout, Waits, NoWait, Modes
  <2> QED
    BY <1>3, <2>1, <2>2 DEF WaitTimeout, TypeOK, Rows, turnVars, TurnsTypeOK
<1>4. NoWait \in Waits
  BY DEF Waits, NoWait, Modes
<1>5. ASSUME NEW t \in Turns, Complete(t) PROVE TypeOK'
  BY <1>0, <1>5, ParkTyped, CloseTurnTyped DEF Complete, TypeOK, Rows, Ends
<1>6. ASSUME NEW t \in Turns, ParkPartial(t) PROVE TypeOK'
  <2>1. TurnsTypeOK'
    BY <1>0, <1>6 DEF ParkPartial, WrapTurn, TurnsTypeOK, Phases
  <2> QED
    BY <1>4, <1>6, <2>1, ParkTyped DEF ParkPartial, TypeOK, Rows
<1>7. ASSUME NEW t \in Turns, CompletePartial(t) PROVE TypeOK'
  BY <1>0, <1>7, CloseTurnTyped DEF CompletePartial, TypeOK, Ends, wakeVars
<1>8. ASSUME NEW t \in Turns, Fail(t) PROVE TypeOK'
  BY <1>0, <1>4, <1>8, CloseTurnTyped DEF Fail, TypeOK, Ends
<1>9. ASSUME NEW t \in Turns, EndTask(t) PROVE TypeOK'
  BY <1>0, <1>9 DEF EndTask, TypeOK, wakeVars, TurnsTypeOK, Phases
<1> QED
  BY <1>1, <1>2, <1>3, <1>5, <1>6, <1>7, <1>8, <1>9 DEF TurnStep

LEMMA ProjectsTyped ==
    ASSUME TypeOK, NEW j \in Jobs, NEW s \in ClosedJobs, Projects(j, s)
    PROVE  TypeOK'
<1> DEFINE final == IF job[j] = "cancelling" \/ ~Admitted THEN "cancelled" ELSE s
           js == [job EXCEPT ![j] = final]
           rs == [result EXCEPT ![j] = "pending"]
<1>1. rs \in [Jobs -> Read] /\ phase \in [Turns -> Phases]
  BY DEF TypeOK, TurnsTypeOK
<1>2. final \in ClosedJobs
  BY DEF ClosedJobs
<1>3. js \in [Jobs -> {"absent"} \cup OpenJobs \cup ClosedJobs]
  BY <1>2 DEF TypeOK
<1>4. job' = js /\ Notify(js, rs, phase)
  BY DEF Projects
<1> QED
  BY <1>1, <1>3, <1>4, NotifyTyped DEF Projects, TypeOK, Rows

LEMMA ChildStepTyped ==
    ASSUME TypeOK, NEW j \in Jobs, NEW s \in ClosedJobs, ChildCloses(j, s) \/ ProjectedAgain(j, s)
    PROVE  TypeOK'
<1>1. CASE /\ unprojected' = unprojected \cup {j}
           /\ UNCHANGED <<turnVars, job, result, parks, wokenBy, invocation, waiting, owed, stopped, granted, stopping>>
  BY <1>1 DEF TypeOK, turnVars, TurnsTypeOK
<1> QED
  BY <1>1, ChildCases, ProjectsTyped

LEMMA StopTyped == TypeOK /\ (StopBarrier \/ StopCancel) => TypeOK'
<1> SUFFICES ASSUME TypeOK, StopBarrier \/ StopCancel PROVE TypeOK'
  OBVIOUS
<1>0. parks \in [Turns -> Rows] /\ TurnsTypeOK /\ NoWait \in Waits
  BY DEF TypeOK, Rows, NoWait, Waits, Modes
<1>1. CASE StopBarrier
  <2>1. parks' \in [Turns -> Rows]
    BY <1>0, <1>1, InvalidatedRows DEF StopBarrier, ParkStates
  <2> QED
    BY <1>0, <1>1, <2>1 DEF StopBarrier, TypeOK, Rows, turnVars, TurnsTypeOK, OpenJobs
<1>2. CASE StopCancel
  <2>1. TurnsTypeOK' /\ waiting' \in Waits
    BY <1>0, <1>2, CloseTurnTyped DEF StopCancel, TypeOK, turnVars, TurnsTypeOK, Phases, Ends
  <2> QED
    BY <1>2, <2>1 DEF StopCancel, TypeOK
<1> QED
  BY <1>1, <1>2

LEMMA RestartTyped == TypeOK /\ Restart => TypeOK'
<1> SUFFICES ASSUME TypeOK, Restart PROVE TypeOK'
  OBVIOUS
<1>1. TurnsTypeOK'
  BY MaxTurnAssumption DEF TypeOK, Restart, RestartTurns, TurnsTypeOK, Statuses, Phases
<1>2. parks' \in [Turns -> Rows]
  BY DEF TypeOK, Restart, Rows, ParkStates
<1>3. job' \in [Jobs -> {"absent"} \cup OpenJobs \cup ClosedJobs]
  BY DEF TypeOK, Restart, ClosedJobs
<1>4. waiting' \in Waits /\ invocation' \in 0..MaxTurn
  BY MaxTurnAssumption DEF Restart, NoWait, Waits, Modes
<1> QED
  BY <1>1, <1>2, <1>3, <1>4 DEF TypeOK, Restart, Rows

LEMMA NextTypeOK == TypeOK /\ [Next]_vars => TypeOK'
<1> SUFFICES ASSUME TypeOK, [Next]_vars PROVE TypeOK'
  OBVIOUS
<1>0. parks \in [Turns -> Rows] /\ TurnsTypeOK /\ result \in [Jobs -> Read]
  BY DEF TypeOK, Rows
<1>1. ASSUME NEW t \in Turns, Callback(t) PROVE TypeOK'
  <2>1. phase \in [Turns -> Phases]
    BY DEF TypeOK, TurnsTypeOK
  <2> QED
    BY <1>0, <1>1, <2>1, NotifyTyped DEF Callback, TypeOK, Rows
<1>2. ASSUME NEW j \in Jobs, ChildRefused(j) PROVE TypeOK'
  BY <1>2 DEF ChildRefused, TypeOK, OpenJobs, turnVars, TurnsTypeOK
<1>3. CASE UserTurn
  <2>1. parks' \in [Turns -> Rows]
    BY <1>0, <1>3, InvalidatedRows DEF UserTurn, ParkStates
  <2>2. TurnsTypeOK' /\ 0 \in 0..MaxTurn
    BY <1>0, <1>3, MaxTurnAssumption, OpenTurnTyped DEF UserTurn
  <2> QED
    BY <1>3, <2>1, <2>2 DEF UserTurn, TypeOK, Rows
<1>4. CASE BusyTurn
  BY <1>4, MaxTurnAssumption DEF BusyTurn, TypeOK, turnVars, TurnsTypeOK
<1>5. ASSUME NEW b \in BOOLEAN, Regrant(b) PROVE TypeOK'
  BY <1>5 DEF Regrant, TypeOK, turnVars, TurnsTypeOK
<1>6. CASE UNCHANGED vars
  BY <1>6 DEF vars, turnVars, wakeVars, TypeOK, TurnsTypeOK
<1> QED
  BY <1>1, <1>2, <1>3, <1>4, <1>5, <1>6, TurnStepTyped, StartClaimedTyped, ChildStepTyped, StopTyped,
     RestartTyped DEF Next

\* Every column of the park, every job and every turn keeps its declared values,
\* however many turns the owner opens.
THEOREM TypeCorrect == Spec => []TypeOK
<1>1. Init => TypeOK
  BY InitTypeOK
<1>2. TypeOK /\ [Next]_vars => TypeOK'
  BY NextTypeOK
<1> QED
  BY <1>1, <1>2, PTL DEF Spec

---------------------------------------------------------------------------
(* The order of the turns.                                                  *)

\* The active turn is the last one opened, its task is the one rt.tasks holds,
\* and no other task runs; a turn that a wake opened came after the one that
\* parked. Only a restart forgets the active turn.
TurnOrder ==
    /\ active \in {0, turns} /\ current = active
    /\ \A t \in Turns : t > turns => phase[t] = "unborn"
    /\ \A t \in Turns : Runs(t) => t = current /\ status = "running"
    /\ status = "running" => current # 0 /\ Runs(current)
    /\ \A u \in Turns : wokenBy[u] # 0 => wokenBy[u] < u /\ u <= turns

\* What a step may do to the turns of the owner.
LEMMA TurnMoves ==
    ASSUME TypeOK, [Next]_vars
    PROVE  \/ UNCHANGED <<turnVars, wokenBy>>
           \/ OpenTurn /\ UNCHANGED wokenBy
           \/ \E p \in Turns : /\ StartClaimed(p) /\ OpenTurn
                                /\ wokenBy' = [wokenBy EXCEPT ![turns + 1] = p]
           \/ \E t \in Turns : WrapTurn(t) /\ UNCHANGED wokenBy
           \/ \E t \in Turns, s \in Ends : CloseTurn(t, s) /\ UNCHANGED wokenBy
           \/ \E t \in Turns : /\ phase[t] = "closing" /\ phase' = [phase EXCEPT ![t] = "over"]
                                /\ UNCHANGED <<status, turns, active, current, wokenBy>>
           \/ RestartTurns /\ UNCHANGED wokenBy
<1>1. CASE TurnStep
  <2>1. ASSUME NEW t \in Turns, Complete(t) \/ CompletePartial(t) \/ Fail(t)
        PROVE  \E s \in Ends : CloseTurn(t, s) /\ UNCHANGED wokenBy
    BY <2>1 DEF Complete, CompletePartial, Fail, Ends, wakeVars
  <2> QED
    BY <1>1, <2>1 DEF TurnStep, StartJob, CancelJob, WaitJobs, WaitTimeout, ParkPartial, EndTask, wakeVars
<1>2. ASSUME NEW j \in Jobs, NEW s \in ClosedJobs, ChildCloses(j, s) \/ ProjectedAgain(j, s)
      PROVE  UNCHANGED <<turnVars, wokenBy>>
  BY <1>2, ChildCases, NotifyCases DEF Projects, turnVars
<1>3. ASSUME NEW t \in Turns, Callback(t) PROVE UNCHANGED <<turnVars, wokenBy>>
  BY <1>3, NotifyCases DEF Callback, turnVars
<1>4. CASE StopCancel
  <2>1. current \in 0..MaxTurn
    BY DEF TypeOK, TurnsTypeOK
  <2>2. current # 0 => current \in Turns
    BY <2>1, MaxTurnAssumption DEF Turns
  <2> QED
    BY <1>4, <2>2 DEF StopCancel, Busy, Ends, turnVars
<1>5. CASE UserTurn \/ BusyTurn \/ StopBarrier \/ Restart
  BY <1>5 DEF UserTurn, BusyTurn, StopBarrier, Restart
<1>6. ASSUME NEW p \in Turns, StartClaimed(p)
      PROVE  \/ UNCHANGED <<turnVars, wokenBy>>
             \/ OpenTurn /\ wokenBy' = [wokenBy EXCEPT ![turns + 1] = p]
  BY <1>6 DEF StartClaimed
<1>7. ASSUME NEW b \in BOOLEAN, Regrant(b) PROVE UNCHANGED <<turnVars, wokenBy>>
  BY <1>7 DEF Regrant
<1>8. ASSUME NEW j \in Jobs, ChildRefused(j) PROVE UNCHANGED <<turnVars, wokenBy>>
  BY <1>8 DEF ChildRefused
<1>9. CASE UNCHANGED vars
  BY <1>9 DEF vars, wakeVars
<1> QED
  BY <1>1, <1>2, <1>3, <1>4, <1>5, <1>6, <1>7, <1>8, <1>9 DEF Next

LEMMA InitTurnOrder == Init => TurnOrder
BY MaxTurnAssumption DEF Init, TurnsInit, TurnOrder, Runs, Turns

LEMMA NextTurnOrder == TypeOK /\ TurnOrder /\ [Next]_vars => TurnOrder'
<1> SUFFICES ASSUME TypeOK, TurnOrder, [Next]_vars PROVE TurnOrder'
  OBVIOUS
<1>0. /\ turns \in 0..MaxTurn /\ active \in 0..MaxTurn /\ phase \in [Turns -> Phases]
      /\ current \in 0..MaxTurn /\ wokenBy \in [Turns -> 0..MaxTurn] /\ MaxTurn \in Nat
      /\ Turns = 1..MaxTurn
  BY MaxTurnAssumption DEF TypeOK, TurnsTypeOK, Turns
<1>1. CASE UNCHANGED <<turnVars, wokenBy>>
  BY <1>1 DEF turnVars, TurnOrder, Runs
<1>2. ASSUME OpenTurn
      PROVE  /\ active' = turns' /\ current' = active' /\ turns' = turns + 1 /\ turns + 1 \in Turns
             /\ \A t \in Turns : t > turns' => phase'[t] = "unborn"
             /\ \A t \in Turns : Runs(t)' => t = current' /\ status' = "running"
             /\ status' = "running" /\ current' # 0 /\ Runs(current)'
  BY <1>0, <1>2 DEF OpenTurn, OpenTurnFrom, TurnOrder, Runs
<1>3. CASE OpenTurn /\ UNCHANGED wokenBy
  BY <1>0, <1>2, <1>3 DEF TurnOrder
<1>4. ASSUME NEW p \in Turns, StartClaimed(p), OpenTurn, wokenBy' = [wokenBy EXCEPT ![turns + 1] = p]
      PROVE  TurnOrder'
  <2>1. p = turns
    BY <1>0, <1>4 DEF StartClaimed, TurnOrder
  <2> QED
    BY <1>0, <1>2, <1>4, <2>1 DEF TurnOrder
<1>5. ASSUME NEW t \in Turns, WrapTurn(t), UNCHANGED wokenBy PROVE TurnOrder'
  BY <1>0, <1>5 DEF WrapTurn, TurnOrder, Runs
<1>6. ASSUME NEW t \in Turns, NEW s \in Ends, CloseTurn(t, s), UNCHANGED wokenBy PROVE TurnOrder'
  BY <1>0, <1>6 DEF CloseTurn, TurnOrder, Runs, Ends
<1>7. ASSUME NEW t \in Turns, phase[t] = "closing", phase' = [phase EXCEPT ![t] = "over"],
             UNCHANGED <<status, turns, active, current, wokenBy>>
      PROVE  TurnOrder'
  BY <1>0, <1>7 DEF TurnOrder, Runs
<1>8. CASE RestartTurns /\ UNCHANGED wokenBy
  BY <1>0, <1>8 DEF RestartTurns, TurnOrder, Runs
<1> QED
  BY <1>1, <1>3, <1>4, <1>5, <1>6, <1>7, <1>8, TurnMoves

\* A wake opens its turn only when the task that parked is over and none runs.
LEMMA NextWakeAfterTask ==
    ASSUME TypeOK, TurnOrder, [Next]_vars,
           NEW u \in Turns, wokenBy[u] = 0, wokenBy'[u] # 0
    PROVE  phase[wokenBy'[u]] = "over" /\ \A t \in Turns : ~Runs(t)
<1>1. PICK p \in Turns : StartClaimed(p) /\ wokenBy' = [wokenBy EXCEPT ![turns + 1] = p]
  BY TurnMoves
<1>2. wokenBy'[u] = p
  BY <1>1 DEF TypeOK
<1>3. current = p /\ p # 0 /\ ~Busy(phase)
  BY <1>1, MaxTurnAssumption DEF StartClaimed, TurnOrder, Turns
<1>4. phase[p] = "over"
  BY <1>3 DEF Busy
<1> QED
  BY <1>2, <1>3, <1>4 DEF TurnOrder, Runs

---------------------------------------------------------------------------
(* The rows of the owner.                                                   *)

LEMMA LatestIsActive ==
    ASSUME TypeOK, OneSubscription, Parked # {}
    PROVE  LatestParked = active /\ active \in Parked
<1>1. PICK t \in Parked : TRUE
  OBVIOUS
<1>2. active \in Parked /\ \A u \in Parked : u = active
  BY <1>1 DEF Parked, OneSubscription
<1>3. active <= active
  BY DEF TypeOK, TurnsTypeOK
<1>4. \A u \in Parked : u <= active
  BY <1>2, <1>3
<1>5. LatestParked \in Parked
  BY <1>2, <1>4 DEF LatestParked
<1> QED
  BY <1>2, <1>5

\* What a step may do to the rows, and what it then leaves alone.
LEMMA RowMoves ==
    ASSUME TypeOK, OneSubscription, [Next]_vars
    PROVE  \/ UNCHANGED <<parks, active, wokenBy>>
           \/ \E s \in {"blocked", "superseded", "stopped", "start_unknown"} : parks' = Invalidated(s)
           \/ /\ UNCHANGED <<active, wokenBy, stopped>> /\ active \in Parked /\ Valid(active, job')
              /\ parks' = [parks EXCEPT ![active].state = "wake_claimed"]
           \/ /\ UNCHANGED <<active, wokenBy, stopped>> /\ active \in Turns
              /\ parks[active].state = "candidate" /\ Valid(active, job)
              /\ parks' = [parks EXCEPT ![active].state = "parked"]
              /\ owed' = owed \cup {active}
           \/ /\ UNCHANGED <<active, wokenBy>>
              /\ parks[active].state \in {"none", "candidate"}
              /\ parks' = [parks EXCEPT ![active] = [state |-> "candidate", jobs |-> waiting.jobs,
                                                     mode |-> waiting.mode]]
           \/ \E p \in Turns : /\ parks[p].state = "wake_claimed"
                                /\ parks' = [parks EXCEPT ![p].state = "started"]
           \/ Restart
<1>0. active # 0 => active \in Turns
  BY MaxTurnAssumption DEF TypeOK, TurnsTypeOK, Turns
<1>1. CASE TurnStep
  <2>1. ASSUME NEW t \in Turns, Complete(t) \/ ParkPartial(t)
        PROVE  Park /\ UNCHANGED <<active, wokenBy, stopped>>
    BY <2>1 DEF Complete, ParkPartial, CloseTurn, WrapTurn
  <2>2. ASSUME NEW t \in Turns, CompletePartial(t) \/ Fail(t) \/ EndTask(t)
        PROVE  UNCHANGED <<parks, active, wokenBy>>
    BY <2>2 DEF CompletePartial, Fail, EndTask, CloseTurn, wakeVars
  <2>3. ASSUME NEW j \in Jobs, StartJob(j) \/ CancelJob(j) PROVE UNCHANGED <<parks, active, wokenBy>>
    BY <2>3 DEF StartJob, CancelJob, turnVars
  <2>4. ASSUME NEW w \in Waits, WaitJobs(w) PROVE UNCHANGED <<parks, active, wokenBy>>
    BY <2>4 DEF WaitJobs, turnVars
  <2>5. CASE WaitTimeout
    BY <2>5 DEF WaitTimeout, turnVars
  <2> QED
    BY <1>0, <1>1, <2>1, <2>2, <2>3, <2>4, <2>5, ParkCases DEF TurnStep
<1>2. ASSUME NEW j \in Jobs, NEW s \in ClosedJobs, ChildCloses(j, s) \/ ProjectedAgain(j, s)
      PROVE  /\ \/ \E rs : Notify(job', rs, phase)
                \/ UNCHANGED <<parks, active, wokenBy>>
             /\ UNCHANGED stopped
  BY <1>2, ChildCases DEF Projects, turnVars
<1>3. ASSUME NEW t \in Turns, Callback(t)
      PROVE  /\ \E rs : Notify(job', rs, phase)
             /\ UNCHANGED stopped
  BY <1>3 DEF Callback
<1>4. ASSUME NEW rs, Notify(job', rs, phase), UNCHANGED stopped
      PROVE  \/ UNCHANGED <<parks, active, wokenBy>>
             \/ \E s \in {"blocked", "superseded"} : parks' = Invalidated(s)
             \/ /\ UNCHANGED <<active, wokenBy, stopped>> /\ active \in Parked /\ Valid(active, job')
                /\ parks' = [parks EXCEPT ![active].state = "wake_claimed"]
  BY <1>4, NotifyCases, OutcomeClaimed, LatestIsActive
<1>5. ASSUME NEW p \in Turns, StartClaimed(p)
      PROVE  \/ \E s \in {"blocked", "start_unknown"} : parks' = Invalidated(s)
             \/ parks[p].state = "wake_claimed" /\ parks' = [parks EXCEPT ![p].state = "started"]
  BY <1>5 DEF StartClaimed, OutcomeUnknown
<1>6. CASE StopCancel
  BY <1>6 DEF StopCancel, CloseTurn, turnVars
<1>7. CASE UserTurn \/ BusyTurn \/ StopBarrier
  BY <1>7 DEF UserTurn, BusyTurn, StopBarrier, turnVars
<1>8. ASSUME NEW b \in BOOLEAN, Regrant(b) PROVE UNCHANGED <<parks, active, wokenBy>>
  BY <1>8 DEF Regrant, turnVars
<1>9. ASSUME NEW j \in Jobs, ChildRefused(j) PROVE UNCHANGED <<parks, active, wokenBy>>
  BY <1>9 DEF ChildRefused, turnVars
<1>10. CASE UNCHANGED vars
  BY <1>10 DEF vars, wakeVars, turnVars
<1> QED
  BY <1>1, <1>2, <1>3, <1>4, <1>5, <1>6, <1>7, <1>8, <1>9, <1>10 DEF Next

\* What Invalidated and Restart leave is no subscription.
LEMMA Withdrawn ==
    ASSUME TypeOK, NEW t \in Turns,
           \/ \E s \in {"blocked", "superseded", "stopped", "start_unknown"} : parks' = Invalidated(s)
           \/ Restart
    PROVE  parks'[t].state \notin {"candidate", "parked", "wake_claimed"}
<1>1. parks \in [Turns -> Rows]
  BY DEF TypeOK, Rows
<1>2. CASE Restart
  BY <1>1, <1>2 DEF Restart, Rows
<1>3. ASSUME NEW s \in {"blocked", "superseded", "stopped", "start_unknown"}, parks' = Invalidated(s)
      PROVE  parks'[t].state \notin {"candidate", "parked", "wake_claimed"}
  <2>1. s \in ParkStates
    BY DEF ParkStates
  <2> QED
    BY <1>1, <1>3, <2>1, InvalidatedRows DEF Live
<1> QED
  BY <1>2, <1>3

LEMMA NextNeverRevived ==
    ASSUME TypeOK, OneSubscription, [Next]_vars,
           NEW t \in Turns, parks[t].state \notin {"none", "candidate", "parked"}
    PROVE  parks'[t].state \notin {"candidate", "parked"}
<1>1. parks \in [Turns -> Rows]
  BY DEF TypeOK, Rows
<1>2. ASSUME NEW a, NEW s \in ParkStates, parks' = [parks EXCEPT ![a].state = s]
      PROVE  parks'[t].state = IF t = a THEN s ELSE parks[t].state
  BY <1>1, <1>2 DEF Rows
<1>3. CASE /\ active \in Parked /\ parks' = [parks EXCEPT ![active].state = "wake_claimed"]
  BY <1>2, <1>3 DEF ParkStates, Parked
<1>4. CASE parks[active].state = "candidate" /\ parks' = [parks EXCEPT ![active].state = "parked"]
  BY <1>2, <1>4 DEF ParkStates
<1>5. CASE /\ parks[active].state \in {"none", "candidate"}
           /\ parks' = [parks EXCEPT ![active] = [state |-> "candidate", jobs |-> waiting.jobs,
                                                  mode |-> waiting.mode]]
  BY <1>1, <1>5
<1>6. ASSUME NEW p \in Turns, parks[p].state = "wake_claimed",
             parks' = [parks EXCEPT ![p].state = "started"]
      PROVE  parks'[t].state \notin {"candidate", "parked"}
  BY <1>2, <1>6 DEF ParkStates
<1> QED
  BY <1>3, <1>4, <1>5, <1>6, RowMoves, Withdrawn

LEMMA NextOneSubscription ==
    TypeOK /\ TurnOrder /\ OneSubscription /\ [Next]_vars => OneSubscription'
<1> SUFFICES ASSUME TypeOK, TurnOrder, OneSubscription, [Next]_vars,
                    NEW t \in Turns, parks'[t].state \in {"parked", "wake_claimed"}
             PROVE  t = active' /\ \A u \in Turns : wokenBy'[u] # t
  BY DEF OneSubscription
<1>1. parks \in [Turns -> Rows]
  BY DEF TypeOK, Rows
<1>2. ASSUME NEW a, NEW s \in ParkStates, parks' = [parks EXCEPT ![a].state = s]
      PROVE  parks'[t].state = IF t = a THEN s ELSE parks[t].state
  BY <1>1, <1>2 DEF Rows
<1>3. CASE UNCHANGED <<parks, active, wokenBy>>
  BY <1>3 DEF OneSubscription
<1>4. CASE /\ UNCHANGED <<active, wokenBy>> /\ active \in Parked
           /\ parks' = [parks EXCEPT ![active].state = "wake_claimed"]
  BY <1>2, <1>4 DEF ParkStates, Parked, OneSubscription
<1>5. CASE /\ UNCHANGED <<active, wokenBy>> /\ active \in Turns
           /\ parks' = [parks EXCEPT ![active].state = "parked"]
  <2>1. \A u \in Turns : wokenBy[u] # active
    BY <1>5, MaxTurnAssumption DEF TurnOrder, TypeOK, TurnsTypeOK, Turns
  <2> QED
    BY <1>2, <1>5, <2>1 DEF ParkStates, OneSubscription
<1>6. CASE /\ UNCHANGED <<active, wokenBy>>
           /\ parks' = [parks EXCEPT ![active] = [state |-> "candidate", jobs |-> waiting.jobs,
                                                  mode |-> waiting.mode]]
  BY <1>1, <1>6 DEF OneSubscription
<1>7. ASSUME NEW p \in Turns, parks[p].state = "wake_claimed",
             parks' = [parks EXCEPT ![p].state = "started"]
      PROVE  FALSE
  <2>1. parks'[p].state = "started" /\ (t # p => parks'[t] = parks[t])
    BY <1>1, <1>7 DEF Rows
  <2> QED
    BY <1>7, <2>1 DEF OneSubscription
<1> QED
  BY <1>3, <1>4, <1>5, <1>6, <1>7, RowMoves, Withdrawn

\* A job that Stop asked to cancel is never open again while the mark stands.
LEMMA NextJobsStopped ==
    ASSUME TypeOK, StopWins, [Next]_vars, stopped', NEW j \in Jobs
    PROVE  job'[j] # "open"
<1>1. CASE TurnStep
  BY <1>1 DEF TurnStep, StartJob, CancelJob, WaitJobs, WaitTimeout, Complete, ParkPartial, CompletePartial,
     Fail, EndTask, wakeVars, StopWins, TypeOK
<1>2. ASSUME NEW i \in Jobs, NEW s \in ClosedJobs, ChildCloses(i, s) \/ ProjectedAgain(i, s)
      PROVE  job'[j] # "open"
  <2>1. CASE Projects(i, s)
    <3>1. PICK final \in ClosedJobs : job' = [job EXCEPT ![i] = final]
      BY <2>1 DEF Projects, ClosedJobs
    <3> QED
      BY <2>1, <3>1 DEF Projects, StopWins, TypeOK, ClosedJobs
  <2>2. CASE UNCHANGED <<job, stopped>>
    BY <2>2 DEF StopWins
  <2> QED
    BY <1>2, <2>1, <2>2, ChildCases
<1>3. CASE \E t \in Turns : Callback(t) \/ StartClaimed(t)
  BY <1>3 DEF Callback, StartClaimed, StopWins
<1>4. CASE UserTurn \/ BusyTurn \/ StopBarrier \/ StopCancel \/ Restart
  BY <1>4 DEF UserTurn, BusyTurn, StopBarrier, StopCancel, Restart, StopWins, TypeOK
<1>5. CASE (\E b \in BOOLEAN : Regrant(b)) \/ \E i \in Jobs : ChildRefused(i)
  BY <1>5 DEF Regrant, ChildRefused, StopWins, TypeOK
<1>6. CASE UNCHANGED vars
  BY <1>6 DEF vars, wakeVars, StopWins
<1> QED
  BY <1>1, <1>2, <1>3, <1>4, <1>5, <1>6 DEF Next

\* The Stop mark is set by Stop alone, which withdraws every row.
LEMMA StopMark ==
    ASSUME TypeOK, [Next]_vars, stopped'
    PROVE  stopped \/ parks' = Invalidated("stopped")
<1>1. CASE TurnStep
  BY <1>1 DEF TurnStep, StartJob, CancelJob, WaitJobs, WaitTimeout, Complete, ParkPartial, CompletePartial,
     Fail, EndTask, wakeVars
<1>2. ASSUME NEW j \in Jobs, NEW s \in ClosedJobs, ChildCloses(j, s) \/ ProjectedAgain(j, s)
      PROVE  UNCHANGED stopped
  BY <1>2, ChildCases DEF Projects
<1> QED
  BY <1>1, <1>2 DEF Next, Callback, StartClaimed, ChildRefused, UserTurn, BusyTurn, Regrant, StopBarrier,
     StopCancel, Restart, vars, wakeVars

LEMMA NextStopWins ==
    TypeOK /\ OneSubscription /\ StopWins /\ [Next]_vars => StopWins'
<1> SUFFICES ASSUME TypeOK, OneSubscription, StopWins, [Next]_vars, stopped', NEW t \in Turns
             PROVE  parks'[t].state \notin {"parked", "wake_claimed"}
  BY NextJobsStopped DEF StopWins
<1>1. CASE parks' = Invalidated("stopped")
  BY <1>1, Withdrawn
<1>2. CASE stopped
  <2>1. parks \in [Turns -> Rows] /\ parks[t].state \notin {"parked", "wake_claimed"}
    BY <1>2 DEF TypeOK, Rows, StopWins
  <2>2. \A a, js : ~Valid(a, js)
    BY <1>2 DEF Valid
  <2>3. CASE parks' = [parks EXCEPT ![active] = [state |-> "candidate", jobs |-> waiting.jobs,
                                                 mode |-> waiting.mode]]
    BY <2>1, <2>3
  <2>4. ASSUME NEW p \in Turns, parks[p].state = "wake_claimed" PROVE FALSE
    BY <1>2, <2>4 DEF StopWins
  <2> QED
    BY <2>1, <2>2, <2>3, <2>4, RowMoves, Withdrawn
<1> QED
  BY <1>1, <1>2, StopMark

---------------------------------------------------------------------------
(* The rule of sleep.                                                       *)

\* A pending result satisfies the wait that park p waits for.
Wakeable(p, js, rs) ==
    /\ \E j \in parks[p].jobs : rs[j] = "pending"
    /\ Satisfied(parks[p].mode, parks[p].jobs, js)

\* A park whose callback has run sleeps rightly: its task is over, and what the
\* callback and every notification since then looked at does not wake it.
AsleepRightly ==
    \A p \in Turns : (parks[p].state = "parked" /\ p \notin owed) =>
        phase[p] = "over" /\ ~Wakeable(p, job, result)

\* A notification that leaves a park of the active turn asleep, when its task is
\* over, has found nothing to wake it for.
LEMMA NotifiedAsleep ==
    ASSUME TypeOK, TurnOrder, OneSubscription, NEW js, NEW rs, NEW p \in Turns,
           parks[p].state = "parked", phase[p] = "over",
           Outcome(js, rs, phase) = "asleep"
    PROVE  ~Wakeable(p, js, rs)
<1>1. p \in Parked /\ p = active /\ p = LatestParked
  BY LatestIsActive DEF Parked, OneSubscription
<1>2. ~Busy(phase)
  BY <1>1 DEF Busy, TurnOrder
<1>3. status # "running"
  BY <1>1 DEF TurnOrder, Runs
<1> QED
  BY <1>1, <1>2, <1>3, Zenon DEF Outcome, Wakeable

\* A wait that is not satisfied stays so while no job closes and no row arrives.
LEMMA WakeableMonotone ==
    ASSUME NEW p, parks'[p].jobs = parks[p].jobs, parks'[p].mode = parks[p].mode,
           parks[p].jobs \subseteq Jobs,
           \A j \in Jobs : result'[j] = "pending" => result[j] = "pending",
           \A j \in Jobs : job'[j] \in ClosedJobs => job[j] \in ClosedJobs,
           ~Wakeable(p, job, result)
    PROVE  ~Wakeable(p, job, result)'
BY DEF Wakeable, Satisfied

\* The steps that write neither the rows of the owner nor the results of its jobs.
LEMMA QuietKeepsAsleep ==
    ASSUME TypeOK, AsleepRightly, UNCHANGED <<parks, owed>>,
           \A j \in Jobs : result'[j] = "pending" => result[j] = "pending",
           \A j \in Jobs : job'[j] \in ClosedJobs => job[j] \in ClosedJobs,
           \A t \in Turns : phase[t] = "over" => phase'[t] = "over"
    PROVE  AsleepRightly'
<1> SUFFICES ASSUME NEW p \in Turns, parks'[p].state = "parked", p \notin owed'
             PROVE  phase'[p] = "over" /\ ~Wakeable(p, job, result)'
  BY DEF AsleepRightly
<1>1. phase[p] = "over" /\ ~Wakeable(p, job, result) /\ parks[p].jobs \subseteq Jobs
  BY DEF AsleepRightly, TypeOK
<1> QED
  BY <1>1, WakeableMonotone

LEMMA NotifyKeepsAsleep ==
    ASSUME TypeOK, TurnOrder, OneSubscription, NEW rs, Notify(job', rs, phase), result' \in [Jobs -> Read],
           \A p \in Turns : (parks[p].state = "parked" /\ p \notin owed') => phase[p] = "over"
    PROVE  AsleepRightly'
<1> SUFFICES ASSUME NEW p \in Turns, parks'[p].state = "parked", p \notin owed'
             PROVE  phase'[p] = "over" /\ ~Wakeable(p, job, result)'
  BY DEF AsleepRightly
<1>1. CASE Outcome(job', rs, phase) = "asleep" /\ parks' = parks /\ result' = rs /\ phase' = phase
  BY <1>1, NotifiedAsleep DEF Wakeable
<1>2. CASE parks' \in {Invalidated("blocked"), Invalidated("superseded")}
  BY <1>2, Withdrawn
<1>3. CASE Outcome(job', rs, phase) = "claimed" /\ active = LatestParked
           /\ parks' = [parks EXCEPT ![active].state = "wake_claimed"]
  <2>1. active \in Parked /\ active \in Turns
    BY <1>3, OutcomeClaimed, LatestIsActive DEF Parked
  <2>2. p # active /\ parks[p].state = "parked"
    BY <1>3, <2>1 DEF TypeOK
  <2> QED
    BY <2>2 DEF OneSubscription
<1> QED
  BY <1>1, <1>2, <1>3, NotifyCases

LEMMA ParkKeepsAsleep ==
    ASSUME TypeOK, AsleepRightly, Park, UNCHANGED <<job, result>>,
           \A t \in Turns : phase[t] = "over" => phase'[t] = "over"
    PROVE  AsleepRightly'
<1> SUFFICES ASSUME NEW p \in Turns, parks'[p].state = "parked", p \notin owed'
             PROVE  phase'[p] = "over" /\ ~Wakeable(p, job, result)'
  BY DEF AsleepRightly
<1>1. CASE UNCHANGED <<parks, owed>>
  BY <1>1, QuietKeepsAsleep DEF AsleepRightly
<1>2. CASE /\ active # 0 /\ parks' = [parks EXCEPT ![active].state = "parked"]
           /\ owed' = owed \cup {active}
  BY <1>2 DEF AsleepRightly, Wakeable, TypeOK
<1>3. CASE parks' = Invalidated("blocked")
  BY <1>3, Withdrawn
<1> QED
  BY <1>1, <1>2, <1>3, ParkCases

LEMMA TurnStepKeepsAsleep ==
    ASSUME TypeOK, AsleepRightly, TurnStep
    PROVE  AsleepRightly'
<1>0. /\ phase \in [Turns -> Phases] /\ job \in [Jobs -> {"absent"} \cup OpenJobs \cup ClosedJobs]
      /\ result \in [Jobs -> Read] /\ parks \in [Turns -> Rows]
  BY DEF TypeOK, TurnsTypeOK, Rows
<1>1. ASSUME NEW j \in Jobs, StartJob(j) \/ CancelJob(j) PROVE AsleepRightly'
  <2>1. UNCHANGED <<parks, owed, phase, result>>
    BY <1>1 DEF StartJob, CancelJob, turnVars
  <2>2. \A i \in Jobs : job'[i] \in ClosedJobs => job[i] \in ClosedJobs
    BY <1>0, <1>1 DEF StartJob, CancelJob, ClosedJobs
  <2> QED
    BY <2>1, <2>2, QuietKeepsAsleep
<1>2. ASSUME NEW w \in Waits, WaitJobs(w) PROVE AsleepRightly'
  <2>1. UNCHANGED <<parks, owed, phase, job>>
    BY <1>2 DEF WaitJobs, turnVars
  <2>2. \A i \in Jobs : result'[i] = "pending" => result[i] = "pending"
    BY <1>0, <1>2 DEF WaitJobs, ReadOf
  <2> QED
    BY <2>1, <2>2, QuietKeepsAsleep
<1>3. CASE WaitTimeout
  <2> SUFFICES ASSUME NEW p \in Turns, parks'[p].state = "parked", p \notin owed'
               PROVE  phase'[p] = "over" /\ ~Wakeable(p, job, result)'
    BY DEF AsleepRightly
  <2>1. UNCHANGED <<owed, phase, job, result>> /\ parks'[p] = parks[p]
    BY <1>0, <1>3 DEF WaitTimeout, turnVars
  <2> QED
    BY <2>1 DEF AsleepRightly, Wakeable
<1>4. ASSUME NEW t \in Turns, Complete(t) \/ ParkPartial(t) PROVE AsleepRightly'
  <2>1. Park /\ UNCHANGED <<job, result>>
    BY <1>4 DEF Complete, ParkPartial
  <2>2. \A u \in Turns : phase[u] = "over" => phase'[u] = "over"
    BY <1>0, <1>4 DEF Complete, ParkPartial, CloseTurn, WrapTurn, Runs
  <2> QED
    BY <2>1, <2>2, ParkKeepsAsleep
<1>5. ASSUME NEW t \in Turns, CompletePartial(t) \/ Fail(t) \/ EndTask(t) PROVE AsleepRightly'
  <2>1. UNCHANGED <<parks, owed, job, result>>
    BY <1>5 DEF CompletePartial, Fail, EndTask, wakeVars
  <2>2. \A u \in Turns : phase[u] = "over" => phase'[u] = "over"
    BY <1>0, <1>5 DEF CompletePartial, Fail, EndTask, CloseTurn, Runs
  <2> QED
    BY <2>1, <2>2, QuietKeepsAsleep
<1> QED
  BY <1>1, <1>2, <1>3, <1>4, <1>5 DEF TurnStep

LEMMA NextAsleepRightly ==
    TypeOK /\ TurnOrder /\ OneSubscription /\ AsleepRightly /\ [Next]_vars => AsleepRightly'
<1> SUFFICES ASSUME TypeOK, TurnOrder, OneSubscription, AsleepRightly, [Next]_vars
             PROVE  AsleepRightly'
  OBVIOUS
<1>0. /\ phase \in [Turns -> Phases] /\ job \in [Jobs -> {"absent"} \cup OpenJobs \cup ClosedJobs]
      /\ result \in [Jobs -> Read] /\ TypeOK'
  BY NextTypeOK DEF TypeOK, TurnsTypeOK
<1>1. ASSUME NEW t \in Turns, Callback(t) PROVE AsleepRightly'
  <2>1. Notify(job', result, phase) /\ \A p \in Turns : p \notin owed' => p \notin owed \/ phase[p] = "over"
    BY <1>1 DEF Callback
  <2> QED
    BY <1>0, <2>1, NotifyKeepsAsleep DEF AsleepRightly, TypeOK
<1>2. ASSUME NEW j \in Jobs, NEW s \in ClosedJobs, ChildCloses(j, s) \/ ProjectedAgain(j, s)
      PROVE  AsleepRightly'
  <2>1. CASE Projects(j, s)
    <3>1. owed' = owed /\ \E rs : Notify(job', rs, phase)
      BY <2>1 DEF Projects
    <3> QED
      BY <1>0, <3>1, NotifyKeepsAsleep DEF AsleepRightly, TypeOK
  <2>2. CASE UNCHANGED <<turnVars, job, result, parks, owed>>
    BY <2>2, QuietKeepsAsleep DEF turnVars
  <2> QED
    BY <1>2, <2>1, <2>2, ChildCases
<1>3. ASSUME NEW p \in Turns, StartClaimed(p) PROVE AsleepRightly'
  <2>1. CASE parks' = [parks EXCEPT ![p].state = "started"]
    <3>1. \A t \in Turns : parks'[t].state # "parked"
      BY <1>3, <2>1 DEF StartClaimed, OneSubscription, TypeOK
    <3> QED
      BY <3>1 DEF AsleepRightly
  <2>2. CASE \E s \in {"blocked", "start_unknown"} : parks' = Invalidated(s)
    BY <2>2, Withdrawn DEF AsleepRightly
  <2> QED
    BY <1>3, <2>1, <2>2 DEF StartClaimed, OutcomeUnknown
<1>4. CASE UserTurn \/ StopBarrier \/ Restart
  BY <1>4, Withdrawn DEF UserTurn, StopBarrier, AsleepRightly
<1>5. CASE StopCancel
  <2>1. UNCHANGED <<parks, owed, job, result>>
    BY <1>5 DEF StopCancel
  <2>2. \A u \in Turns : phase[u] = "over" => phase'[u] = "over"
    BY <1>0, <1>5 DEF StopCancel, CloseTurn, Runs, turnVars
  <2> QED
    BY <2>1, <2>2, QuietKeepsAsleep
<1>6. CASE BusyTurn \/ \E b \in BOOLEAN : Regrant(b)
  BY <1>6, QuietKeepsAsleep DEF BusyTurn, Regrant, turnVars
<1>7. ASSUME NEW j \in Jobs, ChildRefused(j) PROVE AsleepRightly'
  <2>1. UNCHANGED <<parks, owed, phase, result>>
    BY <1>7 DEF ChildRefused, turnVars
  <2>2. \A i \in Jobs : job'[i] \in ClosedJobs => job[i] \in ClosedJobs
    BY <1>0, <1>7 DEF ChildRefused, ClosedJobs
  <2> QED
    BY <2>1, <2>2, QuietKeepsAsleep
<1>8. CASE UNCHANGED vars
  BY <1>8, QuietKeepsAsleep DEF vars, wakeVars, turnVars
<1> QED
  BY <1>1, <1>2, <1>3, <1>4, <1>5, <1>6, <1>7, <1>8, TurnStepKeepsAsleep DEF Next

\* An owner that could be woken has its callback to come.
LEMMA AwakeOrOwed == TypeOK /\ TurnOrder /\ OneSubscription /\ AsleepRightly => NoMissedWake
<1> SUFFICES ASSUME TypeOK, TurnOrder, OneSubscription, AsleepRightly,
                    ~Busy(phase), Outcome(job, result, phase) = "claimed"
             PROVE  \E t \in owed : phase[t] = "over"
  BY DEF NoMissedWake
<1>1. active \in Parked /\ active \in Turns
  BY OutcomeClaimed, LatestIsActive DEF Parked
<1>2. Wakeable(active, job, result)
  BY OutcomeClaimed DEF Wakeable
<1>3. active \in owed
  BY <1>1, <1>2 DEF AsleepRightly, Parked
<1>4. phase[active] = "over"
  BY <1>1, MaxTurnAssumption DEF Busy, TurnOrder, Turns
<1> QED
  BY <1>3, <1>4

---------------------------------------------------------------------------
(* The theorems.                                                            *)

IInv == TypeOK /\ TurnOrder /\ OneSubscription /\ StopWins /\ AsleepRightly

LEMMA InitIInv == Init => IInv
<1> SUFFICES ASSUME Init PROVE IInv
  OBVIOUS
<1>1. \A t \in Turns : parks[t].state = "none"
  BY DEF Init, NoPark
<1> QED
  BY <1>1, InitTypeOK, InitTurnOrder DEF IInv, OneSubscription, StopWins, AsleepRightly, Init

LEMMA Inductive == Spec => []IInv
<1>1. IInv /\ [Next]_vars => IInv'
  BY NextTypeOK, NextTurnOrder, NextOneSubscription, NextStopWins, NextAsleepRightly DEF IInv
<1> QED
  BY <1>1, InitIInv, PTL DEF Spec

\* A parked owner never sleeps over a result that would wake it: the callback of
\* its last task is still to come (job_wake.py:112-113).
THEOREM NoWakeMissed == Spec => []NoMissedWake
<1>1. IInv => NoMissedWake
  BY AwakeOrOwed DEF IInv
<1> QED
  BY <1>1, Inductive, PTL

\* While the Stop mark stands no row can lead to a wake and no job is open,
\* whatever the stopped turn still does (job_surface.py:231-248).
THEOREM StopHolds == Spec => []StopWins
<1>1. IInv => StopWins
  BY DEF IInv
<1> QED
  BY <1>1, Inductive, PTL

\* The owner has at most one subscription, that of its last turn, and it has not
\* opened a turn yet.
THEOREM SubscribedOnce == Spec => []OneSubscription
<1>1. IInv => OneSubscription
  BY DEF IInv
<1> QED
  BY <1>1, Inductive, PTL

\* A wake opens its turn only after the task that parked, and when no other runs
\* (job_wake.py:170-172).
THEOREM WokenAfterTask == Spec => WakeAfterTask
<1>1. IInv /\ [Next]_vars =>
          [\A u \in Turns : (wokenBy[u] = 0 /\ wokenBy'[u] # 0) =>
              phase[wokenBy'[u]] = "over" /\ \A t \in Turns : ~Runs(t)]_vars
  BY NextWakeAfterTask DEF IInv
<1> QED
  BY <1>1, Inductive, PTL DEF Spec, WakeAfterTask

\* A claimed, stopped, superseded or interrupted subscription never comes back.
THEOREM NothingRevived == Spec => NeverRevived
<1>1. IInv /\ [Next]_vars =>
          [\A t \in Turns : parks[t].state \notin {"none", "candidate", "parked"} =>
              parks'[t].state \notin {"candidate", "parked"}]_vars
  BY NextNeverRevived DEF IInv
<1> QED
  BY <1>1, Inductive, PTL DEF Spec, NeverRevived
===============================================================================
