--------------------------- MODULE ChildRuns_proofs ---------------------------
(***************************************************************************)
(* The two properties of ChildLedger that hold as long as every reaper takes *)
(* children of its own turn: a run that works holds its child's slot, and a  *)
(* closed row stands over no run that works.  Both follow from one fact,     *)
(* that a run which works is alone with the row, the registry and the slot   *)
(* of its child.  The actions are sorted three ways: by what they do to the  *)
(* runs (Quiet: none is started), to the turns, and to what the owner awaits.*)
(***************************************************************************)
EXTENDS ChildLedger_proofs

WorksIn(c, r) == task[c][r] \in {"queued", "working"}
Idle(c) == \A r \in RunIds : ~WorksIn(c, r)

\* A run that works is its child's only one: the row, the registry and the slot are its own.
Alone == \A c \in Children, r \in RunIds : WorksIn(c, r) =>
            Started(c) /\ row[c].run = r /\ registered[c] = r /\ c \in held

\* What the owner awaits is the last run of its child, and only that one owes the
\* awaited callback; a child that is being cancelled works no more; the turn that
\* unwinds is the one Stop waits for.
AwaitRules ==
    /\ await.kind \in {"child", "unwind"} => row[await.child].run = await.run
    /\ await.kind = "cancel" => Idle(await.child)
    /\ await.kind = "unwind" => /\ stop.on /\ stop.turn = current
                                /\ current # 0 /\ phase[current] = "working"
    /\ \A c \in Children, r \in RunIds : callback[c][r] = "awaited" =>
         await.kind \in {"child", "unwind"} /\ await.child = c /\ await.run = r

\* A turn that reaps is closing, and what it reaps works no more.
ReapRules == \A t \in Turns : /\ reaper[t] # {} => phase[t] = "closing"
                              /\ \A c \in Reaped(t) : Idle(c)

TurnRules ==
    /\ active = current
    /\ \A t \in Turns : t > turns => phase[t] = "unborn"
    /\ current # 0 /\ phase[current] = "working" => status = "running"

RunInv == Alone /\ AwaitRules /\ ReapRules /\ TurnRules

---------------------------------------------------------------------------
(* Steps that start no run.                                                 *)

\* No run starts to work; the row, the registry entry and the slot of a child
\* whose run works on are left alone; no row changes hands, no callback is owed anew.
SameRun(c) == row'[c].run = row[c].run /\ row'[c].turn = row[c].turn

Quiet ==
    \A c \in Children :
        /\ \A r \in RunIds : WorksIn(c, r)' =>
             /\ WorksIn(c, r)
             /\ row'[c] = row[c] /\ registered'[c] = registered[c]
             /\ c \in held => c \in held'
        /\ SameRun(c)
        /\ \A r \in RunIds : callback'[c][r] \in {callback[c][r], "none"}

LEMMA QuietSame ==
    ASSUME UNCHANGED <<childVars, held>>
    PROVE  Quiet
BY DEF Quiet, SameRun, WorksIn, childVars

LEMMA CancelledRuns ==
    ASSUME ChildTypes, NEW cs
    PROVE  \A c \in Children, r \in RunIds :
             Cancelled(cs)[c][r] \in {"queued", "working"} =>
               task[c][r] \in {"queued", "working"} /\ <<c, r>> \notin cs
<1> SUFFICES ASSUME NEW c \in Children, NEW r \in RunIds
             PROVE  Cancelled(cs)[c][r] \in {"queued", "working"} =>
                      task[c][r] \in {"queued", "working"} /\ <<c, r>> \notin cs
  OBVIOUS
<1>1. task[c][r] \in TaskStates
  BY DEF ChildTypes
<1>2. Cancelled(cs)[c][r] = IF <<c, r>> \notin cs THEN task[c][r]
                           ELSE CASE task[c][r] = "queued" -> "cancelled"
                                  [] task[c][r] \in {"working", "closing", "dying"} -> "dying"
                                  [] OTHER -> task[c][r]
  BY DEF Cancelled
<1> QED
  BY <1>1, <1>2 DEF TaskStates

LEMMA QuietCancels ==
    ASSUME ChildTypes, NEW cs, task' = Cancelled(cs), UNCHANGED <<row, registered, callback, held>>
    PROVE  Quiet
BY CancelledRuns DEF Quiet, SameRun, WorksIn

\* Who cancels the registered run of a child leaves none that works.
LEMMA RegisteredStops ==
    ASSUME ChildTypes, Alone, NEW c \in Children, NEW cs, task' = Cancelled(cs),
           Live(c, registered[c]) => <<c, registered[c]>> \in cs
    PROVE  Idle(c)'
<1> SUFFICES ASSUME NEW r \in RunIds, WorksIn(c, r)'
             PROVE  FALSE
  BY DEF Idle
<1>1. task[c][r] \in {"queued", "working"} /\ <<c, r>> \notin cs
  BY CancelledRuns DEF WorksIn
<1>2. registered[c] = r /\ r # 0
  BY <1>1 DEF Alone, WorksIn, RunIds
<1> QED
  BY <1>1, <1>2 DEF Live

\* The row of a child that does not work is closed.
LEMMA QuietCloses ==
    ASSUME NEW c \in Children, Idle(c)', SameRun(c),
           \A d \in Children : d # c => row'[d] = row[d] /\ registered'[d] = registered[d] /\ (d \in held => d \in held'),
           \A d \in Children, r \in RunIds : /\ WorksIn(d, r)' => WorksIn(d, r)
                                             /\ callback'[d][r] \in {callback[d][r], "none"}
    PROVE  Quiet
BY DEF Quiet, SameRun, Idle

LEMMA FinishRun ==
    ASSUME ChildTypes, NEW c \in Children, NEW s \in Closed, NEW why \in Reasons
    PROVE  \A d \in Children : /\ Finish(c, s, why)[d].run = row[d].run
                               /\ Finish(c, s, why)[d].turn = row[d].turn
                               /\ d # c => Finish(c, s, why)[d] = row[d]
<1>1. Started(c) \/ Finish(c, s, why)[c] = row[c]
  BY FinishMoves
<1> QED
  BY <1>1, FinishMoves

LEMMA QuietAwaitReturns ==
    ASSUME TypeOK, SlotRules, RunInv, AwaitReturns
    PROVE  Quiet
<1>1. ChildTypes
  BY TypeSplit
<1>2. PICK c \in Children : c = await.child
  BY TypeSplit, AwaitKinds DEF AwaitReturns, RestTypes
<1>3. session[c] \in Closed /\ (IF session[c] = "failed" THEN "error" ELSE "none") \in Reasons
  BY <1>2 DEF SlotRules, AwaitReturns, Answers, Closed, Reasons
<1>4. row' = Finish(c, session[c], IF session[c] = "failed" THEN "error" ELSE "none")
  BY <1>2 DEF AwaitReturns
<1>5. \A d \in Children : SameRun(d) /\ (d # c => row'[d] = row[d])
  BY <1>1, <1>3, <1>4, FinishRun, Zenon DEF SameRun
<1>6. Idle(c)'
  <2>1. \A r \in RunIds : WorksIn(c, r) => r = await.run
    BY <1>2 DEF RunInv, Alone, AwaitRules, AwaitReturns
  <2> QED
    BY <1>2, <2>1 DEF AwaitReturns, Idle, WorksIn
<1> QED
  BY <1>5, <1>6, QuietCloses DEF AwaitReturns, WorksIn, slotVars

LEMMA QuietCancelDone ==
    ASSUME TypeOK, RunInv, CancelDone
    PROVE  Quiet
<1>1. ChildTypes
  BY TypeSplit
<1>2. PICK c \in Children : c = await.child
  BY TypeSplit, AwaitKinds DEF CancelDone, RestTypes
<1>3. \A d \in Children : SameRun(d) /\ (d # c => row'[d] = row[d])
  BY <1>1, <1>2, FinishRun DEF SameRun, CancelDone, Closed, Reasons
<1>4. Idle(c)'
  BY <1>2 DEF RunInv, AwaitRules, CancelDone, Idle, WorksIn
<1>5. UNCHANGED <<task, registered, callback>> /\ held' = held \ {c}
  BY <1>2 DEF CancelDone, Release
<1> QED
  BY <1>3, <1>4, <1>5, QuietCloses DEF WorksIn

LEMMA QuietRun ==
    ASSUME TypeOK, NEW c \in Children, NEW r \in RunIds, NEW s \in Answers,
           ChildBegins(c, r) \/ ChildAnswers(c, r, s) \/ ChildEnds(c, r)
    PROVE  Quiet
<1>1. task \in [Children -> [RunIds -> TaskStates]]
  BY TypeSplit DEF ChildTypes
<1>2. UNCHANGED <<row, registered, callback, held>>
  BY DEF ChildBegins, ChildAnswers, ChildEnds, slotVars
<1>3. \A d \in Children, q \in RunIds : WorksIn(d, q)' => WorksIn(d, q)
  BY <1>1 DEF ChildBegins, ChildAnswers, ChildEnds, SetTask, WorksIn
<1> QED
  BY <1>2, <1>3 DEF Quiet, SameRun

\* A callback that comes late finds the row another run's: it closes nothing and
\* leaves the slot, unless its run is the awaited one, which is the row's own.
LEMMA QuietCallback ==
    ASSUME TypeOK, ReapingEnds, RunInv, NEW c \in Children, NEW r \in RunIds, Callback(c, r)
    PROVE  Quiet
<1>1. ChildTypes /\ UNCHANGED <<task, registered>>
  BY TypeSplit DEF Callback
<1>2. \A d \in Children, q \in RunIds : /\ WorksIn(d, q)' = WorksIn(d, q)
                                        /\ callback'[d][q] \in {callback[d][q], "none"}
  BY <1>1 DEF WorksIn, Callback, ChildTypes
<1>3. CASE Idle(c)
  <2>1. \A d \in Children : SameRun(d) /\ (d # c => row'[d] = row[d])
    <3>1. CASE UNCHANGED row
      BY <3>1 DEF SameRun
    <3>2. CASE \E s \in Closed, why \in Reasons : row' = Finish(c, s, why)
      BY <1>1, <3>2, FinishRun DEF SameRun
    <3>3. UNCHANGED row \/ \E s \in Closed, why \in Reasons : row' = Finish(c, s, why)
      BY DEF Callback, DetachedCloses, UnsavedEnd, Closed, Reasons
    <3> QED
      BY <3>1, <3>2, <3>3
  <2>2. \A d \in Children : d # c => (d \in held => d \in held')
    BY DEF Callback, Release, slotVars
  <2>3. Idle(c)'
    BY <1>2, <1>3 DEF Idle
  <2> QED
    BY <1>1, <1>2, <2>1, <2>2, <2>3, QuietCloses
<1>4. ASSUME NEW q \in RunIds, WorksIn(c, q)
      PROVE  Quiet
  <2>1. Started(c) /\ row[c].run = q /\ q # r
    BY <1>4 DEF RunInv, Alone, WorksIn, Callback, Over
  <2>2. callback[c][r] = "detached"
    BY <1>1, <2>1 DEF RunInv, AwaitRules, Callback, ChildTypes, CallStates
  <2>3. c \notin reaping
    BY <1>4 DEF ReapingEnds, RunInv, ReapRules, Idle
  <2>4. UNCHANGED <<row, held>>
    BY <2>1, <2>2, <2>3 DEF Callback, DetachedCloses, KeepsSlot, Stale, slotVars
  <2> QED
    BY <1>1, <1>2, <2>4 DEF Quiet, SameRun
<1> QED
  BY <1>3, <1>4 DEF Idle

LEMMA QuietWatchdog ==
    ASSUME TypeOK, RunInv, NEW c \in Children, WatchdogTimeout(c) \/ WatchdogOrphan(c)
    PROVE  Quiet
<1>1. ChildTypes
  BY TypeSplit
<1>2. PICK why \in {"WATCHDOG_TIMEOUT", "ORPHAN"} : WatchdogCloses(c, why)
  BY DEF WatchdogTimeout, WatchdogOrphan
<1>3. \A d \in Children : SameRun(d) /\ (d # c => row'[d] = row[d])
  BY <1>1, <1>2, FinishRun DEF SameRun, WatchdogCloses, Closed, Reasons
<1>4. PICK cs : task' = Cancelled(cs) /\ (Live(c, registered[c]) => <<c, registered[c]>> \in cs)
  BY <1>2 DEF WatchdogCloses
<1>5. Idle(c)'
  BY <1>1, <1>4, RegisteredStops DEF RunInv
<1>6. \A d \in Children, q \in RunIds : WorksIn(d, q)' => WorksIn(d, q)
  BY <1>1, <1>4, CancelledRuns DEF WorksIn
<1>7. \A d \in Children : d # c => registered'[d] = registered[d] /\ (d \in held => d \in held')
  BY <1>1, <1>2 DEF WatchdogCloses, Release, ChildTypes
<1> QED
  BY <1>2, <1>3, <1>5, <1>6, <1>7, QuietCloses DEF WatchdogCloses

LEMMA QuietReapEnd ==
    ASSUME TypeOK, RunInv, NEW t \in Turns, ReapEnd(t)
    PROVE  Quiet
<1>1. ChildTypes
  BY TypeSplit
<1>2. UNCHANGED <<task, callback, held>>
  BY DEF ReapEnd, slotVars
<1>3. \A c \in Children : row'[c] \in {row[c], Finish(c, "failed", "PARENT_TURN_ENDED")[c]}
  BY DEF ReapEnd
<1>4. \A c \in Children : c \notin Reaped(t) => row'[c] = row[c] /\ registered'[c] = registered[c]
  BY DEF ReapEnd, Reaped
<1>5. \A c \in Children : SameRun(c)
  BY <1>1, <1>3, FinishRun DEF SameRun, Closed, Reasons
<1>6. \A c \in Children, r \in RunIds : WorksIn(c, r)' => WorksIn(c, r) /\ c \notin Reaped(t)
  BY <1>2 DEF WorksIn, RunInv, ReapRules, Idle
<1> QED
  BY <1>2, <1>4, <1>5, <1>6 DEF Quiet

LEMMA QuietRestart ==
    ASSUME TypeOK, Restart
    PROVE  Quiet
<1>1. ChildTypes
  BY TypeSplit
<1>2. \A c \in Children : SameRun(c)
  <2>1. \A c \in Children : row'[c] = Finish(c, "failed", "RESTART")[c]
    BY DEF Restart
  <2> QED
    BY <1>1, <2>1, FinishRun DEF SameRun, Closed, Reasons
<1>3. \A c \in Children, r \in RunIds : ~WorksIn(c, r)' /\ callback'[c][r] = "none"
  BY DEF Restart, WorksIn
<1> QED
  BY <1>2, <1>3 DEF Quiet, SameRun

LEMMA QuietStopSelf ==
    ASSUME TypeOK, StopSelf
    PROVE  Quiet
<1>1. ChildTypes
  BY TypeSplit
<1>2. CASE UNCHANGED <<task, session>>
  BY <1>2, QuietSame DEF StopSelf, childVars, slotVars
<1>3. CASE task' = Cancelled({<<await.child, await.run>>})
  BY <1>1, <1>3, QuietCancels DEF StopSelf, slotVars
<1> QED
  BY <1>2, <1>3 DEF StopSelf

LEMMA QuietSteps ==
    ASSUME TypeOK, SlotRules, ReapingEnds, RunInv, Next
    PROVE  Quiet \/ \E c \in Children, wait \in BOOLEAN : Delegate(c, wait) \/ Resume(c, wait)
<1>1. ChildTypes
  BY TypeSplit
<1>2. ASSUME \/ OpenOwnerTurn \/ (\E s \in {"completed", "failed"} : EndOwnerTurn(s)) \/ AwaitRaises
             \/ StopBegin \/ StopEnd
      PROVE  Quiet
  BY <1>2, QuietSame DEF OpenOwnerTurn, EndOwnerTurn, AwaitRaises, StopBegin, StopEnd, slotVars
<1>3. ASSUME NEW c \in Children, CancelChild(c) \/ UserStopsChild(c) \/ StopChild(c)
      PROVE  Quiet
  BY <1>1, <1>3, QuietCancels DEF CancelChild, UserStopsChild, StopChild, slotVars
<1>4. ASSUME NEW t \in Turns, ReapStart(t)
      PROVE  Quiet
  BY <1>1, <1>4, QuietCancels DEF ReapStart, slotVars
<1>5. CASE OwnerStep
  BY <1>2, <1>3, <1>4, <1>5, QuietAwaitReturns, QuietCancelDone, QuietReapEnd, Zenon DEF OwnerStep
<1>6. CASE ChildStep
  <2>1. "completed" \in Answers
    BY DEF Answers
  <2> QED
    BY <1>6, <2>1, QuietRun, QuietCallback, Zenon DEF ChildStep
<1> QED
  BY <1>2, <1>3, <1>5, <1>6, QuietWatchdog, QuietStopSelf, QuietRestart, Zenon DEF Next

---------------------------------------------------------------------------
(* The turns and their reapers.                                             *)

\* A turn's reaper begins, ends or is aborted; what it takes works no more.
Reaps(t) ==
    /\ phase[t] = "closing" /\ UNCHANGED <<status, turns, active, current>>
    /\ \E cs : /\ reaper' = [reaper EXCEPT ![t] = cs]
               /\ phase' = IF cs = {} THEN [phase EXCEPT ![t] = "over"] ELSE phase
               /\ \A cr \in cs : Idle(cr[1])' /\ row[cr[1]].turn = active

TurnSteps ==
    \/ UNCHANGED <<turnVars, reaper>>
    \/ OpenTurn /\ UNCHANGED reaper
    \/ (\E s : CloseTurn(current, s)) /\ UNCHANGED reaper
    \/ \E t \in Turns : Reaps(t)
    \/ RestartTurns /\ reaper' = [t \in Turns |-> {}]

LEMMA ReapStartIdles ==
    ASSUME TypeOK, RunInv, NEW t \in Turns, ReapStart(t)
    PROVE  Reaps(t)
<1> DEFINE cs == {<<c, registered[c]>> : c \in Orphans(active)}
<1>1. ChildTypes /\ task' = Cancelled(cs)
  BY TypeSplit DEF ReapStart
<1>2. \A cr \in cs : Idle(cr[1])' /\ row[cr[1]].turn = active
  <2> SUFFICES ASSUME NEW c \in Orphans(active)
               PROVE  Idle(c)' /\ row[c].turn = active
    OBVIOUS
  <2>1. c \in Children /\ <<c, registered[c]>> \in cs /\ row[c].turn = active
    BY DEF Orphans
  <2> QED
    BY <1>1, <2>1, RegisteredStops DEF RunInv
<1>3. /\ phase[t] = "closing" /\ UNCHANGED <<status, turns, active, current>>
      /\ reaper' = [reaper EXCEPT ![t] = cs]
      /\ phase' = IF cs = {} THEN [phase EXCEPT ![t] = "over"] ELSE phase
  BY DEF ReapStart
<1> HIDE DEF cs
<1> QED
  BY <1>2, <1>3 DEF Reaps

LEMMA TurnMoves ==
    ASSUME TypeOK, RunInv, Next
    PROVE  TurnSteps
<1>1. current \in 0..MaxTurn
  BY TypeSplit DEF TurnsTypeOK
<1>2. ASSUME NEW t \in Turns, phase[t] = "closing", UNCHANGED <<status, turns, active, current>>,
             reaper' = [reaper EXCEPT ![t] = {}], phase' = [phase EXCEPT ![t] = "over"]
      PROVE  TurnSteps
  BY <1>2 DEF TurnSteps, Reaps
<1>3. ASSUME NEW s, OpenOwnerTurn \/ EndOwnerTurn(s) \/ AwaitReturns \/ AwaitRaises \/ CancelDone
      PROVE  TurnSteps
  BY <1>3 DEF OpenOwnerTurn, EndOwnerTurn, AwaitReturns, AwaitRaises, CancelDone, TurnSteps, reapVars
<1>4. ASSUME NEW c, NEW wait, Delegate(c, wait) \/ Resume(c, wait) \/ CancelChild(c)
      PROVE  TurnSteps
  BY <1>4 DEF Delegate, Resume, CancelChild, TurnSteps, reapVars
<1>5. ASSUME NEW t \in Turns, ReapStart(t) \/ ReapEnd(t)
      PROVE  TurnSteps
  <2>1. CASE ReapStart(t)
    BY <2>1, ReapStartIdles DEF TurnSteps
  <2>2. CASE ReapEnd(t)
    <3>1. phase[t] = "closing"
      BY <2>2 DEF ReapEnd, RunInv, ReapRules
    <3> QED
      BY <1>2, <2>2, <3>1 DEF ReapEnd
  <2> QED
    BY <1>5, <2>1, <2>2
<1>6. CASE OwnerStep
  BY <1>3, <1>4, <1>5, <1>6, Zenon DEF OwnerStep
<1>7. ASSUME NEW c, NEW r, NEW s, ChildBegins(c, r) \/ ChildAnswers(c, r, s) \/ ChildEnds(c, r) \/ Callback(c, r)
      PROVE  TurnSteps
  BY <1>7 DEF ChildBegins, ChildAnswers, ChildEnds, Callback, TurnSteps, reapVars
<1>8. CASE ChildStep
  BY <1>7, <1>8, Zenon DEF ChildStep
<1>9. ASSUME NEW c, \/ WatchdogTimeout(c) \/ WatchdogOrphan(c) \/ UserStopsChild(c) \/ StopChild(c)
                    \/ StopBegin \/ StopEnd
      PROVE  TurnSteps
  BY <1>9 DEF WatchdogTimeout, WatchdogOrphan, WatchdogCloses, UserStopsChild, StopChild, StopBegin, StopEnd,
              TurnSteps, reapVars
<1>10. CASE StopSelf
  <2>1. CASE UNCHANGED <<turnVars, reapVars>>
    BY <2>1 DEF TurnSteps, reapVars
  <2>2. CASE CloseTurn(current, "cancelled") /\ UNCHANGED reapVars
    BY <2>2 DEF TurnSteps, reapVars
  <2>3. CASE /\ Busy(phase) /\ phase[current] = "closing" /\ ReapAborted(current)
             /\ UNCHANGED <<status, turns, active, current>>
    <3>1. current \in Turns
      BY <1>1, <2>3, MaxTurnAssumption DEF Busy, Turns
    <3> QED
      BY <1>2, <2>3, <3>1 DEF ReapAborted
  <2> QED
    BY <1>10, <2>1, <2>2, <2>3 DEF StopSelf
<1>11. CASE Restart
  BY <1>11 DEF Restart, TurnSteps
<1> QED
  BY <1>6, <1>8, <1>9, <1>10, <1>11, Zenon DEF Next

LEMMA TurnRulesStep ==
    ASSUME TypeOK, RunInv, TurnSteps
    PROVE  TurnRules' /\ \A t \in Turns : reaper'[t] # {} => phase'[t] = "closing"
<1>1. /\ phase \in [Turns -> Phases] /\ turns \in Nat /\ current \in 0..MaxTurn
      /\ reaper \in [Turns -> SUBSET (Children \X Runs0)]
  BY TypeSplit, Bounds DEF TurnsTypeOK, RestTypes
<1>2. CASE UNCHANGED <<turnVars, reaper>>
  BY <1>2 DEF RunInv, TurnRules, ReapRules, turnVars
<1>3. CASE OpenTurn /\ UNCHANGED reaper
  <2>1. turns + 1 \in Turns /\ phase[turns + 1] = "unborn" /\ reaper[turns + 1] = {}
    BY <1>1, <1>3, Bounds DEF OpenTurn, OpenTurnFrom, Turns, RunInv, TurnRules, ReapRules
  <2>2. \A t \in Turns : t # turns + 1 => phase'[t] = phase[t]
    BY <1>1, <1>3 DEF OpenTurn, OpenTurnFrom
  <2>3. \A t \in Turns : t > turns' => phase'[t] = "unborn"
    BY <1>1, <1>3, <2>2 DEF OpenTurn, OpenTurnFrom, Turns, RunInv, TurnRules
  <2> QED
    BY <1>3, <2>1, <2>2, <2>3 DEF OpenTurn, OpenTurnFrom, RunInv, TurnRules, ReapRules
<1>4. ASSUME NEW s, CloseTurn(current, s), UNCHANGED reaper
      PROVE  TurnRules' /\ \A t \in Turns : reaper'[t] # {} => phase'[t] = "closing"
  <2>1. \A t \in Turns : phase'[t] = phase[t] \/ (phase'[t] = "closing" /\ phase[t] \in {"working", "wrapping"})
    BY <1>1, <1>4 DEF CloseTurn, Runs
  <2>2. current # 0 => current \in Turns /\ phase'[current] = "closing"
    BY <1>1, <1>4, MaxTurnAssumption DEF CloseTurn, Turns
  <2> QED
    BY <1>4, <2>1, <2>2 DEF CloseTurn, RunInv, TurnRules, ReapRules
<1>5. ASSUME NEW t \in Turns, Reaps(t)
      PROVE  TurnRules' /\ \A u \in Turns : reaper'[u] # {} => phase'[u] = "closing"
  <2>1. PICK cs : /\ reaper' = [reaper EXCEPT ![t] = cs]
                  /\ phase' = IF cs = {} THEN [phase EXCEPT ![t] = "over"] ELSE phase
    BY <1>5 DEF Reaps
  <2>2. phase[t] = "closing" /\ UNCHANGED <<status, turns, active, current>>
    BY <1>5 DEF Reaps
  <2>3. \A u \in Turns : phase'[u] = phase[u] \/ (u = t /\ phase'[u] = "over" /\ cs = {})
    BY <1>1, <2>1
  <2>4. \A u \in Turns : reaper'[u] # {} => phase'[u] = "closing"
    BY <1>1, <2>1, <2>2, <2>3 DEF RunInv, ReapRules
  <2>5. current # 0 => current \in Turns
    BY <1>1, MaxTurnAssumption DEF Turns
  <2>6. TurnRules'
    BY <2>2, <2>3, <2>5 DEF RunInv, TurnRules
  <2> QED
    BY <2>4, <2>6
<1>6. CASE RestartTurns /\ reaper' = [t \in Turns |-> {}]
  BY <1>6 DEF RestartTurns, RunInv, TurnRules
<1> QED
  BY <1>2, <1>3, <1>4, <1>5, <1>6 DEF TurnSteps

---------------------------------------------------------------------------
(* What the owner awaits.                                                   *)

Unwinds ==
    /\ await.kind = "child" /\ await' = [await EXCEPT !.kind = "unwind"]
    /\ stop.on /\ stop' = [stop EXCEPT !.turn = current]
    /\ current # 0 /\ phase[current] = "working" /\ UNCHANGED turnVars

AwaitSteps ==
    \/ await' = await /\ (await.kind = "unwind" =>
         stop' = stop /\ current' = current /\ phase'[current] = phase[current])
    \/ await' = NoAwait /\ \A c \in Children, r \in RunIds : callback'[c][r] # "awaited"
    \/ \E c \in Children : CancelChild(c)
    \/ Unwinds

LEMMA AwaitMoves ==
    ASSUME TypeOK, RunInv, Next
    PROVE  AwaitSteps \/ \E c \in Children, wait \in BOOLEAN : Delegate(c, wait) \/ Resume(c, wait)
<1>1. await \in Awaits /\ current \in 0..MaxTurn /\ NoAwait.kind = "none" /\ phase \in [Turns -> Phases]
  BY TypeSplit, AwaitKinds DEF RestTypes, TurnsTypeOK
<1>2. await.kind = "unwind" => stop.on /\ stop.turn = current /\ current \in Turns /\ phase[current] = "working"
  BY <1>1, MaxTurnAssumption DEF RunInv, AwaitRules, Turns
<1>3. await.kind \notin {"child", "unwind"} => \A c \in Children, r \in RunIds : callback[c][r] # "awaited"
  BY DEF RunInv, AwaitRules
<1>4. ASSUME NEW s, OpenOwnerTurn \/ EndOwnerTurn(s)
      PROVE  AwaitSteps
  <2>1. await' = await
    BY <1>4 DEF OpenOwnerTurn, EndOwnerTurn
  <2>2. await.kind = "unwind" => status = "running"
    BY <1>2 DEF RunInv, TurnRules, Turns
  <2>3. await.kind # "unwind"
    BY <1>1, <1>4, <2>2 DEF OpenOwnerTurn, OpenTurn, OpenTurnFrom, EndOwnerTurn, OwnerWorks
  <2> QED
    BY <2>1, <2>3 DEF AwaitSteps
<1>5. ASSUME AwaitReturns \/ AwaitRaises
      PROVE  AwaitSteps
  <2>1. await.kind \in {"child", "unwind"} /\ callback[await.child][await.run] = "none"
    BY <1>5 DEF AwaitReturns, AwaitRaises
  <2>2. \A c \in Children, r \in RunIds : callback[c][r] # "awaited"
    BY <2>1 DEF RunInv, AwaitRules
  <2> QED
    BY <1>5, <2>2 DEF AwaitReturns, AwaitRaises, AwaitSteps, childVars
<1>6. ASSUME CancelDone
      PROVE  AwaitSteps
  BY <1>3, <1>6 DEF CancelDone, AwaitSteps
<1>7. ASSUME NEW t \in Turns, ReapStart(t) \/ ReapEnd(t)
      PROVE  AwaitSteps
  <2>1. phase[t] = "closing" /\ UNCHANGED <<await, stop, current>>
    BY <1>7 DEF ReapStart, ReapEnd, RunInv, ReapRules
  <2>2. await.kind = "unwind" => phase'[current] = phase[current]
    BY <1>1, <1>2, <1>7, <2>1 DEF ReapStart, ReapEnd
  <2> QED
    BY <2>1, <2>2 DEF AwaitSteps
<1>8. CASE OwnerStep
  BY <1>4, <1>5, <1>6, <1>7, <1>8, Zenon DEF OwnerStep, AwaitSteps
<1>9. ASSUME NEW c, NEW r, NEW s, ChildBegins(c, r) \/ ChildAnswers(c, r, s) \/ ChildEnds(c, r) \/ Callback(c, r)
      PROVE  AwaitSteps
  BY <1>9 DEF ChildBegins, ChildAnswers, ChildEnds, Callback, AwaitSteps, turnVars
<1>10. CASE ChildStep
  BY <1>9, <1>10, Zenon DEF ChildStep
<1>11. ASSUME NEW c, WatchdogTimeout(c) \/ WatchdogOrphan(c) \/ UserStopsChild(c)
       PROVE  AwaitSteps
  BY <1>11 DEF WatchdogTimeout, WatchdogOrphan, WatchdogCloses, UserStopsChild, AwaitSteps, turnVars
<1>12. ASSUME NEW c, StopChild(c) \/ StopBegin \/ StopEnd
       PROVE  AwaitSteps
  <2>1. await.kind # "unwind" /\ await' = await
    BY <1>2, <1>12, <1>1 DEF StopChild, StopIdle, StopBegin, StopEnd, Turns
  <2> QED
    BY <2>1 DEF AwaitSteps
<1>13. CASE StopSelf
  <2>1. await.kind # "unwind"
    BY <1>2, <1>13 DEF StopSelf, StopIdle, Turns
  <2>2. CASE UNCHANGED await
    BY <2>1, <2>2 DEF AwaitSteps
  <2>3. CASE await.kind # "child" /\ await' = NoAwait
    BY <1>3, <1>13, <2>1, <2>3 DEF StopSelf, AwaitSteps
  <2>4. CASE Busy(phase) /\ phase[current] = "working" /\ await.kind = "child"
             /\ await' = [await EXCEPT !.kind = "unwind"] /\ UNCHANGED turnVars
    BY <1>13, <2>4 DEF StopSelf, Busy, AwaitSteps, Unwinds
  <2> QED
    BY <1>13, <2>2, <2>3, <2>4 DEF StopSelf
<1>14. CASE Restart
  BY <1>14 DEF Restart, AwaitSteps
<1> QED
  BY <1>8, <1>10, <1>11, <1>12, <1>13, <1>14, Zenon DEF Next

LEMMA AwaitRulesStep ==
    ASSUME TypeOK, RunInv, Quiet, AwaitSteps
    PROVE  AwaitRules'
<1>1. ChildTypes /\ await \in Awaits /\ NoAwait.kind = "none"
  BY TypeSplit, AwaitKinds DEF RestTypes
<1>2. await.kind # "none" => await.child \in Children
  BY <1>1, AwaitKinds
<1>3. \A c \in Children : /\ SameRun(c) /\ (Idle(c) => Idle(c)')
                          /\ \A r \in RunIds : callback'[c][r] = "awaited" => callback[c][r] = "awaited"
  BY DEF Quiet, Idle
<1>4. CASE await' = await /\ (await.kind = "unwind" =>
               stop' = stop /\ current' = current /\ phase'[current] = phase[current])
  <2>1. await'.kind \in {"child", "unwind"} => row'[await'.child].run = await'.run
    BY <1>2, <1>3, <1>4 DEF SameRun, RunInv, AwaitRules
  <2>2. await'.kind = "cancel" => Idle(await.child)'
    <3> SUFFICES ASSUME await.kind = "cancel"
                 PROVE  \A r \in RunIds : ~(task'[await.child][r] \in {"queued", "working"})
      BY <1>4 DEF Idle, WorksIn
    <3>1. PICK c \in Children : c = await.child
      BY <1>2
    <3>2. Idle(c)'
      BY <1>3, <3>1 DEF RunInv, AwaitRules
    <3> QED
      BY <3>1, <3>2 DEF Idle, WorksIn
  <2> QED
    BY <1>3, <1>4, <2>1, <2>2 DEF RunInv, AwaitRules
<1>5. CASE await' = NoAwait /\ \A c \in Children, r \in RunIds : callback'[c][r] # "awaited"
  BY <1>1, <1>5 DEF AwaitRules
<1>6. ASSUME NEW c \in Children, CancelChild(c)
      PROVE  AwaitRules'
  <2>1. await'.kind = "cancel" /\ await'.child = c /\ await.kind = "none"
    BY <1>1, <1>6 DEF CancelChild, OwnerWorks
  <2>2. PICK cs : task' = Cancelled(cs) /\ (Live(c, registered[c]) => <<c, registered[c]>> \in cs)
    BY <1>6 DEF CancelChild
  <2>3. Idle(c)'
    BY <1>1, <2>2, RegisteredStops DEF RunInv
  <2> QED
    BY <1>3, <2>1, <2>3 DEF RunInv, AwaitRules, Idle, WorksIn
<1>7. CASE Unwinds
  <2>1. await'.kind = "unwind" /\ await'.child = await.child /\ await'.run = await.run
    BY <1>1, <1>7 DEF Unwinds, Awaits, NoAwait
  <2>2. stop'.on /\ stop'.turn = current'
    BY <1>7, TypeSplit DEF Unwinds, RestTypes, Stops, turnVars
  <2> QED
    BY <1>2, <1>3, <1>7, <2>1, <2>2 DEF SameRun, RunInv, AwaitRules, Unwinds, turnVars
<1> QED
  BY <1>4, <1>5, <1>6, <1>7 DEF AwaitSteps

---------------------------------------------------------------------------
(* The runs.                                                                *)

LEMMA QuietKeeps ==
    ASSUME TypeOK, RunInv, Quiet, TurnSteps, AwaitSteps
    PROVE  RunInv'
<1>1. TurnRules' /\ AwaitRules' /\ \A t \in Turns : reaper'[t] # {} => phase'[t] = "closing"
  BY TurnRulesStep, AwaitRulesStep
<1>2. \A c \in Children : Idle(c) => Idle(c)'
  BY DEF Quiet, Idle
<1>3. Alone'
  <2> SUFFICES ASSUME NEW c \in Children, NEW r \in RunIds, WorksIn(c, r)'
               PROVE  (Started(c) /\ row[c].run = r /\ registered[c] = r /\ c \in held)'
    BY DEF Alone
  <2>1. Started(c) /\ row[c].run = r /\ registered[c] = r /\ c \in held
    BY DEF Quiet, RunInv, Alone
  <2> QED
    BY <2>1 DEF Quiet, Started
<1>4. \A t \in Turns : \A c \in Reaped(t)' : Idle(c)'
  <2> SUFFICES ASSUME NEW t \in Turns, NEW cr \in reaper'[t]
               PROVE  Idle(cr[1])'
    BY DEF Reaped
  <2>1. reaper \in [Turns -> SUBSET (Children \X Runs0)]
    BY TypeSplit DEF RestTypes
  <2>2. cr \in reaper[t] => Idle(cr[1])'
    <3> SUFFICES ASSUME cr \in reaper[t]
                 PROVE  Idle(cr[1])'
      OBVIOUS
    <3>1. cr[1] \in Children /\ Idle(cr[1])
      BY <2>1 DEF RunInv, ReapRules, Reaped
    <3> QED
      BY <1>2, <3>1
  <2>3. ASSUME NEW u \in Turns, Reaps(u)
        PROVE  cr \in reaper[t] \/ Idle(cr[1])'
    <3>1. PICK cs : reaper' = [reaper EXCEPT ![u] = cs] /\ \A x \in cs : Idle(x[1])'
      BY <2>3 DEF Reaps
    <3> QED
      BY <2>1, <3>1
  <2> QED
    BY <2>2, <2>3 DEF TurnSteps
<1> QED
  BY <1>1, <1>3, <1>4 DEF RunInv, ReapRules

\* A run is started for a child that does not work, in the turn that is current and
\* works: a reaper of its own turn has not taken the child.
LEMMA StartKeeps ==
    ASSUME TypeOK, RunInv, ReapsOwnTurn', NEW c \in Children, NEW r \in RunIds, NEW wait \in BOOLEAN,
           Idle(c), OwnerWorks, StartRun(c, r, wait), UNCHANGED <<turnVars, reapVars, stop>>
    PROVE  RunInv'
<1>1. /\ ChildTypes /\ reaper \in [Turns -> SUBSET (Children \X Runs0)]
      /\ NoAwait.kind = "none" /\ await.kind = "none"
  BY TypeSplit, AwaitKinds DEF RestTypes, OwnerWorks
<1>2. /\ row'[c] = [status |-> "started", reason |-> "none", turn |-> active, run |-> r] /\ registered'[c] = r
      /\ held' = held \cup {c}
      /\ \A d \in Children : d # c => row'[d] = row[d] /\ registered'[d] = registered[d]
  BY <1>1 DEF StartRun, ChildTypes
<1>3. /\ \A d \in Children, q \in RunIds : WorksIn(d, q)' => WorksIn(d, q) \/ (d = c /\ q = r)
      /\ \A d \in Children, q \in RunIds : callback'[d][q] = "awaited" =>
            callback[d][q] = "awaited" \/ (wait /\ d = c /\ q = r)
  BY <1>1 DEF StartRun, ChildTypes, WorksIn
<1>4. Alone'
  <2> SUFFICES ASSUME NEW d \in Children, NEW q \in RunIds, WorksIn(d, q)'
               PROVE  (Started(d) /\ row[d].run = q /\ registered[d] = q /\ d \in held)'
    BY DEF Alone
  <2>1. CASE d = c
    BY <1>2, <1>3, <2>1 DEF Idle, Started
  <2>2. CASE d # c
    BY <1>2, <1>3, <2>2 DEF RunInv, Alone, Started
  <2> QED
    BY <2>1, <2>2
<1>5. AwaitRules'
  <2>1. \A d \in Children, q \in RunIds : callback[d][q] # "awaited"
    BY <1>1 DEF RunInv, AwaitRules
  <2>2. await' = IF wait THEN [kind |-> "child", child |-> c, run |-> r] ELSE NoAwait
    BY DEF StartRun
  <2>3. CASE wait
    BY <1>2, <1>3, <2>1, <2>2, <2>3 DEF AwaitRules
  <2>4. CASE ~wait
    BY <1>1, <1>3, <2>1, <2>2, <2>4 DEF AwaitRules
  <2> QED
    BY <2>3, <2>4
<1>6. TurnRules'
  BY DEF RunInv, TurnRules, turnVars
<1>7. \A t \in Turns : c \notin Reaped(t)
  <2> SUFFICES ASSUME NEW t \in Turns, c \in Reaped(t)
               PROVE  FALSE
    OBVIOUS
  <2>1. phase[t] = "closing" /\ t # current
    BY DEF RunInv, ReapRules, Reaped, OwnerWorks
  <2>2. row'[c].turn = t
    BY DEF ReapsOwnTurn, Reaped, reapVars
  <2> QED
    BY <1>2, <2>1, <2>2 DEF RunInv, TurnRules
<1>8. ReapRules'
  <2> SUFFICES ASSUME NEW t \in Turns, NEW cr \in reaper[t]
               PROVE  Idle(cr[1])'
    BY DEF RunInv, ReapRules, Reaped, reapVars, turnVars
  <2>1. cr[1] \in Children /\ cr[1] \in Reaped(t)
    BY <1>1 DEF Reaped
  <2>2. Idle(cr[1]) /\ cr[1] # c
    BY <1>7, <2>1 DEF RunInv, ReapRules
  <2> QED
    BY <1>3, <2>1, <2>2 DEF Idle
<1> QED
  BY <1>4, <1>5, <1>6, <1>8 DEF RunInv

LEMMA OpensKeep ==
    ASSUME TypeOK, SlotRules, RunInv, ReapsOwnTurn', NEW c \in Children, NEW wait \in BOOLEAN,
           Delegate(c, wait) \/ Resume(c, wait)
    PROVE  RunInv'
<1>1. ChildTypes /\ row[c].run \in 0..MaxRun
  BY TypeSplit DEF ChildTypes, Rows, Runs0
<1>2. Idle(c)
  BY DEF RunInv, Alone, SlotRules, Delegate, Resume, Started, Idle
<1>3. OwnerWorks /\ UNCHANGED <<turnVars, reapVars, stop>>
  BY DEF Delegate, Resume
<1>4. ASSUME NEW r \in RunIds, StartRun(c, r, wait)
      PROVE  RunInv'
  BY <1>2, <1>3, <1>4, StartKeeps
<1>5. ASSUME UNCHANGED <<task, registered, callback, await>>, held \subseteq held',
             \A d \in Children : d # c => row'[d] = row[d]
      PROVE  RunInv'
  <2>1. \A d \in Children : Idle(d)' = Idle(d)
    BY <1>5 DEF Idle, WorksIn
  <2>2. Alone'
    <3> SUFFICES ASSUME NEW d \in Children, NEW q \in RunIds, WorksIn(d, q)'
                 PROVE  (Started(d) /\ row[d].run = q /\ registered[d] = q /\ d \in held)'
      BY DEF Alone
    <3>1. WorksIn(d, q) /\ d # c
      BY <1>2, <1>5 DEF WorksIn, Idle
    <3> QED
      BY <1>5, <3>1 DEF RunInv, Alone, Started
  <2>3. AwaitRules' /\ TurnRules'
    <3>1. await.kind = "none"
      BY TypeSplit, AwaitKinds, <1>3 DEF RestTypes, OwnerWorks
    <3> QED
      BY <1>3, <1>5, <3>1 DEF RunInv, AwaitRules, TurnRules, turnVars
  <2>4. ReapRules'
    <3> SUFFICES ASSUME NEW t \in Turns, NEW cr \in reaper[t]
                 PROVE  Idle(cr[1])'
      BY <1>3 DEF RunInv, ReapRules, Reaped, reapVars, turnVars
    <3>1. cr[1] \in Children /\ cr[1] \in Reaped(t)
      BY TypeSplit DEF RestTypes, Reaped
    <3> QED
      BY <2>1, <3>1 DEF RunInv, ReapRules
  <2> QED
    BY <2>2, <2>3, <2>4 DEF RunInv
<1>6. CASE Delegate(c, wait)
  BY <1>1, <1>4, <1>5, <1>6, Bounds DEF Delegate, ChildTypes, slotVars
<1>7. CASE Resume(c, wait)
  <2>1. row[c].run + 1 \in RunIds
    BY <1>1, <1>7, Bounds DEF Resume, RunIds
  <2> QED
    BY <1>1, <1>4, <1>5, <1>7, <2>1 DEF Resume, ChildTypes, slotVars
<1> QED
  BY <1>6, <1>7

LEMMA RunInit ==
    ASSUME Init
    PROVE  RunInv
BY DEF Init, TurnsInit, RunInv, Alone, WorksIn, AwaitRules, ReapRules, Reaped, TurnRules, NoAwait

LEMMA RunStep ==
    ASSUME IInv, RunInv, [Next]_vars, ReapsOwnTurn'
    PROVE  RunInv'
<1>1. CASE UNCHANGED vars
  <2>1. UNCHANGED <<turnVars, childVars, held, reaper, await, stop>>
    BY <1>1 DEF vars, slotVars, reapVars
  <2>2. Quiet /\ TurnSteps /\ AwaitSteps
    BY <2>1, QuietSame DEF TurnSteps, AwaitSteps, turnVars
  <2> QED
    BY <2>2, QuietKeeps DEF IInv
<1>2. CASE Next
  <2>1. CASE \E c \in Children, wait \in BOOLEAN : Delegate(c, wait) \/ Resume(c, wait)
    BY <2>1, OpensKeep DEF IInv
  <2>2. CASE ~\E c \in Children, wait \in BOOLEAN : Delegate(c, wait) \/ Resume(c, wait)
    BY <1>2, <2>2, QuietSteps, TurnMoves, AwaitMoves, QuietKeeps DEF IInv
  <2> QED
    BY <2>1, <2>2
<1> QED
  BY <1>1, <1>2

\* As long as every reaper takes children of its own turn, a run that works is
\* alone: nothing that ends late of an earlier run touches what is its own.
THEOREM RunsAlone == Spec => (OwnReapers => []RunInv)
<1>1. Init => RunInv
  BY RunInit
<1>2. IInv /\ RunInv /\ [Next]_vars /\ ReapsOwnTurn' => RunInv'
  BY RunStep
<1>3. OwnReapers => []ReapsOwnTurn
  BY PTL DEF OwnReapers, ReapsOwnTurn
<1> QED
  BY <1>1, <1>2, <1>3, Invariance, PTL DEF Spec

\* A run that works holds its child's slot, whatever ends late of an earlier run
\* or of an earlier turn.
THEOREM RunsHoldSlots == Spec => LiveRunHoldsSlot
<1>1. IInv /\ RunInv => \A c \in Children :
        Started(c) /\ row[c].run # 0 /\ task[c][row[c].run] \in {"queued", "working"} => c \in held
  <2> SUFFICES ASSUME IInv, RunInv, NEW c \in Children, row[c].run # 0,
                      task[c][row[c].run] \in {"queued", "working"}
               PROVE  c \in held
    OBVIOUS
  <2>1. row[c].run \in RunIds
    BY TypeSplit, Bounds DEF IInv, ChildTypes, Rows, Runs0, RunIds
  <2> QED
    BY <2>1 DEF RunInv, Alone, WorksIn
<1> QED
  BY <1>1, RunsAlone, Invariance, PTL DEF LiveRunHoldsSlot

\* A closed row stands over no run that works: whoever closes it has stopped the run.
THEOREM ClosedAreStopped == Spec => ClosedMeansStopped
<1>1. RunInv => \A c \in Children : row[c].status \in Closed =>
        \A r \in RunIds : task[c][r] \notin {"queued", "working"}
  BY DEF RunInv, Alone, WorksIn, Started, Closed
<1> QED
  BY <1>1, RunsAlone, PTL DEF ClosedMeansStopped

---------------------------------------------------------------------------
(* When reapers keep to their own turn.                                     *)

\* No turn is opened while the finally block of another still runs: what start
\* does not ask (runtime.py:2126-2127), and all that the two properties need.
TurnsApart == [][turns' # turns => \A t \in Turns : phase[t] # "closing"]_vars

\* One turn at a time is alive, and its reaper's children are its own.
Sole ==
    /\ \A t \in Turns : Alive(t) => t = current
    /\ current # 0 /\ Runs(current) => status = "running"
    /\ ReapsOwnTurn

LEMMA SoleTurns ==
    ASSUME TypeOK, RunInv, Sole, TurnSteps, turns' # turns => \A t \in Turns : phase[t] # "closing"
    PROVE  /\ \A t \in Turns : Alive(t)' => t = current'
           /\ current' # 0 /\ Runs(current)' => status' = "running"
<1>1. phase \in [Turns -> Phases] /\ turns \in Nat /\ current \in 0..MaxTurn /\ (current # 0 => current \in Turns)
  BY TypeSplit, Bounds, MaxTurnAssumption DEF TurnsTypeOK, Turns
<1>2. CASE UNCHANGED <<turnVars, reaper>>
  BY <1>2 DEF Sole, Alive, Runs, turnVars
<1>3. CASE OpenTurn
  <2>1. turns' # turns
    BY <1>1, <1>3 DEF OpenTurn, OpenTurnFrom
  <2>2. \A t \in Turns : ~Alive(t)
    <3> SUFFICES ASSUME NEW t \in Turns, Alive(t)
                 PROVE  FALSE
      OBVIOUS
    <3>1. t = current /\ Runs(current) /\ t # 0
      BY <2>1 DEF Sole, Alive, Runs, Turns
    <3> QED
      BY <1>3, <3>1 DEF Sole, OpenTurn, OpenTurnFrom
  <2>3. \A t \in Turns : t # turns + 1 => phase'[t] = phase[t]
    BY <1>1, <1>3 DEF OpenTurn, OpenTurnFrom
  <2>4. current' = turns + 1 /\ status' = "running"
    BY <1>3 DEF OpenTurn, OpenTurnFrom
  <2> QED
    BY <2>2, <2>3, <2>4 DEF Alive
<1>4. ASSUME NEW s, CloseTurn(current, s)
      PROVE  /\ \A t \in Turns : Alive(t)' => t = current'
             /\ current' # 0 /\ Runs(current)' => status' = "running"
  <2>1. \A t \in Turns : t # current => phase'[t] = phase[t]
    BY <1>1, <1>4 DEF CloseTurn
  <2>2. current' = current /\ (current # 0 => phase'[current] = "closing")
    BY <1>1, <1>4 DEF CloseTurn
  <2> QED
    BY <2>1, <2>2 DEF Sole, Alive, Runs
<1>5. ASSUME NEW t \in Turns, Reaps(t)
      PROVE  /\ \A u \in Turns : Alive(u)' => u = current'
             /\ current' # 0 /\ Runs(current)' => status' = "running"
  <2>1. \A u \in Turns : phase'[u] = phase[u] \/ phase'[u] = "over"
    BY <1>1, <1>5 DEF Reaps
  <2>2. current' = current /\ status' = status
    BY <1>5 DEF Reaps
  <2> QED
    BY <1>1, <2>1, <2>2 DEF Sole, Alive, Runs
<1>6. CASE RestartTurns
  BY <1>6 DEF RestartTurns, Alive
<1> QED
  BY <1>2, <1>3, <1>4, <1>5, <1>6 DEF TurnSteps

LEMMA SoleReaps ==
    ASSUME TypeOK, RunInv, Sole, TurnSteps, TypeOK',
           Quiet \/ \E c \in Children, wait \in BOOLEAN : Delegate(c, wait) \/ Resume(c, wait)
    PROVE  ReapsOwnTurn'
<1>1. ChildTypes /\ reaper \in [Turns -> SUBSET (Children \X Runs0)]
  BY TypeSplit DEF RestTypes
<1>2. ASSUME NEW t \in Turns, NEW cr \in reaper[t]
      PROVE  cr[1] \in Children /\ row[cr[1]].turn = t
  BY <1>1, <1>2 DEF Sole, ReapsOwnTurn, Reaped
<1> SUFFICES ASSUME NEW t \in Turns, NEW cr \in reaper'[t]
             PROVE  row'[cr[1]].turn = t
  BY DEF ReapsOwnTurn, Reaped
<1>3. ASSUME NEW c \in Children, NEW wait \in BOOLEAN, Delegate(c, wait) \/ Resume(c, wait)
      PROVE  row'[cr[1]].turn = t
  <2>1. cr \in reaper[t] /\ current # 0 /\ phase[current] = "working"
    BY <1>3 DEF Delegate, Resume, OwnerWorks, reapVars
  <2>2. phase[t] = "closing" /\ t = current
    BY <2>1 DEF Sole, Alive, RunInv, ReapRules
  <2> QED
    BY <2>1, <2>2
<1>4. CASE Quiet
  <2>1. cr \in reaper[t] => row'[cr[1]].turn = t
    BY <1>2, <1>4 DEF Quiet, SameRun
  <2>2. ASSUME NEW u \in Turns, Reaps(u)
        PROVE  row'[cr[1]].turn = t
    <3>1. PICK cs : reaper' = [reaper EXCEPT ![u] = cs] /\ \A x \in cs : row[x[1]].turn = active
      BY <2>2 DEF Reaps
    <3>2. u = current /\ active = current
      BY <2>2 DEF Reaps, Sole, Alive, RunInv, TurnRules
    <3>3. cr \in reaper[t] \/ (t = u /\ row[cr[1]].turn = t)
      BY <1>1, <3>1, <3>2
    <3>4. cr[1] \in Children
      <4>1. reaper' \in [Turns -> SUBSET (Children \X Runs0)]
        BY TypeSplitNext DEF RestTypes
      <4> QED
        BY <4>1
    <3> QED
      BY <1>4, <2>1, <3>3, <3>4 DEF Quiet, SameRun
  <2> QED
    BY <2>1, <2>2 DEF TurnSteps
<1> QED
  BY <1>3, <1>4

LEMMA SoleStep ==
    ASSUME IInv, RunInv, Sole, [Next]_vars, IInv',
           turns' # turns => \A t \in Turns : phase[t] # "closing"
    PROVE  RunInv' /\ Sole'
<1>1. TurnSteps /\ (Quiet \/ \E c \in Children, wait \in BOOLEAN : Delegate(c, wait) \/ Resume(c, wait))
  <2>1. CASE UNCHANGED vars
    BY <2>1, QuietSame DEF TurnSteps, vars, turnVars, slotVars, reapVars
  <2>2. CASE Next
    BY <2>2, TurnMoves, QuietSteps DEF IInv
  <2> QED
    BY <2>1, <2>2
<1>2. ReapsOwnTurn'
  BY <1>1, SoleReaps DEF IInv
<1>3. /\ \A t \in Turns : Alive(t)' => t = current'
      /\ current' # 0 /\ Runs(current)' => status' = "running"
  BY <1>1, SoleTurns DEF IInv
<1>4. RunInv'
  BY <1>2, RunStep
<1> QED
  BY <1>2, <1>3, <1>4 DEF Sole, Runs

\* As long as no turn is opened while the finally block of another still runs, a
\* reaper takes the children of its own turn only: the late cleanup of a turn that
\* was overtaken is the one way there is to another turn's children.
THEOREM ApartReapOwn == Spec /\ TurnsApart => OwnReapers
<1>1. Init => RunInv /\ Sole
  BY RunInit DEF Init, TurnsInit, Sole, Alive, ReapsOwnTurn, Reaped
<1>2. IInv /\ RunInv /\ Sole /\ [Next]_vars /\ IInv' /\ [turns' # turns => \A t \in Turns : phase[t] # "closing"]_vars
        => RunInv' /\ Sole'
  <2> SUFFICES ASSUME IInv, RunInv, Sole, [Next]_vars, IInv',
                      [turns' # turns => \A t \in Turns : phase[t] # "closing"]_vars
               PROVE  RunInv' /\ Sole'
    OBVIOUS
  <2>1. turns' # turns => \A t \in Turns : phase[t] # "closing"
    BY DEF vars, turnVars
  <2> QED
    BY <2>1, SoleStep
<1>3. Sole => \A t \in Turns : \A c \in Reaped(t) : row[c].turn = t
  BY DEF Sole, ReapsOwnTurn
<1> QED
  BY <1>1, <1>2, <1>3, Invariance, PTL DEF Spec, TurnsApart, OwnReapers
===============================================================================
