-------------------------- MODULE ChildLedger_proofs --------------------------
(***************************************************************************)
(* Theorems about ChildLedger, for any children, fan-out limit and bounds.  *)
(* An action either starts a run (Delegate, Resume), begins a new process   *)
(* (Restart), or is Calm: it opens nothing and only moves a child towards   *)
(* its end.  The rules that keep a slot's account follow from that split.   *)
(***************************************************************************)
EXTENDS ChildLedger, FiniteSetTheorems, TLAPS

Rows == [status : {"absent", "started"} \cup Closed, reason : Reasons, turn : 0..MaxTurn, run : Runs0]
SessionStates == {"none", "idle", "running", "cancelled", "interrupted"} \cup Answers
CallStates == {"none", "detached", "awaited"}
Awaits == {NoAwait} \cup [kind : {"child", "unwind", "cancel"}, child : Children, run : Runs0]
Stops == [on : BOOLEAN, left : SUBSET Children, at : SUBSET (Children \X RunIds), turn : 0..MaxTurn]

ChildTypes ==
    /\ row \in [Children -> Rows] /\ session \in [Children -> SessionStates]
    /\ task \in [Children -> [RunIds -> TaskStates]] /\ registered \in [Children -> Runs0]
    /\ callback \in [Children -> [RunIds -> CallStates]]

RestTypes ==
    /\ reaping \in SUBSET Children /\ reaper \in [Turns -> SUBSET (Children \X Runs0)]
    /\ await \in Awaits /\ stop \in Stops

SlotTypes == held \in SUBSET Children /\ permits \in 0..Slots

\* What keeps the slots' account: a holder has a session and a row that no resume
\* may open; the child the owner awaits owes the awaited callback or has given its
\* slot back; and what it returned with is saved.
SlotRules ==
    /\ \A c \in held : session[c] # "none" /\ ~Resumable(c)
    /\ \A c \in Children : row[c].status = "absent" => row[c].reason = "none"
    /\ await.kind = "child" =>
         /\ await.run \in RunIds
         /\ callback[await.child][await.run] # "detached"
         /\ callback[await.child][await.run] = "none" => await.child \notin held
         /\ task[await.child][await.run] \in {"closing", "returned"} =>
              session[await.child] \in Answers \cup {"cancelled"}

Account == IsFiniteSet(held) /\ SlotsConserved

IInv == TypeOK /\ Account /\ SlotRules /\ ReapingEnds

---------------------------------------------------------------------------
(* Types of what the actions are built from.                                *)

LEMMA TypeSplit == TypeOK <=> TurnsTypeOK /\ ChildTypes /\ SlotTypes /\ RestTypes
BY Zenon DEF TypeOK, ChildTypes, SlotTypes, RestTypes, Rows, SessionStates, CallStates, Awaits, Stops

LEMMA TypeSplitNext == TypeOK' <=> TurnsTypeOK' /\ ChildTypes' /\ SlotTypes' /\ RestTypes'
BY Zenon DEF TypeOK, ChildTypes, SlotTypes, RestTypes, Rows, SessionStates, CallStates, Awaits, Stops

LEMMA Bounds == /\ Slots \in Nat /\ Slots > 0 /\ MaxRun \in Nat /\ 1 \in RunIds /\ 0 \in Runs0
                /\ RunIds \subseteq Runs0 /\ MaxTurn \in Nat /\ 0 \in 0..MaxTurn
BY BoundsAssumption, MaxTurnAssumption DEF RunIds, Runs0

LEMMA AwaitKinds ==
    ASSUME await \in Awaits
    PROVE  /\ await.kind \in {"none", "child", "unwind", "cancel"}
           /\ await.kind # "none" => await.child \in Children /\ await.run \in Runs0
           /\ NoAwait \in Awaits /\ NoAwait.kind = "none"
BY DEF Awaits, NoAwait

LEMMA AwaitTypes ==
    ASSUME NEW k \in {"child", "unwind", "cancel"}, NEW c \in Children, NEW r \in Runs0
    PROVE  [kind |-> k, child |-> c, run |-> r] \in Awaits
BY DEF Awaits

\* A cancelled run may only have been closing, never become so.
LEMMA CancelledTypes ==
    ASSUME ChildTypes, NEW cs
    PROVE  /\ Cancelled(cs) \in [Children -> [RunIds -> TaskStates]]
           /\ SavedCancelled(cs) \in [Children -> SessionStates]
           /\ \A c \in Children : SavedCancelled(cs)[c] \in {session[c], "cancelled"}
           /\ \A c \in Children, r \in RunIds :
                 Cancelled(cs)[c][r] \in {"closing", "returned"} => Cancelled(cs)[c][r] = task[c][r]
<1>1. \A c \in Children, r \in RunIds : task[c][r] \in TaskStates
  BY DEF ChildTypes
<1>2. Cancelled(cs) \in [Children -> [RunIds -> TaskStates]]
  BY <1>1 DEF Cancelled, TaskStates
<1>3. SavedCancelled(cs) \in [Children -> SessionStates]
  BY DEF SavedCancelled, ChildTypes, SessionStates
<1>4. \A c \in Children : SavedCancelled(cs)[c] \in {session[c], "cancelled"}
  BY DEF SavedCancelled
<1>5. \A c \in Children, r \in RunIds :
         Cancelled(cs)[c][r] \in {"closing", "returned"} => Cancelled(cs)[c][r] = task[c][r]
  BY <1>1 DEF Cancelled, TaskStates
<1> QED
  BY <1>2, <1>3, <1>4, <1>5

\* Only a started row is closed, and a closer touches no other row.
LEMMA FinishMoves ==
    ASSUME ChildTypes, NEW c \in Children, NEW s \in Closed, NEW why \in Reasons
    PROVE  /\ Finish(c, s, why) \in [Children -> Rows]
           /\ \A d \in Children : d # c \/ ~Started(d) => Finish(c, s, why)[d] = row[d]
           /\ Started(c) => /\ Finish(c, s, why)[c].status = s /\ Finish(c, s, why)[c].reason = why
                            /\ Finish(c, s, why)[c].run = row[c].run
                            /\ Finish(c, s, why)[c].turn = row[c].turn
<1>1. row \in [Children -> Rows]
  BY DEF ChildTypes
<1>2. row[c] \in Rows
  BY <1>1
<1>3. [row[c] EXCEPT !.status = s, !.reason = why] \in Rows
  BY <1>2 DEF Rows
<1>4. [row EXCEPT ![c].status = s, ![c].reason = why] \in [Children -> Rows]
  BY <1>1, <1>3
<1>5. Finish(c, s, why) \in [Children -> Rows]
  BY <1>1, <1>4 DEF Finish
<1>6. \A d \in Children : d # c \/ ~Started(d) => Finish(c, s, why)[d] = row[d]
  BY <1>1 DEF Finish
<1>7. Started(c) => /\ Finish(c, s, why)[c].status = s /\ Finish(c, s, why)[c].reason = why
                    /\ Finish(c, s, why)[c].run = row[c].run /\ Finish(c, s, why)[c].turn = row[c].turn
  BY <1>1, <1>2 DEF Finish, Rows
<1> QED
  BY <1>5, <1>6, <1>7

LEMMA SettledTypes ==
    ASSUME ChildTypes, NEW c \in Children
    PROVE  Settled(c) \in SessionStates /\ Settled(c) \in {session[c], "cancelled"}
BY DEF Settled, ChildTypes, SessionStates

---------------------------------------------------------------------------
(* The slots.                                                               *)

LEMMA ReleaseKeeps ==
    ASSUME SlotTypes, Account, NEW c \in Children, Release(c)
    PROVE  SlotTypes' /\ Account' /\ held' \subseteq held /\ c \notin held'
<1>1. IsFiniteSet(held') /\ Cardinality(held') = IF c \in held THEN Cardinality(held) - 1 ELSE Cardinality(held)
  BY FS_RemoveElement DEF Account, Release
<1>2. Cardinality(held') \in Nat /\ Cardinality(held) \in Nat
  BY <1>1, FS_CardinalityType DEF Account
<1>3. permits' = Slots - Cardinality(held')
  BY <1>1, <1>2, Bounds DEF Account, SlotsConserved, Release
<1>4. permits' \in 0..Slots
  BY <1>2, <1>3, Bounds DEF SlotTypes, Release
<1> QED
  BY <1>1, <1>3, <1>4 DEF SlotTypes, Account, SlotsConserved, Release

Bought(c) == held' = held \cup {c} /\ permits' = permits - 1

LEMMA BoughtKeeps ==
    ASSUME SlotTypes, Account, NEW c \in Children, c \notin held, permits > 0, Bought(c)
    PROVE  SlotTypes' /\ Account'
<1>1. IsFiniteSet(held') /\ Cardinality(held') = Cardinality(held) + 1
  BY FS_AddElement DEF Account, Bought
<1>2. Cardinality(held) \in Nat
  BY FS_CardinalityType DEF Account
<1>3. permits' = Slots - Cardinality(held')
  BY <1>1, <1>2, Bounds DEF Account, SlotsConserved, Bought
<1> QED
  BY <1>1, <1>3, Bounds DEF SlotTypes, Account, SlotsConserved, Bought

LEMMA EmptyKeeps ==
    ASSUME held' = {}, permits' = Slots
    PROVE  SlotTypes' /\ Account'
BY FS_EmptySet, Bounds DEF SlotTypes, Account, SlotsConserved

\* A child that a run may be started for holds no slot: none is bought twice.
LEMMA SlotMoves ==
    ASSUME RestTypes, SlotRules, Next
    PROVE  \/ UNCHANGED slotVars
           \/ \E c \in Children : Release(c)
           \/ \E c \in Children : c \notin held /\ permits > 0 /\ Bought(c)
           \/ held' = {} /\ permits' = Slots
<1>1. ASSUME NEW c \in Children, NEW wait \in BOOLEAN, Delegate(c, wait)
      PROVE  UNCHANGED slotVars \/ (c \notin held /\ permits > 0 /\ Bought(c))
  BY <1>1 DEF Delegate, StartRun, Bought, SlotRules
<1>2. ASSUME NEW c \in Children, NEW wait \in BOOLEAN, Resume(c, wait)
      PROVE  UNCHANGED slotVars \/ (c \notin held /\ permits > 0 /\ Bought(c))
  BY <1>2 DEF Resume, StartRun, Bought, SlotRules
<1>3. ASSUME NEW c \in Children, CancelChild(c) \/ WatchdogTimeout(c) \/ WatchdogOrphan(c)
                                 \/ UserStopsChild(c) \/ StopChild(c)
      PROVE  UNCHANGED slotVars \/ Release(c)
  BY <1>3 DEF CancelChild, WatchdogTimeout, WatchdogOrphan, WatchdogCloses, UserStopsChild, StopChild
<1>4. ASSUME CancelDone
      PROVE  \E c \in Children : Release(c)
  <2>1. await.child \in Children
    BY <1>4, AwaitKinds DEF CancelDone, RestTypes
  <2> QED
    BY <1>4, <2>1 DEF CancelDone
<1>5. ASSUME NEW c \in Children, NEW r \in RunIds, Callback(c, r)
      PROVE  UNCHANGED slotVars \/ Release(c)
  BY <1>5 DEF Callback
<1>6. ASSUME OpenOwnerTurn \/ AwaitReturns \/ AwaitRaises \/ StopBegin \/ StopSelf \/ StopEnd
      PROVE  UNCHANGED slotVars
  BY <1>6 DEF OpenOwnerTurn, AwaitReturns, AwaitRaises, StopBegin, StopSelf, StopEnd
<1>7. ASSUME NEW s, EndOwnerTurn(s)
      PROVE  UNCHANGED slotVars
  BY <1>7 DEF EndOwnerTurn
<1>8. ASSUME NEW t \in Turns, ReapStart(t) \/ ReapEnd(t)
      PROVE  UNCHANGED slotVars
  BY <1>8 DEF ReapStart, ReapEnd, slotVars
<1>9. ASSUME NEW c \in Children, NEW r \in RunIds, NEW s, ChildBegins(c, r) \/ ChildAnswers(c, r, s) \/ ChildEnds(c, r)
      PROVE  UNCHANGED slotVars
  BY <1>9 DEF ChildBegins, ChildAnswers, ChildEnds
<1>10. ASSUME Restart
       PROVE  held' = {} /\ permits' = Slots
  BY <1>10 DEF Restart
<1>11. CASE OwnerStep
  BY <1>11, <1>1, <1>2, <1>3, <1>4, <1>6, <1>7, <1>8, Zenon DEF OwnerStep
<1>12. CASE ChildStep
  BY <1>12, <1>5, <1>9, Zenon DEF ChildStep
<1> QED
  BY <1>3, <1>6, <1>10, <1>11, <1>12, Zenon DEF Next

---------------------------------------------------------------------------
(* Type correctness, one lemma for each group of actions.                   *)

Typed == TurnsTypeOK' /\ ChildTypes' /\ RestTypes'

LEMMA CloseTurnTypes ==
    ASSUME TurnsTypeOK, NEW t, NEW s \in Ends, CloseTurn(t, s)
    PROVE  TurnsTypeOK'
BY DEF TurnsTypeOK, CloseTurn, Phases, Statuses

LEMMA OpenTurnTypes ==
    ASSUME TurnsTypeOK, OpenTurn
    PROVE  TurnsTypeOK'
<1>1. turns + 1 \in 0..MaxTurn
  BY Bounds DEF TurnsTypeOK, OpenTurn, OpenTurnFrom
<1> QED
  BY <1>1 DEF TurnsTypeOK, OpenTurn, OpenTurnFrom, Phases, Statuses

LEMMA PhaseTypes ==
    ASSUME TurnsTypeOK, NEW t
    PROVE  [phase EXCEPT ![t] = "over"] \in [Turns -> Phases]
BY DEF TurnsTypeOK, Phases

LEMMA SameTypes ==
    /\ TurnsTypeOK /\ UNCHANGED turnVars => TurnsTypeOK'
    /\ ChildTypes /\ UNCHANGED childVars => ChildTypes'
    /\ RestTypes /\ UNCHANGED <<reapVars, await, stop>> => RestTypes'
BY DEF TurnsTypeOK, ChildTypes, RestTypes, turnVars, childVars, reapVars

LEMMA StartRunTypes ==
    ASSUME TypeOK, NEW c \in Children, NEW r \in RunIds, NEW wait \in BOOLEAN, StartRun(c, r, wait)
    PROVE  ChildTypes' /\ await' \in Awaits
<1>1. [status |-> "started", reason |-> "none", turn |-> active, run |-> r] \in Rows
  BY Bounds, TypeSplit DEF Rows, Reasons, TurnsTypeOK
<1>2. row' \in [Children -> Rows] /\ session' \in [Children -> SessionStates]
  BY <1>1, TypeSplit DEF StartRun, ChildTypes, SessionStates
<1>3. task' \in [Children -> [RunIds -> TaskStates]] /\ callback' \in [Children -> [RunIds -> CallStates]]
  BY TypeSplit DEF StartRun, ChildTypes, TaskStates, CallStates
<1>4. registered' \in [Children -> Runs0] /\ r \in Runs0
  BY Bounds, TypeSplit DEF StartRun, ChildTypes
<1>5. await' \in Awaits
  BY <1>4, AwaitTypes DEF StartRun, Awaits
<1> QED
  BY <1>2, <1>3, <1>4, <1>5 DEF ChildTypes

LEMMA DelegateTypes ==
    ASSUME TypeOK, NEW c \in Children, NEW wait \in BOOLEAN, Delegate(c, wait)
    PROVE  Typed
<1>1. TurnsTypeOK /\ ChildTypes /\ RestTypes /\ active \in 0..MaxTurn
  BY TypeSplit DEF TurnsTypeOK
<1>2. ChildTypes' /\ await' \in Awaits
  <2>1. CASE StartRun(c, 1, wait)
    BY <2>1, StartRunTypes, Bounds
  <2>2. CASE /\ session' = [session EXCEPT ![c] = "idle"]
             /\ UNCHANGED <<row, task, registered, callback, await>>
    BY <1>1, <2>2 DEF ChildTypes, RestTypes, SessionStates
  <2>3. CASE /\ row' = [row EXCEPT ![c] = [status |-> IF c \in Kept THEN "failed" ELSE "started",
                                           reason |-> IF c \in Kept THEN "START_FAILED" ELSE "none",
                                           turn |-> active, run |-> 0]]
             /\ session' = [session EXCEPT ![c] = IF c \in Kept THEN "cancelled" ELSE "idle"]
             /\ UNCHANGED <<task, registered, callback, await>>
    <3>1. [status |-> IF c \in Kept THEN "failed" ELSE "started",
           reason |-> IF c \in Kept THEN "START_FAILED" ELSE "none", turn |-> active, run |-> 0] \in Rows
      BY <1>1, Bounds DEF Rows, Reasons, Closed
    <3> QED
      BY <1>1, <2>3, <3>1 DEF ChildTypes, RestTypes, SessionStates
  <2> QED
    BY <2>1, <2>2, <2>3 DEF Delegate
<1> QED
  BY <1>1, <1>2 DEF Delegate, Typed, TurnsTypeOK, turnVars, RestTypes, reapVars

LEMMA ResumeTypes ==
    ASSUME TypeOK, NEW c \in Children, NEW wait \in BOOLEAN, Resume(c, wait)
    PROVE  Typed
<1>1. TurnsTypeOK /\ ChildTypes /\ RestTypes /\ active \in 0..MaxTurn
  BY TypeSplit DEF TurnsTypeOK
<1>2. row[c].run + 1 \in RunIds
  <2>1. row[c].run \in 0..MaxRun
    BY <1>1 DEF ChildTypes, Rows, Runs0
  <2> QED
    BY <2>1, Bounds DEF Resume, RunIds
<1>3. ChildTypes' /\ await' \in Awaits
  <2>1. CASE StartRun(c, row[c].run + 1, wait)
    BY <1>2, <2>1, StartRunTypes
  <2>2. CASE /\ row' = [row EXCEPT ![c] = [status |-> "failed", reason |-> "START_FAILED",
                                           turn |-> active, run |-> row[c].run + 1]]
             /\ UNCHANGED <<session, task, registered, callback, await>>
    <3>1. [status |-> "failed", reason |-> "START_FAILED", turn |-> active, run |-> row[c].run + 1] \in Rows
      BY <1>1, <1>2, Bounds DEF Rows, Reasons, Closed
    <3> QED
      BY <1>1, <2>2, <3>1 DEF ChildTypes, RestTypes
  <2> QED
    BY <2>1, <2>2 DEF Resume
<1> QED
  BY <1>1, <1>3 DEF Resume, Typed, TurnsTypeOK, turnVars, RestTypes, reapVars

LEMMA AwaitReturnsTypes ==
    ASSUME TypeOK, SlotRules, AwaitReturns
    PROVE  Typed
<1>1. TurnsTypeOK /\ ChildTypes /\ RestTypes /\ await.child \in Children /\ NoAwait \in Awaits
  BY TypeSplit, AwaitKinds DEF AwaitReturns, RestTypes
<1>2. session[await.child] \in Closed
  BY DEF SlotRules, AwaitReturns, Answers, Closed
<1>3. (IF session[await.child] = "failed" THEN "error" ELSE "none") \in Reasons
  BY DEF Reasons
<1>4. row' \in [Children -> Rows]
  BY <1>1, <1>2, <1>3, FinishMoves, Zenon DEF AwaitReturns
<1> QED
  BY <1>1, <1>4 DEF AwaitReturns, Typed, TurnsTypeOK, turnVars, ChildTypes, RestTypes, reapVars

LEMMA CancelDoneTypes ==
    ASSUME TypeOK, CancelDone
    PROVE  Typed
<1>1. TurnsTypeOK /\ ChildTypes /\ RestTypes /\ await.child \in Children /\ NoAwait \in Awaits
  BY TypeSplit, AwaitKinds DEF CancelDone, RestTypes
<1>2. row' \in [Children -> Rows]
  BY <1>1, FinishMoves DEF CancelDone, Closed, Reasons
<1>3. session' \in [Children -> SessionStates]
  BY <1>1, SettledTypes DEF CancelDone, ChildTypes
<1> QED
  BY <1>1, <1>2, <1>3 DEF CancelDone, Typed, TurnsTypeOK, turnVars, ChildTypes, RestTypes, reapVars

\* Tasks are cancelled and what they save is saved: nothing else of a child moves.
LEMMA CancelsTypes ==
    ASSUME ChildTypes, NEW cs, task' = Cancelled(cs), session' = SavedCancelled(cs),
           UNCHANGED <<row, registered, callback>>
    PROVE  ChildTypes'
BY CancelledTypes DEF ChildTypes

LEMMA CancelChildTypes ==
    ASSUME TypeOK, NEW c \in Children, CancelChild(c)
    PROVE  Typed
<1>1. TurnsTypeOK /\ ChildTypes /\ RestTypes /\ registered[c] \in Runs0
  BY TypeSplit DEF ChildTypes
<1>2. ChildTypes'
  BY <1>1, CancelsTypes DEF CancelChild
<1>3. await' \in Awaits
  BY <1>1, AwaitTypes DEF CancelChild
<1> QED
  BY <1>1, <1>2, <1>3 DEF CancelChild, Typed, TurnsTypeOK, turnVars, RestTypes, reapVars

LEMMA ChildStepTypes ==
    ASSUME TypeOK, NEW c \in Children, NEW r \in RunIds, NEW s \in Answers,
           ChildBegins(c, r) \/ ChildAnswers(c, r, s) \/ ChildEnds(c, r)
    PROVE  Typed
<1>1. TurnsTypeOK /\ ChildTypes /\ RestTypes
  BY TypeSplit
<1>2. task' \in [Children -> [RunIds -> TaskStates]]
  <2>1. \A v \in TaskStates : [task EXCEPT ![c][r] = v] \in [Children -> [RunIds -> TaskStates]]
    BY <1>1 DEF ChildTypes
  <2>2. PICK v \in TaskStates : task' = [task EXCEPT ![c][r] = v]
    BY DEF ChildBegins, ChildAnswers, ChildEnds, SetTask, TaskStates
  <2> QED
    BY <2>1, <2>2
<1>3. session' \in [Children -> SessionStates]
  BY <1>1 DEF ChildBegins, ChildAnswers, ChildEnds, ChildTypes, SessionStates
<1>4. UNCHANGED <<turnVars, row, registered, callback, reapVars, await, stop>>
  BY DEF ChildBegins, ChildAnswers, ChildEnds
<1>5. ChildTypes'
  BY <1>1, <1>2, <1>3, <1>4 DEF ChildTypes
<1> QED
  BY <1>1, <1>4, <1>5, SameTypes DEF Typed

LEMMA DetachedClosesTypes ==
    ASSUME ChildTypes, NEW c \in Children, NEW r \in RunIds, DetachedCloses(c, r)
    PROVE  row' \in [Children -> Rows] /\ session' \in [Children -> SessionStates]
<1>1. CASE UNCHANGED <<row, session>>
  BY <1>1 DEF ChildTypes
<1>2. ASSUME NEW s \in Closed, NEW why \in Reasons,
             row' = Finish(c, s, why), session' = [session EXCEPT ![c] = Settled(c)]
      PROVE  row' \in [Children -> Rows] /\ session' \in [Children -> SessionStates]
  BY <1>2, FinishMoves, SettledTypes DEF ChildTypes
<1>3. UNCHANGED <<row, session>> \/ \E s \in Closed, why \in Reasons :
         row' = Finish(c, s, why) /\ session' = [session EXCEPT ![c] = Settled(c)]
  BY DEF DetachedCloses, UnsavedEnd, Closed, Reasons
<1> QED
  BY <1>1, <1>2, <1>3

LEMMA CallbackTypes ==
    ASSUME TypeOK, NEW c \in Children, NEW r \in RunIds, Callback(c, r)
    PROVE  Typed
<1>1. TurnsTypeOK /\ ChildTypes /\ RestTypes
  BY TypeSplit
<1>2. row' \in [Children -> Rows] /\ session' \in [Children -> SessionStates]
  BY <1>1, DetachedClosesTypes DEF Callback, ChildTypes
<1>3. callback' \in [Children -> [RunIds -> CallStates]]
  BY <1>1 DEF Callback, ChildTypes, CallStates
<1>4. UNCHANGED <<turnVars, task, registered, reapVars, await, stop>>
  BY DEF Callback
<1>5. ChildTypes'
  BY <1>1, <1>2, <1>3, <1>4 DEF ChildTypes
<1> QED
  BY <1>1, <1>4, <1>5, SameTypes DEF Typed

LEMMA WatchdogTypes ==
    ASSUME TypeOK, NEW c \in Children, WatchdogTimeout(c) \/ WatchdogOrphan(c)
    PROVE  Typed
<1>1. TurnsTypeOK /\ ChildTypes /\ RestTypes
  BY TypeSplit
<1>2. PICK why \in {"WATCHDOG_TIMEOUT", "ORPHAN"} : WatchdogCloses(c, why)
  BY DEF WatchdogTimeout, WatchdogOrphan
<1>3. row' \in [Children -> Rows]
  BY <1>1, <1>2, FinishMoves DEF WatchdogCloses, Closed, Reasons
<1>4. task' \in [Children -> [RunIds -> TaskStates]]
  BY <1>1, <1>2, CancelledTypes DEF WatchdogCloses
<1>5. /\ session' \in [Children -> SessionStates] /\ registered' \in [Children -> Runs0]
      /\ callback' \in [Children -> [RunIds -> CallStates]]
  BY <1>1, <1>2, SettledTypes, Bounds DEF WatchdogCloses, ChildTypes
<1>6. ChildTypes'
  BY <1>3, <1>4, <1>5 DEF ChildTypes
<1> QED
  BY <1>1, <1>2, <1>6, SameTypes DEF Typed, WatchdogCloses

LEMMA ReapStartTypes ==
    ASSUME TypeOK, NEW t \in Turns, ReapStart(t)
    PROVE  Typed
<1>1. TurnsTypeOK /\ ChildTypes /\ RestTypes
  BY TypeSplit
<1>2. TurnsTypeOK'
  BY <1>1, PhaseTypes DEF ReapStart, TurnsTypeOK
<1>3. ChildTypes'
  BY <1>1, CancelsTypes DEF ReapStart
<1>4. Orphans(active) \subseteq Children
  BY DEF Orphans
<1>5. {<<c, registered[c]>> : c \in Orphans(active)} \subseteq Children \X Runs0
  BY <1>1, <1>4 DEF ChildTypes
<1>6. reaper' \in [Turns -> SUBSET (Children \X Runs0)]
  BY <1>1, <1>5 DEF ReapStart, RestTypes
<1>7. RestTypes'
  BY <1>1, <1>4, <1>6 DEF ReapStart, RestTypes
<1> QED
  BY <1>2, <1>3, <1>7 DEF Typed

LEMMA ReapEndTypes ==
    ASSUME TypeOK, NEW t \in Turns, ReapEnd(t)
    PROVE  Typed
<1>1. TurnsTypeOK /\ ChildTypes /\ RestTypes
  BY TypeSplit
<1>2. TurnsTypeOK'
  BY <1>1, PhaseTypes DEF ReapEnd, TurnsTypeOK
<1>3. row' \in [Children -> Rows]
  <2>1. \A c \in Children : /\ Finish(c, "failed", "PARENT_TURN_ENDED")[c] \in Rows
                            /\ row[c] \in Rows
    BY <1>1, FinishMoves DEF Closed, Reasons, ChildTypes
  <2> QED
    BY <2>1 DEF ReapEnd
<1>4. session' \in [Children -> SessionStates]
  <2>1. \A c \in Children : Settled(c) \in SessionStates /\ session[c] \in SessionStates
    BY <1>1, SettledTypes DEF ChildTypes
  <2> QED
    BY <2>1 DEF ReapEnd
<1>5. registered' \in [Children -> Runs0] /\ UNCHANGED <<task, callback>>
  BY <1>1, Bounds DEF ReapEnd, ChildTypes
<1>6. ChildTypes'
  BY <1>1, <1>3, <1>4, <1>5 DEF ChildTypes
<1>7. RestTypes'
  BY <1>1 DEF ReapEnd, RestTypes
<1> QED
  BY <1>2, <1>6, <1>7 DEF Typed

LEMMA StopBeginTypes ==
    ASSUME TypeOK, StopBegin \/ StopEnd
    PROVE  Typed
<1>1. TurnsTypeOK /\ ChildTypes /\ RestTypes
  BY TypeSplit
<1>2. NoStop \in Stops /\ [NoStop EXCEPT !.on = TRUE, !.left = {c \in Children : session[c] = "running"}] \in Stops
  BY Bounds DEF NoStop, Stops
<1>3. stop' \in Stops
  BY <1>2 DEF StopBegin, StopEnd
<1>4. UNCHANGED <<turnVars, childVars, reapVars, await>>
  BY DEF StopBegin, StopEnd
<1>5. RestTypes'
  BY <1>1, <1>3, <1>4 DEF RestTypes, reapVars
<1> QED
  BY <1>1, <1>4, <1>5, SameTypes DEF Typed

LEMMA StopChildTypes ==
    ASSUME TypeOK, NEW c \in Children, StopChild(c) \/ UserStopsChild(c)
    PROVE  Typed
<1>1. TurnsTypeOK /\ ChildTypes /\ RestTypes /\ registered[c] \in 0..MaxRun
  BY TypeSplit DEF ChildTypes, Runs0
<1>2. ChildTypes'
  BY <1>1, CancelsTypes DEF StopChild, UserStopsChild
<1>3. CASE StopChild(c)
  <2>1. Live(c, registered[c]) => registered[c] \in RunIds
    BY <1>1, Bounds DEF Live, RunIds
  <2>2. (IF Live(c, registered[c]) THEN {<<c, registered[c]>>} ELSE {}) \in SUBSET (Children \X RunIds)
    BY <2>1
  <2>3. stop' \in Stops
    BY <1>1, <1>3, <2>2 DEF StopChild, RestTypes, Stops
  <2> QED
    BY <1>1, <1>2, <1>3, <2>3 DEF StopChild, Typed, TurnsTypeOK, turnVars, RestTypes, reapVars
<1>4. CASE UserStopsChild(c)
  BY <1>1, <1>2, <1>4, SameTypes DEF UserStopsChild, Typed
<1> QED
  BY <1>3, <1>4

LEMMA StopSelfTypes ==
    ASSUME TypeOK, StopSelf
    PROVE  Typed
<1>1. TurnsTypeOK /\ ChildTypes /\ RestTypes /\ current \in 0..MaxTurn
  BY TypeSplit DEF TurnsTypeOK
<1>2. NoAwait \in Awaits /\ "cancelled" \in Ends
  BY <1>1, AwaitKinds DEF RestTypes, Ends
<1>3. stop' \in Stops
  <2>1. NoStop \in Stops /\ [stop EXCEPT !.turn = current] \in Stops
    BY <1>1, Bounds DEF NoStop, Stops, RestTypes
  <2> QED
    BY <2>1 DEF StopSelf
<1>4. CASE UNCHANGED <<turnVars, task, session, reapVars, await>>
  BY <1>1, <1>3, <1>4 DEF StopSelf, Typed, TurnsTypeOK, turnVars, ChildTypes, RestTypes, reapVars
<1>5. CASE CloseTurn(current, "cancelled") /\ await' = NoAwait /\ UNCHANGED <<task, session, reapVars>>
  <2>1. TurnsTypeOK'
    BY <1>1, <1>2, <1>5, CloseTurnTypes
  <2> QED
    BY <1>1, <1>2, <1>3, <1>5, <2>1 DEF StopSelf, Typed, ChildTypes, RestTypes, reapVars
<1>6. CASE /\ await.kind = "child" /\ await' = [await EXCEPT !.kind = "unwind"]
           /\ task' = Cancelled({<<await.child, await.run>>})
           /\ session' = SavedCancelled({<<await.child, await.run>>})
           /\ UNCHANGED <<turnVars, reapVars>>
  <2>1. await' \in Awaits
    BY <1>1, <1>6 DEF RestTypes, Awaits, NoAwait
  <2>2. ChildTypes'
    BY <1>1, <1>6, CancelsTypes DEF StopSelf
  <2> QED
    BY <1>1, <1>3, <1>6, <2>1, <2>2 DEF Typed, TurnsTypeOK, turnVars, RestTypes, reapVars
<1>7. CASE ReapAborted(current) /\ UNCHANGED <<status, turns, active, current, task, session, await>>
  <2>1. TurnsTypeOK'
    BY <1>1, <1>7, PhaseTypes DEF ReapAborted, TurnsTypeOK
  <2>2. ChildTypes'
    BY <1>1, <1>7 DEF StopSelf, ChildTypes
  <2> QED
    BY <1>1, <1>3, <1>7, <2>1, <2>2 DEF Typed, RestTypes, ReapAborted
<1> QED
  BY <1>4, <1>5, <1>6, <1>7 DEF StopSelf

LEMMA RestartTypes ==
    ASSUME TypeOK, Restart
    PROVE  Typed
<1>1. TurnsTypeOK /\ ChildTypes /\ RestTypes
  BY TypeSplit
<1>2. TurnsTypeOK'
  BY <1>1, Bounds DEF Restart, RestartTurns, TurnsTypeOK, Phases, Statuses
<1>3. row' \in [Children -> Rows]
  <2>1. \A c \in Children : Finish(c, "failed", "RESTART")[c] \in Rows
    BY <1>1, FinishMoves DEF Closed, Reasons
  <2> QED
    BY <2>1 DEF Restart
<1>4. session' \in [Children -> SessionStates]
  <2>1. \A c \in Children : /\ Settled(c) \in SessionStates /\ session[c] \in SessionStates
                            /\ "interrupted" \in SessionStates
    BY <1>1, SettledTypes DEF ChildTypes, SessionStates
  <2> QED
    BY <2>1 DEF Restart
<1>5. /\ task' \in [Children -> [RunIds -> TaskStates]] /\ registered' \in [Children -> Runs0]
      /\ callback' \in [Children -> [RunIds -> CallStates]]
  BY Bounds DEF Restart, TaskStates, CallStates
<1>6. NoAwait \in Awaits /\ NoStop \in Stops
  BY Bounds DEF Awaits, NoStop, Stops
<1>7. RestTypes'
  BY <1>6 DEF Restart, RestTypes
<1> QED
  BY <1>2, <1>3, <1>4, <1>5, <1>7 DEF Typed, ChildTypes

LEMMA TypeStep ==
    ASSUME TypeOK, SlotRules, Next
    PROVE  Typed
<1>1. TurnsTypeOK /\ ChildTypes /\ RestTypes
  BY TypeSplit
<1>2. ASSUME OpenOwnerTurn
      PROVE  Typed
  BY <1>1, <1>2, OpenTurnTypes, SameTypes DEF OpenOwnerTurn, Typed
<1>3. ASSUME NEW s \in {"completed", "failed"}, EndOwnerTurn(s)
      PROVE  Typed
  BY <1>1, <1>3, CloseTurnTypes, SameTypes DEF EndOwnerTurn, Ends, Typed
<1>4. ASSUME AwaitRaises
      PROVE  Typed
  <2>1. TurnsTypeOK'
    BY <1>1, <1>4, CloseTurnTypes DEF AwaitRaises, Ends
  <2>2. NoAwait \in Awaits
    BY DEF Awaits
  <2> QED
    BY <1>1, <1>4, <2>1, <2>2, SameTypes DEF AwaitRaises, Typed, RestTypes, reapVars
<1>5. CASE OwnerStep
  BY <1>2, <1>3, <1>4, <1>5, DelegateTypes, ResumeTypes, AwaitReturnsTypes, CancelChildTypes, CancelDoneTypes,
     ReapStartTypes, ReapEndTypes, Zenon DEF OwnerStep
<1>6. CASE ChildStep
  <2>1. "completed" \in Answers
    BY DEF Answers
  <2> QED
    BY <1>6, <2>1, ChildStepTypes, CallbackTypes, Zenon DEF ChildStep
<1> QED
  BY <1>5, <1>6, WatchdogTypes, StopBeginTypes, StopChildTypes, StopSelfTypes, RestartTypes, Zenon DEF Next

---------------------------------------------------------------------------
(* Calm steps.                                                              *)

\* A row stays, or a started row is closed: one that becomes resumable holds no slot.
CalmRow(c) ==
    \/ row'[c] = row[c]
    \/ /\ Started(c) /\ row'[c].status \in Closed
       /\ row'[c].status = "partial" \/ row'[c].reason = "WATCHDOG_TIMEOUT" => c \notin held'

CalmChild ==
    /\ \A c \in Children : session'[c] \in {session[c], "cancelled"} \cup Answers
    /\ \A c \in Children, r \in RunIds :
          task'[c][r] \in {"closing", "returned"} =>
            task[c][r] \in {"closing", "returned"} \/ session'[c] \in Answers
    /\ \A c \in Children, r \in RunIds :
          \/ callback'[c][r] = callback[c][r]
          \/ callback'[c][r] = "none" /\ (callback[c][r] = "awaited" => c \notin held')

Calm ==
    /\ held' \subseteq held
    /\ \A c \in Children : CalmRow(c)
    /\ CalmChild
    /\ await'.kind = "child" => await' = await

LEMMA CalmFinish ==
    ASSUME ChildTypes, NEW c \in Children, NEW s \in Closed, NEW why \in Reasons, row' = Finish(c, s, why),
           s = "partial" \/ why = "WATCHDOG_TIMEOUT" => c \notin held'
    PROVE  \A d \in Children : CalmRow(d)
<1> SUFFICES ASSUME NEW d \in Children
             PROVE  CalmRow(d)
  OBVIOUS
<1>1. CASE d # c \/ ~Started(d)
  BY <1>1, FinishMoves DEF CalmRow
<1>2. CASE d = c /\ Started(d)
  <2>1. row'[d].status = s /\ row'[d].reason = why
    BY <1>2, FinishMoves
  <2> QED
    BY <1>2, <2>1 DEF CalmRow
<1> QED
  BY <1>1, <1>2

LEMMA CalmSame ==
    ASSUME UNCHANGED childVars
    PROVE  CalmChild /\ \A c \in Children : CalmRow(c)
BY DEF CalmChild, CalmRow, childVars

LEMMA CalmCancels ==
    ASSUME ChildTypes, NEW cs, task' = Cancelled(cs), session' = SavedCancelled(cs), UNCHANGED <<row, callback>>
    PROVE  CalmChild /\ \A c \in Children : CalmRow(c)
<1>1. \A c \in Children : session'[c] \in {session[c], "cancelled"} \cup Answers
  BY CancelledTypes
<1>2. \A c \in Children, r \in RunIds : task'[c][r] \in {"closing", "returned"} =>
          task[c][r] \in {"closing", "returned"} \/ session'[c] \in Answers
  BY CancelledTypes
<1> QED
  BY <1>1, <1>2 DEF CalmChild, CalmRow

\* What one child's session is settled to.
LEMMA CalmSettles ==
    ASSUME ChildTypes, NEW c \in Children, NEW b \in BOOLEAN,
           session' = [session EXCEPT ![c] = IF b THEN Settled(c) ELSE session[c]]
    PROVE  \A d \in Children : session'[d] \in {session[d], "cancelled"} \cup Answers
BY SettledTypes DEF ChildTypes

LEMMA CalmCancelChild ==
    ASSUME TypeOK, NEW c \in Children, CancelChild(c)
    PROVE  Calm
<1>1. CalmChild /\ \A d \in Children : CalmRow(d)
  BY TypeSplit, CalmCancels DEF CancelChild
<1> QED
  BY <1>1 DEF CancelChild, Calm, slotVars

LEMMA CalmAwaitReturns ==
    ASSUME TypeOK, SlotRules, AwaitReturns
    PROVE  Calm
<1>1. ChildTypes /\ await.child \in Children /\ NoAwait.kind = "none"
  BY TypeSplit, AwaitKinds DEF AwaitReturns, RestTypes
<1>2. session[await.child] \in Closed /\ await.child \notin held /\ held' = held
  BY DEF SlotRules, AwaitReturns, Answers, Closed, slotVars
<1>3. (IF session[await.child] = "failed" THEN "error" ELSE "none") \in Reasons
  BY DEF Reasons
<1>4. \A c \in Children : CalmRow(c)
  BY <1>1, <1>2, <1>3, CalmFinish DEF AwaitReturns
<1>5. CalmChild
  BY DEF AwaitReturns, CalmChild
<1> QED
  BY <1>1, <1>2, <1>4, <1>5 DEF AwaitReturns, Calm

LEMMA CalmCancelDone ==
    ASSUME TypeOK, CancelDone
    PROVE  Calm
<1>1. ChildTypes /\ await.child \in Children /\ NoAwait.kind = "none"
  BY TypeSplit, AwaitKinds DEF CancelDone, RestTypes
<1>2. \A c \in Children : CalmRow(c)
  BY <1>1, CalmFinish DEF CancelDone, Closed, Reasons
<1>3. \A d \in Children : session'[d] \in {session[d], "cancelled"} \cup Answers
  BY <1>1, SettledTypes DEF CancelDone, ChildTypes
<1>4. CalmChild
  BY <1>3 DEF CancelDone, CalmChild
<1> QED
  BY <1>1, <1>2, <1>4 DEF CancelDone, Release, Calm

LEMMA CalmReaper ==
    ASSUME TypeOK, NEW t \in Turns, ReapStart(t) \/ ReapEnd(t)
    PROVE  Calm
<1>1. ChildTypes
  BY TypeSplit
<1>2. CASE ReapStart(t)
  <2>1. CalmChild /\ \A c \in Children : CalmRow(c)
    BY <1>1, <1>2, CalmCancels DEF ReapStart
  <2> QED
    BY <1>2, <2>1 DEF ReapStart, Calm, slotVars
<1>3. CASE ReapEnd(t)
  <2>1. \A c \in Children : row'[c] \in {row[c], Finish(c, "failed", "PARENT_TURN_ENDED")[c]}
    BY <1>3 DEF ReapEnd
  <2>2. \A c \in Children : CalmRow(c)
    <3> SUFFICES ASSUME NEW c \in Children, Started(c), row'[c] = Finish(c, "failed", "PARENT_TURN_ENDED")[c]
                 PROVE  CalmRow(c)
      BY <1>1, <2>1, FinishMoves DEF CalmRow, Closed, Reasons
    <3> QED
      BY <1>1, FinishMoves DEF CalmRow, Closed, Reasons
  <2>3. \A c \in Children : session'[c] \in {session[c], "cancelled"}
    BY <1>1, <1>3, SettledTypes DEF ReapEnd
  <2>4. CalmChild
    BY <1>3, <2>3 DEF ReapEnd, CalmChild
  <2> QED
    BY <1>3, <2>2, <2>4 DEF ReapEnd, Calm, slotVars
<1> QED
  BY <1>2, <1>3

LEMMA CalmRun ==
    ASSUME TypeOK, NEW c \in Children, NEW r \in RunIds, NEW s \in Answers,
           ChildBegins(c, r) \/ ChildAnswers(c, r, s) \/ ChildEnds(c, r)
    PROVE  Calm
<1>1. task \in [Children -> [RunIds -> TaskStates]] /\ session \in [Children -> SessionStates]
  BY TypeSplit DEF ChildTypes
<1>2. UNCHANGED <<row, callback, slotVars, await>>
  BY DEF ChildBegins, ChildAnswers, ChildEnds
<1>3. \A d \in Children : session'[d] \in {session[d], "cancelled"} \cup Answers
  BY <1>1 DEF ChildBegins, ChildAnswers, ChildEnds
<1>4. \A d \in Children, q \in RunIds : task'[d][q] \in {"closing", "returned"} =>
          task[d][q] \in {"closing", "returned"} \/ session'[d] \in Answers
  <2>1. CASE ChildBegins(c, r)
    BY <1>1, <2>1 DEF ChildBegins, SetTask
  <2>2. CASE ChildAnswers(c, r, s)
    BY <1>1, <2>2 DEF ChildAnswers, SetTask
  <2>3. CASE ChildEnds(c, r)
    BY <1>1, <2>3 DEF ChildEnds, SetTask
  <2> QED
    BY <2>1, <2>2, <2>3
<1> QED
  BY <1>2, <1>3, <1>4 DEF Calm, CalmChild, CalmRow, slotVars

LEMMA CalmCallback ==
    ASSUME TypeOK, NEW c \in Children, NEW r \in RunIds, Callback(c, r)
    PROVE  Calm
<1>1. ChildTypes /\ callback \in [Children -> [RunIds -> CallStates]]
  BY TypeSplit DEF ChildTypes
<1>2. held' \subseteq held
  BY DEF Callback, Release, slotVars
<1>3. /\ \A d \in Children : CalmRow(d)
      /\ \A d \in Children : session'[d] \in {session[d], "cancelled"}
  <2>1. CASE UNCHANGED <<row, session>>
    BY <2>1 DEF CalmRow
  <2>2. CASE callback[c][r] = "detached" /\ c \notin reaping /\ Started(c) /\ ~Stale(c, r)
    <3>1. c \notin held'
      BY <2>2 DEF Callback, KeepsSlot, Release
    <3>2. PICK st \in Closed, why \in Reasons :
             row' = Finish(c, st, why) /\ session' = [session EXCEPT ![c] = Settled(c)]
      BY <2>2 DEF Callback, DetachedCloses, UnsavedEnd, Closed, Reasons
    <3>3. \A d \in Children : CalmRow(d)
      BY <1>1, <3>1, <3>2, CalmFinish
    <3> QED
      BY <1>1, <3>2, <3>3, SettledTypes DEF ChildTypes
  <2> QED
    BY <2>1, <2>2 DEF Callback, DetachedCloses
<1>4. \A d \in Children, q \in RunIds :
          \/ callback'[d][q] = callback[d][q]
          \/ callback'[d][q] = "none" /\ (callback[d][q] = "awaited" => d \notin held')
  <2>1. callback[c][r] = "awaited" => c \notin held'
    BY DEF Callback, Release
  <2> QED
    BY <1>1, <2>1 DEF Callback
<1> QED
  BY <1>2, <1>3, <1>4 DEF Callback, Calm, CalmChild

LEMMA CalmWatchdog ==
    ASSUME TypeOK, NEW c \in Children, WatchdogTimeout(c) \/ WatchdogOrphan(c)
    PROVE  Calm
<1>1. ChildTypes
  BY TypeSplit
<1>2. PICK why \in {"WATCHDOG_TIMEOUT", "ORPHAN"} : WatchdogCloses(c, why)
  BY DEF WatchdogTimeout, WatchdogOrphan
<1>3. held' \subseteq held /\ c \notin held'
  BY <1>2 DEF WatchdogCloses, Release
<1>4. \A d \in Children : CalmRow(d)
  BY <1>1, <1>2, <1>3, CalmFinish DEF WatchdogCloses, Closed, Reasons
<1>5. \A d \in Children : session'[d] \in {session[d], "cancelled"} \cup Answers
  BY <1>1, <1>2, SettledTypes DEF WatchdogCloses, ChildTypes
<1>6. \A d \in Children, q \in RunIds : task'[d][q] \in {"closing", "returned"} =>
          task[d][q] \in {"closing", "returned"} \/ session'[d] \in Answers
  BY <1>1, <1>2, CancelledTypes DEF WatchdogCloses
<1> QED
  BY <1>2, <1>3, <1>4, <1>5, <1>6 DEF WatchdogCloses, Calm, CalmChild

LEMMA CalmStopChild ==
    ASSUME TypeOK, NEW c \in Children, StopChild(c) \/ UserStopsChild(c)
    PROVE  Calm
<1>1. CalmChild /\ \A d \in Children : CalmRow(d)
  BY TypeSplit, CalmCancels DEF StopChild, UserStopsChild
<1> QED
  BY <1>1 DEF StopChild, UserStopsChild, Calm, slotVars

LEMMA CalmStopSelf ==
    ASSUME TypeOK, StopSelf
    PROVE  Calm
<1>1. ChildTypes /\ await \in Awaits /\ held' = held
  BY TypeSplit DEF RestTypes, StopSelf, slotVars
<1>2. await' = await \/ await'.kind # "child"
  <2>1. NoAwait.kind # "child" /\ [await EXCEPT !.kind = "unwind"].kind # "child"
    BY <1>1 DEF Awaits, NoAwait
  <2> QED
    BY <2>1 DEF StopSelf
<1>3. CASE UNCHANGED <<task, session>>
  <2>1. UNCHANGED childVars
    BY <1>3 DEF StopSelf, childVars
  <2> QED
    BY <1>1, <1>2, <2>1, CalmSame DEF Calm
<1>4. CASE /\ task' = Cancelled({<<await.child, await.run>>})
           /\ session' = SavedCancelled({<<await.child, await.run>>})
  <2>1. CalmChild /\ \A d \in Children : CalmRow(d)
    BY <1>1, <1>4, CalmCancels DEF StopSelf
  <2> QED
    BY <1>1, <1>2, <2>1 DEF Calm
<1> QED
  BY <1>3, <1>4 DEF StopSelf

LEMMA Steps ==
    ASSUME TypeOK, SlotRules, Next
    PROVE  \/ Calm
           \/ \E c \in Children, wait \in BOOLEAN : Delegate(c, wait) \/ Resume(c, wait)
           \/ Restart
<1>1. ASSUME OpenOwnerTurn \/ (\E s \in {"completed", "failed"} : EndOwnerTurn(s)) \/ AwaitRaises
      PROVE  Calm
  BY <1>1, CalmSame DEF OpenOwnerTurn, EndOwnerTurn, AwaitRaises, Calm, slotVars, NoAwait
<1>2. CASE OwnerStep
  BY <1>1, <1>2, CalmAwaitReturns, CalmCancelChild, CalmCancelDone, CalmReaper, Zenon DEF OwnerStep
<1>3. CASE ChildStep
  <2>1. "completed" \in Answers
    BY DEF Answers
  <2> QED
    BY <1>3, <2>1, CalmRun, CalmCallback, Zenon DEF ChildStep
<1>4. ASSUME StopBegin \/ StopEnd
      PROVE  Calm
  BY <1>4, CalmSame DEF StopBegin, StopEnd, Calm, slotVars
<1> QED
  BY <1>2, <1>3, <1>4, CalmWatchdog, CalmStopChild, CalmStopSelf, Zenon DEF Next

---------------------------------------------------------------------------
(* The rules of the slots and the reaper's marks are kept.                  *)

LEMMA CalmKeeps ==
    ASSUME TypeOK, SlotRules, Calm, TypeOK'
    PROVE  SlotRules'
<1>1. ChildTypes /\ await \in Awaits
  BY TypeSplit DEF RestTypes
<1>2. \A c \in held' : session'[c] # "none" /\ ~Resumable(c)'
  <2> SUFFICES ASSUME NEW c \in held'
               PROVE  session'[c] # "none" /\ ~Resumable(c)'
    OBVIOUS
  <2>1. c \in Children /\ session[c] # "none" /\ ~Resumable(c)
    BY <1>1, TypeSplit DEF SlotRules, Calm, SlotTypes
  <2>2. session'[c] # "none"
    BY <2>1 DEF Calm, CalmChild, Answers
  <2>3. ~Resumable(c)'
    BY <2>1 DEF Calm, CalmRow, Resumable
  <2> QED
    BY <2>2, <2>3
<1>3. \A c \in Children : row'[c].status = "absent" => row'[c].reason = "none"
  BY DEF Calm, CalmRow, SlotRules, Closed
<1>4. ASSUME await'.kind = "child"
      PROVE  /\ await'.run \in RunIds
             /\ callback'[await'.child][await'.run] # "detached"
             /\ callback'[await'.child][await'.run] = "none" => await'.child \notin held'
             /\ task'[await'.child][await'.run] \in {"closing", "returned"} =>
                  session'[await'.child] \in Answers \cup {"cancelled"}
  <2>1. await' = await /\ await.kind = "child" /\ await.child \in Children /\ await.run \in RunIds
    BY <1>1, <1>4, AwaitKinds DEF Calm, SlotRules
  <2> DEFINE c == await.child  r == await.run
  <2>2. callback[c][r] \in {"none", "awaited"} /\ (callback[c][r] = "none" => c \notin held)
    BY <1>1, <2>1 DEF SlotRules, ChildTypes, CallStates
  <2>3. \/ callback'[c][r] = callback[c][r]
        \/ callback'[c][r] = "none" /\ (callback[c][r] = "awaited" => c \notin held')
    BY <2>1 DEF Calm, CalmChild
  <2>4. callback'[c][r] # "detached" /\ (callback'[c][r] = "none" => c \notin held')
    BY <2>2, <2>3 DEF Calm
  <2>5. task'[c][r] \in {"closing", "returned"} => session'[c] \in Answers \cup {"cancelled"}
    BY <2>1 DEF Calm, CalmChild, SlotRules
  <2> QED
    BY <2>1, <2>4, <2>5
<1> QED
  BY <1>2, <1>3, <1>4 DEF SlotRules

\* The run that is opened holds the slot that was bought for it, and owes its
\* callback from the start.
LEMMA StartRunKeeps ==
    ASSUME TypeOK, SlotRules, NEW c \in Children, NEW r \in RunIds, NEW wait \in BOOLEAN, StartRun(c, r, wait)
    PROVE  SlotRules'
<1>1. ChildTypes /\ held \in SUBSET Children
  BY TypeSplit DEF SlotTypes
<1>2. /\ row'[c].status = "started" /\ row'[c].reason = "none" /\ session'[c] = "running"
      /\ \A d \in Children : d # c => row'[d] = row[d] /\ session'[d] = session[d]
  BY <1>1 DEF StartRun, ChildTypes
<1>3. \A d \in held' : session'[d] # "none" /\ ~Resumable(d)'
  BY <1>1, <1>2 DEF StartRun, SlotRules, Resumable
<1>4. \A d \in Children : row'[d].status = "absent" => row'[d].reason = "none"
  BY <1>2 DEF SlotRules
<1>5. ASSUME await'.kind = "child"
      PROVE  /\ await'.run = r /\ await'.child = c
             /\ callback'[c][r] = "awaited" /\ task'[c][r] = "queued"
  BY <1>1, <1>5 DEF StartRun, ChildTypes, NoAwait
<1> QED
  BY <1>3, <1>4, <1>5 DEF SlotRules

LEMMA DelegateKeeps ==
    ASSUME TypeOK, SlotRules, NEW c \in Children, NEW wait \in BOOLEAN, Delegate(c, wait)
    PROVE  SlotRules'
<1>1. ChildTypes /\ held \in SUBSET Children /\ await.kind = "none"
  BY TypeSplit DEF SlotTypes, Delegate, OwnerWorks, NoAwait
<1>2. c \notin held /\ row[c].reason = "none" /\ row[c].status = "absent"
  BY DEF Delegate, SlotRules
<1>3. CASE StartRun(c, 1, wait)
  BY <1>3, StartRunKeeps, Bounds
<1>4. CASE /\ session' = [session EXCEPT ![c] = "idle"] /\ held' = held \cup {c}
           /\ UNCHANGED <<row, task, registered, callback, await>>
  BY <1>1, <1>2, <1>4 DEF SlotRules, Resumable, ChildTypes
<1>5. CASE /\ row' = [row EXCEPT ![c] = [status |-> IF c \in Kept THEN "failed" ELSE "started",
                                         reason |-> IF c \in Kept THEN "START_FAILED" ELSE "none",
                                         turn |-> active, run |-> 0]]
           /\ session' = [session EXCEPT ![c] = IF c \in Kept THEN "cancelled" ELSE "idle"]
           /\ UNCHANGED <<task, registered, callback, await, slotVars>>
  BY <1>1, <1>2, <1>5 DEF SlotRules, Resumable, ChildTypes, slotVars
<1> QED
  BY <1>3, <1>4, <1>5 DEF Delegate

LEMMA ResumeKeeps ==
    ASSUME TypeOK, SlotRules, NEW c \in Children, NEW wait \in BOOLEAN, Resume(c, wait)
    PROVE  SlotRules'
<1>1. ChildTypes /\ held \in SUBSET Children /\ await.kind = "none" /\ row[c].run + 1 \in RunIds
  <2>1. row[c].run \in 0..MaxRun
    BY TypeSplit DEF ChildTypes, Rows, Runs0
  <2> QED
    BY <2>1, Bounds, TypeSplit DEF SlotTypes, Resume, OwnerWorks, NoAwait, RunIds
<1>2. CASE StartRun(c, row[c].run + 1, wait)
  BY <1>1, <1>2, StartRunKeeps
<1>3. CASE /\ row' = [row EXCEPT ![c] = [status |-> "failed", reason |-> "START_FAILED",
                                         turn |-> active, run |-> row[c].run + 1]]
           /\ UNCHANGED <<session, task, registered, callback, await, slotVars>>
  BY <1>1, <1>3 DEF SlotRules, Resumable, ChildTypes, slotVars
<1> QED
  BY <1>2, <1>3 DEF Resume

LEMMA SlotStep ==
    ASSUME TypeOK, SlotRules, Next, TypeOK'
    PROVE  SlotRules'
<1>1. ASSUME Restart
      PROVE  SlotRules'
  <2>1. \A c \in Children : Started(c) => Finish(c, "failed", "RESTART")[c].status # "absent"
    BY TypeSplit, FinishMoves DEF Closed, Reasons
  <2>2. \A c \in Children : ~Started(c) => Finish(c, "failed", "RESTART")[c] = row[c]
    BY TypeSplit, FinishMoves DEF Closed, Reasons
  <2>3. \A c \in Children : row'[c].status = "absent" => row'[c].reason = "none"
    BY <1>1, <2>1, <2>2 DEF Restart, SlotRules
  <2> QED
    BY <1>1, <2>3 DEF Restart, SlotRules, NoAwait
<1> QED
  BY <1>1, Steps, CalmKeeps, DelegateKeeps, ResumeKeeps

\* A reaper that ends, aborted or not, takes its marks with it, and no other's.
LEMMA ReapStep ==
    ASSUME TypeOK, ReapingEnds, Next
    PROVE  ReapingEnds'
<1>1. reaper \in [Turns -> SUBSET (Children \X Runs0)] /\ current \in 0..MaxTurn
  BY TypeSplit DEF RestTypes, TurnsTypeOK
<1>2. ASSUME UNCHANGED reapVars
      PROVE  ReapingEnds'
  BY <1>2 DEF ReapingEnds, Reaped, reapVars
<1>3. ASSUME NEW t \in Turns, reaping' = reaping \ Reaped(t), reaper' = [reaper EXCEPT ![t] = {}]
      PROVE  ReapingEnds'
  BY <1>1, <1>3 DEF ReapingEnds, Reaped
<1>4. ASSUME NEW t \in Turns, ReapStart(t)
      PROVE  ReapingEnds'
  <2>1. reaping' = reaping \cup Orphans(active) /\ reaper[t] = {}
    BY <1>4 DEF ReapStart
  <2>2. reaper'[t] = {<<c, registered[c]>> : c \in Orphans(active)} /\ \A u \in Turns : u # t => reaper'[u] = reaper[u]
    BY <1>1, <1>4 DEF ReapStart
  <2>3. \A c \in Orphans(active) : c \in Reaped(t)'
    <3> SUFFICES ASSUME NEW c \in Orphans(active)
                 PROVE  \E cr \in reaper'[t] : c = cr[1]
      BY DEF Reaped
    <3>1. <<c, registered[c]>> \in reaper'[t]
      BY <2>2
    <3> QED
      BY <3>1
  <2>4. \A c \in reaping : \E u \in Turns : c \in Reaped(u)'
    BY <2>1, <2>2 DEF ReapingEnds, Reaped
  <2> QED
    BY <2>1, <2>3, <2>4 DEF ReapingEnds
<1>5. ASSUME NEW t \in Turns, ReapEnd(t)
      PROVE  ReapingEnds'
  BY <1>3, <1>5 DEF ReapEnd
<1>6. ASSUME StopSelf
      PROVE  ReapingEnds'
  <2>1. CASE UNCHANGED reapVars
    BY <1>2, <2>1
  <2>2. CASE Busy(phase) /\ ReapAborted(current)
    <3>1. current \in Turns
      BY <1>1, <2>2, MaxTurnAssumption DEF Busy, Turns
    <3> QED
      BY <1>3, <2>2, <3>1 DEF ReapAborted
  <2> QED
    BY <1>6, <2>1, <2>2 DEF StopSelf
<1>7. ASSUME Restart
      PROVE  ReapingEnds'
  BY <1>7 DEF Restart, ReapingEnds
<1>8. CASE OwnerStep
  <2>1. ASSUME NEW s, OpenOwnerTurn \/ EndOwnerTurn(s) \/ AwaitReturns \/ AwaitRaises \/ CancelDone
        PROVE  ReapingEnds'
    BY <1>2, <2>1 DEF OpenOwnerTurn, EndOwnerTurn, AwaitReturns, AwaitRaises, CancelDone
  <2>2. ASSUME NEW c, NEW wait, Delegate(c, wait) \/ Resume(c, wait) \/ CancelChild(c)
        PROVE  ReapingEnds'
    BY <1>2, <2>2 DEF Delegate, Resume, CancelChild
  <2> QED
    BY <1>4, <1>5, <1>8, <2>1, <2>2, Zenon DEF OwnerStep
<1>9. ASSUME NEW c, NEW r, NEW s, ChildBegins(c, r) \/ ChildAnswers(c, r, s) \/ ChildEnds(c, r) \/ Callback(c, r)
      PROVE  ReapingEnds'
  BY <1>2, <1>9 DEF ChildBegins, ChildAnswers, ChildEnds, Callback
<1>10. ASSUME NEW c, \/ WatchdogTimeout(c) \/ WatchdogOrphan(c) \/ UserStopsChild(c) \/ StopChild(c)
                     \/ StopBegin \/ StopEnd
       PROVE  ReapingEnds'
  BY <1>2, <1>10 DEF WatchdogTimeout, WatchdogOrphan, WatchdogCloses, UserStopsChild, StopChild, StopBegin, StopEnd
<1>11. CASE ChildStep
  BY <1>9, <1>11, Zenon DEF ChildStep
<1> QED
  BY <1>6, <1>7, <1>8, <1>10, <1>11, Zenon DEF Next

---------------------------------------------------------------------------
(* The theorems.                                                            *)

LEMMA InitInv ==
    ASSUME Init
    PROVE  IInv
<1>1. TurnsTypeOK
  BY Bounds DEF Init, TurnsInit, TurnsTypeOK, Statuses, Phases
<1>2. ChildTypes
  BY Bounds DEF Init, ChildTypes, Rows, Reasons, SessionStates, TaskStates, CallStates
<1>3. RestTypes
  BY Bounds DEF Init, RestTypes, Awaits, NoStop, Stops
<1>4. SlotTypes /\ Account
  BY FS_EmptySet, Bounds DEF Init, SlotTypes, Account, SlotsConserved
<1>5. SlotRules /\ ReapingEnds
  BY DEF Init, SlotRules, ReapingEnds, NoAwait
<1> QED
  BY <1>1, <1>2, <1>3, <1>4, <1>5, TypeSplit DEF IInv

LEMMA InvStep ==
    ASSUME IInv, [Next]_vars
    PROVE  IInv'
<1>1. CASE UNCHANGED vars
  <2>1. TypeOK'
    BY <1>1, SameTypes, TypeSplit, TypeSplitNext DEF IInv, vars, SlotTypes, slotVars
  <2> QED
    BY <1>1, <2>1 DEF IInv, vars, childVars, slotVars, reapVars, Account, SlotsConserved, SlotRules, Resumable,
                      ReapingEnds, Reaped
<1>2. CASE Next
  <2>1. TurnsTypeOK' /\ ChildTypes' /\ RestTypes'
    BY <1>2, TypeStep DEF IInv, Typed
  <2>2. SlotTypes' /\ Account'
    <3>1. SlotTypes /\ Account /\ RestTypes
      BY TypeSplit DEF IInv
    <3>2. CASE UNCHANGED slotVars
      BY <3>1, <3>2 DEF SlotTypes, Account, SlotsConserved, slotVars
    <3> QED
      BY <1>2, <3>1, <3>2, SlotMoves, ReleaseKeeps, BoughtKeeps, EmptyKeeps DEF IInv
  <2>3. TypeOK'
    BY <2>1, <2>2, TypeSplitNext
  <2>4. SlotRules' /\ ReapingEnds'
    BY <1>2, <2>3, SlotStep, ReapStep DEF IInv
  <2> QED
    BY <2>2, <2>3, <2>4 DEF IInv
<1> QED
  BY <1>1, <1>2

\* The inductive invariant of the children's ledger.
THEOREM Invariance == Spec => []IInv
BY InitInv, InvStep, PTL DEF Spec

\* Every variable keeps its type: what closes a row finds a status and a reason
\* that the ledger knows.
THEOREM TypeCorrect == Spec => []TypeOK
<1>1. IInv => TypeOK
  BY DEF IInv
<1> QED
  BY <1>1, Invariance, PTL

\* A slot is given back once for each time it was bought, whoever ends the child.
THEOREM SlotsKept == Spec => []SlotsConserved
<1>1. IInv => SlotsConserved
  BY DEF IInv, Account
<1> QED
  BY <1>1, Invariance, PTL

\* No mark of a reaper outlives it.
THEOREM MarksEnd == Spec => []ReapingEnds
<1>1. IInv => ReapingEnds
  BY DEF IInv
<1> QED
  BY <1>1, Invariance, PTL

\* What a step does to a row: it stays, it is closed, or a new run opens it.
LEMMA RowSteps ==
    ASSUME TypeOK, SlotRules, Next, NEW c \in Children
    PROVE  \/ CalmRow(c)
           \/ row[c].status = "absent" \/ row'[c].run > row[c].run
<1>1. row \in [Children -> Rows] /\ row[c].run \in Nat
  BY TypeSplit, Bounds DEF ChildTypes, Rows, Runs0
<1>2. ASSUME NEW d \in Children, NEW wait \in BOOLEAN, Delegate(d, wait)
      PROVE  row'[c] = row[c] \/ row[c].status = "absent"
  BY <1>1, <1>2 DEF Delegate, StartRun
<1>3. ASSUME NEW d \in Children, NEW wait \in BOOLEAN, Resume(d, wait)
      PROVE  row'[c] = row[c] \/ row'[c].run = row[c].run + 1
  BY <1>1, <1>3 DEF Resume, StartRun
<1>4. ASSUME Restart
      PROVE  CalmRow(c)
  <2>1. row'[c] = Finish(c, "failed", "RESTART")[c]
    BY <1>4 DEF Restart
  <2> QED
    BY <2>1, TypeSplit, FinishMoves DEF CalmRow, Closed, Reasons
<1> QED
  BY <1>1, <1>2, <1>3, <1>4, Steps DEF Calm, CalmRow

\* Status and reason of a closed row stay until a resume opens a later run.
THEOREM ClosedOnce == Spec => RunsCloseOnce
<1>1. IInv /\ [Next]_vars => [\A c \in Children : row[c].status \in Closed =>
                                 row'[c] = row[c] \/ row'[c].run > row[c].run]_vars
  BY RowSteps DEF IInv, CalmRow, Started, Closed
<1> QED
  BY <1>1, Invariance, PTL DEF Spec, RunsCloseOnce
===============================================================================
