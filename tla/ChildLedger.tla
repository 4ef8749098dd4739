----------------------------- MODULE ChildLedger -----------------------------
(***************************************************************************)
(* The children ledger: how delegate_task and child_resume open a row, and  *)
(* the six ways that close it (the parent that awaits, the done callback,   *)
(* the reaper of the parent's turn, the owner's cancel_child, the watchdog, *)
(* a restart), each of which may find that another came first.              *)
(*                                                                          *)
(* A child is three things that end at different moments: its row in the    *)
(* ledger, its session's status and the asyncio task of its run.  A run is  *)
(* named by a number in place of the row's `started` stamp.  Everything     *)
(* between two awaits is one action.                                        *)
(***************************************************************************)
EXTENDS OwnerTurns, FiniteSets

CONSTANTS
    Children,   \* the child sessions this owner may create
    Kept,       \* those a running harness job owns: no turn's end reaps them
    Slots,      \* the owner's fan-out limit
    MaxRun      \* bound: runs of one child, the first and its resumes

ASSUME KeptAssumption == Kept \subseteq Children
ASSUME BoundsAssumption == Slots \in Nat \ {0} /\ MaxRun \in Nat \ {0}

NoStop == [on |-> FALSE, left |-> {}, at |-> {}, turn |-> 0]

VARIABLES
    row,        \* its row in `children`
    session,    \* sessions.status of the child; "partial" is completed with a limit notice
    task,       \* the asyncio task of each run
    registered, \* the run whose task is rt.tasks[child], 0 where there is none
    callback,   \* the done callback each run still owes
    held,       \* child_slot_holders
    permits,    \* the value of the owner's slot semaphore
    reaping,    \* rt.reaping
    reaper,     \* per turn, the <<child, run>> its reap_children waits for
    await,      \* what the owner's working turn is suspended in
    stop        \* Stop in progress: the children left to stop, the run and the turn it waits for

childVars == <<row, session, task, registered, callback>>
slotVars == <<held, permits>>
reapVars == <<reaping, reaper>>
vars == <<turnVars, childVars, slotVars, reapVars, await, stop>>

Runs0 == 0..MaxRun
RunIds == 1..MaxRun
Closed == {"completed", "partial", "failed", "cancelled"}
Reasons == {"none", "error", "cancelled", "TURN_CANCELLED", "OWNER_CANCELLED", "PARENT_TURN_ENDED",
            "WATCHDOG_TIMEOUT", "ORPHAN", "RESTART", "START_FAILED"}
Answers == {"completed", "partial", "failed"}

\* queued: before the try of _run, where a cancel saves nothing; closing: the
\* final status is saved and the finally block runs; dying: a cancel was
\* delivered and the finally block runs.
TaskStates == {"none", "queued", "working", "closing", "dying", "returned", "cancelled"}
Over == {"returned", "cancelled"}
NoAwait == [kind |-> "none"]

TypeOK ==
    /\ TurnsTypeOK
    /\ row \in [Children -> [status : {"absent", "started"} \cup Closed, reason : Reasons,
                             turn : 0..MaxTurn, run : Runs0]]
    /\ session \in [Children -> {"none", "idle", "running", "cancelled", "interrupted"} \cup Answers]
    /\ task \in [Children -> [RunIds -> TaskStates]]
    /\ registered \in [Children -> Runs0]
    /\ callback \in [Children -> [RunIds -> {"none", "detached", "awaited"}]]
    /\ held \subseteq Children
    /\ permits \in 0..Slots
    /\ reaping \subseteq Children
    /\ reaper \in [Turns -> SUBSET (Children \X Runs0)]
    /\ await \in {NoAwait} \cup [kind : {"child", "unwind", "cancel"}, child : Children, run : Runs0]
    /\ stop \in [on : BOOLEAN, left : SUBSET Children, at : SUBSET (Children \X RunIds), turn : 0..MaxTurn]

Init ==
    /\ TurnsInit
    /\ row = [c \in Children |-> [status |-> "absent", reason |-> "none", turn |-> 0, run |-> 0]]
    /\ session = [c \in Children |-> "none"]
    /\ task = [c \in Children |-> [r \in RunIds |-> "none"]]
    /\ registered = [c \in Children |-> 0]
    /\ callback = [c \in Children |-> [r \in RunIds |-> "none"]]
    /\ held = {}
    /\ permits = Slots
    /\ reaping = {}
    /\ reaper = [t \in Turns |-> {}]
    /\ await = NoAwait
    /\ stop = NoStop

---------------------------------------------------------------------------
(* What the closers share.                                                  *)

Started(c) == row[c].status = "started"

\* Variant: the row is written whatever its status.
FinishAny(c, s, why) == [row EXCEPT ![c].status = s, ![c].reason = why]

\* finish_child: only a started row is closed.
Finish(c, s, why) ==
    IF Started(c) THEN [row EXCEPT ![c].status = s, ![c].reason = why] ELSE row

\* A session still open when its row closes is saved as cancelled.
Settled(c) == IF session[c] \in {"running", "idle"} THEN "cancelled" ELSE session[c]

\* Variant: every closer gives a permit back.
ReleaseAgain(c) ==
    /\ held' = held \ {c}
    /\ permits' = permits + 1

\* Variant: the holder is forgotten under another parent's name.
ReleaseUnowned(c) ==
    /\ held' = held \ {c}
    /\ permits' = permits

\* release_child_slot: once for each holder.
Release(c) ==
    /\ held' = held \ {c}
    /\ permits' = IF c \in held THEN permits + 1 ELSE permits

\* What task.cancel() on each of the runs cs comes to, once it is delivered.
Live(c, r) == r # 0 /\ task[c][r] \in {"queued", "working", "closing", "dying"}

Cancelled(cs) ==
    [c \in Children |-> [r \in RunIds |->
        IF <<c, r>> \notin cs THEN task[c][r]
        ELSE CASE task[c][r] = "queued" -> "cancelled"
               [] task[c][r] \in {"working", "closing", "dying"} -> "dying"
               [] OTHER -> task[c][r]]]

SavedCancelled(cs) ==
    [c \in Children |-> IF \E r \in RunIds : <<c, r>> \in cs /\ task[c][r] = "working"
                        THEN "cancelled" ELSE session[c]]

OwnerWorks == current # 0 /\ phase[current] = "working" /\ await = NoAwait

---------------------------------------------------------------------------
(* The owner's turn.                                                        *)

OpenOwnerTurn ==
    /\ OpenTurn
    /\ UNCHANGED <<childVars, slotVars, reapVars, await, stop>>

EndOwnerTurn(s) ==
    /\ OwnerWorks
    /\ CloseTurn(current, s)
    /\ UNCHANGED <<childVars, slotVars, reapVars, await, stop>>

\* The row, the task and its callback once run r of c is started in this turn.
StartRun(c, r, wait) ==
    /\ row' = [row EXCEPT ![c] = [status |-> "started", reason |-> "none", turn |-> active, run |-> r]]
    /\ session' = [session EXCEPT ![c] = "running"]
    /\ task' = [task EXCEPT ![c][r] = "queued"]
    /\ registered' = [registered EXCEPT ![c] = r]
    /\ callback' = [callback EXCEPT ![c][r] = IF wait THEN "awaited" ELSE "detached"]
    /\ await' = IF wait THEN [kind |-> "child", child |-> c, run |-> r] ELSE NoAwait
    /\ held' = held \cup {c}
    /\ permits' = permits - 1

\* delegate_task. The slot is bought before the session exists. With too many
\* recipients it raises after the slot was tied to the child; when start raises
\* the slot goes back, and the row is closed here only for the child of a job.
Delegate(c, wait) ==
    /\ OwnerWorks /\ row[c].status = "absent" /\ session[c] = "none"
    /\ permits > 0
    /\ c \in Kept => ~wait
    /\ \/ StartRun(c, 1, wait)
       \/ /\ session' = [session EXCEPT ![c] = "idle"]
          /\ held' = held \cup {c}
          /\ permits' = permits - 1
          /\ UNCHANGED <<row, task, registered, callback, await>>
       \/ /\ row' = [row EXCEPT ![c] = [status |-> IF c \in Kept THEN "failed" ELSE "started",
                                        reason |-> IF c \in Kept THEN "START_FAILED" ELSE "none",
                                        turn |-> active, run |-> 0]]
          /\ session' = [session EXCEPT ![c] = IF c \in Kept THEN "cancelled" ELSE "idle"]
          /\ UNCHANGED <<task, registered, callback, await, slotVars>>
    /\ UNCHANGED <<turnVars, reapVars, stop>>

\* Cut by a ceiling. A row that failed with a ceiling's code is one that answered in
\* part, under another name: the two are closed and resumed alike.
Resumable(c) == row[c].status = "partial" \/ row[c].reason = "WATCHDOG_TIMEOUT"

\* child_resume: the row of a child that a ceiling cut is opened again, for a new
\* run; when start raises it is closed at once.
Resume(c, wait) ==
    /\ OwnerWorks /\ Resumable(c) /\ session[c] # "running"
    /\ permits > 0 /\ row[c].run < MaxRun
    /\ \/ StartRun(c, row[c].run + 1, wait)
       \/ /\ row' = [row EXCEPT ![c] = [status |-> "failed", reason |-> "START_FAILED",
                                        turn |-> active, run |-> row[c].run + 1]]
          /\ UNCHANGED <<session, task, registered, callback, await, slotVars>>
    /\ UNCHANGED <<turnVars, reapVars, stop>>

\* The awaited child returned, and its callback ran first: the parent closes the
\* row with what the child's session says.
AwaitReturns ==
    /\ await.kind = "child"
    /\ LET c == await.child
       IN  /\ task[c][await.run] = "returned" /\ callback[c][await.run] = "none"
           /\ row' = Finish(c, session[c], IF session[c] = "failed" THEN "error" ELSE "none")
    /\ await' = NoAwait
    /\ UNCHANGED <<turnVars, session, task, registered, callback, slotVars, reapVars, stop>>

\* The awaited child's task was cancelled: await raises in the owner's turn, which
\* closes as a cancelled one.
AwaitRaises ==
    /\ await.kind \in {"child", "unwind"}
    /\ callback[await.child][await.run] = "none"
    /\ \/ await.kind = "child" /\ task[await.child][await.run] = "cancelled"
       \/ await.kind = "unwind" /\ task[await.child][await.run] \in Over
    /\ CloseTurn(current, "cancelled")
    /\ await' = NoAwait
    /\ UNCHANGED <<childVars, slotVars, reapVars, stop>>

\* cancel_child up to its await: the owner's intent is marked, the child's task
\* is cancelled. The set of closed rows it turns away lacks the partial ones.
CancelChild(c) ==
    /\ OwnerWorks /\ row[c].status \in {"started", "partial"}
    /\ LET cs == IF Live(c, registered[c]) THEN {<<c, registered[c]>>} ELSE {}
       IN  /\ task' = Cancelled(cs)
           /\ session' = SavedCancelled(cs)
    /\ await' = [kind |-> "cancel", child |-> c, run |-> registered[c]]
    /\ UNCHANGED <<turnVars, row, registered, callback, slotVars, reapVars, stop>>

\* cancel_child after its await, close_owner_cancelled_child included. The child's
\* own callback ran before it.
CancelDone ==
    /\ await.kind = "cancel"
    /\ LET c == await.child
       IN  /\ await.run # 0 => task[c][await.run] \in Over /\ callback[c][await.run] = "none"
           /\ row' = Finish(c, "cancelled", "OWNER_CANCELLED")
           /\ session' = [session EXCEPT ![c] = IF Started(c) THEN Settled(c) ELSE session[c]]
           /\ Release(c)
    /\ await' = NoAwait
    /\ UNCHANGED <<turnVars, task, registered, callback, reapVars, stop>>
---------------------------------------------------------------------------
(* The child's task and its callback.                                       *)

SetTask(c, r, s) == task' = [task EXCEPT ![c][r] = s]

ChildBegins(c, r) ==
    /\ task[c][r] = "queued"
    /\ SetTask(c, r, "working")
    /\ UNCHANGED <<turnVars, row, session, registered, callback, slotVars, reapVars, await, stop>>

ChildAnswers(c, r, s) ==
    /\ task[c][r] = "working"
    /\ SetTask(c, r, "closing")
    /\ session' = [session EXCEPT ![c] = s]
    /\ UNCHANGED <<turnVars, row, registered, callback, slotVars, reapVars, await, stop>>

ChildEnds(c, r) ==
    /\ \/ task[c][r] = "closing" /\ SetTask(c, r, "returned")
       \/ task[c][r] = "dying" /\ SetTask(c, r, "cancelled")
    /\ UNCHANGED <<turnVars, row, session, registered, callback, slotVars, reapVars, await, stop>>

\* Variant: the stamp of the run is not compared.
StaleNever(c, r) == FALSE

\* The row belongs to a later run: the callback neither closes it nor touches
\* the slot, which is the later run's.
Stale(c, r) == Started(c) /\ row[c].run # r

\* Variant: the stamp guards the row and not the slot.
KeepsSlotNever(c, r) == FALSE

KeepsSlot(c, r) == c \notin reaping /\ Stale(c, r)

\* A child whose session was never closed was cancelled before it began. It is in
\* rt.owner_cancels exactly while its cancel_child is in its await: the set takes it
\* just before and drops it in a finally, also when the owner's turn is cancelled.
UnsavedEnd(c) ==
    IF await.kind = "cancel" /\ await.child = c
    THEN [status |-> "cancelled", reason |-> "OWNER_CANCELLED"]
    ELSE [status |-> "failed", reason |-> "TURN_CANCELLED"]

\* close_detached_child: the row takes what the child's session says, unless the
\* reaper has the child, another closed it, or a later run owns it.
DetachedCloses(c, r) ==
    LET end == CASE session[c] \in {"completed", "partial"} -> [status |-> session[c], reason |-> "none"]
                 [] session[c] = "failed" -> [status |-> "failed", reason |-> "error"]
                 [] session[c] = "cancelled" -> [status |-> "cancelled", reason |-> "cancelled"]
                 [] OTHER -> UnsavedEnd(c)
    IN  IF c \in reaping \/ ~Started(c) \/ Stale(c, r) THEN UNCHANGED <<row, session>>
        ELSE /\ row' = Finish(c, end.status, end.reason)
             /\ session' = [session EXCEPT ![c] = Settled(c)]

\* The done callback. That of an awaited run gives the slot back and no more.
Callback(c, r) ==
    /\ callback[c][r] # "none" /\ task[c][r] \in Over
    /\ callback' = [callback EXCEPT ![c][r] = "none"]
    /\ IF callback[c][r] = "detached" THEN DetachedCloses(c, r) ELSE UNCHANGED <<row, session>>
    /\ IF callback[c][r] = "detached" /\ KeepsSlot(c, r) THEN UNCHANGED slotVars ELSE Release(c)
    /\ UNCHANGED <<turnVars, task, registered, reapVars, await, stop>>

---------------------------------------------------------------------------
(* The reaper, in the finally block of the owner's turn.                    *)

Orphans(t) ==
    {c \in Children : /\ Started(c) /\ row[c].turn = t /\ c \notin Kept
                      /\ registered[c] # 0 => task[c][registered[c]] # "returned"}

\* reap_children up to its await, after the executor's cleanup: the turn it asks
\* for is the one active by now.
ReapStart(t) ==
    /\ phase[t] = "closing" /\ reaper[t] = {}
    /\ LET cs == {<<c, registered[c]>> : c \in Orphans(active)}
       IN  /\ phase' = IF cs = {} THEN [phase EXCEPT ![t] = "over"] ELSE phase
           /\ reaping' = reaping \cup Orphans(active)
           /\ reaper' = [reaper EXCEPT ![t] = cs]
           /\ task' = Cancelled(cs)
           /\ session' = SavedCancelled(cs)
    /\ UNCHANGED <<status, turns, active, current, row, registered, callback, slotVars, await, stop>>

Reaped(t) == {cr[1] : cr \in reaper[t]}

\* reap_children after its await: every cancelled child whose row is still started
\* is closed; a child that returned meanwhile is left alone.
ReapEnd(t) ==
    /\ reaper[t] # {}
    /\ \A cr \in reaper[t] : cr[2] # 0 => task[cr[1]][cr[2]] \in Over /\ callback[cr[1]][cr[2]] = "none"
    /\ LET cut == {cr[1] : cr \in {x \in reaper[t] : x[2] # 0 => task[x[1]][x[2]] = "cancelled"}}
       IN  /\ row' = [c \in Children |-> IF c \in cut THEN Finish(c, "failed", "PARENT_TURN_ENDED")[c]
                                         ELSE row[c]]
           /\ session' = [c \in Children |-> IF c \in cut /\ Started(c) THEN Settled(c) ELSE session[c]]
           /\ registered' = [c \in Children |-> IF c \in cut THEN 0 ELSE registered[c]]
    /\ reaping' = reaping \ Reaped(t)
    /\ reaper' = [reaper EXCEPT ![t] = {}]
    /\ phase' = [phase EXCEPT ![t] = "over"]
    /\ UNCHANGED <<status, turns, active, current, task, callback, slotVars, await, stop>>

---------------------------------------------------------------------------
(* The watchdog, Stop, and the process.                                     *)

\* _close with cancel: the row, the task, the slot and the session in one step.
WatchdogCloses(c, why) ==
    LET cs == IF Live(c, registered[c]) THEN {<<c, registered[c]>>} ELSE {}
    IN  /\ row' = Finish(c, "failed", why)
        /\ task' = Cancelled(cs)
        /\ registered' = [registered EXCEPT ![c] = 0]
        /\ Release(c)
        /\ session' = [session EXCEPT ![c] = Settled(c)]
        /\ UNCHANGED <<turnVars, callback, reapVars, await, stop>>

\* The child is older than the wall limit.
WatchdogTimeout(c) == Started(c) /\ WatchdogCloses(c, "WATCHDOG_TIMEOUT")

\* Variant: nobody looks for a parent that is gone.
OrphanedNever(c) == FALSE

\* No turn of the parent runs, by its task and by its status.
Orphaned(c) == c \notin Kept /\ ~Busy(phase) /\ status # "running"

WatchdogOrphan(c) == Started(c) /\ Orphaned(c) /\ WatchdogCloses(c, "ORPHAN")

\* The user stops one child from its own page.
UserStopsChild(c) ==
    /\ Live(c, registered[c])
    /\ task' = Cancelled({<<c, registered[c]>>})
    /\ session' = SavedCancelled({<<c, registered[c]>>})
    /\ UNCHANGED <<turnVars, row, registered, callback, slotVars, reapVars, await, stop>>

StopBegin ==
    /\ ~stop.on
    /\ stop' = [NoStop EXCEPT !.on = TRUE, !.left = {c \in Children : session[c] = "running"}]
    /\ UNCHANGED <<turnVars, childVars, slotVars, reapVars, await>>

StopIdle == stop.turn = 0 /\ \A cr \in stop.at : task[cr[1]][cr[2]] \in Over

\* Stop waits for each child in turn.
StopChild(c) ==
    /\ c \in stop.left /\ StopIdle
    /\ LET cs == IF Live(c, registered[c]) THEN {<<c, registered[c]>>} ELSE {}
       IN  /\ stop' = [stop EXCEPT !.left = @ \ {c}, !.at = cs]
           /\ task' = Cancelled(cs)
           /\ session' = SavedCancelled(cs)
    /\ UNCHANGED <<turnVars, row, registered, callback, slotVars, reapVars, await>>

\* Variant: a reaper that is cancelled keeps its mark on the children.
ReapAbortedMarked(t) ==
    /\ phase' = [phase EXCEPT ![t] = "over"]
    /\ reaping' = reaping
    /\ reaper' = [reaper EXCEPT ![t] = {}]

\* The rest of the finally block is lost, but for the reaper's own finally.
ReapAborted(t) ==
    /\ phase' = [phase EXCEPT ![t] = "over"]
    /\ reaping' = reaping \ Reaped(t)
    /\ reaper' = [reaper EXCEPT ![t] = {}]

\* The owner's own task, as Stop finds it after the children. A turn that awaits a
\* child cancels it and waits for it before it closes.
StopSelf ==
    /\ stop.on /\ stop.left = {} /\ StopIdle
    /\ IF ~Busy(phase) THEN stop' = NoStop ELSE stop' = [stop EXCEPT !.turn = current]
    /\ \/ /\ ~Busy(phase)
          /\ UNCHANGED <<turnVars, task, session, reapVars, await>>
       \/ /\ Busy(phase) /\ phase[current] = "working" /\ await.kind # "child"
          /\ CloseTurn(current, "cancelled")
          /\ await' = NoAwait
          /\ UNCHANGED <<task, session, reapVars>>
       \/ /\ Busy(phase) /\ phase[current] = "working" /\ await.kind = "child"
          /\ await' = [await EXCEPT !.kind = "unwind"]
          /\ task' = Cancelled({<<await.child, await.run>>})
          /\ session' = SavedCancelled({<<await.child, await.run>>})
          /\ UNCHANGED <<turnVars, reapVars>>
       \/ /\ Busy(phase) /\ phase[current] = "closing"
          /\ ReapAborted(current)
          /\ UNCHANGED <<status, turns, active, current, task, session, await>>
    /\ UNCHANGED <<row, registered, callback, slotVars>>

StopEnd ==
    /\ stop.turn # 0 /\ phase[stop.turn] = "over"
    /\ stop' = NoStop
    /\ UNCHANGED <<turnVars, childVars, slotVars, reapVars, await>>

\* The process dies; the next one marks the running sessions interrupted, and its
\* watchdog's first sweep closes the rows it finds started, before any turn.
Restart ==
    /\ RestartTurns
    /\ row' = [c \in Children |-> Finish(c, "failed", "RESTART")[c]]
    /\ session' = [c \in Children |-> IF session[c] = "running" THEN "interrupted"
                                      ELSE IF Started(c) THEN Settled(c) ELSE session[c]]
    /\ task' = [c \in Children |-> [r \in RunIds |-> IF task[c][r] = "none" THEN "none" ELSE "cancelled"]]
    /\ registered' = [c \in Children |-> 0]
    /\ callback' = [c \in Children |-> [r \in RunIds |-> "none"]]
    /\ held' = {} /\ permits' = Slots
    /\ reaping' = {} /\ reaper' = [t \in Turns |-> {}]
    /\ await' = NoAwait /\ stop' = NoStop

OwnerStep ==
    \/ OpenOwnerTurn
    \/ \E s \in {"completed", "failed"} : EndOwnerTurn(s)
    \/ \E c \in Children, wait \in BOOLEAN : Delegate(c, wait) \/ Resume(c, wait)
    \/ AwaitReturns \/ AwaitRaises
    \/ \E c \in Children : CancelChild(c)
    \/ CancelDone
    \/ \E t \in Turns : ReapStart(t) \/ ReapEnd(t)

ChildStep ==
    \E c \in Children, r \in RunIds :
        \/ ChildBegins(c, r)
        \/ \E s \in Answers : ChildAnswers(c, r, s)
        \/ ChildEnds(c, r)
        \/ Callback(c, r)

Next ==
    \/ OwnerStep
    \/ ChildStep
    \/ \E c \in Children : WatchdogTimeout(c) \/ WatchdogOrphan(c) \/ UserStopsChild(c) \/ StopChild(c)
    \/ StopBegin \/ StopSelf \/ StopEnd
    \/ Restart

Spec == Init /\ [][Next]_vars

\* Turns and children end under their deadlines; callbacks, the reaper, Stop's
\* steps and the sweeps of the watchdog are run by the event loop. No fairness of
\* the wall limit is assumed: it is hours away.
Fairness ==
    /\ WF_vars(\E s \in {"completed", "failed"} : EndOwnerTurn(s))
    /\ WF_vars(AwaitReturns) /\ WF_vars(AwaitRaises) /\ WF_vars(CancelDone)
    /\ \A t \in Turns : WF_vars(ReapStart(t)) /\ WF_vars(ReapEnd(t))
    /\ \A c \in Children, r \in RunIds :
        /\ WF_vars(ChildBegins(c, r) \/ ChildAnswers(c, r, "failed") \/ ChildEnds(c, r))
        /\ WF_vars(Callback(c, r))
    /\ \A c \in Children : WF_vars(WatchdogOrphan(c)) /\ WF_vars(StopChild(c))
    /\ WF_vars(StopSelf) /\ WF_vars(StopEnd)

FairSpec == Spec /\ Fairness

---------------------------------------------------------------------------
(* Properties.                                                              *)

\* A slot is given back once for each time it was bought, whichever of the five
\* releasing paths come, and in whatever order (BUG-53, runtime.py:2549-2560).
SlotsConserved == permits = Slots - Cardinality(held)

\* Every reaper in the behaviour takes children of its own turn only, which the code
\* wants and does not ensure (ReapsOwnTurn, below).
OwnReapers == [](\A t \in Turns : \A c \in Reaped(t) : row[c].turn = t)

\* A run that works holds its child's slot: what ends late of an earlier run, or of an
\* earlier turn, takes nothing from it (runtime.py:2296-2302).
LiveRunHoldsSlot ==
    OwnReapers => [](\A c \in Children :
        Started(c) /\ row[c].run # 0 /\ task[c][row[c].run] \in {"queued", "working"} => c \in held)

\* A closed row never stands over a child that still works: whoever closes it has
\* stopped the run first, or stops it in the same step.
ClosedMeansStopped ==
    OwnReapers => [](\A c \in Children : row[c].status \in Closed =>
        \A r \in RunIds : task[c][r] \notin {"queued", "working"})

\* A run is closed once: status and reason of a closed row stay until a resume
\* opens a later run.
RunsCloseOnce ==
    [][\A c \in Children : row[c].status \in Closed =>
            row'[c] = row[c] \/ row'[c].run > row[c].run]_vars

\* The reaper's mark lasts as long as the reaper: a mark left behind would make
\* every later callback of the child leave its row open.
ReapingEnds == \A c \in reaping : \E t \in Turns : c \in Reaped(t)

\* A row whose run is over is closed, by one of the closers, without the wall limit.
RunsAreClosed ==
    \A c \in Children :
        (Started(c) /\ (row[c].run # 0 => task[c][row[c].run] \in Over)) ~> ~Started(c)

---------------------------------------------------------------------------
(* What the source says of itself and does not do.                          *)

\* "Một lượt không được giết việc của lượt khác" (runtime.py:2411-2412).
ReapsOwnTurn == \A t \in Turns : \A c \in Reaped(t) : row[c].turn = t
=============================================================================
