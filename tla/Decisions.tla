----------------------------- MODULE Decisions -----------------------------
(* The decision cards of one root session: the rows of session_decisions    *)
(* (decision_store.py), the coroutines that wait for an answer, and the      *)
(* status of the session they share (runtime.py, decision to resume).        *)
(*                                                                           *)
(* A card is opened by the root's turn or, in an IDE session, by a child     *)
(* whose tool needs the owner: the approver of machine_router.py opens it on *)
(* the root session.  The owner, the deadline, Stop and a restart close it.  *)
(* One process runs everything on one event loop, so a step is what happens  *)
(* between two awaits.  Every reader of rt.pending calls hydrate_decisions   *)
(* first and settle writes the row and the record in one step: a record is   *)
(* resolved exactly when its row is, and only its future is modelled apart.  *)
EXTENDS Naturals

CONSTANTS
    Cards,          \* decision ids
    Kids,           \* children that run in an IDE session
    Invocations,    \* invocationId of the owner's requests
    Root,           \* the root session's own turn
    None

ASSUME DecisionsAssumption ==
    /\ Root \notin Kids
    /\ None \notin Cards \cup Invocations

Askers == Kids \cup {Root}
Answers == {"approved", "rejected", "answered"}             \* by the owner
Outcomes == Answers \cup {"expired", "cancelled"}
Busy == {"running", "awaiting_decision"}
Statuses == Busy \cup {"idle", "completed", "failed", "cancelled", "interrupted"}
Verdicts == {"ok", "revise"}

VARIABLES
    row,        \* session_decisions: status, kind, plan keys, binding, invocation
    review,     \* what the card wrote into plan_reviews
    verdict,    \* plan_verifications: the verdict on the plan's version
    future,     \* the future of the record in rt.pending: "none", "open", "set"
    waits,      \* the card an asker's coroutine is blocked on
    heard,      \* the outcome a coroutine went on with
    task,       \* rt.tasks; "cancelling": cancel() called, not yet delivered
    status,     \* sessions.status of the root
    prev,       \* previous_status of a waiting child's approver ("idle": none)
    due,        \* pending cards whose deadline has passed
    stopping,   \* the children Stop still has to cancel; None when no Stop runs
    told        \* replies the owner was given

durable == <<row, review, verdict, due, told>>
vars == <<row, review, verdict, future, waits, heard, task, status, prev,
          due, stopping, told>>

NoRow == [state |-> "none", kind |-> "none", plan |-> FALSE, bind |-> None, inv |-> None]

Pending == {c \in Cards : row[c].state = "pending"}

RowType == [state : {"none", "pending"} \cup Outcomes,
            kind : {"none", "question", "approval"}, plan : BOOLEAN,
            bind : Verdicts \cup {None}, inv : Invocations \cup {None}]

TypeOK ==
    /\ row \in [Cards -> RowType]
    /\ review \in [Cards -> {"none", "approved", "changes_requested"}]
    /\ verdict \in Verdicts
    /\ future \in [Cards -> {"none", "open", "set"}]
    /\ waits \in [Askers -> Cards \cup {None}]
    /\ heard \in [Cards -> Outcomes \cup {None}]
    /\ task \in [Askers -> {"none", "live", "cancelling", "closing"}]
    /\ status \in Statuses
    /\ prev \in [Kids -> Statuses]
    /\ due \subseteq Cards
    /\ stopping \in (SUBSET Kids) \cup {None}
    /\ told \subseteq Cards \X Invocations \X Answers

Init ==
    /\ row = [c \in Cards |-> NoRow]
    /\ review = [c \in Cards |-> "none"]
    /\ verdict = "revise"
    /\ future = [c \in Cards |-> "none"]
    /\ waits = [a \in Askers |-> None]
    /\ heard = [c \in Cards |-> None]
    /\ task = [a \in Askers |-> "none"]
    /\ status = "idle"
    /\ prev = [k \in Kids |-> "idle"]
    /\ due = {}
    /\ stopping = None
    /\ told = {}

-----------------------------------------------------------------------------
(* Closing cards: settle of the runtime around settle of the store.          *)

(* Which cards settle would close at all: neither record nor row resolved.   *)
Open(c) == row[c].state = "pending"

(* current_decision_binding: the plan's verdict now; nothing for other cards.*)
Current(c) == IF row[c].plan THEN verdict ELSE None

(* Variant: the binding is stored and never compared.                        *)
FreshUnread(c) == TRUE

(* An answer of the owner is only taken for the world the card was asked in. *)
Fresh(c) == row[c].bind = Current(c)

(* plan_approval_blocked lets the version pass (mode enforce).  `blocked` is *)
(* what its other two tests say at this moment: the brief was revised or the *)
(* version replaced since its review, a research it rests on went stale.     *)
(* They turn at any time, both ways, and unlike the verdict are in no        *)
(* binding, so each action that asks them takes the answer as an input.      *)
Passed(blocked) == verdict = "ok" /\ ~blocked

(* record_plan_decision: a refusal counts from an approval card only, and an *)
(* approval only of a version that passes now; of one that does not it is    *)
(* the card's outcome and leaves no entry.                                   *)
PlanRow(c, o, blocked) ==
    CASE row[c].plan /\ o = "approved" /\ Passed(blocked) -> "approved"
      [] row[c].plan /\ o = "rejected" /\ row[c].kind = "approval" -> "changes_requested"
      [] OTHER -> review[c]

(* settle: one transaction writes outcome and effect, then the future is set.*)
(* `out` maps the cards closed in this step to their outcomes.               *)
SettleUnder(out, inv, blocked) ==
    /\ row' = [c \in Cards |-> IF c \in DOMAIN out
                  THEN [row[c] EXCEPT !.state = out[c],
                                      !.inv = IF out[c] \in Answers THEN inv ELSE None]
                  ELSE row[c]]
    /\ review' = [c \in Cards |-> IF c \in DOMAIN out THEN PlanRow(c, out[c], blocked) ELSE review[c]]
    /\ future' = [c \in Cards |-> IF c \in DOMAIN out /\ future[c] = "open"
                                  THEN "set" ELSE future[c]]
    /\ due' = due \ DOMAIN out

(* No approval among the outcomes: nothing asks whether a version is blocked.*)
Settle(out, inv) == SettleUnder(out, inv, FALSE)

(* resume: a card closed for any reason but Stop puts an awaiting session    *)
(* back to running, provided somebody may be waiting (the record has a       *)
(* future).  `s` is the status before.                                       *)
Resume(out, s) ==
    IF s = "awaiting_decision"
       /\ \E c \in DOMAIN out : out[c] # "cancelled" /\ future[c] # "none"
    THEN "running" ELSE s

(* Variant: status and reason swapped.                                       *)
ExpiredByReason == [c \in due |-> "timeout"]

(* hydrate_decisions closes every pending card whose deadline has passed.    *)
Expired == [c \in due |-> "expired"]

(* One card closed by its own timer; the owner's answer to a card, after     *)
(* hydrate; Stop's settlement of what hydrate left open.                     *)
TimedOut(c) == [x \in {c} |-> "expired"]
Answered(c, o) == [x \in due \cup {c} |-> IF x = c THEN o ELSE "expired"]
Stopped == [c \in Pending |-> IF c \in due THEN "expired" ELSE "cancelled"]

-----------------------------------------------------------------------------
(* The turns.                                                                *)

Start ==
    /\ status \notin Busy
    /\ task[Root] = "none"
    /\ status' = "running"
    /\ task' = [task EXCEPT ![Root] = "live"]
    /\ UNCHANGED <<durable, future, waits, heard, prev, stopping>>

(* delegate, wait=false, or a job's child.                                   *)
Spawn(k) ==
    /\ task[Root] = "live" /\ waits[Root] = None
    /\ task[k] = "none"
    /\ task' = [task EXCEPT ![k] = "live"]
    /\ UNCHANGED <<durable, future, waits, heard, status, prev, stopping>>

KidEnds(k) ==
    /\ task[k] = "live" /\ waits[k] = None
    /\ task' = [task EXCEPT ![k] = "none"]
    /\ UNCHANGED <<durable, future, waits, heard, status, prev, stopping>>

(* decision: the row, the record with its future, the session's status.      *)
Request(a, c, kind, plan) ==
    /\ row[c].state = "none"
    /\ row' = [row EXCEPT ![c] = [state |-> "pending", kind |-> kind, plan |-> plan,
                                  bind |-> IF plan THEN verdict ELSE None, inv |-> None]]
    /\ future' = [future EXCEPT ![c] = "open"]
    /\ waits' = [waits EXCEPT ![a] = c]
    /\ status' = "awaiting_decision"

(* The critique gate stands before the card is opened.                       *)
MayAsk(kind, plan, blocked) == kind = "approval" /\ plan => Passed(blocked)

Ask(c, kind, plan, blocked) ==
    /\ task[Root] = "live" /\ waits[Root] = None
    /\ MayAsk(kind, plan, blocked)
    /\ Request(Root, c, kind, plan)
    /\ UNCHANGED <<review, verdict, heard, task, prev, due, stopping, told>>

(* The approver of an IDE session climbs to the root and asks there.         *)
AskForKid(k, c) ==
    /\ task[k] = "live" /\ waits[k] = None
    /\ prev' = [prev EXCEPT ![k] = status]
    /\ Request(k, c, "approval", FALSE)
    /\ UNCHANGED <<review, verdict, heard, task, due, stopping, told>>

(* wait_for_decision returns: the coroutine goes on with the record's        *)
(* outcome.  A child's approver then puts back the status it found, if the   *)
(* session is still, or again, awaiting.                                     *)
Hear(a) ==
    LET c == waits[a] IN
    /\ task[a] = "live" /\ c # None
    /\ future[c] = "set"
    /\ heard' = [heard EXCEPT ![c] = row[c].state]
    /\ waits' = [waits EXCEPT ![a] = None]
    /\ status' = IF a \in Kids /\ status = "awaiting_decision" THEN prev[a] ELSE status
    /\ prev' = IF a \in Kids THEN [prev EXCEPT ![a] = "idle"] ELSE prev
    /\ UNCHANGED <<durable, future, task, stopping>>

(* Variant: only the turn's own wait is given the deadline.                  *)
ExpireRootOnly(a) ==
    LET c == waits[a] IN
    /\ a = Root /\ task[a] = "live" /\ c # None
    /\ c \in due /\ future[c] = "open" /\ Open(c)
    /\ Settle(TimedOut(c), None)
    /\ status' = Resume(TimedOut(c), status)
    /\ UNCHANGED <<verdict, waits, heard, task, prev, stopping, told>>

(* The wait runs out: the card is closed with the default.                   *)
Expire(a) ==
    LET c == waits[a] IN
    /\ task[a] = "live" /\ c # None
    /\ c \in due /\ future[c] = "open" /\ Open(c)
    /\ Settle(TimedOut(c), None)
    /\ status' = Resume(TimedOut(c), status)
    /\ UNCHANGED <<verdict, waits, heard, task, prev, stopping, told>>

(* The turn ends; the first thing its finally block does is to hydrate.      *)
EndTurn(s) ==
    /\ task[Root] = "live" /\ waits[Root] = None
    /\ Settle(Expired, None)
    /\ status' = s
    /\ task' = [task EXCEPT ![Root] = "closing"]
    /\ UNCHANGED <<verdict, waits, heard, prev, stopping, told>>

(* The end of the finally block: the children of the turn are cancelled;     *)
(* `owned` are those an open controller job keeps (owns_child, job_surface). *)
Reap(owned) ==
    LET cut == {k \in Kids \ owned : task[k] = "live"} IN
    /\ task[Root] = "closing"
    /\ task' = [a \in Askers |-> IF a = Root \/ a \in cut THEN "none" ELSE task[a]]
    /\ waits' = [a \in Askers |-> IF a \in cut THEN None ELSE waits[a]]
    /\ prev' = [k \in Kids |-> IF k \in cut THEN "idle" ELSE prev[k]]
    /\ UNCHANGED <<durable, future, heard, status, stopping>>

-----------------------------------------------------------------------------
(* The owner.                                                                *)

(* Variants: a retry is known by its invocation alone; the record in memory  *)
(* is trusted to be open.                                                    *)
RepeatedAnyPayload(c, o, i) == row[c].inv = i

AcceptedTwice(c, o, i, ok, blocked) ==
    /\ c \notin due
    /\ Fresh(c)
    /\ ok \/ PlanRow(c, o, blocked) = review[c]

(* resolve_decision: the same invocation with the same payload is given its  *)
(* first reply, with another one refused; otherwise hydrate, then settle, if *)
(* the card is still open, its binding holds and the plan's review can be    *)
(* written (`ok`).                                                           *)
Repeated(c, o, i) == row[c].inv = i /\ row[c].state = o

Accepted(c, o, i, ok, blocked) ==
    /\ Open(c) /\ c \notin due
    /\ Fresh(c)
    /\ ok \/ PlanRow(c, o, blocked) = review[c]

Answer(c, o, i, ok, blocked) ==
    /\ row[c].state # "none"
    /\ row[c].inv = i => Repeated(c, o, i)
    /\ IF Repeated(c, o, i)
       THEN /\ told' = told \cup {<<c, i, o>>}
            /\ UNCHANGED <<row, review, future, status, due>>
       ELSE LET out == IF Accepted(c, o, i, ok, blocked) THEN Answered(c, o) ELSE Expired IN
            /\ SettleUnder(out, i, blocked)
            /\ status' = Resume(out, status)
            /\ told' = IF Accepted(c, o, i, ok, blocked) THEN told \cup {<<c, i, o>>} ELSE told
    /\ UNCHANGED <<verdict, waits, heard, task, prev, stopping>>

(* The owner's page of decisions hydrates as well.                           *)
Look ==
    /\ due # {}
    /\ Settle(Expired, None)
    /\ status' = Resume(Expired, status)
    /\ UNCHANGED <<verdict, waits, heard, task, prev, stopping, told>>

(* Stop lists the live children and cancels them one after the other, each   *)
(* awaited; then, in one step, it closes every card and cancels the turn.    *)
StopBegin ==
    /\ stopping = None
    /\ stopping' = {k \in Kids : task[k] = "live"}
    /\ UNCHANGED <<durable, future, waits, heard, task, status, prev>>

StopKid(k) ==
    /\ stopping # None /\ k \in stopping
    /\ stopping' = stopping \ {k}
    /\ task' = [task EXCEPT ![k] = "none"]
    /\ waits' = [waits EXCEPT ![k] = None]
    /\ prev' = [prev EXCEPT ![k] = "idle"]
    /\ UNCHANGED <<durable, future, heard, status>>

StopRoot ==
    /\ stopping = {}
    /\ stopping' = None
    /\ Settle(Stopped, None)
    /\ status' = Resume(Stopped, status)
    /\ task' = IF task[Root] = "live" THEN [task EXCEPT ![Root] = "cancelling"] ELSE task
    /\ UNCHANGED <<verdict, waits, heard, prev, told>>

(* CancelledError reaches the turn: it wins over a future already set.       *)
Cancelled ==
    /\ task[Root] = "cancelling"
    /\ Settle(Expired, None)
    /\ status' = "cancelled"
    /\ task' = [task EXCEPT ![Root] = "closing"]
    /\ waits' = [waits EXCEPT ![Root] = None]
    /\ UNCHANGED <<verdict, heard, prev, stopping, told>>

-----------------------------------------------------------------------------
(* The world.                                                                *)

Pass(c) ==
    /\ c \in Pending \ due
    /\ due' = due \cup {c}
    /\ UNCHANGED <<row, review, verdict, future, waits, heard, task, status,
                   prev, stopping, told>>

(* plan_verify, or a later critique, changes the verdict on the plan.        *)
Verify ==
    /\ verdict' \in Verdicts \ {verdict}
    /\ UNCHANGED <<row, review, future, waits, heard, task, status, prev, due,
                   stopping, told>>

(* The process dies; at boot busy sessions are interrupted and the records   *)
(* are read back without a future.                                           *)
Restart ==
    /\ task' = [a \in Askers |-> "none"]
    /\ waits' = [a \in Askers |-> None]
    /\ row' = [c \in Cards |-> IF c \in due THEN [row[c] EXCEPT !.state = "expired"] ELSE row[c]]
    /\ future' = [c \in Cards |-> "none"]
    /\ status' = IF status \in Busy THEN "interrupted" ELSE status
    /\ prev' = [k \in Kids |-> "idle"]
    /\ stopping' = None
    /\ due' = {}
    /\ UNCHANGED <<review, verdict, heard, told>>

Next ==
    \/ Start
    \/ \E k \in Kids : Spawn(k) \/ KidEnds(k) \/ StopKid(k)
    \/ \E c \in Cards : \/ Pass(c)
                        \/ \E kind \in {"question", "approval"}, plan \in BOOLEAN :
                              \E blocked \in BOOLEAN : Ask(c, kind, plan, blocked)
                        \/ \E k \in Kids : AskForKid(k, c)
                        \/ \E o \in Answers, i \in Invocations, ok, blocked \in BOOLEAN :
                              Answer(c, o, i, ok, blocked)
    \/ \E a \in Askers : Hear(a) \/ Expire(a)
    \/ \E s \in {"completed", "failed"} : EndTurn(s)
    \/ \E owned \in SUBSET Kids : Reap(owned)
    \/ Look
    \/ StopBegin \/ StopRoot \/ Cancelled
    \/ Verify \/ Restart

Spec == Init /\ [][Next]_vars

(* Deadlines pass, and the event loop runs every coroutine that is ready.    *)
Fairness ==
    /\ WF_vars(\E c \in Cards : Pass(c))
    /\ WF_vars(Cancelled \/ \E a \in Askers : Hear(a) \/ Expire(a))

FairSpec == Spec /\ Fairness

-----------------------------------------------------------------------------
(* Properties.                                                               *)

(* A card is closed once: whoever comes second, the owner, the deadline,     *)
(* Stop, a retried answer or a restart, finds the outcome and leaves it.     *)
OneOutcome ==
    [][\A c \in Cards : row[c].state \in Outcomes => row'[c] = row[c]]_vars

(* Everyone is told the same thing: the coroutine that waited and the owner  *)
(* who answered both got the outcome that is in the row, whatever raced it;  *)
(* and the row still knows the owner's request, so that a retry is given the *)
(* same reply and not DECISION_ALREADY_RESOLVED, even after a restart.       *)
AllHearTheRow ==
    /\ \A c \in Cards : heard[c] # None => heard[c] = row[c].state
    /\ \A t \in told : row[t[1]].inv = t[2] /\ row[t[1]].state = t[3]

(* The plan ledger says what the owner said.  An approval in it was given by *)
(* the owner on a card asked when the version had passed its critique, never *)
(* by a deadline, a Stop, a typed answer, or a `yes` to a question asked     *)
(* before the critique passed.  A refusal given on an approval card is in it *)
(* and no other.  (An approval may be missing: of a version that is blocked  *)
(* by then the code leaves it out, runtime.py:6290-6312.)                    *)
LedgerSaysWhatOwnerSaid ==
    \A c \in Cards :
        /\ review[c] = "approved" =>
              row[c].plan /\ row[c].state = "approved" /\ row[c].bind = "ok"
        /\ review[c] = "changes_requested" <=>
              row[c].plan /\ row[c].kind = "approval" /\ row[c].state = "rejected"

(* No wake-up is lost: a coroutine that waits has a future, which is set     *)
(* exactly when the card is closed.                                          *)
WaiterIsWoken ==
    \A a \in Askers : waits[a] # None =>
        future[waits[a]] = IF Open(waits[a]) THEN "open" ELSE "set"

(* A blocked turn or child goes on: answer, deadline or Stop releases it.    *)
WaitEnds == \A a \in Askers : waits[a] # None ~> waits[a] = None

(* resume, runtime.py:6333: "A blocked turn goes back to running as soon as  *)
(* an answer (or the timeout) lands": a session that goes back to running    *)
(* has a turn.                                                               *)
ResumeHasTurn ==
    [][status = "awaiting_decision" /\ status' = "running" => task[Root] # "none"]_vars
=============================================================================
