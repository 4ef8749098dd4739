---------------------------- MODULE HarnessJobs ----------------------------
(***************************************************************************)
(* The durable job ledger of harness_jobs.py: jobs, the wake outbox, the    *)
(* wake cursors, the owner wake locks and the invocation receipts, all in   *)
(* one SQLite database.  Every public method runs in one `_write`           *)
(* transaction (BEGIN IMMEDIATE), so a method is one action; a method that  *)
(* raises rolls its transaction back and is a step that changes nothing, so *)
(* only the outcomes that commit are actions.                               *)
(*                                                                          *)
(* Data abstraction: an artifact reference is a pair <<artifact, hash>>; an *)
(* event keeps the fields a decision reads (kind, predicate, consumer,      *)
(* intermediate, state, resultRefs, controlState).  Time only appears as    *)
(* the expiry of a wake lock.                                               *)
(***************************************************************************)
EXTENDS Integers, FiniteSets

CONSTANTS
    Jobs,        \* identifiers uuid4 may draw for a job
    Owners,      \* sessions that own jobs
    Consumers,   \* outbox consumers; an event's default consumer is the owner
    Tokens,      \* names a wake lock may be taken under
    Invocations, \* idempotency keys of start
    TaskKeys,    \* task aliases
    Refs,        \* <<artifact version, content hash>> pairs
    Requests,    \* the requests owners start
    Events,      \* the events producers append
    Afters,      \* the after_seq values callers pass to subscribe and wait
    None,        \* an absent optional field
    MaxSeq,      \* bound: the largest event_seq
    MaxGap       \* bound: how far ahead of the log a producer may number an event

OPEN_STATES == {"queued", "running", "waiting"}
CLOSED_STATES == {"succeeded", "partial", "failed", "interrupted", "cancelled", "unknown"}
JOB_STATES == OPEN_STATES \cup CLOSED_STATES
WAKE_KINDS == {"result", "blocker", "owner_subscribed"}
EVENT_KINDS == WAKE_KINDS \cup {"progress", "heartbeat", "log", "control"}
Predicates == EVENT_KINDS \cup {"reconcile"}

RequestRecords == [kind : {"model", "process"}, ownership : {"controller", "turn"},
                   taskKey : TaskKeys \cup {None}]
Admissions == [owner : Owners, invocation : Invocations, request : RequestRecords]
EventRecords == [kind : EVENT_KINDS, predicate : Predicates, consumer : Consumers,
                 intermediate : BOOLEAN, state : JOB_STATES \cup {None},
                 resultRefs : SUBSET Refs, controlState : {"cancel_requested", None}]

\* None is no member of the sets it stands beside. Only cancel writes a row
\* under the predicate "control": no other caller under src/ does.
ASSUME ConstantsAssumption ==
    /\ Owners \subseteq Consumers
    /\ None \notin Jobs \cup TaskKeys \cup JOB_STATES \cup {"cancel_requested"}
    /\ None \notin 0..MaxSeq
    /\ None \notin Admissions
    /\ Requests \subseteq RequestRecords
    /\ Events \subseteq EventRecords
    /\ Afters \subseteq 0..MaxSeq
    /\ \A e \in Events : e.predicate # "control"
    /\ MaxSeq \in Nat /\ MaxGap \in Nat
    /\ IsFiniteSet(Jobs)

VARIABLES
    admission,  \* harness_jobs: owner, invocation and request of a started job
    state,      \* harness_jobs.state, "absent" before the row exists
    revision,   \* harness_jobs.revision
    epoch,      \* harness_jobs.capability_epoch
    resultRefs, \* harness_jobs.result_refs_json
    childOpen,  \* SessionStore child row of a model job: still started, not finished
    outbox,     \* harness_wake_outbox, append only
    lastSeq,    \* MAX(event_seq) over the outbox
    delivered,  \* the event_seq of the outbox rows with status 'delivered'
    cursor,     \* harness_wake_cursors.last_seq, NoCursor where there is no row
    lock        \* harness_wake_locks: holder and whether it has not expired

jobVars == <<admission, state, revision, epoch, resultRefs>>
logVars == <<outbox, lastSeq>>
wakeVars == <<delivered, cursor>>
vars == <<jobVars, childOpen, logVars, wakeVars, lock>>

NoCursor == -1
Started == {j \in Jobs : admission[j] # None}
Open(j) == state[j] \in OPEN_STATES
Closed(j) == state[j] \in CLOSED_STATES
OwnerOf(j) == admission[j].owner

Rows == [job : Jobs, seq : 1..MaxSeq, event : EventRecords, state : JOB_STATES \cup {None}]

TypeOK ==
    /\ admission \in [Jobs -> Admissions \cup {None}]
    /\ state \in [Jobs -> JOB_STATES \cup {"absent"}]
    /\ \A j \in Jobs : state[j] = "absent" <=> admission[j] = None
    /\ revision \in [Jobs -> Nat]
    /\ epoch \in [Jobs -> Nat]
    /\ resultRefs \in [Jobs -> SUBSET Refs]
    /\ childOpen \in [Jobs -> BOOLEAN]
    /\ outbox \subseteq Rows
    /\ lastSeq \in 0..MaxSeq
    /\ delivered \subseteq 1..MaxSeq
    /\ cursor \in [Consumers -> [Jobs -> NoCursor..MaxSeq]]
    /\ lock \in [Owners -> [holder : Tokens, live : BOOLEAN] \cup {None}]

Init ==
    /\ admission = [j \in Jobs |-> None]
    /\ state = [j \in Jobs |-> "absent"]
    /\ revision = [j \in Jobs |-> 0]
    /\ epoch = [j \in Jobs |-> 0]
    /\ resultRefs = [j \in Jobs |-> {}]
    /\ childOpen = [j \in Jobs |-> FALSE]
    /\ outbox = {}
    /\ lastSeq = 0
    /\ delivered = {}
    /\ cursor = [c \in Consumers |-> [j \in Jobs |-> NoCursor]]
    /\ lock = [o \in Owners |-> None]

---------------------------------------------------------------------------
(* start: one job per (owner, invocation); a task alias names at most one   *)
(* open job of its owner.                                                   *)

\* Variant: the receipt is looked for among open jobs only.
InvokedOpen(o, inv) == \E k \in Started : /\ admission[k].owner = o /\ Open(k)
                                          /\ admission[k].invocation = inv

\* The invocation already has a receipt: its replay, or its conflict, writes nothing.
Invoked(o, inv) == \E k \in Started : admission[k].owner = o /\ admission[k].invocation = inv

\* Variant: the index forgets that a running job is still open.
AliasFreeQueued(o, r) ==
    r.taskKey # None =>
        \A k \in Started : ~( /\ OwnerOf(k) = o /\ admission[k].request.taskKey = r.taskKey
                              /\ state[k] = "queued")

\* The unique index harness_jobs_task_open.
AliasFree(o, r) ==
    r.taskKey # None =>
        \A k \in Started : ~(OwnerOf(k) = o /\ admission[k].request.taskKey = r.taskKey /\ Open(k))

Start(o, inv, r, j) ==
    /\ j \notin Started
    /\ ~Invoked(o, inv)
    /\ AliasFree(o, r)
    /\ admission' = [admission EXCEPT ![j] = [owner |-> o, invocation |-> inv, request |-> r]]
    /\ state' = [state EXCEPT ![j] = "queued"]
    /\ revision' = [revision EXCEPT ![j] = 1]
    /\ epoch' = [epoch EXCEPT ![j] = 1]
    /\ childOpen' = [childOpen EXCEPT ![j] = r.kind = "model"]
    /\ UNCHANGED <<resultRefs, logVars, wakeVars, lock>>

---------------------------------------------------------------------------
(* append: the state of the job and the outbox row in one transaction.      *)

Controls(j) == {r \in outbox : r.job = j /\ r.event.predicate = "control"}

\* `_control`: the newest control row of the job asks to cancel.
CancelRequested(j) ==
    \E r \in Controls(j) : /\ r.event.controlState = "cancel_requested"
                           /\ \A q \in Controls(j) : q.seq <= r.seq

\* Variant: the state must be the recorded one, so a producer whose late
\* completion was recorded as cancelled gets a conflict when it retries.
ReplayMatchesRecorded(r, e) ==
    /\ [r.event EXCEPT !.state = e.state] = e
    /\ e.state = None \/ e.state = r.state

\* A replay names a row already committed, under the same job, consumer and
\* predicate, with the same payload; the state may be the one the producer
\* reported or the one the ledger recorded instead of it.
ReplayMatches(r, e) ==
    /\ [r.event EXCEPT !.state = e.state] = e
    /\ e.state = None \/ e.state \in {r.state, r.event.state}

\* One content hash for an artifact version.
SameRef(j, e) == \A x \in e.resultRefs, y \in resultRefs[j] \cup e.resultRefs : x[1] = y[1] => x[2] = y[2]

\* Variant: the closed job accepts another final state.
ReplyReopens(j, e, seq, rev) ==
    IF seq # None /\ seq <= lastSeq
    THEN IF \E r \in outbox : r.job = j /\ r.seq = seq /\ ReplayMatches(r, e)
         THEN "replayed" ELSE "JOB_EVENT_CONFLICT"
    ELSE IF rev # None /\ rev # revision[j] THEN "JOB_REVISION_CONFLICT"
    ELSE IF ~SameRef(j, e) THEN "JOB_REF_CONFLICT"
    ELSE "applied"

\* What append answers to event e numbered seq, expecting revision rev. The
\* replay is recognised before the revision is looked at.
Reply(j, e, seq, rev) ==
    IF seq # None /\ seq <= lastSeq
    THEN IF \E r \in outbox : r.job = j /\ r.seq = seq /\ ReplayMatches(r, e)
         THEN "replayed" ELSE "JOB_EVENT_CONFLICT"
    ELSE IF rev # None /\ rev # revision[j] THEN "JOB_REVISION_CONFLICT"
    ELSE IF e.state # None /\ Closed(j) /\ e.state # state[j] THEN "JOB_CLOSED"
    ELSE IF ~SameRef(j, e) THEN "JOB_REF_CONFLICT"
    ELSE "applied"

\* Variant: the last report wins.
RecordedAsReported(j, e) == e.state

\* Variant: the control state is stored as the job's state.
RecordedControl(j, e) ==
    IF e.state # None /\ CancelRequested(j) THEN "cancel_requested" ELSE e.state

\* A completion that arrives after a request to cancel closes the job as
\* cancelled; the row still keeps what the producer reported.
Recorded(j, e) ==
    IF e.state # None /\ Open(j) /\ CancelRequested(j) /\ e.state \in CLOSED_STATES
    THEN "cancelled" ELSE e.state

\* Variant: an event without a state does not move the revision.
AppendLockedSilent(j, e, seq) ==
    LET s == Recorded(j, e)
    IN  /\ state' = IF s = None THEN state ELSE [state EXCEPT ![j] = s]
        /\ revision' = IF s = None THEN revision ELSE [revision EXCEPT ![j] = @ + 1]
        /\ resultRefs' = [resultRefs EXCEPT ![j] = @ \cup e.resultRefs]
        /\ outbox' = outbox \cup {[job |-> j, seq |-> seq, event |-> e, state |-> s]}
        /\ lastSeq' = seq

AppendLocked(j, e, seq) ==
    LET s == Recorded(j, e)
    IN  /\ state' = IF s = None THEN state ELSE [state EXCEPT ![j] = s]
        /\ revision' = [revision EXCEPT ![j] = @ + 1]
        /\ resultRefs' = [resultRefs EXCEPT ![j] = @ \cup e.resultRefs]
        /\ outbox' = outbox \cup {[job |-> j, seq |-> seq, event |-> e, state |-> s]}
        /\ lastSeq' = seq

\* Variant: the next number is taken from the job's own rows.
AppendPerJob(j, e, seq, rev) ==
    LET own == {r.seq : r \in {q \in outbox : q.job = j}} \cup {0}
        n == IF seq = None THEN 1 + (CHOOSE k \in own : \A i \in own : i <= k) ELSE seq
    IN  /\ j \in Started
        /\ Reply(j, e, seq, rev) = "applied"
        /\ n \in 1..MaxSeq
        /\ AppendLocked(j, e, n)
        /\ UNCHANGED <<admission, epoch, childOpen, wakeVars, lock>>

\* seq = None lets the ledger number the event.
Append(j, e, seq, rev) ==
    LET n == IF seq = None THEN lastSeq + 1 ELSE seq
    IN  /\ j \in Started
        /\ Reply(j, e, seq, rev) = "applied"
        /\ n \in 1..MaxSeq
        /\ AppendLocked(j, e, n)
        /\ UNCHANGED <<admission, epoch, childOpen, wakeVars, lock>>

---------------------------------------------------------------------------
(* cancel: a receipt of the request; the job stays open.                    *)

CancelEvent(o) ==
    [kind |-> "control", predicate |-> "control", consumer |-> o, intermediate |-> FALSE,
     state |-> None, resultRefs |-> {}, controlState |-> "cancel_requested"]

Cancel(j, rev) ==
    /\ j \in Started
    /\ ~CancelRequested(j)      \* otherwise the old receipt is returned
    /\ rev = revision[j]
    /\ ~Closed(j)
    /\ lastSeq < MaxSeq
    /\ epoch' = [epoch EXCEPT ![j] = @ + 1]
    /\ AppendLocked(j, CancelEvent(OwnerOf(j)), lastSeq + 1)
    /\ UNCHANGED <<admission, childOpen, wakeVars, lock>>

---------------------------------------------------------------------------
(* subscribe and wait: cursors of (consumer, job) that only move forward.   *)

\* Variant: a subscription sets the cursor back.
AdvanceToAny(c, j, seq) == seq

AdvanceTo(c, j, seq) == IF cursor[c][j] < seq THEN seq ELSE cursor[c][j]

Subscribe(c, j, after) ==
    /\ j \in Started
    /\ cursor' = [cursor EXCEPT ![c][j] = AdvanceTo(c, j, after)]
    /\ UNCHANGED <<jobVars, childOpen, logVars, delivered, lock>>

ShouldWake(e) == e.kind \in WAKE_KINDS /\ ~e.intermediate

\* The rows a wait reads: past the caller's cursor, unless its consumer has no
\* cursor on the job yet, and always past the stored cursor.
Observed(cs, ids, after) ==
    {r \in outbox : LET at == cursor[r.event.consumer][r.job]
                    IN  /\ r.job \in ids
                        /\ r.event.consumer \in cs
                        /\ r.seq > (IF at = NoCursor THEN 0 ELSE after)
                        /\ r.seq > at}

WakeRows(cs, ids, after) == {r \in Observed(cs, ids, after) : ShouldWake(r.event)}

\* One wake for each (job, consumer, predicate): the newest row of the group.
Wakes(cs, ids, after) ==
    {r \in WakeRows(cs, ids, after) :
        \A q \in WakeRows(cs, ids, after) :
            (q.job = r.job /\ q.event.consumer = r.event.consumer
                /\ q.event.predicate = r.event.predicate) => q.seq <= r.seq}

\* Variant: only the newest row of each group is marked delivered.
ConsumeNewest(cs, ids, after) ==
    /\ delivered' = delivered \cup {r.seq : r \in Wakes(cs, ids, after)}
    /\ cursor' = [c \in Consumers |-> [j \in Jobs |->
            LET seen == {r \in Observed(cs, ids, after) : r.job = j /\ r.event.consumer = c}
            IN  IF seen = {} THEN cursor[c][j]
                ELSE CHOOSE n \in 1..MaxSeq : /\ \E r \in seen : r.seq = n
                                              /\ \A r \in seen : r.seq <= n]]

\* Every row of a group is marked delivered; every row observed moves the
\* cursor of its (consumer, job), heartbeats and progress included.
Consume(cs, ids, after) ==
    /\ delivered' = delivered \cup {r.seq : r \in WakeRows(cs, ids, after)}
    /\ cursor' = [c \in Consumers |-> [j \in Jobs |->
            LET seen == {r \in Observed(cs, ids, after) : r.job = j /\ r.event.consumer = c}
            IN  IF seen = {} THEN cursor[c][j]
                ELSE CHOOSE n \in 1..MaxSeq : /\ \E r \in seen : r.seq = n
                                              /\ \A r \in seen : r.seq <= n]]

Wait(o, t, ids, after) ==
    /\ ids # {} /\ ids \subseteq Started
    /\ lock[o] = [holder |-> t, live |-> TRUE]
    /\ \A j \in ids : OwnerOf(j) = o
    /\ Consume({o}, ids, after)
    /\ UNCHANGED <<jobVars, childOpen, logVars, lock>>

\* The library form with no consumer reads the rows of every consumer.
WaitUnscoped(ids, after) ==
    /\ ids # {} /\ ids \subseteq Started
    /\ Consume(Consumers, ids, after)
    /\ UNCHANGED <<jobVars, childOpen, logVars, lock>>

---------------------------------------------------------------------------
(* The wake lock of an owner: one live holder, reclaimed once expired.      *)

AcquireWake(o, t) ==
    /\ lock[o] # None => ~(lock[o].live /\ lock[o].holder # t)
    /\ lock' = [lock EXCEPT ![o] = [holder |-> t, live |-> TRUE]]
    /\ UNCHANGED <<jobVars, childOpen, logVars, wakeVars>>

ReleaseWake(o, t) ==
    /\ lock[o] # None /\ lock[o].holder = t
    /\ lock' = [lock EXCEPT ![o] = None]
    /\ UNCHANGED <<jobVars, childOpen, logVars, wakeVars>>

\* WAKE_TTL_SECONDS elapse without a renewal.
ExpireWake(o) ==
    /\ lock[o] # None /\ lock[o].live
    /\ lock' = [lock EXCEPT ![o].live = FALSE]
    /\ UNCHANGED <<jobVars, childOpen, logVars, wakeVars>>

---------------------------------------------------------------------------
(* reconcile: close every open job whose executor is not confirmed.         *)

\* Variant: a model job is trusted across a restart when its child row is open.
ConfirmedByRow(j, restart, live) ==
    /\ ~CancelRequested(j)
    /\ admission[j].request.ownership = "controller"
    /\ IF admission[j].request.kind = "model" THEN childOpen[j] ELSE j \in live

\* `live` are the process jobs whose handle the executor confirms.
Confirmed(j, restart, live) ==
    /\ ~CancelRequested(j)
    /\ admission[j].request.ownership = "controller"
    /\ IF admission[j].request.kind = "model" THEN ~restart /\ childOpen[j] ELSE j \in live

\* Variant: the request to cancel is not looked at.
VerdictUncancelled(j) ==
    IF \/ admission[j].request.ownership = "turn"
       \/ admission[j].request.kind = "model" THEN "interrupted" ELSE "unknown"

Verdict(j) ==
    CASE CancelRequested(j) -> "cancelled"
      [] ~CancelRequested(j) /\ ( \/ admission[j].request.ownership = "turn"
                                  \/ admission[j].request.kind = "model") -> "interrupted"
      [] OTHER -> "unknown"

ReconcileEvent(j) ==
    [kind |-> "result", predicate |-> "reconcile", consumer |-> OwnerOf(j),
     intermediate |-> FALSE, state |-> Verdict(j), resultRefs |-> {}, controlState |-> None]

\* The rows are numbered in created_at order, which is not modelled: `at` is
\* any numbering of the jobs being closed.
Reconcile(restart, live) ==
    LET closing == {j \in Started : Open(j) /\ ~Confirmed(j, restart, live)}
    IN  \E at \in [closing -> lastSeq + 1 .. lastSeq + Cardinality(closing)] :
            /\ \A j, k \in closing : at[j] = at[k] => j = k
            /\ closing # {}
            /\ lastSeq + Cardinality(closing) <= MaxSeq
            /\ state' = [j \in Jobs |-> IF j \in closing THEN Verdict(j) ELSE state[j]]
            /\ revision' = [j \in Jobs |-> IF j \in closing THEN revision[j] + 1 ELSE revision[j]]
            /\ outbox' = outbox \cup {[job |-> j, seq |-> at[j], event |-> ReconcileEvent(j),
                                       state |-> Verdict(j)] : j \in closing}
            /\ lastSeq' = lastSeq + Cardinality(closing)
            /\ UNCHANGED <<admission, epoch, resultRefs, childOpen, wakeVars, lock>>

---------------------------------------------------------------------------
(* The child ledger of SessionStore, seen from here: a child closes once.   *)
CloseChild(j) ==
    /\ childOpen[j]
    /\ childOpen' = [childOpen EXCEPT ![j] = FALSE]
    /\ UNCHANGED <<jobVars, logVars, wakeVars, lock>>

---------------------------------------------------------------------------
Numbers == {None} \cup (1..MaxSeq)
Expectations(j) == {None, revision[j] - 1, revision[j]}

Next ==
    \/ \E o \in Owners, inv \in Invocations, r \in Requests, j \in Jobs : Start(o, inv, r, j)
    \/ \E j \in Jobs, e \in Events, seq \in Numbers :
          /\ seq # None => seq <= lastSeq + 1 + MaxGap
          /\ \E rev \in Expectations(j) : Append(j, e, seq, rev)
    \/ \E j \in Jobs : Cancel(j, revision[j])
    \/ \E c \in Consumers, j \in Jobs, after \in Afters : Subscribe(c, j, after)
    \/ \E o \in Owners, t \in Tokens, ids \in SUBSET Jobs, after \in Afters : Wait(o, t, ids, after)
    \/ \E ids \in SUBSET Jobs, after \in Afters : WaitUnscoped(ids, after)
    \/ \E o \in Owners, t \in Tokens : AcquireWake(o, t) \/ ReleaseWake(o, t)
    \/ \E o \in Owners : ExpireWake(o)
    \/ \E restart \in BOOLEAN, live \in SUBSET Jobs : Reconcile(restart, live)
    \/ \E j \in Jobs : CloseChild(j)

Spec == Init /\ [][Next]_vars

---------------------------------------------------------------------------
(* Properties.                                                              *)

\* A job asked to cancel is still open or closed as cancelled, whatever its
\* producer reports later and whatever a restart finds (lines 453-455, 699).
CancelHonoured ==
    \A j \in Jobs : CancelRequested(j) => state[j] \in OPEN_STATES \cup {"cancelled"}

\* Job and log commit together, and nothing else moves the job: the newest row
\* that carries a state carries the job's, a job no row speaks of is queued, the
\* revision a caller must present counts the rows, and a request to cancel, made
\* once or repeated (lines 500-512), has moved the capability epoch once.
LogExplainsState ==
    \A j \in Started :
        LET rows == {r \in outbox : r.job = j}
            told == {r \in rows : r.state # None}
        IN  /\ told = {} => state[j] = "queued"
            /\ \A r \in told : (\A q \in told : q.seq <= r.seq) => state[j] = r.state
            /\ revision[j] = 1 + Cardinality(rows)
            /\ epoch[j] = IF CancelRequested(j) THEN 2 ELSE 1

\* event_seq orders the whole outbox: no two rows share one, and lastSeq is
\* the largest, although jobs and producers number their events independently.
SeqIsGlobal ==
    /\ \A r, q \in outbox : r.seq = q.seq => r = q
    /\ \A r \in outbox : r.seq <= lastSeq
    /\ outbox # {} => \E r \in outbox : r.seq = lastSeq

\* An alias names one open job of its owner.
AliasUnique ==
    \A j, k \in Started :
        /\ OwnerOf(j) = OwnerOf(k) /\ Open(j) /\ Open(k)
        /\ admission[j].request.taskKey = admission[k].request.taskKey
        /\ admission[j].request.taskKey # None
        => j = k

\* An invocation retried after a lost answer, or after its job closed, never
\* starts a second job.
OneJobPerInvocation ==
    \A j, k \in Started : (/\ admission[j].owner = admission[k].owner
                           /\ admission[j].invocation = admission[k].invocation) => j = k

\* A producer that lost the answer of an append sends the same event with the
\* same number again and gets its receipt, whatever revision it expects and
\* even where a cancellation changed the state that was recorded.
RetryAnswered ==
    \A r \in outbox : \A rev \in {None} \cup 0..MaxSeq :
        Reply(r.job, r.event, r.seq, rev) = "replayed"

\* A wake that a wait has returned is behind the cursor: no later wait, with
\* any after_seq, returns it again.
NeverRedelivered ==
    \A after \in 0..MaxSeq, c \in Consumers : \A r \in Wakes({c}, Jobs, after) : r.seq \notin delivered

\* A wake-worthy row behind its consumer's cursor has been delivered: the
\* cursor passes no result unread. For callers that let the stored cursor
\* alone decide where to read from (Afters = {0}).
NoWakeSkipped ==
    \A r \in outbox :
        ShouldWake(r.event) /\ r.seq <= cursor[r.event.consumer][r.job] => r.seq \in delivered

\* A closed job keeps its state, and its log only grows.
ClosedIsFinal ==
    [][/\ \A j \in Jobs : Closed(j) => state'[j] = state[j]
       /\ outbox \subseteq outbox' /\ delivered \subseteq delivered']_vars

\* After the reconcile of a restart the only open jobs are controller-owned
\* processes that the executor confirmed; none was asked to cancel.
RestartSettles ==
    [][\A live \in SUBSET Jobs : Reconcile(TRUE, live) =>
            \A j \in Started : state'[j] \in OPEN_STATES =>
                /\ admission[j].request = [admission[j].request EXCEPT !.kind = "process",
                                                                      !.ownership = "controller"]
                /\ j \in live /\ ~CancelRequested(j)]_vars

\* The ledger keeps the promise of JobLedger.
Status(j) ==
    CASE state[j] = "absent" -> "absent"
      [] Closed(j) -> state[j]
      [] Open(j) /\ CancelRequested(j) -> "cancelling"
      [] OTHER -> "open"

StatusOfJobs == [j \in Jobs |-> Status(j)]

Ledger == INSTANCE JobLedger WITH status <- StatusOfJobs

\* Refinement: whatever the outbox, the cursors and the retries do, a reader of
\* the jobs sees JobLedger.
LedgerSpec == Ledger!Spec
=============================================================================
