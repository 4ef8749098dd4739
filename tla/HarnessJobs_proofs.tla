------------------------ MODULE HarnessJobs_proofs ------------------------
(***************************************************************************)
(* What the job ledger guarantees for any jobs, owners, consumers, events   *)
(* and bounds.  One lemma for each transaction of harness_jobs.py.          *)
(***************************************************************************)
EXTENDS HarnessJobs, FiniteSetTheorems, WellFoundedInduction, TLAPS

USE DEF OPEN_STATES, CLOSED_STATES, JOB_STATES

\* Every non-empty set of naturals has a least element...
LEMMA LeastElement ==
    ASSUME NEW T, T \subseteq Nat, T # {}
    PROVE  \E x \in T : \A y \in T : x <= y
<1>1. IsWellFoundedOn(OpToRel(<, Nat), Nat)
  BY NatLessThanWellFounded
<1>2. \A x, y \in Nat : x < y => <<x, y>> \in OpToRel(<, Nat)
  BY Zenon DEF OpToRel
<1>3. PICK R : IsWellFoundedOn(R, Nat) /\ \A x, y \in Nat : x < y => <<x, y>> \in R
  BY <1>1, <1>2, Zenon
<1>4. PICK x \in T : \A y \in T : ~(<<y, x>> \in R)
  BY <1>3, WFMin
<1>5. ASSUME NEW y \in T PROVE x <= y
  <2>1. ~(y < x)
    BY <1>3, <1>4
  <2> QED
    BY <2>1
<1> QED
  BY <1>5

\* ... and every non-empty set of sequence numbers a greatest one.
LEMMA GreatestSeq ==
    ASSUME NEW T, T \subseteq 1..MaxSeq, T # {}
    PROVE  \E n \in T : \A k \in T : k <= n
<1> DEFINE Below == {MaxSeq - k : k \in T}
<1>0. MaxSeq \in Nat
  BY ConstantsAssumption
<1>1. Below \subseteq Nat /\ Below # {}
  <2>1. \A k \in T : MaxSeq - k \in Nat
    BY <1>0
  <2>2. PICK k \in T : TRUE
    OBVIOUS
  <2> QED
    BY <2>1, <2>2
<1>2. PICK m \in Below : \A b \in Below : m <= b
  BY <1>1, LeastElement
<1>3. PICK n \in T : m = MaxSeq - n
  BY <1>2
<1>4. ASSUME NEW k \in T PROVE k <= n
  <2>1. MaxSeq - k \in Below
    OBVIOUS
  <2>2. MaxSeq - n <= MaxSeq - k
    BY <1>2, <1>3, <2>1
  <2>3. n \in Int /\ k \in Int
    OBVIOUS
  <2> QED
    BY <1>0, <2>2, <2>3
<1> QED
  BY <1>4

\* The control event of cancel is an event record.
LEMMA CancelEventTyped ==
    ASSUME NEW o \in Consumers PROVE CancelEvent(o) \in EventRecords
BY DEF CancelEvent, EventRecords, EVENT_KINDS, Predicates

\* What the ledger records for an event is a job state or nothing.
LEMMA RecordedTyped ==
    ASSUME NEW j \in Jobs, NEW e \in EventRecords
    PROVE  /\ Recorded(j, e) \in JOB_STATES \cup {None}
           /\ Recorded(j, e) = None <=> e.state = None
BY ConstantsAssumption DEF Recorded, EventRecords

\* A started job has an admission, hence an owner among the consumers.
LEMMA StartedOwner ==
    ASSUME TypeOK, NEW j \in Started
    PROVE  /\ j \in Jobs /\ admission[j] \in Admissions
           /\ OwnerOf(j) \in Owners /\ OwnerOf(j) \in Consumers
BY ConstantsAssumption DEF TypeOK, Started, OwnerOf, Admissions

\* append, whoever calls it, keeps the types of what it writes.
LEMMA AppendLockedTyped ==
    ASSUME TypeOK, NEW j \in Started, NEW e \in EventRecords, NEW n \in 1..MaxSeq,
           AppendLocked(j, e, n)
    PROVE  /\ state' \in [Jobs -> JOB_STATES \cup {"absent"}]
           /\ \A k \in Jobs : state'[k] = "absent" <=> state[k] = "absent"
           /\ revision' \in [Jobs -> Nat]
           /\ resultRefs' \in [Jobs -> SUBSET Refs]
           /\ outbox' \subseteq Rows
           /\ lastSeq' \in 0..MaxSeq
<1>1. j \in Jobs
  BY DEF Started
<1>2. Recorded(j, e) \in JOB_STATES \cup {None}
  BY <1>1, RecordedTyped
<1>3. state[j] # "absent"
  BY <1>1 DEF TypeOK, Started
<1>4. [job |-> j, seq |-> n, event |-> e, state |-> Recorded(j, e)] \in Rows
  BY <1>1, <1>2 DEF Rows
<1>5. e.resultRefs \in SUBSET Refs
  BY DEF EventRecords
<1> QED
  BY <1>1, <1>2, <1>3, <1>4, <1>5, ConstantsAssumption DEF AppendLocked, TypeOK

LEMMA InitTypeOK == Init => TypeOK
BY ConstantsAssumption DEF Init, TypeOK, NoCursor

LEMMA StartTypeOK ==
    ASSUME TypeOK, NEW o \in Owners, NEW inv \in Invocations, NEW r \in Requests, NEW j \in Jobs,
           Start(o, inv, r, j)
    PROVE  TypeOK'
<1>1. [owner |-> o, invocation |-> inv, request |-> r] \in Admissions
  BY ConstantsAssumption DEF Admissions
<1> QED
  BY <1>1, ConstantsAssumption DEF Start, TypeOK, Started, logVars, wakeVars

LEMMA AppendTypeOK ==
    ASSUME TypeOK, NEW j \in Jobs, NEW e \in Events, NEW seq, NEW rev, Append(j, e, seq, rev)
    PROVE  TypeOK'
<1> DEFINE n == IF seq = None THEN lastSeq + 1 ELSE seq
<1>1. e \in EventRecords /\ j \in Started /\ n \in 1..MaxSeq /\ AppendLocked(j, e, n)
  BY ConstantsAssumption DEF Append
<1> HIDE DEF n
<1>2. UNCHANGED <<admission, epoch, childOpen, wakeVars, lock>>
  BY DEF Append
<1> QED
  BY <1>1, <1>2, AppendLockedTyped DEF TypeOK, wakeVars

LEMMA CancelTypeOK ==
    ASSUME TypeOK, NEW j \in Jobs, NEW rev, Cancel(j, rev)
    PROVE  TypeOK'
<1>1. j \in Started /\ lastSeq + 1 \in 1..MaxSeq /\ AppendLocked(j, CancelEvent(OwnerOf(j)), lastSeq + 1)
  BY ConstantsAssumption DEF Cancel, TypeOK
<1>2. CancelEvent(OwnerOf(j)) \in EventRecords
  BY <1>1, StartedOwner, CancelEventTyped
<1>3. epoch' \in [Jobs -> Nat] /\ UNCHANGED <<admission, childOpen, wakeVars, lock>>
  BY DEF Cancel, TypeOK
<1> QED
  BY <1>1, <1>2, <1>3, AppendLockedTyped DEF TypeOK, wakeVars


\* The cursor a wait leaves on one (consumer, job): where it was if nothing was
\* read there, otherwise the greatest number read.
LEMMA ConsumeCursor ==
    ASSUME TypeOK, NEW cs, NEW ids, NEW after, Consume(cs, ids, after),
           NEW c \in Consumers, NEW j \in Jobs,
           NEW seen, seen = {r \in Observed(cs, ids, after) : r.job = j /\ r.event.consumer = c}
    PROVE  /\ seen = {} => cursor'[c][j] = cursor[c][j]
           /\ seen # {} => /\ cursor'[c][j] \in 1..MaxSeq
                           /\ \E r \in seen : r.seq = cursor'[c][j]
                           /\ \A r \in seen : r.seq <= cursor'[c][j]
<1>1. cursor'[c][j] = IF seen = {} THEN cursor[c][j]
                      ELSE CHOOSE n \in 1..MaxSeq : /\ \E r \in seen : r.seq = n
                                                    /\ \A r \in seen : r.seq <= n
  BY DEF Consume
<1>2. CASE seen = {}
  BY <1>1, <1>2
<1>3. CASE seen # {}
  <2> DEFINE T == {r.seq : r \in seen}
  <2>1. T \subseteq 1..MaxSeq /\ T # {}
    BY <1>3 DEF TypeOK, Rows, Observed
  <2>2. PICK n \in T : \A k \in T : k <= n
    BY <2>1, GreatestSeq
  <2>3. n \in 1..MaxSeq /\ (\E r \in seen : r.seq = n) /\ (\A r \in seen : r.seq <= n)
    BY <2>1, <2>2
  <2> QED
    BY <1>1, <1>3, <2>3
<1> QED
  BY <1>2, <1>3

LEMMA ConsumeTyped ==
    ASSUME TypeOK, NEW cs, NEW ids, NEW after, Consume(cs, ids, after)
    PROVE  /\ delivered' \subseteq 1..MaxSeq
           /\ cursor' \in [Consumers -> [Jobs -> NoCursor..MaxSeq]]
<1>1. delivered' \subseteq 1..MaxSeq
  BY DEF Consume, TypeOK, WakeRows, Observed, Rows
<1>2. ASSUME NEW c \in Consumers, NEW j \in Jobs PROVE cursor'[c][j] \in NoCursor..MaxSeq
  <2> DEFINE seen == {r \in Observed(cs, ids, after) : r.job = j /\ r.event.consumer = c}
  <2>1. cursor[c][j] \in NoCursor..MaxSeq /\ MaxSeq \in Nat
    BY ConstantsAssumption DEF TypeOK
  <2>2. cursor'[c][j] = cursor[c][j] \/ cursor'[c][j] \in 1..MaxSeq
    BY ConsumeCursor
  <2> QED
    BY <2>1, <2>2 DEF NoCursor
<1>3. cursor' = [c \in Consumers |-> [j \in Jobs |-> cursor'[c][j]]]
  BY DEF Consume
<1> QED
  BY <1>1, <1>2, <1>3

LEMMA ReadTypeOK ==
    ASSUME TypeOK, NEW cs, NEW ids, NEW after, Consume(cs, ids, after),
           UNCHANGED <<jobVars, childOpen, logVars, lock>>
    PROVE  TypeOK'
<1>1. delivered' \subseteq 1..MaxSeq /\ cursor' \in [Consumers -> [Jobs -> NoCursor..MaxSeq]]
  BY ConsumeTyped
<1> QED
  BY <1>1 DEF TypeOK, jobVars, logVars

LEMMA SubscribeTypeOK ==
    ASSUME TypeOK, NEW c \in Consumers, NEW j \in Jobs, NEW after \in Afters, Subscribe(c, j, after)
    PROVE  TypeOK'
<1>1. AdvanceTo(c, j, after) \in NoCursor..MaxSeq
  BY ConstantsAssumption DEF AdvanceTo, TypeOK, NoCursor
<1> QED
  BY <1>1 DEF Subscribe, TypeOK, jobVars, logVars

LEMMA LockTypeOK ==
    ASSUME TypeOK, NEW o \in Owners, NEW t \in Tokens,
           AcquireWake(o, t) \/ ReleaseWake(o, t) \/ ExpireWake(o)
    PROVE  TypeOK'
<1>1. UNCHANGED <<jobVars, childOpen, logVars, wakeVars>>
  BY DEF AcquireWake, ReleaseWake, ExpireWake
<1>2. lock' \in [Owners -> [holder : Tokens, live : BOOLEAN] \cup {None}]
  <2>1. CASE AcquireWake(o, t)
    BY <2>1 DEF AcquireWake, TypeOK
  <2>2. CASE ReleaseWake(o, t)
    BY <2>2 DEF ReleaseWake, TypeOK
  <2>3. CASE ExpireWake(o)
    <3>1. lock[o] \in [holder : Tokens, live : BOOLEAN]
      BY <2>3 DEF ExpireWake, TypeOK
    <3>2. lock' = [lock EXCEPT ![o] = [lock[o] EXCEPT !.live = FALSE]]
      BY <2>3 DEF ExpireWake
    <3> QED
      BY <3>1, <3>2 DEF TypeOK
  <2> QED
    BY <2>1, <2>2, <2>3
<1> QED
  BY <1>1, <1>2 DEF TypeOK, jobVars, logVars, wakeVars

\* What reconcile records is a final state, and its rows are outbox rows.
LEMMA VerdictTyped ==
    ASSUME NEW j PROVE Verdict(j) \in {"cancelled", "interrupted", "unknown"}
BY DEF Verdict

LEMMA ReconcileEventTyped ==
    ASSUME TypeOK, NEW j \in Started PROVE ReconcileEvent(j) \in EventRecords
BY StartedOwner, VerdictTyped DEF ReconcileEvent, EventRecords, EVENT_KINDS, WAKE_KINDS, Predicates

LEMMA ReconcileTypeOK ==
    ASSUME TypeOK, NEW restart \in BOOLEAN, NEW live \in SUBSET Jobs, Reconcile(restart, live)
    PROVE  TypeOK'
<1> DEFINE closing == {j \in Started : Open(j) /\ ~Confirmed(j, restart, live)}
<1>1. PICK at \in [closing -> lastSeq + 1 .. lastSeq + Cardinality(closing)] :
         /\ lastSeq + Cardinality(closing) <= MaxSeq
         /\ state' = [j \in Jobs |-> IF j \in closing THEN Verdict(j) ELSE state[j]]
         /\ revision' = [j \in Jobs |-> IF j \in closing THEN revision[j] + 1 ELSE revision[j]]
         /\ outbox' = outbox \cup {[job |-> j, seq |-> at[j], event |-> ReconcileEvent(j),
                                    state |-> Verdict(j)] : j \in closing}
         /\ lastSeq' = lastSeq + Cardinality(closing)
         /\ UNCHANGED <<admission, epoch, resultRefs, childOpen, wakeVars, lock>>
  BY DEF Reconcile
<1>2. closing \subseteq Jobs /\ closing \subseteq Started
  BY DEF Started
<1>3. Cardinality(closing) \in Nat
  BY <1>2, ConstantsAssumption, FS_Subset, FS_CardinalityType
<1> HIDE DEF closing
<1>4. lastSeq \in Nat /\ MaxSeq \in Nat
  BY ConstantsAssumption DEF TypeOK
<1>5. ASSUME NEW j \in closing
      PROVE  [job |-> j, seq |-> at[j], event |-> ReconcileEvent(j), state |-> Verdict(j)] \in Rows
  <2>1. at[j] \in 1..MaxSeq
    BY <1>1, <1>3, <1>4
  <2>2. ReconcileEvent(j) \in EventRecords /\ Verdict(j) \in JOB_STATES
    BY <1>2, ReconcileEventTyped, VerdictTyped
  <2> QED
    BY <1>2, <2>1, <2>2 DEF Rows
<1>6. outbox' \subseteq Rows
  BY <1>1, <1>5 DEF TypeOK
<1>7. lastSeq' \in 0..MaxSeq
  BY <1>1, <1>3, <1>4
<1>8. state' \in [Jobs -> JOB_STATES \cup {"absent"}]
  BY <1>1, VerdictTyped DEF TypeOK
<1>9. \A j \in Jobs : state'[j] = "absent" <=> admission'[j] = None
  <2> TAKE j \in Jobs
  <2>1. CASE j \in closing
    <3>1. state'[j] # "absent" /\ admission[j] # None
      BY <1>1, <1>2, <2>1, VerdictTyped DEF Started
    <3> QED
      BY <1>1, <3>1
  <2>2. CASE j \notin closing
    BY <1>1, <2>2 DEF TypeOK
  <2> QED
    BY <2>1, <2>2
<1>10. revision' \in [Jobs -> Nat]
  BY <1>1 DEF TypeOK
<1> QED
  BY <1>1, <1>6, <1>7, <1>8, <1>9, <1>10 DEF TypeOK, wakeVars

LEMMA CloseChildTypeOK ==
    ASSUME TypeOK, NEW j \in Jobs, CloseChild(j) PROVE TypeOK'
BY DEF CloseChild, TypeOK, jobVars, logVars, wakeVars

\* No transaction of the ledger writes a row of another shape.
LEMMA NextTypeOK == TypeOK /\ [Next]_vars => TypeOK'
<1> SUFFICES ASSUME TypeOK, [Next]_vars PROVE TypeOK'
  OBVIOUS
<1>1. CASE \E o \in Owners, inv \in Invocations, r \in Requests, j \in Jobs : Start(o, inv, r, j)
  BY <1>1, StartTypeOK
<1>2. CASE \E j \in Jobs, e \in Events, seq \in Numbers : \E rev \in Expectations(j) : Append(j, e, seq, rev)
  BY <1>2, AppendTypeOK
<1>3. CASE \E j \in Jobs : Cancel(j, revision[j])
  BY <1>3, CancelTypeOK
<1>4. CASE \E c \in Consumers, j \in Jobs, after \in Afters : Subscribe(c, j, after)
  BY <1>4, SubscribeTypeOK
<1>5. CASE \E o \in Owners, t \in Tokens, ids \in SUBSET Jobs, after \in Afters : Wait(o, t, ids, after)
  BY <1>5, ReadTypeOK DEF Wait
<1>6. CASE \E ids \in SUBSET Jobs, after \in Afters : WaitUnscoped(ids, after)
  BY <1>6, ReadTypeOK DEF WaitUnscoped
<1>7. CASE \E o \in Owners, t \in Tokens : AcquireWake(o, t) \/ ReleaseWake(o, t)
  BY <1>7, LockTypeOK
<1>8. CASE \E o \in Owners : ExpireWake(o)
  <2>1. PICK o \in Owners : ExpireWake(o)
    BY <1>8
  <2>2. lock[o] \in [holder : Tokens, live : BOOLEAN]
    BY <2>1 DEF ExpireWake, TypeOK
  <2> QED
    BY <2>1, <2>2, LockTypeOK
<1>9. CASE \E restart \in BOOLEAN, live \in SUBSET Jobs : Reconcile(restart, live)
  BY <1>9, ReconcileTypeOK
<1>10. CASE \E j \in Jobs : CloseChild(j)
  BY <1>10, CloseChildTypeOK
<1>11. CASE UNCHANGED vars
  BY <1>11 DEF vars, jobVars, logVars, wakeVars, TypeOK
<1> QED
  BY <1>1, <1>2, <1>3, <1>4, <1>5, <1>6, <1>7, <1>8, <1>9, <1>10, <1>11 DEF Next

\* The persisted tables keep their shape, a job has a state exactly when it has
\* an admission, and no event is numbered past the bound.
THEOREM TypeCorrect == Spec => []TypeOK
BY InitTypeOK, NextTypeOK, PTL DEF Spec

---------------------------------------------------------------------------
(* Cancellation.                                                            *)

\* The steps that only read, subscribe or lock leave jobs and log alone.
Quiet == UNCHANGED <<jobVars, logVars>>

LEMMA StepKinds ==
    ASSUME [Next]_vars
    PROVE  \/ Quiet
           \/ \E o \in Owners, inv \in Invocations, r \in Requests, j \in Jobs : Start(o, inv, r, j)
           \/ \E j \in Jobs, e \in Events, seq \in Numbers : \E rev : Append(j, e, seq, rev)
           \/ \E j \in Jobs : Cancel(j, revision[j])
           \/ \E restart \in BOOLEAN, live \in SUBSET Jobs : Reconcile(restart, live)
BY DEF Next, Quiet, vars, jobVars, logVars, wakeVars, Subscribe, Wait, WaitUnscoped,
       AcquireWake, ReleaseWake, ExpireWake, CloseChild

\* The event an append commits, and the number it gets: past the end of the log.
LEMMA AppendCommits ==
    ASSUME TypeOK, NEW j \in Jobs, NEW e \in Events, NEW seq \in Numbers, NEW rev, Append(j, e, seq, rev)
    PROVE  \E n \in 1..MaxSeq :
              /\ n > lastSeq /\ AppendLocked(j, e, n)
              /\ j \in Started /\ e \in EventRecords /\ e.predicate # "control"
              /\ Closed(j) /\ e.state # None => e.state = state[j]
              /\ SameRef(j, e)
              /\ UNCHANGED <<admission, epoch>>
<1> DEFINE n == IF seq = None THEN lastSeq + 1 ELSE seq
<1>1. Reply(j, e, seq, rev) = "applied" /\ j \in Started /\ n \in 1..MaxSeq /\ AppendLocked(j, e, n)
      /\ UNCHANGED <<admission, epoch>>
  BY DEF Append
<1>2. ~(seq # None /\ seq <= lastSeq) /\ SameRef(j, e) /\ (Closed(j) /\ e.state # None => e.state = state[j])
  BY <1>1 DEF Reply
<1>3. n > lastSeq
  BY <1>2, ConstantsAssumption DEF TypeOK, Numbers
<1>4. e \in EventRecords /\ e.predicate # "control"
  BY ConstantsAssumption
<1> QED
  BY <1>1, <1>2, <1>3, <1>4

\* An event that is no control row leaves every request to cancel as it was.
LEMMA AppendKeepsCancel ==
    ASSUME NEW j, NEW e, NEW n, AppendLocked(j, e, n), e.predicate # "control", NEW k \in Jobs
    PROVE  CancelRequested(k)' <=> CancelRequested(k)
<1>1. Controls(k)' = Controls(k)
  BY DEF AppendLocked, Controls
<1> QED
  BY <1>1 DEF CancelRequested

\* A control row asks for the job it names only, and it is the newest there.
LEMMA CancelAsks ==
    ASSUME TypeOK, \A r \in outbox : r.seq <= lastSeq, NEW j \in Jobs, NEW rev, Cancel(j, rev)
    PROVE  /\ CancelRequested(j)'
           /\ \A k \in Jobs \ {j} : CancelRequested(k)' <=> CancelRequested(k)
<1> DEFINE row == [job |-> j, seq |-> lastSeq + 1, event |-> CancelEvent(OwnerOf(j)), state |-> None]
<1>1. outbox' = outbox \cup {row}
  BY DEF Cancel, AppendLocked, Recorded, CancelEvent
<1>2. Controls(j)' = Controls(j) \cup {row}
  BY <1>1 DEF Controls, CancelEvent
<1>3. \A q \in Controls(j)' : q.seq <= row.seq
  <2>1. lastSeq \in Int /\ \A q \in outbox : q.seq \in Int
    BY ConstantsAssumption DEF TypeOK, Rows
  <2> QED
    BY <1>2, <2>1 DEF Controls
<1>4. row \in Controls(j)' /\ row.event.controlState = "cancel_requested"
  BY <1>2 DEF CancelEvent
<1>5. CancelRequested(j)'
  BY <1>3, <1>4 DEF CancelRequested
<1>6. ASSUME NEW k \in Jobs \ {j} PROVE CancelRequested(k)' <=> CancelRequested(k)
  <2>1. Controls(k)' = Controls(k)
    BY <1>1, <1>6 DEF Controls
  <2> QED
    BY <2>1 DEF CancelRequested
<1> QED
  BY <1>5, <1>6

LEMMA ReconcileKeepsCancel ==
    ASSUME NEW restart, NEW live, Reconcile(restart, live), NEW k \in Jobs
    PROVE  CancelRequested(k)' <=> CancelRequested(k)
<1>1. Controls(k)' = Controls(k)
  BY DEF Reconcile, Controls, ReconcileEvent
<1> QED
  BY <1>1 DEF CancelRequested

---------------------------------------------------------------------------
(* The order of the log.                                                    *)

\* A row appended past the end of the log keeps the numbers distinct.
LEMMA AppendKeepsOrder ==
    ASSUME TypeOK, SeqIsGlobal, NEW j, NEW e, NEW n \in 1..MaxSeq, n > lastSeq, AppendLocked(j, e, n)
    PROVE  SeqIsGlobal'
<1> DEFINE row == [job |-> j, seq |-> n, event |-> e, state |-> Recorded(j, e)]
<1>1. outbox' = outbox \cup {row} /\ lastSeq' = n /\ row.seq = n
  BY DEF AppendLocked
<1>2. lastSeq \in Int /\ n \in Int /\ \A r \in outbox : r.seq \in Int /\ r.seq < n
  BY ConstantsAssumption DEF TypeOK, Rows, SeqIsGlobal
<1> HIDE DEF row
<1>3. \A r, q \in outbox' : r.seq = q.seq => r = q
  BY <1>1, <1>2 DEF SeqIsGlobal
<1>4. (\A r \in outbox' : r.seq <= lastSeq') /\ (\E r \in outbox' : r.seq = lastSeq')
  BY <1>1, <1>2
<1> QED
  BY <1>3, <1>4 DEF SeqIsGlobal

LEMMA ReconcileKeepsOrder ==
    ASSUME TypeOK, SeqIsGlobal, NEW restart \in BOOLEAN, NEW live \in SUBSET Jobs, Reconcile(restart, live)
    PROVE  SeqIsGlobal'
<1> DEFINE closing == {j \in Started : Open(j) /\ ~Confirmed(j, restart, live)}
           N == Cardinality(closing)
<1>1. PICK at \in [closing -> lastSeq + 1 .. lastSeq + N] :
         /\ \A j, k \in closing : at[j] = at[k] => j = k
         /\ closing # {}
         /\ outbox' = outbox \cup {[job |-> j, seq |-> at[j], event |-> ReconcileEvent(j),
                                    state |-> Verdict(j)] : j \in closing}
         /\ lastSeq' = lastSeq + N
  BY DEF Reconcile
<1> DEFINE row(j) == [job |-> j, seq |-> at[j], event |-> ReconcileEvent(j), state |-> Verdict(j)]
<1>2. IsFiniteSet(closing) /\ N \in Nat
  BY ConstantsAssumption, FS_Subset, FS_CardinalityType DEF Started
<1>3. outbox' = outbox \cup {row(j) : j \in closing}
  BY <1>1
<1>4. \A j \in closing : row(j).seq = at[j] /\ at[j] \in lastSeq + 1 .. lastSeq + N
  BY <1>1
<1>5. lastSeq \in Int /\ \A r \in outbox : r.seq \in Int /\ r.seq <= lastSeq
  BY ConstantsAssumption DEF TypeOK, Rows, SeqIsGlobal
<1>6. \E j \in closing : at[j] = lastSeq + N
  <2> DEFINE Slots == lastSeq + 1 .. lastSeq + N
  <2>1. lastSeq + 1 \in Int /\ lastSeq + N \in Int
    BY <1>2, <1>5
  <2>2. IsFiniteSet(Slots) /\ Cardinality(Slots) = IF lastSeq + 1 > lastSeq + N THEN 0
                                                  ELSE (lastSeq + N) - (lastSeq + 1) + 1
    BY <2>1, FS_Interval
  <2>3. Cardinality(Slots) = N
    <3> HIDE DEF Slots, N
    <3> QED
      BY <2>2, <1>2, <1>5
  <2>4. at \in Injection(closing, Slots)
    BY <1>1 DEF Injection, IsInjective
  <2>5. at \in Surjection(closing, Slots)
    BY <2>2, <2>3, <2>4, FS_Injection
  <2>6. N > 0
    BY <1>1, <1>2, FS_EmptySet
  <2>7. lastSeq + N \in Slots
    BY <1>2, <1>5, <2>6
  <2> QED
    BY <2>5, <2>7 DEF Surjection
<1>7. \A r \in outbox' : r.seq <= lastSeq'
  BY <1>1, <1>2, <1>3, <1>4, <1>5
<1>8. \E r \in outbox' : r.seq = lastSeq'
  <2>1. PICK j \in closing : at[j] = lastSeq + N
    BY <1>6
  <2>2. row(j) \in outbox' /\ row(j).seq = lastSeq'
    BY <1>1, <1>3, <2>1
  <2> QED
    BY <2>2
<1>9. ASSUME NEW r \in outbox', NEW q \in outbox', r.seq = q.seq PROVE r = q
  <2>1. CASE r \in outbox /\ q \in outbox
    BY <1>9, <2>1 DEF SeqIsGlobal
  <2>2. CASE r \notin outbox /\ q \notin outbox
    <3>1. PICK j \in closing, k \in closing : r = row(j) /\ q = row(k)
      BY <1>3, <2>2
    <3>2. j = k
      BY <1>1, <1>4, <1>9, <3>1
    <3> QED
      BY <3>1, <3>2
  <2>3. CASE r \in outbox /\ q \notin outbox
    BY <1>2, <1>3, <1>4, <1>5, <1>9, <2>3
  <2>4. CASE r \notin outbox /\ q \in outbox
    BY <1>2, <1>3, <1>4, <1>5, <1>9, <2>4
  <2> QED
    BY <2>1, <2>2, <2>3, <2>4
<1> QED
  BY <1>7, <1>8, <1>9 DEF SeqIsGlobal

LEMMA NextOrder == TypeOK /\ SeqIsGlobal /\ [Next]_vars => SeqIsGlobal'
<1> SUFFICES ASSUME TypeOK, SeqIsGlobal, [Next]_vars PROVE SeqIsGlobal'
  OBVIOUS
<1>1. CASE Quiet
  BY <1>1 DEF Quiet, logVars, SeqIsGlobal
<1>2. CASE \E o \in Owners, inv \in Invocations, r \in Requests, j \in Jobs : Start(o, inv, r, j)
  BY <1>2 DEF Start, logVars, SeqIsGlobal
<1>3. CASE \E j \in Jobs, e \in Events, seq \in Numbers : \E rev : Append(j, e, seq, rev)
  BY <1>3, AppendCommits, AppendKeepsOrder
<1>4. CASE \E j \in Jobs : Cancel(j, revision[j])
  <2>1. PICK j \in Jobs : Cancel(j, revision[j])
    BY <1>4
  <2>2. /\ lastSeq + 1 \in 1..MaxSeq /\ lastSeq + 1 > lastSeq
        /\ AppendLocked(j, CancelEvent(OwnerOf(j)), lastSeq + 1)
    BY <2>1, ConstantsAssumption DEF Cancel, TypeOK
  <2> QED
    BY <2>2, AppendKeepsOrder
<1>5. CASE \E restart \in BOOLEAN, live \in SUBSET Jobs : Reconcile(restart, live)
  BY <1>5, ReconcileKeepsOrder
<1> QED
  BY <1>1, <1>2, <1>3, <1>4, <1>5, StepKinds

\* event_seq is one order over the whole outbox, which is what lets `wait`
\* answer with a single cursor for many jobs.
THEOREM SeqOrder == Spec => []SeqIsGlobal
<1>1. Init => SeqIsGlobal
  BY DEF Init, SeqIsGlobal
<1> QED
  BY <1>1, TypeCorrect, NextOrder, PTL DEF Spec

---------------------------------------------------------------------------
(* Cancellation wins over a late completion.                                *)

LEMMA NextCancelHonoured == TypeOK /\ SeqIsGlobal /\ CancelHonoured /\ [Next]_vars => CancelHonoured'
<1> SUFFICES ASSUME TypeOK, SeqIsGlobal, CancelHonoured, [Next]_vars, NEW k \in Jobs, CancelRequested(k)'
             PROVE  state'[k] \in OPEN_STATES \cup {"cancelled"}
  BY DEF CancelHonoured
<1>1. CASE Quiet
  BY <1>1 DEF Quiet, jobVars, logVars, CancelHonoured, CancelRequested, Controls
<1>2. CASE \E o \in Owners, inv \in Invocations, r \in Requests, j \in Jobs : Start(o, inv, r, j)
  <2>1. CancelRequested(k) /\ (state'[k] = state[k] \/ state'[k] = "queued")
    BY <1>2 DEF Start, logVars, CancelRequested, Controls, TypeOK
  <2> QED
    BY <2>1 DEF CancelHonoured
<1>3. CASE \E j \in Jobs, e \in Events, seq \in Numbers : \E rev : Append(j, e, seq, rev)
  <2>1. PICK j \in Jobs, e \in Events, n \in 1..MaxSeq :
           /\ AppendLocked(j, e, n) /\ e \in EventRecords /\ e.predicate # "control"
           /\ Closed(j) /\ e.state # None => e.state = state[j]
    BY <1>3, AppendCommits
  <2>2. CancelRequested(k) /\ state[k] \in OPEN_STATES \cup {"cancelled"}
    BY <2>1, AppendKeepsCancel DEF CancelHonoured
  <2>3. state'[k] = state[k] \/ (k = j /\ Recorded(j, e) # None /\ state'[k] = Recorded(j, e))
    BY <2>1 DEF AppendLocked, TypeOK
  <2>4. k = j /\ Recorded(j, e) # None => Recorded(j, e) \in OPEN_STATES \cup {"cancelled"}
    BY <2>1, <2>2 DEF Recorded, Open, Closed, EventRecords
  <2> QED
    BY <2>2, <2>3, <2>4
<1>4. CASE \E j \in Jobs : Cancel(j, revision[j])
  <2>1. PICK j \in Jobs : Cancel(j, revision[j])
    BY <1>4
  <2>2. state' = state
    BY <2>1 DEF Cancel, AppendLocked, Recorded, CancelEvent
  <2>3. CASE k = j
    BY <2>1, <2>2, <2>3 DEF Cancel, Closed, Started, TypeOK
  <2>4. CASE k # j
    BY <2>1, <2>2, <2>4, CancelAsks DEF SeqIsGlobal, CancelHonoured
  <2> QED
    BY <2>3, <2>4
<1>5. CASE \E restart \in BOOLEAN, live \in SUBSET Jobs : Reconcile(restart, live)
  <2>1. CancelRequested(k)
    BY <1>5, ReconcileKeepsCancel
  <2>2. state'[k] = state[k] \/ state'[k] = Verdict(k)
    BY <1>5 DEF Reconcile
  <2>3. Verdict(k) = "cancelled"
    BY <2>1 DEF Verdict
  <2> QED
    BY <2>1, <2>2, <2>3 DEF CancelHonoured
<1> QED
  BY <1>1, <1>2, <1>3, <1>4, <1>5, StepKinds

\* A job asked to cancel never closes as anything but cancelled, whatever its
\* producer reports afterwards and however often the process restarts.
THEOREM CancelWins == Spec => []CancelHonoured
<1>1. Init => CancelHonoured
  BY DEF Init, CancelHonoured, CancelRequested, Controls
<1> QED
  BY <1>1, TypeCorrect, SeqOrder, NextCancelHonoured, PTL DEF Spec

---------------------------------------------------------------------------
(* Closing, and the promise of JobLedger.                                   *)

\* What an append may do to the state of one job: nothing to a closed job, and
\* only "cancelled" as the end of a job that was asked to cancel.
LEMMA AppendMoves ==
    ASSUME TypeOK, NEW j \in Jobs, NEW e \in Events, NEW seq \in Numbers, NEW rev, Append(j, e, seq, rev),
           NEW k \in Jobs
    PROVE  /\ Closed(k) => state'[k] = state[k]
           /\ state'[k] = "absent" <=> state[k] = "absent"
           /\ Open(k) /\ CancelRequested(k) => state'[k] \in OPEN_STATES \cup {"cancelled"}
           /\ CancelRequested(k)' <=> CancelRequested(k)
<1>1. PICK n \in 1..MaxSeq :
         /\ AppendLocked(j, e, n) /\ j \in Started /\ e \in EventRecords /\ e.predicate # "control"
         /\ Closed(j) /\ e.state # None => e.state = state[j]
  BY AppendCommits
<1>2. CancelRequested(k)' <=> CancelRequested(k)
  BY <1>1, AppendKeepsCancel
<1>3. state'[k] = state[k] \/ (k = j /\ Recorded(j, e) # None /\ state'[k] = Recorded(j, e))
  BY <1>1 DEF AppendLocked, TypeOK
<1>4. Recorded(j, e) # None => Recorded(j, e) \in JOB_STATES
  BY <1>1, RecordedTyped
<1>5. Closed(j) /\ Recorded(j, e) # None => Recorded(j, e) = state[j]
  BY <1>1 DEF Recorded, Open, Closed
<1>6. Open(j) /\ CancelRequested(j) /\ Recorded(j, e) # None => Recorded(j, e) \in OPEN_STATES \cup {"cancelled"}
  BY <1>1 DEF Recorded, EventRecords
<1>7. state[j] # "absent"
  BY <1>1 DEF TypeOK, Started
<1> QED
  BY <1>2, <1>3, <1>4, <1>5, <1>6, <1>7 DEF Open, Closed

LEMMA NextClosedIsFinal ==
    TypeOK /\ [Next]_vars =>
        [/\ \A j \in Jobs : Closed(j) => state'[j] = state[j]
         /\ outbox \subseteq outbox' /\ delivered \subseteq delivered']_vars
<1> SUFFICES ASSUME TypeOK, [Next]_vars
             PROVE  /\ \A j \in Jobs : Closed(j) => state'[j] = state[j]
                    /\ outbox \subseteq outbox' /\ delivered \subseteq delivered'
  OBVIOUS
<1>1. \A k \in Jobs : Closed(k) => state'[k] = state[k]
  <2> TAKE k \in Jobs
  <2> HAVE Closed(k)
  <2>1. CASE Quiet
    BY <2>1 DEF Quiet, jobVars
  <2>2. CASE \E o \in Owners, inv \in Invocations, r \in Requests, j \in Jobs : Start(o, inv, r, j)
    BY <2>2 DEF Start, Started, TypeOK, Closed
  <2>3. CASE \E j \in Jobs, e \in Events, seq \in Numbers : \E rev : Append(j, e, seq, rev)
    BY <2>3, AppendMoves
  <2>4. CASE \E j \in Jobs : Cancel(j, revision[j])
    BY <2>4 DEF Cancel, AppendLocked, Recorded, CancelEvent
  <2>5. CASE \E restart \in BOOLEAN, live \in SUBSET Jobs : Reconcile(restart, live)
    BY <2>5 DEF Reconcile, Open, Closed
  <2> QED
    BY <2>1, <2>2, <2>3, <2>4, <2>5, StepKinds
<1>2. outbox \subseteq outbox'
  BY StepKinds DEF Quiet, logVars, Start, Append, Cancel, AppendLocked, Reconcile
<1>3. delivered \subseteq delivered'
  BY DEF Next, vars, wakeVars, Start, Append, Cancel, Subscribe, Wait, WaitUnscoped, Consume,
         AcquireWake, ReleaseWake, ExpireWake, Reconcile, CloseChild
<1> QED
  BY <1>1, <1>2, <1>3

\* Nothing rewrites the history of a closed job.
THEOREM ClosedStaysClosed == Spec => ClosedIsFinal
BY TypeCorrect, NextClosedIsFinal, PTL DEF Spec, ClosedIsFinal

\* The foreign key of the outbox: every row belongs to a job that was started.
RowsHaveJobs == \A r \in outbox : admission[r.job] # None

LEMMA NextRowsHaveJobs == TypeOK /\ RowsHaveJobs /\ [Next]_vars => RowsHaveJobs'
<1> SUFFICES ASSUME TypeOK, RowsHaveJobs, [Next]_vars PROVE RowsHaveJobs'
  OBVIOUS
<1>1. CASE Quiet
  BY <1>1 DEF Quiet, jobVars, logVars, RowsHaveJobs
<1>2. CASE \E o \in Owners, inv \in Invocations, r \in Requests, j \in Jobs : Start(o, inv, r, j)
  <2>1. PICK o \in Owners, inv \in Invocations, r \in Requests, j \in Jobs : Start(o, inv, r, j)
    BY <1>2
  <2>2. [owner |-> o, invocation |-> inv, request |-> r] \in Admissions
    BY ConstantsAssumption DEF Admissions
  <2>3. [owner |-> o, invocation |-> inv, request |-> r] # None
    BY <2>2, ConstantsAssumption
  <2>4. outbox' = outbox /\ admission' = [admission EXCEPT ![j] = [owner |-> o, invocation |-> inv, request |-> r]]
    BY <2>1 DEF Start, logVars
  <2> QED
    BY <2>3, <2>4 DEF RowsHaveJobs, TypeOK, Rows
<1>3. CASE \E j \in Jobs, e \in Events, seq \in Numbers : \E rev : Append(j, e, seq, rev)
  BY <1>3 DEF Append, AppendLocked, RowsHaveJobs, Started
<1>4. CASE \E j \in Jobs : Cancel(j, revision[j])
  BY <1>4 DEF Cancel, AppendLocked, RowsHaveJobs, Started
<1>5. CASE \E restart \in BOOLEAN, live \in SUBSET Jobs : Reconcile(restart, live)
  BY <1>5 DEF Reconcile, RowsHaveJobs, Started
<1> QED
  BY <1>1, <1>2, <1>3, <1>4, <1>5, StepKinds

LEMMA RowsOfJobs == Spec => []RowsHaveJobs
<1>1. Init => RowsHaveJobs
  BY DEF Init, RowsHaveJobs
<1> QED
  BY <1>1, TypeCorrect, NextRowsHaveJobs, PTL DEF Spec

\* A move of one job's status is a move of JobLedger.
LEMMA StatusMoves ==
    ASSUME TypeOK, SeqIsGlobal, RowsHaveJobs, [Next]_vars, NEW k \in Jobs
    PROVE  Status(k)' = Status(k) \/ <<Status(k), Status(k)'>> \in Ledger!Moves
<1> USE DEF Ledger!Moves, Ledger!Final, Status, Open, Closed
<1>1. CASE Quiet
  <2>1. state' = state /\ (CancelRequested(k)' <=> CancelRequested(k))
    BY <1>1 DEF Quiet, jobVars, logVars, CancelRequested, Controls
  <2> QED
    BY <2>1
<1>2. CASE \E o \in Owners, inv \in Invocations, r \in Requests, j \in Jobs : Start(o, inv, r, j)
  <2>1. CancelRequested(k)' <=> CancelRequested(k)
    BY <1>2 DEF Start, logVars, CancelRequested, Controls
  <2>2. PICK j \in Jobs : j \notin Started /\ state[j] = "absent" /\ state' = [state EXCEPT ![j] = "queued"]
    BY <1>2 DEF Start, Started, TypeOK
  <2>3. CASE k # j
    <3>1. state'[k] = state[k]
      BY <2>2, <2>3 DEF TypeOK
    <3> QED
      BY <2>1, <3>1
  <2>4. CASE k = j
    <3>1. ~CancelRequested(k)
      BY <2>2, <2>4 DEF CancelRequested, Controls, RowsHaveJobs, Started
    <3>2. state[k] = "absent" /\ state'[k] = "queued"
      BY <2>2, <2>4 DEF TypeOK
    <3> QED
      BY <2>1, <3>1, <3>2
  <2> QED
    BY <2>3, <2>4
<1>3. CASE \E j \in Jobs, e \in Events, seq \in Numbers : \E rev : Append(j, e, seq, rev)
  <2>1. /\ state[k] \in CLOSED_STATES => state'[k] = state[k]
        /\ state'[k] = "absent" <=> state[k] = "absent"
        /\ state[k] \in OPEN_STATES /\ CancelRequested(k) => state'[k] \in OPEN_STATES \cup {"cancelled"}
        /\ CancelRequested(k)' <=> CancelRequested(k)
    BY <1>3, AppendMoves
  <2>2. state[k] \in JOB_STATES \cup {"absent"} /\ state'[k] \in JOB_STATES \cup {"absent"}
    BY NextTypeOK DEF TypeOK
  <2> QED
    BY <2>1, <2>2
<1>4. CASE \E j \in Jobs : Cancel(j, revision[j])
  <2>1. PICK j \in Jobs : Cancel(j, revision[j])
    BY <1>4
  <2>2. state' = state
    BY <2>1 DEF Cancel, AppendLocked, Recorded, CancelEvent
  <2>3. CASE k = j
    <3>1. CancelRequested(k)' /\ ~CancelRequested(k) /\ state[k] \in OPEN_STATES
      BY <2>1, <2>3, CancelAsks DEF SeqIsGlobal, Cancel, Started, TypeOK
    <3> QED
      BY <2>2, <3>1
  <2>4. CASE k # j
    <3>1. CancelRequested(k)' <=> CancelRequested(k)
      BY <2>1, <2>4, CancelAsks DEF SeqIsGlobal
    <3> QED
      BY <2>2, <3>1
  <2> QED
    BY <2>3, <2>4
<1>5. CASE \E restart \in BOOLEAN, live \in SUBSET Jobs : Reconcile(restart, live)
  <2>1. CancelRequested(k)' <=> CancelRequested(k)
    BY <1>5, ReconcileKeepsCancel
  <2>2. state'[k] = state[k] \/ (state[k] \in OPEN_STATES /\ state'[k] = Verdict(k))
    BY <1>5 DEF Reconcile
  <2>3. Verdict(k) \in {"cancelled", "interrupted", "unknown"} /\ (CancelRequested(k) => Verdict(k) = "cancelled")
    BY VerdictTyped DEF Verdict
  <2> QED
    BY <2>1, <2>2, <2>3
<1> QED
  BY <1>1, <1>2, <1>3, <1>4, <1>5, StepKinds

LEMMA NextImplementsLedger ==
    TypeOK /\ TypeOK' /\ SeqIsGlobal /\ RowsHaveJobs /\ [Next]_vars => [Ledger!Next]_StatusOfJobs
<1> SUFFICES ASSUME TypeOK, TypeOK', SeqIsGlobal, RowsHaveJobs, [Next]_vars
             PROVE  Ledger!Next
  OBVIOUS
<1>1. \A k \in Jobs : StatusOfJobs[k] = Status(k) /\ StatusOfJobs'[k] = Status(k)'
  BY DEF StatusOfJobs
<1>2. StatusOfJobs' \in [Jobs -> Ledger!Statuses]
  <2>1. \A k \in Jobs : Status(k)' \in Ledger!Statuses
    BY DEF Status, Ledger!Statuses, Ledger!Final, TypeOK, Open, Closed
  <2> QED
    BY <2>1 DEF StatusOfJobs
<1>3. \A k \in Jobs : \/ StatusOfJobs'[k] = StatusOfJobs[k]
                      \/ <<StatusOfJobs[k], StatusOfJobs'[k]>> \in Ledger!Moves
  BY <1>1, StatusMoves
<1> QED
  BY <1>2, <1>3 DEF Ledger!Next

\* The detailed ledger implements JobLedger: readers of the jobs never see a
\* cancelled job revive, a closed one move, or a job closed twice.
THEOREM LedgerImplemented == Spec => LedgerSpec
<1>1. Init => Ledger!Init
  <2> SUFFICES ASSUME Init PROVE StatusOfJobs = [j \in Jobs |-> "absent"]
    BY DEF Ledger!Init
  <2>1. \A j \in Jobs : Status(j) = "absent"
    BY DEF Init, Status, Open, Closed
  <2> QED
    BY <2>1 DEF StatusOfJobs
<1>2. TypeOK /\ [Next]_vars => TypeOK'
  BY NextTypeOK
<1> QED
  BY <1>1, <1>2, TypeCorrect, SeqOrder, RowsOfJobs, NextImplementsLedger, PTL DEF Spec, LedgerSpec, Ledger!Spec

---------------------------------------------------------------------------
(* Delivery: no wake twice, and none skipped when the cursor decides.       *)

At(r) == cursor[r.event.consumer][r.job]

\* What was delivered is in the log's past and behind its consumer's cursor.
DeliveredBehind ==
    /\ \A n \in delivered : n <= lastSeq
    /\ \A r \in outbox : r.seq \in delivered => r.seq <= At(r)

\* Rows are records whose fields are numbers, consumers and jobs.
LEMMA RowFields ==
    ASSUME TypeOK, NEW r \in outbox
    PROVE  /\ r.seq \in 1..MaxSeq /\ r.seq \in Int /\ r.job \in Jobs
           /\ r.event \in EventRecords /\ r.event.consumer \in Consumers
           /\ At(r) \in NoCursor..MaxSeq /\ At(r) \in Int
BY ConstantsAssumption DEF TypeOK, Rows, EventRecords, At, NoCursor

\* The steps that leave cursors and deliveries alone only add rows past the end.
LEMMA WriteKinds ==
    ASSUME TypeOK, [Next]_vars
    PROVE  \/ /\ UNCHANGED wakeVars
              /\ \A r \in outbox' \ outbox : r.seq > lastSeq
              /\ lastSeq' >= lastSeq
           \/ /\ UNCHANGED <<outbox, lastSeq>>
              /\ \/ \E c \in Consumers, j \in Jobs, after \in Afters : Subscribe(c, j, after)
                 \/ \E cs \in SUBSET Consumers, ids \in SUBSET Jobs, after \in Afters : Consume(cs, ids, after)
<1> DEFINE Grows == /\ UNCHANGED wakeVars
                    /\ \A r \in outbox' \ outbox : r.seq > lastSeq
                    /\ lastSeq' >= lastSeq
<1>0. lastSeq \in Int
  BY ConstantsAssumption DEF TypeOK
<1>1. CASE \E o \in Owners, inv \in Invocations, r \in Requests, j \in Jobs : Start(o, inv, r, j)
  BY <1>0, <1>1 DEF Start, logVars
<1>2. CASE \E j \in Jobs, e \in Events, seq \in Numbers : \E rev \in Expectations(j) : Append(j, e, seq, rev)
  <2>1. UNCHANGED wakeVars
    BY <1>2 DEF Append
  <2>3. PICK j \in Jobs, e \in Events, seq \in Numbers : \E rev \in Expectations(j) : Append(j, e, seq, rev)
    BY <1>2
  <2>2. PICK n \in 1..MaxSeq : n > lastSeq /\ AppendLocked(j, e, n)
    BY <2>3, AppendCommits
  <2> QED
    BY <1>0, <2>1, <2>2 DEF AppendLocked
<1>3. CASE \E j \in Jobs : Cancel(j, revision[j])
  BY <1>0, <1>3 DEF Cancel, AppendLocked
<1>4. CASE \E restart \in BOOLEAN, live \in SUBSET Jobs : Reconcile(restart, live)
  <2>1. PICK restart \in BOOLEAN, live \in SUBSET Jobs : Reconcile(restart, live)
    BY <1>4
  <2> DEFINE closing == {j \in Started : Open(j) /\ ~Confirmed(j, restart, live)}
             N == Cardinality(closing)
  <2>2. N \in Nat
    BY ConstantsAssumption, FS_Subset, FS_CardinalityType DEF Started
  <2>3. PICK at \in [closing -> lastSeq + 1 .. lastSeq + N] :
           /\ outbox' = outbox \cup {[job |-> j, seq |-> at[j], event |-> ReconcileEvent(j),
                                      state |-> Verdict(j)] : j \in closing}
           /\ lastSeq' = lastSeq + N
           /\ UNCHANGED wakeVars
    BY <2>1 DEF Reconcile
  <2>4. \A r \in outbox' \ outbox : r.seq > lastSeq
    BY <1>0, <2>2, <2>3
  <2> QED
    BY <1>0, <2>2, <2>3, <2>4
<1>5. CASE \E o \in Owners, t \in Tokens : AcquireWake(o, t) \/ ReleaseWake(o, t)
  BY <1>0, <1>5 DEF AcquireWake, ReleaseWake, logVars
<1>6. CASE \E o \in Owners : ExpireWake(o)
  BY <1>0, <1>6 DEF ExpireWake, logVars
<1>7. CASE \E j \in Jobs : CloseChild(j)
  BY <1>0, <1>7 DEF CloseChild, logVars
<1>8. CASE UNCHANGED vars
  BY <1>0, <1>8 DEF vars, logVars
<1>9. CASE \E c \in Consumers, j \in Jobs, after \in Afters : Subscribe(c, j, after)
  BY <1>9 DEF Subscribe, logVars
<1>10. CASE \E o \in Owners, t \in Tokens, ids \in SUBSET Jobs, after \in Afters : Wait(o, t, ids, after)
  BY <1>10, ConstantsAssumption DEF Wait, logVars
<1>11. CASE \E ids \in SUBSET Jobs, after \in Afters : WaitUnscoped(ids, after)
  BY <1>11 DEF WaitUnscoped, logVars
<1> QED
  BY <1>1, <1>2, <1>3, <1>4, <1>5, <1>6, <1>7, <1>8, <1>9, <1>10, <1>11 DEF Next

\* A cursor only moves forward, and past every row that was read under it.
LEMMA CursorForward ==
    ASSUME TypeOK, NEW cs \in SUBSET Consumers, NEW ids \in SUBSET Jobs, NEW after \in Afters,
           Consume(cs, ids, after), NEW r \in outbox
    PROVE  LET next == cursor'[r.event.consumer][r.job]
           IN  /\ next \in Int /\ At(r) <= next
               /\ r \in Observed(cs, ids, after) => r.seq <= next
               /\ next # At(r) => r.job \in ids /\ r.event.consumer \in cs
<1> DEFINE c == r.event.consumer
           j == r.job
           seen == {q \in Observed(cs, ids, after) : q.job = j /\ q.event.consumer = c}
<1>1. c \in Consumers /\ j \in Jobs /\ At(r) \in Int /\ r.seq \in Int
  BY RowFields
<1>2. /\ seen = {} => cursor'[c][j] = cursor[c][j]
      /\ seen # {} => /\ cursor'[c][j] \in 1..MaxSeq
                      /\ \E q \in seen : q.seq = cursor'[c][j]
                      /\ \A q \in seen : q.seq <= cursor'[c][j]
  BY <1>1, ConsumeCursor
<1>3. CASE seen = {}
  BY <1>1, <1>2, <1>3 DEF At
<1>4. CASE seen # {}
  <2>1. PICK q \in seen : q.seq = cursor'[c][j]
    BY <1>2, <1>4
  <2>2. q \in outbox /\ q.seq > cursor[c][j] /\ j \in ids /\ c \in cs
    BY <2>1 DEF Observed
  <2>3. q.seq \in Int
    BY <2>2, RowFields
  <2> QED
    BY <1>1, <1>2, <1>4, <2>1, <2>2, <2>3 DEF At
<1> QED
  BY <1>3, <1>4

LEMMA SubscribeForward ==
    ASSUME TypeOK, NEW c \in Consumers, NEW j \in Jobs, NEW after \in Afters, Subscribe(c, j, after),
           NEW r \in outbox
    PROVE  LET next == cursor'[r.event.consumer][r.job]
           IN  next \in Int /\ At(r) <= next /\ (next = At(r) \/ next = after)
<1>1. after \in Int /\ At(r) \in Int
  BY RowFields, ConstantsAssumption
<1> QED
  BY <1>1 DEF Subscribe, AdvanceTo, At, TypeOK

LEMMA NextDeliveredBehind ==
    TypeOK /\ SeqIsGlobal /\ DeliveredBehind /\ [Next]_vars => DeliveredBehind'
<1> SUFFICES ASSUME TypeOK, SeqIsGlobal, DeliveredBehind, [Next]_vars PROVE DeliveredBehind'
  OBVIOUS
<1>0. /\ lastSeq \in Int /\ delivered \subseteq Int
      /\ \A r \in outbox : r.seq \in Int /\ At(r) \in Int /\ r.seq <= lastSeq
  BY RowFields, ConstantsAssumption DEF TypeOK, SeqIsGlobal
<1>1. CASE /\ UNCHANGED wakeVars
           /\ \A r \in outbox' \ outbox : r.seq > lastSeq
           /\ lastSeq' >= lastSeq
  <2>1. lastSeq' \in Int
    BY NextTypeOK, ConstantsAssumption DEF TypeOK
  <2>2. \A n \in delivered' : n <= lastSeq'
    BY <1>0, <1>1, <2>1 DEF DeliveredBehind, wakeVars
  <2>3. ASSUME NEW r \in outbox', r.seq \in delivered' PROVE r.seq <= At(r)'
    <3>0. r.seq \in delivered /\ r.seq \in Int /\ r.seq <= lastSeq
      BY <1>0, <1>1, <2>3 DEF DeliveredBehind, wakeVars
    <3>1. r \in outbox
      BY <1>0, <1>1, <3>0
    <3> QED
      BY <1>1, <2>3, <3>1 DEF DeliveredBehind, wakeVars, At
  <2> QED
    BY <2>2, <2>3 DEF DeliveredBehind
<1>2. CASE /\ UNCHANGED <<outbox, lastSeq>>
           /\ \E c \in Consumers, j \in Jobs, after \in Afters : Subscribe(c, j, after)
  <2>1. UNCHANGED <<outbox, lastSeq, delivered>>
    BY <1>2 DEF Subscribe
  <2>2. ASSUME NEW r \in outbox, r.seq \in delivered PROVE r.seq <= At(r)'
    BY <1>0, <1>2, <2>2, SubscribeForward DEF DeliveredBehind, At
  <2> QED
    BY <2>1, <2>2 DEF DeliveredBehind, At
<1>3. CASE /\ UNCHANGED <<outbox, lastSeq>>
           /\ \E cs \in SUBSET Consumers, ids \in SUBSET Jobs, after \in Afters : Consume(cs, ids, after)
  <2>1. PICK cs \in SUBSET Consumers, ids \in SUBSET Jobs, after \in Afters : Consume(cs, ids, after)
    BY <1>3
  <2>2. delivered' = delivered \cup {r.seq : r \in WakeRows(cs, ids, after)}
    BY <2>1 DEF Consume
  <2>3. WakeRows(cs, ids, after) \subseteq Observed(cs, ids, after) /\ Observed(cs, ids, after) \subseteq outbox
    BY DEF WakeRows, Observed
  <2>4. ASSUME NEW r \in outbox, r.seq \in delivered' PROVE r.seq <= At(r)'
    <3>1. At(r)' \in Int /\ At(r) <= At(r)' /\ (r \in Observed(cs, ids, after) => r.seq <= At(r)')
      BY <2>1, CursorForward DEF At
    <3>2. CASE r.seq \in delivered
      BY <1>0, <3>1, <3>2 DEF DeliveredBehind
    <3>3. CASE r.seq \notin delivered
      <4>1. PICK q \in WakeRows(cs, ids, after) : q.seq = r.seq
        BY <2>2, <2>4, <3>3
      <4>2. q = r
        BY <2>3, <4>1 DEF SeqIsGlobal
      <4> QED
        BY <2>3, <3>1, <4>2
    <3> QED
      BY <3>2, <3>3
  <2>5. \A n \in delivered' : n <= lastSeq
    BY <1>0, <2>2, <2>3 DEF DeliveredBehind
  <2> QED
    BY <1>3, <2>4, <2>5 DEF DeliveredBehind, At
<1> QED
  BY <1>1, <1>2, <1>3, WriteKinds

LEMMA BehindNotRead == TypeOK /\ DeliveredBehind => NeverRedelivered
<1> SUFFICES ASSUME TypeOK, DeliveredBehind, NEW after \in 0..MaxSeq, NEW c \in Consumers,
                    NEW r \in Wakes({c}, Jobs, after)
             PROVE  r.seq \notin delivered
  BY DEF NeverRedelivered
<1>1. r \in outbox /\ r.seq > At(r)
  BY DEF Wakes, WakeRows, Observed, At
<1> QED
  BY <1>1, RowFields DEF DeliveredBehind

\* A wake is returned by one wait at most, whatever after_seq callers present
\* and however their waits and subscriptions interleave.
THEOREM DeliveredOnce == Spec => []NeverRedelivered
<1>1. Init => DeliveredBehind
  BY DEF Init, DeliveredBehind
<1> QED
  BY <1>1, TypeCorrect, SeqOrder, NextDeliveredBehind, BehindNotRead, PTL DEF Spec

\* No cursor is ahead of the log.
CursorBehind == \A c \in Consumers, j \in Jobs : cursor[c][j] <= lastSeq

LEMMA NextCursorBehind ==
    ASSUME Afters \subseteq {0}, TypeOK, SeqIsGlobal, CursorBehind, [Next]_vars
    PROVE  CursorBehind'
<1>0. /\ lastSeq \in 0..MaxSeq /\ lastSeq \in Int /\ lastSeq' \in Int
      /\ \A c \in Consumers, j \in Jobs : cursor[c][j] \in Int
  BY NextTypeOK, ConstantsAssumption DEF TypeOK, NoCursor
<1> SUFFICES ASSUME NEW c \in Consumers, NEW j \in Jobs PROVE cursor'[c][j] <= lastSeq'
  BY DEF CursorBehind
<1>1. CASE UNCHANGED wakeVars /\ lastSeq' >= lastSeq
  BY <1>0, <1>1 DEF CursorBehind, wakeVars
<1>2. CASE /\ UNCHANGED <<outbox, lastSeq>>
           /\ \E d \in Consumers, k \in Jobs, after \in Afters : Subscribe(d, k, after)
  <2>1. cursor'[c][j] = cursor[c][j] \/ cursor'[c][j] = 0
    BY <1>2 DEF Subscribe, AdvanceTo, TypeOK
  <2> QED
    BY <1>0, <1>2, <2>1 DEF CursorBehind
<1>3. CASE /\ UNCHANGED <<outbox, lastSeq>>
           /\ \E cs \in SUBSET Consumers, ids \in SUBSET Jobs, after \in Afters : Consume(cs, ids, after)
  <2>1. PICK cs \in SUBSET Consumers, ids \in SUBSET Jobs, after \in Afters : Consume(cs, ids, after)
    BY <1>3
  <2> DEFINE seen == {r \in Observed(cs, ids, after) : r.job = j /\ r.event.consumer = c}
  <2>4. /\ seen = {} => cursor'[c][j] = cursor[c][j]
        /\ seen # {} => /\ cursor'[c][j] \in 1..MaxSeq
                        /\ \E r \in seen : r.seq = cursor'[c][j]
                        /\ \A r \in seen : r.seq <= cursor'[c][j]
    BY <2>1, ConsumeCursor
  <2>2. \/ cursor'[c][j] = cursor[c][j]
        \/ \E r \in seen : r.seq = cursor'[c][j]
    BY <2>4
  <2>3. \A r \in seen : r.seq <= lastSeq
    BY DEF Observed, SeqIsGlobal
  <2> QED
    BY <1>0, <1>3, <2>2, <2>3 DEF CursorBehind
<1> QED
  BY <1>1, <1>2, <1>3, WriteKinds

LEMMA NextNoWakeSkipped ==
    ASSUME Afters \subseteq {0}, TypeOK, CursorBehind, NoWakeSkipped, [Next]_vars
    PROVE  NoWakeSkipped'
<1>0. /\ lastSeq \in Int
      /\ \A r \in outbox : r.seq \in 1..MaxSeq /\ r.seq \in Int /\ At(r) \in Int
                         /\ r.job \in Jobs /\ r.event.consumer \in Consumers
  BY RowFields, ConstantsAssumption DEF TypeOK
<1>1. CASE /\ UNCHANGED wakeVars
           /\ \A r \in outbox' \ outbox : r.seq > lastSeq
           /\ lastSeq' >= lastSeq
  <2> SUFFICES ASSUME NEW r \in outbox', ShouldWake(r.event), r.seq <= At(r) PROVE r.seq \in delivered
    BY <1>1 DEF NoWakeSkipped, wakeVars, At
  <2>1. TypeOK'
    BY NextTypeOK
  <2>2. r.seq \in Int /\ r.job \in Jobs /\ r.event.consumer \in Consumers
    BY <2>1, ConstantsAssumption DEF TypeOK, Rows, EventRecords
  <2>3. At(r) <= lastSeq /\ At(r) \in Int
    BY <2>2, ConstantsAssumption DEF CursorBehind, At, TypeOK, NoCursor
  <2>4. r \in outbox
    BY <1>0, <1>1, <2>2, <2>3
  <2> QED
    BY <2>4 DEF NoWakeSkipped, At
<1>2. CASE /\ UNCHANGED <<outbox, lastSeq>>
           /\ \E c \in Consumers, j \in Jobs, after \in Afters : Subscribe(c, j, after)
  <2>1. UNCHANGED <<outbox, delivered>>
    BY <1>2 DEF Subscribe
  <2>2. ASSUME NEW r \in outbox PROVE At(r)' = At(r) \/ At(r)' = 0
    BY <1>2, SubscribeForward DEF At
  <2> QED
    BY <1>0, <2>1, <2>2 DEF NoWakeSkipped, At
<1>3. CASE /\ UNCHANGED <<outbox, lastSeq>>
           /\ \E cs \in SUBSET Consumers, ids \in SUBSET Jobs, after \in Afters : Consume(cs, ids, after)
  <2>1. PICK cs \in SUBSET Consumers, ids \in SUBSET Jobs, after \in Afters : Consume(cs, ids, after)
    BY <1>3
  <2>2. delivered' = delivered \cup {r.seq : r \in WakeRows(cs, ids, after)}
    BY <2>1 DEF Consume
  <2> SUFFICES ASSUME NEW r \in outbox, ShouldWake(r.event), r.seq <= At(r)' PROVE r.seq \in delivered'
    BY <1>3 DEF NoWakeSkipped, At
  <2>3. CASE r.seq <= At(r)
    BY <2>2, <2>3 DEF NoWakeSkipped, At
  <2>4. CASE ~(r.seq <= At(r))
    <3>1. r.job \in ids /\ r.event.consumer \in cs
      BY <2>1, <2>4, CursorForward DEF At
    <3>4. r.seq \in 1..MaxSeq /\ r.seq \in Int /\ At(r) \in Int
      BY <1>0
    <3>5. r.seq > 0
      BY <3>4, ConstantsAssumption
    <3>6. r.seq > At(r)
      BY <3>4, <2>4
    <3>2. after = 0 /\ r.seq > 0 /\ r.seq > At(r)
      BY <3>5, <3>6
    <3>3. r \in Observed(cs, ids, after)
      BY <3>1, <3>2 DEF Observed, At
    <3> QED
      BY <2>2, <3>3 DEF WakeRows
  <2> QED
    BY <2>3, <2>4
<1> QED
  BY <1>1, <1>2, <1>3, WriteKinds

\* When the stored cursors alone decide where reads start, no result, blocker
\* or subscription event of a job is passed by unread.
THEOREM NothingSkipped ==
    ASSUME Afters \subseteq {0}
    PROVE  Spec => []NoWakeSkipped
<1>1. Init => CursorBehind /\ NoWakeSkipped
  BY ConstantsAssumption DEF Init, CursorBehind, NoWakeSkipped, NoCursor
<1>2. TypeOK /\ SeqIsGlobal /\ CursorBehind /\ NoWakeSkipped /\ [Next]_vars => CursorBehind' /\ NoWakeSkipped'
  BY NextCursorBehind, NextNoWakeSkipped
<1> QED
  BY <1>1, <1>2, TypeCorrect, SeqOrder, PTL DEF Spec

---------------------------------------------------------------------------
(* Admission: one job for an invocation, one open job for an alias.         *)

\* Only start writes an admission, and no step opens a job that is closed.
LEMMA AdmissionKinds ==
    ASSUME TypeOK, [Next]_vars
    PROVE  \/ \E o \in Owners, inv \in Invocations, r \in Requests, j \in Jobs : Start(o, inv, r, j)
           \/ /\ admission' = admission
              /\ \A k \in Jobs : Closed(k) => state'[k] = state[k]
<1>1. \A k \in Jobs : Closed(k) => state'[k] = state[k]
  BY NextClosedIsFinal DEF vars, jobVars
<1> QED
  BY <1>1 DEF Next, vars, jobVars, Append, Cancel, Reconcile, Subscribe, Wait, WaitUnscoped,
              AcquireWake, ReleaseWake, ExpireWake, CloseChild

LEMMA NextOneJob == TypeOK /\ OneJobPerInvocation /\ [Next]_vars => OneJobPerInvocation'
<1> SUFFICES ASSUME TypeOK, OneJobPerInvocation, [Next]_vars PROVE OneJobPerInvocation'
  OBVIOUS
<1>1. CASE admission' = admission
  BY <1>1 DEF OneJobPerInvocation, Started
<1>2. CASE \E o \in Owners, inv \in Invocations, r \in Requests, j \in Jobs : Start(o, inv, r, j)
  <2>1. PICK o \in Owners, inv \in Invocations, r \in Requests, j \in Jobs : Start(o, inv, r, j)
    BY <1>2
  <2>2. /\ \A k \in Jobs \ {j} : admission'[k] = admission[k]
        /\ admission'[j] = [owner |-> o, invocation |-> inv, request |-> r]
        /\ Started' \subseteq Started \cup {j}
    BY <2>1 DEF Start, TypeOK, Started
  <2>3. \A k \in Started : ~(admission[k].owner = o /\ admission[k].invocation = inv)
    BY <2>1 DEF Start, Invoked
  <2> QED
    BY <2>2, <2>3 DEF OneJobPerInvocation, Started
<1> QED
  BY <1>1, <1>2, AdmissionKinds

\* A start that is repeated, with its answer lost or its job long closed, never
\* admits a second job.
THEOREM StartedOnce == Spec => []OneJobPerInvocation
<1>1. Init => OneJobPerInvocation
  BY DEF Init, OneJobPerInvocation, Started
<1> QED
  BY <1>1, TypeCorrect, NextOneJob, PTL DEF Spec

LEMMA NextAliasUnique == TypeOK /\ AliasUnique /\ [Next]_vars => AliasUnique'
<1> SUFFICES ASSUME TypeOK, AliasUnique, [Next]_vars PROVE AliasUnique'
  OBVIOUS
<1> DEFINE Holds(k) == k \in Started /\ Open(k) /\ admission[k].request.taskKey # None
<1>1. CASE admission' = admission /\ \A k \in Jobs : Closed(k) => state'[k] = state[k]
  <2>1. \A k \in Started : Open(k) \/ Closed(k)
    BY DEF Started, Open, Closed, JOB_STATES, TypeOK
  <2>2. \A k \in Started : Open(k)' => Open(k)
    BY <1>1, <2>1 DEF Open, Closed, OPEN_STATES, CLOSED_STATES, Started
  <2> QED
    BY <1>1, <2>2 DEF AliasUnique, Started, OwnerOf
<1>2. CASE \E o \in Owners, inv \in Invocations, r \in Requests, j \in Jobs : Start(o, inv, r, j)
  <2>1. PICK o \in Owners, inv \in Invocations, r \in Requests, j \in Jobs : Start(o, inv, r, j)
    BY <1>2
  <2>2. /\ \A k \in Jobs \ {j} : admission'[k] = admission[k] /\ state'[k] = state[k]
        /\ admission'[j] = [owner |-> o, invocation |-> inv, request |-> r]
        /\ Started' \subseteq Started \cup {j}
    BY <2>1 DEF Start, TypeOK, Started
  <2>3. AliasFree(o, r)
    BY <2>1 DEF Start
  <2>4. \A k \in Started : r.taskKey # None =>
            ~(admission[k].owner = o /\ admission[k].request.taskKey = r.taskKey /\ Open(k))
    BY <2>3 DEF AliasFree, OwnerOf
  <2>5. \A k \in Jobs \ {j} : (Open(k)' <=> Open(k)) /\ (k \in Started' <=> k \in Started)
    BY <2>2 DEF Open, Started
  <2> QED
    BY <2>2, <2>4, <2>5 DEF AliasUnique, OwnerOf, Started
<1> QED
  BY <1>1, <1>2, AdmissionKinds

\* A task alias names at most one open job of its owner.
THEOREM AliasHeldOnce == Spec => []AliasUnique
<1>1. Init => AliasUnique
  BY DEF Init, AliasUnique, Started
<1> QED
  BY <1>1, TypeCorrect, NextAliasUnique, PTL DEF Spec

---------------------------------------------------------------------------
(* The log explains the jobs.                                               *)

RowsOf(j) == {r \in outbox : r.job = j}
ToldBy(j) == {r \in RowsOf(j) : r.state # None}

\* LogExplainsState for one job.
Explained(j) ==
    /\ ToldBy(j) = {} => state[j] = "queued"
    /\ \A r \in ToldBy(j) : (\A q \in ToldBy(j) : q.seq <= r.seq) => state[j] = r.state
    /\ revision[j] = 1 + Cardinality(RowsOf(j))
    /\ epoch[j] = IF CancelRequested(j) THEN 2 ELSE 1

LEMMA ExplainedIs == LogExplainsState <=> \A j \in Started : Explained(j)
BY DEF LogExplainsState, Explained, RowsOf, ToldBy

LEMMA ExplainedNext == LogExplainsState' <=> \A j \in Started' : Explained(j)'
BY DEF LogExplainsState, Explained, RowsOf, ToldBy

LEMMA OthersExplained ==
    ASSUME NEW k, Explained(k), RowsOf(k)' = RowsOf(k), state'[k] = state[k], revision'[k] = revision[k],
           epoch'[k] = epoch[k], CancelRequested(k)' <=> CancelRequested(k)
    PROVE  Explained(k)'
<1>1. ToldBy(k)' = ToldBy(k)
  BY DEF ToldBy
<1> QED
  BY <1>1 DEF Explained

\* A row past the end of the log is the newest of its job.
LEMMA NewRowExplains ==
    ASSUME TypeOK, SeqIsGlobal, IsFiniteSet(outbox), NEW j, Explained(j), NEW row, row.job = j,
           row.seq \in Nat, row.seq > lastSeq,
           RowsOf(j)' = RowsOf(j) \cup {row}, revision'[j] = revision[j] + 1,
           state'[j] = IF row.state = None THEN state[j] ELSE row.state,
           epoch'[j] = IF CancelRequested(j)' THEN 2 ELSE 1
    PROVE  Explained(j)'
<1>1. lastSeq \in Nat /\ \A r \in outbox : r.seq \in Nat /\ r.seq <= lastSeq
  BY ConstantsAssumption DEF TypeOK, Rows, SeqIsGlobal
<1>2. row \notin RowsOf(j) /\ \A r \in RowsOf(j) : r \in outbox /\ r.seq < row.seq
  BY <1>1 DEF RowsOf
<1>3. Cardinality(RowsOf(j)') = Cardinality(RowsOf(j)) + 1 /\ Cardinality(RowsOf(j)) \in Nat
  <2>1. IsFiniteSet(RowsOf(j))
    BY FS_Subset DEF RowsOf
  <2> QED
    BY <1>2, <2>1, FS_AddElement, FS_CardinalityType
<1>4. revision'[j] = 1 + Cardinality(RowsOf(j)')
  BY <1>3 DEF Explained
<1>5. CASE row.state = None
  <2>1. ToldBy(j)' = ToldBy(j)
    BY <1>5 DEF ToldBy
  <2> QED
    BY <1>4, <1>5, <2>1 DEF Explained
<1>6. CASE row.state # None
  <2>1. ToldBy(j)' = ToldBy(j) \cup {row} /\ ToldBy(j) \subseteq RowsOf(j)
    BY <1>6 DEF ToldBy
  <2>2. ASSUME NEW r \in ToldBy(j)', \A q \in ToldBy(j)' : q.seq <= r.seq
        PROVE  r = row
    BY <1>1, <1>2, <2>1, <2>2
  <2> QED
    BY <1>4, <1>6, <2>1, <2>2 DEF Explained
<1> QED
  BY <1>5, <1>6

LEMMA LockedExplains ==
    ASSUME TypeOK, SeqIsGlobal, IsFiniteSet(outbox), LogExplainsState,
           NEW j \in Jobs, j \in Started, NEW e, NEW n \in 1..MaxSeq, n > lastSeq, AppendLocked(j, e, n),
           UNCHANGED admission, epoch'[j] = IF CancelRequested(j)' THEN 2 ELSE 1,
           \A k \in Jobs \ {j} : epoch'[k] = epoch[k] /\ (CancelRequested(k)' <=> CancelRequested(k))
    PROVE  IsFiniteSet(outbox)' /\ LogExplainsState'
<1> DEFINE row == [job |-> j, seq |-> n, event |-> e, state |-> Recorded(j, e)]
<1>1. outbox' = outbox \cup {row}
  BY DEF AppendLocked
<1>2. row.job = j /\ row.seq = n /\ row.state = Recorded(j, e) /\ n \in Nat
  BY ConstantsAssumption
<1>3. /\ state' = IF row.state = None THEN state ELSE [state EXCEPT ![j] = row.state]
      /\ revision' = [revision EXCEPT ![j] = @ + 1]
  BY DEF AppendLocked
<1> HIDE DEF row
<1>4. IsFiniteSet(outbox')
  BY <1>1, FS_AddElement
<1>5. Explained(j)'
  <2>1. RowsOf(j)' = RowsOf(j) \cup {row}
    BY <1>1, <1>2 DEF RowsOf
  <2>2. revision'[j] = revision[j] + 1 /\ state'[j] = IF row.state = None THEN state[j] ELSE row.state
    BY <1>3 DEF TypeOK
  <2>3. Explained(j)
    BY ExplainedIs
  <2> QED
    BY <1>2, <2>1, <2>2, <2>3, NewRowExplains
<1>6. ASSUME NEW k \in Started, k # j
      PROVE  Explained(k)'
  <2>1. k \in Jobs /\ Explained(k)
    BY ExplainedIs DEF Started
  <2>2. RowsOf(k)' = RowsOf(k)
    BY <1>1, <1>2, <1>6 DEF RowsOf
  <2>3. state'[k] = state[k] /\ revision'[k] = revision[k]
    BY <1>3, <1>6, <2>1 DEF TypeOK
  <2> QED
    BY <1>6, <2>1, <2>2, <2>3, OthersExplained
<1>7. Started' = Started
  BY DEF Started
<1> QED
  BY <1>4, <1>5, <1>6, <1>7, ExplainedNext

LEMMA StartExplains ==
    ASSUME TypeOK, RowsHaveJobs, LogExplainsState,
           NEW o, NEW inv, NEW r, NEW j \in Jobs, Start(o, inv, r, j)
    PROVE  LogExplainsState'
<1>1. RowsOf(j)' = {} /\ Controls(j)' = {}
  BY DEF Start, RowsHaveJobs, RowsOf, Controls, logVars, Started
<1>2. Explained(j)'
  <2>1. state'[j] = "queued" /\ revision'[j] = 1 /\ epoch'[j] = 1
    BY DEF Start, TypeOK
  <2>2. ToldBy(j)' = {} /\ ~CancelRequested(j)'
    BY <1>1 DEF ToldBy, CancelRequested
  <2> QED
    BY <1>1, <2>1, <2>2, FS_EmptySet DEF Explained
<1>3. ASSUME NEW k \in Started
      PROVE  Explained(k)'
  <2>1. k # j /\ k \in Jobs /\ Explained(k)
    BY ExplainedIs DEF Start, Started
  <2>2. state'[k] = state[k] /\ revision'[k] = revision[k] /\ epoch'[k] = epoch[k]
    BY <2>1 DEF Start, TypeOK
  <2>3. RowsOf(k)' = RowsOf(k) /\ (CancelRequested(k)' <=> CancelRequested(k))
    BY DEF Start, logVars, RowsOf, CancelRequested, Controls
  <2> QED
    BY <2>1, <2>2, <2>3, OthersExplained
<1>4. Started' \subseteq Started \cup {j}
  BY DEF Start, Started, TypeOK
<1> QED
  BY <1>2, <1>3, <1>4, ExplainedNext

LEMMA ReconcileExplains ==
    ASSUME TypeOK, SeqIsGlobal, IsFiniteSet(outbox), LogExplainsState,
           NEW restart \in BOOLEAN, NEW live \in SUBSET Jobs, Reconcile(restart, live)
    PROVE  IsFiniteSet(outbox)' /\ LogExplainsState'
<1> DEFINE closing == {j \in Started : Open(j) /\ ~Confirmed(j, restart, live)}
           N == Cardinality(closing)
<1>1. PICK at \in [closing -> lastSeq + 1 .. lastSeq + N] :
         outbox' = outbox \cup {[job |-> j, seq |-> at[j], event |-> ReconcileEvent(j),
                                 state |-> Verdict(j)] : j \in closing}
  BY DEF Reconcile
<1> DEFINE row(j) == [job |-> j, seq |-> at[j], event |-> ReconcileEvent(j), state |-> Verdict(j)]
<1>2. /\ state' = [j \in Jobs |-> IF j \in closing THEN Verdict(j) ELSE state[j]]
      /\ revision' = [j \in Jobs |-> IF j \in closing THEN revision[j] + 1 ELSE revision[j]]
      /\ UNCHANGED <<admission, epoch>>
  BY DEF Reconcile
<1>3. IsFiniteSet(closing) /\ N \in Nat /\ closing \subseteq Jobs
  BY ConstantsAssumption, FS_Subset, FS_CardinalityType DEF Started
<1>4. outbox' = outbox \cup {row(j) : j \in closing}
  BY <1>1
<1>5. \A j \in closing : /\ row(j).job = j /\ row(j).state = Verdict(j)
                         /\ row(j).seq \in Nat /\ row(j).seq > lastSeq
  BY <1>1, <1>3, ConstantsAssumption DEF TypeOK
<1>6. \A j \in Jobs : Verdict(j) # None
  BY ConstantsAssumption DEF Verdict, JOB_STATES, OPEN_STATES, CLOSED_STATES
<1> HIDE DEF row, closing
<1>7. IsFiniteSet(outbox')
  <2>1. IsFiniteSet({row(j) : j \in closing})
    <3>1. [j \in closing |-> row(j)] \in Surjection(closing, {row(j) : j \in closing})
      BY DEF Surjection
    <3> QED
      BY <1>3, <3>1, FS_Surjection
  <2> QED
    BY <1>4, <2>1, FS_Union
<1>8. ASSUME NEW k \in Started
      PROVE  Explained(k)'
  <2>1. k \in Jobs /\ Explained(k) /\ (CancelRequested(k)' <=> CancelRequested(k)) /\ epoch'[k] = epoch[k]
    BY <1>2, ExplainedIs, ReconcileKeepsCancel DEF Started
  <2>2. CASE k \in closing
    <3>1. RowsOf(k)' = RowsOf(k) \cup {row(k)}
      BY <1>4, <1>5, <2>2 DEF RowsOf
    <3>2. /\ revision'[k] = revision[k] + 1 /\ state'[k] = IF row(k).state = None THEN state[k] ELSE row(k).state
          /\ epoch'[k] = IF CancelRequested(k)' THEN 2 ELSE 1
      BY <1>2, <1>5, <1>6, <2>1, <2>2 DEF Explained
    <3> QED
      BY <1>5, <2>1, <2>2, <3>1, <3>2, NewRowExplains
  <2>3. CASE k \notin closing
    <3>1. RowsOf(k)' = RowsOf(k)
      BY <1>4, <1>5, <2>3 DEF RowsOf
    <3>2. state'[k] = state[k] /\ revision'[k] = revision[k]
      BY <1>2, <2>1, <2>3
    <3> QED
      BY <2>1, <3>1, <3>2, OthersExplained
  <2> QED
    BY <2>2, <2>3
<1>9. Started' = Started
  BY <1>2 DEF Started
<1> QED
  BY <1>7, <1>8, <1>9, ExplainedNext

LogInv == IsFiniteSet(outbox) /\ LogExplainsState

LEMMA NextLog == TypeOK /\ SeqIsGlobal /\ RowsHaveJobs /\ LogInv /\ [Next]_vars => LogInv'
<1> SUFFICES ASSUME TypeOK, SeqIsGlobal, RowsHaveJobs, LogInv, [Next]_vars PROVE LogInv'
  OBVIOUS
<1>1. CASE Quiet
  BY <1>1 DEF Quiet, jobVars, logVars, LogInv, LogExplainsState, Started, CancelRequested, Controls
<1>2. CASE \E o \in Owners, inv \in Invocations, r \in Requests, j \in Jobs : Start(o, inv, r, j)
  BY <1>2, StartExplains DEF LogInv, Start, logVars
<1>3. CASE \E j \in Jobs, e \in Events, seq \in Numbers : \E rev : Append(j, e, seq, rev)
  <2>1. PICK j \in Jobs, e \in Events, n \in 1..MaxSeq :
           /\ n > lastSeq /\ AppendLocked(j, e, n) /\ j \in Started /\ e.predicate # "control"
           /\ UNCHANGED <<admission, epoch>>
    BY <1>3, AppendCommits
  <2>2. \A k \in Jobs : CancelRequested(k)' <=> CancelRequested(k)
    BY <2>1, AppendKeepsCancel
  <2>3. epoch'[j] = IF CancelRequested(j)' THEN 2 ELSE 1
    BY <2>1, <2>2, ExplainedIs DEF LogInv, Explained
  <2> QED
    BY <2>1, <2>2, <2>3, LockedExplains DEF LogInv
<1>4. CASE \E j \in Jobs : Cancel(j, revision[j])
  <2>1. PICK j \in Jobs : Cancel(j, revision[j])
    BY <1>4
  <2>2. /\ lastSeq + 1 \in 1..MaxSeq /\ lastSeq + 1 > lastSeq /\ j \in Started
        /\ AppendLocked(j, CancelEvent(OwnerOf(j)), lastSeq + 1) /\ UNCHANGED admission
    BY <2>1, ConstantsAssumption DEF Cancel, TypeOK
  <2>3. /\ CancelRequested(j)'
        /\ \A k \in Jobs \ {j} : CancelRequested(k)' <=> CancelRequested(k)
    BY <2>1, CancelAsks DEF SeqIsGlobal
  <2>4. /\ epoch'[j] = 2
        /\ \A k \in Jobs \ {j} : epoch'[k] = epoch[k]
    <3>1. epoch[j] = 1
      BY <2>1, <2>2, ExplainedIs DEF LogInv, Explained, Cancel
    <3> QED
      BY <2>1, <3>1 DEF Cancel, TypeOK
  <2> QED
    BY <2>2, <2>3, <2>4, LockedExplains DEF LogInv
<1>5. CASE \E restart \in BOOLEAN, live \in SUBSET Jobs : Reconcile(restart, live)
  BY <1>5, ReconcileExplains DEF LogInv
<1> QED
  BY <1>1, <1>2, <1>3, <1>4, <1>5, StepKinds

\* Job and log commit together: the newest row that carries a state carries the
\* job's, the revision counts the rows, and a cancel moved the epoch once.
THEOREM LogExplains == Spec => []LogExplainsState
<1>1. Init => LogInv
  BY FS_EmptySet DEF Init, LogInv, LogExplainsState, Started
<1>2. LogInv => LogExplainsState
  BY DEF LogInv
<1> QED
  BY <1>1, <1>2, NextLog, TypeCorrect, SeqOrder, RowsOfJobs, PTL DEF Spec

\* A retry of any committed append gets its receipt: the row is found by its number
\* before the revision or the state of the job is looked at.
THEOREM RetryGetsReceipt == Spec => []RetryAnswered
<1>1. TypeOK /\ SeqIsGlobal => RetryAnswered
  <2> SUFFICES ASSUME TypeOK, SeqIsGlobal, NEW r \in outbox, NEW rev
               PROVE  Reply(r.job, r.event, r.seq, rev) = "replayed"
    BY DEF RetryAnswered
  <2>1. r.seq # None /\ r.seq <= lastSeq
    BY ConstantsAssumption DEF TypeOK, Rows, SeqIsGlobal
  <2>2. r.event \in EventRecords
    BY DEF TypeOK, Rows
  <2>3. ReplayMatches(r, r.event)
    BY <2>2 DEF ReplayMatches, EventRecords
  <2> QED
    BY <2>1, <2>3 DEF Reply
<1> QED
  BY <1>1, TypeCorrect, SeqOrder, PTL

\* What is open after the reconcile of a restart was confirmed by its executor.
THEOREM RestartConfirms == Spec => RestartSettles
<1>1. TypeOK /\ [Next]_vars =>
        [\A live \in SUBSET Jobs : Reconcile(TRUE, live) =>
            \A j \in Started : state'[j] \in OPEN_STATES =>
                /\ admission[j].request = [admission[j].request EXCEPT !.kind = "process",
                                                                      !.ownership = "controller"]
                /\ j \in live /\ ~CancelRequested(j)]_vars
  <2> SUFFICES ASSUME TypeOK, NEW live \in SUBSET Jobs, Reconcile(TRUE, live), NEW j \in Started,
                      state'[j] \in OPEN_STATES
               PROVE  /\ admission[j].request = [admission[j].request EXCEPT !.kind = "process",
                                                                            !.ownership = "controller"]
                      /\ j \in live /\ ~CancelRequested(j)
    OBVIOUS
  <2>1. j \in Jobs /\ admission[j].request \in RequestRecords
    BY DEF Started, TypeOK, Admissions
  <2>2. Verdict(j) \notin OPEN_STATES
    BY DEF Verdict, OPEN_STATES
  <2>3. Open(j) /\ Confirmed(j, TRUE, live)
    BY <2>1, <2>2 DEF Reconcile, Open
  <2>4. admission[j].request.kind = "process" /\ admission[j].request.ownership = "controller"
    BY <2>1, <2>3 DEF Confirmed, RequestRecords
  <2> QED
    BY <2>1, <2>3, <2>4 DEF Confirmed, RequestRecords
<1> QED
  BY <1>1, TypeCorrect, PTL DEF Spec, RestartSettles
=============================================================================
