-------------------------- MODULE JobReader_proofs --------------------------
(***************************************************************************)
(* Theorems about JobReader: the owner that presents the cursor its last     *)
(* wait returned is a caller of the ledger like any other, so what the       *)
(* ledger guarantees holds for it; and if each of its waits covers all its   *)
(* jobs, it loses no wake: only a wait that leaves out a job it has started  *)
(* can hide one.                                                             *)
(***************************************************************************)
EXTENDS JobReader, HarnessJobs_proofs

\* The ledger takes any after_seq that a caller may present.
AnyAfter == Afters = 0..MaxSeq

MarkTypeOK == mark \in [Owners -> 0..MaxSeq]

\* The cursor that a wait returns is the one presented, or a larger one that it read.
LEMMA NextMarkReads ==
    ASSUME TypeOK, MarkTypeOK, NEW o \in Owners, NEW ids
    PROVE  /\ NextMark(o, ids) \in 0..MaxSeq
           /\ mark[o] <= NextMark(o, ids)
           /\ \/ NextMark(o, ids) = mark[o]
              \/ \E r \in Observed({o}, ids, mark[o]) : r.seq = NextMark(o, ids)
           /\ \A r \in Observed({o}, ids, mark[o]) : r.seq <= NextMark(o, ids)
<1> DEFINE seqs == {r.seq : r \in Observed({o}, ids, mark[o])}
           read == {mark[o]} \cup seqs
           IsNext(n) == n \in read /\ \A k \in read : k <= n
<1>1. mark[o] \in 0..MaxSeq /\ MaxSeq \in Nat /\ seqs \subseteq 1..MaxSeq
  BY ConstantsAssumption DEF MarkTypeOK, TypeOK, Rows, Observed
<1>2. \E n : IsNext(n)
  <2>1. CASE \A k \in seqs : k <= mark[o]
    <3>1. IsNext(mark[o])
      BY <1>1, <2>1
    <3> QED
      BY <3>1
  <2>2. CASE \E k \in seqs : ~(k <= mark[o])
    <3>1. PICK h \in seqs : ~(h <= mark[o])
      BY <2>2
    <3>2. PICK g \in seqs : \A k \in seqs : k <= g
      BY <1>1, <3>1, GreatestSeq
    <3>3. h \in Int /\ g \in Int /\ mark[o] \in Int /\ h <= g
      BY <1>1, <3>1, <3>2
    <3>4. mark[o] <= g
      BY <3>1, <3>3
    <3>5. IsNext(g)
      BY <3>2, <3>4
    <3> QED
      BY <3>5
  <2> QED
    BY <2>1, <2>2
<1>3. NextMark(o, ids) = CHOOSE n \in read : \A k \in read : k <= n
  BY DEF NextMark
<1>4. IsNext(NextMark(o, ids))
  BY <1>2, <1>3
<1> QED
  BY <1>1, <1>4

LEMMA ReaderSteps ==
    ASSUME AnyAfter, TypeOK, MarkTypeOK, [ReaderNext]_allVars
    PROVE  [Next]_vars /\ MarkTypeOK'
<1>1. CASE UNCHANGED allVars
  BY <1>1 DEF allVars, readerVars, MarkTypeOK
<1>2. CASE Produce
  <2>1. None \in Numbers /\ \A j : None \in Expectations(j)
    BY DEF Numbers, Expectations
  <2>2. Next
    BY <1>2, <2>1, Zenon DEF Produce, Next
  <2> QED
    BY <1>2, <2>2 DEF Produce, readerVars, MarkTypeOK
<1>3. ASSUME NEW o \in Owners, NEW t \in Tokens, NEW ids \in SUBSET Jobs, ReaderWait(o, t, ids)
      PROVE  [Next]_vars /\ MarkTypeOK'
  <2>1. mark[o] \in Afters
    BY DEF AnyAfter, MarkTypeOK
  <2>2. Next
    BY <1>3, <2>1 DEF ReaderWait, Next
  <2>3. MarkTypeOK'
    BY <1>3, NextMarkReads DEF ReaderWait, MarkTypeOK
  <2> QED
    BY <2>2, <2>3
<1>4. ASSUME NEW o \in Owners, NEW j \in Started, ReaderSubscribe(o, j)
      PROVE  [Next]_vars /\ MarkTypeOK'
  <2>1. o \in Consumers /\ j \in Jobs /\ 0 \in Afters
    BY ConstantsAssumption DEF AnyAfter, Started
  <2>2. Next
    BY <1>4, <2>1 DEF ReaderSubscribe, Next
  <2> QED
    BY <1>4, <2>2 DEF ReaderSubscribe, readerVars, MarkTypeOK
<1> QED
  BY <1>1, <1>2, <1>3, <1>4 DEF ReaderNext

LEMMA ReaderStarts == ReaderInit => Init /\ TypeOK /\ MarkTypeOK
BY InitTypeOK, ConstantsAssumption DEF ReaderInit, MarkTypeOK

\* The owner's reads are calls of the ledger: every behaviour of the reader is one
\* of HarnessJobs, with mark and watched hidden.
THEOREM ReaderImplementsLedger ==
    ASSUME AnyAfter
    PROVE  ReaderSpec => Spec
<1>1. TypeOK /\ MarkTypeOK /\ [ReaderNext]_allVars => TypeOK' /\ MarkTypeOK' /\ [Next]_vars
  BY ReaderSteps, NextTypeOK
<1> QED
  BY <1>1, ReaderStarts, PTL DEF ReaderSpec, Spec

\* Whatever set of jobs the owner waits for from call to call, no wake is returned
\* to it twice.
THEOREM ReaderToldOnce ==
    ASSUME AnyAfter
    PROVE  ReaderSpec => []NeverRedelivered
BY ReaderImplementsLedger, DeliveredOnce, PTL

---------------------------------------------------------------------------
(* The owner whose every wait covers all the jobs it has started.           *)

OwnJobs(o) == {j \in Started : OwnerOf(j) = o}

WholeNext ==
    \/ Produce
    \/ \E o \in Owners, t \in Tokens : ReaderWait(o, t, OwnJobs(o))
    \/ \E o \in Owners, j \in Started : ReaderSubscribe(o, j)

WholeSpec == ReaderInit /\ [][WholeNext]_allVars

\* A wake of the owner's own job.
OwnWake(r) == /\ ShouldWake(r.event) /\ r.event.consumer \in Owners
              /\ OwnerOf(r.job) = r.event.consumer

\* Neither the presented cursor nor a stored one is ahead of the log ...
MarksBehind ==
    /\ \A o \in Owners : mark[o] <= lastSeq
    /\ CursorBehind

\* ... and no wake behind either of them has been left unread.
NoneBehind ==
    \A r \in outbox : OwnWake(r) /\ (r.seq <= mark[r.event.consumer] \/ r.seq <= At(r))
                         => r.seq \in delivered

\* The next wait of the owner shows all its unread wakes, of a job it has started
\* since its last wait as well (docstring of wait, lines 572-574).
WakesShown ==
    \A o \in Owners : \A j \in OwnJobs(o) : Unread(o, j) \subseteq Observed({o}, {j}, mark[o])

LEMMA WholeReads == WholeNext => ReaderNext
BY DEF WholeNext, ReaderNext, OwnJobs, Started

LEMMA WholeImplements ==
    ASSUME AnyAfter
    PROVE  WholeSpec => ReaderSpec
BY WholeReads, PTL DEF WholeSpec, ReaderSpec

\* A step of the producers neither reads nor hands a job to another owner.
LEMMA ProduceLogs ==
    ASSUME TypeOK, Produce
    PROVE  /\ UNCHANGED <<wakeVars, mark>>
           /\ \A r \in outbox' \ outbox : r.seq > lastSeq
           /\ lastSeq' >= lastSeq
           /\ \A j \in Started : OwnerOf(j)' = OwnerOf(j)
<1>0. lastSeq \in Int
  BY ConstantsAssumption DEF TypeOK
<1>1. UNCHANGED mark
  BY DEF Produce, readerVars
<1>2. CASE \E o \in Owners, inv \in Invocations, r \in Requests, j \in Jobs : Start(o, inv, r, j)
  <2>1. \A j \in Started : admission'[j] = admission[j]
    BY <1>2 DEF Start, Started, TypeOK
  <2> QED
    BY <1>0, <1>1, <1>2, <2>1 DEF Start, logVars, OwnerOf
<1>3. CASE \E j \in Jobs, e \in Events : Append(j, e, None, None)
  <2>1. PICK j \in Jobs, e \in Events : Append(j, e, None, None)
    BY <1>3
  <2>2. PICK n \in 1..MaxSeq : n = lastSeq + 1 /\ AppendLocked(j, e, n)
    BY <2>1 DEF Append
  <2>3. UNCHANGED <<admission, wakeVars>>
    BY <2>1 DEF Append
  <2> QED
    BY <1>0, <1>1, <2>2, <2>3 DEF AppendLocked, OwnerOf
<1>4. CASE \E o \in Owners, t \in Tokens : AcquireWake(o, t) \/ ReleaseWake(o, t)
  BY <1>0, <1>1, <1>4 DEF AcquireWake, ReleaseWake, logVars, jobVars, OwnerOf
<1> QED
  BY <1>2, <1>3, <1>4 DEF Produce

LEMMA WholeMarksBehind ==
    ASSUME AnyAfter, TypeOK, MarkTypeOK, SeqIsGlobal, MarksBehind, [WholeNext]_allVars
    PROVE  MarksBehind'
<1>0. /\ lastSeq \in Int /\ lastSeq' \in Int /\ mark \in [Owners -> 0..MaxSeq]
      /\ \A o \in Owners : mark[o] \in Int
      /\ \A c \in Consumers, j \in Jobs : cursor[c][j] \in Int
  <2>1. TypeOK'
    BY WholeReads, ReaderSteps, NextTypeOK
  <2> QED
    BY <2>1, ConstantsAssumption DEF TypeOK, MarkTypeOK, NoCursor
<1>1. CASE UNCHANGED allVars
  BY <1>1 DEF MarksBehind, CursorBehind, allVars, readerVars, vars, wakeVars, logVars
<1>2. CASE Produce
  BY <1>0, <1>2, ProduceLogs DEF MarksBehind, CursorBehind, wakeVars
<1>3. ASSUME NEW o \in Owners, NEW j \in Started, ReaderSubscribe(o, j)
      PROVE  MarksBehind'
  <2>1. UNCHANGED <<lastSeq, mark>> /\ lastSeq >= 0
    BY <1>3, ConstantsAssumption DEF ReaderSubscribe, Subscribe, readerVars, logVars, TypeOK
  <2>2. \A c \in Consumers, k \in Jobs : cursor'[c][k] = cursor[c][k] \/ cursor'[c][k] = 0
    BY <1>3 DEF ReaderSubscribe, Subscribe, AdvanceTo, TypeOK
  <2> QED
    BY <1>0, <2>1, <2>2 DEF MarksBehind, CursorBehind
<1>4. ASSUME NEW o \in Owners, NEW t \in Tokens, ReaderWait(o, t, OwnJobs(o))
      PROVE  MarksBehind'
  <2> DEFINE ids == OwnJobs(o)
  <2>1. /\ Consume({o}, ids, mark[o]) /\ lastSeq' = lastSeq
        /\ mark' = [mark EXCEPT ![o] = NextMark(o, ids)]
    BY <1>4 DEF ReaderWait, Wait, logVars
  <2>2. {o} \in SUBSET Consumers /\ ids \in SUBSET Jobs /\ mark[o] \in Afters
    BY <1>0, ConstantsAssumption DEF AnyAfter, OwnJobs, Started
  <2>3. NextMark(o, ids) <= lastSeq
    BY <1>0, NextMarkReads DEF MarksBehind, Observed, SeqIsGlobal
  <2>4. ASSUME NEW c \in Consumers, NEW j \in Jobs PROVE cursor'[c][j] <= lastSeq
    <3> DEFINE seen == {r \in Observed({o}, ids, mark[o]) : r.job = j /\ r.event.consumer = c}
    <3>0. /\ seen = {} => cursor'[c][j] = cursor[c][j]
          /\ seen # {} => /\ cursor'[c][j] \in 1..MaxSeq
                          /\ \E r \in seen : r.seq = cursor'[c][j]
                          /\ \A r \in seen : r.seq <= cursor'[c][j]
      BY <2>1, ConsumeCursor
    <3>1. \/ cursor'[c][j] = cursor[c][j]
          \/ \E r \in seen : r.seq = cursor'[c][j]
      BY <3>0
    <3>2. \A r \in seen : r.seq <= lastSeq
      BY DEF Observed, SeqIsGlobal
    <3> QED
      BY <3>1, <3>2 DEF MarksBehind, CursorBehind
  <2> QED
    BY <1>0, <2>1, <2>3, <2>4 DEF MarksBehind, CursorBehind
<1> QED
  BY <1>1, <1>2, <1>3, <1>4 DEF WholeNext

LEMMA WholeNoneBehind ==
    ASSUME AnyAfter, TypeOK, MarkTypeOK, RowsHaveJobs, MarksBehind, NoneBehind, [WholeNext]_allVars
    PROVE  NoneBehind'
<1>0. /\ lastSeq \in Int
      /\ \A o \in Owners : mark[o] \in Int /\ mark[o] <= lastSeq
      /\ \A r \in outbox : /\ r.seq \in 1..MaxSeq /\ r.seq \in Int /\ At(r) \in Int
                           /\ r.job \in Started /\ r.event.consumer \in Consumers
  BY RowFields, ConstantsAssumption DEF TypeOK, MarkTypeOK, MarksBehind, RowsHaveJobs, Started
<1>1. CASE UNCHANGED allVars
  BY <1>1 DEF NoneBehind, OwnWake, OwnerOf, At, allVars, readerVars, vars, jobVars, wakeVars, logVars
<1>2. CASE Produce
  <2> SUFFICES ASSUME NEW r \in outbox', OwnWake(r)',
                      r.seq <= mark[r.event.consumer] \/ r.seq <= At(r)
               PROVE  r.seq \in delivered
    BY <1>2, ProduceLogs DEF NoneBehind, At, wakeVars
  <2>1. TypeOK'
    BY WholeReads, ReaderSteps, NextTypeOK
  <2>2. /\ r.seq \in Int /\ r.job \in Jobs /\ r.event.consumer \in Consumers
        /\ r.event.consumer \in Owners
    BY <2>1, ConstantsAssumption DEF TypeOK, Rows, EventRecords, OwnWake
  <2>3. At(r) \in Int /\ At(r) <= lastSeq
    BY <2>2, ConstantsAssumption DEF TypeOK, At, MarksBehind, CursorBehind, NoCursor
  <2>4. r \in outbox
    BY <1>0, <1>2, <2>2, <2>3, ProduceLogs
  <2>5. OwnWake(r)
    BY <1>0, <1>2, <2>4, ProduceLogs DEF OwnWake
  <2> QED
    BY <2>4, <2>5 DEF NoneBehind
<1>3. ASSUME NEW o \in Owners, NEW j \in Started, ReaderSubscribe(o, j)
      PROVE  NoneBehind'
  <2>1. UNCHANGED <<outbox, delivered, mark, admission>>
    BY <1>3 DEF ReaderSubscribe, Subscribe, readerVars, logVars, jobVars
  <2>2. ASSUME NEW r \in outbox PROVE At(r)' = At(r) \/ At(r)' = 0
    BY <1>0, <1>3 DEF ReaderSubscribe, Subscribe, AdvanceTo, At, TypeOK
  <2>3. \A r \in outbox : ~(r.seq <= 0)
    BY <1>0
  <2> QED
    BY <2>1, <2>2, <2>3 DEF NoneBehind, OwnWake, OwnerOf, At
<1>4. ASSUME NEW o \in Owners, NEW t \in Tokens, ReaderWait(o, t, OwnJobs(o))
      PROVE  NoneBehind'
  <2> DEFINE ids == OwnJobs(o)
  <2>1. /\ Consume({o}, ids, mark[o]) /\ UNCHANGED <<outbox, admission>>
        /\ mark' = [mark EXCEPT ![o] = NextMark(o, ids)]
    BY <1>4 DEF ReaderWait, Wait, logVars, jobVars
  <2>2. {o} \in SUBSET Consumers /\ ids \in SUBSET Jobs /\ mark[o] \in Afters
    BY ConstantsAssumption DEF AnyAfter, OwnJobs, Started, MarkTypeOK
  <2>3. delivered' = delivered \cup {r.seq : r \in WakeRows({o}, ids, mark[o])}
    BY <2>1 DEF Consume
  <2> SUFFICES ASSUME NEW r \in outbox, OwnWake(r),
                      r.seq <= mark'[r.event.consumer] \/ r.seq <= At(r)'
               PROVE  r.seq \in delivered'
    BY <2>1 DEF NoneBehind, OwnWake, OwnerOf, At
  <2>4. CASE r.event.consumer # o
    <3>1. At(r)' = At(r)
      BY <2>1, <2>2, <2>4, CursorForward DEF At
    <3>2. mark'[r.event.consumer] = mark[r.event.consumer]
      BY <2>1, <2>4 DEF OwnWake, MarkTypeOK
    <3> QED
      BY <2>3, <3>1, <3>2 DEF NoneBehind
  <2>5. CASE r.event.consumer = o /\ r \in Observed({o}, ids, mark[o])
    BY <2>3, <2>5 DEF WakeRows, OwnWake
  <2>6. CASE r.event.consumer = o /\ r \notin Observed({o}, ids, mark[o])
    <3>1. r.job \in ids
      BY <1>0, <2>6 DEF OwnJobs, OwnWake
    <3>2. ~(r.seq > (IF At(r) = NoCursor THEN 0 ELSE mark[o])) \/ ~(r.seq > At(r))
      BY <2>6, <3>1 DEF Observed, At
    <3>3. r.seq > 0 /\ r.seq \in Int /\ At(r) \in Int /\ mark[o] \in Int
      BY <1>0
    <3>4. r.seq <= mark[o] \/ r.seq <= At(r)
      BY <3>2, <3>3
    <3> QED
      BY <2>3, <2>6, <3>4 DEF NoneBehind
  <2> QED
    BY <2>4, <2>5, <2>6
<1> QED
  BY <1>1, <1>2, <1>3, <1>4 DEF WholeNext

LEMMA NoneBehindShown ==
    ASSUME TypeOK, MarkTypeOK, NoneBehind
    PROVE  WakesShown
<1> SUFFICES ASSUME NEW o \in Owners, NEW j \in OwnJobs(o), NEW r \in Unread(o, j)
             PROVE  r \in Observed({o}, {j}, mark[o])
  BY DEF WakesShown
<1>1. r \in outbox /\ r.job = j /\ r.event.consumer = o /\ r.seq \notin delivered /\ OwnWake(r)
  BY DEF Unread, OwnJobs, OwnWake
<1>2. r.seq \in 1..MaxSeq /\ r.seq \in Int /\ At(r) \in Int /\ mark[o] \in Int
  BY <1>1, RowFields, ConstantsAssumption DEF MarkTypeOK
<1>3. ~(r.seq <= mark[o]) /\ ~(r.seq <= At(r))
  BY <1>1 DEF NoneBehind
<1>4. r.seq > 0 /\ r.seq > mark[o] /\ r.seq > At(r)
  BY <1>2, <1>3
<1> QED
  BY <1>1, <1>4 DEF Observed, At

\* An owner whose waits all cover every job it has started loses no wake by
\* presenting the cursor it was given: LateJoinSeesWakes fails only where a wait has
\* left out a job that was started.
THEOREM WholeReaderShown ==
    ASSUME AnyAfter
    PROVE  WholeSpec => []WakesShown
<1>1. ReaderInit => TypeOK /\ MarkTypeOK /\ MarksBehind /\ NoneBehind
  BY ReaderStarts, ConstantsAssumption
     DEF ReaderInit, Init, MarksBehind, CursorBehind, NoneBehind, NoCursor
<1>2. MarkTypeOK /\ TypeOK /\ [WholeNext]_allVars => MarkTypeOK'
  BY WholeReads, ReaderSteps
<1>3. /\ TypeOK /\ MarkTypeOK /\ SeqIsGlobal /\ RowsHaveJobs /\ MarksBehind /\ NoneBehind
      /\ [WholeNext]_allVars
      => MarksBehind' /\ NoneBehind'
  BY WholeMarksBehind, WholeNoneBehind
<1>4. TypeOK /\ MarkTypeOK /\ NoneBehind => WakesShown
  BY NoneBehindShown
<1>5. WholeSpec => [](TypeOK /\ SeqIsGlobal /\ RowsHaveJobs)
  BY WholeImplements, ReaderImplementsLedger, TypeCorrect, SeqOrder, RowsOfJobs, PTL
<1> QED
  BY <1>1, <1>2, <1>3, <1>4, <1>5, PTL DEF WholeSpec
=============================================================================
