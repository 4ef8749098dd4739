----------------------------- MODULE JobReader -----------------------------
(***************************************************************************)
(* An owner that reads its jobs the way wait's answer invites it to: every  *)
(* call presents as after_seq the `cursor` the last wait returned, and the  *)
(* set of jobs it waits for changes from call to call.  The cursor returned *)
(* is one number for the whole outbox, the stored cursors are kept per      *)
(* (consumer, job): what can be lost between the two is the question here.  *)
(***************************************************************************)
EXTENDS HarnessJobs

VARIABLES
    mark,       \* the cursor returned by the owner's last wait
    watched     \* the <<owner, job>> pairs a wait has already covered

readerVars == <<mark, watched>>
allVars == <<vars, readerVars>>

ReaderInit ==
    /\ Init
    /\ mark = [o \in Owners |-> 0]
    /\ watched = {}

\* max([after] + observed seqs), what wait returns as `cursor`.
NextMark(o, ids) ==
    LET read == {mark[o]} \cup {r.seq : r \in Observed({o}, ids, mark[o])}
    IN  CHOOSE n \in read : \A k \in read : k <= n

ReaderWait(o, t, ids) ==
    /\ Wait(o, t, ids, mark[o])
    /\ mark' = [mark EXCEPT ![o] = NextMark(o, ids)]
    /\ watched' = watched \cup ({o} \X ids)

\* subscribe_job with its default after_seq = 0.
ReaderSubscribe(o, j) ==
    /\ OwnerOf(j) = o
    /\ Subscribe(o, j, 0)
    /\ UNCHANGED readerVars

\* The ledger's steps that feed the outbox. Cancels, reconciles and the closing of
\* children are left out: to a reader they are more rows of the same kind.
Produce ==
    /\ \/ \E o \in Owners, inv \in Invocations, r \in Requests, j \in Jobs : Start(o, inv, r, j)
       \/ \E j \in Jobs, e \in Events : Append(j, e, None, None)
       \/ \E o \in Owners, t \in Tokens : AcquireWake(o, t) \/ ReleaseWake(o, t)
    /\ UNCHANGED readerVars

ReaderNext ==
    \/ Produce
    \/ \E o \in Owners, t \in Tokens, ids \in SUBSET Jobs : ReaderWait(o, t, ids)
    \/ \E o \in Owners, j \in Started : ReaderSubscribe(o, j)

ReaderSpec == ReaderInit /\ [][ReaderNext]_allVars

---------------------------------------------------------------------------
Unread(o, j) == {r \in outbox : /\ r.job = j /\ r.event.consumer = o
                                /\ ShouldWake(r.event) /\ r.seq \notin delivered}

\* "job mới gia nhập tập theo dõi vẫn thấy event wake chưa đọc của nó (không bị
\* con trỏ toàn cục bỏ qua)": a job the owner has not waited for yet, once it
\* joins the set, still shows its unread wakes although the presented cursor is
\* already past them (docstring of wait, lines 572-574).
LateJoinSeesWakes ==
    \A o \in Owners, j \in Jobs :
        <<o, j>> \notin watched => Unread(o, j) \subseteq Observed({o}, {j}, mark[o])
=============================================================================
