----------------------------- MODULE JobLedger -----------------------------
(***************************************************************************)
(* What the job ledger promises its readers (job_surface.py, job_wake.py,   *)
(* the frontend), with the outbox, the revisions and the cursors hidden.    *)
(* A job is admitted once, runs, may be asked to cancel, and closes once.   *)
(* The promise of harness_jobs.py lines 8-14: a request to cancel never     *)
(* claims that the process stopped, and a completion that arrives after it  *)
(* closes the job as cancelled, never as succeeded.                         *)
(* HarnessJobs implements this module (see Ledger in HarnessJobs).          *)
(***************************************************************************)
CONSTANTS Jobs          \* the identifiers a job may be given

VARIABLE status         \* what a reader sees of each job

Final == {"succeeded", "partial", "failed", "interrupted", "cancelled", "unknown"}
Statuses == {"absent", "open", "cancelling"} \cup Final

\* Every move one job may make. A job being cancelled can only become
\* cancelled, and nothing leaves a final status.
Moves == {<<"absent", "open">>, <<"open", "cancelling">>, <<"cancelling", "cancelled">>}
           \cup ({"open"} \X Final)

Init == status = [j \in Jobs |-> "absent"]

\* One transaction may move several jobs: reconcile closes all it cannot confirm.
Next == /\ status' \in [Jobs -> Statuses]
        /\ \A j \in Jobs : status'[j] = status[j] \/ <<status[j], status'[j]>> \in Moves

Spec == Init /\ [][Next]_status
=============================================================================
