------------------------------ MODULE JobTypes ------------------------------
(***************************************************************************)
(* The job state machine of pkg/types/job.go, as far as values go.  The    *)
(* status "absent" stands for a row that has not been inserted yet.        *)
(***************************************************************************)

JobStatus == {"pending", "dispatched", "running", "success", "failed", "cancelled"}

RowStatus == JobStatus \cup {"absent"}

Terminal == {"success", "failed", "cancelled"}

IsTerminal(s) == s \in Terminal

\* The failure_reason texts, one per place in the code that writes one.
Reasons == {"none",
            "dispatch error",         \* dispatchPending, reconciler.go
            "agent dispatch error",   \* dispatchOne, reconciler.go
            "timeout",                \* failStuck, reconciler.go
            "cancelled by user"}      \* CancelJob, handler/jobs.go

\* How far along its life a row is.  Every terminal status is at the same place.
Rank(s) == CASE s = "absent"                    -> 0
             [] s = "pending"                   -> 1
             [] s \in {"dispatched", "running"} -> 2
             [] OTHER                           -> 3
=============================================================================
