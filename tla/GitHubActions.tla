--------------------------- MODULE GitHubActions ---------------------------
(***************************************************************************)
(* github.rs wfr_to_runner_result: what a workflow run and the answer to   *)
(* the request for its jobs become.  Descriptions and URLs are left out.   *)
(*                                                                         *)
(* The facts a result depends on: the status and the conclusion of a run,  *)
(* and, in the one page of jobs that is asked for, how many failed (0, 1   *)
(* or more), whether a step the one failed job failed at is "Set up job",  *)
(* and whether some job's check run has annotations.  "active" stands for  *)
(* the statuses queued and in_progress: both make the job an unfinished    *)
(* one.                                                                    *)
(***************************************************************************)
EXTENDS Naturals

Conclusions == {"action_required", "cancelled", "failure", "neutral", "success",
                "skipped", "stale", "startup_failure", "timed_out"}
Outcomes == {"success", "warning", "fail"}

CompletedRuns ==
  [status : {"completed"}, conclusion : Conclusions \cup {"none"},
   failures : 0..2, setup : BOOLEAN, annotated : BOOLEAN]

Unfinished(s) == [status |-> s, conclusion |-> "none",
                  failures |-> 0, setup |-> FALSE, annotated |-> FALSE]
NoBranch == Unfinished("no branch")     \* the branch was never pushed
Due      == Unfinished("due")           \* pushed, no run of this workflow so far
Active   == Unfinished("active")
WorkflowRuns == CompletedRuns \cup {NoBranch, Due, Active}

(* What the request for the runs of a branch lists. *)
Listed(run) == run.status \in {"active", "completed"}

(* The JobState of a run; wait_for_completion's two filters look at it. *)
JobState(run) ==
  CASE run.status = "active" -> "Running"
    [] run.status # "active" /\ run.conclusion \in {"success", "failure", "neutral"} -> "Completed"
    [] OTHER -> "Failed"

(***************************************************************************)
(* A failure and a success ask for the jobs, in a second request: `jobs`   *)
(* is the run at that later time.  A job under way has no conclusion and   *)
(* cannot be deserialized; a failure without a failed job bails.           *)
(***************************************************************************)
ResultIsError(run, jobs) ==
  \/ run.conclusion \in {"failure", "success"} /\ jobs.status # "completed"
  \/ run.conclusion = "failure" /\ jobs.failures = 0

(* The outcomes possible when there is one; a check run that cannot be     *)
(* read counts as one without annotations.  The Warning that a `for` over  *)
(* the failed steps builds for "Set up job" is the value of nothing: the   *)
(* failure stays a Fail, whatever jobs.setup is.                           *)
ResultOutcomes(run, jobs) ==
  CASE run.conclusion = "success" ->
         IF jobs.annotated THEN {"success", "warning"} ELSE {"success"}
    [] run.conclusion \in {"neutral", "skipped", "stale"} -> {"warning"}
    [] OTHER -> {"fail"}
=============================================================================
