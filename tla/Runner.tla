------------------------------- MODULE Runner -------------------------------
(***************************************************************************)
(* runner.rs: for every configured runner a new_job_watcher, which takes   *)
(* series from "github queue", waits until the runner's repository has     *)
(* started something, moves the series to "github working" and spawns a    *)
(* wait_for_completion; that one polls the workflow runs of the branch and *)
(* leaves a result in "needs dispatch" for each that is finished.          *)
(*                                                                         *)
(* Every runner has the handle "github", so all share the three trees,     *)
(* while each asks its own repository.  GitHub is the environment, and so  *)
(* is Dispatch, whose removal of what it sent is left out.                 *)
(***************************************************************************)
EXTENDS Database, GitHubActions

CONSTANTS
  Series,
  Repos,       \* the repositories runners may be configured for
  Workflows,   \* names of workflow runs
  WorkflowsOf, \* the workflows of each repository
  Endings,     \* what a run may end as
  Threads,     \* pool threads that are free for wait_for_completion
  None,        \* no series, or no closure
  MaxReruns,   \* bound: how often somebody re-runs a workflow
  MaxCrashes   \* bound: how often the process may die

GithubWorking == "github working"
Trees == {RunnerQueue, GithubWorking, NeedsDispatch}
Results == [series : Series, name : Workflows, outcome : Outcomes]
Closures == [repo : Repos, series : Series]   \* wait_for_completion's arguments

ASSUME RunnerAssumption ==
  /\ WorkflowsOf \in [Repos -> SUBSET Workflows]
  /\ Endings \subseteq CompletedRuns
  /\ None \notin Series /\ None \notin Closures
  /\ MaxReruns \in Nat /\ MaxCrashes \in Nat

VARIABLES
  runners,   \* the repositories that have a runner in the configuration
  pushed,    \* what this process's git stage has pushed, as closures' arguments
  at,        \* where each watcher is: "iterating", "starting", "moving", "spawning"
  current,   \* the series each watcher holds
  pass,      \* what is left of each watcher's pass over the queue
  pending,   \* closures spawned and begun by no thread, with their number
  job,       \* the closure each thread runs
  pc,        \* where it is: "idle", "request", "jobs", "results", "done"
  response,  \* the runs of its last request, by workflow
  results,   \* what they became: an outcome, "unfinished", or "none"
  completed, \* its completed_jobs
  crashes,   \* how often the process has died, up to MaxCrashes
  runs,      \* GitHub: the run of each workflow on each series' branch
  ended,     \* GitHub: what the runs of each workflow on a branch have ended as
  reruns     \* how many re-runs there were, up to MaxReruns

watcherVars == <<at, current, pass>>
pollVars == <<job, pc, response, results, completed>>
hubVars  == <<runs, ended, reruns>>
vars == <<dbVars, runners, pushed, watcherVars, pending, pollVars, crashes, hubVars>>

Queue   == db[RunnerQueue]
Working == db[GithubWorking]

NoResponse == [w \in Workflows |-> NoBranch]
NoResults  == [w \in Workflows |-> "none"]

Init ==
  /\ db = [t \in Trees |-> {}] /\ disk = db
  /\ runners \in SUBSET Repos \ {{}}
  /\ pushed = {}
  /\ at = [r \in Repos |-> "iterating"]
  /\ current = [r \in Repos |-> None]
  /\ pass = [r \in Repos |-> {}]
  /\ pending = [c \in Closures |-> 0]
  /\ job = [t \in Threads |-> None]
  /\ pc = [t \in Threads |-> "idle"]
  /\ response = [t \in Threads |-> NoResponse]
  /\ results = [t \in Threads |-> NoResults]
  /\ completed = [t \in Threads |-> {}]
  /\ crashes = 0
  /\ runs = [c \in Closures |-> NoResponse]
  /\ ended = [c \in Closures |-> [w \in Workflows |-> {}]]
  /\ reruns = 0

-----------------------------------------------------------------------------
(***************************************************************************)
(* The git stage pushes the branch to one remote and queues the series,    *)
(* once for each remote, and perhaps again after a restart (GitOps).  A    *)
(* branch that is there already starts nothing, and none is there after a  *)
(* push whose reference the remote refused.                                *)
(***************************************************************************)
push(c, there) ==
  /\ c.repo \in runners /\ c \notin pushed
  /\ pushed' = pushed \cup {c}
  /\ Insert(RunnerQueue, c.series)
  /\ runs' = [runs EXCEPT ![c] = [w \in Workflows |->
       IF there /\ w \in WorkflowsOf[c.repo] /\ @[w] = NoBranch THEN Due ELSE @[w]]]
  /\ UNCHANGED <<disk, runners, watcherVars, pending, pollVars, crashes, ended, reruns>>

(* GitHub starts the run of a workflow; it need not. *)
run_starts(c, w) ==
  /\ runs[c][w] = Due
  /\ runs' = [runs EXCEPT ![c][w] = Active]
  /\ UNCHANGED <<dbVars, runners, pushed, watcherVars, pending, pollVars, crashes, ended, reruns>>

run_ends(c, w) ==
  /\ runs[c][w] = Active
  /\ \E e \in Endings :
       /\ runs' = [runs EXCEPT ![c][w] = e]
       /\ ended' = [ended EXCEPT ![c][w] = @ \cup {e}]
  /\ UNCHANGED <<dbVars, runners, pushed, watcherVars, pending, pollVars, crashes, reruns>>

rerun(c, w) ==
  /\ runs[c][w] \in CompletedRuns
  /\ reruns < MaxReruns
  /\ reruns' = reruns + 1
  /\ runs' = [runs EXCEPT ![c][w] = Active]
  /\ UNCHANGED <<dbVars, runners, pushed, watcherVars, pending, pollVars, crashes, ended>>

-----------------------------------------------------------------------------
(* wait_for_tree returns and the next `inbound.iter()` begins: sled hands  *)
(* out the keys of a leaf it has loaded, so another watcher may since have *)
(* taken some of them.                                                     *)
begin_pass(r) ==
  /\ r \in runners
  /\ at[r] = "iterating" /\ pass[r] = {} /\ Queue # {}
  /\ pass' = [pass EXCEPT ![r] = Queue]
  /\ UNCHANGED <<dbVars, runners, pushed, at, current, pending, pollVars, crashes, hubVars>>

next_entry(r) ==
  /\ at[r] = "iterating"
  /\ \E s \in pass[r] :
       /\ pass' = [pass EXCEPT ![r] = @ \ {s}]
       /\ current' = [current EXCEPT ![r] = s]
  /\ at' = [at EXCEPT ![r] = "starting"]
  /\ UNCHANGED <<dbVars, runners, pushed, pending, pollVars, crashes, hubVars>>

(* Mutation: no timeout, the loop ends only when a run is listed. *)
start_work_no_timeout(r) ==
  /\ at[r] = "starting"
  /\ \E w \in Workflows : Listed(runs[[repo |-> r, series |-> current[r]]][w])
  /\ at' = [at EXCEPT ![r] = "moving"]
  /\ UNCHANGED <<dbVars, runners, pushed, current, pass, pending, pollVars, crashes, hubVars>>

(* start_work returns Ok when a run is listed and when 600 s have passed,  *)
(* so at any time.                                                         *)
start_work(r) ==
  /\ at[r] = "starting"
  /\ at' = [at EXCEPT ![r] = "moving"]
  /\ UNCHANGED <<dbVars, runners, pushed, current, pass, pending, pollVars, crashes, hubVars>>

(* move_to_new_queue(&inbound, &outbound, &key), which spins on a key that *)
(* is gone.                                                                *)
move_to_working(r) ==
  /\ at[r] = "moving"
  /\ move_to_new_queue(RunnerQueue, GithubWorking, current[r])
  /\ at' = [at EXCEPT ![r] = "spawning"]
  /\ UNCHANGED <<disk, runners, pushed, current, pass, pending, pollVars, crashes, hubVars>>

(* rayon::spawn of wait_for_completion with a clone of the runner. *)
spawn(r) ==
  /\ at[r] = "spawning"
  /\ pending' = [pending EXCEPT ![[repo |-> r, series |-> current[r]]] = @ + 1]
  /\ at' = [at EXCEPT ![r] = "iterating"]
  /\ current' = [current EXCEPT ![r] = None]
  /\ UNCHANGED <<dbVars, runners, pushed, pass, pollVars, crashes, hubVars>>

new_job_watcher(r) ==
  begin_pass(r) \/ next_entry(r) \/ start_work(r) \/ move_to_working(r) \/ spawn(r)

-----------------------------------------------------------------------------
(* A free thread begins a spawned closure. *)
wait_for_completion(t, c) ==
  /\ pc[t] = "idle" /\ pending[c] > 0
  /\ pending' = [pending EXCEPT ![c] = @ - 1]
  /\ job' = [job EXCEPT ![t] = c]
  /\ pc' = [pc EXCEPT ![t] = "request"]
  /\ UNCHANGED <<dbVars, runners, pushed, watcherVars, response, results, completed, crashes, hubVars>>

(* get_progress: the request for the runs of the branch. *)
get_workflow_runs(t) ==
  /\ pc[t] = "request"
  /\ response' = [response EXCEPT ![t] =
       [w \in Workflows |-> IF Listed(runs[job[t]][w]) THEN runs[job[t]][w] ELSE NoBranch]]
  /\ pc' = [pc EXCEPT ![t] = "jobs"]
  /\ UNCHANGED <<dbVars, runners, pushed, watcherVars, pending, job, results, completed, crashes, hubVars>>

GetsError(t) ==
  \E w \in Workflows : Listed(response[t][w]) /\ ResultIsError(response[t][w], runs[job[t]][w])

(* Mutation: the filter for running jobs is missing. *)
ResultsOfRunning(run, jobs) ==
  IF ~Listed(run) THEN {"none"} ELSE ResultOutcomes(run, jobs)

(* A job that is neither Waiting nor Running is a finished one. *)
ResultsOf(run, jobs) ==
  CASE ~Listed(run) -> {"none"}
    [] Listed(run) /\ JobState(run) = "Running" -> {"unfinished"}
    [] OTHER -> ResultOutcomes(run, jobs)

(* The requests for the jobs of these runs, all answered. *)
get_jobs(t) ==
  /\ pc[t] = "jobs" /\ ~GetsError(t)
  /\ results' \in {[results EXCEPT ![t] = f] : f \in
       {g \in [Workflows -> Outcomes \cup {"unfinished", "none"}] :
          \A w \in Workflows : g[w] \in ResultsOf(response[t][w], runs[job[t]][w])}}
  /\ response' = [response EXCEPT ![t] = NoResponse]
  /\ pc' = [pc EXCEPT ![t] = "results"]
  /\ UNCHANGED <<dbVars, runners, pushed, watcherVars, pending, job, completed, crashes, hubVars>>

FinishedJobs(t) == {w \in Workflows : results[t][w] \in Outcomes}

(* outbound.insert(key, job), which replaces the result of that name. *)
send_result(t, w) ==
  /\ pc[t] = "results" /\ w \in FinishedJobs(t) \ completed[t]
  /\ LET new == [series |-> job[t].series, name |-> w, outcome |-> results[t][w]] IN
     db' = [db EXCEPT ![NeedsDispatch] =
       {e \in @ : e.series # new.series \/ e.name # new.name} \cup {new}]
  /\ completed' = [completed EXCEPT ![t] = @ \cup {w}]
  /\ UNCHANGED <<disk, runners, pushed, watcherVars, pending, job, pc, response, results, crashes, hubVars>>

(* Mutation: done as soon as one job has finished. *)
first_finished(t) ==
  /\ pc[t] = "results" /\ FinishedJobs(t) \subseteq completed[t]
  /\ LET done == FinishedJobs(t) # {} IN
     /\ pc' = [pc EXCEPT ![t] = IF done THEN "done" ELSE "request"]
     /\ results' = [results EXCEPT ![t] = IF done THEN @ ELSE NoResults]
  /\ UNCHANGED <<dbVars, runners, pushed, watcherVars, pending, job, response, completed, crashes, hubVars>>

(* Mutation: every workflow of the repository must have finished. *)
all_workflows_finished(t) ==
  /\ pc[t] = "results" /\ FinishedJobs(t) \subseteq completed[t]
  /\ LET done == FinishedJobs(t) = WorkflowsOf[job[t].repo] IN
     /\ pc' = [pc EXCEPT ![t] = IF done THEN "done" ELSE "request"]
     /\ results' = [results EXCEPT ![t] = IF done THEN @ ELSE NoResults]
  /\ UNCHANGED <<dbVars, runners, pushed, watcherVars, pending, job, response, completed, crashes, hubVars>>

(* Mutation: `jobs.len() >= finished_jobs.len()`. *)
one_round(t) ==
  /\ pc[t] = "results" /\ FinishedJobs(t) \subseteq completed[t]
  /\ pc' = [pc EXCEPT ![t] = "done"]
  /\ UNCHANGED <<dbVars, runners, pushed, watcherVars, pending, job, response, results, completed, crashes, hubVars>>

(* All finished jobs are sent: another round in 90 s, or out of the loop   *)
(* when there is no other job, and so too when there is no job at all.     *)
jobs_done(t) ==
  /\ pc[t] = "results" /\ FinishedJobs(t) \subseteq completed[t]
  /\ LET done == \A w \in Workflows : results[t][w] # "unfinished" IN
     /\ pc' = [pc EXCEPT ![t] = IF done THEN "done" ELSE "request"]
     /\ results' = [results EXCEPT ![t] = IF done THEN @ ELSE NoResults]
  /\ UNCHANGED <<dbVars, runners, pushed, watcherVars, pending, job, response, completed, crashes, hubVars>>

(* Mutation: the thread is free, yet holds on to the closure. *)
ReturnedHoldingJob(t) ==
  /\ pc' = [pc EXCEPT ![t] = "idle"]
  /\ results' = [results EXCEPT ![t] = NoResults]
  /\ completed' = [completed EXCEPT ![t] = {}]
  /\ UNCHANGED job

(* The thread's closure has returned. *)
Returned(t) ==
  /\ pc' = [pc EXCEPT ![t] = "idle"]
  /\ job' = [job EXCEPT ![t] = None]
  /\ results' = [results EXCEPT ![t] = NoResults]
  /\ completed' = [completed EXCEPT ![t] = {}]

(* Mutation: the entry stays in "github working". *)
returns_without_remove(t) ==
  /\ pc[t] = "done"
  /\ Returned(t)
  /\ UNCHANGED <<dbVars, runners, pushed, watcherVars, pending, response, crashes, hubVars>>

(* inbound.remove(local_branch_name), whoever put it there. *)
remove_from_working(t) ==
  /\ pc[t] = "done"
  /\ Remove(GithubWorking, job[t].series)
  /\ Returned(t)
  /\ UNCHANGED <<disk, runners, pushed, watcherVars, pending, response, crashes, hubVars>>

poll(t) ==
  \/ get_workflow_runs(t) \/ get_jobs(t)
  \/ \E w \in Workflows : send_result(t, w)
  \/ jobs_done(t) \/ remove_from_working(t)

-----------------------------------------------------------------------------
flush ==
  /\ crashes < MaxCrashes
  /\ Flush
  /\ UNCHANGED <<runners, pushed, watcherVars, pending, pollVars, crashes, hubVars>>

Restart ==
  /\ Recover
  /\ pushed' = {}
  /\ at' = [r \in Repos |-> "iterating"]
  /\ current' = [r \in Repos |-> None]
  /\ pass' = [r \in Repos |-> {}]
  /\ pending' = [c \in Closures |-> 0]
  /\ job' = [t \in Threads |-> None]
  /\ pc' = [t \in Threads |-> "idle"]
  /\ response' = [t \in Threads |-> NoResponse]
  /\ results' = [t \in Threads |-> NoResults]
  /\ completed' = [t \in Threads |-> {}]
  /\ UNCHANGED <<runners, hubVars>>

(* wait_for_completion's unwrap: get_progress returned an error. *)
abort(t) ==
  /\ pc[t] = "jobs" /\ GetsError(t)
  /\ Restart
  /\ UNCHANGED crashes

(* Every other death: a panic elsewhere, an API request that fails, a kill. *)
crash ==
  /\ crashes < MaxCrashes
  /\ crashes' = crashes + 1
  /\ Restart

dies == crash \/ \E t \in Threads : abort(t)

-----------------------------------------------------------------------------
github ==
  \E c \in Closures, w \in Workflows : run_starts(c, w) \/ run_ends(c, w) \/ rerun(c, w)

Next ==
  \/ \E c \in Closures, there \in BOOLEAN : push(c, there)
  \/ github
  \/ \E r \in Repos : new_job_watcher(r)
  \/ \E t \in Threads, c \in Closures : wait_for_completion(t, c)
  \/ \E t \in Threads : poll(t)
  \/ flush \/ dies

Spec == Init /\ [][Next]_vars

(* The threads keep running, and GitHub completes every run it starts. *)
FairSpec ==
  /\ Spec
  /\ \A r \in Repos : WF_vars(new_job_watcher(r))
  /\ WF_vars(\E t \in Threads, c \in Closures : wait_for_completion(t, c))
  /\ \A t \in Threads : WF_vars(poll(t) \/ abort(t))
  /\ \A c \in Closures, w \in Workflows : WF_vars(run_ends(c, w))

-----------------------------------------------------------------------------
TreesOK(d) ==
  /\ DOMAIN d = Trees
  /\ d[RunnerQueue] \subseteq Series /\ d[GithubWorking] \subseteq Series
  /\ d[NeedsDispatch] \subseteq Results

TypeOK ==
  /\ TreesOK(db) /\ TreesOK(disk)
  /\ runners \subseteq Repos /\ pushed \subseteq Closures
  /\ at \in [Repos -> {"iterating", "starting", "moving", "spawning"}]
  /\ current \in [Repos -> Series \cup {None}]
  /\ \A r \in Repos : at[r] # "iterating" <=> current[r] # None
  /\ pass \in [Repos -> SUBSET Series]
  /\ pending \in [Closures -> Nat]
  /\ job \in [Threads -> Closures \cup {None}]
  /\ pc \in [Threads -> {"idle", "request", "jobs", "results", "done"}]
  /\ \A t \in Threads : pc[t] # "idle" <=> job[t] # None
  /\ response \in [Threads -> [Workflows -> WorkflowRuns]]
  /\ results \in [Threads -> [Workflows -> Outcomes \cup {"unfinished", "none"}]]
  /\ completed \in [Threads -> SUBSET Workflows]
  /\ crashes \in 0..MaxCrashes
  /\ runs \in [Closures -> [Workflows -> WorkflowRuns]]
  /\ ended \in [Closures -> [Workflows -> SUBSET Endings]]
  /\ reruns \in 0..MaxReruns

(* A watcher is about to spawn, or the pool has, the closure of a series. *)
Cared(s) ==
  \/ \E r \in Repos : at[r] = "spawning" /\ current[r] = s
  \/ \E c \in Closures : pending[c] > 0 /\ c.series = s
  \/ \E t \in Threads : job[t] # None /\ job[t].series = s

(***************************************************************************)
(* Only the death of the process leaves an entry in "github working" that  *)
(* nobody polls for, though a series may be polled by several closures at  *)
(* once and the first to end removes the entry (runner.rs:90-97, 150).     *)
(***************************************************************************)
OnlyDeathOrphans ==
  [][~dies => \A s \in Working' : Cared(s)' \/ (s \in Working /\ ~Cared(s))]_vars

(***************************************************************************)
(* A poll that is over has left a result for every run GitHub listed in    *)
(* its last answer, and for every one it ever sent (runner.rs:121-148).    *)
(***************************************************************************)
DoneIsReported ==
  \A t \in Threads : pc[t] = "done" =>
    \A w \in Workflows : results[t][w] # "none" \/ w \in completed[t] =>
      \E e \in db[NeedsDispatch] : e.series = job[t].series /\ e.name = w

(* A failure the code's own words call "not the patch's fault".  *)
SetupFailed(jobs) == jobs.failures = 1 /\ jobs.setup

(* The outcomes that the answers about a run and about its jobs allow.     *)
Supports(run, jobs, outcome) ==
  /\ outcome = "success" => run.conclusion = "success"
  /\ outcome = "warning" => \/ run.conclusion \in {"neutral", "skipped", "stale"}
                            \/ run.conclusion = "success" /\ jobs.annotated
                            \/ run.conclusion = "failure" /\ SetupFailed(jobs)
  /\ outcome = "fail"    => /\ run.conclusion \notin {"success", "neutral", "skipped", "stale"}
                            /\ run.conclusion = "failure" => jobs.failures > 0

(* Runs on a branch have ended so; a run and its jobs are of one attempt   *)
(* unless there was a re-run.                                              *)
Backed(c, w, outcome) ==
  \E run, jobs \in ended[c][w] :
    Supports(run, jobs, outcome) /\ (reruns = 0 => run = jobs)

(***************************************************************************)
(* A result says what runs of its workflow on one runner's branch really   *)
(* ended as: neither of the two answers it is made of, which are of two    *)
(* moments, is that of a run under way, and where nothing was re-run both  *)
(* are of one attempt (github.rs:208-338, runner.rs:118-135).              *)
(***************************************************************************)
NoFalseVerdict ==
  \A e \in db[NeedsDispatch] : \E r \in Repos :
    Backed([repo |-> r, series |-> e.series], e.name, e.outcome)

(***************************************************************************)
(* "failed to run, not the patch's fault" (github.rs:264): a result is a   *)
(* Fail only if some run failed at more than "Set up job".                 *)
(***************************************************************************)
SetupFailureIsNoFail ==
  \A e \in db[NeedsDispatch] : e.outcome = "fail" =>
    \E r \in Repos : \E run, jobs \in ended[[repo |-> r, series |-> e.series]][e.name] :
      Supports(run, jobs, "fail") /\ ~(run.conclusion = "failure" /\ SetupFailed(jobs))

(***************************************************************************)
(* With one runner every queued series is taken, one whose branch starts   *)
(* no workflow too (github.rs:359-372), unless the process never stops     *)
(* dying.                                                                  *)
(***************************************************************************)
StaysUp == <>[][~dies]_vars
QueueDrains ==
  StaysUp => \A r \in Repos, s \in Series :
               runners = {r} /\ s \in Queue ~> s \notin Queue

(***************************************************************************)
(* Every poll comes to an end, however late GitHub starts a run and even   *)
(* if it starts none (runner.rs:118-152).                                  *)
(***************************************************************************)
PollsEnd == \A s \in Series : Cared(s) ~> ~Cared(s)

(***************************************************************************)
(* Of the database: "completely thread-safe, so that isn't a problem"      *)
(* (main.rs:80).  A watcher gets past its move, also with two of them.     *)
(***************************************************************************)
WatcherMovesOn == \A r \in Repos : at[r] = "moving" ~> at[r] # "moving"
=============================================================================
