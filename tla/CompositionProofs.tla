------------------------- MODULE CompositionProofs -------------------------
(***************************************************************************)
(* The components in one database: each still does what its own module     *)
(* allows it (ComponentsImplemented), so what was proved of it there holds *)
(* here as well (GuaranteesKept), and the guarantees of all three together *)
(* make every check that Patchwork gets a true one (ChecksAreTrue).        *)
(*                                                                         *)
(* GitView, RunnerView and D are the components' modules on the state of   *)
(* Snowpatch; GP, RP and DP are the modules with their proofs on the same  *)
(* state, so that the lemmas proved there can be cited here.               *)
(***************************************************************************)
EXTENDS SnowpatchProofs

GP == INSTANCE GitOpsProofs WITH
  pc <- gitPc,
  db <- OnTrees(db, G!Trees), disk <- OnTrees(disk, G!Trees)
RP == INSTANCE RunnerProofs WITH
  Repos <- Remotes, pc <- pollPc,
  db <- OnTrees(db, R!Trees), disk <- OnTrees(disk, R!Trees)
DP == INSTANCE DispatchProofs WITH
  Rejectable <- {}, db <- outbox, disk <- saved, pc <- sendPc

AllTrees == G!Trees \cup R!Trees
IsDb(d) == d = [t \in AllTrees |-> d[t]]

LEMMA TreeNames ==
  /\ G!Trees \subseteq AllTrees /\ R!Trees \subseteq AllTrees
  /\ Workers \subseteq G!Trees \ R!Trees
  /\ {"seen by watchcat", "needs testing", "awaiting git worker", "git failures"}
       \subseteq G!Trees \ R!Trees
  /\ "github queue" \in G!Trees \cap R!Trees
  /\ {"github working", "needs dispatch"} \subseteq R!Trees \ G!Trees
BY SnowpatchAssumption
   DEF AllTrees, G!Trees, G!GitTrees, G!GitQueues, G!NeedsTesting, G!AwaitingGitWorker,
       G!GitFailures, G!SeenByWatchcat, G!RunnerQueue, R!Trees, R!RunnerQueue, R!GithubWorking,
       R!NeedsDispatch, NeedsDispatch

LEMMA GitSees == \A t \in G!Trees : OnTrees(db, G!Trees)[t] = db[t]
BY DEF OnTrees

LEMMA GitViewOps ==
  ASSUME IsDb(db), NEW t \in G!Trees, NEW u \in G!Trees, NEW k
  PROVE  /\ G!Insert(t, k) => GitView!Insert(t, k)
         /\ G!Remove(t, k) => GitView!Remove(t, k)
         /\ t # u /\ G!move_to_new_queue(t, u, k) => GitView!move_to_new_queue(t, u, k)
<1>0. OnTrees(db, G!Trees)' = OnTrees(db', G!Trees)
  BY DEF OnTrees
<1>1. ASSUME G!Insert(t, k) PROVE GitView!Insert(t, k)
  BY <1>0, <1>1, TreeNames DEF G!Insert, GitView!Insert, IsDb, OnTrees
<1>2. ASSUME G!Remove(t, k) PROVE GitView!Remove(t, k)
  BY <1>0, <1>2, TreeNames DEF G!Remove, GitView!Remove, IsDb, OnTrees
<1>3. ASSUME t # u, G!move_to_new_queue(t, u, k) PROVE GitView!move_to_new_queue(t, u, k)
  BY <1>0, <1>3, TreeNames DEF G!move_to_new_queue, GitView!move_to_new_queue, IsDb, OnTrees
<1> QED BY <1>1, <1>2, <1>3

(* The git stage does in its trees what it does by itself. *)
LEMMA GitOwnSteps ==
  ASSUME IsDb(db), GitSteps
  PROVE  GitView!Next
<1> USE DEF G!dbVars, GitView!dbVars, G!listVars, GitView!listVars, G!threadVars, GitView!threadVars,
            G!gitVars, GitView!gitVars
<1> USE DEF G!SeenByWatchcat, GitView!SeenByWatchcat, G!NeedsTesting, GitView!NeedsTesting,
            G!AwaitingGitWorker, GitView!AwaitingGitWorker, G!GitFailures, GitView!GitFailures,
            G!RunnerQueue, GitView!RunnerQueue
<1>1. ASSUME NEW s \in Series, watchcat(s)
      PROVE  GitView!watchcat_sees(s) \/ GitView!watchcat_queues(s)
  BY <1>1, GitSees, GitViewOps, TreeNames
     DEF watchcat, G!watchcat_sees, GitView!watchcat_sees, G!watchcat_queues, GitView!watchcat_queues
<1>2. ASSUME NEW s \in Series, ingest(s) PROVE GitView!ingest(s)
  BY <1>2, GitViewOps, TreeNames DEF ingest, G!ingest, GitView!ingest
<1>3. ASSUME init_worktrees PROVE GitView!init_worktrees
  BY <1>3 DEF init_worktrees, G!init_worktrees, GitView!init_worktrees
<1>4. ASSUME NEW r \in Remotes, runner_init(r) PROVE GitView!runner_init(r)
  BY <1>4 DEF runner_init, G!runner_init, GitView!runner_init
<1>5. ASSUME NEW w \in Workers, git_worker(w) PROVE GitView!worker_step(w)
  <2> USE DEF G!Goto, GitView!Goto, G!ThreadReturns, GitView!ThreadReturns, G!Pushed, GitView!Pushed,
              G!HasBranch, GitView!HasBranch, G!Branch, GitView!Branch,
              G!Refusal, GitView!Refusal
  <2>0. w \in G!Trees /\ w # "awaiting git worker" /\ w # "git failures"
    BY TreeNames, SnowpatchAssumption DEF G!GitOpsAssumption
  <2>1. CASE queue_for_runner(w)
    BY <2>1, GitViewOps, TreeNames
       DEF queue_for_runner, G!queue_for_runner, GitView!queue_for_runner, GitView!worker_step
  <2>2. ASSUME NEW s \in Series, G!try_do_work(w, s) PROVE GitView!try_do_work(w, s)
    BY <2>2 DEF G!try_do_work, GitView!try_do_work
  <2>3. ASSUME G!leave_wait_loop(w) PROVE GitView!leave_wait_loop(w)
    BY <2>0, <2>3, GitSees DEF G!leave_wait_loop, GitView!leave_wait_loop
  <2>4. ASSUME G!claim_series(w) PROVE GitView!claim_series(w)
    BY <2>0, <2>4, GitViewOps, TreeNames DEF G!claim_series, GitView!claim_series
  <2>5. ASSUME G!clean_and_reset(w) PROVE GitView!clean_and_reset(w)
    BY <2>5 DEF G!clean_and_reset, GitView!clean_and_reset
  <2>6. ASSUME G!apply_series(w) PROVE GitView!apply_series(w)
    BY <2>6 DEF G!apply_series, GitView!apply_series
  <2>7. ASSUME G!commit_series(w) PROVE GitView!commit_series(w)
    BY <2>7 DEF G!commit_series, GitView!commit_series
  <2>8. ASSUME NEW r \in Remotes, G!push(w, r) PROVE GitView!push(w, r)
    BY <2>8 DEF G!push, GitView!push
  <2>9. ASSUME G!work_succeeds(w) PROVE GitView!work_succeeds(w)
    BY <2>0, <2>9, GitViewOps DEF G!work_succeeds, GitView!work_succeeds
  <2>10. ASSUME G!work_fails(w) PROVE GitView!work_fails(w)
    BY <2>0, <2>10, GitViewOps, TreeNames DEF G!work_fails, GitView!work_fails
  <2>11. ASSUME gitPc[w] # "queueing", G!worker_step(w) PROVE GitView!worker_step(w)
    BY <2>2, <2>3, <2>4, <2>5, <2>6, <2>7, <2>8, <2>9, <2>10, <2>11
       DEF G!worker_step, G!queue_for_runner, GitView!worker_step
  <2> QED BY <1>5, <2>1, <2>11 DEF git_worker
<1> QED BY <1>1, <1>2, <1>3, <1>4, <1>5 DEF GitSteps, GitView!Next

-----------------------------------------------------------------------------
LEMMA RunnerSees == \A t \in R!Trees : OnTrees(db, R!Trees)[t] = db[t]
BY DEF OnTrees

LEMMA RunnerViewOps ==
  ASSUME IsDb(db), NEW t \in R!Trees, NEW u \in R!Trees, NEW k
  PROVE  /\ R!Insert(t, k) => RunnerView!Insert(t, k)
         /\ R!Remove(t, k) => RunnerView!Remove(t, k)
         /\ t # u /\ R!move_to_new_queue(t, u, k) => RunnerView!move_to_new_queue(t, u, k)
<1>1. ASSUME R!Insert(t, k) PROVE RunnerView!Insert(t, k)
  BY <1>1, TreeNames DEF R!Insert, RunnerView!Insert, IsDb, OnTrees
<1>2. ASSUME R!Remove(t, k) PROVE RunnerView!Remove(t, k)
  BY <1>2, TreeNames DEF R!Remove, RunnerView!Remove, IsDb, OnTrees
<1>3. ASSUME t # u, R!move_to_new_queue(t, u, k) PROVE RunnerView!move_to_new_queue(t, u, k)
  BY <1>3, TreeNames DEF R!move_to_new_queue, RunnerView!move_to_new_queue, IsDb, OnTrees
<1> QED BY <1>1, <1>2, <1>3

LEMMA RunnerOwnSteps ==
  ASSUME IsDb(db), RunnerSteps
  PROVE  RunnerView!Next
<1> USE DEF R!dbVars, RunnerView!dbVars, R!watcherVars, RunnerView!watcherVars, R!pollVars,
            RunnerView!pollVars, R!hubVars, RunnerView!hubVars, R!Closures, RunnerView!Closures
<1> USE DEF R!RunnerQueue, RunnerView!RunnerQueue, R!GithubWorking, RunnerView!GithubWorking,
            R!NeedsDispatch, RunnerView!NeedsDispatch
<1> USE DEF R!NoBranch, RunnerView!NoBranch, R!Due, RunnerView!Due, R!Active, RunnerView!Active,
            R!Unfinished, RunnerView!Unfinished, R!NoResponse, RunnerView!NoResponse,
            R!NoResults, RunnerView!NoResults, R!Outcomes, RunnerView!Outcomes,
            R!Listed, RunnerView!Listed
<1>1. CASE github
  BY <1>1 DEF github, R!run_starts, RunnerView!run_starts, R!run_ends, RunnerView!run_ends,
     R!rerun, RunnerView!rerun, R!CompletedRuns, RunnerView!CompletedRuns, R!Conclusions,
     RunnerView!Conclusions, RunnerView!github, RunnerView!Next
<1>2. CASE wait_for_completion
  BY <1>2 DEF wait_for_completion, R!wait_for_completion, RunnerView!wait_for_completion,
     RunnerView!Next
<1>3. ASSUME NEW r \in Remotes, new_job_watcher(r) PROVE RunnerView!new_job_watcher(r)
  <2>1. ASSUME R!begin_pass(r) PROVE RunnerView!begin_pass(r)
    BY <2>1, RunnerSees, TreeNames DEF R!begin_pass, RunnerView!begin_pass, R!Queue, RunnerView!Queue
  <2>2. ASSUME R!move_to_working(r) PROVE RunnerView!move_to_working(r)
    BY <2>2, RunnerViewOps, TreeNames DEF R!move_to_working, RunnerView!move_to_working
  <2>3. ASSUME R!next_entry(r) \/ R!start_work(r) \/ R!spawn(r)
        PROVE  RunnerView!next_entry(r) \/ RunnerView!start_work(r) \/ RunnerView!spawn(r)
    BY <2>3 DEF R!next_entry, RunnerView!next_entry, R!start_work, RunnerView!start_work,
       R!spawn, RunnerView!spawn
  <2> QED BY <1>3, <2>1, <2>2, <2>3 DEF new_job_watcher, R!new_job_watcher, RunnerView!new_job_watcher
<1>4. ASSUME NEW t \in Threads, poll(t) PROVE RunnerView!poll(t)
  <2>1. ASSUME R!get_workflow_runs(t) PROVE RunnerView!get_workflow_runs(t)
    BY <2>1 DEF R!get_workflow_runs, RunnerView!get_workflow_runs
  <2>2. ASSUME R!get_jobs(t) PROVE RunnerView!get_jobs(t)
    BY <2>2 DEF R!get_jobs, RunnerView!get_jobs, R!GetsError, RunnerView!GetsError, R!ResultIsError,
       RunnerView!ResultIsError, R!ResultsOf, RunnerView!ResultsOf, R!JobState, RunnerView!JobState,
       R!ResultOutcomes, RunnerView!ResultOutcomes
  <2>3. ASSUME NEW w \in Workflows, send_result(t, w) PROVE RunnerView!send_result(t, w)
    BY <2>3, TreeNames DEF send_result, R!send_result, RunnerView!send_result, R!FinishedJobs,
       RunnerView!FinishedJobs, IsDb, OnTrees
  <2>4. ASSUME R!jobs_done(t) PROVE RunnerView!jobs_done(t)
    BY <2>4 DEF R!jobs_done, RunnerView!jobs_done, R!FinishedJobs, RunnerView!FinishedJobs
  <2>5. ASSUME R!remove_from_working(t) PROVE RunnerView!remove_from_working(t)
    BY <2>5, RunnerViewOps, TreeNames DEF R!remove_from_working, RunnerView!remove_from_working,
       R!Returned, RunnerView!Returned
  <2> QED BY <1>4, <2>1, <2>2, <2>3, <2>4, <2>5 DEF poll, RunnerView!poll
<1> QED BY <1>1, <1>2, <1>3, <1>4 DEF RunnerSteps, RunnerView!Next

(* The git stage's insert is the push of the runner's environment. *)
LEMMA QueueIsPush ==
  ASSUME IsDb(db), NEW w \in Workers, queue_for_runner(w), id[w] \in Series
  PROVE  RunnerView!Next
<1>1. PICK r \in Remotes : R!push([repo |-> r, series |-> id[w]], G!HasBranch(r, id[w]))
  BY DEF queue_for_runner
<1> DEFINE c     == [repo |-> r, series |-> id[w]]
           there == G!HasBranch(r, id[w])
<1>2. c \in RunnerView!Closures /\ there \in BOOLEAN
  BY DEF RunnerView!Closures, G!HasBranch
<1> HIDE DEF there
<1>3. RunnerView!push(c, there)
  BY <1>1, RunnerViewOps, TreeNames
     DEF R!push, RunnerView!push, R!RunnerQueue, RunnerView!RunnerQueue, R!NoBranch,
         RunnerView!NoBranch, R!Due, RunnerView!Due, R!Unfinished, RunnerView!Unfinished,
         R!watcherVars, RunnerView!watcherVars, R!pollVars, RunnerView!pollVars, there
<1> QED BY <1>2, <1>3 DEF RunnerView!Next

-----------------------------------------------------------------------------
(* What a step that leaves a component's trees and variables alone is to it. *)
LEMMA GitSame ==
  ASSUME UNCHANGED <<disk, gitVars, crashes>>, \A t \in G!Trees : db'[t] = db[t]
  PROVE  UNCHANGED GitView!vars
<1>1. OnTrees(db, G!Trees)' = OnTrees(db, G!Trees)
  BY DEF OnTrees
<1> QED BY <1>1 DEF gitVars, GitView!vars, GitView!dbVars, GitView!listVars, GitView!threadVars,
                    GitView!gitVars

LEMMA RunnerSame ==
  ASSUME UNCHANGED <<disk, runnerVars, crashes>>, \A t \in R!Trees : db'[t] = db[t]
  PROVE  UNCHANGED RunnerView!vars
<1>1. OnTrees(db, R!Trees)' = OnTrees(db, R!Trees)
  BY DEF OnTrees
<1> QED BY <1>1 DEF runnerVars, RunnerView!vars, RunnerView!dbVars, RunnerView!watcherVars,
                    RunnerView!pollVars, RunnerView!hubVars

(* The git stage writes to no tree of the runner but its queue. *)
LEMMA GitLeavesRunner ==
  ASSUME IsDb(db), GitSteps, \A w \in Workers : ~queue_for_runner(w)
  PROVE  UNCHANGED RunnerView!vars
<1> USE DEF G!SeenByWatchcat, G!NeedsTesting, G!AwaitingGitWorker, G!GitFailures
<1>1. UNCHANGED <<disk, runnerVars>> 
  BY DEF GitSteps, watchcat, ingest, init_worktrees, runner_init, git_worker, GitOnly,
     G!watchcat_sees, G!watchcat_queues, G!ingest, G!init_worktrees, G!runner_init, G!worker_step,
     G!try_do_work, G!leave_wait_loop, G!claim_series, G!clean_and_reset, G!apply_series,
     G!commit_series, G!push, G!queue_for_runner, G!work_succeeds, G!work_fails, G!dbVars
<1>2. UNCHANGED crashes
  BY DEF GitSteps, watchcat, ingest, init_worktrees, runner_init, git_worker,
     G!watchcat_sees, G!watchcat_queues, G!ingest, G!init_worktrees, G!runner_init, G!worker_step,
     G!try_do_work, G!leave_wait_loop, G!claim_series, G!clean_and_reset, G!apply_series,
     G!commit_series, G!push, G!queue_for_runner, G!work_succeeds, G!work_fails
<1>3. ASSUME NEW t \in R!Trees PROVE db'[t] = db[t]
  <2>1. ASSUME NEW s \in Series, watchcat(s) \/ ingest(s) PROVE db'[t] = db[t]
    BY <2>1, TreeNames DEF watchcat, ingest, G!watchcat_sees, G!watchcat_queues, G!ingest,
       G!Insert, G!move_to_new_queue, IsDb
  <2>2. CASE init_worktrees \/ \E r \in Remotes : runner_init(r)
    BY <2>2 DEF init_worktrees, runner_init, G!init_worktrees, G!runner_init, G!dbVars
  <2>3. ASSUME NEW w \in Workers, G!worker_step(w), gitPc[w] # "queueing" PROVE db'[t] = db[t]
    <3>1. t # w /\ t # "awaiting git worker" /\ t # "git failures"
      BY TreeNames
    <3>2. \/ UNCHANGED db
          \/ G!claim_series(w) \/ G!work_succeeds(w) \/ G!work_fails(w)
      BY <2>3 DEF G!worker_step, G!try_do_work, G!leave_wait_loop, G!clean_and_reset,
         G!apply_series, G!commit_series, G!push, G!queue_for_runner, G!dbVars
    <3> QED BY <3>1, <3>2, TreeNames
            DEF G!claim_series, G!work_succeeds, G!work_fails, G!move_to_new_queue, G!Remove, IsDb
  <2> QED BY <2>1, <2>2, <2>3 DEF GitSteps, git_worker
<1> QED BY <1>1, <1>2, <1>3, RunnerSame

(* All the git stage sees of the runner is that it takes from the queue. *)
LEMMA RunnerTakes ==
  ASSUME IsDb(db), RunnerSteps, \A r \in Remotes : at[r] = "moving" => current[r] \in Series
  PROVE  GitView!Next \/ UNCHANGED GitView!vars
<1> USE DEF R!RunnerQueue, R!GithubWorking, R!NeedsDispatch, R!dbVars
<1>1. UNCHANGED <<disk, gitVars, crashes>>
  BY DEF RunnerSteps, github, wait_for_completion, new_job_watcher, poll, send_result, RunnerOnly,
     R!run_starts, R!run_ends, R!rerun, R!wait_for_completion, R!new_job_watcher, R!begin_pass,
     R!next_entry, R!start_work, R!move_to_working, R!spawn, R!get_workflow_runs, R!get_jobs,
     R!send_result, R!jobs_done, R!remove_from_working
<1>2. ASSUME NEW r \in Remotes, R!move_to_working(r) PROVE GitView!runner_takes(current[r])
  <2>1. /\ current[r] \in db["github queue"]
        /\ db' = [db EXCEPT !["github queue"] = @ \ {current[r]},
                            !["github working"] = @ \cup {current[r]}]
    BY <1>2 DEF R!move_to_working, R!move_to_new_queue
  <2>2. /\ current[r] \in OnTrees(db, G!Trees)["github queue"]
        /\ GitView!Remove("github queue", current[r])
    BY <2>1, TreeNames DEF GitView!Remove, IsDb, OnTrees
  <2> QED BY <1>1, <2>2 DEF GitView!runner_takes, GitView!RunnerQueue, gitVars, GitView!listVars,
                            GitView!threadVars, GitView!gitVars
<1>3. ASSUME \A r \in Remotes : ~R!move_to_working(r), NEW t \in G!Trees PROVE db'[t] = db[t]
  <2>1. t # "github working" /\ t # "needs dispatch"
    BY TreeNames
  <2>2. \/ UNCHANGED db
        \/ \E x \in Threads : R!remove_from_working(x) \/ \E w \in Workflows : R!send_result(x, w)
    BY <1>3 DEF RunnerSteps, github, wait_for_completion, new_job_watcher, poll, send_result,
       R!run_starts, R!run_ends, R!rerun, R!wait_for_completion, R!new_job_watcher, R!begin_pass,
       R!next_entry, R!start_work, R!spawn, R!get_workflow_runs, R!get_jobs, R!jobs_done
  <2> QED BY <2>1, <2>2, TreeNames DEF R!remove_from_working, R!Remove, R!send_result, IsDb
<1>4. CASE \E r \in Remotes : R!move_to_working(r)
  BY <1>2, <1>4 DEF GitView!Next, R!move_to_working
<1>5. CASE \A r \in Remotes : ~R!move_to_working(r)
  BY <1>1, <1>3, <1>5, GitSame
<1> QED BY <1>4, <1>5

-----------------------------------------------------------------------------
(* One flush for all the trees, and one restart. *)
LEMMA FlushParts ==
  ASSUME flush
  PROVE  GitView!flush /\ RunnerView!flush /\ (D!flush \/ UNCHANGED D!vars)
<1>1. GitView!flush
  BY DEF flush, G!flush, G!Flush, GitView!flush, GitView!Flush, OnTrees, G!listVars, G!threadVars,
     GitView!threadVars, G!gitVars, GitView!gitVars
<1>2. RunnerView!flush
  BY DEF flush, R!flush, R!Flush, RunnerView!flush, RunnerView!Flush, OnTrees, R!watcherVars,
     RunnerView!watcherVars, R!pollVars, RunnerView!pollVars, R!hubVars, RunnerView!hubVars
<1>3. D!flush \/ UNCHANGED D!vars
  BY DEF flush, R!flush, D!flush, D!Flush, D!vars, D!dbVars, D!given
<1> QED BY <1>1, <1>2, <1>3

LEMMA RestartParts ==
  /\ G!Restart => GitView!Restart
  /\ R!Restart => RunnerView!Restart
<1>1. ASSUME G!Restart PROVE GitView!Restart
  BY <1>1 DEF G!Restart, G!Recover, GitView!Restart, GitView!Recover, OnTrees, G!gitVars,
     GitView!gitVars, G!AllIdle, GitView!AllIdle, G!NoJob, GitView!NoJob
<1>2. ASSUME R!Restart PROVE RunnerView!Restart
  BY <1>2 DEF R!Restart, R!Recover, RunnerView!Restart, RunnerView!Recover, OnTrees, R!hubVars,
     RunnerView!hubVars, R!Closures, RunnerView!Closures, R!NoResponse, RunnerView!NoResponse,
     R!NoResults, RunnerView!NoResults, R!NoBranch, RunnerView!NoBranch, R!Unfinished,
     RunnerView!Unfinished
<1> QED BY <1>1, <1>2

LEMMA DeathParts ==
  /\ crash => GitView!crash /\ RunnerView!crash /\ D!crash
  /\ \A t \in Threads : abort(t) =>
       /\ UncountedDeath(GitView!Restart)
       /\ RunnerView!abort(t)
       /\ UncountedDeath(D!AbandonedPost /\ D!Restart)
<1>1. ASSUME crash PROVE GitView!crash /\ RunnerView!crash /\ D!crash
  BY <1>1, RestartParts DEF crash, R!crash, OthersRestart, GitView!crash, RunnerView!crash, D!crash
<1>2. ASSUME NEW t \in Threads, abort(t)
      PROVE  /\ UncountedDeath(GitView!Restart)
             /\ RunnerView!abort(t)
             /\ UncountedDeath(D!AbandonedPost /\ D!Restart)
  <2>1. R!abort(t) /\ OthersRestart
    BY <1>2 DEF abort
  <2>2. R!Restart /\ UNCHANGED crashes /\ pollPc[t] = "jobs" /\ R!GetsError(t)
    BY <2>1 DEF R!abort
  <2>3. RunnerView!GetsError(t)
    BY <2>2 DEF R!GetsError, RunnerView!GetsError, R!Listed, RunnerView!Listed, R!ResultIsError,
       RunnerView!ResultIsError
  <2> QED BY <2>1, <2>2, <2>3, RestartParts DEF OthersRestart, UncountedDeath, RunnerView!abort
<1> QED BY <1>1, <1>2

-----------------------------------------------------------------------------
(* Dispatch's variables change in its own steps and by an insert. *)
LEMMA DispatchParts ==
  /\ dispatch \/ (\E c \in Contexts : late_post(c)) => D!Next
  /\ IInv /\ RunnerSteps => D!Next \/ UNCHANGED D!vars
  /\ GitSteps => UNCHANGED D!vars
<1> USE DEF D!vars, D!dbVars, D!given, dispatchVars
<1>1. ASSUME dispatch \/ \E c \in Contexts : late_post(c) PROVE D!Next
  BY <1>1 DEF dispatch, next_entry, wait_for_tree, late_post, D!Next, D!wait_and_send
<1>2. ASSUME IInv, RunnerSteps PROVE D!Next \/ UNCHANGED D!vars
  <2>1. ASSUME NEW t \in Threads, NEW w \in Workflows, send_result(t, w)
        PROVE  D!Next \/ UNCHANGED D!vars
    <3>1. KeyOf[job[t].series][w] \in Keys /\ UNCHANGED crashes
      BY <1>2, <2>1, KeysTyped DEF IInv, PollInv, send_result, R!send_result
    <3> QED BY <2>1, <3>1 DEF send_result, D!Next
  <2>2. CASE RunnerOnly
    BY <2>2 DEF RunnerOnly
  <2>3. UNCHANGED crashes
    BY <1>2 DEF RunnerSteps, github, wait_for_completion, new_job_watcher, poll, send_result, RunnerOnly
  <2> QED BY <1>2, <2>1, <2>2 DEF RunnerSteps, github, wait_for_completion, new_job_watcher, poll
<1>3. ASSUME GitSteps PROVE UNCHANGED D!vars
  <2>1. UNCHANGED dispatchVars
    BY <1>3 DEF GitSteps, watchcat, ingest, init_worktrees, runner_init, git_worker,
       queue_for_runner, GitOnly
  <2>2. UNCHANGED crashes
    BY <1>3 DEF GitSteps, watchcat, ingest, init_worktrees, runner_init, git_worker,
       queue_for_runner, G!watchcat_sees, G!watchcat_queues, G!ingest, G!init_worktrees,
       G!runner_init, G!worker_step, G!try_do_work, G!leave_wait_loop, G!claim_series,
       G!clean_and_reset, G!apply_series, G!commit_series, G!push, G!queue_for_runner,
       G!work_succeeds, G!work_fails
  <2> QED BY <2>1, <2>2
<1> QED BY <1>1, <1>2, <1>3

-----------------------------------------------------------------------------
(* The trees of the composition stay what they are. *)
LEMMA ShapeNext ==
  ASSUME IsDb(db), IsDb(disk), [Next]_vars
  PROVE  IsDb(db') /\ IsDb(disk')
<1>1. \/ UNCHANGED <<db, disk>>
      \/ db' = disk /\ UNCHANGED disk
      \/ disk' = db /\ UNCHANGED db
      \/ UNCHANGED disk /\ DOMAIN db' = DOMAIN db /\ db' = [t \in DOMAIN db |-> db'[t]]
  <2>1. CASE GitSteps
    BY <2>1 DEF GitSteps, watchcat, ingest, init_worktrees, runner_init, git_worker,
       queue_for_runner, G!watchcat_sees, G!watchcat_queues, G!ingest, G!init_worktrees,
       G!runner_init, G!worker_step, G!try_do_work, G!leave_wait_loop, G!claim_series,
       G!clean_and_reset, G!apply_series, G!commit_series, G!push, G!queue_for_runner,
       G!work_succeeds, G!work_fails, G!dbVars, G!Insert, G!Remove, G!move_to_new_queue, IsDb
  <2>2. CASE RunnerSteps
    BY <2>2 DEF RunnerSteps, github, wait_for_completion, new_job_watcher, poll, send_result,
     R!run_starts, R!run_ends, R!rerun, R!wait_for_completion, R!new_job_watcher, R!begin_pass,
     R!next_entry, R!start_work, R!move_to_working, R!spawn, R!get_workflow_runs, R!get_jobs,
     R!send_result, R!jobs_done, R!remove_from_working, R!dbVars, R!Remove, R!move_to_new_queue, IsDb
  <2>3. CASE dispatch \/ (\E c \in Contexts : late_post(c)) \/ UNCHANGED vars
    BY <2>3 DEF dispatch, late_post, DispatchOnly, dbVars, vars
  <2>4. CASE flush
    BY <2>4 DEF flush, G!flush, G!Flush
  <2>5. CASE crash \/ \E t \in Threads : abort(t)
    BY <2>5 DEF crash, abort, R!crash, R!abort, R!Restart, R!Recover
  <2> QED BY <2>1, <2>2, <2>3, <2>4, <2>5 DEF Next, GitSteps, RunnerSteps
<1> QED BY <1>1 DEF IsDb

-----------------------------------------------------------------------------
(***************************************************************************)
(* Each component's module and its proofs, instantiated here, are about    *)
(* one and the same component.                                             *)
(***************************************************************************)
LEMMA Assumptions ==
  GP!GitOpsAssumption /\ RP!RunnerAssumption /\ DP!DispatchAssumption
BY SnowpatchAssumption
   DEF G!GitOpsAssumption, GP!GitOpsAssumption, G!NeedsTesting, GP!NeedsTesting,
       G!AwaitingGitWorker, GP!AwaitingGitWorker, G!GitFailures, GP!GitFailures,
       G!SeenByWatchcat, GP!SeenByWatchcat, G!RunnerQueue, GP!RunnerQueue,
       R!RunnerAssumption, RP!RunnerAssumption, R!Closures, RP!Closures,
       R!CompletedRuns, RP!CompletedRuns, R!Conclusions, RP!Conclusions,
       D!DispatchAssumption, DP!DispatchAssumption

LEMMA GitViewIsGP ==
  /\ GitView!Init => GP!Init
  /\ [GitView!Next]_(GitView!vars) => [GP!Next]_(GP!vars)
  /\ GitView!Restart => GP!Restart
<1> USE DEF GitView!SeenByWatchcat, GitView!NeedsTesting, GitView!AwaitingGitWorker,
       GitView!GitFailures, GitView!RunnerQueue, GP!SeenByWatchcat, GP!NeedsTesting,
       GP!AwaitingGitWorker, GP!GitFailures, GP!RunnerQueue
<1> USE DEF GitView!dbVars, GitView!listVars, GitView!threadVars, GitView!gitVars, GP!dbVars,
       GP!listVars, GP!threadVars, GP!gitVars, GitView!AllIdle, GP!AllIdle, GitView!NoJob, GP!NoJob
<1>1. GitView!Init => GP!Init
  BY DEF GitView!Init, GP!Init, GitView!EmptyDb, GP!EmptyDb, GitView!Trees, GP!Trees,
     GitView!GitTrees, GP!GitTrees, GitView!GitQueues, GP!GitQueues
<1>2. GitView!Restart => GP!Restart
  BY DEF GitView!Restart, GP!Restart, GitView!Recover, GP!Recover
<1>3. ASSUME NEW w \in Workers, GitView!worker_step(w) PROVE GP!worker_step(w)
  BY <1>3 DEF GitView!worker_step, GP!worker_step, GitView!try_do_work, GP!try_do_work,
     GitView!leave_wait_loop, GP!leave_wait_loop, GitView!claim_series, GP!claim_series,
     GitView!clean_and_reset, GP!clean_and_reset, GitView!apply_series, GP!apply_series,
     GitView!commit_series, GP!commit_series, GitView!push, GP!push, GitView!queue_for_runner,
     GP!queue_for_runner, GitView!work_succeeds, GP!work_succeeds, GitView!work_fails,
     GP!work_fails, GitView!Goto, GP!Goto, GitView!ThreadReturns, GP!ThreadReturns,
     GitView!Pushed, GP!Pushed, GitView!HasBranch, GP!HasBranch, GitView!Branch, GP!Branch,
     GitView!Refusal, GP!Refusal,
     GitView!Insert, GP!Insert, GitView!Remove, GP!Remove, GitView!move_to_new_queue,
     GP!move_to_new_queue
<1>4. GitView!Next => GP!Next
  BY <1>2, <1>3 DEF GitView!Next, GP!Next, GitView!watchcat_sees, GP!watchcat_sees,
     GitView!watchcat_queues, GP!watchcat_queues, GitView!runner_takes, GP!runner_takes,
     GitView!ingest, GP!ingest, GitView!init_worktrees, GP!init_worktrees, GitView!runner_init,
     GP!runner_init, GitView!flush, GP!flush, GitView!crash, GP!crash, GitView!Flush, GP!Flush,
     GitView!Insert, GP!Insert, GitView!Remove, GP!Remove, GitView!move_to_new_queue,
     GP!move_to_new_queue
<1> QED BY <1>1, <1>2, <1>4 DEF GitView!vars, GP!vars

LEMMA RunnerViewIsRP ==
  /\ RunnerView!Init => RP!Init
  /\ [RunnerView!Next]_(RunnerView!vars) => [RP!Next]_(RP!vars)
<1> USE DEF RunnerView!RunnerQueue, RP!RunnerQueue, RunnerView!GithubWorking, RP!GithubWorking,
       RunnerView!NeedsDispatch, RP!NeedsDispatch, RunnerView!Closures, RP!Closures,
       RunnerView!dbVars, RP!dbVars, RunnerView!watcherVars, RP!watcherVars, RunnerView!pollVars,
       RP!pollVars, RunnerView!hubVars, RP!hubVars
<1> USE DEF RunnerView!NoResponse, RP!NoResponse, RunnerView!NoResults, RP!NoResults,
       RunnerView!NoBranch, RP!NoBranch, RunnerView!Due, RP!Due, RunnerView!Active, RP!Active,
       RunnerView!Unfinished, RP!Unfinished, RunnerView!Listed, RP!Listed, RunnerView!Outcomes,
       RP!Outcomes
<1>1. RunnerView!Init => RP!Init
  BY DEF RunnerView!Init, RP!Init, RunnerView!Trees, RP!Trees
<1>2. RunnerView!Restart => RP!Restart
  BY DEF RunnerView!Restart, RP!Restart, RunnerView!Recover, RP!Recover
<1>3. ASSUME NEW t \in Threads, RunnerView!GetsError(t) <=> RP!GetsError(t)
      PROVE  /\ RunnerView!poll(t) => RP!poll(t)
             /\ RunnerView!abort(t) => RP!abort(t)
  <2>1. RunnerView!poll(t) => RP!poll(t)
    BY <1>3 DEF RunnerView!poll, RP!poll, RunnerView!get_workflow_runs, RP!get_workflow_runs,
     RunnerView!get_jobs, RP!get_jobs, RunnerView!ResultsOf, RP!ResultsOf, RunnerView!JobState,
     RP!JobState, RunnerView!ResultOutcomes, RP!ResultOutcomes, RunnerView!send_result,
     RP!send_result, RunnerView!jobs_done, RP!jobs_done, RunnerView!FinishedJobs,
     RP!FinishedJobs, RunnerView!remove_from_working, RP!remove_from_working,
     RunnerView!Returned, RP!Returned, RunnerView!Remove, RP!Remove
  <2>2. RunnerView!abort(t) => RP!abort(t)
    BY <1>2, <1>3 DEF RunnerView!abort, RP!abort
  <2> QED BY <2>1, <2>2
<1>4. ASSUME NEW t \in Threads PROVE RunnerView!GetsError(t) <=> RP!GetsError(t)
  BY DEF RunnerView!GetsError, RP!GetsError, RunnerView!ResultIsError, RP!ResultIsError
<1>5. RunnerView!github => RP!github
  BY DEF RunnerView!github, RP!github, RunnerView!run_starts, RP!run_starts,
     RunnerView!run_ends, RP!run_ends, RunnerView!rerun, RP!rerun, RunnerView!CompletedRuns,
     RP!CompletedRuns, RunnerView!Conclusions, RP!Conclusions
<1>6. ASSUME NEW r \in Remotes, RunnerView!new_job_watcher(r) PROVE RP!new_job_watcher(r)
  BY <1>6 DEF RunnerView!new_job_watcher, RP!new_job_watcher, RunnerView!begin_pass,
     RP!begin_pass, RunnerView!Queue, RP!Queue, RunnerView!next_entry, RP!next_entry,
     RunnerView!start_work, RP!start_work, RunnerView!move_to_working, RP!move_to_working,
     RunnerView!move_to_new_queue, RP!move_to_new_queue, RunnerView!spawn, RP!spawn
<1>7. /\ \A c \in RP!Closures, there \in BOOLEAN :
           RunnerView!push(c, there) => RP!push(c, there)
      /\ \A t \in Threads, c \in RP!Closures :
           RunnerView!wait_for_completion(t, c) => RP!wait_for_completion(t, c)
      /\ RunnerView!flush => RP!flush
  BY DEF RunnerView!push, RP!push, RunnerView!Insert, RP!Insert, RunnerView!wait_for_completion,
     RP!wait_for_completion, RunnerView!flush, RP!flush, RunnerView!Flush, RP!Flush
<1>8. RunnerView!dies => RP!dies
  BY <1>2, <1>3, <1>4 DEF RunnerView!dies, RP!dies, RunnerView!crash, RP!crash
<1>9. RunnerView!Next => RP!Next
  BY <1>3, <1>4, <1>5, <1>6, <1>7, <1>8 DEF RunnerView!Next, RP!Next
<1> QED BY <1>1, <1>9 DEF RunnerView!vars, RP!vars

LEMMA DispatchIsDP ==
  /\ D!Init => DP!Init
  /\ [D!Next]_(D!vars) => [DP!Next]_(DP!vars)
  /\ D!AbandonedPost /\ D!Restart => DP!AbandonedPost /\ DP!Restart
<1> USE DEF D!NeedsDispatch, DP!NeedsDispatch, D!dbVars, DP!dbVars, D!given, DP!given
<1>1. D!Init => DP!Init
  BY DEF D!Init, DP!Init
<1>2. D!AbandonedPost /\ D!Restart => DP!AbandonedPost /\ DP!Restart
  BY DEF D!AbandonedPost, DP!AbandonedPost, D!Restart, DP!Restart, D!Recover, DP!Recover
<1>3. D!wait_and_send => DP!wait_and_send
  BY DEF D!wait_and_send, DP!wait_and_send, D!next_entry, DP!next_entry, D!skip_entry,
     DP!skip_entry, D!drop_entry, DP!drop_entry, D!Remove, DP!Remove, D!duplicate_protection,
     DP!duplicate_protection, D!post, DP!post, D!Sent, DP!Sent, D!reject, DP!reject, D!Restart,
     DP!Restart, D!Recover, DP!Recover, D!end_of_entries, DP!end_of_entries, D!wait_for_tree,
     DP!wait_for_tree, D!Entries, DP!Entries, D!Ahead, DP!Ahead, D!FirstAhead, DP!FirstAhead,
     D!Reported, DP!Reported
<1>4. D!Next => DP!Next
  BY <1>2, <1>3 DEF D!Next, DP!Next, D!finish_job, DP!finish_job, D!Insert, DP!Insert,
     D!Entries, DP!Entries, D!flush, DP!flush, D!Flush, DP!Flush, D!crash, DP!crash,
     D!late_post, DP!late_post
<1> QED BY <1>1, <1>2, <1>4 DEF D!vars, DP!vars

-----------------------------------------------------------------------------
(***************************************************************************)
(* The invariants of the components hold in the composition: each was      *)
(* proved of its module's steps, and that is what the composition takes.   *)
(***************************************************************************)
GitInv == GP!IInv
RunnerInv == RP!TypeOK /\ RP!RunsInv /\ RP!HonestInv
DispatchInv == DP!TypeOK /\ DP!PostingInv /\ DP!OneCheckPerContext

AllInv == IInv /\ IsDb(db) /\ IsDb(disk) /\ GitInv /\ RunnerInv /\ DispatchInv

LEMMA AllInit == Init => AllInv
<1> SUFFICES ASSUME Init PROVE AllInv
  OBVIOUS
<1>1. IInv /\ IsDb(db) /\ IsDb(disk)
  BY Initially DEF Init, IsDb, AllTrees
<1>2. GitInv
  BY Assumptions, GitViewIsGP, GP!InvInit DEF Init, GitInv
<1>3. RunnerInv
  BY Assumptions, RunnerViewIsRP, RP!TypeInit, RP!RunsInit DEF Init, RunnerInv
<1>4. DispatchInv
  BY Assumptions, DispatchIsDP, DP!TypeInit, DP!OnceInit DEF Init, DispatchInv
<1> QED BY <1>1, <1>2, <1>3, <1>4 DEF AllInv

(* What is needed of them for one component to meet the others. *)
LEMMA Holders ==
  ASSUME GitInv, RunnerInv
  PROVE  /\ \A w \in Workers : gitPc[w] # "idle" => id[w] \in Series
         /\ \A r \in Remotes : at[r] = "moving" => current[r] \in Series
BY DEF GitInv, RunnerInv, GP!IInv, GP!TypeOK, RP!TypeOK

LEMMA ComponentSteps ==
  ASSUME IInv, IsDb(db), GitInv, RunnerInv, [Next]_vars
  PROVE  /\ [GitView!Next \/ UncountedDeath(GitView!Restart)]_(GitView!vars)
         /\ [RunnerView!Next]_(RunnerView!vars)
         /\ [D!Next \/ UncountedDeath(D!AbandonedPost /\ D!Restart)]_(D!vars)
<1>1. CASE GitSteps
  <2>1. ASSUME NEW w \in Workers, queue_for_runner(w) PROVE RunnerView!Next
    <3>1. id[w] \in Series
      BY <2>1, Holders DEF queue_for_runner, G!queue_for_runner
    <3> QED BY <2>1, <3>1, QueueIsPush
  <2> QED BY <1>1, <2>1, GitOwnSteps, GitLeavesRunner, DispatchParts
<1>2. CASE RunnerSteps
  BY <1>2, RunnerOwnSteps, RunnerTakes, Holders, DispatchParts
<1>3. CASE dispatch \/ \E c \in Contexts : late_post(c)
  <2>1. UNCHANGED GitView!vars /\ UNCHANGED RunnerView!vars
    BY <1>3, GitSame, RunnerSame DEF dispatch, late_post, DispatchOnly, dbVars
  <2> QED BY <1>3, <2>1, DispatchParts
<1>4. CASE flush
  BY <1>4, FlushParts DEF GitView!Next, RunnerView!Next, D!Next
<1>5. CASE crash
  BY <1>5, DeathParts DEF GitView!Next, RunnerView!Next, RunnerView!dies, D!Next
<1>6. ASSUME NEW t \in Threads, abort(t)
      PROVE  /\ UncountedDeath(GitView!Restart) /\ RunnerView!Next
             /\ UncountedDeath(D!AbandonedPost /\ D!Restart)
  BY <1>6, DeathParts DEF RunnerView!Next, RunnerView!dies
<1>7. CASE UNCHANGED vars
  <2>1. UNCHANGED GitView!vars /\ UNCHANGED RunnerView!vars
    BY <1>7, GitSame, RunnerSame DEF vars, dbVars
  <2>2. UNCHANGED D!vars
    BY <1>7 DEF vars, dispatchVars, D!vars, D!dbVars, D!given
  <2> QED BY <2>1, <2>2
<1> QED BY <1>1, <1>2, <1>3, <1>4, <1>5, <1>6, <1>7 DEF Next, GitSteps, RunnerSteps

LEMMA AllNext == AllInv /\ [Next]_vars => AllInv'
<1> SUFFICES ASSUME AllInv, [Next]_vars PROVE AllInv'
  OBVIOUS
<1>1. IInv' /\ IsDb(db') /\ IsDb(disk')
  BY InvNext, ShapeNext DEF AllInv
<1>2. GitInv'
  <2>1. CASE [GitView!Next]_(GitView!vars)
    BY <2>1, Assumptions, GitViewIsGP, GP!InvNext DEF AllInv, GitInv
  <2>2. CASE UncountedDeath(GitView!Restart)
    BY <2>2, Assumptions, GitViewIsGP, GP!InvDeath DEF AllInv, GitInv, UncountedDeath
  <2> QED BY <2>1, <2>2, ComponentSteps DEF AllInv
<1>3. RunnerInv'
  BY ComponentSteps, Assumptions, RunnerViewIsRP, RP!TypeNext, RP!RunsNext, RP!HonestNext
     DEF AllInv, RunnerInv
<1>4. DispatchInv'
  <2>1. CASE [D!Next]_(D!vars)
    BY <2>1, Assumptions, DispatchIsDP, DP!TypeNext, DP!OnceNext DEF AllInv, DispatchInv
  <2>2. CASE UncountedDeath(D!AbandonedPost /\ D!Restart)
    BY <2>2, Assumptions, DispatchIsDP, DP!OnceDeath DEF AllInv, DispatchInv, UncountedDeath
  <2> QED BY <2>1, <2>2, ComponentSteps DEF AllInv
<1> QED BY <1>1, <1>2, <1>3, <1>4 DEF AllInv

(***************************************************************************)
(* What the components do in one database is, for each of them, what its   *)
(* own module allows: the contracts between git stage, runner and dispatch *)
(* hold (git.rs:404-429, runner.rs:78-150, dispatch.rs:22-54), through     *)
(* every death of the process they share (main.rs:129-152).                *)
(***************************************************************************)
THEOREM ComponentsImplemented == Spec => ImplementsComponents
<1>1. Spec => []AllInv
  BY AllInit, AllNext, PTL DEF Spec
<1>2. Init => GitView!Init /\ RunnerView!Init /\ D!Init
  BY DEF Init
<1>3. AllInv /\ [Next]_vars =>
        /\ [GitView!Next \/ UncountedDeath(GitView!Restart)]_(GitView!vars)
        /\ [RunnerView!Next]_(RunnerView!vars)
        /\ [D!Next \/ UncountedDeath(D!AbandonedPost /\ D!Restart)]_(D!vars)
  BY ComponentSteps DEF AllInv
<1> QED BY <1>1, <1>2, <1>3, PTL
        DEF Spec, ImplementsComponents, ImplementsGitOps, ImplementsRunner, ImplementsDispatch,
            RunnerView!Spec

(***************************************************************************)
(* What was proved of the components by themselves survives their being    *)
(* put together: no series is in two trees of the git stage or moved by a  *)
(* thread that does not own it (git.rs:163-205), the runner's queue holds  *)
(* no series but one some remote has the branch of, or refused the         *)
(* reference of without do_work being told (git.rs:404-429), the contract  *)
(* with the watchcat is kept (git.rs:158-209), no entry is left in "github *)
(* working" but by a death (runner.rs:90-150), a poll that ends has        *)
(* reported (runner.rs:121-148), and no context gets a second check unless *)
(* Patchwork processes a POST its sender gave up on (patchwork.rs:176-195).*)
(***************************************************************************)
THEOREM GuaranteesKept ==
  Spec => /\ [](GP!OneGitTree /\ GP!JobsHaveEntries /\ GP!QueuedIsPushed)
          /\ GP!ImplementsSource
          /\ RP!OnlyDeathOrphans /\ []RP!DoneIsReported
          /\ []DP!OneCheckPerContext
<1>1. Spec => []AllInv
  BY AllInit, AllNext, PTL DEF Spec
<1>2. AllInv => GP!OneGitTree /\ GP!JobsHaveEntries /\ GP!QueuedIsPushed
  BY DEF AllInv, GitInv, GP!IInv, GP!DbInv, GP!BranchInv
<1>3. Spec => RP!Spec
  <2>1. Init => RP!Init
    BY RunnerViewIsRP DEF Init
  <2>2. AllInv /\ [Next]_vars => [RP!Next]_(RP!vars)
    BY ComponentSteps, RunnerViewIsRP DEF AllInv
  <2> QED BY <1>1, <2>1, <2>2, PTL DEF Spec, RP!Spec
<1>4. RP!Spec => RP!OnlyDeathOrphans /\ []RP!DoneIsReported
  BY Assumptions, RP!OrphansAreFromDeaths, RP!PollsReport
<1>5. AllInv => DP!OneCheckPerContext
  BY DEF AllInv, DispatchInv
<1>6. Spec => GP!ImplementsSource
  <2>1. Init => GP!Source!Init
    BY Assumptions, GitViewIsGP, GP!SourceInit DEF Init
  <2>2. AllInv /\ [Next]_vars => [GP!Source!Next]_(GP!Source!vars)
    <3> SUFFICES ASSUME AllInv, [Next]_vars PROVE [GP!Source!Next]_(GP!Source!vars)
      OBVIOUS
    <3>1. CASE [GitView!Next]_(GitView!vars)
      BY <3>1, Assumptions, GitViewIsGP, GP!SourceNext DEF AllInv, GitInv, GP!IInv
    <3>2. CASE UncountedDeath(GitView!Restart)
      BY <3>2, Assumptions, GitViewIsGP, GP!SourceDeath DEF UncountedDeath, GP!Source!Next
    <3> QED BY <3>1, <3>2, ComponentSteps DEF AllInv
  <2> QED BY <1>1, <2>1, <2>2, PTL DEF Spec, GP!ImplementsSource, GP!Source!Spec
<1> QED BY <1>1, <1>2, <1>3, <1>4, <1>5, <1>6, PTL

-----------------------------------------------------------------------------
(***************************************************************************)
(* GitHub runs workflows only on branches that it has.                     *)
(***************************************************************************)
OnGitHub(c) == G!HasBranch(c.repo, c.series)

HubInv ==
  \A c \in R!Closures, w \in Workflows :
    runs[c][w] # R!NoBranch \/ ended[c][w] # {} => OnGitHub(c)

LEMMA BranchesStay == AllInv /\ [Next]_vars => \A c : OnGitHub(c) => OnGitHub(c)'
<1> SUFFICES ASSUME AllInv, [Next]_vars PROVE refs \subseteq refs'
  BY DEF OnGitHub, G!HasBranch
<1>1. [GitView!Next \/ UncountedDeath(GitView!Restart)]_(GitView!vars)
  BY ComponentSteps DEF AllInv
<1> QED BY <1>1
        DEF GitView!Next, GitView!vars, GitView!gitVars, UncountedDeath, GitView!Restart,
            GitView!watchcat_sees, GitView!watchcat_queues, GitView!runner_takes, GitView!ingest,
            GitView!init_worktrees, GitView!runner_init, GitView!worker_step,
            GitView!try_do_work, GitView!leave_wait_loop, GitView!claim_series,
            GitView!clean_and_reset, GitView!apply_series, GitView!commit_series, GitView!push,
            GitView!queue_for_runner, GitView!work_succeeds, GitView!work_fails, GitView!Pushed,
            GitView!flush, GitView!crash

LEMMA PastStays ==
  AllInv /\ [Next]_vars =>
    /\ \A c \in R!Closures, w \in Workflows : ended[c][w] \subseteq ended'[c][w]
    /\ reruns' = 0 => reruns = 0
<1>1. R!Closures = RP!Closures
  BY DEF R!Closures, RP!Closures
<1> QED BY <1>1, ComponentSteps, RunnerViewIsRP, Assumptions, RP!PastStays DEF AllInv, RunnerInv

LEMMA HubInit == Init => HubInv
<1> SUFFICES ASSUME Init PROVE HubInv
  OBVIOUS
<1>1. RunnerView!Closures = R!Closures /\ RunnerView!NoBranch = R!NoBranch
  BY DEF RunnerView!Closures, R!Closures, RunnerView!NoBranch, R!NoBranch,
         RunnerView!Unfinished, R!Unfinished
<1>2. \A c \in R!Closures, w \in Workflows : runs[c][w] = R!NoBranch /\ ended[c][w] = {}
  BY <1>1 DEF Init, RunnerView!Init, RunnerView!NoResponse
<1> QED BY <1>2 DEF HubInv

LEMMA HubNext == AllInv /\ HubInv /\ [Next]_vars => HubInv'
<1> SUFFICES ASSUME AllInv, HubInv, [Next]_vars PROVE HubInv'
  OBVIOUS
<1>s. \A c : OnGitHub(c) => OnGitHub(c)'
  BY BranchesStay
<1>t. /\ runs \in [R!Closures -> [Workflows -> RP!WorkflowRuns]]
      /\ ended \in [R!Closures -> [Workflows -> SUBSET Endings]]
  BY DEF AllInv, RunnerInv, RP!TypeOK, RP!Closures, R!Closures
<1>1. CASE UNCHANGED <<runs, ended>>
  BY <1>1, <1>s DEF HubInv
<1>2. ASSUME NEW w \in Workers, queue_for_runner(w) PROVE HubInv'
  <2>1. PICK r \in Remotes : R!push([repo |-> r, series |-> id[w]], G!HasBranch(r, id[w]))
    BY <1>2 DEF queue_for_runner
  <2> DEFINE p == [repo |-> r, series |-> id[w]]
  <2>2. p.repo = r /\ p.series = id[w]
    OBVIOUS
  <2> HIDE DEF p
  <2>3. UNCHANGED ended /\ R!push(p, OnGitHub(p))
    BY <2>1, <2>2 DEF R!push, OnGitHub, p
  <2>4. \A c \in R!Closures, v \in Workflows :
          runs'[c][v] = runs[c][v] \/ (c = p /\ OnGitHub(p))
    BY <2>3, <1>t DEF R!push
  <2> QED BY <2>3, <2>4, <1>s DEF HubInv
<1>3. CASE github
  <2>1. PICK c \in R!Closures, w \in Workflows :
          R!run_starts(c, w) \/ R!run_ends(c, w) \/ R!rerun(c, w)
    BY <1>3 DEF github
  <2>n. /\ R!NoBranch.status = "no branch" /\ R!Due.status = "due" /\ R!Active.status = "active"
        /\ \A run \in R!CompletedRuns : run.status = "completed"
    BY DEF R!Due, R!Active, R!NoBranch, R!Unfinished, R!CompletedRuns
  <2>2. runs[c][w] # R!NoBranch
    BY <2>1, <2>n DEF R!run_starts, R!run_ends, R!rerun
  <2>3. OnGitHub(c)
    BY <2>2 DEF HubInv
  <2>4. \A d \in R!Closures, v \in Workflows :
          (runs'[d][v] = runs[d][v] /\ ended'[d][v] = ended[d][v]) \/ d = c
    BY <2>1, <1>t DEF R!run_starts, R!run_ends, R!rerun
  <2> QED BY <2>3, <2>4, <1>s DEF HubInv
<1>4. \/ UNCHANGED <<runs, ended>> \/ github \/ \E w \in Workers : queue_for_runner(w)
  <2>1. CASE GitSteps
    BY <2>1 DEF GitSteps, watchcat, ingest, init_worktrees, runner_init, git_worker, GitOnly,
       runnerVars
  <2>2. CASE RunnerSteps
    BY <2>2 DEF RunnerSteps, wait_for_completion, new_job_watcher, poll, send_result, R!hubVars,
       R!wait_for_completion, R!new_job_watcher, R!begin_pass, R!next_entry, R!start_work,
       R!move_to_working, R!spawn, R!get_workflow_runs, R!get_jobs, R!send_result, R!jobs_done,
       R!remove_from_working
  <2>3. CASE dispatch \/ (\E c \in Contexts : late_post(c)) \/ flush \/ UNCHANGED vars
    BY <2>3 DEF dispatch, late_post, DispatchOnly, flush, R!flush, R!hubVars, runnerVars, vars
  <2>4. CASE crash \/ \E t \in Threads : abort(t)
    BY <2>4 DEF crash, abort, R!crash, R!abort, R!Restart, R!hubVars
  <2> QED BY <2>1, <2>2, <2>3, <2>4 DEF Next, GitSteps, RunnerSteps
<1> QED BY <1>1, <1>2, <1>3, <1>4

-----------------------------------------------------------------------------
(***************************************************************************)
(* What dispatch may still read, what it holds, what is on its way to      *)
(* Patchwork and what is there are results that runs back: a value in the  *)
(* tree is, whenever it is written, and it stays so.                       *)
(***************************************************************************)
Told(e) ==
  /\ e \in R!Results
  /\ \E r \in Remotes : R!Backed([repo |-> r, series |-> e.series], e.name, e.outcome)

ToldInv ==
  /\ sendPc \in {"checking", "posting"} => Told(handed)
  /\ \A e \in leaf \cup abandoned \cup checks : Told(e)

LEMMA ToldInit == Init => ToldInv
BY DEF Init, D!Init, ToldInv

LEMMA BackedIsBacked ==
  \A c, w, o : RP!Backed(c, w, o) <=> R!Backed(c, w, o)
BY DEF R!Backed, RP!Backed, R!Supports, RP!Supports, R!SetupFailed, RP!SetupFailed

LEMMA ToldStays == AllInv /\ [Next]_vars => \A e : Told(e) => Told(e)'
<1> SUFFICES ASSUME AllInv, [Next]_vars, NEW e, Told(e) PROVE Told(e)'
  OBVIOUS
<1>1. PICK r \in Remotes : R!Backed([repo |-> r, series |-> e.series], e.name, e.outcome)
  BY DEF Told
<1>2. [repo |-> r, series |-> e.series] \in R!Closures /\ e.name \in Workflows
  BY DEF Told, R!Results, R!Closures
<1>3. /\ ended[[repo |-> r, series |-> e.series]][e.name]
           \subseteq ended'[[repo |-> r, series |-> e.series]][e.name]
      /\ reruns' = 0 => reruns = 0
  BY <1>2, PastStays
<1> QED BY <1>1, <1>3 DEF Told, R!Backed

(* What is in "needs dispatch", in either form of the database. *)
LEMMA TreeIsTold ==
  ASSUME AllInv, NEW e \in db[NeedsDispatch] \cup disk[NeedsDispatch]
  PROVE  Told(e)
<1>1. NeedsDispatch \in R!Trees /\ RP!NeedsDispatch = NeedsDispatch
  BY DEF R!Trees, R!NeedsDispatch, NeedsDispatch, RP!NeedsDispatch
<1>2. e \in OnTrees(db, R!Trees)[RP!NeedsDispatch] \cup OnTrees(disk, R!Trees)[RP!NeedsDispatch]
  BY <1>1 DEF OnTrees
<1>3. e \in RP!Results /\ RP!Honest(e)
  BY <1>2 DEF AllInv, RunnerInv, RP!TypeOK, RP!TreesOK, RP!HonestInv
<1> QED BY <1>3, BackedIsBacked DEF Told, R!Results, RP!Results, R!Outcomes, RP!Outcomes, RP!Honest

(* What a poll is about to write there. *)
LEMMA ResultIsTold ==
  ASSUME AllInv, NEW t \in Threads, NEW w \in Workflows, send_result(t, w)
  PROVE  Told([series |-> job[t].series, name |-> w, outcome |-> results[t][w]])
<1>1. results[t][w] \in R!Outcomes
  BY DEF send_result, R!send_result, R!FinishedJobs
<1>2. job[t] # None /\ R!Backed(job[t], w, results[t][w])
  BY <1>1, BackedIsBacked DEF AllInv, RunnerInv, RP!HonestInv, R!Outcomes, RP!Outcomes
<1>3. job[t] \in RP!Closures
  BY <1>2 DEF AllInv, RunnerInv, RP!TypeOK
<1>4. /\ job[t].repo \in Remotes /\ job[t].series \in Series
      /\ job[t] = [repo |-> job[t].repo, series |-> job[t].series]
  BY <1>3 DEF RP!Closures
<1> QED BY <1>1, <1>2, <1>4 DEF Told, R!Results

LEMMA ToldNext == AllInv /\ ToldInv /\ [Next]_vars => ToldInv'
<1> SUFFICES ASSUME AllInv, ToldInv, [Next]_vars PROVE ToldInv'
  OBVIOUS
<1>s. \A e : Told(e) => Told(e)'
  BY ToldStays
<1>1. CASE UNCHANGED <<sendPc, leaf, handed, abandoned, checks>>
  BY <1>1, <1>s DEF ToldInv, Told
<1>2. ASSUME NEW k \in Keys, next_entry(k) PROVE ToldInv'
  <2>1. handed' \in leaf /\ UNCHANGED <<leaf, abandoned, checks>>
    BY <1>2 DEF next_entry
  <2> QED BY <2>1, <1>s DEF ToldInv, Told
<1>3. ASSUME D!post, CheckArrives, UNCHANGED <<leaf, handed, abandoned>> PROVE ToldInv'
  <2>1. checks' \subseteq checks \cup {handed} /\ sendPc = "posting" /\ sendPc' = "iterating"
    BY <1>3 DEF CheckArrives, D!post, D!Sent
  <2> QED BY <1>3, <2>1, <1>s DEF ToldInv, Told
<1>4. CASE wait_for_tree
  <2>1. leaf' \subseteq db[NeedsDispatch] /\ UNCHANGED <<handed, abandoned, checks>>
        /\ sendPc' = "iterating"
    BY <1>4 DEF wait_for_tree, EntriesOf, D!wait_for_tree
  <2> QED BY <2>1, <1>s, TreeIsTold DEF ToldInv, Told
<1>5. ASSUME \/ \E k \in Keys : D!drop_entry(k)
             \/ D!duplicate_protection \/ D!end_of_entries,
             UNCHANGED <<leaf, handed, abandoned, checks>>
      PROVE  ToldInv'
  <2>1. sendPc' \in {"checking", "posting"} => sendPc \in {"checking", "posting"}
    BY <1>5 DEF D!drop_entry, D!duplicate_protection, D!end_of_entries, D!Sent
  <2> QED BY <1>5, <2>1, <1>s DEF ToldInv, Told
<1>6. ASSUME NEW c \in Contexts, late_post(c) PROVE ToldInv'
  <2>1. /\ checks' \subseteq checks \cup abandoned /\ abandoned' \subseteq abandoned
        /\ UNCHANGED <<leaf, handed, sendPc>>
    BY <1>6 DEF late_post, D!late_post
  <2> QED BY <2>1, <1>s DEF ToldInv, Told
<1>7. CASE crash \/ \E t \in Threads : abort(t)
  <2>1. /\ D!AbandonedPost /\ CheckArrives /\ sendPc' = "iterating"
        /\ abandoned' = IF late' = late THEN abandoned ELSE abandoned \cup {handed}
        /\ leaf' \subseteq disk[NeedsDispatch]
    BY <1>7 DEF crash, abort, OthersRestart, EntriesOf, D!Restart
  <2>2. CASE sendPc = "posting"
    <3>1. checks' \cup abandoned' \subseteq checks \cup abandoned \cup {handed}
      BY <2>1 DEF CheckArrives
    <3> QED BY <2>1, <2>2, <3>1, <1>s, TreeIsTold DEF ToldInv, Told
  <2>3. CASE sendPc # "posting"
    <3>1. UNCHANGED <<checks, abandoned>>
      BY <2>1, <2>3 DEF CheckArrives, D!AbandonedPost
    <3> QED BY <2>1, <3>1, <1>s, TreeIsTold DEF ToldInv, Told
  <2> QED BY <2>2, <2>3
<1>8. ASSUME NEW t \in Threads, NEW w \in Workflows, send_result(t, w) PROVE ToldInv'
  <2> DEFINE new == [series |-> job[t].series, name |-> w, outcome |-> results[t][w]]
  <2>1. /\ leaf' = leaf \cup {new} /\ UNCHANGED <<sendPc, handed, abandoned, checks>>
    BY <1>8 DEF send_result, D!finish_job, D!vars
  <2>2. \A e \in {new} : Told(e)'
    BY <1>8, ResultIsTold, <1>s
  <2> QED BY <2>1, <2>2, <1>s DEF ToldInv, Told
<1>9. CASE flush \/ UNCHANGED vars
  BY <1>1, <1>9 DEF flush, vars, dispatchVars
<1>10. CASE GitSteps
  BY <1>1, <1>10, GitLeavesResults DEF AllInv, IInv, dispatchVars
<1>11. ASSUME RunnerSteps, \A t \in Threads, w \in Workflows : ~send_result(t, w)
       PROVE  ToldInv'
  BY <1>1, <1>11 DEF RunnerSteps, github, wait_for_completion, new_job_watcher, poll, RunnerOnly,
     dispatchVars
<1> QED BY <1>2, <1>3, <1>4, <1>5, <1>6, <1>7, <1>8, <1>9, <1>10, <1>11
        DEF Next, GitSteps, RunnerSteps, dispatch

(***************************************************************************)
(* A check on Patchwork says what CI found on a remote that has the        *)
(* branch, and branches hold their series and nothing else; also where the *)
(* value sent is an older one, or Patchwork processes it late              *)
(* (git.rs:404-429, runner.rs:121-135, dispatch.rs:24-49).  The git        *)
(* stage's invariant, the runner's and dispatch's are all needed for it.   *)
(***************************************************************************)
THEOREM ChecksAreTrue == Spec => []CheckIsTrue
<1>1. Init => AllInv /\ HubInv /\ ToldInv
  BY AllInit, HubInit, ToldInit
<1>2. AllInv /\ HubInv /\ ToldInv /\ [Next]_vars => (AllInv /\ HubInv /\ ToldInv)'
  BY AllNext, HubNext, ToldNext
<1>3. AllInv /\ HubInv /\ ToldInv => CheckIsTrue
  <2> SUFFICES ASSUME AllInv, HubInv, ToldInv, NEW c \in checks
               PROVE  /\ \E r \in Remotes :
                           /\ R!Backed([repo |-> r, series |-> c.series], c.name, c.outcome)
                           /\ G!HasBranch(r, c.series)
                      /\ \A b \in refs : b.series = c.series => b.content = {c.series}
    BY DEF CheckIsTrue
  <2>1. Told(c)
    BY DEF ToldInv
  <2>2. PICK r \in Remotes : R!Backed([repo |-> r, series |-> c.series], c.name, c.outcome)
    BY <2>1 DEF Told
  <2>3. G!HasBranch(r, c.series)
    <3> DEFINE d == [repo |-> r, series |-> c.series]
    <3>1. d \in R!Closures /\ c.name \in Workflows /\ d.repo = r /\ d.series = c.series
      BY <2>1 DEF Told, R!Results, R!Closures
    <3>2. ended[d][c.name] # {}
      BY <2>2 DEF R!Backed
    <3> HIDE DEF d
    <3> QED BY <3>1, <3>2 DEF HubInv, OnGitHub
  <2>4. \A b \in refs : b.content = {b.series}
    BY DEF AllInv, GitInv, GP!IInv, GP!BranchInv, GP!BranchHoldsItsSeries
  <2> QED BY <2>2, <2>3, <2>4
<1> QED BY <1>1, <1>2, <1>3, PTL DEF Spec
=============================================================================
