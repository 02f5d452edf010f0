-------------------------- MODULE SnowpatchProofs --------------------------
(***************************************************************************)
(* No result is lost between the runner that writes it and Patchwork, for  *)
(* any number of series, workers, remotes, workflows, threads and crashes. *)
(***************************************************************************)
EXTENDS Snowpatch, TLAPS

Known(d) == \A e \in d[NeedsDispatch] : e.series \in Series /\ e.name \in Workflows

Waiting(d, tree) ==
  \A e \in d[NeedsDispatch] :
    KeyOf[e.series][e.name] \in tree[NeedsDispatch] \/ D!Reported(KeyOf[e.series][e.name])

(* The trees are there, results are of known series, threads poll for one. *)
TreesInv ==
  /\ NeedsDispatch \in DOMAIN db /\ NeedsDispatch \in DOMAIN disk
  /\ NeedsDispatch \in DOMAIN outbox /\ NeedsDispatch \in DOMAIN saved
  /\ Known(db) /\ Known(disk)

PollInv ==
  /\ DOMAIN job = Threads /\ DOMAIN pollPc = Threads
  /\ \A t \in Threads : pollPc[t] # "idle" => job[t].series \in Series

SendInv ==
  /\ posted \in [Contexts -> Nat]
  /\ sendPc \in {"checking", "posting"} => cursor \in Keys

(* Keys dispatch is about to remove are reported: what makes it inductive. *)
LossInv ==
  token => (\A k \in todrop : k \in Keys /\ D!Reported(k)) /\ Waiting(db, outbox) /\ Waiting(disk, saved)

IInv == TreesInv /\ PollInv /\ SendInv /\ LossInv

LEMMA KeysTyped == ASSUME NEW s \in Series, NEW w \in Workflows PROVE KeyOf[s][w] \in Keys
BY DEF Keys

(***************************************************************************)
(* The git stage leaves results alone, and a worker's tree is not theirs.  *)
(***************************************************************************)
GitSteps ==
  \/ \E s \in Series : watchcat(s) \/ ingest(s)
  \/ init_worktrees \/ \E r \in Remotes : runner_init(r)
  \/ \E w \in Workers : git_worker(w)

LEMMA GitLeavesResults ==
  ASSUME TreesInv, GitSteps
  PROVE  /\ NeedsDispatch \in DOMAIN db' /\ db'[NeedsDispatch] = db[NeedsDispatch]
         /\ UNCHANGED <<disk, dispatchVars, job, pollPc>>
<1> USE DEF TreesInv, NeedsDispatch, runnerVars
<1>1. ASSUME NEW s \in Series, watchcat(s)
      PROVE  /\ NeedsDispatch \in DOMAIN db' /\ db'[NeedsDispatch] = db[NeedsDispatch]
             /\ UNCHANGED <<disk, dispatchVars, job, pollPc>>
  BY <1>1 DEF watchcat, GitOnly, G!watchcat_sees, G!watchcat_queues, G!Insert,
              G!SeenByWatchcat, G!NeedsTesting
<1>2. ASSUME NEW s \in Series, ingest(s)
      PROVE  /\ NeedsDispatch \in DOMAIN db' /\ db'[NeedsDispatch] = db[NeedsDispatch]
             /\ UNCHANGED <<disk, dispatchVars, job, pollPc>>
  BY <1>2 DEF ingest, GitOnly, G!ingest, G!move_to_new_queue, G!NeedsTesting, G!AwaitingGitWorker
<1>3. ASSUME init_worktrees \/ \E r \in Remotes : runner_init(r)
      PROVE  /\ NeedsDispatch \in DOMAIN db' /\ db'[NeedsDispatch] = db[NeedsDispatch]
             /\ UNCHANGED <<disk, dispatchVars, job, pollPc>>
  BY <1>3 DEF init_worktrees, runner_init, GitOnly, G!init_worktrees, G!runner_init, G!dbVars
<1>4. ASSUME NEW w \in Workers, git_worker(w)
      PROVE  /\ NeedsDispatch \in DOMAIN db' /\ db'[NeedsDispatch] = db[NeedsDispatch]
             /\ UNCHANGED <<disk, dispatchVars, job, pollPc>>
  <2>1. w # NeedsDispatch
    BY SnowpatchAssumption
  <2>2. CASE queue_for_runner(w)
    BY <2>2 DEF queue_for_runner, G!queue_for_runner, R!push, G!Insert, R!Insert, G!RunnerQueue,
                R!pollVars
  <2>3. CASE G!worker_step(w) /\ GitOnly /\ gitPc[w] # "queueing"
    <3>1. \/ UNCHANGED dbVars
          \/ G!claim_series(w) \/ G!work_succeeds(w) \/ G!work_fails(w)
      BY <2>3 DEF G!worker_step, G!try_do_work, G!leave_wait_loop, G!clean_and_reset,
           G!apply_series, G!commit_series, G!push, G!queue_for_runner, G!dbVars, dbVars
    <3>2. CASE UNCHANGED dbVars
      BY <2>3, <3>2 DEF GitOnly, dbVars
    <3>3. CASE G!claim_series(w)
      BY <2>1, <2>3, <3>3 DEF GitOnly, G!claim_series, G!move_to_new_queue, G!AwaitingGitWorker
    <3>4. CASE G!work_succeeds(w)
      BY <2>1, <2>3, <3>4 DEF GitOnly, G!work_succeeds, G!Remove
    <3>5. CASE G!work_fails(w)
      BY <2>1, <2>3, <3>5 DEF GitOnly, G!work_fails, G!move_to_new_queue, G!GitFailures
    <3> QED BY <3>1, <3>2, <3>3, <3>4, <3>5
  <2> QED BY <1>4, <2>2, <2>3 DEF git_worker
<1> QED BY <1>1, <1>2, <1>3, <1>4 DEF GitSteps

LEMMA GitStep == ASSUME IInv, GitSteps PROVE IInv'
<1>1. /\ NeedsDispatch \in DOMAIN db' /\ db'[NeedsDispatch] = db[NeedsDispatch]
      /\ UNCHANGED <<disk, dispatchVars, job, pollPc>>
  BY GitLeavesResults DEF IInv
<1> QED BY <1>1 DEF IInv, TreesInv, PollInv, SendInv, LossInv, Known, Waiting, D!Reported, dispatchVars

-----------------------------------------------------------------------------
(* Of the runner's steps only send_result touches results. *)
RunnerSteps ==
  \/ github \/ wait_for_completion
  \/ \E r \in Remotes : new_job_watcher(r)
  \/ \E t \in Threads : poll(t)

LEMMA RunnerStep == ASSUME IInv, RunnerSteps PROVE IInv'
<1> USE DEF IInv
<1>1. CASE github
  BY <1>1 DEF github, RunnerOnly, R!run_starts, R!run_ends, R!rerun, R!dbVars, R!pollVars,
     TreesInv, PollInv, SendInv, LossInv, Known, Waiting, D!Reported, dispatchVars
<1>2. CASE wait_for_completion
  <2>1. UNCHANGED <<dbVars, dispatchVars>>
    BY <1>2 DEF wait_for_completion, RunnerOnly, R!wait_for_completion, R!dbVars, dbVars
  <2>2. PollInv'
    BY <1>2 DEF wait_for_completion, R!wait_for_completion, PollInv, R!Closures
  <2> QED BY <2>1, <2>2 DEF TreesInv, SendInv, LossInv, Known, Waiting, D!Reported,
             dispatchVars, dbVars
<1>3. ASSUME NEW r \in Remotes, new_job_watcher(r) PROVE IInv'
  <2>1. UNCHANGED <<disk, dispatchVars, job, pollPc>>
    BY <1>3 DEF new_job_watcher, RunnerOnly, R!new_job_watcher, R!begin_pass, R!next_entry,
       R!start_work, R!move_to_working, R!spawn, R!dbVars, R!pollVars
  <2>2. NeedsDispatch \in DOMAIN db' /\ db'[NeedsDispatch] = db[NeedsDispatch]
    BY <1>3 DEF new_job_watcher, R!new_job_watcher, R!begin_pass, R!next_entry, R!start_work,
       R!move_to_working, R!spawn, R!dbVars, R!move_to_new_queue, R!RunnerQueue,
       R!GithubWorking, NeedsDispatch, TreesInv
  <2> QED BY <2>1, <2>2 DEF TreesInv, PollInv, SendInv, LossInv, Known, Waiting, D!Reported,
             dispatchVars
<1>4. ASSUME NEW t \in Threads, NEW w \in Workflows, send_result(t, w) PROVE IInv'
  <2> DEFINE s   == job[t].series
             k   == KeyOf[s][w]
             new == [series |-> s, name |-> w, outcome |-> results[t][w]]
  <2>1. s \in Series /\ k \in Keys
    BY <1>4, KeysTyped DEF send_result, R!send_result, PollInv
  <2>2. /\ NeedsDispatch \in DOMAIN db' /\ UNCHANGED <<disk, job, pollPc>>
        /\ \A e \in db'[NeedsDispatch] : e \in db[NeedsDispatch] \/ e = new
    BY <1>4 DEF send_result, R!send_result, R!NeedsDispatch, NeedsDispatch, TreesInv
  <2>3. /\ NeedsDispatch \in DOMAIN outbox'
        /\ outbox'[NeedsDispatch] = outbox[NeedsDispatch] \cup {k}
        /\ UNCHANGED <<saved, token, sendPc, cursor, todrop, posted>>
    BY <1>4 DEF send_result, D!finish_job, D!Insert, D!Entries, D!given, D!NeedsDispatch,
       NeedsDispatch, TreesInv, D!vars, D!dbVars
  <2>4. new.series = s /\ new.name = w
    OBVIOUS
  <2> HIDE DEF new, k, s
  <2>5. TreesInv' /\ PollInv' /\ SendInv'
    BY <2>1, <2>2, <2>3, <2>4 DEF TreesInv, PollInv, SendInv, Known
  <2>6. KeyOf[new.series][new.name] = k
    BY <2>4 DEF k
  <2>7. LossInv'
    BY <2>2, <2>3, <2>6 DEF LossInv, Waiting, D!Reported
  <2> QED BY <2>5, <2>7
<1>5. ASSUME NEW t \in Threads, RunnerOnly,
             R!get_workflow_runs(t) \/ R!get_jobs(t) \/ R!jobs_done(t) \/ R!remove_from_working(t)
      PROVE  IInv'
  <2>1. UNCHANGED <<disk, dispatchVars>>
    BY <1>5 DEF RunnerOnly, R!get_workflow_runs, R!get_jobs, R!jobs_done, R!remove_from_working, R!dbVars
  <2>2. NeedsDispatch \in DOMAIN db' /\ db'[NeedsDispatch] = db[NeedsDispatch]
    BY <1>5 DEF R!get_workflow_runs, R!get_jobs, R!jobs_done, R!remove_from_working, R!dbVars,
       R!Remove, R!GithubWorking, NeedsDispatch, TreesInv
  <2>3. PollInv'
    BY <1>5 DEF R!get_workflow_runs, R!get_jobs, R!jobs_done, R!remove_from_working,
       R!Returned, PollInv
  <2> QED BY <2>1, <2>2, <2>3 DEF TreesInv, SendInv, LossInv, Known, Waiting, D!Reported,
             dispatchVars
<1> QED BY <1>1, <1>2, <1>3, <1>4, <1>5 DEF RunnerSteps, poll

-----------------------------------------------------------------------------
(* A check more for one context, or none: what was reported still is. *)
LEMMA MoreChecks ==
  ASSUME SendInv,
         \/ posted' = posted
         \/ \E c \in Contexts : posted' = [posted EXCEPT ![c] = @ + 1]
  PROVE  /\ posted' \in [Contexts -> Nat]
         /\ \A k \in Keys : D!Reported(k) => posted'[ContextOf[k]] > 0
<1>1. \A k \in Keys : ContextOf[k] \in Contexts
  BY SnowpatchAssumption DEF D!DispatchAssumption
<1>2. posted' \in [Contexts -> Nat] /\ \A c \in Contexts : posted[c] > 0 => posted'[c] > 0
  BY DEF SendInv
<1> QED BY <1>1, <1>2 DEF D!Reported

LEMMA DispatchStep == ASSUME IInv, dispatch PROVE IInv'
<1> USE DEF IInv
<1>u. UNCHANGED <<dbVars, runnerVars>>
  BY DEF dispatch, DispatchOnly
<1>t. PollInv' /\ Known(db)' /\ Known(disk)' /\ NeedsDispatch \in DOMAIN db' \cap DOMAIN disk'
  BY <1>u DEF PollInv, TreesInv, Known, dbVars, runnerVars
<1>1. ASSUME NEW k \in Keys, D!drop_entry(k) PROVE IInv'
  <2>1. /\ k \in todrop /\ todrop' = todrop \ {k}
        /\ UNCHANGED <<saved, token, sendPc, cursor, posted>>
        /\ NeedsDispatch \in DOMAIN outbox'
        /\ outbox'[NeedsDispatch] = outbox[NeedsDispatch] \ {k}
    BY <1>1 DEF D!drop_entry, D!Remove, D!given, D!NeedsDispatch, NeedsDispatch, TreesInv
  <2>2. TreesInv' /\ SendInv'
    BY <1>t, <2>1 DEF TreesInv, SendInv
  <2>3. LossInv'
    BY <1>u, <2>1 DEF LossInv, Waiting, D!Reported, dbVars
  <2> QED BY <1>t, <2>2, <2>3
<1>2. ASSUME NEW k \in Keys, D!next_entry(k) \/ D!skip_entry(k) PROVE IInv'
  <2>1. UNCHANGED <<outbox, saved, token, posted>> /\ (sendPc' = sendPc \/ cursor' \in Keys)
    BY <1>2 DEF D!next_entry, D!skip_entry, D!given, D!dbVars
  <2>2. token => todrop' = todrop
    BY <1>2 DEF D!next_entry, D!skip_entry
  <2>3. SendInv'
    BY <1>2, <2>1 DEF SendInv, D!next_entry, D!skip_entry
  <2>4. TreesInv' /\ LossInv'
    BY <1>u, <1>t, <2>1, <2>2 DEF TreesInv, LossInv, Waiting, D!Reported, dbVars
  <2> QED BY <1>t, <2>3, <2>4
<1>3. ASSUME D!post PROVE IInv'
  <2>1. /\ cursor \in Keys /\ todrop' = todrop \cup {cursor} /\ sendPc' = "iterating"
        /\ posted' = [posted EXCEPT ![ContextOf[cursor]] = @ + 1]
        /\ UNCHANGED <<outbox, saved, token>>
    BY <1>3 DEF D!post, D!Sent, D!given, D!dbVars, SendInv
  <2>c. ContextOf[cursor] \in Contexts
    BY <2>1, SnowpatchAssumption DEF D!DispatchAssumption
  <2>2. SendInv' /\ (\A k \in Keys : D!Reported(k) => posted'[ContextOf[k]] > 0)
    BY <2>1, <2>c, MoreChecks DEF SendInv
  <2>3. posted'[ContextOf[cursor]] > 0
    BY <2>1, <2>c DEF SendInv
  <2>4. TreesInv' /\ LossInv'
    BY <1>u, <1>t, <2>1, <2>2, <2>3, KeysTyped DEF TreesInv, LossInv, Waiting, Known, D!Reported, dbVars
  <2> QED BY <1>t, <2>2, <2>4
<1>4. ASSUME D!duplicate_protection \/ D!end_of_entries \/ D!wait_for_tree PROVE IInv'
  <2>1. UNCHANGED <<outbox, saved, token, posted>> /\ SendInv'
    BY <1>4 DEF D!duplicate_protection, D!end_of_entries, D!wait_for_tree, D!Sent, D!given,
       D!dbVars, SendInv
  <2>2. todrop' = todrop \/ (todrop' = todrop \cup {cursor} /\ cursor \in Keys /\ D!Reported(cursor))
    BY <1>4 DEF D!duplicate_protection, D!end_of_entries, D!wait_for_tree, D!Sent, D!Reported, SendInv
  <2>3. TreesInv' /\ LossInv'
    BY <1>u, <1>t, <2>1, <2>2 DEF TreesInv, LossInv, Waiting, D!Reported, dbVars
  <2> QED BY <1>t, <2>1, <2>3
<1> QED BY <1>1, <1>2, <1>3, <1>4 DEF dispatch, next_entry, wait_for_tree

LEMMA LatePostStep == ASSUME IInv, NEW c \in Contexts, late_post(c) PROVE IInv'
<1> USE DEF IInv
<1>1. /\ UNCHANGED <<dbVars, runnerVars, outbox, saved, token, sendPc, cursor, todrop>>
      /\ posted' = [posted EXCEPT ![c] = @ + 1]
  BY DEF late_post, DispatchOnly, D!late_post, D!given, D!dbVars
<1>2. SendInv' /\ (\A k \in Keys : D!Reported(k) => posted'[ContextOf[k]] > 0)
  BY <1>1, MoreChecks DEF SendInv
<1>3. TreesInv' /\ PollInv'
  BY <1>1 DEF TreesInv, PollInv, Known, dbVars, runnerVars
<1>4. LossInv'
  BY <1>1, <1>2, KeysTyped DEF LossInv, Waiting, TreesInv, Known, D!Reported, dbVars
<1> QED BY <1>2, <1>3, <1>4

-----------------------------------------------------------------------------
LEMMA FlushStep == ASSUME IInv, flush PROVE IInv'
<1>1. /\ disk' = db /\ saved' = outbox
      /\ UNCHANGED <<db, outbox, token, sendPc, cursor, todrop, posted, job, pollPc>>
  BY DEF flush, G!flush, R!flush, G!Flush, R!pollVars
<1> QED BY <1>1 DEF IInv, TreesInv, PollInv, SendInv, LossInv, Known, Waiting, D!Reported

(* Both forms of the tree come back from one moment, and nothing is kept   *)
(* in mind that is not on disk.                                            *)
LEMMA DeathStep == ASSUME IInv, crash \/ \E t \in Threads : abort(t) PROVE IInv'
<1> USE DEF IInv
<1>1. R!Restart /\ D!AbandonedPost /\ D!Restart
  BY DEF crash, abort, R!crash, R!abort, OthersRestart
<1>2. /\ db' = disk /\ outbox' = saved /\ UNCHANGED <<disk, saved, token>>
      /\ todrop' = {} /\ sendPc' = "iterating"
  BY <1>1 DEF R!Restart, R!Recover, D!Restart, D!Recover, D!given
<1>3. PollInv'
  BY <1>1 DEF R!Restart, PollInv
<1>4. \/ posted' = posted
      \/ \E c \in Contexts : posted' = [posted EXCEPT ![c] = @ + 1]
  BY <1>1, SnowpatchAssumption DEF D!AbandonedPost, D!DispatchAssumption, SendInv
<1>5. SendInv' /\ (\A k \in Keys : D!Reported(k) => posted'[ContextOf[k]] > 0)
  BY <1>2, <1>4, MoreChecks DEF SendInv
<1>6. TreesInv' /\ LossInv'
  BY <1>2, <1>5, KeysTyped DEF TreesInv, LossInv, Waiting, Known, D!Reported
<1> QED BY <1>3, <1>5, <1>6

LEMMA Initially == Init => IInv
<1> SUFFICES ASSUME Init PROVE IInv
  OBVIOUS
<1>1. /\ NeedsDispatch \in DOMAIN db /\ db[NeedsDispatch] = {} /\ disk = db
  BY DEF Init, R!Trees, R!NeedsDispatch, NeedsDispatch
<1>2. /\ outbox = [t \in {NeedsDispatch} |-> {}] /\ saved = outbox
      /\ sendPc = "iterating" /\ todrop = {} /\ posted = [c \in Contexts |-> 0]
  BY DEF Init, D!Init, D!NeedsDispatch, NeedsDispatch
<1>3. PollInv
  BY DEF Init, RunnerView!Init, PollInv
<1> QED BY <1>1, <1>2, <1>3 DEF IInv, TreesInv, SendInv, LossInv, Known, Waiting

LEMMA InvNext == IInv /\ [Next]_vars => IInv'
<1> SUFFICES ASSUME IInv, [Next]_vars PROVE IInv'
  OBVIOUS
<1>1. CASE UNCHANGED vars
  BY <1>1 DEF vars, dbVars, runnerVars, dispatchVars, IInv, TreesInv, PollInv, SendInv,
     LossInv, Known, Waiting, D!Reported
<1>2. CASE Next
  BY <1>2, GitStep, RunnerStep, DispatchStep, LatePostStep, FlushStep, DeathStep
     DEF Next, GitSteps, RunnerSteps
<1> QED BY <1>1, <1>2

(***************************************************************************)
(* A result a runner has written is in dispatch's tree or on Patchwork,    *)
(* for the process and for whatever a new start would find                 *)
(* (runner.rs:128-135, dispatch.rs:49-54).                                 *)
(***************************************************************************)
THEOREM ResultsArrive == Spec => []NoResultLost
<1>1. IInv => NoResultLost
  BY DEF IInv, LossInv, Waiting, NoResultLost
<1> QED BY Initially, InvNext, <1>1, PTL DEF Spec
=============================================================================
