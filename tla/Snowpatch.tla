----------------------------- MODULE Snowpatch -----------------------------
(***************************************************************************)
(* main.rs: the git stage, the watcher of one runner and dispatch over one *)
(* database, in one process that dies and starts as a whole.  Each is the  *)
(* module of its name; what the others did to it there as environment is   *)
(* done here by the component that does it.                                *)
(*                                                                         *)
(* The tree "needs dispatch" is there in two forms: in db as Runner writes *)
(* it, with outcomes and without Dispatch's removals, and in outbox as     *)
(* Dispatch uses it, its keys alone.                                       *)
(*                                                                         *)
(* Patchwork refuses no check here (Rejectable <- {}).  The death of the   *)
(* process a refusal leads to is among those that crash counts; that the   *)
(* refused entry leads to it again on every start is left to Dispatch.     *)
(***************************************************************************)
EXTENDS Database, Naturals

CONSTANTS
  Series, Workers, NoSeries,           \* of GitOps
  Remotes,                             \* its remotes, each with a runner
  Workflows, WorkflowsOf, Endings,     \* of Runner
  Threads, None, MaxReruns,
  KeyOf,                               \* [series, name] -> key of "needs dispatch"
  Contexts, ContextOf,                 \* of Dispatch
  MaxCrashes                           \* bound: how often the process may die

VARIABLES
  remotes, kept, inits, scanning, ready, jobs, gitPc, id, head, index, todo, refs, refused,
  runners, pushed, at, current, pass, pending, job, pollPc, response, results,
  completed, runs, ended, reruns,
  outbox, saved, token, latePosts, rejected, sendPc, cursor, todrop, posted, late,
  crashes,   \* how often the process has died, up to MaxCrashes
  leaf,      \* the values entries have had since dispatch's pass began
  handed,    \* the one its iterator handed out with its key
  abandoned, \* the values of the POSTs nobody waits for
  checks     \* what Patchwork has been told

gitVars == <<remotes, kept, inits, scanning, ready, jobs, gitPc, id, head, index, todo,
             refs, refused>>
runnerVars == <<runners, pushed, at, current, pass, pending, job, pollPc, response,
                results, completed, runs, ended, reruns>>
dispatchVars == <<outbox, saved, token, latePosts, rejected, sendPc, cursor, todrop,
                  posted, late, leaf, handed, abandoned, checks>>
vars == <<dbVars, gitVars, runnerVars, dispatchVars, crashes>>

Keys == {KeyOf[s][w] : s \in Series, w \in Workflows}

G == INSTANCE GitOps WITH pc <- gitPc
R == INSTANCE Runner WITH Repos <- Remotes, pc <- pollPc
D == INSTANCE Dispatch WITH
       Rejectable <- {}, db <- outbox, disk <- saved, pc <- sendPc

(* What the components assume; worker trees are none of the runner's either, *)
(* and every result has a key of its own.                                    *)
ASSUME SnowpatchAssumption ==
  /\ G!GitOpsAssumption /\ R!RunnerAssumption /\ D!DispatchAssumption
  /\ Workers \cap {NeedsDispatch, "github working"} = {}
  /\ \A s, t \in Series, v, w \in Workflows : KeyOf[s][v] = KeyOf[t][w] => s = t /\ v = w

(* The database as one component sees it: its own trees. *)
OnTrees(d, trees) == [t \in trees |-> d[t]]

GitView == INSTANCE GitOps WITH
  pc <- gitPc,
  db <- OnTrees(db, G!Trees), disk <- OnTrees(disk, G!Trees)
RunnerView == INSTANCE Runner WITH
  Repos <- Remotes, pc <- pollPc,
  db <- OnTrees(db, R!Trees), disk <- OnTrees(disk, R!Trees)

NoEntry == [series |-> None, name |-> None, outcome |-> None]
KeyOfEntry(e) == KeyOf[e.series][e.name]
EntriesOf(d, keys) == {e \in d[NeedsDispatch] : KeyOfEntry(e) \in keys}

Init ==
  /\ db = [t \in G!Trees \cup R!Trees |-> {}] /\ disk = db
  /\ GitView!Init /\ RunnerView!Init /\ D!Init
  /\ runners = Remotes
  /\ leaf = {} /\ handed = NoEntry /\ abandoned = {} /\ checks = {}

-----------------------------------------------------------------------------
GitOnly == UNCHANGED <<runnerVars, dispatchVars>>

(***************************************************************************)
(* The series is queued for the remote its branch has just been pushed to. *)
(* GitHub learns here, and only here, of a branch the remote did not       *)
(* refuse, which is no restriction: it may take its time with a run.       *)
(***************************************************************************)
queue_for_runner(w) ==
  /\ G!queue_for_runner(w)
  /\ \E r \in Remotes \ todo[w] : 
       R!push([repo |-> r, series |-> id[w]], G!HasBranch(r, id[w]))
  /\ UNCHANGED dispatchVars

git_worker(w) ==
  \/ queue_for_runner(w)
  \/ gitPc[w] # "queueing" /\ G!worker_step(w) /\ GitOnly

watchcat(s) == (G!watchcat_sees(s) \/ G!watchcat_queues(s)) /\ GitOnly
runner_init(r) == G!runner_init(r) /\ GitOnly
init_worktrees == G!init_worktrees /\ GitOnly
ingest(s) == G!ingest(s) /\ GitOnly

-----------------------------------------------------------------------------
RunnerOnly == UNCHANGED <<gitVars, dispatchVars, crashes>>

github == (\E c \in R!Closures, w \in Workflows :
             R!run_starts(c, w) \/ R!run_ends(c, w) \/ R!rerun(c, w)) /\ RunnerOnly

run_ends(c, w) == R!run_ends(c, w) /\ RunnerOnly

new_job_watcher(r) == R!new_job_watcher(r) /\ RunnerOnly

wait_for_completion ==
  /\ \E t \in Threads, c \in R!Closures : R!wait_for_completion(t, c)
  /\ RunnerOnly

(* The insert of a finished job is what dispatch finds in its tree. *)
send_result(t, w) ==
  /\ R!send_result(t, w)
  /\ LET k == KeyOf[job[t].series][w]
         new == [series |-> job[t].series, name |-> w, outcome |-> results[t][w]] IN
     /\ \/ k \in D!Entries /\ UNCHANGED D!vars
        \/ D!finish_job(k)
     /\ leaf' = leaf \cup {new}
  /\ UNCHANGED <<gitVars, handed, abandoned, checks, crashes>>

poll(t) ==
  \/ \E w \in Workflows : send_result(t, w)
  \/ /\ R!get_workflow_runs(t) \/ R!get_jobs(t) \/ R!jobs_done(t) \/ R!remove_from_working(t)
     /\ RunnerOnly

-----------------------------------------------------------------------------
DispatchOnly == UNCHANGED <<dbVars, gitVars, runnerVars, crashes>>

(* The iterator hands out a key with the value it has in the leaf that was *)
(* loaded, which a later answer to a runner may have replaced since.       *)
next_entry(k) ==
  /\ D!next_entry(k) \/ D!skip_entry(k)
  /\ \E e \in leaf : KeyOfEntry(e) = k /\ handed' = e
  /\ UNCHANGED <<leaf, abandoned, checks>>

(* Another pass, and another leaf. *)
wait_for_tree ==
  /\ D!wait_for_tree
  /\ leaf' = EntriesOf(db, D!Entries)
  /\ UNCHANGED <<handed, abandoned, checks>>

(* The check Patchwork gets is made of the value handed out. *)
CheckArrives == checks' = IF posted' = posted THEN checks ELSE checks \cup {handed}

dispatch ==
  /\ \/ \E k \in Keys : next_entry(k)
     \/ D!post /\ CheckArrives /\ UNCHANGED <<leaf, handed, abandoned>>
     \/ wait_for_tree
     \/ /\ \/ \E k \in Keys : D!drop_entry(k)
           \/ D!duplicate_protection \/ D!end_of_entries
        /\ UNCHANGED <<leaf, handed, abandoned, checks>>
  /\ DispatchOnly

(* Patchwork processes the POST of a process that is gone. *)
late_post(c) ==
  /\ D!late_post(c)
  /\ LET ofContext == {e \in abandoned : ContextOf[KeyOfEntry(e)] = c} IN
     /\ \E e \in ofContext : checks' = checks \cup {e}
     /\ abandoned' = IF late'[c] = 0 THEN abandoned \ ofContext ELSE abandoned
  /\ UNCHANGED <<leaf, handed>>
  /\ DispatchOnly

-----------------------------------------------------------------------------
(* One log for all trees: what a flush saves it saves of every one. *)
flush ==
  /\ G!flush /\ R!flush
  /\ saved' = outbox
  /\ UNCHANGED <<outbox, token, latePosts, rejected, sendPc, cursor, todrop,
                 posted, late, leaf, handed, abandoned, checks>>

(* The components that have no part in the death start again as well. *)
OthersRestart ==
  /\ G!Restart
  /\ D!AbandonedPost /\ D!Restart
  /\ CheckArrives
  /\ abandoned' = IF late' = late THEN abandoned ELSE abandoned \cup {handed}
  /\ leaf' = EntriesOf(disk, saved[NeedsDispatch]) /\ handed' = NoEntry

(* Mutation: the panic ends the closure it happens in and nothing else. *)
abort_of_poll(t) ==
  /\ pollPc[t] = "jobs" /\ R!GetsError(t)
  /\ R!Returned(t)
  /\ UNCHANGED <<dbVars, gitVars, dispatchVars, crashes, runners, pushed, at, current,
                 pass, pending, response, runs, ended, reruns>>

(* A panic in any thread aborts the process, and another starts. *)
abort(t) == R!abort(t) /\ OthersRestart
crash == R!crash /\ OthersRestart

-----------------------------------------------------------------------------
Next ==
  \/ \E s \in Series : watchcat(s) \/ ingest(s)
  \/ init_worktrees \/ \E r \in Remotes : runner_init(r)
  \/ \E w \in Workers : git_worker(w)
  \/ github
  \/ \E r \in Remotes : new_job_watcher(r)
  \/ wait_for_completion
  \/ \E t \in Threads : poll(t) \/ abort(t)
  \/ dispatch \/ \E c \in Contexts : late_post(c)
  \/ flush \/ crash

Spec == Init /\ [][Next]_vars

(* The fairness of the components. *)
Fairness ==
  /\ WF_vars(init_worktrees)
  /\ \A s \in Series : WF_vars(ingest(s))
  /\ \A w \in Workers : WF_vars(git_worker(w))
  /\ \A r \in Remotes : WF_vars(new_job_watcher(r))
  /\ WF_vars(wait_for_completion)
  /\ \A t \in Threads : WF_vars(poll(t) \/ abort(t))
  /\ \A c \in R!Closures, w \in Workflows : WF_vars(run_ends(c, w))
  /\ WF_vars(dispatch)

FairSpec == Spec /\ Fairness

-----------------------------------------------------------------------------
(***************************************************************************)
(* What Patchwork is told of a series is what CI found on a remote that    *)
(* did take its branch, which holds that series and nothing else, however  *)
(* old the value is that dispatch sends, however late Patchwork processes  *)
(* it and whatever crashes were on the way (git.rs:404-429,                *)
(* runner.rs:121-135, dispatch.rs:24-49).                                  *)
(***************************************************************************)
CheckIsTrue ==
  \A c \in checks :
    /\ \E r \in Remotes :
         /\ R!Backed([repo |-> r, series |-> c.series], c.name, c.outcome)
         /\ G!HasBranch(r, c.series)
    /\ \A b \in refs : b.series = c.series => b.content = {c.series}

(***************************************************************************)
(* A result a runner has written is in dispatch's tree, or Patchwork has a *)
(* check for it: in the process, and in what a new start would find        *)
(* (runner.rs:128-135, dispatch.rs:49-54).                                 *)
(***************************************************************************)
NoResultLost ==
  token => /\ \A e \in db[NeedsDispatch] :
                LET k == KeyOf[e.series][e.name] IN k \in outbox[NeedsDispatch] \/ D!Reported(k)
           /\ \A e \in disk[NeedsDispatch] :
                LET k == KeyOf[e.series][e.name] IN k \in saved[NeedsDispatch] \/ D!Reported(k)

(***************************************************************************)
(* A queued series is polled for by its runner or is among the failures,   *)
(* if the process stays up and no worker's tree was left occupied by the   *)
(* last one (git.rs:154-209, runner.rs:78-97).  ready, once true, is false *)
(* only in a new process.                                                  *)
(***************************************************************************)
QueuedIsPolled ==
  \A s \in Series :
    ready /\ s \in db[NeedsTesting] /\ (\A w \in Workers : db[w] \subseteq {id[w]})
      ~> ~ready \/ s \in db[GitFailures] \/ R!Cared(s)

(***************************************************************************)
(* A run that GitHub lists when its series is polled gets its check, if    *)
(* the process stays up, however the run goes on (runner.rs:118-148,       *)
(* dispatch.rs:22-56).                                                     *)
(***************************************************************************)
BeingPolled(s, w) ==
  \E t \in Threads : job[t] # None /\ job[t].series = s /\ R!Listed(response[t][w])

ListedIsChecked ==
  \A s \in Series, w \in Workflows :
    token /\ ready /\ BeingPolled(s, w) ~> ~ready \/ D!Reported(KeyOf[s][w])

(***************************************************************************)
(* Put together, no component meets anything its own module leaves out:    *)
(* what the others do in its trees is what that module's environment does. *)
(* The panic of a poll ends the git stage and dispatch as well, without    *)
(* being counted as a crash (main.rs:129-152).                             *)
(***************************************************************************)
UncountedDeath(restart) == restart /\ UNCHANGED crashes

ImplementsGitOps ==
  GitView!Init /\ [][GitView!Next \/ UncountedDeath(GitView!Restart)]_(GitView!vars)
ImplementsRunner == RunnerView!Spec
ImplementsDispatch ==
  D!Init /\ [][D!Next \/ UncountedDeath(D!AbandonedPost /\ D!Restart)]_(D!vars)

ImplementsComponents == ImplementsGitOps /\ ImplementsRunner /\ ImplementsDispatch
=============================================================================
