------------------------------- MODULE GitOps -------------------------------
(***************************************************************************)
(* git.rs: the ingest thread that takes series off "needs testing", and    *)
(* the pool of git workers that apply each series in a worktree, push the  *)
(* result to every remote and queue it for the runners.                    *)
(*                                                                         *)
(* The watchcat in front of this component and the runner behind it are    *)
(* environment actions here.  The process may die at any step (an error in *)
(* main, a panic in any pool thread aborts it, or it is killed) and be     *)
(* started again.                                                          *)
(***************************************************************************)
EXTENDS Database, Naturals

CONSTANTS
  Series,      \* ids of Patchwork series
  Workers,     \* threads of GitOps.pool; w is also the name of its tree "git worker w"
  Remotes,     \* the remotes of the configured runners
  NoSeries,    \* a worker that holds no series
  MaxCrashes   \* bound: how often the process may die

VARIABLES
  remotes,     \* keys of the tree "remotes to push to"
  kept,        \* those of them the next start would find
  inits,       \* remotes that runner::init has inserted since the start
  scanning,    \* series the watchcat has marked seen and is about to queue
  ready,       \* init_worktrees has returned, ingest is running
  jobs,        \* closures handed to pool.spawn that no thread has taken yet
  pc,          \* where each worker thread is in try_do_work / do_work
  id,          \* the series each worker thread works on
  head,        \* the series whose diffs HEAD of the worktree has over master
  index,       \* the same of the worktree's index
  todo,        \* remotes the push loop of do_work has not reached yet
  refs,        \* snowpatch/<series> branches on the remotes (not ours, never lost)
  refused,     \* pushes that left no branch, the remote having refused the reference
  crashes      \* how often the process has died, up to MaxCrashes

gitVars == <<head, index, refs, refused>>
threadVars == <<pc, id, todo>>
listVars == <<remotes, kept, inits>>
vars == <<dbVars, listVars, scanning, ready, jobs, threadVars, gitVars, crashes>>

GitQueues == {NeedsTesting, AwaitingGitWorker, GitFailures}
GitTrees  == GitQueues \cup Workers
Trees     == GitTrees \cup {SeenByWatchcat, RunnerQueue}

(* Worker trees are trees of their own; NoSeries is no series. *)
ASSUME GitOpsAssumption ==
  /\ Workers \cap {NeedsTesting, AwaitingGitWorker, GitFailures,
                   SeenByWatchcat, RunnerQueue} = {}
  /\ NoSeries \notin Series
  /\ MaxCrashes \in Nat

EmptyDb == [t \in Trees |-> {}]
AllIdle == [w \in Workers |-> "idle"]
NoJob   == [w \in Workers |-> NoSeries]

Init ==
  /\ db = EmptyDb /\ disk = EmptyDb
  /\ remotes = {} /\ kept = {} /\ inits = {}
  /\ scanning = {} /\ ready = FALSE /\ jobs = {}
  /\ pc = AllIdle /\ id = NoJob /\ todo = [w \in Workers |-> {}]
  /\ head = [w \in Workers |-> {}] /\ index = [w \in Workers |-> {}]
  /\ refs = {} /\ refused = {} /\ crashes = 0

Goto(w, label) == pc' = [pc EXCEPT ![w] = label]

-----------------------------------------------------------------------------
(***************************************************************************)
(* The watchcat: it marks a series it has not seen, asks Patchwork for its *)
(* checks, then queues it (watchcat.rs check_series_list, check_state).    *)
(* main scans after runner::init.  Watchcat is the whole of it, and        *)
(* SeriesSource what the two modules agree on.                             *)
(***************************************************************************)
watchcat_sees(s) ==
  /\ inits = Remotes
  /\ s \notin db[SeenByWatchcat]
  /\ Insert(SeenByWatchcat, s)
  /\ scanning' = scanning \cup {s}
  /\ UNCHANGED <<disk, listVars, ready, jobs, threadVars, gitVars, crashes>>

watchcat_queues(s) ==
  /\ s \in scanning
  /\ Insert(NeedsTesting, s)
  /\ scanning' = scanning \ {s}
  /\ UNCHANGED <<disk, listVars, ready, jobs, threadVars, gitVars, crashes>>

(* The runner's new_job_watcher moves the series to its own tree. *)
runner_takes(s) ==
  /\ s \in db[RunnerQueue]
  /\ Remove(RunnerQueue, s)
  /\ UNCHANGED <<disk, listVars, scanning, ready, jobs, threadVars, gitVars, crashes>>

-----------------------------------------------------------------------------
(***************************************************************************)
(* runner::init, in main's thread, while the closure with init_worktrees   *)
(* and ingest is running already: it only ever adds to the list.           *)
(***************************************************************************)
runner_init(r) ==
  /\ r \notin inits
  /\ inits' = inits \cup {r}
  /\ remotes' = remotes \cup {r}
  /\ UNCHANGED <<dbVars, kept, scanning, ready, jobs, threadVars, gitVars, crashes>>

(***************************************************************************)
(* init_worktrees keeps a worktree that validates as it was left and makes *)
(* the others anew.  ingest starts after it, in the same closure.          *)
(***************************************************************************)
init_worktrees ==
  /\ ~ready
  /\ ready' = TRUE
  /\ \E broken \in SUBSET Workers :
       /\ head'  = [w \in Workers |-> IF w \in broken THEN {} ELSE head[w]]
       /\ index' = [w \in Workers |-> IF w \in broken THEN {} ELSE index[w]]
  /\ UNCHANGED <<dbVars, listVars, scanning, jobs, threadVars, refs, refused, crashes>>

(* Mutation: ingest holds back until no worker has anything in its tree. *)
ingest_when_idle(s) ==
  /\ ready /\ \A w \in Workers : db[w] = {}
  /\ move_to_new_queue(NeedsTesting, AwaitingGitWorker, s)
  /\ jobs' = jobs \cup {s}
  /\ UNCHANGED <<disk, listVars, scanning, ready, threadVars, gitVars, crashes>>

(***************************************************************************)
(* One turn of ingest's loop: move the series, then spawn its job.  The    *)
(* order of the iterator is left open.  wait_for_tree at the loop's end is *)
(* the action being disabled while the tree is empty.                      *)
(***************************************************************************)
ingest(s) ==
  /\ ready
  /\ move_to_new_queue(NeedsTesting, AwaitingGitWorker, s)
  /\ jobs' = jobs \cup {s}
  /\ UNCHANGED <<disk, listVars, scanning, ready, threadVars, gitVars, crashes>>

-----------------------------------------------------------------------------
(* A pool thread enters try_do_work. *)
try_do_work(w, s) ==
  /\ pc[w] = "idle" /\ s \in jobs
  /\ jobs' = jobs \ {s}
  /\ id' = [id EXCEPT ![w] = s]
  /\ Goto(w, "waiting")
  /\ UNCHANGED <<dbVars, listVars, scanning, ready, todo, gitVars, crashes>>

(* Mutation: the thread does not look at its own tree first. *)
leave_wait_loop_at_once(w) ==
  /\ pc[w] = "waiting"
  /\ Goto(w, "claiming")
  /\ UNCHANGED <<dbVars, listVars, scanning, ready, jobs, id, todo, gitVars, crashes>>

(***************************************************************************)
(* `while outbound.iter().count() > 0`: the loop ends when the worker's    *)
(* own tree is empty.  wait_for_tree returns at once on a tree that is not *)
(* empty, so a worker whose tree stays occupied spins here.                *)
(***************************************************************************)
leave_wait_loop(w) ==
  /\ pc[w] = "waiting" /\ db[w] = {}
  /\ Goto(w, "claiming")
  /\ UNCHANGED <<dbVars, listVars, scanning, ready, jobs, id, todo, gitVars, crashes>>

claim_series(w) ==
  /\ pc[w] = "claiming"
  /\ move_to_new_queue(AwaitingGitWorker, w, id[w])
  /\ Goto(w, "resetting")
  /\ UNCHANGED <<disk, listVars, scanning, ready, jobs, id, todo, gitVars, crashes>>

(* Mutation: a soft reset, which moves HEAD and leaves the index. *)
soft_reset(w) ==
  /\ pc[w] = "resetting"
  /\ head' = [head EXCEPT ![w] = {}]
  /\ Goto(w, "applying")
  /\ UNCHANGED <<dbVars, listVars, scanning, ready, jobs, id, index, todo, refs, refused,
                 crashes>>

(* clean_and_reset(&repo, "master"): a hard reset of HEAD and index. *)
clean_and_reset(w) ==
  /\ pc[w] = "resetting"
  /\ head' = [head EXCEPT ![w] = {}]
  /\ index' = [index EXCEPT ![w] = {}]
  /\ Goto(w, "applying")
  /\ UNCHANGED <<dbVars, listVars, scanning, ready, jobs, id, todo, refs, refused, crashes>>

(***************************************************************************)
(* Download the mbox and apply it, through libgit2 or else through the git *)
(* binary.  Both write the index only after a trial run succeeded.         *)
(***************************************************************************)
apply_series(w) ==
  /\ pc[w] = "applying"
  /\ index' = [index EXCEPT ![w] = @ \cup {id[w]}]
  /\ Goto(w, "committing")
  /\ UNCHANGED <<dbVars, listVars, scanning, ready, jobs, id, todo, head, refs, refused,
                 crashes>>

(* Commit the index on top of HEAD, then list the remotes to push to. *)
commit_series(w) ==
  /\ pc[w] = "committing"
  /\ head' = [head EXCEPT ![w] = index[w]]
  /\ todo' = [todo EXCEPT ![w] = remotes]
  /\ Goto(w, "pushing")
  /\ UNCHANGED <<dbVars, listVars, scanning, ready, jobs, id, index, refs, refused, crashes>>

Branch(r, s, content) == [remote |-> r, series |-> s, content |-> content]
Refusal(r, s) == [remote |-> r, series |-> s]
HasBranch(r, s) == \E b \in refs : b.remote = r /\ b.series = s

(***************************************************************************)
(* The branches after remote r accepted worker w's push.  Where the branch *)
(* exists libgit2 does not send the push, which is not fast forward (a new *)
(* commit is a sibling of the old one); do_work takes that for success,    *)
(* and the branch stays what it was.                                       *)
(***************************************************************************)
Pushed(w, r) == IF HasBranch(r, id[w]) THEN refs
                ELSE refs \cup {Branch(r, id[w], head[w])}

(* Mutation: every push error is let fly, not just NotFastForward. *)
push_lets_fly(w, r) ==
  /\ pc[w] = "pushing" /\ r \in todo[w]
  /\ refs' \in {refs, Pushed(w, r)}
  /\ todo' = [todo EXCEPT ![w] = @ \ {r}]
  /\ Goto(w, "queueing")
  /\ UNCHANGED <<dbVars, listVars, scanning, ready, jobs, id, head, index, refused, crashes>>

(***************************************************************************)
(* One push that do_work takes for success.  A remote that is sent the     *)
(* pack may still refuse the reference (a hook, a protected name): libgit2 *)
(* tells that to the push_update_reference callback, which RemoteCallbacks *)
(* here does not set, and returns Ok.                                      *)
(***************************************************************************)
push(w, r) ==
  /\ pc[w] = "pushing" /\ r \in todo[w]
  /\ \/ refs' = Pushed(w, r) /\ UNCHANGED refused
     \/ /\ ~HasBranch(r, id[w])
        /\ refused' = refused \cup {Refusal(r, id[w])}
        /\ UNCHANGED refs
  /\ todo' = [todo EXCEPT ![w] = @ \ {r}]
  /\ Goto(w, "queueing")
  /\ UNCHANGED <<dbVars, listVars, scanning, ready, jobs, id, head, index, crashes>>

(* The same turn of the loop then inserts into the runner's queue. *)
queue_for_runner(w) ==
  /\ pc[w] = "queueing"
  /\ Insert(RunnerQueue, id[w])
  /\ Goto(w, "pushing")
  /\ UNCHANGED <<disk, listVars, scanning, ready, jobs, id, todo, gitVars, crashes>>

(* Mutation: the thread goes back to the pool still holding its series. *)
ThreadKeepsSeries(w) ==
  /\ Goto(w, "idle")
  /\ todo' = [todo EXCEPT ![w] = {}]
  /\ UNCHANGED id

ThreadReturns(w) ==
  /\ Goto(w, "idle")
  /\ id' = [id EXCEPT ![w] = NoSeries]
  /\ todo' = [todo EXCEPT ![w] = {}]

(* do_work returned Ok: drop the entry. *)
work_succeeds(w) ==
  /\ pc[w] = "pushing" /\ todo[w] = {}
  /\ Remove(w, id[w])
  /\ ThreadReturns(w)
  /\ UNCHANGED <<disk, listVars, scanning, ready, jobs, gitVars, crashes>>

(* Mutation: a failed series is dropped instead of moved to the failures. *)
work_fails_drops(w) ==
  /\ \/ pc[w] \in {"resetting", "applying", "committing"} /\ UNCHANGED refs
     \/ pc[w] = "pushing" /\ \E r \in todo[w] : refs' \in {refs, Pushed(w, r)}
  /\ Remove(w, id[w])
  /\ ThreadReturns(w)
  /\ UNCHANGED <<disk, listVars, scanning, ready, jobs, head, index, refused, crashes>>

(* Mutation: a series that failed is tried again. *)
work_fails_requeues(w) ==
  /\ \/ pc[w] \in {"resetting", "applying", "committing"} /\ UNCHANGED refs
     \/ pc[w] = "pushing" /\ \E r \in todo[w] : refs' \in {refs, Pushed(w, r)}
  /\ move_to_new_queue(w, NeedsTesting, id[w])
  /\ ThreadReturns(w)
  /\ UNCHANGED <<disk, listVars, scanning, ready, jobs, head, index, refused, crashes>>

(* Mutation: an error leaves the entry in the worker's tree. *)
work_fails_in_place(w) ==
  /\ \/ pc[w] \in {"resetting", "applying", "committing"} /\ UNCHANGED refs
     \/ pc[w] = "pushing" /\ \E r \in todo[w] : refs' \in {refs, Pushed(w, r)}
  /\ ThreadReturns(w)
  /\ UNCHANGED <<dbVars, listVars, scanning, ready, jobs, head, index, refused, crashes>>

(***************************************************************************)
(* do_work returned Err, from any of its fallible calls: opening or        *)
(* resetting the worktree, the download, the patch, the commit, a push.    *)
(* Pushes and queue entries made for earlier remotes stay; the push that   *)
(* failed may have got through to the remote all the same.                 *)
(***************************************************************************)
work_fails(w) ==
  /\ \/ pc[w] \in {"resetting", "applying", "committing"} /\ UNCHANGED refs
     \/ pc[w] = "pushing" /\ \E r \in todo[w] : refs' \in {refs, Pushed(w, r)}
  /\ move_to_new_queue(w, GitFailures, id[w])
  /\ ThreadReturns(w)
  /\ UNCHANGED <<disk, listVars, scanning, ready, jobs, head, index, refused, crashes>>

-----------------------------------------------------------------------------
(* Flushing is of no consequence once the process can no longer die. *)
flush ==
  /\ crashes < MaxCrashes
  /\ Flush /\ kept' = remotes
  /\ UNCHANGED <<remotes, inits, scanning, ready, jobs, threadVars, gitVars, crashes>>

(* The process is started again: what was in memory is gone. *)
Restart ==
  /\ Recover /\ remotes' = kept /\ inits' = {}
  /\ scanning' = {} /\ ready' = FALSE /\ jobs' = {}
  /\ pc' = AllIdle /\ id' = NoJob /\ todo' = [w \in Workers |-> {}]
  /\ UNCHANGED <<kept, gitVars>>

(* The process dies, of whatever reason. *)
crash ==
  /\ crashes < MaxCrashes
  /\ crashes' = crashes + 1
  /\ Restart

-----------------------------------------------------------------------------
worker_step(w) ==
  \/ \E s \in Series : try_do_work(w, s)
  \/ leave_wait_loop(w) \/ claim_series(w) \/ clean_and_reset(w)
  \/ apply_series(w) \/ commit_series(w)
  \/ \E r \in Remotes : push(w, r)
  \/ queue_for_runner(w) \/ work_succeeds(w) \/ work_fails(w)

Next ==
  \/ \E s \in Series : watchcat_sees(s) \/ watchcat_queues(s) \/ runner_takes(s) \/ ingest(s)
  \/ init_worktrees \/ \E r \in Remotes : runner_init(r)
  \/ \E w \in Workers : worker_step(w)
  \/ flush \/ crash

Spec == Init /\ [][Next]_vars

(***************************************************************************)
(* Fairness: the closure spawned by main runs, ingest reaches every key of *)
(* its tree (each pass of the iterator covers all of them), and a pool     *)
(* thread that can go on does.  The last one takes it that a download, a   *)
(* push and a child git process return at some time, with an error or not. *)
(* Nothing obliges the watchcat, the runner or a crash to act.             *)
(***************************************************************************)
Fairness ==
  /\ WF_vars(init_worktrees)
  /\ \A s \in Series : WF_vars(ingest(s))
  /\ \A w \in Workers : WF_vars(worker_step(w))

FairSpec == Spec /\ Fairness

-----------------------------------------------------------------------------
Labels == {"idle", "waiting", "claiming", "resetting", "applying",
           "committing", "pushing", "queueing"}

(* The types of the variables; labels only where the thread holds a series. *)
TypeOK ==
  /\ db \in [Trees -> SUBSET Series] /\ disk \in [Trees -> SUBSET Series]
  /\ remotes \subseteq Remotes /\ kept \subseteq Remotes /\ inits \subseteq Remotes
  /\ scanning \subseteq Series /\ jobs \subseteq Series /\ ready \in BOOLEAN
  /\ pc \in [Workers -> Labels]
  /\ id \in [Workers -> Series \cup {NoSeries}]
  /\ \A w \in Workers : pc[w] = "idle" <=> id[w] = NoSeries
  /\ todo \in [Workers -> SUBSET Remotes]
  /\ head \in [Workers -> SUBSET Series] /\ index \in [Workers -> SUBSET Series]
  /\ refs \subseteq [remote : Remotes, series : Series, content : SUBSET Series]
  /\ refused \subseteq [remote : Remotes, series : Series]
  /\ crashes \in 0..MaxCrashes

Claiming(w) == pc[w] \in {"waiting", "claiming"}
Working(w)  == pc[w] \notin {"idle", "waiting", "claiming"}

InGit(d, s) == \E t \in GitTrees : s \in d[t]

(***************************************************************************)
(* A remote has answered a push of the series: it has the branch, or it    *)
(* refused the reference without do_work being told.                       *)
(***************************************************************************)
Answered(r, s) == HasBranch(r, s) \/ Refusal(r, s) \in refused
AnsweredSomewhere(s)  == \E r \in Remotes : Answered(r, s)
AnsweredEverywhere(s) == \A r \in Remotes : Answered(r, s)

(***************************************************************************)
(* A series is in at most one tree of the git stage, in the database and   *)
(* in what a restart would find of it: no interleaving of ingest, workers, *)
(* flushes and crashes leaves a series to two of them (git.rs:163,193,205).*)
(***************************************************************************)
OneTree(d) ==
  \A s \in Series : \A t1, t2 \in GitTrees : s \in d[t1] /\ s \in d[t2] => t1 = t2

OneGitTree == OneTree(db) /\ OneTree(disk)

(***************************************************************************)
(* Every job in the pool has its entry: a transaction finds the key it     *)
(* moves, so the retry without end of database.rs:16 is never entered, and *)
(* a worker inside do_work owns exactly its series, so the unwrap of       *)
(* git.rs:348 cannot panic and two threads never share a series.           *)
(***************************************************************************)
JobsHaveEntries ==
  /\ jobs \subseteq db[AwaitingGitWorker]
  /\ \A w \in Workers :
       /\ Claiming(w) => id[w] \in db[AwaitingGitWorker]
       /\ Working(w) => db[w] = {id[w]}

(***************************************************************************)
(* A branch on a remote is master plus its own series, never what an       *)
(* earlier, failed or killed job left in the worktree (git.rs:227-253).    *)
(***************************************************************************)
BranchHoldsItsSeries == \A b \in refs : b.content = {b.series}

(***************************************************************************)
(* The runner is told of a series only once some remote has answered its   *)
(* push, whichever database a restart finds: there is the branch, or, the  *)
(* one case do_work is not told of, a reference that was refused; never an *)
(* error, nor a push that was not sent (git.rs:404-429).                   *)
(***************************************************************************)
QueuedIsPushed ==
  \A s \in db[RunnerQueue] \cup disk[RunnerQueue] : AnsweredSomewhere(s)

(***************************************************************************)
(* Short of a crash, a series leaves the trees of the git stage only when  *)
(* every remote has its branch or refused it: no push is skipped, and no   *)
(* error do_work is told of is lost (git.rs:178-209).  Nor is one left     *)
(* from the last run that is committed before runner::init has listed the  *)
(* remotes (main.rs:129).                                                  *)
(***************************************************************************)
NeverDropped ==
  [][crashes' = crashes =>
       \A s \in Series : InGit(db, s) /\ ~InGit(db', s) => AnsweredEverywhere(s)]_vars

(***************************************************************************)
(* A series the watchcat has marked seen and queued is never looked at     *)
(* again by it, so the git stage has to see it through: as long as the     *)
(* process stays up it ends up among the failures, or out of the stage     *)
(* with its push answered by every remote (git.rs:154-209).                *)
(***************************************************************************)
Handled(s) == s \in db[GitFailures] \/ (AnsweredEverywhere(s) /\ ~InGit(db, s))

SeenIsHandled ==
  \A s \in Series :
    crashes = 0 /\ s \in db[SeenByWatchcat] \ scanning ~> Handled(s) \/ crashes > 0

(***************************************************************************)
(* After the last restart whatever is in "needs testing" is still handled, *)
(* unless its job went to a thread whose tree the crash left occupied, or  *)
(* every thread spins on such a tree (git.rs:158-174,188-191).             *)
(***************************************************************************)
Wedged(w) == pc[w] = "waiting" /\ db[w] # {}

RestartHandlesQueue ==
  \A s \in Series :
    crashes = MaxCrashes /\ s \in db[NeedsTesting]
      ~> \/ Handled(s)
         \/ \E w \in Workers : Wedged(w) /\ id[w] = s
         \/ \A w \in Workers : Wedged(w)

(***************************************************************************)
(* The git stage keeps its side of the contract with the watchcat: it only *)
(* takes series off "needs testing" and never puts one back, however it    *)
(* fails, so that a series is tested once (git.rs:158-209).                *)
(***************************************************************************)
TwoTrees(d) == [seen |-> d[SeenByWatchcat], queue |-> d[NeedsTesting]]

Source == INSTANCE SeriesSource WITH
            now <- TwoTrees(db), saved <- TwoTrees(disk), pending <- scanning

ImplementsSource == Source!Spec

(***************************************************************************)
(* git.rs:187 says of the wait loop's body "This should never happen": a   *)
(* thread never finds its own tree occupied.                               *)
(***************************************************************************)
WaitLoopNeverEntered == \A w \in Workers : pc[w] = "waiting" => db[w] = {}
=============================================================================
