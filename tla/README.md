# A formal model of snowpatch

snowpatch watches a Patchwork project for new patch series, applies each one to
a git tree, pushes the result to where CI runs, and posts the CI results back
to Patchwork as checks.  It is one process with several threads, and all its
state that matters is in one sled database whose trees serve as work queues.
The modules here describe the threads, the trees, what a crash leaves behind
and what the outside world (remotes, Patchwork, CI) can do meanwhile.  TLC
checks them on small instances, and TLAPS proves the safety properties for any
number of series, workers, remotes, keys, pool threads and crashes.

File references such as `git.rs:163` are relative to `src/src/`.

## The system

A series passes through these trees, each move being a transaction or an
insert:

    watchcat   "seen by watchcat"  ->  "needs testing"
    GitOps     "needs testing" -> "awaiting git worker" -> "git worker N"
                    -> (removed) or "git failures";  insert into "github queue"
    Runner     "github queue" -> "github working" -> (removed);
                    insert into "needs dispatch", one entry for each job
    Dispatch   "needs dispatch" -> (removed), one check on Patchwork

| component | state | operations | interacts with |
|---|---|---|---|
| Database (`database.rs`, `DB` in `main.rs`) | trees; the part of them flushed to disk | insert, remove, `move_to_new_queue`, `wait_for_tree`, recovery | everything |
| Watchcat (`watchcat.rs`) | "seen by watchcat", `last_checked` | `scan`: list series, mark, queue | Patchwork (GET), GitOps (tree) |
| GitOps (`git.rs`) | "awaiting git worker", "git worker N", "git failures", worktrees, a pool of threads | `init_worktrees`, `ingest`, `try_do_work`, `do_work` | remotes (push), Runner (tree) |
| Runner (`runner.rs`) | "github queue", "github working", watchers in memory | `init`, `new_job_watcher`, `wait_for_completion` | GitHub client, Dispatch (tree) |
| GitHub client (`runner/github.rs`) | none | `start_work`, `get_progress`, `wfr_to_runner_result` | GitHub (GET) |
| Dispatch (`dispatch.rs`) | "needs dispatch", `keys_to_drop` | `wait_and_send` | Patchwork client |
| Patchwork client (`patchwork.rs`) | none | GETs, `send_check` | Patchwork |
| Start-up, threads (`main.rs`) | rayon's global pool | spawn the loops, scan every ten minutes | everything |
| Configuration (`config.rs`) | a few static keys | `parse_config` | read once |

What is hard here:

* Every stage is a thread of its own and the trees are their only link.  An
  insert may come at any point of a consumer's pass or while it goes to sleep.
* A series is held by several things at once: a tree entry, a job in a pool, a
  worktree, branches on remotes.  They have to agree.
* Any error in a loop is unwrapped and aborts the process, so a crash is
  ordinary.  What was in memory is gone, sled may come back without the last
  writes, and what the remotes and Patchwork have stays.
* Only some trees are read again after a start ("needs testing", "github
  queue", "needs dispatch").  "awaiting git worker", "git worker N" and "github
  working" are not.
* HTTP requests and pushes may take effect although the caller sees an error,
  and a push may have no effect although the caller sees none.
* All loops, polls and parallel iterators share one pool of threads, and a
  thread that waits in an iterator runs whatever else it finds meanwhile.

For each component, correct means:

* Database: a consumer does not sleep through an insert; a move finds its key.
* GitOps: one holder for each series; a branch holds exactly its series; the
  runner is told only of a series whose push a remote has answered; no error
  `do_work` is told of is lost; what is queued gets handled.
* Dispatch: one check for a context, however often results are sent again;
  nothing dropped unreported; everything reported in the end.
* Runner, GitHub client: a result says what a run really ended as; a poll ends,
  with all its runs reported; what is queued is taken; nothing in "github
  working" is forgotten.
* Watchcat: a series that needs action and stays on the newest page is queued
  once, after its mark; only a death of the process loses one.
* Start-up, thread pool: main's scans and the polls come to an end although
  endless loops run on the same pool; no series is committed before the remotes
  are listed.

`PROJECT.json` lists the hazards line by line with the properties that cover
them, or why none does.

## Modules

### Database

The part of sled and `database.rs` the components share.  `db` is the database
as the process sees it and `disk` what the next start would find.  snowpatch
never calls `flush()`; sled flushes in the background and keeps one log for all
trees, so `Flush` copies all of `db` at any time and `Recover` goes back to the
last copy.  A tree is the set of its keys, since nothing branches on the values.
`move_to_new_queue` is disabled while the key is missing: in the code the
transaction is retried without end then, and the caller hangs.

### SeriesSource

What the watchcat and the git stage promise each other about the two trees they
share: a series is marked once, whoever marked it queues it at most once, it is
only ever taken from the queue, and a new start undoes this for both trees
together.  `Watchcat` refines it with the scan's items as `pending`, `GitOps`
with its short stand-in for the watchcat, so what `GitOps` assumes of the
watchcat is no more than the contract the watchcat was shown to keep.

### Watchcat

main's thread and the items of its parallel iterator, in any interleaving:

| action | code |
|---|---|
| `submit`, `complete`, `triage` | the environment: mails arrive and a maintainer changes a state |
| `scan` | `watchcat.rs:56-63`, `patchwork.rs:87-104`: a snapshot of the newest page |
| `filter_seen`, `filter_patch` | the filters, `watchcat.rs:64-75`; an error of `get_patch` is a no |
| `mark`, `check_state`, `queue` | `watchcat.rs:77`, `:39`, `:47` |
| `end_scan`, `scan_fails`, `list_fails` | `collect` and main's `?` |
| `ingest`, `flush`, `crash` | the git stage, sled, every other death |

An item that failed ends the process once the items under way are through, since
the pool finishes what it has begun.  Bounds: `N` series, `MaxFailures` failing
requests, `MaxCrashes`.

### GitOps

One action for each step of the code that another thread, a remote or a crash
can come between:

| action | code |
|---|---|
| `watchcat_sees`, `watchcat_queues`, `runner_takes` | the environment: `watchcat.rs:77`, `:47`, `runner.rs:90` |
| `runner_init` | `runner.rs:47-70`, in main's thread, one remote at a time |
| `init_worktrees` | `git.rs:118-150`; any subset of the worktrees may be made anew |
| `ingest` | one turn of the loop at `git.rs:159-170` |
| `try_do_work`, `leave_wait_loop`, `claim_series` | `git.rs:178-193` |
| `clean_and_reset`, `apply_series`, `commit_series` | `do_work` up to the commit |
| `push`, `queue_for_runner` | one turn of the loop over the remotes, `git.rs:404-430` |
| `work_succeeds`, `work_fails` | `git.rs:197-208` |
| `flush`, `crash` | sled, and a process that dies and starts again |

A worktree is two sets of series: what `HEAD` and what the index have over
master.  `clean_and_reset` empties both, applying adds to the index, committing
copies the index to `HEAD`, a push copies `HEAD` to the remote.  A reset that
does not work, or two threads in one worktree, shows as a branch with the wrong
content.  A push to a remote that has the branch already is not fast forward and
is let through by the code without changing the branch.  A failed push may have
arrived.

A remote that took the pack may refuse the reference (a hook, a protected name).
libgit2 tells a `push_update_reference` callback of it, `git.rs:256-286` sets
none, and `push` returns Ok.  So `push` has two outcomes without an error: the
branch is there, or the remote is in `refused` and there is no branch.  The code
goes on alike in both: the runner is told, and the series is dropped as done.
The properties say what is left: `QueuedIsPushed`, `NeverDropped` and `Handled`
speak of remotes that `Answered` the push, with a branch or a silent refusal, and
forbid what the code does prevent, a series queued or dropped after an error or
with a push that was never sent.

`remotes` is the tree "remotes to push to".  main spawns `ingest` before
`runner::init` has filled it, so a series left from the last run can be at
`commit_series` while the list is being made.  It is nevertheless complete then:
the series was marked by a scan, every scan of every run came after `init`, and
sled's one log cannot lose the list and keep the mark (`ListInv` of the proofs,
`NeverDropped` in the run).  This is for a configuration that stays the same.

Bound: `MaxCrashes`.  Everything else is finite by its constants.

### WorkQueue, TreeWait

`WorkQueue` is the contract of every consumer loop: entries come and go one at
a time and none stays for ever.  `TreeWait` is the loop as written, an ordered
iterator that sees inserts ahead of it and misses those behind it, followed by
`wait_for_tree` with its subscription, its test for emptiness and its blocking
wait.  `ImplementsWorkQueue` is the refinement, with the tree as the queue.  It
is what entitles the other modules to write "disabled while the tree is empty"
for `wait_for_tree`.  Assumed of sled: an insert becomes visible and its event is
handed to the subscribers in one step.

### Dispatch

`wait_and_send` and `send_check` as one thread: take the next entry, look at the
patch's checks, post, remember the key; at the end of the pass remove the
remembered keys.  `ContextOf` is the last patch of the series with the encoded
context; two jobs may share one.  Without a token `send_check` returns early and
the entry is dropped.  A crash inside the POST leaves it unmade, processed, or,
in the behaviours with `latePosts`, to be processed at any later time.  Patchwork
may refuse an entry for good (`rejected`, out of `Rejectable`): every start of
the process ends at it, as often as it comes.  `AheadIsReported` is what is left
of progress then.  Values are not modelled here, as the first check of a context
stands; `Snowpatch` has them.

### GitHubActions, Runner

`GitHubActions` is `wfr_to_runner_result` as operators: the state of a run, when
the second request makes the result an error, and the outcomes possible.  A run
is its status, its conclusion and the three facts about its jobs that matter: how
many failed, whether it was at "Set up job", and whether there are annotations.
"active" stands for both unfinished statuses.

`Runner` has a watcher for each configured runner (`runners` is chosen at the
start) and pool threads that run `wait_for_completion`:

| action | code |
|---|---|
| `push` | the environment: `do_work` pushes to a remote, which may refuse the branch, and inserts, `git.rs:403-430` |
| `run_starts`, `run_ends`, `rerun` | the environment: GitHub |
| `begin_pass`, `next_entry` | the loop and the iterator, `runner.rs:78-87` |
| `start_work` | `github.rs:355-388`; with its 600 s timeout it may end at any time |
| `move_to_working`, `spawn` | `runner.rs:90`, `:95` |
| `wait_for_completion` | a thread begins a spawned closure |
| `get_workflow_runs`, `get_jobs`, `abort` | `get_progress`: the two rounds of requests, with GitHub free to move in between, and the unwrap of its error |
| `send_result`, `jobs_done`, `remove_from_working` | `runner.rs:121-152` |
| `flush`, `crash` | sled, and every other death of the process |

A pass of a watcher works on the keys the queue had when it began, because sled
serves an iterator from the leaf it has loaded; with two watchers a key may be
gone when it is handed out.  Where the one consumer is the only thread that
removes (the other modules) this makes no difference but that an insert ahead of
the iterator may be left to the next pass, like one behind it.  An entry of
"needs dispatch" is a series, a workflow's name and an outcome, and a new one
replaces the one of the same series and name.  What Dispatch removes is left
out, as nothing here reads the tree.  `Threads` are the threads of rayon's pool
that are free for polls; that there is one is for `RayonPool`.

A result is made of two answers of different moments, the list of runs and then
the jobs of one of them.  `ended` keeps what the runs of each workflow on each
branch have ended as, and `NoFalseVerdict` asks that a result be `Backed` by it:
there were a run and jobs on one branch that `Supports` the outcome, and they are
of one attempt unless somebody re-ran the workflow.  Where there was a re-run the
two may be of different attempts, and the result is a mixture; the code has no
way to tell.

`github.rs:258-268` builds a Warning, "not the patch's fault", for a run whose
failed step is "Set up job", drops the value and reports a Fail.  `ResultOutcomes`
follows the code; `Supports` allows both, as both are what the answers say; and
`SetupFailureIsNoFail` is the code's own words, which the run `runner_setup`
refutes.

Bounds: `MaxCrashes`, and `MaxReruns` for re-runs.  Aborts are not bounded: the
process starts again with what the disk has.

### RayonPool

Who runs on rayon's global pool.  rayon is external, and four facts of it are
modelled: a thread has a stack of jobs and runs the top one; jobs from outside
come through one queue in order; a parallel iterator keeps one half and offers
the other to thieves; and a thread whose half was stolen runs any other job on
top of the one that waits.

| action | code |
|---|---|
| `spawn_loop` | `main.rs:129-152`: git, the watchers, dispatch |
| `begin_scan`, `end_scan` | `main.rs:154`, `:177`; main blocks until the pool is through |
| `spawn_poll` | `runner.rs:95` |
| `split` | a parallel iterator; for a poll, `get_progress` (`github.rs:390-397`) |
| `end_round` | `runner.rs:118-152`: another round, or the poll returns |
| `take_loop`, `take_scan`, `take_poll`, `take_piece`, `return_piece` | rayon |

Bound: `Depth`, how often an iterator splits.

### Snowpatch

The composition: `GitOps`, `Runner` and `Dispatch` as instances over one
database, in one process.  Each action is an action of one of them, and where
one component did something in another's tree both sides take the step together:

| action | code | what it joins |
|---|---|---|
| `queue_for_runner` | `git.rs:428-430` | `GitOps!queue_for_runner` with `Runner!push`, whose branch is there if the remote has it |
| `new_job_watcher` | `main.rs:136-140` | takes from "github queue", in place of `GitOps!runner_takes` |
| `send_result` | `runner.rs:128-135` | `Runner!send_result` with `Dispatch!finish_job` |
| `dispatch` | `main.rs:149-152` | `wait_and_send`, with the value the iterator hands out and, at the POST, the check made of it |
| `late_post` | `patchwork.rs:197-206` | `Dispatch!late_post` with the value the dead process sent |
| `flush` | sled | one flush of all trees |
| `abort`, `crash` | a panic anywhere | every component starts again from the one log |

"needs dispatch" is there twice, with the results as `Runner` writes them and as
the keys `Dispatch` works on, since each module keeps of it what it needs; both
are flushed and recovered in one step.  The removals are made in the second one
only, so the first is the record of what was ever written, and `NoResultLost`
compares the two.

`ImplementsComponents` is the refinement the modules of the components are used
for: on its own trees (`OnTrees`) and variables every component only takes steps
its own module has, what the others do there being its environment.  `GitView`,
`RunnerView` and `D` are the mappings.  One thing is added to what `GitOps` and
`Dispatch` know: a poll's panic ends them too without being counted as a crash
(`UncountedDeath`).

The watchcat is `GitOps`' stand-in for it, which `Watchcat` justifies.

A check is the value that was handed out for its key.  sled serves an iterator
from a leaf it has loaded, so this may be any value the entry has had since the
pass began (`leaf`) and older than what the tree has.  A POST whose process died
may be processed late, with the value it was sent with (`abandoned`): `latePosts`
is open, as in `Dispatch`.

Two things are less than in `Dispatch`.  `Rejectable` is empty: the death a
refusal leads to is one of the crashes counted, and that the refused entry leads
to it on every start is left to `Dispatch`.  The TLC instance has one key and so
one context for it; `ContextOf` is any function in the proofs, which cover shared
contexts.  `OneCheckPerContext` keeps its premise `~latePosts` here: with
late POSTs a context may get a second check in the composition too.

## Runs

| run | instance | shows |
|---|---|---|
| `git_safety` | 2 series, 2 workers, 2 remotes that may refuse a branch, 1 crash | `OneGitTree`, `JobsHaveEntries`, `BranchHoldsItsSeries`, `QueuedIsPushed`, `NeverDropped`, `ImplementsSource` |
| `git_live` | 2 series, 2 workers, 1 remote, 1 crash | `SeenIsHandled` until the crash, `RestartHandlesQueue` after it |
| `git_wait_loop` | the same | a violation: the loop that "should never happen" runs |
| `watchcat` | 3 series, a page of 2, 1 failing request, 1 crash | `OnlyDeathLoses`, `OnPageIsQueued`, `ImplementsSource` |
| `runner` | 1 series, 1 repository, 2 workflows, 1 thread, 1 re-run, 1 crash, any number of aborts | `NoFalseVerdict`, `OnlyDeathOrphans`, `DoneIsReported`, `QueueDrains`, `PollsEnd` |
| `runner_setup` | 1 series, 1 workflow that may fail at "Set up job", no re-run, no crash | a violation: a failure that is "not the patch's fault" is a Fail |
| `runner_two_watchers` | 1 series, 2 repositories (one without workflows), 1 workflow, no re-run, no crash | a violation: a watcher never gets past its move |
| `tree_wait` | 5 keys | `NoLostWakeup`, `ImplementsWorkQueue` |
| `dispatch` | 3 keys, the middle one refused or not, 2 contexts, 2 crashes, late POSTs or none | `OneCheckPerContext`, `SpareChecksCostACrash`, `DroppedIsReported`, `DurableUntilReported`, `EntriesReported`, `AheadIsReported` |
| `rayon` | 4 threads, 1 runner, 2 polls, iterators split once | `ScanNotBuried`, `ThreadIsLeft`, `ScanEnds`, `PollEnds` |
| `rayon_small` | 3 threads, 1 runner, 1 poll | a violation: main's first scan never returns |
| `snowpatch` | 1 series, 1 worker, 1 runner, 1 workflow, 1 re-run, 1 crash, any number of aborts, late POSTs or none | `CheckIsTrue`, `NoResultLost`, `ImplementsComponents`, `QueuedIsPolled`, `ListedIsChecked` |

Why these bounds are enough: what can go wrong needs two holders of one series
or one holder of two (two workers, two series), an earlier and a later remote
(two remotes), and a crash with work of every stage under way (one crash; two in
`dispatch`, so that a crash also meets what an earlier one left).  Two series,
two workers and one remote were also checked with two crashes.  In `dispatch`
two keys share a context and a third lies between them in the iterator's order.
In `runner` one series is enough for two polls of one series (the git stage
pushes and queues it again after the crash, while the poll of the recovered entry
goes on) and for a re-run during a poll, and two workflows for runs that finish
apart.  Two repositories, one of them without workflows, are in
`runner_two_watchers`, and any number of them in the proofs; the safety properties
were also checked with two, one workflow, a re-run and a crash, and single runs
with two series.
In `watchcat` three series on a page of two let one leave the page unseen, and
one failing request and one crash cover both ways to lose a marked series.  In
`rayon` one thread more than loops is the tightest pool that works, and two polls
are enough for one to be stolen from, or run on top of, the other; one poll with
iterators that split twice was also checked.
`snowpatch` has the least of everything, because what the components do with more
of it the other runs have shown; a re-run lets an older result be on its way
while a newer one is written.  The safety properties were
also checked with two workflows whose results share a context and a crash, and
with two series without one.
The symmetric sets are used for `git_safety` only; liveness runs have none.

Deadlock is checked where something can always happen (`watchcat`, `tree_wait`,
`dispatch`, `rayon`).  In `GitOps` and `Runner`
it is not: once every series is through there is nothing left to do.

### The violations

* `git_wait_loop`: `git.rs:187` says "This should never happen" of a worker that
  finds its tree occupied.  A crash inside `do_work` leaves the tree like that,
  nothing clears it, and the worker spins for ever with the next series it takes.
* `runner_setup`: `github.rs:264` calls a failure at "Set up job" one that
  "failed to run, not the patch's fault".  The Warning built with these words is
  the value of a statement in a `for` body and dropped, and a Fail is reported.
* `runner_two_watchers`: two runners share the handle "github" and so the queue.
  Both take an entry, one moves it, and the other's transaction is retried by
  sled for as long as the key is missing.
* `rayon_small`: main spawns a loop for git, one for each runner and one for
  dispatch, and none of them ever gives its thread back.  rayon has one thread
  for each CPU, so with one runner on three CPUs or fewer nothing is left to run
  the parallel iterator main waits for in its first scan.

Four more that no run is kept for.  A push whose reference was refused counts as
one that succeeded, and the series is dropped with the runner waiting for a branch
that is not there (`refused` in `GitOps`).  The mark in "seen by watchcat" is made before
the series is queued and outlives "awaiting git worker" and "git worker N", which
are not read at start, so a crash in between means the series is never tested;
`SeenIsHandled` and `QueuedIsPolled` end at a death for this reason.  With `latePosts`
`OneCheckPerContext` would fail without its premise:
the duplicate protection of `patchwork.rs:176` is a look before a POST, a POST
that times out ends the process, and the next one looks and posts while the
first may still be processed; `SpareChecksCostACrash` says how far that goes.
And in `RayonPool` a poll that begins before the last loop runs may take that
loop on top of itself and never return, which is why `PollEnds` speaks of a pool
that has begun all of them.

## Fairness

* GitOps: the closure that runs `init_worktrees` and then `ingest` keeps
  running, and so does each pool thread.  `ingest` is fair for every series,
  because each of its passes covers every key of the tree (TreeWait).  This takes
  it that a download, a push and a child process end at some time, with an error
  or not.  It is an assumption: `download_file` has no read timeout.  Nothing is
  assumed of the watchcat, the runner, flushes or crashes.
* Runner: every watcher and every poll keeps running, and a free thread takes a
  spawned closure.  Of GitHub it is assumed that a run that has started is
  completed, but not that a workflow ever starts.  `next_entry` needs no more
  than the watcher's fairness, since a pass covers every key.
* Watchcat: main's thread goes on and every request returns; the pool runs the
  items of a scan (RayonPool).  Nothing is assumed of Patchwork and the git stage.
* RayonPool: main and every pool thread keep running, and CI comes to an end.  A
  spawned poll is taken with strong fairness, because a thread that looks for
  work tries the other threads' deques, where polls are, before the queue of
  injected jobs, where scans are.
* Snowpatch: that of its components.  "In a process that stays up" is said with
  `ready`, which once true is false only in a new process.
* TreeWait, Dispatch: the consumer's thread keeps running; inserts and crashes
  are not obliged to happen.  All waiting in Dispatch is bounded by the agent's
  timeouts.

Crashes are bounded, so the liveness properties speak of a process that stays up
from some point (`QueueDrains` says so itself, as aborts are not bounded).  An
entry Patchwork always refuses ends every start; `EntriesReported` leaves it out
and `AheadIsReported` is about it.

## Proofs

`GitOpsProofs`, `WatchcatProofs`, `RunnerProofs`, `TreeWaitProofs`,
`DispatchProofs`, `RayonPoolProofs`, `SnowpatchProofs` and `CompositionProofs`
hold the theorems; the assumptions are those named in the modules (`GitOpsAssumption`,
`WatchcatAssumption`, `RunnerAssumption`, `KeysAssumption`,
`DispatchAssumption`, `RayonPoolAssumption`, `SnowpatchAssumption`): worker trees have names of their own, keys are numbers,
contexts are given by a function, runs end as completed runs, the pool is finite
and there is a runner.  `SnowpatchAssumption` is those of the three components,
that worker trees are not the runner's either, and that each job of a series has a
key of its own.

**GitOps.**  None of the properties is inductive alone.  `IInv` has four parts,
proved one after the other for every action:

* `TypeOK`, by itself.
* `DbInv`: that a series is in one tree only (`OneGitTree`) rests on the watchcat
  queueing it once, hence on its mark being in every database that has its entry
  (`SeenFirst`, for memory and disk), and on a series about to be queued not
  being in the stage yet (`ScanInv`).  That jobs find their entries rests on no
  two claims holding the same series and on a worker claiming only into an empty
  tree (`ClaimInv`).  A crash takes `db` to `disk`, which is why both carry the
  invariant, and empties all claims.
* `ListInv`: once a series is marked, in memory or on disk, the list of remotes
  beside it is complete; with `SeenFirst` every worker finds all remotes listed.
* `BranchInv`: what the worktree holds at each label (`RepoInv`), that no job
  exists before the worktrees do (`StartInv`), `BranchHoldsItsSeries` and
  `QueuedIsPushed`.  Branches and refusals are only ever added, so what was
  answered stays answered across crashes.

A restart keeps all four whether it is counted as a crash or not (`RestartKeeps`,
`InvDeath`), which the composition needs.

`NothingDropped` is the action property, from `IInv` and the observation that
`work_succeeds` is the only step but `crash` that takes a series out of the stage.
`KeepsContract` is the refinement of `SeriesSource`, step by step: only the
stand-in for the watchcat, `ingest`, `flush` and `crash` touch what it speaks of.

**Watchcat.**  `KeepsContract` maps each step to one of `SeriesSource` and needs
that what passed the filters is still unmarked (`Unmarked`): one scan runs at a
time and each item is for a series of its own.  `DeathLoses` is an action
property, from `TypeOK`: `main` leaves a scan only when no item is under way.

**Runner.**  `VerdictsAreTrue` needs two invariants, one on the other: every
completed run that GitHub has or a poll was told of is one that ended so on that
branch, and before any re-run there is only one such (`RunsInv`); hence every
outcome computed or written is `Backed` by the two answers it was made of
(`HonestInv`, for memory and disk).  `OutcomesSupported` is the step: the outcomes
that can be made of two answers are supported by them.
`PollsReport` needs that `completed_jobs` are the jobs with an entry in "needs
dispatch" (`SentInv`) and that entries there are only replaced by their like.
`OrphansAreFromDeaths` is an action property, from `CareStays`: a closure is
passed from watcher to pool to thread and lost only when it returns, at the step
that takes the entry out.

**TreeWait.**  `WakeupNotLost` is inductive as it stands; `StepsOfWorkQueue` is
the safety half of the refinement.

**Dispatch.**  `ReportedOnce` needs that the context about to be posted still has
no check (`PostingInv`), which is true because one thread posts and no late POST
is outstanding; `DurableResults` and `DropsAreReported` need that remembered keys
are reported (`DropInv`).  `SpareChecksBounded` holds with late POSTs too: every
request for a context so far cost a crash, except the one whose answer arrived
(`SpareInv`).

**RayonPool.**  `ScansStayFree` needs that loops are begun in order and before
the scan is (`ScanInv`): the queue of injected jobs is first in, first out, so a
thread that holds a part of a scan finds no loop any more.  `SomeThreadIsLeft`
counts: each endless thread has a loop of its own on top (`LoopInv`), so there
are no more of them than loops (a pigeonhole argument).

**Snowpatch.**  `ResultsArrive` is about both forms of "needs dispatch", in
memory and on disk.  It needs that the keys about to be removed are reported, and
that both forms come back from the same flush; the steps of the git stage and all
but one of the runner's are shown to leave results alone.

**The composition.**  `CompositionProofs` reuses the proofs of the components: it
has their proof modules as instances on the state of `Snowpatch` (`GP`, `RP`,
`DP`) and cites the lemmas proved there.  The argument goes in a circle that an
invariant closes.  A step of the composition is a step of every component
(`ComponentSteps`) if what one hands to another is what the other expects: the
git stage queues a series and not nothing, the runner moves a series it holds
(`Holders`).  That is in the invariants of the components, which in turn are kept
by steps of the components.  So the joint invariant `AllInv` has the inductive
invariants of all three on their views of the database, with that of
`SnowpatchProofs`, and one step keeps all of it: each part by the `...Next` lemma
of its own module, and by `InvDeath`, `OnceDeath` where a death is not counted.

* `ComponentsImplemented` is the refinement `ImplementsComponents`.
* `GuaranteesKept` is what follows: the safety properties of the components, proved
  of each by itself, hold of them in one process, and the git stage keeps its
  contract with the watchcat there too.  They mean no more than they do of the
  components: a series in the queue is one a remote answered, with its branch or
  a silent refusal, and there is no second check for a context unless Patchwork
  processes a POST its sender gave up on.
* `ChecksAreTrue` is `CheckIsTrue`, which no component could state.  A run is on a
  branch its remote has, since GitHub learns of a branch from `queue_for_runner`
  alone, and only of one that is there (`HubInv`).  What the leaf of dispatch's
  pass, its iterator, an abandoned POST or Patchwork has is a result that runs on
  one branch back (`ToldInv`): it was one when it was taken from the tree, by
  `HonestInv` of the runner, and GitHub's past only grows.  That the branch holds
  nothing else is `BranchHoldsItsSeries` of the git stage.

Only model-checked: the liveness properties `SeenIsHandled`,
`RestartHandlesQueue`, `OnPageIsQueued`, `QueueDrains`, `PollsEnd`,
`EntriesReported`, `AheadIsReported`, `ScanEnds`, `PollEnds`, `QueuedIsPolled`,
`ListedIsChecked` and the liveness half of `ImplementsWorkQueue`.  Liveness under fairness is out of the prover's reach.

Each pass property was also checked against a mutation of the code that breaks
it; the mutated operators stand before the ones they replace, marked `Mutation`.

## Not modelled, and the plan

Left out for good:

* `config.rs` and the arguments: a file is read before anything else runs.
* Logging, rendering of descriptions and URLs, and failures of sled itself.
* Files a killed checkout leaves in a worktree outside the index.
* A configuration that changes between two runs: the list of remotes only grows
  (`runner.rs:59`), so a remote that is taken out is still pushed to.
* `get_series_state` and `has_series`, which nothing calls, and `Manual` triggers
  and `clean_up`, which are `todo!()`.

What could be added next: the configuration as a variable that changes between
two starts.
