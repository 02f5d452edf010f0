------------------------------ MODULE Watchcat ------------------------------
(***************************************************************************)
(* watchcat.rs: main's thread scans Patchwork every ten minutes.  A scan   *)
(* fetches the newest page of series, and a parallel iterator puts each of *)
(* them through the filters, the mark in "seen by watchcat", the request   *)
(* for its checks and the queue.  The filters swallow errors; an error     *)
(* after them, or of the list, ends the process.                           *)
(*                                                                         *)
(* Patchwork is external, and so is git.rs's ingest, which empties "needs  *)
(* testing"; here nothing leaves the tree it moves the series to.          *)
(***************************************************************************)
EXTENDS Database, Naturals

CONSTANTS
  N,             \* bound: series 1..N are submitted, in this order
  PageSize,      \* config.patchwork.page_size
  MaxFailures,   \* bound: how many requests may fail
  MaxCrashes     \* bound: how often the process may die of something else

ASSUME WatchcatAssumption ==
  N \in Nat /\ PageSize \in Nat /\ MaxFailures \in Nat /\ MaxCrashes \in Nat

VARIABLES
  status,     \* each series on Patchwork: "absent", "partial", "open" or "closed"
  main,       \* "starting", "scanning" or "sleeping"
  stage,      \* how far the scan is with each series
  failures,   \* how many requests have failed
  crashes     \* how often the process has died of something else

vars == <<dbVars, status, main, stage, failures, crashes>>

Series == 1..N
Trees  == {SeenByWatchcat, NeedsTesting, AwaitingGitWorker}
Idle   == [s \in Series |-> "none"]

Init ==
  /\ db = [t \in Trees |-> {}] /\ disk = db
  /\ status = [s \in Series |-> "absent"]
  /\ main = "starting" /\ stage = Idle
  /\ failures = 0 /\ crashes = 0

-----------------------------------------------------------------------------
(* Patchwork. *)
Submitted == {s \in Series : status[s] # "absent"}

(* get_series_list, `order=-id`, `per_page`: the newest series. *)
Page == {s \in Submitted : Submitted \subseteq 1..(s + PageSize - 1)}

(* received_all, and received_total > 0. *)
Complete(s) == status[s] \in {"open", "closed"}

(* "new" or "under-review", and not a pull request. *)
action_required(s) == status[s] = "open"

SetStatus(s, to) ==
  /\ status' = [status EXCEPT ![s] = to]
  /\ UNCHANGED <<dbVars, main, stage, failures, crashes>>

(* The first mails of the next series, or all of them. *)
submit(s) ==
  /\ status[s] = "absent" /\ \A r \in Series : r < s => status[r] # "absent"
  /\ \E to \in {"partial", "open"} : SetStatus(s, to)

complete(s) == status[s] = "partial" /\ SetStatus(s, "open")

(* A maintainer changes the state of its last patch, either way. *)
triage(s) ==
  \/ status[s] = "open" /\ SetStatus(s, "closed")
  \/ status[s] = "closed" /\ SetStatus(s, "open")

-----------------------------------------------------------------------------
Goto(s, label) == stage' = [stage EXCEPT ![s] = label]

(* scan: the list is a snapshot, and the first two filters look at it. *)
scan ==
  /\ main # "scanning"
  /\ main' = "scanning"
  /\ stage' = [s \in Series |-> IF s \in Page /\ Complete(s) THEN "listed" ELSE "none"]
  /\ UNCHANGED <<dbVars, status, failures, crashes>>

(* Mutation: the mark is made before the patch is looked at. *)
filter_seen_and_mark(s) ==
  /\ stage[s] = "listed"
  /\ Insert(SeenByWatchcat, s)
  /\ Goto(s, IF s \in db[SeenByWatchcat] THEN "none" ELSE "unseen")
  /\ UNCHANGED <<disk, status, main, failures, crashes>>

(* `!tree.contains_key(..)`. *)
filter_seen(s) ==
  /\ stage[s] = "listed"
  /\ Goto(s, IF s \in db[SeenByWatchcat] THEN "none" ELSE "unseen")
  /\ UNCHANGED <<dbVars, status, main, failures, crashes>>

(* get_patch and action_required; a request that fails is like a no. *)
filter_patch(s) ==
  /\ stage[s] = "unseen"
  /\ \/ Goto(s, IF action_required(s) THEN "wanted" ELSE "none") /\ UNCHANGED failures
     \/ failures < MaxFailures /\ failures' = failures + 1 /\ Goto(s, "none")
  /\ UNCHANGED <<dbVars, status, main, crashes>>

(* `tree.insert(&series.id.to_string(), b"hello")`. *)
mark(s) ==
  /\ stage[s] = "wanted"
  /\ Insert(SeenByWatchcat, s)
  /\ Goto(s, "marked")
  /\ UNCHANGED <<disk, status, main, failures, crashes>>

(* Mutation: `if checks.is_empty()`, without the `|| true`. *)
check_state_if_empty(s) ==
  /\ stage[s] = "marked"
  /\ \/ Goto(s, "checked") /\ UNCHANGED failures
     \/ Goto(s, "none") /\ UNCHANGED failures
     \/ failures < MaxFailures /\ failures' = failures + 1 /\ Goto(s, "failed")
  /\ UNCHANGED <<dbVars, status, main, crashes>>

(* check_state asks for the checks; what they are makes no difference. *)
check_state(s) ==
  /\ stage[s] = "marked"
  /\ \/ Goto(s, "checked") /\ UNCHANGED failures
     \/ failures < MaxFailures /\ failures' = failures + 1 /\ Goto(s, "failed")
  /\ UNCHANGED <<dbVars, status, main, crashes>>

(* Mutation: the series stays with the scan, which queues it again. *)
queue_again(s) ==
  /\ stage[s] = "checked"
  /\ Insert(NeedsTesting, s)
  /\ stage' \in {stage, [stage EXCEPT ![s] = "none"]}
  /\ UNCHANGED <<disk, status, main, failures, crashes>>

(* check_state inserts the series into "needs testing". *)
queue(s) ==
  /\ stage[s] = "checked"
  /\ Insert(NeedsTesting, s)
  /\ Goto(s, "none")
  /\ UNCHANGED <<disk, status, main, failures, crashes>>

(* Mutation: main does not wait until all series are through. *)
end_scan_early ==
  /\ main = "scanning"
  /\ main' = "sleeping"
  /\ UNCHANGED <<dbVars, status, stage, failures, crashes>>

(* collect returns once all series are through. *)
end_scan ==
  /\ main = "scanning" /\ stage = Idle
  /\ main' = "sleeping"
  /\ UNCHANGED <<dbVars, status, stage, failures, crashes>>

-----------------------------------------------------------------------------
(* ingest takes a series off the queue. *)
ingest(s) ==
  /\ move_to_new_queue(NeedsTesting, AwaitingGitWorker, s)
  /\ UNCHANGED <<disk, status, main, stage, failures, crashes>>

flush ==
  /\ Flush
  /\ UNCHANGED <<status, main, stage, failures, crashes>>

(* The process ends and is started again. *)
Restart == Recover /\ main' = "starting" /\ stage' = Idle /\ UNCHANGED status

(* get_series_list fails and main returns the error. *)
list_fails ==
  /\ main # "scanning" /\ failures < MaxFailures
  /\ failures' = failures + 1
  /\ Restart
  /\ UNCHANGED crashes

(***************************************************************************)
(* collect returns the error of a series: those the pool has begun were    *)
(* still put through, the rest may not be.                                 *)
(***************************************************************************)
scan_fails ==
  /\ \E s \in Series : stage[s] = "failed"
  /\ \A s \in Series : stage[s] \in {"none", "listed", "failed"}
  /\ Restart
  /\ UNCHANGED <<failures, crashes>>

(* Anything else ends the process. *)
crash ==
  /\ crashes < MaxCrashes
  /\ crashes' = crashes + 1
  /\ Restart
  /\ UNCHANGED failures

-----------------------------------------------------------------------------
item_step(s) == filter_seen(s) \/ filter_patch(s) \/ mark(s) \/ check_state(s) \/ queue(s)

Next ==
  \/ scan \/ end_scan \/ list_fails \/ scan_fails \/ flush \/ crash
  \/ \E s \in Series : submit(s) \/ complete(s) \/ triage(s) \/ item_step(s) \/ ingest(s)

Spec == Init /\ [][Next]_vars

(***************************************************************************)
(* main's thread goes on (the pool runs its iterators: RayonPool), and a   *)
(* request returns.  Patchwork and ingest owe nothing.                     *)
(***************************************************************************)
Fairness ==
  /\ WF_vars(scan) /\ WF_vars(end_scan) /\ WF_vars(scan_fails)
  /\ \A s \in Series : WF_vars(item_step(s))

FairSpec == Spec /\ Fairness

-----------------------------------------------------------------------------
Stages == {"none", "listed", "unseen", "wanted", "marked", "checked", "failed"}

(* The types of the variables; series are under way only during a scan. *)
TypeOK ==
  /\ db \in [Trees -> SUBSET Series] /\ disk \in [Trees -> SUBSET Series]
  /\ status \in [Series -> {"absent", "partial", "open", "closed"}]
  /\ main \in {"starting", "scanning", "sleeping"}
  /\ stage \in [Series -> Stages] /\ (main # "scanning" => stage = Idle)
  /\ failures \in 0..MaxFailures /\ crashes \in 0..MaxCrashes

Pending == {s \in Series : stage[s] \in {"marked", "checked", "failed"}}
Queued(s) == s \in db[NeedsTesting] \cup db[AwaitingGitWorker]

(* Marked, so skipped by every later scan, and on no way into the queue. *)
Lost(s) == s \in db[SeenByWatchcat] /\ ~Queued(s) /\ s \notin Pending

(***************************************************************************)
(* Only the end of the process takes a series that is marked away from the *)
(* scan before it is queued: whatever the checks are, and whichever other  *)
(* series fails meanwhile (watchcat.rs:39-52,60-82).                       *)
(***************************************************************************)
OnlyDeathLoses == [][main' # "starting" => \A s \in Series : Lost(s)' => Lost(s)]_vars

(***************************************************************************)
(* A series that needs action and stays on the newest page is queued, or   *)
(* was lost to a death of the process.  One that leaves the page between   *)
(* two scans may never be (watchcat.rs:57, patchwork.rs:98-103).           *)
(***************************************************************************)
LostToDeath(s) == Lost(s) /\ failures + crashes > 0

OnPageIsQueued ==
  \A s \in Series :
    <>[](s \in Page /\ action_required(s)) => <>[](Queued(s) \/ LostToDeath(s))

(***************************************************************************)
(* The watchcat keeps the contract GitOps is built on: each series is      *)
(* marked before it is queued and queued once, by the scan that marked it, *)
(* however its items interleave with restarts (watchcat.rs:63-80).         *)
(***************************************************************************)
TwoTrees(d) == [seen |-> d[SeenByWatchcat], queue |-> d[NeedsTesting]]

Source == INSTANCE SeriesSource WITH
            now <- TwoTrees(db), saved <- TwoTrees(disk), pending <- Pending

ImplementsSource == Source!Spec
=============================================================================
