---------------------------- MODULE RunnerProofs ----------------------------
(***************************************************************************)
(* The safety properties of Runner, for any series, repositories,          *)
(* workflows, pool threads, re-runs and crashes.                           *)
(***************************************************************************)
EXTENDS Runner, TLAPS

(***************************************************************************)
(* Types.                                                                  *)
(***************************************************************************)
LEMMA TypeInit == Init => TypeOK
<1> SUFFICES ASSUME Init PROVE TypeOK
  OBVIOUS
<1>1. NoResponse \in [Workflows -> WorkflowRuns]
  BY DEF NoResponse, WorkflowRuns
<1>2. NoResults \in [Workflows -> Outcomes \cup {"unfinished", "none"}]
  BY DEF NoResults
<1>3. TreesOK(db) /\ TreesOK(disk)
  BY DEF Init, TreesOK, Trees, RunnerQueue, GithubWorking, NeedsDispatch
<1>4. /\ response \in [Threads -> [Workflows -> WorkflowRuns]]
      /\ results \in [Threads -> [Workflows -> Outcomes \cup {"unfinished", "none"}]]
      /\ runs \in [Closures -> [Workflows -> WorkflowRuns]]
  BY <1>1, <1>2 DEF Init
<1>5. ended \in [Closures -> [Workflows -> SUBSET Endings]]
  BY DEF Init
<1>6. crashes \in 0..MaxCrashes /\ reruns \in 0..MaxReruns
  BY RunnerAssumption DEF Init
<1> QED BY <1>3, <1>4, <1>5, <1>6, RunnerAssumption DEF Init, TypeOK

LEMMA TypePush ==
  ASSUME TypeOK, NEW c \in Closures, NEW there \in BOOLEAN, push(c, there)
  PROVE  TypeOK'
<1>1. c.series \in Series
  BY DEF Closures
<1>2. TreesOK(db') /\ TreesOK(disk')
  BY <1>1
     DEF push, Insert, TypeOK, TreesOK, Trees, RunnerQueue, GithubWorking, NeedsDispatch
<1>3. runs' \in [Closures -> [Workflows -> WorkflowRuns]]
  BY DEF push, TypeOK, WorkflowRuns
<1>4. pushed' \subseteq Closures
  BY DEF push, TypeOK
<1> QED BY <1>2, <1>3, <1>4 DEF push, TypeOK, watcherVars, pollVars

LEMMA TypeHub ==
  ASSUME TypeOK, NEW c \in Closures, NEW w \in Workflows,
         run_starts(c, w) \/ run_ends(c, w) \/ rerun(c, w)
  PROVE  TypeOK'
<1>t. Due \in WorkflowRuns /\ Active \in WorkflowRuns /\ Endings \subseteq WorkflowRuns
  BY RunnerAssumption DEF WorkflowRuns
<1>1. CASE run_starts(c, w)
  <2>1. runs' \in [Closures -> [Workflows -> WorkflowRuns]]
    BY <1>1, <1>t DEF run_starts, TypeOK
  <2> QED BY <1>1, <2>1 DEF run_starts, TypeOK, watcherVars, pollVars, dbVars
<1>2. CASE run_ends(c, w)
  <2>1. PICK e \in Endings : /\ runs' = [runs EXCEPT ![c][w] = e]
                             /\ ended' = [ended EXCEPT ![c][w] = @ \cup {e}]
    BY <1>2 DEF run_ends
  <2>3. runs' \in [Closures -> [Workflows -> WorkflowRuns]]
    BY <1>t, <2>1 DEF TypeOK
  <2>4. ended' \in [Closures -> [Workflows -> SUBSET Endings]]
    BY <2>1 DEF TypeOK
  <2> QED BY <1>2, <2>3, <2>4 DEF run_ends, TypeOK, watcherVars, pollVars, dbVars
<1>3. CASE rerun(c, w)
  <2>1. runs' \in [Closures -> [Workflows -> WorkflowRuns]]
    BY <1>3, <1>t DEF rerun, TypeOK
  <2>2. reruns' \in 0..MaxReruns
    BY <1>3, RunnerAssumption DEF rerun, TypeOK
  <2> QED BY <1>3, <2>1, <2>2 DEF rerun, TypeOK, watcherVars, pollVars, dbVars
<1> QED BY <1>1, <1>2, <1>3

LEMMA TypeWatcher ==
  ASSUME TypeOK, NEW r \in Repos, new_job_watcher(r)
  PROVE  TypeOK'
<1> USE DEF TypeOK, watcherVars, pollVars, dbVars, hubVars
<1>1. CASE begin_pass(r)
  <2>1. pass' \in [Repos -> SUBSET Series]
    BY <1>1 DEF begin_pass, Queue, TreesOK
  <2> QED BY <1>1, <2>1 DEF begin_pass
<1>2. CASE next_entry(r)
  <2>1. PICK s \in pass[r] : /\ pass' = [pass EXCEPT ![r] = @ \ {s}]
                             /\ current' = [current EXCEPT ![r] = s]
    BY <1>2 DEF next_entry
  <2>2. s \in Series
    BY <2>1
  <2>3. /\ current' \in [Repos -> Series \cup {None}]
        /\ at' \in [Repos -> {"iterating", "starting", "moving", "spawning"}]
        /\ \A x \in Repos : at'[x] # "iterating" <=> current'[x] # None
    BY <1>2, <2>1, <2>2, RunnerAssumption DEF next_entry
  <2>4. pass' \in [Repos -> SUBSET Series]
    BY <2>1
  <2> QED BY <1>2, <2>3, <2>4 DEF next_entry
<1>3. CASE start_work(r)
  BY <1>3 DEF start_work
<1>4. CASE move_to_working(r)
  <2>1. current[r] \in Series
    BY <1>4 DEF move_to_working
  <2>2. TreesOK(db')
    BY <1>4, <2>1 DEF move_to_working, move_to_new_queue, TreesOK, Trees,
                      RunnerQueue, GithubWorking, NeedsDispatch
  <2> QED BY <1>4, <2>2 DEF move_to_working
<1>5. CASE spawn(r)
  <2>1. pending' \in [Closures -> Nat]
    <3>1. [repo |-> r, series |-> current[r]] \in Closures
      BY <1>5 DEF spawn, Closures
    <3> QED BY <1>5, <3>1 DEF spawn
  <2>2. /\ current' \in [Repos -> Series \cup {None}]
        /\ at' \in [Repos -> {"iterating", "starting", "moving", "spawning"}]
        /\ \A x \in Repos : at'[x] # "iterating" <=> current'[x] # None
    BY <1>5 DEF spawn
  <2> QED BY <1>5, <2>1, <2>2 DEF spawn
<1> QED BY <1>1, <1>2, <1>3, <1>4, <1>5 DEF new_job_watcher

LEMMA OutcomesTyped ==
  ASSUME NEW run, NEW jobs
  PROVE  ResultsOf(run, jobs) \subseteq Outcomes \cup {"unfinished", "none"}
BY DEF ResultsOf, ResultOutcomes, Outcomes

LEMMA TypePoll ==
  ASSUME TypeOK, NEW t \in Threads,
         poll(t) \/ \E c \in Closures : wait_for_completion(t, c)
  PROVE  TypeOK'
<1> USE DEF TypeOK, watcherVars, pollVars, dbVars, hubVars
<1>n. /\ NoResponse \in [Workflows -> WorkflowRuns]
      /\ NoResults \in [Workflows -> Outcomes \cup {"unfinished", "none"}]
  BY DEF NoResponse, NoResults, WorkflowRuns
<1>1. ASSUME NEW c \in Closures, wait_for_completion(t, c) PROVE TypeOK'
  <2>1. pending' \in [Closures -> Nat]
    BY <1>1 DEF wait_for_completion
  <2>2. /\ job' \in [Threads -> Closures \cup {None}]
        /\ pc' \in [Threads -> {"idle", "request", "jobs", "results", "done"}]
        /\ \A x \in Threads : pc'[x] # "idle" <=> job'[x] # None
    BY <1>1, RunnerAssumption DEF wait_for_completion
  <2> QED BY <1>1, <2>1, <2>2 DEF wait_for_completion
<1>2. CASE get_workflow_runs(t)
  <2>1. job[t] \in Closures
    BY <1>2 DEF get_workflow_runs
  <2>2. [w \in Workflows |-> IF Listed(runs[job[t]][w]) THEN runs[job[t]][w] ELSE NoBranch]
          \in [Workflows -> WorkflowRuns]
    BY <2>1 DEF WorkflowRuns
  <2>3. response' \in [Threads -> [Workflows -> WorkflowRuns]]
    BY <1>2, <2>2 DEF get_workflow_runs
  <2> QED BY <1>2, <2>3 DEF get_workflow_runs
<1>3. CASE get_jobs(t)
  <2>1. PICK f \in [Workflows -> Outcomes \cup {"unfinished", "none"}] :
          results' = [results EXCEPT ![t] = f]
    BY <1>3 DEF get_jobs
  <2>2. results' \in [Threads -> [Workflows -> Outcomes \cup {"unfinished", "none"}]]
    BY <2>1
  <2>3. response' \in [Threads -> [Workflows -> WorkflowRuns]]
    BY <1>3, <1>n DEF get_jobs
  <2> QED BY <1>3, <2>2, <2>3 DEF get_jobs
<1>4. ASSUME NEW w \in Workflows, send_result(t, w) PROVE TypeOK'
  <2>1. job[t] \in Closures
    BY <1>4 DEF send_result
  <2>2. [series |-> job[t].series, name |-> w, outcome |-> results[t][w]] \in Results
    BY <1>4, <2>1 DEF send_result, FinishedJobs, Closures, Results
  <2>3. TreesOK(db')
    BY <1>4, <2>2 DEF send_result, TreesOK, Trees, RunnerQueue, GithubWorking, NeedsDispatch
  <2> QED BY <1>4, <2>3 DEF send_result
<1>5. CASE jobs_done(t)
  <2>1. results' \in [Threads -> [Workflows -> Outcomes \cup {"unfinished", "none"}]]
    BY <1>5, <1>n DEF jobs_done
  <2> QED BY <1>5, <2>1 DEF jobs_done
<1>6. CASE remove_from_working(t)
  <2>1. TreesOK(db')
    BY <1>6 DEF remove_from_working, Remove, TreesOK, Trees,
                RunnerQueue, GithubWorking, NeedsDispatch
  <2>2. results' \in [Threads -> [Workflows -> Outcomes \cup {"unfinished", "none"}]]
    BY <1>6, <1>n DEF remove_from_working, Returned
  <2> QED BY <1>6, <2>1, <2>2 DEF remove_from_working, Returned
<1> QED BY <1>1, <1>2, <1>3, <1>4, <1>5, <1>6 DEF poll

LEMMA TypeDeath == ASSUME TypeOK, flush \/ dies PROVE TypeOK'
<1> USE DEF TypeOK, watcherVars, pollVars, dbVars, hubVars
<1>1. CASE flush
  BY <1>1 DEF flush, Flush
<1>2. CASE dies
  <2>1. Restart
    BY <1>2 DEF dies, crash, abort
  <2>2. crashes' \in 0..MaxCrashes
    BY <1>2, RunnerAssumption DEF dies, crash, abort
  <2>3. /\ response' \in [Threads -> [Workflows -> WorkflowRuns]]
        /\ results' \in [Threads -> [Workflows -> Outcomes \cup {"unfinished", "none"}]]
    BY <2>1 DEF Restart, NoResponse, NoResults, WorkflowRuns
  <2> QED BY <2>1, <2>2, <2>3, RunnerAssumption DEF Restart, Recover
<1> QED BY <1>1, <1>2

LEMMA TypeNext == TypeOK /\ [Next]_vars => TypeOK'
<1> SUFFICES ASSUME TypeOK, [Next]_vars PROVE TypeOK'
  OBVIOUS
<1>1. CASE UNCHANGED vars
  BY <1>1 DEF vars, dbVars, watcherVars, pollVars, hubVars, TypeOK
<1> QED BY <1>1, TypePush, TypeHub, TypeWatcher, TypePoll, TypeDeath DEF Next, github

THEOREM TypeCorrect == Spec => []TypeOK
BY TypeInit, TypeNext, PTL DEF Spec

-----------------------------------------------------------------------------
(***************************************************************************)
(* What a poll has sent.                                                   *)
(***************************************************************************)
HasResult(d, s, w) == \E e \in d[NeedsDispatch] : e.series = s /\ e.name = w

(* completed_jobs are the jobs with a result in "needs dispatch", and a    *)
(* poll that is over has no other.                                         *)
SentInv ==
  /\ \A t \in Threads : \A w \in completed[t] : pc[t] # "idle" /\ HasResult(db, job[t].series, w)
  /\ \A t \in Threads : pc[t] = "done" =>
       \A w \in Workflows : results[t][w] # "none" => w \in completed[t]

LEMMA SentInit == Init => SentInv
BY DEF Init, SentInv

(* A result is only ever replaced by one of the same name. *)
LEMMA ResultsStay ==
  ASSUME TypeOK, [Next]_vars, ~dies, NEW s \in Series, NEW w \in Workflows, HasResult(db, s, w)
  PROVE  HasResult(db', s, w)
<1> USE DEF HasResult
<1>1. CASE UNCHANGED db
  BY <1>1
<1>2. ASSUME NEW c \in Closures, NEW there \in BOOLEAN, push(c, there)
      PROVE  HasResult(db', s, w)
  BY <1>2 DEF push, Insert, TypeOK, TreesOK, Trees, RunnerQueue, NeedsDispatch
<1>3. ASSUME NEW r \in Repos, move_to_working(r) PROVE HasResult(db', s, w)
  BY <1>3 DEF move_to_working, move_to_new_queue, TypeOK, TreesOK, Trees,
             RunnerQueue, GithubWorking, NeedsDispatch
<1>4. ASSUME NEW t \in Threads, remove_from_working(t) PROVE HasResult(db', s, w)
  BY <1>4 DEF remove_from_working, Remove, TypeOK, TreesOK, Trees, GithubWorking, NeedsDispatch
<1>5. ASSUME NEW t \in Threads, NEW v \in Workflows, send_result(t, v) PROVE HasResult(db', s, w)
  <2> DEFINE new == [series |-> job[t].series, name |-> v, outcome |-> results[t][v]]
  <2>1. db'[NeedsDispatch]
          = {e \in db[NeedsDispatch] : e.series # new.series \/ e.name # new.name} \cup {new}
    BY <1>5 DEF send_result, TypeOK, TreesOK, Trees
  <2>2. PICK e \in db[NeedsDispatch] : e.series = s /\ e.name = w
    OBVIOUS
  <2>3. CASE e.series = new.series /\ e.name = new.name
    <3>1. new \in db'[NeedsDispatch] /\ new.series = s /\ new.name = w
      BY <2>1, <2>2, <2>3
    <3> QED BY <3>1
  <2>4. CASE e.series # new.series \/ e.name # new.name
    BY <2>1, <2>2, <2>4
  <2> QED BY <2>3, <2>4
<1> QED BY <1>1, <1>2, <1>3, <1>4, <1>5
        DEF Next, github, new_job_watcher, poll, vars, dbVars, run_starts, run_ends, rerun,
            begin_pass, next_entry, start_work, spawn, wait_for_completion,
            get_workflow_runs, get_jobs, jobs_done, flush, Flush

LEMMA SentNext == TypeOK /\ SentInv /\ [Next]_vars => SentInv'
<1> SUFFICES ASSUME TypeOK, SentInv, [Next]_vars PROVE SentInv'
  OBVIOUS
<1>1. CASE dies
  BY <1>1 DEF dies, crash, abort, Restart, SentInv
<1>2. ASSUME ~dies, UNCHANGED pollVars PROVE SentInv'
  <2>1. \A t \in Threads : \A w \in completed[t] : pc[t] # "idle" /\ HasResult(db', job[t].series, w)
    <3> SUFFICES ASSUME NEW t \in Threads, NEW w \in completed[t]
                 PROVE  pc[t] # "idle" /\ HasResult(db', job[t].series, w)
      OBVIOUS
    <3>1. job[t].series \in Series /\ w \in Workflows
      BY DEF SentInv, TypeOK, Closures
    <3> QED BY <1>2, <3>1, ResultsStay DEF SentInv
  <2> QED BY <1>2, <2>1 DEF SentInv, pollVars, HasResult
<1>3. ASSUME ~dies, NEW t \in Threads,
             poll(t) \/ \E c \in Closures : wait_for_completion(t, c)
      PROVE  SentInv'
  <2> DEFINE Sent(x) == \A w \in completed'[x] : pc'[x] # "idle" /\ HasResult(db', job'[x].series, w)
             Over(x) == pc'[x] = "done" =>
                          \A w \in Workflows : results'[x][w] # "none" => w \in completed'[x]
  <2>1. ASSUME NEW x \in Threads, x # t PROVE Sent(x) /\ Over(x)
    <3>1. /\ job'[x] = job[x] /\ pc'[x] = pc[x]
          /\ results'[x] = results[x] /\ completed'[x] = completed[x]
      BY <1>3, <2>1 DEF TypeOK, poll, wait_for_completion, get_workflow_runs, get_jobs,
                        send_result, jobs_done, remove_from_working, Returned
    <3>2. ASSUME NEW w \in completed[x] PROVE pc[x] # "idle" /\ HasResult(db', job[x].series, w)
      <4>1. job[x].series \in Series /\ w \in Workflows
        BY <3>2 DEF SentInv, TypeOK, Closures
      <4> QED BY <1>3, <3>2, <4>1, ResultsStay DEF SentInv
    <3> QED BY <3>1, <3>2 DEF SentInv, HasResult
  <2>2. ASSUME NEW w \in completed[t] PROVE pc[t] # "idle" /\ HasResult(db', job[t].series, w)
    <3>1. job[t].series \in Series /\ w \in Workflows
      BY <2>2 DEF SentInv, TypeOK, Closures
    <3> QED BY <1>3, <2>2, <3>1, ResultsStay DEF SentInv
  <2>3. Sent(t) /\ Over(t)
    <3>1. ASSUME NEW c \in Closures, wait_for_completion(t, c) PROVE Sent(t) /\ Over(t)
      BY <3>1, <2>2 DEF wait_for_completion, TypeOK
    <3>2. CASE get_workflow_runs(t) \/ get_jobs(t)
      BY <3>2, <2>2 DEF get_workflow_runs, get_jobs, TypeOK, HasResult
    <3>3. ASSUME NEW v \in Workflows, send_result(t, v) PROVE Sent(t) /\ Over(t)
      <4>1. HasResult(db', job[t].series, v)
        <5> DEFINE new == [series |-> job[t].series, name |-> v, outcome |-> results[t][v]]
        <5>1. new \in db'[NeedsDispatch]
          BY <3>3 DEF send_result, TypeOK, TreesOK, Trees
        <5> QED BY <5>1, <3>3 DEF HasResult, send_result
      <4>2. completed'[t] = completed[t] \cup {v} /\ UNCHANGED <<job, pc>> /\ pc[t] = "results"
        BY <3>3 DEF send_result, TypeOK
      <4> QED BY <4>1, <4>2, <2>2 DEF HasResult
    <3>4. CASE jobs_done(t)
      <4>1. UNCHANGED <<job, completed, db>> /\ pc'[t] \in {"done", "request"}
        BY <3>4 DEF jobs_done, TypeOK, dbVars
      <4>2. Over(t)
        BY <3>4 DEF jobs_done, TypeOK, FinishedJobs
      <4> QED BY <4>1, <4>2, <2>2 DEF HasResult
    <3>5. CASE remove_from_working(t)
      BY <3>5 DEF remove_from_working, Returned, TypeOK
    <3> QED BY <1>3, <3>1, <3>2, <3>3, <3>4, <3>5 DEF poll
  <2> QED BY <2>1, <2>3 DEF SentInv, HasResult
<1> QED BY <1>1, <1>2, <1>3
        DEF Next, github, new_job_watcher, vars, push, run_starts, run_ends, rerun,
            begin_pass, next_entry, start_work, move_to_working, spawn, flush

(***************************************************************************)
(* A poll that ends has reported every run of its last answer, and every   *)
(* one that had finished before (runner.rs:121-148).                       *)
(***************************************************************************)
THEOREM PollsReport == Spec => []DoneIsReported
<1>1. TypeOK /\ SentInv => DoneIsReported
  BY DEF SentInv, DoneIsReported, HasResult, TypeOK
<1>2. Init => TypeOK /\ SentInv
  BY TypeInit, SentInit
<1>3. TypeOK /\ SentInv /\ [Next]_vars => (TypeOK /\ SentInv)'
  BY TypeNext, SentNext
<1> QED BY <1>1, <1>2, <1>3, PTL DEF Spec

-----------------------------------------------------------------------------
(***************************************************************************)
(* Who polls.                                                              *)
(***************************************************************************)
(* The closure of a series is lost only when it returns or the process     *)
(* dies.                                                                   *)
LEMMA CareStays ==
  ASSUME TypeOK, [Next]_vars, ~dies, NEW s \in Series, Cared(s),
         \A t \in Threads : ~(remove_from_working(t) /\ job[t].series = s)
  PROVE  Cared(s)'
<1> USE DEF Cared, TypeOK
<1>1. CASE UNCHANGED <<at, current, pending, job>>
  BY <1>1
<1>2. ASSUME NEW r \in Repos, next_entry(r) \/ start_work(r) \/ move_to_working(r)
      PROVE  Cared(s)'
  BY <1>2 DEF next_entry, start_work, move_to_working, pollVars
<1>3. ASSUME NEW r \in Repos, spawn(r) PROVE Cared(s)'
  <2> DEFINE c == [repo |-> r, series |-> current[r]]
  <2>1. c \in Closures
    BY <1>3 DEF spawn, Closures
  <2>2. pending' = [pending EXCEPT ![c] = @ + 1] /\ UNCHANGED job
    BY <1>3 DEF spawn, pollVars
  <2>3. pending'[c] > 0 /\ \A d \in Closures : pending[d] > 0 => pending'[d] > 0
    BY <2>1, <2>2
  <2>4. CASE current[r] = s
    BY <2>1, <2>3, <2>4
  <2>5. CASE current[r] # s
    BY <1>3, <2>2, <2>3, <2>5 DEF spawn
  <2> QED BY <2>4, <2>5
<1>4. ASSUME NEW t \in Threads, NEW c \in Closures, wait_for_completion(t, c) PROVE Cared(s)'
  <2>1. /\ job' = [job EXCEPT ![t] = c] /\ job[t] = None /\ c # None
        /\ pending' = [pending EXCEPT ![c] = @ - 1] /\ UNCHANGED <<at, current>>
    BY <1>4, RunnerAssumption DEF wait_for_completion, watcherVars
  <2>2. CASE c.series = s
    BY <2>1, <2>2
  <2>3. CASE c.series # s
    BY <2>1, <2>3
  <2> QED BY <2>2, <2>3
<1>5. ASSUME NEW t \in Threads, remove_from_working(t) PROVE Cared(s)'
  BY <1>5 DEF remove_from_working, Returned, watcherVars
<1> QED BY <1>1, <1>2, <1>3, <1>4, <1>5
        DEF Next, github, new_job_watcher, poll, vars, watcherVars, pollVars, push, run_starts,
            run_ends, rerun, begin_pass, get_workflow_runs, get_jobs, send_result, jobs_done, flush

(***************************************************************************)
(* Short of a death of the process every entry of "github working" has a   *)
(* closure that polls for it or will (runner.rs:90-97, 150).               *)
(***************************************************************************)
THEOREM OrphansAreFromDeaths == Spec => OnlyDeathOrphans
<1>1. ASSUME TypeOK, [Next]_vars, ~dies, NEW s \in Working'
      PROVE  Cared(s)' \/ (s \in Working /\ ~Cared(s))
  <2>t. TypeOK'
    BY <1>1, TypeNext
  <2>s. s \in Series
    BY <2>t DEF TypeOK, TreesOK, Working
  <2>1. CASE s \in Working
    <3>1. ASSUME NEW t \in Threads, remove_from_working(t) PROVE job[t].series # s
      BY <1>1, <3>1 DEF remove_from_working, Remove, Working, TypeOK, TreesOK, Trees
    <3> QED BY <1>1, <2>1, <2>s, <3>1, CareStays
  <2>2. CASE s \notin Working
    <3>1. PICK r \in Repos : move_to_working(r)
      <4>1. \A c \in Closures, there \in BOOLEAN : ~push(c, there)
        BY <1>1, <2>2 DEF push, Insert, Working, TypeOK, TreesOK, Trees,
                          RunnerQueue, GithubWorking
      <4>2. \A t \in Threads, w \in Workflows : ~send_result(t, w)
        BY <1>1, <2>2 DEF send_result, Working, TypeOK, TreesOK, Trees,
                          NeedsDispatch, GithubWorking
      <4>3. \A t \in Threads : ~remove_from_working(t)
        BY <1>1, <2>2 DEF remove_from_working, Remove, Working, TypeOK, TreesOK, Trees
      <4>4. db' # db
        BY <1>1, <2>2 DEF Working
      <4> QED BY <1>1, <4>1, <4>2, <4>3, <4>4
              DEF Next, github, new_job_watcher, poll, vars, dbVars, run_starts, run_ends, rerun,
                  begin_pass, next_entry, start_work, spawn, wait_for_completion,
                  get_workflow_runs, get_jobs, jobs_done, flush, Flush
    <3>2. current[r] = s
      BY <1>1, <2>2, <3>1 DEF move_to_working, move_to_new_queue, Working, TypeOK, TreesOK,
                              Trees, RunnerQueue, GithubWorking
    <3> QED BY <1>1, <3>1, <3>2 DEF move_to_working, Cared, TypeOK
  <2> QED BY <2>1, <2>2
<1>2. TypeOK /\ [Next]_vars =>
        [~dies => \A s \in Working' : Cared(s)' \/ (s \in Working /\ ~Cared(s))]_vars
  BY <1>1
<1> QED BY <1>2, TypeCorrect, PTL DEF Spec, OnlyDeathOrphans

-----------------------------------------------------------------------------
(***************************************************************************)
(* What a result says.                                                     *)
(***************************************************************************)
Honest(e) == \E r \in Repos : Backed([repo |-> r, series |-> e.series], e.name, e.outcome)

(* Every completed run that GitHub has, or a poll has been told of, is one *)
(* that ended so, and without re-runs the two are the same.                *)
RunsInv ==
  /\ \A c \in Closures, w \in Workflows :
       runs[c][w].status = "completed" => runs[c][w] \in ended[c][w]
  /\ \A t \in Threads, w \in Workflows :
       response[t][w].status = "completed" =>
         /\ pc[t] = "jobs" /\ response[t][w] \in ended[job[t]][w]
         /\ reruns = 0 => runs[job[t]][w] = response[t][w]

(* So every outcome, computed or written, is backed by runs. *)
HonestInv ==
  /\ \A t \in Threads, w \in Workflows :
       results[t][w] \in Outcomes => job[t] # None /\ Backed(job[t], w, results[t][w])
  /\ \A e \in db[NeedsDispatch] \cup disk[NeedsDispatch] : Honest(e)

LEMMA NotCompleted ==
  NoBranch.status # "completed" /\ Due.status # "completed" /\ Active.status # "completed"
BY DEF NoBranch, Due, Active, Unfinished

LEMMA RunsInit == Init => RunsInv /\ HonestInv
<1>1. Init => RunsInv
  BY NotCompleted DEF Init, RunsInv, NoResponse
<1>2. Init => HonestInv
  <2>1. Init => db[NeedsDispatch] = {} /\ disk[NeedsDispatch] = {}
    BY DEF Init, Trees
  <2>2. Init => \A t \in Threads, w \in Workflows : results[t][w] \notin Outcomes
    BY DEF Init, NoResults, Outcomes
  <2> QED BY <2>1, <2>2 DEF HonestInv
<1> QED BY <1>1, <1>2

(* GitHub's past does not change. *)
LEMMA PastStays ==
  ASSUME TypeOK, [Next]_vars
  PROVE  /\ \A c \in Closures, w \in Workflows : ended[c][w] \subseteq ended'[c][w]
         /\ reruns' = 0 => reruns = 0
<1>1. CASE UNCHANGED <<ended, reruns>>
  BY <1>1
<1>2. ASSUME NEW c \in Closures, NEW w \in Workflows, run_ends(c, w)
      PROVE  /\ \A d \in Closures, v \in Workflows : ended[d][v] \subseteq ended'[d][v]
             /\ UNCHANGED reruns
  BY <1>2 DEF run_ends, TypeOK
<1>3. ASSUME NEW c \in Closures, NEW w \in Workflows, rerun(c, w)
      PROVE  UNCHANGED ended /\ reruns' # 0
  <2>1. reruns \in Nat /\ reruns' = reruns + 1 /\ UNCHANGED ended
    BY <1>3 DEF rerun, TypeOK
  <2> QED BY <2>1
<1> QED BY <1>1, <1>2, <1>3
        DEF Next, github, new_job_watcher, poll, vars, hubVars, push, run_starts,
            begin_pass, next_entry, start_work, move_to_working, spawn, wait_for_completion,
            get_workflow_runs, get_jobs, send_result, jobs_done, remove_from_working,
            flush, dies, crash, abort, Restart

LEMMA BackedStays ==
  ASSUME TypeOK, [Next]_vars, NEW c \in Closures, NEW w \in Workflows, NEW o, Backed(c, w, o)
  PROVE  Backed(c, w, o)'
BY PastStays DEF Backed

(* Without a re-run a completed run stays what it is. *)
LEMMA CompletedStays ==
  ASSUME TypeOK, [Next]_vars, reruns' = 0, NEW c \in Closures, NEW w \in Workflows,
         runs[c][w].status = "completed"
  PROVE  runs'[c][w] = runs[c][w]
<1>1. runs[c][w] # NoBranch /\ runs[c][w] # Due /\ runs[c][w] # Active
  BY NotCompleted
<1>2. CASE runs' = runs
  BY <1>2
<1>3. ASSUME NEW d \in Closures, NEW there \in BOOLEAN, push(d, there)
      PROVE  runs'[c][w] = runs[c][w]
  BY <1>1, <1>3 DEF push, TypeOK
<1>4. ASSUME NEW d \in Closures, NEW v \in Workflows, run_starts(d, v) \/ run_ends(d, v)
      PROVE  runs'[c][w] = runs[c][w]
  <2>1. c # d \/ w # v
    BY <1>1, <1>4 DEF run_starts, run_ends
  <2> QED BY <1>4, <2>1 DEF run_starts, run_ends, TypeOK
<1>5. \A d \in Closures, v \in Workflows : ~rerun(d, v)
  BY DEF rerun, TypeOK
<1> QED BY <1>2, <1>3, <1>4, <1>5
        DEF Next, github, new_job_watcher, poll, vars, hubVars, begin_pass, next_entry,
            start_work, move_to_working, spawn, wait_for_completion, get_workflow_runs,
            get_jobs, send_result, jobs_done, remove_from_working, flush, dies, crash,
            abort, Restart

LEMMA RunsNext == TypeOK /\ RunsInv /\ [Next]_vars => RunsInv'
<1> SUFFICES ASSUME TypeOK, RunsInv, [Next]_vars PROVE RunsInv'
  OBVIOUS
<1>p. \A c \in Closures, w \in Workflows : ended[c][w] \subseteq ended'[c][w]
  BY PastStays
<1>h. ASSUME NEW c \in Closures, NEW w \in Workflows
      PROVE  runs'[c][w].status = "completed" => runs'[c][w] \in ended'[c][w]
  <2>1. CASE runs' = runs
    BY <1>p, <2>1 DEF RunsInv
  <2>2. ASSUME NEW d \in Closures, NEW there \in BOOLEAN, push(d, there)
        PROVE  runs'[c][w].status = "completed" => runs'[c][w] \in ended'[c][w]
    BY <2>2, <1>p, NotCompleted DEF push, RunsInv, TypeOK
  <2>3. ASSUME NEW d \in Closures, NEW v \in Workflows, run_starts(d, v) \/ rerun(d, v)
        PROVE  runs'[c][w].status = "completed" => runs'[c][w] \in ended'[c][w]
    <3>1. runs' = [runs EXCEPT ![d][v] = Active]
      BY <2>3 DEF run_starts, rerun
    <3>2. runs'[c][w] = Active \/ runs'[c][w] = runs[c][w]
      BY <3>1 DEF TypeOK
    <3> QED BY <3>2, <1>p, NotCompleted DEF RunsInv
  <2>4. ASSUME NEW d \in Closures, NEW v \in Workflows, run_ends(d, v)
        PROVE  runs'[c][w].status = "completed" => runs'[c][w] \in ended'[c][w]
    <3>1. PICK e \in Endings : /\ runs' = [runs EXCEPT ![d][v] = e]
                               /\ ended' = [ended EXCEPT ![d][v] = @ \cup {e}]
      BY <2>4 DEF run_ends
    <3>2. CASE c = d /\ w = v
      BY <3>1, <3>2 DEF TypeOK
    <3>3. CASE ~(c = d /\ w = v)
      <4>1. runs'[c][w] = runs[c][w]
        BY <3>1, <3>3 DEF TypeOK
      <4> QED BY <4>1, <1>p DEF RunsInv
    <3> QED BY <3>2, <3>3
  <2> QED BY <2>1, <2>2, <2>3, <2>4
          DEF Next, github, new_job_watcher, poll, vars, hubVars, begin_pass, next_entry,
              start_work, move_to_working, spawn, wait_for_completion, get_workflow_runs,
              get_jobs, send_result, jobs_done, remove_from_working, flush, dies, crash,
              abort, Restart
<1>r. ASSUME NEW t \in Threads, NEW w \in Workflows
      PROVE  response'[t][w].status = "completed" =>
               /\ pc'[t] = "jobs" /\ response'[t][w] \in ended'[job'[t]][w]
               /\ reruns' = 0 => runs'[job'[t]][w] = response'[t][w]
  <2> DEFINE Goal == response'[t][w].status = "completed" =>
                       /\ pc'[t] = "jobs" /\ response'[t][w] \in ended'[job'[t]][w]
                       /\ reruns' = 0 => runs'[job'[t]][w] = response'[t][w]
  <2>1. ASSUME response'[t] = response[t], job'[t] = job[t], pc'[t] = pc[t]
        PROVE  Goal
    <3> SUFFICES ASSUME response[t][w].status = "completed"
                 PROVE  /\ pc[t] = "jobs" /\ response[t][w] \in ended'[job[t]][w]
                        /\ reruns' = 0 => runs'[job[t]][w] = response[t][w]
      BY <2>1
    <3>1. /\ pc[t] = "jobs" /\ response[t][w] \in ended[job[t]][w]
          /\ reruns = 0 => runs[job[t]][w] = response[t][w]
      BY DEF RunsInv
    <3>2. job[t] \in Closures
      BY <3>1 DEF TypeOK
    <3>3. reruns' = 0 => runs'[job[t]][w] = response[t][w]
      BY <3>1, <3>2, PastStays, CompletedStays
    <3> QED BY <1>p, <3>1, <3>2, <3>3
  <2>2. CASE response'[t] = NoResponse
    BY <2>2, NotCompleted DEF NoResponse
  <2>3. CASE get_workflow_runs(t)
    <3>1. /\ job'[t] = job[t] /\ job[t] \in Closures /\ job[t] # None /\ pc'[t] = "jobs"
          /\ UNCHANGED <<runs, ended>>
      BY <2>3 DEF get_workflow_runs, TypeOK, hubVars
    <3>2. response'[t][w] = IF Listed(runs[job[t]][w]) THEN runs[job[t]][w] ELSE NoBranch
      BY <2>3 DEF get_workflow_runs, TypeOK
    <3> QED BY <3>1, <3>2, NotCompleted DEF RunsInv
  <2>4. ASSUME NEW x \in Threads, x # t,
               poll(x) \/ \E c \in Closures : wait_for_completion(x, c)
        PROVE  response'[t] = response[t] /\ job'[t] = job[t] /\ pc'[t] = pc[t]
    BY <2>4 DEF TypeOK, poll, wait_for_completion, get_workflow_runs, get_jobs, send_result,
                jobs_done, remove_from_working, Returned
  <2>5. ASSUME NEW c \in Closures, wait_for_completion(t, c) PROVE Goal
    <3>1. response'[t] = response[t] /\ pc[t] # "jobs"
      BY <2>5 DEF wait_for_completion, TypeOK
    <3> QED BY <3>1 DEF RunsInv
  <2>6. CASE get_jobs(t)
    BY <2>2, <2>6 DEF get_jobs, TypeOK
  <2>7. CASE remove_from_working(t)
    <3>1. response'[t] = response[t] /\ pc[t] # "jobs"
      BY <2>7 DEF remove_from_working
    <3> QED BY <3>1 DEF RunsInv
  <2>8. CASE dies
    BY <2>2, <2>8 DEF dies, crash, abort, Restart
  <2>9. ASSUME NEW v \in Workflows, send_result(t, v) PROVE Goal
    BY <2>1, <2>9 DEF send_result
  <2>10. CASE jobs_done(t)
    <3>1. response'[t] = response[t] /\ pc[t] # "jobs"
      BY <2>10 DEF jobs_done
    <3> QED BY <3>1 DEF RunsInv
  <2>11. CASE UNCHANGED pollVars
    BY <2>1, <2>11 DEF pollVars
  <2> QED BY <2>1, <2>2, <2>3, <2>4, <2>5, <2>6, <2>7, <2>8, <2>9, <2>10, <2>11
          DEF Next, github, new_job_watcher, poll, vars, push, run_starts, run_ends, rerun,
              begin_pass, next_entry, start_work, move_to_working, spawn, flush
<1> QED BY <1>h, <1>r DEF RunsInv

(* Of a success and a failure the jobs matter, and they have all ended; of *)
(* any other conclusion they do not.                                       *)
LEMMA OutcomesSupported ==
  ASSUME NEW run \in WorkflowRuns, NEW jobs \in WorkflowRuns, ~ResultIsError(run, jobs),
         NEW o \in ResultsOf(run, jobs), o \in Outcomes
  PROVE  /\ run.status = "completed"
         /\ \/ jobs.status = "completed" /\ Supports(run, jobs, o)
            \/ Supports(run, run, o)
<1>1. Listed(run) /\ JobState(run) # "Running" /\ o \in ResultOutcomes(run, jobs)
  BY DEF ResultsOf, Outcomes
<1>2. run.status = "completed"
  BY <1>1 DEF Listed, JobState
<1>3. CASE run.conclusion = "success"
  <2>1. o = "success" \/ (o = "warning" /\ jobs.annotated)
    BY <1>1, <1>3 DEF ResultOutcomes
  <2>2. jobs.status = "completed"
    BY <1>3 DEF ResultIsError
  <2> QED BY <1>2, <1>3, <2>1, <2>2 DEF Supports
<1>4. CASE run.conclusion \in {"neutral", "skipped", "stale"}
  <2>1. o = "warning"
    BY <1>1, <1>4 DEF ResultOutcomes
  <2> QED BY <1>2, <1>4, <2>1 DEF Supports
<1>5. CASE run.conclusion = "failure"
  <2>1. o = "fail"
    BY <1>1, <1>5 DEF ResultOutcomes
  <2>2. jobs.status = "completed" /\ jobs.failures # 0
    BY <1>5 DEF ResultIsError
  <2>3. jobs.failures \in 0..2
    <3>1. jobs \in CompletedRuns => jobs.failures \in 0..2
      BY DEF CompletedRuns
    <3>2. NoBranch.failures = 0 /\ Due.failures = 0 /\ Active.failures = 0
      BY DEF NoBranch, Due, Active, Unfinished
    <3> QED BY <3>1, <3>2 DEF WorkflowRuns
  <2> QED BY <1>2, <1>5, <2>1, <2>2, <2>3 DEF Supports
<1>6. CASE run.conclusion \notin {"success", "neutral", "skipped", "stale", "failure"}
  <2>1. o = "fail"
    BY <1>1, <1>6 DEF ResultOutcomes
  <2> QED BY <1>2, <1>6, <2>1 DEF Supports
<1> QED BY <1>3, <1>4, <1>5, <1>6

(* What a poll makes of GitHub's two answers is backed by runs. *)
LEMMA AnswersBacked ==
  ASSUME TypeOK, RunsInv, NEW t \in Threads, NEW w \in Workflows, get_jobs(t),
         results'[t][w] \in Outcomes
  PROVE  job[t] \in Closures /\ Backed(job[t], w, results'[t][w])
<1> DEFINE run == response[t][w]
           jobs == runs[job[t]][w]
           o == results'[t][w]
<1>1. job[t] \in Closures /\ run \in WorkflowRuns /\ jobs \in WorkflowRuns
  BY DEF get_jobs, TypeOK
<1>2. o \in ResultsOf(run, jobs) /\ ~(Listed(run) /\ ResultIsError(run, jobs))
  BY DEF get_jobs, GetsError, TypeOK
<1>3. Listed(run)
  BY <1>2 DEF ResultsOf, Outcomes
<1>4. /\ run.status = "completed"
      /\ \/ jobs.status = "completed" /\ Supports(run, jobs, o)
         \/ Supports(run, run, o)
  BY <1>1, <1>2, <1>3, OutcomesSupported
<1>5. run \in ended[job[t]][w] /\ (reruns = 0 => jobs = run)
  BY <1>4 DEF RunsInv
<1>6. jobs.status = "completed" => jobs \in ended[job[t]][w]
  BY <1>1 DEF RunsInv
<1> HIDE DEF run, jobs, o
<1>7. Backed(job[t], w, o)
  BY <1>4, <1>5, <1>6 DEF Backed
<1> QED BY <1>1, <1>7 DEF o

LEMMA HonestNext == TypeOK /\ RunsInv /\ HonestInv /\ [Next]_vars => HonestInv'
<1> SUFFICES ASSUME TypeOK, RunsInv, HonestInv, [Next]_vars PROVE HonestInv'
  OBVIOUS
<1>p. /\ \A c \in Closures, w \in Workflows : ended[c][w] \subseteq ended'[c][w]
      /\ reruns' = 0 => reruns = 0
  BY PastStays
<1>r. ASSUME NEW t \in Threads, NEW w \in Workflows, results'[t][w] \in Outcomes
      PROVE  (job[t] # None /\ Backed(job[t], w, results[t][w]))'
  <2> DEFINE Goal == (job[t] # None /\ Backed(job[t], w, results[t][w]))'
  <2>1. CASE results'[t] = results[t] /\ job'[t] = job[t]
    <3>1. /\ job[t] \in Closures /\ job[t] # None
          /\ Backed(job[t], w, results[t][w])
      BY <1>r, <2>1 DEF HonestInv, TypeOK
    <3> QED BY <1>p, <2>1, <3>1 DEF Backed
  <2>2. CASE results'[t] = NoResults
    BY <1>r, <2>2 DEF NoResults, Outcomes
  <2>3. CASE get_jobs(t)
    <3>1. /\ job' = job /\ job[t] \in Closures /\ job[t] # None
          /\ UNCHANGED <<ended, reruns>>
      BY <2>3, RunnerAssumption DEF get_jobs, TypeOK, hubVars
    <3>2. Backed(job[t], w, results'[t][w])
      BY <1>r, <2>3, AnswersBacked
    <3> QED BY <3>1, <3>2 DEF Backed
  <2>4. ASSUME NEW x \in Threads, x # t,
               poll(x) \/ \E c \in Closures : wait_for_completion(x, c)
        PROVE  results'[t] = results[t] /\ job'[t] = job[t]
    BY <2>4 DEF TypeOK, poll, wait_for_completion, get_workflow_runs, get_jobs, send_result,
                jobs_done, remove_from_working, Returned
  <2>5. ASSUME NEW c \in Closures, wait_for_completion(t, c) PROVE Goal
    <3>1. results'[t] = results[t] /\ job[t] = None
      BY <2>5 DEF wait_for_completion, TypeOK
    <3> QED BY <1>r, <3>1 DEF HonestInv
  <2>6. ASSUME NEW v \in Workflows, get_workflow_runs(t) \/ send_result(t, v) PROVE Goal
    BY <2>1, <2>6 DEF get_workflow_runs, send_result
  <2>7. CASE jobs_done(t)
    <3>1. job'[t] = job[t] /\ (results'[t] = results[t] \/ results'[t] = NoResults)
      BY <2>7 DEF jobs_done, TypeOK
    <3> QED BY <2>1, <2>2, <3>1
  <2>8. CASE remove_from_working(t)
    BY <2>2, <2>8 DEF remove_from_working, Returned, TypeOK
  <2>9. CASE dies
    BY <2>2, <2>9 DEF dies, crash, abort, Restart
  <2>10. CASE UNCHANGED pollVars
    BY <2>1, <2>10 DEF pollVars
  <2> QED BY <2>1, <2>3, <2>4, <2>5, <2>6, <2>7, <2>8, <2>9, <2>10
          DEF Next, github, new_job_watcher, poll, vars, push, run_starts, run_ends, rerun,
              begin_pass, next_entry, start_work, move_to_working, spawn, flush
<1>s. ASSUME NEW e \in Results, Honest(e) PROVE Honest(e)'
  <2>1. PICK r \in Repos : Backed([repo |-> r, series |-> e.series], e.name, e.outcome)
    BY <1>s DEF Honest
  <2>2. [repo |-> r, series |-> e.series] \in Closures /\ e.name \in Workflows
    BY DEF Closures, Results
  <2> QED BY <1>p, <2>1, <2>2 DEF Honest, Backed
<1>o. \A e \in db[NeedsDispatch] \cup disk[NeedsDispatch] : e \in Results /\ Honest(e)'
  BY <1>s DEF HonestInv, TypeOK, TreesOK
<1>d. \A e \in db'[NeedsDispatch] \cup disk'[NeedsDispatch] : Honest(e)'
  <2>1. CASE db'[NeedsDispatch] \cup disk'[NeedsDispatch]
               \subseteq db[NeedsDispatch] \cup disk[NeedsDispatch]
    BY <1>o, <2>1
  <2>2. ASSUME NEW t \in Threads, NEW w \in Workflows, send_result(t, w)
        PROVE  \A e \in db'[NeedsDispatch] \cup disk'[NeedsDispatch] : Honest(e)'
    <3> DEFINE new == [series |-> job[t].series, name |-> w, outcome |-> results[t][w]]
    <3>1. new \in Results /\ Honest(new)
      <4>1. results[t][w] \in Outcomes /\ job[t] \in Closures
        BY <2>2 DEF send_result, FinishedJobs, TypeOK
      <4>2. Backed(job[t], w, results[t][w])
        BY <4>1 DEF HonestInv
      <4>3. job[t].repo \in Repos /\ job[t].series \in Series
            /\ job[t] = [repo |-> job[t].repo, series |-> job[t].series]
        BY <4>1 DEF Closures
      <4> QED BY <4>1, <4>2, <4>3 DEF Honest, Results
    <3>2. \A e \in {new} : Honest(e)'
      BY <3>1, <1>s
    <3>3. /\ db'[NeedsDispatch] \subseteq db[NeedsDispatch] \cup {new}
          /\ disk' = disk
      BY <2>2 DEF send_result, TypeOK, TreesOK, Trees
    <3> QED BY <1>o, <3>2, <3>3
  <2>3. ASSUME NEW c \in Closures, NEW there \in BOOLEAN, push(c, there)
        PROVE  db'[NeedsDispatch] = db[NeedsDispatch] /\ disk' = disk
    BY <2>3 DEF push, Insert, TypeOK, TreesOK, Trees, RunnerQueue, NeedsDispatch
  <2>4. ASSUME NEW r \in Repos, move_to_working(r)
        PROVE  db'[NeedsDispatch] = db[NeedsDispatch] /\ disk' = disk
    BY <2>4 DEF move_to_working, move_to_new_queue, TypeOK, TreesOK, Trees,
                RunnerQueue, GithubWorking, NeedsDispatch
  <2>5. ASSUME NEW t \in Threads, remove_from_working(t)
        PROVE  db'[NeedsDispatch] = db[NeedsDispatch] /\ disk' = disk
    BY <2>5 DEF remove_from_working, Remove, TypeOK, TreesOK, Trees, GithubWorking, NeedsDispatch
  <2>6. CASE flush \/ dies
    BY <2>1, <2>6 DEF flush, Flush, dies, crash, abort, Restart, Recover
  <2>7. CASE UNCHANGED dbVars
    BY <2>1, <2>7 DEF dbVars
  <2> QED BY <2>1, <2>2, <2>3, <2>4, <2>5, <2>6, <2>7
          DEF Next, github, new_job_watcher, poll, vars, run_starts, run_ends, rerun,
              begin_pass, next_entry, start_work, spawn, wait_for_completion,
              get_workflow_runs, get_jobs, jobs_done
<1> QED BY <1>r, <1>d DEF HonestInv

(***************************************************************************)
(* Every result in "needs dispatch" is backed by what runs of its workflow *)
(* ended as, on one branch, whatever is re-run between GitHub's two        *)
(* answers and however often the process dies (github.rs:208-338).         *)
(***************************************************************************)
THEOREM VerdictsAreTrue == Spec => []NoFalseVerdict
<1>1. HonestInv => NoFalseVerdict
  BY DEF HonestInv, NoFalseVerdict, Honest
<1>2. Init => TypeOK /\ RunsInv /\ HonestInv
  BY TypeInit, RunsInit
<1>3. TypeOK /\ RunsInv /\ HonestInv /\ [Next]_vars => (TypeOK /\ RunsInv /\ HonestInv)'
  BY TypeNext, RunsNext, HonestNext
<1> QED BY <1>1, <1>2, <1>3, PTL DEF Spec
=============================================================================
