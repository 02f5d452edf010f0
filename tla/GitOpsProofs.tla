---------------------------- MODULE GitOpsProofs ----------------------------
(***************************************************************************)
(* The safety properties of GitOps, proved for any number of series,       *)
(* workers, remotes and crashes.                                           *)
(*                                                                         *)
(* Why the properties of GitOps are not inductive by themselves: that a    *)
(* series is in one tree rests on the watchcat queueing it once, so the    *)
(* mark in "seen by watchcat" has to come with every entry, on disk too    *)
(* (SeenFirst, ScanInv); that an entry is moved by one thread only rests   *)
(* on no two claims holding the same series (ClaimInv); and what a push    *)
(* uploads is known only from the label the thread has reached (RepoInv).  *)
(* That every remote is asked rests on a mark being made, in this or an    *)
(* earlier run, when the list of remotes was complete (ListInv).           *)
(***************************************************************************)
EXTENDS GitOps, TLAPS

(* Whatever is in the git stage has been marked seen. *)
SeenFirst(d) == \A t \in GitTrees : d[t] \subseteq d[SeenByWatchcat]

(* A series about to be queued is marked and not in the git stage. *)
ScanInv == \A s \in scanning : s \in db[SeenByWatchcat] /\ ~InGit(db, s)

(* A claim in the pool or by a thread is the only one on its series. *)
ClaimInv ==
  /\ \A w \in Workers : Claiming(w) => id[w] \notin jobs
  /\ \A v, w \in Workers : Claiming(v) /\ Claiming(w) /\ id[v] = id[w] => v = w
  /\ \A w \in Workers : pc[w] = "claiming" => db[w] = {}

(* What the worktree holds at each label, and which pushes are done. *)
RepoInv ==
  \A w \in Workers :
    /\ pc[w] = "applying" => index[w] = {}
    /\ pc[w] = "committing" => index[w] = {id[w]}
    /\ pc[w] \in {"pushing", "queueing"} =>
         /\ head[w] = {id[w]}
         /\ \A r \in Remotes \ todo[w] : Answered(r, id[w])
    /\ pc[w] = "queueing" => AnsweredSomewhere(id[w])

(* No job exists before the worktrees are there. *)
StartInv == ~ready => jobs = {} /\ \A w \in Workers : pc[w] = "idle"

DbInv ==
  /\ OneGitTree
  /\ SeenFirst(db) /\ SeenFirst(disk)
  /\ ScanInv
  /\ JobsHaveEntries /\ ClaimInv

(* Once a series is marked the remotes are all listed, on disk too. *)
ListInv ==
  /\ db[SeenByWatchcat] # {} => remotes = Remotes
  /\ disk[SeenByWatchcat] # {} => kept = Remotes
  /\ inits \subseteq remotes

BranchInv == StartInv /\ RepoInv /\ BranchHoldsItsSeries /\ QueuedIsPushed

IInv == TypeOK /\ DbInv /\ ListInv /\ BranchInv

-----------------------------------------------------------------------------
(***************************************************************************)
(* The trees.                                                              *)
(***************************************************************************)
IsDb(d) == d \in [Trees -> SUBSET Series]

(* The strings are no workers, and different from each other. *)
LEMMA TreeNames ==
  /\ \A w \in Workers :
       w \notin {NeedsTesting, AwaitingGitWorker, GitFailures, SeenByWatchcat, RunnerQueue}
  /\ \A t \in GitTrees : t # SeenByWatchcat /\ t # RunnerQueue
  /\ SeenByWatchcat # RunnerQueue
  /\ NeedsTesting # AwaitingGitWorker /\ AwaitingGitWorker # GitFailures
  /\ GitTrees \subseteq Trees /\ {SeenByWatchcat, RunnerQueue} \subseteq Trees
  /\ Workers \subseteq GitTrees
  /\ {NeedsTesting, AwaitingGitWorker, GitFailures} \subseteq GitTrees
BY GitOpsAssumption
   DEF GitTrees, GitQueues, Trees, NeedsTesting, AwaitingGitWorker, GitFailures,
       SeenByWatchcat, RunnerQueue

(* A thread that is not idle holds a series. *)
LEMMA HoldsSeries ==
  ASSUME TypeOK, NEW w \in Workers, pc[w] # "idle"
  PROVE  id[w] \in Series
BY DEF TypeOK

(* Moving an entry between git trees keeps what is said of them. *)
LEMMA MoveKeeps ==
  ASSUME IsDb(db), OneTree(db), SeenFirst(db), ScanInv,
         NEW old \in GitTrees, NEW new \in GitTrees, NEW s \in Series, old # new,
         move_to_new_queue(old, new, s)
  PROVE  /\ IsDb(db')
         /\ OneTree(db') /\ SeenFirst(db')
         /\ scanning' \subseteq scanning => ScanInv'
         /\ \A t \in Trees \ {old, new} : db'[t] = db[t]
         /\ db'[old] = db[old] \ {s} /\ db'[new] = db[new] \cup {s}
<1>1. /\ IsDb(db')
      /\ \A t \in Trees \ {old, new} : db'[t] = db[t]
      /\ db'[old] = db[old] \ {s} /\ db'[new] = db[new] \cup {s}
  BY TreeNames DEF IsDb, move_to_new_queue
<1>2. OneTree(db')
  <2>1. s \in db[old] /\ \A t \in GitTrees : s \in db[t] => t = old
    BY DEF OneTree, move_to_new_queue
  <2>2. \A t \in GitTrees : s \in db'[t] => t = new
    BY <1>1, <2>1, TreeNames
  <2>3. \A u \in Series \ {s} : \A t \in GitTrees : u \in db'[t] => u \in db[t]
    BY <1>1, TreeNames
  <2> QED BY <2>2, <2>3 DEF OneTree
<1>3. SeenFirst(db')
  BY <1>1, TreeNames DEF SeenFirst, move_to_new_queue
<1>4. ASSUME scanning' \subseteq scanning PROVE ScanInv'
  BY <1>1, <1>4, TreeNames DEF ScanInv, InGit, move_to_new_queue
<1> QED BY <1>1, <1>2, <1>3, <1>4

(* So does taking an entry out of one of them. *)
LEMMA RemoveKeeps ==
  ASSUME IsDb(db), OneTree(db), SeenFirst(db), ScanInv,
         NEW t \in GitTrees, NEW s \in Series, Remove(t, s), UNCHANGED scanning
  PROVE  /\ IsDb(db')
         /\ OneTree(db') /\ SeenFirst(db') /\ ScanInv'
         /\ \A u \in Trees \ {t} : db'[u] = db[u]
         /\ db'[t] = db[t] \ {s}
<1>1. /\ IsDb(db')
      /\ \A u \in Trees \ {t} : db'[u] = db[u]
      /\ db'[t] = db[t] \ {s}
  BY TreeNames DEF IsDb, Remove
<1> QED
  BY <1>1, TreeNames DEF OneTree, SeenFirst, ScanInv, InGit

(* The runner's queue is not a tree of the git stage. *)
LEMMA RunnerQueueApart ==
  ASSUME IsDb(db), NEW s \in Series, Insert(RunnerQueue, s) \/ Remove(RunnerQueue, s)
  PROVE  IsDb(db') /\ \A t \in Trees \ {RunnerQueue} : db'[t] = db[t]
BY TreeNames DEF IsDb, Insert, Remove

-----------------------------------------------------------------------------
(***************************************************************************)
(* A new process has nothing in its memory, and what it finds on disk and  *)
(* on the remotes is what the invariant says of them already: each part    *)
(* survives every death, whether it is counted as a crash or not.          *)
(***************************************************************************)
LEMMA RestartKeeps ==
  ASSUME Restart
  PROVE  /\ TypeOK /\ crashes' \in 0..MaxCrashes => TypeOK'
         /\ DbInv => DbInv'
         /\ ListInv => ListInv'
         /\ BranchInv => BranchInv'
<1> USE DEF Restart, Recover
<1>1. ASSUME TypeOK, crashes' \in 0..MaxCrashes PROVE TypeOK'
  <2>1. /\ pc' \in [Workers -> Labels] /\ id' \in [Workers -> Series \cup {NoSeries}]
        /\ todo' \in [Workers -> SUBSET Remotes]
        /\ \A w \in Workers : pc'[w] = "idle" /\ id'[w] = NoSeries
    BY DEF AllIdle, NoJob, Labels
  <2> QED BY <1>1, <2>1 DEF TypeOK, listVars, gitVars
<1>2. ASSUME DbInv PROVE DbInv'
  BY <1>2 DEF AllIdle, DbInv, OneGitTree, OneTree, SeenFirst, ScanInv, JobsHaveEntries,
              ClaimInv, Claiming, Working
<1>3. ASSUME ListInv PROVE ListInv'
  BY <1>3 DEF ListInv
<1>4. ASSUME BranchInv PROVE BranchInv'
  BY <1>4 DEF AllIdle, BranchInv, StartInv, RepoInv, BranchHoldsItsSeries, QueuedIsPushed,
              AnsweredSomewhere, Answered, HasBranch, gitVars
<1> QED BY <1>1, <1>2, <1>3, <1>4

-----------------------------------------------------------------------------
(***************************************************************************)
(* Type correctness.                                                       *)
(***************************************************************************)
LEMMA TypeInit == Init => TypeOK
<1> SUFFICES ASSUME Init PROVE TypeOK
  OBVIOUS
<1>1. db \in [Trees -> SUBSET Series] /\ disk \in [Trees -> SUBSET Series]
  BY DEF Init, EmptyDb
<1>2. /\ remotes \subseteq Remotes /\ kept \subseteq Remotes /\ inits \subseteq Remotes
      /\ scanning \subseteq Series /\ jobs \subseteq Series /\ ready \in BOOLEAN
  BY DEF Init
<1>3. /\ pc \in [Workers -> Labels] /\ id \in [Workers -> Series \cup {NoSeries}]
      /\ \A w \in Workers : pc[w] = "idle" /\ id[w] = NoSeries
  BY DEF Init, AllIdle, NoJob, Labels
<1>4. /\ todo \in [Workers -> SUBSET Remotes]
      /\ head \in [Workers -> SUBSET Series] /\ index \in [Workers -> SUBSET Series]
      /\ refs \subseteq [remote : Remotes, series : Series, content : SUBSET Series]
      /\ refused \subseteq [remote : Remotes, series : Series]
  BY DEF Init
<1>5. crashes \in 0..MaxCrashes
  BY GitOpsAssumption DEF Init
<1> QED BY <1>1, <1>2, <1>3, <1>4, <1>5 DEF TypeOK

(* A push adds a branch whose parts have their types. *)
LEMMA PushedType ==
  ASSUME TypeOK, NEW w \in Workers, pc[w] = "pushing", NEW r \in todo[w]
  PROVE  Pushed(w, r) \subseteq [remote : Remotes, series : Series, content : SUBSET Series]
<1>1. r \in Remotes /\ head[w] \in SUBSET Series
  BY DEF TypeOK
<1>2. id[w] \in Series
  BY HoldsSeries
<1>3. refs \subseteq [remote : Remotes, series : Series, content : SUBSET Series]
  BY DEF TypeOK
<1> QED BY <1>1, <1>2, <1>3 DEF Pushed, Branch

(* Every step keeps the types. *)
LEMMA TypeNext == TypeOK /\ [Next]_vars => TypeOK'
<1> SUFFICES ASSUME TypeOK, [Next]_vars PROVE TypeOK'
  OBVIOUS
<1> USE DEF TypeOK, dbVars, listVars, gitVars, threadVars
<1>1. ASSUME NEW s \in Series,
             watchcat_sees(s) \/ watchcat_queues(s) \/ runner_takes(s) \/ ingest(s)
      PROVE  TypeOK'
  <2>1. db' \in [Trees -> SUBSET Series]
    BY <1>1 DEF watchcat_sees, watchcat_queues, runner_takes, ingest,
                Insert, Remove, move_to_new_queue
  <2> QED BY <1>1, <2>1 DEF watchcat_sees, watchcat_queues, runner_takes, ingest
<1>2. CASE init_worktrees
  BY <1>2 DEF init_worktrees
<1>3. ASSUME NEW w \in Workers, worker_step(w) PROVE TypeOK'
  <2>1. ASSUME NEW s \in Series, try_do_work(w, s) PROVE TypeOK'
    BY <2>1, GitOpsAssumption DEF try_do_work, Goto, Labels
  <2>2. CASE leave_wait_loop(w)
    BY <2>2 DEF leave_wait_loop, Goto, Labels
  <2>3. CASE claim_series(w)
    <3>1. id[w] \in Series /\ db' \in [Trees -> SUBSET Series]
      BY <2>3, HoldsSeries DEF claim_series, move_to_new_queue
    <3> QED BY <2>3, <3>1 DEF claim_series, Goto, Labels
  <2>4. CASE clean_and_reset(w)
    BY <2>4 DEF clean_and_reset, Goto, Labels
  <2>5. CASE apply_series(w)
    BY <2>5, HoldsSeries DEF apply_series, Goto, Labels
  <2>6. CASE commit_series(w)
    BY <2>6 DEF commit_series, Goto, Labels
  <2>7. ASSUME NEW r \in Remotes, push(w, r) PROVE TypeOK'
    <3>1. refs' \subseteq [remote : Remotes, series : Series, content : SUBSET Series]
      BY <2>7, PushedType DEF push
    <3>2. refused' \subseteq [remote : Remotes, series : Series]
      BY <2>7, HoldsSeries DEF push, Refusal
    <3> QED BY <2>7, <3>1, <3>2 DEF push, Goto, Labels
  <2>8. CASE queue_for_runner(w)
    <3>1. db' \in [Trees -> SUBSET Series]
      BY <2>8, HoldsSeries DEF queue_for_runner, Insert
    <3> QED BY <2>8, <3>1 DEF queue_for_runner, Goto, Labels
  <2>9. CASE work_succeeds(w)
    <3>1. db' \in [Trees -> SUBSET Series]
      BY <2>9 DEF work_succeeds, Remove
    <3> QED BY <2>9, <3>1 DEF work_succeeds, ThreadReturns, Goto, Labels
  <2>10. CASE work_fails(w)
    <3>1. db' \in [Trees -> SUBSET Series]
      BY <2>10, HoldsSeries DEF work_fails, move_to_new_queue
    <3>2. refs' \subseteq [remote : Remotes, series : Series, content : SUBSET Series]
      BY <2>10, PushedType DEF work_fails
    <3> QED BY <2>10, <3>1, <3>2 DEF work_fails, ThreadReturns, Goto, Labels
  <2> QED BY <1>3, <2>1, <2>2, <2>3, <2>4, <2>5, <2>6, <2>7, <2>8, <2>9, <2>10
          DEF worker_step
<1>4. CASE flush
  BY <1>4 DEF flush, Flush
<1>5. CASE crash
  BY <1>5, RestartKeeps, GitOpsAssumption DEF crash
<1>6. CASE UNCHANGED vars
  BY <1>6 DEF vars
<1>7. ASSUME NEW r \in Remotes, runner_init(r) PROVE TypeOK'
  BY <1>7 DEF runner_init
<1> QED BY <1>1, <1>2, <1>3, <1>4, <1>5, <1>6, <1>7 DEF Next

(* In every reachable state the variables have their types. *)
THEOREM TypeCorrect == Spec => []TypeOK
BY TypeInit, TypeNext, PTL DEF Spec

-----------------------------------------------------------------------------
(***************************************************************************)
(* Entries of the git stage and who holds them.                            *)
(***************************************************************************)
LEMMA DbInit == Init => DbInv
BY DEF Init, DbInv, EmptyDb, AllIdle, NoJob, OneGitTree, OneTree, SeenFirst, ScanInv,
       JobsHaveEntries, ClaimInv, Claiming, Working, GitTrees, Trees

(* What depends only on the git trees, the marks, and who holds what. *)
LEMMA DbSame ==
  ASSUME DbInv, TypeOK, UNCHANGED <<disk, scanning, jobs, id>>,
         \A t \in Trees \ {RunnerQueue} : db'[t] = db[t],
         \A w \in Workers : pc'[w] = pc[w] \/ (Working(w) /\ Working(w)')
                            \/ (pc[w] = "waiting" /\ pc'[w] = "claiming" /\ db[w] = {})
  PROVE  DbInv'
<1>1. \A t \in GitTrees \cup {SeenByWatchcat} : db'[t] = db[t]
  BY TreeNames
<1>2. OneGitTree' /\ SeenFirst(db)' /\ SeenFirst(disk)' /\ ScanInv'
  BY <1>1 DEF DbInv, OneGitTree, OneTree, SeenFirst, ScanInv, InGit
<1>3. JobsHaveEntries'
  BY <1>1, TreeNames DEF DbInv, JobsHaveEntries, Claiming, Working
<1>4. ClaimInv'
  BY <1>1, TreeNames DEF DbInv, ClaimInv, Claiming, Working
<1> QED BY <1>2, <1>3, <1>4 DEF DbInv

LEMMA DbNext == TypeOK /\ DbInv /\ [Next]_vars => DbInv'
<1> SUFFICES ASSUME TypeOK, DbInv, [Next]_vars PROVE DbInv'
  OBVIOUS
<1> USE DEF dbVars, listVars, gitVars, threadVars
<1>db. IsDb(db) /\ IsDb(disk)
  BY DEF TypeOK, IsDb
<1>1. ASSUME NEW s \in Series, watchcat_sees(s) PROVE DbInv'
  <2>1. /\ \A t \in GitTrees : db'[t] = db[t]
        /\ db'[SeenByWatchcat] = db[SeenByWatchcat] \cup {s}
    BY <1>1, <1>db, TreeNames DEF watchcat_sees, Insert, IsDb
  <2>2. ~InGit(db, s)
    BY <1>1 DEF DbInv, SeenFirst, InGit, watchcat_sees
  <2>3. OneGitTree' /\ SeenFirst(db)' /\ SeenFirst(disk)' /\ ScanInv'
    BY <1>1, <2>1, <2>2 DEF DbInv, OneGitTree, OneTree, SeenFirst, ScanInv, InGit, watchcat_sees
  <2>4. JobsHaveEntries' /\ ClaimInv'
    BY <1>1, <2>1, TreeNames
       DEF DbInv, JobsHaveEntries, ClaimInv, Claiming, Working, watchcat_sees
  <2> QED BY <2>3, <2>4 DEF DbInv
<1>2. ASSUME NEW s \in Series, watchcat_queues(s) PROVE DbInv'
  <2>1. /\ \A t \in (GitTrees \cup {SeenByWatchcat}) \ {NeedsTesting} : db'[t] = db[t]
        /\ db'[NeedsTesting] = db[NeedsTesting] \cup {s}
    BY <1>2, <1>db, TreeNames DEF watchcat_queues, Insert, IsDb
  <2>2. s \in db[SeenByWatchcat] /\ ~InGit(db, s)
    BY <1>2 DEF DbInv, ScanInv, watchcat_queues
  <2>3. OneTree(db')
    BY <2>1, <2>2 DEF DbInv, OneGitTree, OneTree, InGit
  <2>4. SeenFirst(db') /\ ScanInv'
    BY <1>2, <2>1, <2>2, TreeNames DEF DbInv, SeenFirst, ScanInv, InGit, watchcat_queues
  <2>5. JobsHaveEntries' /\ ClaimInv'
    BY <1>2, <2>1, TreeNames
       DEF DbInv, JobsHaveEntries, ClaimInv, Claiming, Working, watchcat_queues
  <2> QED BY <1>2, <2>3, <2>4, <2>5 DEF DbInv, OneGitTree, OneTree, SeenFirst, watchcat_queues
<1>3. ASSUME NEW s \in Series, runner_takes(s) PROVE DbInv'
  BY <1>3, <1>db, RunnerQueueApart, DbSame DEF runner_takes
<1>4. ASSUME NEW s \in Series, ingest(s) PROVE DbInv'
  <2>1. /\ OneTree(db') /\ SeenFirst(db') /\ ScanInv'
        /\ \A t \in Trees \ {NeedsTesting, AwaitingGitWorker} : db'[t] = db[t]
        /\ db'[AwaitingGitWorker] = db[AwaitingGitWorker] \cup {s}
    BY <1>4, <1>db, TreeNames, MoveKeeps DEF ingest, DbInv, OneGitTree
  <2>2. s \notin db[AwaitingGitWorker]
    BY <1>4, TreeNames DEF ingest, move_to_new_queue, DbInv, OneGitTree, OneTree
  <2>3. JobsHaveEntries' /\ ClaimInv'
    BY <1>4, <2>1, <2>2, TreeNames
       DEF DbInv, JobsHaveEntries, ClaimInv, Claiming, Working, ingest
  <2> QED BY <1>4, <2>1, <2>3 DEF DbInv, OneGitTree, OneTree, SeenFirst, ingest
<1>5. CASE init_worktrees
  BY <1>5, DbSame DEF init_worktrees
<1>6. ASSUME NEW w \in Workers, worker_step(w) PROVE DbInv'
  <2>1. ASSUME NEW s \in Series, try_do_work(w, s) PROVE DbInv'
    <3>1. OneGitTree' /\ SeenFirst(db)' /\ SeenFirst(disk)' /\ ScanInv'
      BY <2>1 DEF DbInv, OneGitTree, OneTree, SeenFirst, ScanInv, InGit, try_do_work
    <3>2. JobsHaveEntries' /\ ClaimInv'
      BY <2>1 DEF TypeOK, DbInv, JobsHaveEntries, ClaimInv, Claiming, Working, try_do_work, Goto
    <3> QED BY <3>1, <3>2 DEF DbInv
  <2>2. CASE leave_wait_loop(w)
    BY <2>2, DbSame DEF TypeOK, leave_wait_loop, Goto
  <2>3. CASE claim_series(w)
    <3>1. id[w] \in Series
      BY <2>3, HoldsSeries DEF claim_series
    <3>2. /\ OneTree(db') /\ SeenFirst(db') /\ ScanInv'
          /\ \A t \in Trees \ {AwaitingGitWorker, w} : db'[t] = db[t]
          /\ db'[AwaitingGitWorker] = db[AwaitingGitWorker] \ {id[w]}
          /\ db'[w] = db[w] \cup {id[w]}
      BY <2>3, <3>1, <1>db, TreeNames, MoveKeeps DEF claim_series, DbInv, OneGitTree
    <3>3. JobsHaveEntries' /\ ClaimInv'
      BY <2>3, <3>2, TreeNames
         DEF TypeOK, DbInv, JobsHaveEntries, ClaimInv, Claiming, Working, claim_series, Goto
    <3> QED BY <2>3, <3>2, <3>3 DEF DbInv, OneGitTree, OneTree, SeenFirst, claim_series
  <2>4. CASE clean_and_reset(w) \/ apply_series(w) \/ commit_series(w)
    BY <2>4, DbSame DEF TypeOK, clean_and_reset, apply_series, commit_series, Goto, Working
  <2>5. ASSUME NEW r \in Remotes, push(w, r) PROVE DbInv'
    BY <2>5, DbSame DEF TypeOK, push, Goto, Working
  <2>6. CASE queue_for_runner(w)
    BY <2>6, <1>db, HoldsSeries, RunnerQueueApart, DbSame
       DEF TypeOK, queue_for_runner, Goto, Working
  <2>7. CASE work_succeeds(w)
    <3>1. id[w] \in Series
      BY <2>7, HoldsSeries DEF work_succeeds
    <3>2. /\ OneTree(db') /\ SeenFirst(db') /\ ScanInv'
          /\ \A t \in Trees \ {w} : db'[t] = db[t]
      BY <2>7, <3>1, <1>db, TreeNames, RemoveKeeps DEF work_succeeds, DbInv, OneGitTree
    <3>3. JobsHaveEntries' /\ ClaimInv'
      BY <2>7, <3>2, TreeNames
         DEF TypeOK, DbInv, JobsHaveEntries, ClaimInv, Claiming, Working, work_succeeds,
             ThreadReturns, Goto
    <3> QED BY <2>7, <3>2, <3>3 DEF DbInv, OneGitTree, OneTree, SeenFirst, work_succeeds
  <2>8. CASE work_fails(w)
    <3>1. id[w] \in Series
      BY <2>8, HoldsSeries DEF work_fails
    <3>2. /\ OneTree(db') /\ SeenFirst(db') /\ ScanInv'
          /\ \A t \in Trees \ {w, GitFailures} : db'[t] = db[t]
      BY <2>8, <3>1, <1>db, TreeNames, MoveKeeps DEF work_fails, DbInv, OneGitTree
    <3>3. JobsHaveEntries' /\ ClaimInv'
      BY <2>8, <3>2, TreeNames
         DEF TypeOK, DbInv, JobsHaveEntries, ClaimInv, Claiming, Working, work_fails,
             ThreadReturns, Goto
    <3> QED BY <2>8, <3>2, <3>3 DEF DbInv, OneGitTree, OneTree, SeenFirst, work_fails
  <2> QED BY <1>6, <2>1, <2>2, <2>3, <2>4, <2>5, <2>6, <2>7, <2>8 DEF worker_step
<1>7. CASE flush
  BY <1>7 DEF flush, Flush, DbInv, OneGitTree, OneTree, SeenFirst, ScanInv, InGit,
              JobsHaveEntries, ClaimInv, Claiming, Working
<1>8. CASE crash
  BY <1>8, RestartKeeps DEF crash
<1>9. CASE UNCHANGED vars
  BY <1>9, DbSame DEF vars
<1>10. ASSUME NEW r \in Remotes, runner_init(r) PROVE DbInv'
  BY <1>10, DbSame DEF runner_init
<1> QED BY <1>1, <1>2, <1>3, <1>4, <1>5, <1>6, <1>7, <1>8, <1>9, <1>10 DEF Next

-----------------------------------------------------------------------------
(***************************************************************************)
(* The list of remotes.                                                    *)
(***************************************************************************)
LEMMA ListInit == Init => ListInv
BY TreeNames DEF Init, ListInv, EmptyDb

(* Apart from the watchcat nothing adds to the marks. *)
LEMMA MarksStay ==
  ASSUME IsDb(db), NEW s \in Series,
         \/ \E t \in Trees \ {SeenByWatchcat} : Insert(t, s) \/ Remove(t, s)
         \/ \E old, new \in Trees \ {SeenByWatchcat} : move_to_new_queue(old, new, s)
  PROVE  db'[SeenByWatchcat] = db[SeenByWatchcat]
BY TreeNames DEF IsDb, Insert, Remove, move_to_new_queue

LEMMA ListNext == TypeOK /\ ListInv /\ [Next]_vars => ListInv'
<1> SUFFICES ASSUME TypeOK, ListInv, [Next]_vars PROVE ListInv'
  OBVIOUS
<1> USE DEF ListInv, dbVars, listVars
<1>db. IsDb(db) /\ \A w \in Workers : pc[w] # "idle" => id[w] \in Series
  BY HoldsSeries DEF TypeOK, IsDb
<1>1. ASSUME NEW s \in Series, watchcat_sees(s) PROVE ListInv'
  BY <1>1 DEF watchcat_sees, TypeOK
<1>2. ASSUME NEW s \in Series, watchcat_queues(s) \/ runner_takes(s) \/ ingest(s)
      PROVE  ListInv'
  <2>1. db'[SeenByWatchcat] = db[SeenByWatchcat]
    BY <1>2, <1>db, MarksStay, TreeNames DEF watchcat_queues, runner_takes, ingest
  <2> QED BY <1>2, <2>1 DEF watchcat_queues, runner_takes, ingest
<1>3. ASSUME NEW r \in Remotes, runner_init(r) PROVE ListInv'
  BY <1>3 DEF runner_init, TypeOK
<1>4. ASSUME NEW w \in Workers, worker_step(w) PROVE ListInv'
  <2>1. UNCHANGED <<disk, remotes, kept, inits>>
    BY <1>4 DEF worker_step, try_do_work, leave_wait_loop, claim_series, clean_and_reset,
                apply_series, commit_series, push, queue_for_runner, work_succeeds, work_fails
  <2>2. CASE claim_series(w) \/ queue_for_runner(w) \/ work_succeeds(w) \/ work_fails(w)
    <3>1. id[w] \in Series
      BY <2>2, <1>db DEF claim_series, queue_for_runner, work_succeeds, work_fails
    <3>2. db'[SeenByWatchcat] = db[SeenByWatchcat]
      BY <2>2, <3>1, <1>db, MarksStay, TreeNames
         DEF claim_series, queue_for_runner, work_succeeds, work_fails
    <3> QED BY <2>1, <3>2
  <2>3. CASE UNCHANGED db
    BY <2>1, <2>3
  <2> QED BY <1>4, <2>2, <2>3
          DEF worker_step, try_do_work, leave_wait_loop, clean_and_reset, apply_series,
              commit_series, push
<1>5. CASE flush
  BY <1>5 DEF flush, Flush
<1>6. CASE crash
  BY <1>6, RestartKeeps DEF crash
<1>7. CASE init_worktrees \/ UNCHANGED vars
  BY <1>7 DEF init_worktrees, vars
<1> QED BY <1>1, <1>2, <1>3, <1>4, <1>5, <1>6, <1>7 DEF Next

(* A thread at work has a marked series, so it finds every remote listed. *)
LEMMA ListComplete ==
  ASSUME TypeOK, DbInv, ListInv, NEW w \in Workers, Working(w)
  PROVE  remotes = Remotes
<1>1. id[w] \in db[w]
  BY DEF DbInv, JobsHaveEntries
<1> QED BY <1>1, TreeNames DEF DbInv, SeenFirst, ListInv

-----------------------------------------------------------------------------
(***************************************************************************)
(* Worktrees, branches and the runner's queue.                             *)
(***************************************************************************)
LEMMA BranchInit == Init => BranchInv
BY DEF Init, StartInv, BranchInv, EmptyDb, AllIdle, RepoInv, BranchHoldsItsSeries, QueuedIsPushed, Trees

(* Branches and refusals are only ever added. *)
LEMMA RefsGrow ==
  ASSUME refs \subseteq refs', refused \subseteq refused'
  PROVE  /\ \A r \in Remotes : \A s \in Series : Answered(r, s) => Answered(r, s)'
         /\ \A s \in Series : AnsweredSomewhere(s) => AnsweredSomewhere(s)'
BY DEF Answered, HasBranch, Refusal, AnsweredSomewhere

(* A step that leaves every worktree, label and branch alone. *)
LEMMA BranchSame ==
  ASSUME BranchInv, UNCHANGED <<pc, id, todo, gitVars>>,
         UNCHANGED <<ready, jobs>> \/ ready',
         db'[RunnerQueue] \cup disk'[RunnerQueue] \subseteq db[RunnerQueue] \cup disk[RunnerQueue]
  PROVE  BranchInv'
BY DEF BranchInv, StartInv, RepoInv, BranchHoldsItsSeries, QueuedIsPushed, HasBranch,
       Answered, AnsweredSomewhere, gitVars

(* What worker w pushes: a branch with its series and nothing else. *)
LEMMA PushedHolds ==
  ASSUME TypeOK, BranchInv, NEW w \in Workers, pc[w] = "pushing", NEW r \in todo[w]
  PROVE  /\ refs \subseteq Pushed(w, r)
         /\ \E b \in Pushed(w, r) : b.remote = r /\ b.series = id[w]
         /\ \A b \in Pushed(w, r) : b.content = {b.series}
<1>1. head[w] = {id[w]}
  BY DEF BranchInv, RepoInv
<1>2. CASE HasBranch(r, id[w])
  BY <1>2 DEF Pushed, HasBranch, BranchInv, BranchHoldsItsSeries
<1>3. CASE ~HasBranch(r, id[w])
  <2> DEFINE new == Branch(r, id[w], head[w])
  <2>1. Pushed(w, r) = refs \cup {new}
    BY <1>3 DEF Pushed
  <2>2. new.remote = r /\ new.series = id[w] /\ new.content = {new.series}
    BY <1>1 DEF Branch
  <2> QED BY <2>1, <2>2 DEF BranchInv, BranchHoldsItsSeries
<1> QED BY <1>2, <1>3

(* The state of one thread and its worktree, for a step of another one. *)
Repo(w) ==
  /\ pc[w] = "applying" => index[w] = {}
  /\ pc[w] = "committing" => index[w] = {id[w]}
  /\ pc[w] \in {"pushing", "queueing"} =>
       /\ head[w] = {id[w]}
       /\ \A r \in Remotes \ todo[w] : Answered(r, id[w])
  /\ pc[w] = "queueing" => AnsweredSomewhere(id[w])

LEMMA RepoOther ==
  ASSUME TypeOK, BranchInv, NEW v \in Workers, refs \subseteq refs', refused \subseteq refused',
         pc'[v] = pc[v], id'[v] = id[v], todo'[v] = todo[v],
         head'[v] = head[v], index'[v] = index[v]
  PROVE  Repo(v)'
<1>1. Repo(v)
  BY DEF BranchInv, RepoInv, Repo
<1>2. CASE pc[v] \in {"pushing", "queueing"}
  <2>1. id[v] \in Series
    BY <1>2, HoldsSeries
  <2> QED BY <1>1, <1>2, <2>1, RefsGrow DEF Repo
<1>3. CASE pc[v] \notin {"pushing", "queueing"}
  BY <1>1, <1>3 DEF Repo
<1> QED BY <1>2, <1>3

(* A step of worker w that keeps its own part keeps the whole. *)
LEMMA WorkerKeeps ==
  ASSUME TypeOK, BranchInv, NEW w \in Workers,
         \A v \in Workers \ {w} : /\ pc'[v] = pc[v] /\ id'[v] = id[v] /\ todo'[v] = todo[v]
                                  /\ head'[v] = head[v] /\ index'[v] = index[v],
         Repo(w)',
         UNCHANGED ready, jobs' \subseteq jobs, pc[w] # "idle" \/ jobs # {},
         refs \subseteq refs', refused \subseteq refused',
         \A b \in refs' : b.content = {b.series},
         UNCHANGED disk, \A s \in db'[RunnerQueue] \ db[RunnerQueue] : AnsweredSomewhere(s),
         db \in [Trees -> SUBSET Series], db' \in [Trees -> SUBSET Series]
  PROVE  BranchInv'
<1>1. RepoInv'
  <2>1. \A v \in Workers \ {w} : Repo(v)'
    BY RepoOther
  <2> QED BY <2>1 DEF RepoInv, Repo
<1>2. StartInv'
  BY DEF BranchInv, StartInv
<1>3. QueuedIsPushed'
  <2>1. db'[RunnerQueue] \subseteq Series /\ disk[RunnerQueue] \subseteq Series
    BY TreeNames DEF TypeOK
  <2>2. \A s \in db'[RunnerQueue] \cup disk[RunnerQueue] : AnsweredSomewhere(s)
    BY DEF BranchInv, QueuedIsPushed
  <2> QED BY <2>1, <2>2, RefsGrow DEF QueuedIsPushed
<1> QED BY <1>1, <1>2, <1>3 DEF BranchInv, BranchHoldsItsSeries

LEMMA BranchNext == TypeOK /\ DbInv /\ ListInv /\ BranchInv /\ [Next]_vars => BranchInv'
<1> SUFFICES ASSUME TypeOK, DbInv, ListInv, BranchInv, [Next]_vars PROVE BranchInv'
  OBVIOUS
<1> USE DEF dbVars, listVars, gitVars, threadVars
<1>db. IsDb(db) /\ IsDb(disk)
  BY DEF TypeOK, IsDb
<1>1. ASSUME NEW s \in Series,
             watchcat_sees(s) \/ watchcat_queues(s) \/ runner_takes(s) \/ ingest(s)
      PROVE  BranchInv'
  <2>1. db'[RunnerQueue] \subseteq db[RunnerQueue] /\ UNCHANGED disk
    BY <1>1, <1>db, TreeNames
       DEF watchcat_sees, watchcat_queues, runner_takes, ingest, Insert, Remove,
           move_to_new_queue, IsDb
  <2>2. UNCHANGED <<pc, id, todo, gitVars>>
    BY <1>1 DEF watchcat_sees, watchcat_queues, runner_takes, ingest
  <2>3. UNCHANGED <<ready, jobs>> \/ ready'
    BY <1>1 DEF watchcat_sees, watchcat_queues, runner_takes, ingest
  <2> QED BY <2>1, <2>2, <2>3, BranchSame
<1>2. CASE init_worktrees
  BY <1>2 DEF init_worktrees, BranchInv, StartInv, RepoInv, BranchHoldsItsSeries,
              QueuedIsPushed, AnsweredSomewhere, Answered, HasBranch
<1>3. ASSUME NEW w \in Workers, worker_step(w) PROVE BranchInv'
  <2>0. /\ Repo(w) /\ pc[w] \in Labels /\ TypeOK'
        /\ \A b \in refs : b.content = {b.series}
    BY TypeNext DEF BranchInv, RepoInv, Repo, BranchHoldsItsSeries, TypeOK
  <2>1. ASSUME NEW s \in Series, try_do_work(w, s) PROVE BranchInv'
    <3>1. Repo(w)'
      BY <2>1 DEF try_do_work, Goto, TypeOK, Repo
    <3> QED BY <2>0, <2>1, <3>1, WorkerKeeps DEF try_do_work, Goto, TypeOK
  <2>2. CASE leave_wait_loop(w)
    <3>1. Repo(w)'
      BY <2>2 DEF leave_wait_loop, Goto, TypeOK, Repo
    <3> QED BY <2>0, <2>2, <3>1, WorkerKeeps DEF leave_wait_loop, Goto, TypeOK
  <2>3. CASE claim_series(w)
    <3>1. Repo(w)'
      BY <2>3 DEF claim_series, Goto, TypeOK, Repo
    <3>2. db'[RunnerQueue] = db[RunnerQueue]
      BY <2>3, TreeNames DEF claim_series, move_to_new_queue, TypeOK
    <3> QED BY <2>0, <2>3, <3>1, <3>2, WorkerKeeps DEF claim_series, Goto, TypeOK
  <2>4. CASE clean_and_reset(w)
    <3>1. Repo(w)'
      BY <2>4 DEF clean_and_reset, Goto, TypeOK, Repo
    <3> QED BY <2>0, <2>4, <3>1, WorkerKeeps DEF clean_and_reset, Goto, TypeOK
  <2>5. CASE apply_series(w)
    <3>1. Repo(w)'
      BY <2>0, <2>5 DEF apply_series, Goto, TypeOK, Repo
    <3> QED BY <2>0, <2>5, <3>1, WorkerKeeps DEF apply_series, Goto, TypeOK
  <2>6. CASE commit_series(w)
    <3>1. remotes = Remotes
      BY <2>6, ListComplete DEF commit_series, Working
    <3>2. Repo(w)'
      BY <2>0, <2>6, <3>1 DEF commit_series, Goto, TypeOK, Repo
    <3> QED BY <2>0, <2>6, <3>2, WorkerKeeps DEF commit_series, Goto, TypeOK
  <2>7. ASSUME NEW r \in Remotes, push(w, r) PROVE BranchInv'
    <3>1. id[w] \in Series
      BY <2>7, HoldsSeries DEF push
    <3>2. /\ refs \subseteq refs' /\ refused \subseteq refused' /\ Answered(r, id[w])'
          /\ \A b \in refs' : b.content = {b.series}
      <4>1. CASE refs' = Pushed(w, r) /\ UNCHANGED refused
        BY <2>7, <4>1, PushedHolds DEF push, Answered, HasBranch
      <4>2. CASE refused' = refused \cup {Refusal(r, id[w])} /\ UNCHANGED refs
        BY <2>0, <2>7, <4>2 DEF push, Answered
      <4> QED BY <2>7, <4>1, <4>2 DEF push
    <3>3. \A q \in Remotes \ todo'[w] : Answered(q, id[w])'
      BY <2>0, <2>7, <3>1, <3>2, RefsGrow DEF push, TypeOK, Repo
    <3>4. Repo(w)'
      BY <2>0, <2>7, <3>2, <3>3 DEF push, Goto, TypeOK, Repo, AnsweredSomewhere
    <3> QED BY <2>0, <2>7, <3>2, <3>4, WorkerKeeps DEF push, Goto, TypeOK
  <2>8. CASE queue_for_runner(w)
    <3>1. Repo(w)'
      BY <2>0, <2>8 DEF queue_for_runner, Goto, TypeOK, Repo, Answered, HasBranch
    <3>2. \A s \in db'[RunnerQueue] \ db[RunnerQueue] : AnsweredSomewhere(s)
      BY <2>0, <2>8, TreeNames DEF queue_for_runner, Insert, TypeOK, Repo
    <3> QED BY <2>0, <2>8, <3>1, <3>2, WorkerKeeps DEF queue_for_runner, Goto, TypeOK
  <2>9. CASE work_succeeds(w)
    <3>1. Repo(w)'
      BY <2>9 DEF work_succeeds, ThreadReturns, Goto, TypeOK, Repo
    <3>2. db'[RunnerQueue] = db[RunnerQueue]
      BY <2>9, TreeNames DEF work_succeeds, Remove, TypeOK
    <3> QED BY <2>0, <2>9, <3>1, <3>2, WorkerKeeps
            DEF work_succeeds, ThreadReturns, Goto, TypeOK
  <2>10. CASE work_fails(w)
    <3>1. Repo(w)'
      BY <2>10 DEF work_fails, ThreadReturns, Goto, TypeOK, Repo
    <3>2. db'[RunnerQueue] = db[RunnerQueue]
      BY <2>10, TreeNames DEF work_fails, move_to_new_queue, TypeOK
    <3>3. refs \subseteq refs' /\ \A b \in refs' : b.content = {b.series}
      BY <2>0, <2>10, PushedHolds DEF work_fails
    <3> QED BY <2>0, <2>10, <3>1, <3>2, <3>3, WorkerKeeps
            DEF work_fails, ThreadReturns, Goto, TypeOK
  <2> QED BY <1>3, <2>1, <2>2, <2>3, <2>4, <2>5, <2>6, <2>7, <2>8, <2>9, <2>10
          DEF worker_step
<1>4. CASE flush
  BY <1>4, BranchSame DEF flush, Flush
<1>5. CASE crash
  BY <1>5, RestartKeeps DEF crash
<1>6. CASE UNCHANGED vars
  BY <1>6, BranchSame DEF vars
<1>7. ASSUME NEW r \in Remotes, runner_init(r) PROVE BranchInv'
  BY <1>7, BranchSame DEF runner_init
<1> QED BY <1>1, <1>2, <1>3, <1>4, <1>5, <1>6, <1>7 DEF Next

-----------------------------------------------------------------------------
(***************************************************************************)
(* The theorems.                                                           *)
(***************************************************************************)
LEMMA InvInit == Init => IInv
BY TypeInit, DbInit, ListInit, BranchInit DEF IInv

LEMMA InvNext == IInv /\ [Next]_vars => IInv'
BY TypeNext, DbNext, ListNext, BranchNext DEF IInv

(* A death that is not counted: of another part of the process. *)
LEMMA InvDeath == IInv /\ Restart /\ UNCHANGED crashes => IInv'
<1>1. TypeOK => crashes \in 0..MaxCrashes
  BY DEF TypeOK
<1> QED BY <1>1, RestartKeeps DEF IInv

LEMMA Inductive == Spec => []IInv
BY InvInit, InvNext, PTL DEF Spec

(***************************************************************************)
(* No interleaving of ingest, workers, flushes and crashes leaves a series *)
(* to two trees of the git stage (git.rs:163,193,205).                     *)
(***************************************************************************)
THEOREM OneTreePerSeries == Spec => []OneGitTree
<1>1. IInv => OneGitTree
  BY DEF IInv, DbInv
<1> QED BY <1>1, Inductive, PTL

(***************************************************************************)
(* No transaction of the git stage is asked to move a key that is not      *)
(* there, and a thread in do_work owns exactly its series (git.rs:193,348).*)
(***************************************************************************)
THEOREM EntriesOfJobs == Spec => []JobsHaveEntries
<1>1. IInv => JobsHaveEntries
  BY DEF IInv, DbInv
<1> QED BY <1>1, Inductive, PTL

(***************************************************************************)
(* Every branch snowpatch pushes is master plus the one series it is named *)
(* after, whatever happened in that worktree before (git.rs:227-253,408).  *)
(***************************************************************************)
THEOREM BranchContent == Spec => []BranchHoldsItsSeries
<1>1. IInv => BranchHoldsItsSeries
  BY DEF IInv, BranchInv
<1> QED BY <1>1, Inductive, PTL

(***************************************************************************)
(* What the runner finds in its queue, after any number of restarts, was   *)
(* pushed: some remote has the branch, or refused the reference without    *)
(* do_work being told of it (git.rs:404-429).                              *)
(***************************************************************************)
THEOREM QueueAfterPush == Spec => []QueuedIsPushed
<1>1. IInv => QueuedIsPushed
  BY DEF IInv, BranchInv
<1> QED BY <1>1, Inductive, PTL

(***************************************************************************)
(* Short of a crash a series leaves the git stage only when every remote   *)
(* has its branch or refused the reference, which do_work is not told of   *)
(* (git.rs:178-209).                                                       *)
(***************************************************************************)
THEOREM NothingDropped == Spec => NeverDropped
<1>1. ASSUME IInv, [Next]_vars, crashes' = crashes,
             NEW s \in Series, InGit(db, s), ~InGit(db', s)
      PROVE  AnsweredEverywhere(s)
  <2>1. TypeOK /\ IsDb(db)
    BY <1>1 DEF IInv, TypeOK, IsDb
  <2>2. PICK t \in GitTrees : s \in db[t] /\ s \notin db'[t]
    BY <1>1 DEF InGit
  <2>3. \A u \in Series : \A old, new \in GitTrees :
          old # new => ~move_to_new_queue(old, new, u)
    <3> SUFFICES ASSUME NEW u \in Series, NEW old \in GitTrees, NEW new \in GitTrees,
                        old # new, move_to_new_queue(old, new, u)
                 PROVE  FALSE
      OBVIOUS
    <3>1. db'[new] = db[new] \cup {u} /\ \A v \in GitTrees \ {old} : db[v] \subseteq db'[v]
      BY <2>1, TreeNames DEF IsDb, move_to_new_queue
    <3>2. t = old /\ s \notin db'[new]
      BY <1>1, <2>2, <3>1 DEF InGit
    <3>3. s = u
      BY <2>1, <2>2, <3>2, TreeNames DEF IsDb, move_to_new_queue
    <3> QED BY <3>1, <3>2, <3>3
  <2>4. \A u \in Series : \A v \in Trees : ~Insert(v, u)
    BY <2>1, <2>2, TreeNames DEF IsDb, Insert
  <2>5. \A u \in Series : ~runner_takes(u)
    BY <2>1, <2>2, TreeNames DEF IsDb, runner_takes, Remove
  <2>6. db' # db /\ ~crash
    BY <1>1, <2>1, <2>2, GitOpsAssumption DEF crash, Restart, TypeOK
  <2>7. PICK w \in Workers : worker_step(w)
    BY <1>1, <2>3, <2>4, <2>5, <2>6, TreeNames
       DEF Next, vars, dbVars, watchcat_sees, watchcat_queues, ingest, init_worktrees,
           runner_init, flush, Flush
  <2>8. pc[w] # "idle" => id[w] \in Series
    BY <2>1, HoldsSeries
  <2>9. ~claim_series(w) /\ ~work_fails(w) /\ ~queue_for_runner(w)
    BY <2>3, <2>4, <2>8, TreeNames DEF claim_series, work_fails, queue_for_runner
  <2>10. work_succeeds(w)
    BY <2>6, <2>7, <2>9
       DEF worker_step, dbVars, try_do_work, leave_wait_loop, clean_and_reset, apply_series,
           commit_series, push
  <2>11. s = id[w]
    BY <2>1, <2>2, <2>10, TreeNames DEF IsDb, work_succeeds, Remove
  <2> QED BY <1>1, <2>10, <2>11
          DEF IInv, BranchInv, RepoInv, AnsweredEverywhere, work_succeeds
<1>2. IInv /\ [Next]_vars =>
        [crashes' = crashes =>
           \A s \in Series : InGit(db, s) /\ ~InGit(db', s) => AnsweredEverywhere(s)]_vars
  BY <1>1
<1> QED BY <1>2, Inductive, PTL DEF Spec, NeverDropped

-----------------------------------------------------------------------------
(***************************************************************************)
(* The contract with the watchcat.                                         *)
(***************************************************************************)
LEMMA SourceInit == Init => Source!Init
BY TreeNames DEF Init, EmptyDb, Source!Init, Source!Empty, TwoTrees

(* A step on the other trees changes nothing the contract speaks of. *)
LEMMA SourceSame ==
  ASSUME UNCHANGED <<disk, scanning>>,
         db'[SeenByWatchcat] = db[SeenByWatchcat], db'[NeedsTesting] = db[NeedsTesting]
  PROVE  UNCHANGED Source!vars
BY DEF Source!vars, TwoTrees

LEMMA SourceDeath == Restart => Source!Restart
BY DEF Restart, Recover, Source!Restart, TwoTrees

LEMMA SourceNext == TypeOK /\ [Next]_vars => [Source!Next]_(Source!vars)
<1> SUFFICES ASSUME TypeOK, [Next]_vars PROVE [Source!Next]_(Source!vars)
  OBVIOUS
<1> USE DEF dbVars
<1>db. IsDb(db) /\ \A w \in Workers : pc[w] # "idle" => id[w] \in Series
  BY HoldsSeries DEF TypeOK, IsDb
<1>1. ASSUME NEW s \in Series, watchcat_sees(s) PROVE Source!Mark(s)
  <2>1. /\ db'[SeenByWatchcat] = db[SeenByWatchcat] \cup {s}
        /\ db'[NeedsTesting] = db[NeedsTesting]
    BY <1>1, <1>db, TreeNames DEF watchcat_sees, Insert, IsDb
  <2> QED BY <1>1, <2>1 DEF watchcat_sees, Source!Mark, TwoTrees
<1>2. ASSUME NEW s \in Series, watchcat_queues(s) PROVE Source!Queue(s)
  <2>1. /\ db'[SeenByWatchcat] = db[SeenByWatchcat]
        /\ db'[NeedsTesting] = db[NeedsTesting] \cup {s}
    BY <1>2, <1>db, TreeNames DEF watchcat_queues, Insert, IsDb
  <2> QED BY <1>2, <2>1 DEF watchcat_queues, Source!Queue, TwoTrees
<1>3. ASSUME NEW s \in Series, ingest(s) PROVE Source!Take(s)
  <2>1. /\ s \in db[NeedsTesting] /\ db'[SeenByWatchcat] = db[SeenByWatchcat]
        /\ db'[NeedsTesting] = db[NeedsTesting] \ {s}
    BY <1>3, <1>db, TreeNames DEF ingest, move_to_new_queue, IsDb
  <2> QED BY <1>3, <2>1 DEF ingest, Source!Take, TwoTrees
<1>4. ASSUME NEW s \in Series, runner_takes(s) PROVE UNCHANGED Source!vars
  BY <1>4, <1>db, RunnerQueueApart, TreeNames, SourceSame DEF runner_takes
<1>5. ASSUME NEW w \in Workers, worker_step(w) PROVE UNCHANGED Source!vars
  <2>1. UNCHANGED <<disk, scanning>>
    BY <1>5 DEF worker_step, try_do_work, leave_wait_loop, claim_series, clean_and_reset,
                apply_series, commit_series, push, queue_for_runner, work_succeeds, work_fails
  <2>2. CASE claim_series(w) \/ queue_for_runner(w) \/ work_succeeds(w) \/ work_fails(w)
    <3>1. id[w] \in Series /\ w \in Trees
      BY <2>2, <1>db, TreeNames DEF claim_series, queue_for_runner, work_succeeds, work_fails
    <3>2. \/ move_to_new_queue(AwaitingGitWorker, w, id[w]) \/ Insert(RunnerQueue, id[w])
          \/ Remove(w, id[w]) \/ move_to_new_queue(w, GitFailures, id[w])
      BY <2>2 DEF claim_series, queue_for_runner, work_succeeds, work_fails
    <3>3. /\ db'[SeenByWatchcat] = db[SeenByWatchcat]
          /\ db'[NeedsTesting] = db[NeedsTesting]
      BY <3>1, <3>2, <1>db, TreeNames, GitOpsAssumption
         DEF IsDb, Insert, Remove, move_to_new_queue, NeedsTesting, RunnerQueue, GitFailures
    <3> QED BY <2>1, <3>3, SourceSame
  <2>3. CASE UNCHANGED db
    BY <2>1, <2>3, SourceSame
  <2> QED BY <1>5, <2>2, <2>3
          DEF worker_step, try_do_work, leave_wait_loop, clean_and_reset, apply_series,
              commit_series, push
<1>6. CASE flush
  BY <1>6 DEF flush, Flush, Source!Next, Source!Save, TwoTrees
<1>7. CASE crash
  BY <1>7, SourceDeath DEF crash, Source!Next
<1>8. CASE init_worktrees \/ (\E r \in Remotes : runner_init(r)) \/ UNCHANGED vars
  BY <1>8, SourceSame DEF init_worktrees, runner_init, vars
<1> QED BY <1>1, <1>2, <1>3, <1>4, <1>5, <1>6, <1>7, <1>8 DEF Next, Source!Next

(***************************************************************************)
(* The git stage keeps the contract of the two trees it shares with the    *)
(* watchcat: it never puts a series back to be tested (git.rs:158-209).    *)
(***************************************************************************)
THEOREM KeepsContract == Spec => ImplementsSource
BY SourceInit, SourceNext, TypeCorrect, PTL DEF Spec, ImplementsSource, Source!Spec
=============================================================================
