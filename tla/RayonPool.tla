----------------------------- MODULE RayonPool -----------------------------
(***************************************************************************)
(* Who runs on rayon's global pool.  main.rs spawns loops that never       *)
(* return (git.ingest, one new_job_watcher for each runner, dispatch), the *)
(* watchers spawn a wait_for_completion for each series they started, and  *)
(* main itself blocks in the parallel iterator of every scan until the     *)
(* pool has run it.                                                        *)
(*                                                                         *)
(* rayon (rayon-core 1.11) is external.  What counts of it here: a thread  *)
(* runs one job at a time, above those it interrupted; the jobs of other   *)
(* threads come in through one queue in order; a parallel iterator runs    *)
(* one half itself and offers the other to thieves, recursively; and a     *)
(* thread whose half was stolen runs ANY other job while it waits, on top  *)
(* of the one that waits.                                                  *)
(***************************************************************************)
EXTENDS Naturals, Sequences, FiniteSets

CONSTANTS
  Threads,     \* the threads of the pool, one for each CPU
  Runners,     \* how many runners are configured
  Polls,       \* the wait_for_completion closures there may be
  Depth        \* bound: how often a parallel iterator splits

VARIABLES
  spawned,     \* how many loops main has handed to rayon::spawn
  taken,       \* how many of them a thread has begun, in order
  scan,        \* main's scan: "idle", "injected" (main blocks) or "running"
  poll,        \* each poll: "none", "queued", "running" or "over"
  ci,          \* its runs: "running", "ended", or "seen" by a round of the poll
  piece,       \* piece[<<j, d>>], split off by part d - 1 of job j
  stack        \* what each thread executes, the last element on top

vars == <<spawned, taken, scan, poll, ci, piece, stack>>

Loops == Runners + 2          \* git, the watchers, dispatch
Jobs  == Polls \cup {"scan"}  \* the jobs that use parallel iterators

ASSUME RayonPoolAssumption ==
  /\ IsFiniteSet(Threads)
  /\ Runners \in Nat \ {0} /\ Depth \in Nat \ {0}
  /\ "scan" \notin Polls /\ "loop" \notin Polls

PieceStates == {"none", "offered", "taken", "done"}

(* The frames of a stack: an endless loop, or part d of a job. *)
LoopFrame(n) == <<"loop", n>>
LoopFrames == {LoopFrame(n) : n \in 1..Loops}
JobFrames  == Jobs \X (0..Depth)

Top(s) == s[Len(s)]
Push(t, frame) == stack' = [stack EXCEPT ![t] = Append(@, frame)]
Pop(t) == stack' = [stack EXCEPT ![t] = SubSeq(@, 1, Len(@) - 1)]

Init ==
  /\ spawned = 0 /\ taken = 0 /\ scan = "idle"
  /\ poll = [p \in Polls |-> "none"] /\ ci = [p \in Polls |-> "running"]
  /\ piece = [x \in Jobs \X (1..Depth) |-> "none"]
  /\ stack = [t \in Threads |-> <<>>]

(* Thread t executes part d of job j. *)
Runs(t, j, d) == stack[t] # <<>> /\ Top(stack[t]) = <<j, d>>

(* A thread looks for work when it has none or waits for a stolen piece. *)
Looks(t) ==
  \/ stack[t] = <<>>
  \/ \E j \in Jobs, d \in 1..Depth : Runs(t, j, d - 1) /\ piece[<<j, d>>] = "taken"

-----------------------------------------------------------------------------
(* Mutation: the loop that scans again and again is spawned like the rest. *)
spawn_scan_loop_too ==
  /\ spawned < Loops + 1
  /\ spawned' = spawned + 1
  /\ UNCHANGED <<taken, scan, poll, ci, piece, stack>>

(* main spawns git's closure, the watchers, dispatch: main.rs:129-152. *)
spawn_loop ==
  /\ spawned < Loops
  /\ spawned' = spawned + 1
  /\ UNCHANGED <<taken, scan, poll, ci, piece, stack>>

(* Mutation: the first scan does not wait for the loops to be spawned. *)
begin_scan_at_once ==
  /\ scan = "idle"
  /\ scan' = "injected"
  /\ UNCHANGED <<spawned, taken, poll, ci, piece, stack>>

(* main enters watchcat.scan, the first time or after its sleep. *)
begin_scan ==
  /\ spawned = Loops /\ scan = "idle"
  /\ scan' = "injected"
  /\ UNCHANGED <<spawned, taken, poll, ci, piece, stack>>

(* A watcher, wherever it runs, spawns a poll: runner.rs:95. *)
spawn_poll(p) ==
  /\ taken >= 2 /\ poll[p] = "none"
  /\ poll' = [poll EXCEPT ![p] = "queued"]
  /\ UNCHANGED <<spawned, taken, scan, ci, piece, stack>>

(* GitHub completes the last run the poll waits for. *)
ci_ends(p) ==
  /\ ci[p] = "running"
  /\ ci' = [ci EXCEPT ![p] = "ended"]
  /\ UNCHANGED <<spawned, taken, scan, poll, piece, stack>>

-----------------------------------------------------------------------------
take_loop(t) ==
  /\ Looks(t) /\ taken < spawned
  /\ taken' = taken + 1
  /\ Push(t, LoopFrame(taken + 1))
  /\ UNCHANGED <<spawned, scan, poll, ci, piece>>

(* The queue of injected jobs is first in, first out. *)
take_scan(t) ==
  /\ Looks(t) /\ taken = spawned /\ scan = "injected"
  /\ scan' = "running"
  /\ Push(t, <<"scan", 0>>)
  /\ UNCHANGED <<spawned, taken, poll, ci, piece>>

(* A poll lies in the deque of its watcher's thread until it is stolen. *)
take_poll(t, p) ==
  /\ Looks(t) /\ poll[p] = "queued"
  /\ poll' = [poll EXCEPT ![p] = "running"]
  /\ Push(t, <<p, 0>>)
  /\ UNCHANGED <<spawned, taken, scan, ci, piece>>

(***************************************************************************)
(* Part d - 1 of job j splits.  For a poll's part 0 this is a new round:   *)
(* get_progress asks GitHub, then goes through the answer in parallel.     *)
(***************************************************************************)
split(t, j, d) ==
  /\ Runs(t, j, d - 1) /\ piece[<<j, d>>] = "none"
  /\ piece' = [piece EXCEPT ![<<j, d>>] = "offered"]
  /\ ci' = IF j \in Polls /\ d = 1 /\ ci[j] = "ended" THEN [ci EXCEPT ![j] = "seen"] ELSE ci
  /\ UNCHANGED <<spawned, taken, scan, poll, stack>>

(* A thief takes the piece, or the part that offered it takes it back. *)
take_piece(t, j, d) ==
  /\ Looks(t) \/ Runs(t, j, d - 1)
  /\ piece[<<j, d>>] = "offered"
  /\ piece' = [piece EXCEPT ![<<j, d>>] = "taken"]
  /\ Push(t, <<j, d>>)
  /\ UNCHANGED <<spawned, taken, scan, poll, ci>>

(* Part d of job j split nothing off, or what it split off is done. *)
Joined(j, d) == \A e \in 1..Depth : e = d + 1 => piece[<<j, e>>] \in {"none", "done"}

return_piece(t, j, d) ==
  /\ Runs(t, j, d) /\ Joined(j, d)
  /\ piece' = [x \in DOMAIN piece |->
                 IF x = <<j, d>> THEN "done" ELSE IF x = <<j, d + 1>> THEN "none" ELSE piece[x]]
  /\ Pop(t)
  /\ UNCHANGED <<spawned, taken, scan, poll, ci>>

(* Mutation: a poll goes on until it is told to stop. *)
end_round_goes_on(t, p) ==
  /\ Runs(t, p, 0) /\ piece[<<p, 1>>] = "done"
  /\ piece' = [piece EXCEPT ![<<p, 1>>] = "none"]
  /\ UNCHANGED <<spawned, taken, scan, poll, ci, stack>>

(* The end of a round: the poll returns, or sleeps (on its thread). *)
end_round(t, p) ==
  /\ Runs(t, p, 0) /\ piece[<<p, 1>>] = "done"
  /\ piece' = [piece EXCEPT ![<<p, 1>>] = "none"]
  /\ IF ci[p] = "seen" THEN Pop(t) /\ poll' = [poll EXCEPT ![p] = "over"]
                       ELSE UNCHANGED <<stack, poll>>
  /\ UNCHANGED <<spawned, taken, scan, ci>>

(* The scan is through; main sleeps until it is time for the next. *)
end_scan(t) ==
  /\ Runs(t, "scan", 0) /\ piece[<<"scan", 1>>] = "done"
  /\ piece' = [piece EXCEPT ![<<"scan", 1>>] = "none"]
  /\ scan' = "idle"
  /\ Pop(t)
  /\ UNCHANGED <<spawned, taken, poll, ci>>

-----------------------------------------------------------------------------
main_step == spawn_loop \/ begin_scan

thread_step(t) ==
  \/ take_loop(t) \/ take_scan(t) \/ end_scan(t)
  \/ \E p \in Polls : take_poll(t, p) \/ end_round(t, p)
  \/ \E j \in Jobs, d \in 1..Depth : split(t, j, d) \/ take_piece(t, j, d) \/ return_piece(t, j, d)

Next ==
  \/ main_step
  \/ \E p \in Polls : spawn_poll(p) \/ ci_ends(p)
  \/ \E t \in Threads : thread_step(t)

Spec == Init /\ [][Next]_vars

(***************************************************************************)
(* main and the threads keep running and CI comes to an end.  A thread     *)
(* that looks for work tries the other threads' deques before the queue of *)
(* injected jobs, so scans cannot keep a poll waiting for ever.            *)
(***************************************************************************)
Fairness ==
  /\ WF_vars(main_step)
  /\ \A p \in Polls : WF_vars(ci_ends(p)) /\ SF_vars(\E t \in Threads : take_poll(t, p))
  /\ \A t \in Threads : WF_vars(thread_step(t))

FairSpec == Spec /\ Fairness

-----------------------------------------------------------------------------
(* The types of the variables; no more loops are spawned than there are. *)
TypeOK ==
  /\ spawned \in 0..Loops /\ taken \in 0..spawned
  /\ scan \in {"idle", "injected", "running"}
  /\ poll \in [Polls -> {"none", "queued", "running", "over"}]
  /\ ci \in [Polls -> {"running", "ended", "seen"}]
  /\ piece \in [Jobs \X (1..Depth) -> PieceStates]
  /\ stack \in [Threads -> Seq(LoopFrames \cup JobFrames)]

(***************************************************************************)
(* No part of a scan ever lies under an endless loop, although a thread    *)
(* that waits for a stolen part runs whatever it finds: main would block   *)
(* in scan for ever.  It rests on main spawning every loop before the      *)
(* first scan (main.rs:129-155).                                           *)
(***************************************************************************)
ScanNotBuried ==
  \A t \in Threads : \A i, k \in 1..Len(stack[t]) :
    i < k /\ stack[t][i][1] = "scan" => stack[t][k][1] # "loop"

(***************************************************************************)
(* With more threads than loops there is always a thread left for polls    *)
(* and scans: nothing but the loops of the start holds a thread for good   *)
(* (main.rs:129-152, runner.rs:95).                                        *)
(***************************************************************************)
Endless(t) == stack[t] # <<>> /\ Top(stack[t])[1] = "loop"

ThreadIsLeft == Cardinality(Threads) > Loops => \E t \in Threads : ~Endless(t)

(***************************************************************************)
(* A scan comes to its end, whatever the threads it needs are busy with    *)
(* (main.rs:155, watchcat.rs:60).  With as many loops as threads it never  *)
(* does.                                                                   *)
(***************************************************************************)
ScanEnds == scan = "injected" ~> scan = "idle"

(***************************************************************************)
(* Once the last loop is running, a poll that is spawned also returns.  A  *)
(* poll begun earlier may have taken a loop on top of itself while it      *)
(* waited (main.rs:136-152), and then never does (runner.rs:95,122).       *)
(***************************************************************************)
PollEnds ==
  \A p \in Polls : taken = Loops /\ poll[p] = "queued" ~> poll[p] = "over"
=============================================================================
