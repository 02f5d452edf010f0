--------------------------- MODULE WatchcatProofs ---------------------------
(***************************************************************************)
(* The safety properties of Watchcat, for any number of series, page size, *)
(* failures and crashes.  The refinement rests on PendInv: what the scan   *)
(* has yet to queue is marked, and no other scan has queued it.            *)
(***************************************************************************)
EXTENDS Watchcat, TLAPS

LEMMA TypeInit == Init => TypeOK
BY WatchcatAssumption DEF Init, TypeOK, Idle, Stages

LEMMA TypeNext == TypeOK /\ [Next]_vars => TypeOK'
<1> SUFFICES ASSUME TypeOK, [Next]_vars PROVE TypeOK'
  OBVIOUS
<1> USE WatchcatAssumption DEF TypeOK, dbVars, Stages
<1>1. Idle \in [Series -> Stages]
  BY DEF Idle
<1>2. CASE scan
  BY <1>2 DEF scan
<1>3. CASE end_scan
  BY <1>3 DEF end_scan
<1>4. CASE list_fails \/ scan_fails \/ crash
  BY <1>1, <1>4 DEF list_fails, scan_fails, crash, Restart, Recover
<1>5. CASE flush
  BY <1>5 DEF flush, Flush
<1>6. ASSUME NEW s \in Series, submit(s) \/ complete(s) \/ triage(s) PROVE TypeOK'
  BY <1>6 DEF submit, complete, triage, SetStatus
<1>7. ASSUME NEW s \in Series, item_step(s) PROVE TypeOK'
  <2>1. main = "scanning" /\ main' = main
    BY <1>7 DEF item_step, filter_seen, filter_patch, mark, check_state, queue, Idle
  <2>2. CASE filter_seen(s)
    BY <2>1, <2>2 DEF filter_seen, Goto
  <2>3. CASE filter_patch(s)
    BY <2>1, <2>3 DEF filter_patch, Goto
  <2>4. CASE mark(s)
    BY <2>1, <2>4 DEF mark, Goto, Insert, Trees
  <2>5. CASE check_state(s)
    BY <2>1, <2>5 DEF check_state, Goto
  <2>6. CASE queue(s)
    BY <2>1, <2>6 DEF queue, Goto, Insert, Trees
  <2> QED BY <1>7, <2>2, <2>3, <2>4, <2>5, <2>6 DEF item_step
<1>8. ASSUME NEW s \in Series, ingest(s) PROVE TypeOK'
  BY <1>8 DEF ingest, move_to_new_queue, Trees
<1>9. CASE UNCHANGED vars
  BY <1>9 DEF vars
<1> QED BY <1>2, <1>3, <1>4, <1>5, <1>6, <1>7, <1>8, <1>9 DEF Next

(* The variables keep their types, and only a scan has series under way. *)
THEOREM TypeCorrect == Spec => []TypeOK
BY TypeInit, TypeNext, PTL DEF Spec

-----------------------------------------------------------------------------
LEMMA TreeNames ==
  /\ SeenByWatchcat \in Trees /\ NeedsTesting \in Trees /\ AwaitingGitWorker \in Trees
  /\ SeenByWatchcat # NeedsTesting /\ SeenByWatchcat # AwaitingGitWorker
  /\ NeedsTesting # AwaitingGitWorker
BY DEF Trees, SeenByWatchcat, NeedsTesting, AwaitingGitWorker

(* Every step that does not end the process loses no series. *)
LEMMA NothingLost ==
  TypeOK /\ [Next]_vars /\ main' # "starting" => \A s \in Series : Lost(s)' => Lost(s)
<1> SUFFICES ASSUME TypeOK, [Next]_vars, main' # "starting", NEW r \in Series, Lost(r)'
             PROVE  Lost(r)
  OBVIOUS
<1> USE TreeNames DEF TypeOK, Lost, Queued, Pending, dbVars, Stages
<1>1. CASE scan
  BY <1>1 DEF scan, Idle
<1>2. CASE end_scan \/ flush \/ UNCHANGED vars
  BY <1>2 DEF end_scan, flush, Flush, vars
<1>3. CASE list_fails \/ scan_fails \/ crash
  BY <1>3 DEF list_fails, scan_fails, crash, Restart
<1>4. ASSUME NEW s \in Series, submit(s) \/ complete(s) \/ triage(s) PROVE Lost(r)
  BY <1>4 DEF submit, complete, triage, SetStatus
<1>5. ASSUME NEW s \in Series, item_step(s) PROVE Lost(r)
  <2>1. CASE filter_seen(s) \/ filter_patch(s)
    BY <2>1 DEF filter_seen, filter_patch, Goto
  <2>2. CASE mark(s)
    BY <2>2 DEF mark, Goto, Insert
  <2>3. CASE check_state(s)
    BY <2>3 DEF check_state, Goto
  <2>4. CASE queue(s)
    BY <2>4 DEF queue, Goto, Insert
  <2> QED BY <1>5, <2>1, <2>2, <2>3, <2>4 DEF item_step
<1>6. ASSUME NEW s \in Series, ingest(s) PROVE Lost(r)
  BY <1>6 DEF ingest, move_to_new_queue
<1> QED BY <1>1, <1>2, <1>3, <1>4, <1>5, <1>6 DEF Next

(* Only the end of the process takes a marked series from its scan. *)
THEOREM DeathLoses == Spec => OnlyDeathLoses
<1>1. TypeOK /\ [Next]_vars => [main' # "starting" => \A s \in Series : Lost(s)' => Lost(s)]_vars
  BY NothingLost
<1> QED BY <1>1, TypeCorrect, PTL DEF Spec, OnlyDeathLoses

-----------------------------------------------------------------------------
(* What the scan has let through the filters has no mark yet. *)
Unmarked == \A s \in Series : stage[s] \in {"unseen", "wanted"} => s \notin db[SeenByWatchcat]

LEMMA UnmarkedNext == TypeOK /\ Unmarked /\ [Next]_vars => Unmarked'
<1> SUFFICES ASSUME TypeOK, Unmarked, [Next]_vars PROVE Unmarked'
  OBVIOUS
<1> USE TreeNames DEF TypeOK, Unmarked, dbVars, Idle
<1>1. CASE scan
  BY <1>1 DEF scan
<1>2. CASE end_scan \/ UNCHANGED vars
  BY <1>2 DEF end_scan, vars
<1>3. CASE list_fails \/ scan_fails \/ crash
  BY <1>3 DEF list_fails, scan_fails, crash, Restart
<1>4. CASE flush
  BY <1>4 DEF flush, Flush
<1>5. ASSUME NEW s \in Series, submit(s) \/ complete(s) \/ triage(s) PROVE Unmarked'
  BY <1>5 DEF submit, complete, triage, SetStatus
<1>6. ASSUME NEW s \in Series, item_step(s) PROVE Unmarked'
  <2>1. CASE filter_seen(s) \/ filter_patch(s)
    BY <2>1 DEF filter_seen, filter_patch, Goto
  <2>2. CASE mark(s)
    BY <2>2 DEF mark, Goto, Insert
  <2>3. CASE check_state(s)
    BY <2>3 DEF check_state, Goto
  <2>4. CASE queue(s)
    BY <2>4 DEF queue, Goto, Insert
  <2> QED BY <1>6, <2>1, <2>2, <2>3, <2>4 DEF item_step
<1>7. ASSUME NEW s \in Series, ingest(s) PROVE Unmarked'
  BY <1>7 DEF ingest, move_to_new_queue
<1> QED BY <1>1, <1>2, <1>3, <1>4, <1>5, <1>6, <1>7 DEF Next

LEMMA SourceInit == Init => Source!Init
BY TreeNames DEF Init, Source!Init, Source!Empty, TwoTrees, Pending, Idle

(* Every step is one of the contract's, or leaves its variables alone. *)
LEMMA SourceNext == TypeOK /\ Unmarked /\ [Next]_vars => [Source!Next]_(Source!vars)
<1> SUFFICES ASSUME TypeOK, Unmarked, [Next]_vars PROVE [Source!Next]_(Source!vars)
  OBVIOUS
<1> USE TreeNames DEF TypeOK, dbVars
<1>0. ASSUME UNCHANGED <<db, disk>>, Pending' = Pending PROVE UNCHANGED Source!vars
  BY <1>0 DEF Source!vars, TwoTrees
<1>1. CASE scan
  <2>1. Pending' = Pending
    BY <1>1 DEF scan, Pending, Idle
  <2> QED BY <1>0, <1>1, <2>1 DEF scan
<1>2. CASE end_scan \/ UNCHANGED vars
  <2>1. Pending' = Pending /\ UNCHANGED <<db, disk>>
    BY <1>2 DEF end_scan, vars, Pending
  <2> QED BY <1>0, <2>1
<1>3. CASE list_fails \/ scan_fails \/ crash
  <2>1. db' = disk /\ disk' = disk /\ stage' = Idle
    BY <1>3 DEF list_fails, scan_fails, crash, Restart, Recover
  <2>2. Pending' = {}
    BY <2>1 DEF Pending, Idle
  <2>3. Source!Restart
    BY <2>1, <2>2 DEF Source!Restart, TwoTrees
  <2> QED BY <2>3 DEF Source!Next
<1>4. CASE flush
  <2>1. db' = db /\ disk' = db /\ Pending' = Pending
    BY <1>4 DEF flush, Flush, Pending
  <2>2. Source!Save
    BY <2>1 DEF Source!Save, TwoTrees
  <2> QED BY <2>2 DEF Source!Next
<1>5. ASSUME NEW s \in Series, submit(s) \/ complete(s) \/ triage(s)
      PROVE UNCHANGED Source!vars
  <2>1. Pending' = Pending /\ UNCHANGED <<db, disk>>
    BY <1>5 DEF submit, complete, triage, SetStatus, Pending
  <2> QED BY <1>0, <2>1
<1>6. ASSUME NEW s \in Series, filter_seen(s) \/ filter_patch(s) \/ check_state(s)
      PROVE UNCHANGED Source!vars
  <2>1. UNCHANGED <<db, disk>>
    BY <1>6 DEF filter_seen, filter_patch, check_state
  <2>2. Pending' = Pending
    BY <1>6 DEF filter_seen, filter_patch, check_state, Goto, Pending
  <2> QED BY <1>0, <2>1, <2>2
<1>7. ASSUME NEW s \in Series, mark(s) PROVE Source!Mark(s)
  <2>1. /\ s \notin db[SeenByWatchcat]
        /\ db'[SeenByWatchcat] = db[SeenByWatchcat] \cup {s}
        /\ db'[NeedsTesting] = db[NeedsTesting] /\ disk' = disk
    BY <1>7 DEF mark, Insert, Unmarked
  <2>2. Pending' = Pending \cup {s}
    BY <1>7 DEF mark, Goto, Pending
  <2> QED BY <2>1, <2>2 DEF Source!Mark, TwoTrees
<1>8. ASSUME NEW s \in Series, queue(s) PROVE Source!Queue(s)
  <2>1. /\ db'[SeenByWatchcat] = db[SeenByWatchcat]
        /\ db'[NeedsTesting] = db[NeedsTesting] \cup {s} /\ disk' = disk
    BY <1>8 DEF queue, Insert
  <2>2. s \in Pending /\ Pending' = Pending \ {s}
    BY <1>8 DEF queue, Goto, Pending
  <2> QED BY <2>1, <2>2 DEF Source!Queue, TwoTrees
<1>9. ASSUME NEW s \in Series, ingest(s) PROVE Source!Take(s)
  <2>1. /\ s \in db[NeedsTesting] /\ db'[SeenByWatchcat] = db[SeenByWatchcat]
        /\ db'[NeedsTesting] = db[NeedsTesting] \ {s} /\ disk' = disk
    BY <1>9 DEF ingest, move_to_new_queue
  <2>2. Pending' = Pending
    BY <1>9 DEF ingest, Pending
  <2> QED BY <2>1, <2>2 DEF Source!Take, TwoTrees
<1>10. CASE Next
  BY <1>1, <1>2, <1>3, <1>4, <1>5, <1>6, <1>7, <1>8, <1>9, <1>10 DEF Next, item_step, Source!Next
<1> QED BY <1>2, <1>10

(* The watchcat keeps the contract of its two trees, across any deaths. *)
THEOREM KeepsContract == Spec => ImplementsSource
<1>1. Init => Unmarked
  BY DEF Init, Unmarked, Idle
<1> QED
  BY <1>1, TypeCorrect, UnmarkedNext, SourceInit, SourceNext, PTL
  DEF Spec, ImplementsSource, Source!Spec
=============================================================================
