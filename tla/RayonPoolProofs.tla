-------------------------- MODULE RayonPoolProofs --------------------------
(***************************************************************************)
(* The safety properties of RayonPool, for any number of threads, runners  *)
(* and polls and any depth of splitting.  Every action changes one stack   *)
(* at its top only, so each invariant about stacks is proved once for a    *)
(* push and once for a pop.                                                *)
(***************************************************************************)
EXTENDS RayonPool, FiniteSetTheorems, SequenceTheorems, TLAPS

Frames == LoopFrames \cup JobFrames

(* A job's frame is not a loop's, and only the scan's are the scan's. *)
LEMMA FrameKinds ==
  /\ \A n : LoopFrame(n)[1] = "loop" /\ LoopFrame(n)[2] = n
  /\ \A x \in JobFrames : x[1] # "loop"
  /\ \A j, d : <<j, d>>[1] = j
BY RayonPoolAssumption DEF LoopFrame, JobFrames, Jobs

(* What is left of a stack when its top frame returns. *)
LEMMA Popped ==
  ASSUME NEW S, NEW s \in Seq(S), s # <<>>
  PROVE  LET r == SubSeq(s, 1, Len(s) - 1)
         IN  /\ r \in Seq(S) /\ Len(r) = Len(s) - 1
             /\ \A i \in 1..Len(r) : r[i] = s[i]
<1> DEFINE n == Len(s) - 1
<1>1. Len(s) \in Nat /\ Len(s) # 0 /\ n \in Nat
  BY EmptySeq
<1>2. \A i \in 1..n : s[i] \in S
  BY <1>1
<1>3. /\ SubSeq(s, 1, n) \in Seq(S)
      /\ Len(SubSeq(s, 1, n)) = IF 1 <= n THEN n - 1 + 1 ELSE 0
      /\ \A i \in 1..n - 1 + 1 : SubSeq(s, 1, n)[i] = s[1 + i - 1]
  BY <1>1, <1>2, SubSeqProperties
<1>4. Len(SubSeq(s, 1, n)) = n
  <2> DEFINE l == Len(SubSeq(s, 1, n))
  <2>1. n \in Nat /\ l = (IF 1 <= n THEN n - 1 + 1 ELSE 0)
    BY <1>1, <1>3
  <2> HIDE DEF n, l
  <2>2. l = n
    BY <2>1
  <2> QED BY <2>2 DEF l
<1>5. \A i \in 1..n : SubSeq(s, 1, n)[i] = s[i]
  BY <1>1, <1>3
<1> QED BY <1>3, <1>4, <1>5

-----------------------------------------------------------------------------
LEMMA TypeInit == Init => TypeOK
<1> SUFFICES ASSUME Init PROVE TypeOK
  OBVIOUS
<1>1. Loops \in Nat
  BY RayonPoolAssumption DEF Loops
<1>2. <<>> \in Seq(LoopFrames \cup JobFrames)
  OBVIOUS
<1> QED BY <1>1, <1>2 DEF Init, TypeOK, PieceStates

(* Pushing and popping a frame keep the type of the stacks. *)
LEMMA PushType ==
  ASSUME TypeOK, NEW t \in Threads, NEW f \in Frames, Push(t, f)
  PROVE  stack' \in [Threads -> Seq(LoopFrames \cup JobFrames)]
BY AppendProperties DEF TypeOK, Push, Frames

LEMMA PopType ==
  ASSUME TypeOK, NEW t \in Threads, stack[t] # <<>>, Pop(t)
  PROVE  stack' \in [Threads -> Seq(LoopFrames \cup JobFrames)]
BY Popped DEF TypeOK, Pop

LEMMA TypeNext == TypeOK /\ [Next]_vars => TypeOK'
<1> SUFFICES ASSUME TypeOK, [Next]_vars PROVE TypeOK'
  OBVIOUS
<1>0. Loops \in Nat /\ Loops >= 3 /\ Depth \in Nat \ {0}
  BY RayonPoolAssumption DEF Loops
<1>1. CASE main_step
  BY <1>0, <1>1 DEF TypeOK, main_step, spawn_loop, begin_scan
<1>2. ASSUME NEW p \in Polls, spawn_poll(p) \/ ci_ends(p) PROVE TypeOK'
  BY <1>2 DEF TypeOK, spawn_poll, ci_ends
<1>3. ASSUME NEW t \in Threads, take_loop(t) PROVE TypeOK'
  <2>1. LoopFrame(taken + 1) \in Frames
    BY <1>0, <1>3 DEF take_loop, TypeOK, Frames, LoopFrames
  <2>2. stack' \in [Threads -> Seq(LoopFrames \cup JobFrames)]
    BY <1>3, <2>1, PushType DEF take_loop
  <2> QED BY <1>0, <1>3, <2>2 DEF take_loop, TypeOK
<1>4. ASSUME NEW t \in Threads, take_scan(t) PROVE TypeOK'
  <2>1. <<"scan", 0>> \in Frames
    BY <1>0 DEF Frames, JobFrames, Jobs
  <2>2. stack' \in [Threads -> Seq(LoopFrames \cup JobFrames)]
    BY <1>4, <2>1, PushType DEF take_scan
  <2> QED BY <1>4, <2>2 DEF take_scan, TypeOK
<1>5. ASSUME NEW t \in Threads, NEW p \in Polls, take_poll(t, p) PROVE TypeOK'
  <2>1. <<p, 0>> \in Frames
    BY <1>0 DEF Frames, JobFrames, Jobs
  <2>2. stack' \in [Threads -> Seq(LoopFrames \cup JobFrames)]
    BY <1>5, <2>1, PushType DEF take_poll
  <2> QED BY <1>5, <2>2 DEF take_poll, TypeOK
<1>6. ASSUME NEW t \in Threads, NEW j \in Jobs, NEW d \in 1..Depth, split(t, j, d) PROVE TypeOK'
  BY <1>6 DEF split, TypeOK, PieceStates
<1>7. ASSUME NEW t \in Threads, NEW j \in Jobs, NEW d \in 1..Depth, take_piece(t, j, d)
      PROVE TypeOK'
  <2>1. <<j, d>> \in Frames
    BY <1>0 DEF Frames, JobFrames
  <2>2. stack' \in [Threads -> Seq(LoopFrames \cup JobFrames)]
    BY <1>7, <2>1, PushType DEF take_piece
  <2> QED BY <1>7, <2>2 DEF take_piece, TypeOK, PieceStates
<1>8. ASSUME NEW t \in Threads, NEW j \in Jobs, NEW d \in 1..Depth, return_piece(t, j, d)
      PROVE TypeOK'
  <2>1. stack' \in [Threads -> Seq(LoopFrames \cup JobFrames)]
    BY <1>8, PopType DEF return_piece, Runs
  <2>2. piece' \in [Jobs \X (1..Depth) -> PieceStates]
    BY <1>8 DEF return_piece, TypeOK, PieceStates
  <2> QED BY <1>8, <2>1, <2>2 DEF return_piece, TypeOK
<1>9. ASSUME NEW t \in Threads, NEW p \in Polls, end_round(t, p) PROVE TypeOK'
  <2>1. piece' \in [Jobs \X (1..Depth) -> PieceStates]
    BY <1>9 DEF end_round, TypeOK, PieceStates
  <2>2. stack' \in [Threads -> Seq(LoopFrames \cup JobFrames)]
    BY <1>9, PopType DEF end_round, Runs, TypeOK
  <2> QED BY <1>9, <2>1, <2>2 DEF end_round, TypeOK
<1>10. ASSUME NEW t \in Threads, end_scan(t) PROVE TypeOK'
  <2>1. piece' \in [Jobs \X (1..Depth) -> PieceStates]
    BY <1>10 DEF end_scan, TypeOK, PieceStates
  <2>2. stack' \in [Threads -> Seq(LoopFrames \cup JobFrames)]
    BY <1>10, PopType DEF end_scan, Runs
  <2> QED BY <1>10, <2>1, <2>2 DEF end_scan, TypeOK
<1>11. CASE UNCHANGED vars
  BY <1>11 DEF vars, TypeOK
<1> QED
  BY <1>1, <1>2, <1>3, <1>4, <1>5, <1>6, <1>7, <1>8, <1>9, <1>10, <1>11 DEF Next, thread_step

(* The variables keep their types, whatever the size of the pool. *)
THEOREM TypeCorrect == Spec => []TypeOK
BY TypeInit, TypeNext, PTL DEF Spec

-----------------------------------------------------------------------------
(* Every loop has been taken before any part of a scan is about. *)
ScanLast ==
  /\ scan # "idle" => spawned = Loops
  /\ (\E d \in 1..Depth : piece[<<"scan", d>>] # "none") => taken = Loops
  /\ \A t \in Threads : \A i \in 1..Len(stack[t]) : stack[t][i][1] = "scan" => taken = Loops

ScanInv == ScanLast /\ ScanNotBuried

LEMMA ScanInit == Init => ScanInv
<1> SUFFICES ASSUME Init PROVE ScanInv
  OBVIOUS
<1>1. \A d \in 1..Depth : piece[<<"scan", d>>] = "none"
  BY DEF Init, Jobs
<1>2. \A t \in Threads : Len(stack[t]) = 0
  BY DEF Init
<1>3. \A t \in Threads : 1..Len(stack[t]) = {}
  BY <1>2
<1>4. ScanNotBuried
  BY <1>3, Zenon DEF ScanNotBuried
<1>5. ScanLast
  BY <1>1, <1>3 DEF Init, ScanLast
<1> QED BY <1>4, <1>5 DEF ScanInv

(* A push of a frame that is no loop's, and no scan's unless the loops are out. *)
LEMMA PushScan ==
  ASSUME TypeOK, ScanInv, NEW t \in Threads, NEW f \in JobFrames, Push(t, f),
         taken' = taken, f[1] = "scan" => taken = Loops
  PROVE  /\ ScanNotBuried'
         /\ \A u \in Threads : \A i \in 1..Len(stack'[u]) :
              stack'[u][i][1] = "scan" => taken' = Loops
<1>1. /\ stack[t] \in Seq(Frames) /\ f \in Frames
      /\ stack' = [stack EXCEPT ![t] = Append(stack[t], f)]
  BY DEF TypeOK, Push, Frames
<1>2. /\ Len(stack'[t]) = Len(stack[t]) + 1 /\ Len(stack[t]) \in Nat
      /\ \A i \in 1..Len(stack[t]) : stack'[t][i] = stack[t][i]
      /\ stack'[t][Len(stack[t]) + 1] = f
  BY <1>1, AppendProperties DEF TypeOK
<1>3. \A u \in Threads : u # t => stack'[u] = stack[u]
  BY <1>1 DEF TypeOK
<1>4. f[1] # "loop"
  BY FrameKinds
<1>5. \A i \in 1..Len(stack'[t]) : i \in 1..Len(stack[t]) \/ i = Len(stack[t]) + 1
  BY <1>2
<1>6. ScanNotBuried'
  <2> SUFFICES ASSUME NEW u \in Threads, NEW i \in 1..Len(stack'[u]), NEW k \in 1..Len(stack'[u]),
                      i < k, stack'[u][i][1] = "scan"
               PROVE  stack'[u][k][1] # "loop"
    BY DEF ScanNotBuried
  <2>1. CASE u # t
    BY <2>1, <1>3 DEF ScanInv, ScanNotBuried
  <2>2. CASE u = t /\ k = Len(stack[t]) + 1
    BY <2>2, <1>2, <1>4
  <2>3. CASE u = t /\ k \in 1..Len(stack[t])
    <3>1. i \in 1..Len(stack[t])
      BY <2>3, <1>2
    <3> QED BY <2>3, <3>1, <1>2 DEF ScanInv, ScanNotBuried
  <2> QED BY <2>1, <2>2, <2>3, <1>5
<1>7. ASSUME NEW u \in Threads, NEW i \in 1..Len(stack'[u]), stack'[u][i][1] = "scan"
      PROVE  taken' = Loops
  <2>1. CASE u # t
    BY <2>1, <1>3, <1>7 DEF ScanInv, ScanLast
  <2>2. CASE u = t /\ i = Len(stack[t]) + 1
    BY <2>2, <1>2, <1>7
  <2>3. CASE u = t /\ i \in 1..Len(stack[t])
    BY <2>3, <1>2, <1>7 DEF ScanInv, ScanLast
  <2> QED BY <2>1, <2>2, <2>3, <1>5
<1> QED BY <1>6, <1>7

LEMMA PopScan ==
  ASSUME TypeOK, ScanInv, NEW t \in Threads, stack[t] # <<>>, Pop(t), taken' = taken
  PROVE  /\ ScanNotBuried'
         /\ \A u \in Threads : \A i \in 1..Len(stack'[u]) :
              stack'[u][i][1] = "scan" => taken' = Loops
<1>1. /\ stack[t] \in Seq(Frames)
      /\ stack' = [stack EXCEPT ![t] = SubSeq(stack[t], 1, Len(stack[t]) - 1)]
  BY DEF TypeOK, Pop, Frames
<1>2. /\ Len(stack'[t]) = Len(stack[t]) - 1 /\ Len(stack[t]) \in Nat
      /\ \A i \in 1..Len(stack'[t]) : stack'[t][i] = stack[t][i]
  BY <1>1, Popped DEF TypeOK
<1>3. \A u \in Threads : u # t => stack'[u] = stack[u]
  BY <1>1 DEF TypeOK
<1>4. \A u \in Threads : \A i \in 1..Len(stack'[u]) :
        i \in 1..Len(stack[u]) /\ stack'[u][i] = stack[u][i]
  BY <1>2, <1>3
<1> QED BY <1>4 DEF ScanInv, ScanLast, ScanNotBuried

LEMMA ScanNext == TypeOK /\ ScanInv /\ [Next]_vars => ScanInv'
<1> SUFFICES ASSUME TypeOK, ScanInv, [Next]_vars PROVE ScanInv'
  OBVIOUS
<1>0. /\ Loops \in Nat /\ taken <= spawned /\ spawned <= Loops /\ taken \in Nat
      /\ spawned \in Nat /\ Depth \in Nat \ {0} /\ \A p \in Polls : p # "scan"
  BY RayonPoolAssumption DEF TypeOK, Loops
<1> USE DEF ScanInv
<1>1. CASE main_step
  <2>1. CASE spawn_loop
    BY <1>0, <2>1 DEF spawn_loop, ScanLast, ScanNotBuried
  <2>2. CASE begin_scan
    BY <1>0, <2>2 DEF begin_scan, ScanLast, ScanNotBuried
  <2> QED BY <1>1, <2>1, <2>2 DEF main_step
<1>2. ASSUME NEW p \in Polls, spawn_poll(p) \/ ci_ends(p) PROVE ScanInv'
  BY <1>2 DEF spawn_poll, ci_ends, ScanLast, ScanNotBuried
<1>3. ASSUME NEW t \in Threads, take_loop(t) PROVE ScanInv'
  <2>1. taken # Loops /\ taken' # taken
    BY <1>0, <1>3 DEF take_loop
  <2>a. LoopFrame(taken + 1) \in Frames
    BY <1>0, <1>3 DEF take_loop, Frames, LoopFrames
  <2>2. /\ stack[t] \in Seq(Frames) /\ LoopFrame(taken + 1) \in Frames
        /\ stack' = [stack EXCEPT ![t] = Append(stack[t], LoopFrame(taken + 1))]
    BY <1>3, <2>a DEF take_loop, TypeOK, Push, Frames
  <2>3. /\ Len(stack'[t]) = Len(stack[t]) + 1 /\ Len(stack[t]) \in Nat
        /\ \A i \in 1..Len(stack[t]) : stack'[t][i] = stack[t][i]
        /\ stack'[t][Len(stack[t]) + 1] = LoopFrame(taken + 1)
    BY <2>2, AppendProperties DEF TypeOK
  <2>4. \A u \in Threads : u # t => stack'[u] = stack[u]
    BY <2>2 DEF TypeOK
  <2>5. \A u \in Threads : \A i \in 1..Len(stack'[u]) : stack'[u][i][1] # "scan"
    <3> SUFFICES ASSUME NEW u \in Threads, NEW i \in 1..Len(stack'[u])
                 PROVE  stack'[u][i][1] # "scan"
      OBVIOUS
    <3>1. CASE u # t
      BY <3>1, <2>1, <2>4 DEF ScanLast
    <3>2. CASE u = t /\ i = Len(stack[t]) + 1
      BY <3>2, <2>3, FrameKinds
    <3>3. CASE u = t /\ i \in 1..Len(stack[t])
      BY <3>3, <2>1, <2>3 DEF ScanLast
    <3> QED BY <3>1, <3>2, <3>3, <2>3
  <2> QED BY <1>3, <2>1, <2>5 DEF take_loop, ScanLast, ScanNotBuried
<1>4. ASSUME NEW t \in Threads, take_scan(t) PROVE ScanInv'
  <2>1. taken = Loops /\ <<"scan", 0>> \in JobFrames
    BY <1>0, <1>4 DEF take_scan, ScanLast, JobFrames, Jobs
  <2> QED BY <1>4, <2>1, PushScan DEF take_scan, ScanLast
<1>5. ASSUME NEW t \in Threads, NEW p \in Polls, take_poll(t, p) PROVE ScanInv'
  <2>1. <<p, 0>> \in JobFrames /\ <<p, 0>>[1] # "scan"
    BY <1>0, FrameKinds DEF JobFrames, Jobs
  <2> QED BY <1>5, <2>1, PushScan DEF take_poll, ScanLast
<1>6. ASSUME NEW t \in Threads, NEW j \in Jobs, NEW d \in 1..Depth, split(t, j, d) PROVE ScanInv'
  <2>1. ASSUME j = "scan" PROVE taken = Loops
    <3>1. stack[t] \in Seq(Frames) /\ stack[t] # <<>>
      BY <1>6 DEF split, Runs, TypeOK, Frames
    <3>2. Len(stack[t]) \in 1..Len(stack[t])
      BY <3>1, EmptySeq
    <3>3. stack[t][Len(stack[t])][1] = "scan"
      BY <1>6, <2>1, FrameKinds DEF split, Runs, Top
    <3> QED BY <3>2, <3>3 DEF ScanLast
  <2>2. ASSUME NEW e \in 1..Depth, j # "scan" PROVE piece'[<<"scan", e>>] = piece[<<"scan", e>>]
    BY <1>6, <2>2 DEF split, TypeOK, Jobs
  <2> QED BY <1>6, <2>1, <2>2 DEF split, ScanLast, ScanNotBuried
<1>7. ASSUME NEW t \in Threads, NEW j \in Jobs, NEW d \in 1..Depth, take_piece(t, j, d)
      PROVE ScanInv'
  <2>1. <<j, d>> \in JobFrames /\ <<j, d>>[1] = j
    BY <1>0, FrameKinds DEF JobFrames
  <2>2. j = "scan" => taken = Loops
    BY <1>7 DEF take_piece, ScanLast
  <2>3. ASSUME NEW e \in 1..Depth, j # "scan" PROVE piece'[<<"scan", e>>] = piece[<<"scan", e>>]
    BY <1>7, <2>3 DEF take_piece, TypeOK, Jobs
  <2>4. /\ ScanNotBuried'
        /\ \A u \in Threads : \A i \in 1..Len(stack'[u]) :
             stack'[u][i][1] = "scan" => taken' = Loops
    BY <1>7, <2>1, <2>2, PushScan DEF take_piece
  <2> QED BY <1>7, <2>2, <2>3, <2>4 DEF take_piece, ScanLast
<1>8. ASSUME NEW t \in Threads, NEW j \in Jobs, NEW d \in 1..Depth, return_piece(t, j, d)
      PROVE ScanInv'
  <2>1. j = "scan" => taken = Loops
    <3>1. stack[t] \in Seq(Frames) /\ stack[t] # <<>>
      BY <1>8 DEF return_piece, Runs, TypeOK, Frames
    <3>2. Len(stack[t]) \in 1..Len(stack[t])
      BY <3>1, EmptySeq
    <3> QED BY <1>8, <3>2, FrameKinds DEF return_piece, Runs, Top, ScanLast
  <2>2. ASSUME NEW e \in 1..Depth, j # "scan" PROVE piece'[<<"scan", e>>] = piece[<<"scan", e>>]
    BY <1>8, <2>2 DEF return_piece, TypeOK, Jobs
  <2>3. /\ ScanNotBuried'
        /\ \A u \in Threads : \A i \in 1..Len(stack'[u]) :
             stack'[u][i][1] = "scan" => taken' = Loops
    BY <1>8, PopScan DEF return_piece, Runs
  <2> QED BY <1>8, <2>1, <2>2, <2>3 DEF return_piece, ScanLast
<1>9. ASSUME NEW t \in Threads, NEW p \in Polls, end_round(t, p) PROVE ScanInv'
  <2>1. ASSUME NEW e \in 1..Depth PROVE piece'[<<"scan", e>>] = piece[<<"scan", e>>]
    BY <1>0, <1>9, <2>1 DEF end_round, TypeOK, Jobs
  <2>2. /\ ScanNotBuried'
        /\ \A u \in Threads : \A i \in 1..Len(stack'[u]) :
             stack'[u][i][1] = "scan" => taken' = Loops
    <3>1. CASE ci[p] = "seen"
      BY <1>9, <3>1, PopScan DEF end_round, Runs
    <3>2. CASE ci[p] # "seen"
      BY <1>9, <3>2 DEF end_round, ScanLast, ScanNotBuried
    <3> QED BY <3>1, <3>2
  <2> QED BY <1>9, <2>1, <2>2 DEF end_round, ScanLast
<1>10. ASSUME NEW t \in Threads, end_scan(t) PROVE ScanInv'
  <2>1. ASSUME NEW e \in 1..Depth, piece'[<<"scan", e>>] # "none" PROVE taken = Loops
    BY <1>0, <1>10, <2>1 DEF end_scan, TypeOK, Jobs, ScanLast
  <2>2. /\ ScanNotBuried'
        /\ \A u \in Threads : \A i \in 1..Len(stack'[u]) :
             stack'[u][i][1] = "scan" => taken' = Loops
    BY <1>10, PopScan DEF end_scan, Runs
  <2> QED BY <1>10, <2>1, <2>2 DEF end_scan, ScanLast
<1>11. CASE UNCHANGED vars
  BY <1>11 DEF vars, ScanLast, ScanNotBuried
<1> QED
  BY <1>1, <1>2, <1>3, <1>4, <1>5, <1>6, <1>7, <1>8, <1>9, <1>10, <1>11 DEF Next, thread_step

(* No part of a scan lies under an endless loop, for any size of the pool. *)
THEOREM ScansStayFree == Spec => []ScanNotBuried
<1>1. ScanInv => ScanNotBuried
  BY DEF ScanInv
<1> QED BY <1>1, TypeCorrect, ScanInit, ScanNext, PTL DEF Spec

-----------------------------------------------------------------------------
(* Nothing is ever put on a loop, and no two threads run the same one. *)
LoopInv ==
  /\ \A t \in Threads : \A i \in 1..Len(stack[t]) : stack[t][i][1] = "loop" => i = Len(stack[t])
  /\ \A t \in Threads : Endless(t) => Top(stack[t])[2] \in 1..taken
  /\ \A t, u \in Threads :
       Endless(t) /\ Endless(u) /\ Top(stack[t])[2] = Top(stack[u])[2] => t = u

LEMMA LoopInit == Init => LoopInv
BY DEF Init, LoopInv, Endless

(* A push of a job's frame, by a thread that runs no loop. *)
LEMMA PushLoop ==
  ASSUME TypeOK, LoopInv, NEW t \in Threads, NEW f \in JobFrames, Push(t, f),
         ~Endless(t), taken' = taken
  PROVE  LoopInv'
<1>1. /\ stack[t] \in Seq(Frames) /\ f \in Frames
      /\ stack' = [stack EXCEPT ![t] = Append(stack[t], f)]
  BY DEF TypeOK, Push, Frames
<1>2. /\ Len(stack'[t]) = Len(stack[t]) + 1 /\ Len(stack[t]) \in Nat /\ stack'[t] # <<>>
      /\ \A i \in 1..Len(stack[t]) : stack'[t][i] = stack[t][i]
      /\ stack'[t][Len(stack[t]) + 1] = f
  BY <1>1, AppendProperties DEF TypeOK
<1>3. \A u \in Threads : u # t => stack'[u] = stack[u]
  BY <1>1 DEF TypeOK
<1>4. f[1] # "loop"
  BY FrameKinds
<1>5. ~Endless(t)'
  BY <1>2, <1>4 DEF Endless, Top
<1>6. ASSUME NEW i \in 1..Len(stack[t]) PROVE stack[t][i][1] # "loop"
  BY <1>1, <1>6, EmptySeq DEF LoopInv, Endless, Top
<1>7. \A i \in 1..Len(stack'[t]) : i \in 1..Len(stack[t]) \/ i = Len(stack[t]) + 1
  BY <1>2
<1>8. \A i \in 1..Len(stack'[t]) : stack'[t][i][1] # "loop"
  BY <1>2, <1>4, <1>6, <1>7
<1>9. \A u \in Threads : Endless(u)' => u # t /\ Endless(u) /\ stack'[u] = stack[u]
  BY <1>3, <1>5 DEF Endless
<1>10. \A u \in Threads : \A i \in 1..Len(stack'[u]) :
         stack'[u][i][1] = "loop" => i = Len(stack'[u])
  BY <1>3, <1>8 DEF LoopInv
<1> QED BY <1>9, <1>10 DEF LoopInv

LEMMA PopLoop ==
  ASSUME TypeOK, LoopInv, NEW t \in Threads, stack[t] # <<>>, Pop(t), taken' = taken
  PROVE  LoopInv'
<1>1. /\ stack[t] \in Seq(Frames)
      /\ stack' = [stack EXCEPT ![t] = SubSeq(stack[t], 1, Len(stack[t]) - 1)]
  BY DEF TypeOK, Pop, Frames
<1>2. /\ Len(stack'[t]) = Len(stack[t]) - 1 /\ Len(stack[t]) \in Nat /\ stack'[t] \in Seq(Frames)
      /\ \A i \in 1..Len(stack'[t]) : stack'[t][i] = stack[t][i]
  BY <1>1, Popped DEF TypeOK
<1>3. \A u \in Threads : u # t => stack'[u] = stack[u]
  BY <1>1 DEF TypeOK
<1>4. \A i \in 1..Len(stack'[t]) : stack'[t][i][1] # "loop"
  BY <1>2 DEF LoopInv
<1>5. ~Endless(t)'
  <2>1. CASE stack'[t] = <<>>
    BY <2>1 DEF Endless
  <2>2. CASE stack'[t] # <<>>
    <3>1. Len(stack'[t]) \in 1..Len(stack'[t])
      BY <1>2, <2>2, EmptySeq
    <3> QED BY <1>4, <3>1 DEF Endless, Top
  <2> QED BY <2>1, <2>2
<1>6. \A u \in Threads : Endless(u)' => u # t /\ Endless(u) /\ stack'[u] = stack[u]
  BY <1>3, <1>5 DEF Endless
<1>7. \A u \in Threads : \A i \in 1..Len(stack'[u]) :
         stack'[u][i][1] = "loop" => i = Len(stack'[u])
  BY <1>3, <1>4 DEF LoopInv
<1> QED BY <1>6, <1>7 DEF LoopInv

(* A thread that looks for work, or is in a job, runs no loop. *)
LEMMA LookersAreFree ==
  ASSUME NEW t \in Threads
  PROVE  /\ Looks(t) => ~Endless(t)
         /\ \A j \in Jobs : \A d : Runs(t, j, d) => ~Endless(t)
<1>1. \A j \in Jobs : \A d : Runs(t, j, d) => ~Endless(t)
  BY FrameKinds, RayonPoolAssumption DEF Runs, Endless, Jobs
<1>2. Looks(t) => ~Endless(t)
  BY <1>1 DEF Looks, Endless
<1> QED BY <1>1, <1>2

LEMMA LoopNext == TypeOK /\ LoopInv /\ [Next]_vars => LoopInv'
<1> SUFFICES ASSUME TypeOK, LoopInv, [Next]_vars PROVE LoopInv'
  OBVIOUS
<1>0. Loops \in Nat /\ taken \in Nat /\ spawned \in Nat /\ spawned <= Loops /\ Depth \in Nat \ {0}
  BY RayonPoolAssumption DEF TypeOK, Loops
<1>1. ASSUME UNCHANGED <<stack, taken>> PROVE LoopInv'
  BY <1>1 DEF LoopInv, Endless
<1>2. CASE main_step \/ UNCHANGED vars
  BY <1>1, <1>2 DEF main_step, spawn_loop, begin_scan, vars
<1>3. ASSUME NEW p \in Polls, spawn_poll(p) \/ ci_ends(p) PROVE LoopInv'
  BY <1>1, <1>3 DEF spawn_poll, ci_ends
<1>4. ASSUME NEW t \in Threads, take_loop(t) PROVE LoopInv'
  <2> DEFINE f == LoopFrame(taken + 1)
  <2>1. f \in Frames /\ f[1] = "loop" /\ f[2] = taken + 1 /\ ~Endless(t)
    BY <1>0, <1>4, FrameKinds, LookersAreFree DEF take_loop, Frames, LoopFrames
  <2>2. stack[t] \in Seq(Frames) /\ stack' = [stack EXCEPT ![t] = Append(stack[t], f)]
    BY <1>4 DEF take_loop, TypeOK, Push, Frames
  <2> HIDE DEF f
  <2>3. /\ Len(stack'[t]) = Len(stack[t]) + 1 /\ Len(stack[t]) \in Nat /\ stack'[t] # <<>>
        /\ \A i \in 1..Len(stack[t]) : stack'[t][i] = stack[t][i]
        /\ stack'[t][Len(stack[t]) + 1] = f
    BY <2>1, <2>2, AppendProperties DEF TypeOK
  <2>4. \A u \in Threads : u # t => stack'[u] = stack[u]
    BY <2>2 DEF TypeOK
  <2>5. ASSUME NEW i \in 1..Len(stack[t]) PROVE stack[t][i][1] # "loop"
    BY <2>1, <2>2, <2>5, EmptySeq DEF LoopInv, Endless, Top
  <2>6. Top(stack[t])' = f
    BY <2>3 DEF Top
  <2>7. \A u \in Threads : u # t => (Endless(u)' <=> Endless(u)) /\ stack'[u] = stack[u]
    BY <2>4 DEF Endless
  <2>8. taken' = taken + 1
    BY <1>4 DEF take_loop
  <2>9. \A u \in Threads : \A i \in 1..Len(stack'[u]) :
          stack'[u][i][1] = "loop" => i = Len(stack'[u])
    BY <2>3, <2>4, <2>5 DEF LoopInv
  <2>10. \A u \in Threads : u # t /\ Endless(u)' =>
           Top(stack'[u])[2] \in 1..taken /\ Top(stack'[u])[2] # taken + 1
    BY <1>0, <2>7 DEF LoopInv
  <2>11. \A u \in Threads : Endless(u)' => Top(stack'[u])[2] \in 1..taken'
    BY <1>0, <2>1, <2>6, <2>8, <2>10
  <2>12. \A u, v \in Threads :
           Endless(u)' /\ Endless(v)' /\ Top(stack'[u])[2] = Top(stack'[v])[2] => u = v
    BY <2>1, <2>6, <2>7, <2>10 DEF LoopInv
  <2> QED BY <2>9, <2>11, <2>12 DEF LoopInv
<1>5. ASSUME NEW t \in Threads, take_scan(t) PROVE LoopInv'
  <2>1. <<"scan", 0>> \in JobFrames
    BY <1>0 DEF JobFrames, Jobs
  <2> QED BY <1>5, <2>1, PushLoop, LookersAreFree DEF take_scan
<1>6. ASSUME NEW t \in Threads, NEW p \in Polls, take_poll(t, p) PROVE LoopInv'
  <2>1. <<p, 0>> \in JobFrames
    BY <1>0 DEF JobFrames, Jobs
  <2> QED BY <1>6, <2>1, PushLoop, LookersAreFree DEF take_poll
<1>7. ASSUME NEW t \in Threads, NEW j \in Jobs, NEW d \in 1..Depth,
             split(t, j, d) \/ take_piece(t, j, d) \/ return_piece(t, j, d)
      PROVE LoopInv'
  <2>1. CASE split(t, j, d)
    BY <1>1, <2>1 DEF split
  <2>2. CASE take_piece(t, j, d)
    <3>1. <<j, d>> \in JobFrames
      BY <1>0 DEF JobFrames
    <3> QED BY <2>2, <3>1, PushLoop, LookersAreFree DEF take_piece
  <2>3. CASE return_piece(t, j, d)
    BY <2>3, PopLoop DEF return_piece, Runs
  <2> QED BY <1>7, <2>1, <2>2, <2>3
<1>8. ASSUME NEW t \in Threads, NEW p \in Polls, end_round(t, p) PROVE LoopInv'
  <2>1. CASE ci[p] = "seen"
    BY <1>8, <2>1, PopLoop DEF end_round, Runs
  <2>2. CASE ci[p] # "seen"
    BY <1>1, <1>8, <2>2 DEF end_round
  <2> QED BY <2>1, <2>2
<1>9. ASSUME NEW t \in Threads, end_scan(t) PROVE LoopInv'
  BY <1>9, PopLoop DEF end_scan, Runs
<1> QED
  BY <1>2, <1>3, <1>4, <1>5, <1>6, <1>7, <1>8, <1>9 DEF Next, thread_step

(* The pigeonhole: one thread for each loop, so one more is left. *)
LEMMA MoreThreadsThanLoops == TypeOK /\ LoopInv => ThreadIsLeft
<1> SUFFICES ASSUME TypeOK, LoopInv, Cardinality(Threads) > Loops,
                    \A t \in Threads : Endless(t)
             PROVE  FALSE
  BY DEF ThreadIsLeft
<1> DEFINE loopOf == [t \in Threads |-> Top(stack[t])[2]]
<1>1. Loops \in Nat /\ taken \in 0..Loops
  BY RayonPoolAssumption DEF TypeOK, Loops
<1>2. loopOf \in [Threads -> 1..Loops]
  BY <1>1 DEF LoopInv
<1>3. IsFiniteSet(1..Loops) /\ Cardinality(1..Loops) = Loops
  BY <1>1, FS_Interval
<1>4. IsFiniteSet(Threads)
  BY RayonPoolAssumption
<1>5. Cardinality(1..Loops) < Cardinality(Threads)
  BY <1>1, <1>3, <1>4, FS_CardinalityType
<1>6. \E t, u \in Threads : t # u /\ loopOf[t] = loopOf[u]
  <2> HIDE DEF loopOf
  <2> QED BY <1>2, <1>3, <1>4, <1>5, FS_PigeonHole
<1> QED BY <1>6 DEF LoopInv

(* With more threads than loops one is left for polls and scans. *)
THEOREM SomeThreadIsLeft == Spec => []ThreadIsLeft
BY TypeCorrect, LoopInit, LoopNext, MoreThreadsThanLoops, PTL DEF Spec
=============================================================================
