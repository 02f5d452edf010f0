---------------------------- MODULE SeriesSource ----------------------------
(***************************************************************************)
(* What the trees "seen by watchcat" and "needs testing" promise those who *)
(* use them: a series is marked once, whoever marked it queues it at most  *)
(* once and after its mark, and it is taken from the queue.  Only a new    *)
(* start of the process, on an older state of both trees together, undoes  *)
(* any of this.  Watchcat implements the giving side and GitOps the taking *)
(* side.                                                                   *)
(***************************************************************************)
CONSTANT Series

VARIABLES
  now,      \* the two trees as the process has them: [seen, queue]
  saved,    \* as a new start would find them
  pending   \* series marked by this process and not queued by it so far

vars == <<now, saved, pending>>

Empty == [seen |-> {}, queue |-> {}]

Init == now = Empty /\ saved = Empty /\ pending = {}

Mark(s) ==
  /\ s \notin now.seen
  /\ now' = [seen |-> now.seen \cup {s}, queue |-> now.queue]
  /\ pending' = pending \cup {s}
  /\ UNCHANGED saved

Queue(s) ==
  /\ s \in pending
  /\ now' = [seen |-> now.seen, queue |-> now.queue \cup {s}]
  /\ pending' = pending \ {s}
  /\ UNCHANGED saved

Take(s) ==
  /\ s \in now.queue
  /\ now' = [seen |-> now.seen, queue |-> now.queue \ {s}]
  /\ UNCHANGED <<saved, pending>>

Save == saved' = now /\ UNCHANGED <<now, pending>>

Restart == now' = saved /\ pending' = {} /\ UNCHANGED saved

Next == Save \/ Restart \/ \E s \in Series : Mark(s) \/ Queue(s) \/ Take(s)

Spec == Init /\ [][Next]_vars
=============================================================================
