----------------------------- MODULE WorkQueue -----------------------------
(***************************************************************************)
(* What every consumer loop of snowpatch promises of the tree it serves:   *)
(* entries come in at any time, are taken one at a time in no stated       *)
(* order, and none is left in the tree for ever.  GitOps (ingest) and      *)
(* Dispatch use their trees through this contract; TreeWait implements it. *)
(***************************************************************************)
CONSTANT Keys
VARIABLE queue

Init == queue = {}

Produce(k) == k \notin queue /\ queue' = queue \cup {k}
Consume(k) == k \in queue /\ queue' = queue \ {k}

Next == \E k \in Keys : Produce(k) \/ Consume(k)

Spec == Init /\ [][Next]_queue /\ \A k \in Keys : WF_queue(Consume(k))
=============================================================================
