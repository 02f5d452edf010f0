------------------------------ MODULE TreeWait ------------------------------
(***************************************************************************)
(* database.rs wait_for_tree, inside the loop every consumer is built as   *)
(* (git.rs ingest, runner.rs new_job_watcher):                             *)
(*                                                                         *)
(*    loop { for entry in tree.iter() { take it }  wait_for_tree(&tree) }  *)
(*                                                                         *)
(* sled is external: its iterator looks up the next key after the last one *)
(* it returned, so an insert behind it is missed and one ahead of it seen, *)
(* and an insert hands an event to the subscribers there are at that time. *)
(***************************************************************************)
EXTENDS Naturals

CONSTANT Keys   \* keys of the tree; their order is the order of iteration

ASSUME KeysAssumption == Keys \subseteq Nat \ {0}

VARIABLES
  tree,     \* the keys in the tree
  pc,       \* "iterating", "subscribed" (to the tree's events) or "blocked"
  cursor,   \* the last key the iterator returned, 0 for none
  event     \* an event is waiting for the subscriber

vars == <<tree, pc, cursor, event>>

Init == tree = {} /\ pc = "iterating" /\ cursor = 0 /\ event = FALSE

(* There is a subscriber: sub lives from watch_prefix to the return. *)
Watching == pc \in {"subscribed", "blocked"}

-----------------------------------------------------------------------------
(* Some other thread puts an entry into the tree. *)
insert(k) ==
  /\ k \notin tree
  /\ tree' = tree \cup {k}
  /\ event' = (event \/ Watching)
  /\ UNCHANGED <<pc, cursor>>

Ahead == {k \in tree : k > cursor}

(* The loop's body: the iterator's next entry is moved out of the tree. *)
next_entry(k) ==
  /\ pc = "iterating"
  /\ k \in Ahead /\ \A j \in Ahead : k <= j
  /\ tree' = tree \ {k}
  /\ cursor' = k
  /\ UNCHANGED <<pc, event>>

(* The iterator is exhausted; wait_for_tree calls watch_prefix. *)
watch_prefix ==
  /\ pc = "iterating" /\ Ahead = {}
  /\ pc' = "subscribed"
  /\ event' = FALSE
  /\ UNCHANGED <<tree, cursor>>

(* Mutation: the loop goes on after the key it handled last. *)
ResumeAfterCursor == pc' = "iterating" /\ event' = FALSE /\ UNCHANGED <<tree, cursor>>

(* Mutation: the subscription outlives the wait it was made for. *)
ResumeSubscribed == pc' = "iterating" /\ cursor' = 0 /\ UNCHANGED <<tree, event>>

(* wait_for_tree returns, sub is dropped, and the loop iterates afresh. *)
Resume == pc' = "iterating" /\ cursor' = 0 /\ event' = FALSE /\ UNCHANGED tree

(* Mutation: the test for entries inserted before the subscription is gone. *)
is_empty_skipped ==
  /\ pc = "subscribed"
  /\ pc' = "blocked" /\ UNCHANGED <<tree, cursor, event>>

(* `if !tree.is_empty() { return; }`, with sub registered. *)
is_empty ==
  /\ pc = "subscribed"
  /\ IF tree # {} THEN Resume ELSE pc' = "blocked" /\ UNCHANGED <<tree, cursor, event>>

(* `for _ in sub.take(1) {}` blocks until there is an event. *)
take_event ==
  /\ pc = "blocked" /\ event
  /\ Resume

consumer == (\E k \in Keys : next_entry(k)) \/ watch_prefix \/ is_empty \/ take_event

Next == consumer \/ \E k \in Keys : insert(k)

(* The consumer's thread keeps running; nothing obliges anyone to insert. *)
Spec == Init /\ [][Next]_vars /\ WF_vars(consumer)

-----------------------------------------------------------------------------
(* Types; an event exists only while there is a subscriber for it. *)
TypeOK ==
  /\ tree \subseteq Keys /\ cursor \in Keys \cup {0} /\ event \in BOOLEAN
  /\ pc \in {"iterating", "subscribed", "blocked"}
  /\ event => Watching

(***************************************************************************)
(* A consumer never sleeps on a tree that has entries without an event on  *)
(* its way: "we need to do this after the subscriber is configured to      *)
(* avoid any potential race conditions" (database.rs:46-47).               *)
(***************************************************************************)
NoLostWakeup == pc = "blocked" /\ tree # {} => event

(***************************************************************************)
(* The loop implements the work queue, liveness included: every entry is   *)
(* taken, also one inserted behind the iterator or while the consumer is   *)
(* on its way to sleep (database.rs:43-53, git.rs:158-174).                *)
(***************************************************************************)
WQ == INSTANCE WorkQueue WITH queue <- tree

ImplementsWorkQueue == WQ!Spec
=============================================================================
