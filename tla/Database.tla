------------------------------ MODULE Database ------------------------------
(***************************************************************************)
(* The sled database every part of snowpatch shares (main.rs `DB`) and the *)
(* one helper of database.rs that writes to it.                            *)
(*                                                                         *)
(* A tree is a map from keys to values; every tree modelled through this   *)
(* module is used as a queue whose values nothing branches on, so a tree   *)
(* is the set of its keys.  sled keeps writes in memory and flushes them   *)
(* in the background; snowpatch never calls flush().  A process that dies  *)
(* therefore comes back with the database as it was at some earlier        *)
(* moment: one consistent state of ALL the trees, because sled has a       *)
(* single log and a transaction is one entry of it.                        *)
(***************************************************************************)
VARIABLES
  db,     \* tree name -> set of keys, as the running process sees it
  disk    \* the state of db the next start of the process would find

dbVars == <<db, disk>>

(***************************************************************************)
(* The tree names, as the strings handed to DB.open_tree.  Every runner    *)
(* has the handle "github" (github.rs get_handle), so there is one queue   *)
(* and one working tree whatever the number of runners.                    *)
(***************************************************************************)
SeenByWatchcat    == "seen by watchcat"
NeedsTesting      == "needs testing"
AwaitingGitWorker == "awaiting git worker"
GitFailures       == "git failures"
RunnerQueue       == "github queue"
NeedsDispatch     == "needs dispatch"

(* Tree::insert and Tree::remove. *)
Insert(tree, key) == db' = [db EXCEPT ![tree] = @ \cup {key}]
Remove(tree, key) == db' = [db EXCEPT ![tree] = @ \ {key}]

(* Mutation: an insert into the new tree, and the old entry is left. *)
copy_to_new_queue(old, new, key) == key \in db[old] /\ Insert(new, key)

(***************************************************************************)
(* move_to_new_queue: both trees change in one transaction.  A missing key *)
(* makes the closure return ConflictableTransactionError::Conflict, on     *)
(* which sled runs the closure again: the caller never gets an error, it   *)
(* spins until the key is there.  The action is disabled meanwhile.        *)
(***************************************************************************)
move_to_new_queue(old, new, key) ==
  /\ key \in db[old]
  /\ db' = [db EXCEPT ![old] = @ \ {key}, ![new] = @ \cup {key}]

(* sled's background flush: what has been written so far will survive. *)
Flush ==
  /\ disk' = db
  /\ UNCHANGED db

(* sled::open after the process died. *)
Recover ==
  /\ db' = disk
  /\ UNCHANGED disk
=============================================================================
