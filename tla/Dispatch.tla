------------------------------ MODULE Dispatch ------------------------------
(***************************************************************************)
(* dispatch.rs wait_and_send and patchwork.rs send_check: the results the  *)
(* runners leave in "needs dispatch" become checks on Patchwork.           *)
(*                                                                         *)
(* An entry's value is not modelled: a key written again, before or after  *)
(* its removal, changes nothing, since the first check of a context is the *)
(* one that stands.  Any error in the loop is unwrapped by main and aborts *)
(* the process: reject where Patchwork refuses the entry and will refuse   *)
(* it again, and crash for every other one and for every other death.      *)
(***************************************************************************)
EXTENDS Database, Naturals

CONSTANTS
  Keys,        \* keys "github <series> <job>"; their order is the tree's order
  Contexts,    \* pairs of a series' last patch and an encoded check context
  ContextOf,   \* the context an entry is sent under
  Rejectable,  \* entries whose check Patchwork may refuse
  MaxCrashes   \* bound: how often the process may die

ASSUME DispatchAssumption ==
  /\ Keys \subseteq Nat \ {0}
  /\ ContextOf \in [Keys -> Contexts]
  /\ Rejectable \subseteq Keys
  /\ MaxCrashes \in Nat

VARIABLES
  token,     \* the configuration has a Patchwork token
  latePosts, \* may a POST its sender gave up on still reach Patchwork?
  rejected,  \* the entries whose check Patchwork refuses
  pc,        \* where the thread is: "iterating", "checking", "posting", "dropping"
  cursor,    \* db_key: the entry the iterator returned last, 0 for none
  todrop,    \* keys_to_drop
  posted,    \* checks of each context on Patchwork (not ours, never lost)
  late,      \* POSTs without a sender that Patchwork may still process
  crashes    \* how often the process has died, up to MaxCrashes

given == <<token, latePosts, rejected>>
vars == <<dbVars, given, pc, cursor, todrop, posted, late, crashes>>

Init ==
  /\ db = [t \in {NeedsDispatch} |-> {}] /\ disk = db
  /\ token \in BOOLEAN /\ latePosts \in BOOLEAN /\ rejected \in SUBSET Rejectable
  /\ pc = "iterating" /\ cursor = 0 /\ todrop = {}
  /\ posted = [c \in Contexts |-> 0] /\ late = [c \in Contexts |-> 0]
  /\ crashes = 0

Entries == db[NeedsDispatch]
Ahead == {k \in Entries : k > cursor}
FirstAhead(k) == k \in Ahead /\ \A j \in Ahead : k <= j
Reported(k) == posted[ContextOf[k]] > 0

-----------------------------------------------------------------------------
(* A runner's wait_for_completion inserts the result of a finished job. *)
finish_job(k) ==
  /\ k \notin Entries
  /\ Insert(NeedsDispatch, k)
  /\ UNCHANGED <<disk, given, pc, cursor, todrop, posted, late, crashes>>

(* Mutation: the entry is taken out of the tree before it is sent. *)
next_entry_removed(k) ==
  /\ pc = "iterating" /\ token /\ FirstAhead(k)
  /\ Remove(NeedsDispatch, k)
  /\ cursor' = k
  /\ pc' = "checking"
  /\ UNCHANGED <<disk, given, todrop, posted, late, crashes>>

(* Mutation: the pass begins at the other end of the tree. *)
next_entry_back(k) ==
  /\ pc = "iterating" /\ token /\ k \in Ahead /\ \A j \in Ahead : j <= k
  /\ cursor' = k
  /\ pc' = "checking"
  /\ UNCHANGED <<dbVars, given, todrop, posted, late, crashes>>

(* The iterator's next entry goes to send_check. *)
next_entry(k) ==
  /\ pc = "iterating" /\ token /\ FirstAhead(k)
  /\ cursor' = k
  /\ pc' = "checking"
  /\ UNCHANGED <<dbVars, given, todrop, posted, late, crashes>>

(* Mutation: the key of the entry before is the one pushed. *)
skip_entry_before(k) ==
  /\ pc = "iterating" /\ ~token /\ FirstAhead(k)
  /\ cursor' = k
  /\ todrop' = todrop \cup {cursor}
  /\ UNCHANGED <<dbVars, given, pc, posted, late, crashes>>

(* Without a token send_check returns Ok and the result is forgotten. *)
skip_entry(k) ==
  /\ pc = "iterating" /\ ~token /\ FirstAhead(k)
  /\ cursor' = k
  /\ todrop' = todrop \cup {k}
  /\ UNCHANGED <<dbVars, given, pc, posted, late, crashes>>

(* send_check returned Ok: keys_to_drop.push(db_key), and on to the next. *)
Sent ==
  /\ todrop' = todrop \cup {cursor}
  /\ pc' = "iterating"

(* Mutation: no look at the checks the patch has. *)
no_duplicate_protection ==
  /\ pc = "checking"
  /\ pc' = "posting" /\ UNCHANGED todrop
  /\ UNCHANGED <<dbVars, given, cursor, posted, late, crashes>>

(* GET the patch's checks: one with the same context ends send_check. *)
duplicate_protection ==
  /\ pc = "checking"
  /\ IF Reported(cursor) THEN Sent ELSE pc' = "posting" /\ UNCHANGED todrop
  /\ UNCHANGED <<dbVars, given, cursor, posted, late, crashes>>

(* POST the check; Patchwork's answer is a success. *)
post ==
  /\ pc = "posting" /\ cursor \notin rejected
  /\ posted' = [posted EXCEPT ![ContextOf[cursor]] = @ + 1]
  /\ Sent
  /\ UNCHANGED <<dbVars, given, cursor, late, crashes>>

end_of_entries ==
  /\ pc = "iterating" /\ Ahead = {}
  /\ pc' = "dropping"
  /\ UNCHANGED <<dbVars, given, cursor, todrop, posted, late, crashes>>

(* Mutation: the tree is cleared instead of the keys that were sent. *)
clear_tree(k) ==
  /\ pc = "dropping" /\ k \in todrop
  /\ db' = [db EXCEPT ![NeedsDispatch] = {}]
  /\ todrop' = {}
  /\ UNCHANGED <<disk, given, pc, cursor, posted, late, crashes>>

(* `for key in keys_to_drop { tree.remove(&key) }`, in any order. *)
drop_entry(k) ==
  /\ pc = "dropping" /\ k \in todrop
  /\ Remove(NeedsDispatch, k)
  /\ todrop' = todrop \ {k}
  /\ UNCHANGED <<disk, given, pc, cursor, posted, late, crashes>>

(* Mutation: the next pass goes on after the last key of this one. *)
wait_for_tree_keeps_cursor ==
  /\ pc = "dropping" /\ todrop = {} /\ Entries # {}
  /\ pc' = "iterating"
  /\ UNCHANGED <<dbVars, given, cursor, todrop, posted, late, crashes>>

(* wait_for_tree returns once the tree has entries (TreeWait). *)
wait_for_tree ==
  /\ pc = "dropping" /\ todrop = {} /\ Entries # {}
  /\ pc' = "iterating" /\ cursor' = 0
  /\ UNCHANGED <<dbVars, given, todrop, posted, late, crashes>>

-----------------------------------------------------------------------------
flush ==
  /\ disk # db
  /\ crashes < MaxCrashes \/ rejected # {}
  /\ Flush
  /\ UNCHANGED <<given, pc, cursor, todrop, posted, late, crashes>>

(* The process is started again. *)
Restart ==
  /\ Recover
  /\ pc' = "iterating" /\ cursor' = 0 /\ todrop' = {}
  /\ UNCHANGED given

(* Patchwork answers the POST with an error: bail, unwrap, abort. *)
reject ==
  /\ pc = "posting" /\ cursor \in rejected
  /\ Restart
  /\ UNCHANGED <<posted, late, crashes>>

(* The POST the process died in was never made, was processed without the  *)
(* answer arriving (the agent's 30 s read timeout), or is yet to be.       *)
AbandonedPost ==
  IF pc # "posting" \/ cursor \in rejected THEN UNCHANGED <<posted, late>>
  ELSE LET c == ContextOf[cursor] IN
       \/ UNCHANGED <<posted, late>>
       \/ posted' = [posted EXCEPT ![c] = @ + 1] /\ UNCHANGED late
       \/ latePosts /\ late' = [late EXCEPT ![c] = @ + 1] /\ UNCHANGED posted

(* The process dies of anything else. *)
crash ==
  /\ crashes < MaxCrashes
  /\ crashes' = crashes + 1
  /\ AbandonedPost
  /\ Restart

(* Patchwork gets round to a POST nobody waits for. *)
late_post(c) ==
  /\ late[c] > 0
  /\ late' = [late EXCEPT ![c] = @ - 1]
  /\ posted' = [posted EXCEPT ![c] = @ + 1]
  /\ UNCHANGED <<dbVars, given, pc, cursor, todrop, crashes>>

-----------------------------------------------------------------------------
wait_and_send ==
  \/ \E k \in Keys : next_entry(k) \/ skip_entry(k) \/ drop_entry(k)
  \/ duplicate_protection \/ post \/ reject \/ end_of_entries \/ wait_for_tree

Next ==
  \/ wait_and_send
  \/ \E k \in Keys : finish_job(k)
  \/ flush \/ crash
  \/ \E c \in Contexts : late_post(c)

Spec == Init /\ [][Next]_vars

(* The dispatch thread keeps running; every HTTP call ends at some time. *)
FairSpec == Spec /\ WF_vars(wait_and_send)

-----------------------------------------------------------------------------
TypeOK ==
  /\ db \in [{NeedsDispatch} -> SUBSET Keys] /\ disk \in [{NeedsDispatch} -> SUBSET Keys]
  /\ token \in BOOLEAN /\ latePosts \in BOOLEAN /\ rejected \subseteq Rejectable
  /\ pc \in {"iterating", "checking", "posting", "dropping"}
  /\ cursor \in Keys \cup {0} /\ (pc \in {"checking", "posting"} => cursor \in Keys)
  /\ todrop \subseteq Keys
  /\ posted \in [Contexts -> Nat] /\ late \in [Contexts -> Nat]
  /\ crashes \in 0..MaxCrashes

(***************************************************************************)
(* "duplicate protection" (patchwork.rs:176-195): no context gets a second *)
(* check, though the database may come back from a crash without the       *)
(* removals and everything in it is sent again.  Where a POST its sender   *)
(* gave up on can still be processed this fails (SpareChecksCostACrash).   *)
(***************************************************************************)
OneCheckPerContext == ~latePosts => \A c \in Contexts : posted[c] <= 1

(***************************************************************************)
(* Also when abandoned POSTs are processed late: a context has at most one *)
(* check more than the process has died, counting those still to come, so  *)
(* the duplicate protection (patchwork.rs:176-195) bounds what a restart   *)
(* that sends everything again can add.                                    *)
(***************************************************************************)
SpareChecksCostACrash == \A c \in Contexts : posted[c] + late[c] <= 1 + crashes

(***************************************************************************)
(* Short of a death, an entry leaves the tree only when Patchwork has a    *)
(* check under its context or there is no token; one that arrives while    *)
(* the pass is under way is not swept out with it (dispatch.rs:47-54).     *)
(***************************************************************************)
DroppedIsReported ==
  [][~(crash \/ reject) => \A k \in Entries \ Entries' : Reported(k) \/ ~token]_vars

(***************************************************************************)
(* The order send-then-remove keeps a result safe through a crash: what is *)
(* on disk and no longer in the tree has been reported (dispatch.rs:47-54).*)
(***************************************************************************)
DurableUntilReported ==
  token => \A k \in disk[NeedsDispatch] \ Entries : Reported(k)

(***************************************************************************)
(* Once the process stays up, every entry is reported and removed, also    *)
(* one inserted behind the iterator (dispatch.rs:22-56).                   *)
(***************************************************************************)
EntriesReported ==
  \A k \in Keys :
    crashes = MaxCrashes /\ rejected = {} /\ k \in Entries
      ~> k \notin Entries /\ (Reported(k) \/ ~token)

(***************************************************************************)
(* An entry Patchwork refuses ends the process on every start before       *)
(* anything is removed, and what is behind it in the tree may wait for     *)
(* ever.  What is ahead of it and on disk is still reported, each start    *)
(* getting that far again (dispatch.rs:47-54, patchwork.rs:208-214).       *)
(***************************************************************************)
AheadIsReported ==
  \A k \in Keys :
    crashes = MaxCrashes /\ k \in Entries \cap disk[NeedsDispatch] /\ (\A j \in rejected : k < j)
      ~> Reported(k) \/ ~token
=============================================================================
