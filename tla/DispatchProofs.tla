--------------------------- MODULE DispatchProofs ---------------------------
(***************************************************************************)
(* The safety properties of Dispatch, for any keys, contexts and number of *)
(* crashes.  What they rest on is that only one thread posts: between its  *)
(* look at the patch's checks and its own POST nothing else can add one    *)
(* (PostingInv), and that keys_to_drop holds reported keys only (DropInv). *)
(***************************************************************************)
EXTENDS Dispatch, TLAPS

(* With no POST outstanding, the context about to be posted has no check. *)
PostingInv ==
  ~latePosts =>
  /\ \A c \in Contexts : late[c] = 0
  /\ pc = "posting" => posted[ContextOf[cursor]] = 0

(* Whatever is to be dropped, or was on disk and is gone, is reported. *)
DropInv == token => \A k \in todrop : Reported(k)

LEMMA TypeInit == Init => TypeOK
BY DispatchAssumption DEF Init, TypeOK

LEMMA TypeNext == TypeOK /\ [Next]_vars => TypeOK'
<1> SUFFICES ASSUME TypeOK, [Next]_vars PROVE TypeOK'
  OBVIOUS
<1> USE DispatchAssumption DEF TypeOK, dbVars, given
<1>1. ASSUME NEW k \in Keys, next_entry(k) \/ skip_entry(k) PROVE TypeOK'
  BY <1>1 DEF next_entry, skip_entry
<1>2. ASSUME NEW k \in Keys, finish_job(k) PROVE TypeOK'
  BY <1>2 DEF finish_job, Insert
<1>3. ASSUME NEW k \in Keys, drop_entry(k) PROVE TypeOK'
  BY <1>3 DEF drop_entry, Remove
<1>4. CASE duplicate_protection
  BY <1>4 DEF duplicate_protection, Sent
<1>5. CASE post
  <2>1. posted' \in [Contexts -> Nat]
    BY <1>5 DEF post
  <2> QED BY <1>5, <2>1 DEF post, Sent
<1>6. CASE end_of_entries \/ wait_for_tree
  BY <1>6 DEF end_of_entries, wait_for_tree
<1>7. CASE flush
  BY <1>7 DEF flush, Flush
<1>r. CASE reject
  BY <1>r DEF reject, Restart, Recover
<1>8. CASE crash
  <2>1. posted' \in [Contexts -> Nat] /\ late' \in [Contexts -> Nat]
    BY <1>8 DEF crash, AbandonedPost
  <2>2. crashes' \in 0..MaxCrashes
    BY <1>8 DEF crash
  <2> QED BY <1>8, <2>1, <2>2 DEF crash, Restart, Recover
<1>9. ASSUME NEW c \in Contexts, late_post(c) PROVE TypeOK'
  <2>1. posted' \in [Contexts -> Nat] /\ late' \in [Contexts -> Nat]
    BY <1>9 DEF late_post
  <2> QED BY <1>9, <2>1 DEF late_post
<1>10. CASE UNCHANGED vars
  BY <1>10 DEF vars
<1> QED
  BY <1>1, <1>2, <1>3, <1>4, <1>5, <1>6, <1>7, <1>8, <1>9, <1>10, <1>r DEF Next, wait_and_send

-----------------------------------------------------------------------------
(***************************************************************************)
(* At most one check for each context.                                     *)
(***************************************************************************)
LEMMA OnceInit == Init => PostingInv /\ OneCheckPerContext
BY DEF Init, PostingInv, OneCheckPerContext

LEMMA OnceNext ==
  TypeOK /\ PostingInv /\ OneCheckPerContext /\ [Next]_vars
    => PostingInv' /\ OneCheckPerContext'
<1> SUFFICES ASSUME TypeOK, PostingInv, OneCheckPerContext, [Next]_vars
             PROVE  PostingInv' /\ OneCheckPerContext'
  OBVIOUS
<1> USE DispatchAssumption DEF PostingInv, OneCheckPerContext, given
<1>1. ASSUME NEW k \in Keys, next_entry(k) \/ skip_entry(k) \/ finish_job(k) \/ drop_entry(k)
      PROVE  PostingInv' /\ OneCheckPerContext'
  BY <1>1 DEF next_entry, skip_entry, finish_job, drop_entry
<1>2. CASE duplicate_protection
  <2>1. posted[ContextOf[cursor]] \in Nat
    BY <1>2 DEF TypeOK, duplicate_protection
  <2> QED BY <1>2, <2>1 DEF duplicate_protection, Sent, Reported
<1>3. CASE post
  BY <1>3 DEF post, Sent, TypeOK
<1>4. CASE end_of_entries \/ wait_for_tree \/ flush
  BY <1>4 DEF end_of_entries, wait_for_tree, flush
<1>5. CASE crash \/ reject
  BY <1>5 DEF crash, reject, Restart, AbandonedPost, TypeOK
<1>6. ASSUME NEW c \in Contexts, late_post(c) PROVE latePosts /\ latePosts'
  BY <1>6 DEF late_post
<1>7. CASE UNCHANGED vars
  BY <1>7 DEF vars
<1> QED BY <1>1, <1>2, <1>3, <1>4, <1>5, <1>6, <1>7 DEF Next, wait_and_send

(* The same of a death that is not counted: of another part of the process. *)
LEMMA OnceDeath ==
  ASSUME TypeOK, PostingInv, OneCheckPerContext, AbandonedPost, Restart, UNCHANGED crashes
  PROVE  TypeOK' /\ PostingInv' /\ OneCheckPerContext'
<1> USE DispatchAssumption DEF given
<1>1. posted' \in [Contexts -> Nat] /\ late' \in [Contexts -> Nat]
  BY DEF AbandonedPost, TypeOK
<1>2. TypeOK'
  BY <1>1 DEF Restart, Recover, TypeOK
<1>3. PostingInv' /\ OneCheckPerContext'
  BY DEF PostingInv, OneCheckPerContext, Restart, AbandonedPost, TypeOK
<1> QED BY <1>2, <1>3

-----------------------------------------------------------------------------
(***************************************************************************)
(* How many checks late POSTs can add.                                     *)
(***************************************************************************)
(* Every request made for a context so far cost a crash, except the one    *)
(* whose answer arrived; while that one is to be made it is not counted.   *)
SpareInv ==
  /\ \A c \in Contexts : posted[c] = 0 => late[c] <= crashes
  /\ pc = "posting" =>
       posted[ContextOf[cursor]] + late[ContextOf[cursor]] <= crashes

LEMMA SpareInit == Init => SpareInv /\ SpareChecksCostACrash
BY DispatchAssumption DEF Init, SpareInv, SpareChecksCostACrash

LEMMA SpareNext ==
  TypeOK /\ SpareInv /\ SpareChecksCostACrash /\ [Next]_vars
    => SpareInv' /\ SpareChecksCostACrash'
<1> SUFFICES ASSUME TypeOK, SpareInv, SpareChecksCostACrash, [Next]_vars
             PROVE  SpareInv' /\ SpareChecksCostACrash'
  OBVIOUS
<1>t. /\ \A c \in Contexts : posted[c] \in Nat /\ late[c] \in Nat
      /\ crashes \in Nat
      /\ pc = "posting" => cursor \in Keys /\ ContextOf[cursor] \in Contexts
  BY DispatchAssumption DEF TypeOK
<1> USE DEF SpareInv, SpareChecksCostACrash
<1>1. ASSUME NEW k \in Keys, next_entry(k) \/ skip_entry(k) \/ finish_job(k) \/ drop_entry(k)
      PROVE  SpareInv' /\ SpareChecksCostACrash'
  BY <1>1 DEF next_entry, skip_entry, finish_job, drop_entry
<1>2. CASE duplicate_protection
  <2>1. cursor \in Keys /\ ContextOf[cursor] \in Contexts
    BY <1>2, DispatchAssumption DEF duplicate_protection, TypeOK
  <2> QED BY <1>2, <2>1, <1>t DEF duplicate_protection, Sent, Reported
<1>3. CASE post
  <2> DEFINE c0 == ContextOf[cursor]
  <2>1. c0 \in Contexts /\ posted[c0] + late[c0] <= crashes
    BY <1>3, <1>t DEF post
  <2>2. posted' = [posted EXCEPT ![c0] = @ + 1] /\ UNCHANGED <<late, crashes>> /\ pc' # "posting"
    BY <1>3 DEF post, Sent
  <2>3. \A c \in Contexts : posted'[c] = IF c = c0 THEN posted[c] + 1 ELSE posted[c]
    BY <2>2 DEF TypeOK
  <2> QED BY <2>1, <2>2, <2>3, <1>t
<1>4. CASE end_of_entries \/ wait_for_tree \/ flush
  BY <1>4 DEF end_of_entries, wait_for_tree, flush
<1>5. CASE crash
  <2>1. crashes' = crashes + 1 /\ pc' # "posting"
    BY <1>5 DEF crash, Restart
  <2>2. \A c \in Contexts :
          /\ posted'[c] + late'[c] <= posted[c] + late[c] + 1
          /\ posted'[c] = 0 => posted[c] = 0
    BY <1>5, <1>t DEF crash, AbandonedPost, TypeOK
  <2>3. \A c \in Contexts : posted'[c] \in Nat /\ late'[c] \in Nat
    BY TypeNext DEF TypeOK
  <2> QED BY <2>1, <2>2, <2>3, <1>t
<1>6. ASSUME NEW c0 \in Contexts, late_post(c0) PROVE SpareInv' /\ SpareChecksCostACrash'
  <2>1. UNCHANGED <<pc, cursor, crashes>>
    BY <1>6 DEF late_post
  <2>2. \A c \in Contexts :
          /\ posted'[c] + late'[c] = posted[c] + late[c]
          /\ posted'[c] = 0 => posted[c] = 0 /\ late'[c] = late[c]
    BY <1>6, <1>t DEF late_post, TypeOK
  <2> QED BY <2>1, <2>2, <1>t
<1>7. CASE UNCHANGED vars
  BY <1>7 DEF vars
<1>8. CASE reject
  BY <1>8 DEF reject, Restart
<1> QED BY <1>1, <1>2, <1>3, <1>4, <1>5, <1>6, <1>7, <1>8 DEF Next, wait_and_send

-----------------------------------------------------------------------------
(***************************************************************************)
(* Nothing is dropped unreported.                                          *)
(***************************************************************************)
LEMMA DropInit == Init => DropInv /\ DurableUntilReported
BY DEF Init, DropInv, DurableUntilReported, Entries

(* Patchwork keeps its checks. *)
LEMMA ReportsStay == TypeOK /\ [Next]_vars => \A k \in Keys : Reported(k) => Reported(k)'
<1> SUFFICES ASSUME TypeOK, [Next]_vars, NEW k \in Keys, Reported(k) PROVE Reported(k)'
  OBVIOUS
<1> USE DispatchAssumption DEF TypeOK, Reported
<1>1. CASE UNCHANGED posted
  BY <1>1
<1>2. CASE post
  BY <1>2 DEF post
<1>3. CASE crash
  BY <1>3 DEF crash, AbandonedPost
<1>4. ASSUME NEW c \in Contexts, late_post(c) PROVE Reported(k)'
  BY <1>4 DEF late_post
<1> QED BY <1>1, <1>2, <1>3, <1>4
        DEF Next, wait_and_send, vars, next_entry, skip_entry, drop_entry, finish_job,
            duplicate_protection, end_of_entries, wait_for_tree, flush, reject

LEMMA DropNext ==
  TypeOK /\ DropInv /\ DurableUntilReported /\ [Next]_vars => DropInv' /\ DurableUntilReported'
<1> SUFFICES ASSUME TypeOK, DropInv, DurableUntilReported, [Next]_vars
             PROVE  DropInv' /\ DurableUntilReported'
  OBVIOUS
<1>r. \A k \in Keys : Reported(k) => Reported(k)'
  BY ReportsStay
<1>t. todrop \subseteq Keys /\ disk[NeedsDispatch] \subseteq Keys
  BY DEF TypeOK
<1> USE DEF DropInv, DurableUntilReported, Entries, given
<1>1. ASSUME NEW k \in Keys, next_entry(k) \/ skip_entry(k) PROVE DropInv' /\ DurableUntilReported'
  BY <1>1, <1>r, <1>t DEF next_entry, skip_entry, dbVars
<1>2. ASSUME NEW k \in Keys, finish_job(k) PROVE DropInv' /\ DurableUntilReported'
  BY <1>2, <1>r, <1>t DEF finish_job, Insert, TypeOK
<1>3. ASSUME NEW k \in Keys, drop_entry(k) PROVE DropInv' /\ DurableUntilReported'
  <2>1. db'[NeedsDispatch] = db[NeedsDispatch] \ {k}
    BY <1>3 DEF drop_entry, Remove, TypeOK
  <2> QED BY <1>3, <2>1, <1>r, <1>t DEF drop_entry
<1>4. CASE duplicate_protection
  BY <1>4, <1>r, <1>t DEF duplicate_protection, Sent, TypeOK, dbVars
<1>5. CASE post
  <2>1. cursor \in Keys /\ ContextOf[cursor] \in Contexts
    BY <1>5, DispatchAssumption DEF post, TypeOK
  <2>2. posted'[ContextOf[cursor]] > 0
    BY <1>5, <2>1 DEF post, TypeOK
  <2> QED BY <1>5, <2>1, <2>2, <1>r, <1>t DEF post, Sent, dbVars, Reported
<1>6. CASE end_of_entries \/ wait_for_tree
  BY <1>6, <1>r, <1>t DEF end_of_entries, wait_for_tree, dbVars
<1>7. CASE flush
  BY <1>7, <1>r, <1>t DEF flush, Flush
<1>8. CASE crash \/ reject
  BY <1>8 DEF crash, reject, Restart, Recover
<1>9. ASSUME NEW c \in Contexts, late_post(c) PROVE DropInv' /\ DurableUntilReported'
  BY <1>9, <1>r, <1>t DEF late_post, dbVars
<1>10. CASE UNCHANGED vars
  BY <1>10 DEF vars, dbVars, Reported
<1> QED BY <1>1, <1>2, <1>3, <1>4, <1>5, <1>6, <1>7, <1>8, <1>9, <1>10 DEF Next, wait_and_send

-----------------------------------------------------------------------------
(* In every reachable state the variables have their types. *)
THEOREM TypeCorrect == Spec => []TypeOK
BY TypeInit, TypeNext, PTL DEF Spec

(***************************************************************************)
(* Unless an abandoned POST is processed after the restart, no context of  *)
(* any patch gets a second check (patchwork.rs:176-195).                   *)
(***************************************************************************)
THEOREM ReportedOnce == Spec => []OneCheckPerContext
<1>1. Init => TypeOK /\ PostingInv /\ OneCheckPerContext
  BY TypeInit, OnceInit
<1>2. TypeOK /\ PostingInv /\ OneCheckPerContext /\ [Next]_vars
        => (TypeOK /\ PostingInv /\ OneCheckPerContext)'
  BY TypeNext, OnceNext
<1> QED BY <1>1, <1>2, PTL DEF Spec

(***************************************************************************)
(* Whatever abandoned POSTs do, n deaths of the process leave a context    *)
(* with at most n + 1 checks (patchwork.rs:176-195).                       *)
(***************************************************************************)
THEOREM SpareChecksBounded == Spec => []SpareChecksCostACrash
<1>1. Init => TypeOK /\ SpareInv /\ SpareChecksCostACrash
  BY TypeInit, SpareInit
<1>2. TypeOK /\ SpareInv /\ SpareChecksCostACrash /\ [Next]_vars
        => (TypeOK /\ SpareInv /\ SpareChecksCostACrash)'
  BY TypeNext, SpareNext
<1> QED BY <1>1, <1>2, PTL DEF Spec

LEMMA DropInductive == Spec => [](TypeOK /\ DropInv /\ DurableUntilReported)
<1>1. Init => TypeOK /\ DropInv /\ DurableUntilReported
  BY TypeInit, DropInit
<1>2. TypeOK /\ DropInv /\ DurableUntilReported /\ [Next]_vars
        => (TypeOK /\ DropInv /\ DurableUntilReported)'
  BY TypeNext, DropNext
<1> QED BY <1>1, <1>2, PTL DEF Spec

(***************************************************************************)
(* A result that reached the disk is in the tree or on Patchwork, however  *)
(* often the process dies (dispatch.rs:47-54).                             *)
(***************************************************************************)
THEOREM DurableResults == Spec => []DurableUntilReported
<1> QED BY DropInductive, PTL

(***************************************************************************)
(* Short of a death no entry leaves the tree unreported (dispatch.rs:52).  *)
(***************************************************************************)
THEOREM DropsAreReported == Spec => DroppedIsReported
<1>1. ASSUME TypeOK, DropInv, [Next]_vars, ~(crash \/ reject), NEW k \in Entries \ Entries'
      PROVE  Reported(k) \/ ~token
  <2>1. PICK j \in Keys : drop_entry(j)
    <3>1. db' # db
      BY <1>1 DEF Entries
    <3>2. \A j \in Keys : ~finish_job(j)
      BY <1>1 DEF Entries, finish_job, Insert, TypeOK
    <3> QED BY <1>1, <3>1, <3>2
            DEF Next, wait_and_send, vars, dbVars, next_entry, skip_entry, duplicate_protection,
                post, end_of_entries, wait_for_tree, flush, Flush, late_post
  <2>2. k = j
    BY <1>1, <2>1 DEF drop_entry, Remove, Entries, TypeOK
  <2> QED BY <1>1, <2>1, <2>2 DEF drop_entry, DropInv
<1>2. TypeOK /\ DropInv /\ [Next]_vars =>
        [~(crash \/ reject) => \A k \in Entries \ Entries' : Reported(k) \/ ~token]_vars
  BY <1>1
<1> QED BY <1>2, DropInductive, PTL DEF Spec, DroppedIsReported
=============================================================================
