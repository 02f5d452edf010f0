--------------------------- MODULE TreeWaitProofs ---------------------------
(***************************************************************************)
(* The consumer loop, for any set of keys: it never misses its wake-up,    *)
(* and each of its steps is a step of the work queue or leaves the queue   *)
(* alone.  That no entry stays for ever is liveness and is model-checked.  *)
(***************************************************************************)
EXTENDS TreeWait, TLAPS

LEMMA TypeInit == Init => TypeOK
BY DEF Init, TypeOK, Watching

LEMMA TypeNext == TypeOK /\ [Next]_vars => TypeOK'
<1> SUFFICES ASSUME TypeOK, [Next]_vars PROVE TypeOK'
  OBVIOUS
<1> USE DEF TypeOK, Watching
<1>1. ASSUME NEW k \in Keys, insert(k) PROVE TypeOK'
  BY <1>1 DEF insert
<1>2. ASSUME NEW k \in Keys, next_entry(k) PROVE TypeOK'
  BY <1>2 DEF next_entry
<1>3. CASE watch_prefix \/ is_empty \/ take_event
  BY <1>3 DEF watch_prefix, is_empty, take_event, Resume
<1>4. CASE UNCHANGED vars
  BY <1>4 DEF vars
<1> QED BY <1>1, <1>2, <1>3, <1>4 DEF Next, consumer

LEMMA WakeupInit == Init => NoLostWakeup
BY DEF Init, NoLostWakeup

(***************************************************************************)
(* The subscription is what makes this inductive: whatever is inserted     *)
(* after watch_prefix leaves an event, whatever was there before is seen   *)
(* by is_empty, and only the way out of wait_for_tree drops the event.     *)
(***************************************************************************)
LEMMA WakeupNext == NoLostWakeup /\ [Next]_vars => NoLostWakeup'
<1> SUFFICES ASSUME NoLostWakeup, [Next]_vars PROVE NoLostWakeup'
  OBVIOUS
<1> USE DEF NoLostWakeup
<1>1. ASSUME NEW k \in Keys, insert(k) PROVE NoLostWakeup'
  BY <1>1 DEF insert, Watching
<1>2. ASSUME NEW k \in Keys, next_entry(k) PROVE NoLostWakeup'
  BY <1>2 DEF next_entry
<1>3. CASE watch_prefix \/ is_empty \/ take_event
  BY <1>3 DEF watch_prefix, is_empty, take_event, Resume
<1>4. CASE UNCHANGED vars
  BY <1>4 DEF vars
<1> QED BY <1>1, <1>2, <1>3, <1>4 DEF Next, consumer

(* Types of the consumer loop, in every reachable state. *)
THEOREM TypeCorrect == Spec => []TypeOK
BY TypeInit, TypeNext, PTL DEF Spec

(***************************************************************************)
(* A consumer that sleeps on a tree with entries has an event to wake it   *)
(* (database.rs:46-53).                                                    *)
(***************************************************************************)
THEOREM WakeupNotLost == Spec => []NoLostWakeup
BY WakeupInit, WakeupNext, PTL DEF Spec

(***************************************************************************)
(* Safety half of ImplementsWorkQueue: entries enter and leave the tree    *)
(* one at a time, and nothing else happens to it.                          *)
(***************************************************************************)
THEOREM StepsOfWorkQueue == Spec => WQ!Init /\ [][WQ!Next]_tree
<1>1. Init => WQ!Init
  BY DEF Init, WQ!Init
<1>2. [Next]_vars => [WQ!Next]_tree
  <2> SUFFICES ASSUME [Next]_vars PROVE [WQ!Next]_tree
    OBVIOUS
  <2>1. ASSUME NEW k \in Keys, insert(k) PROVE WQ!Produce(k)
    BY <2>1 DEF insert, WQ!Produce
  <2>2. ASSUME NEW k \in Keys, next_entry(k) PROVE WQ!Consume(k)
    BY <2>2 DEF next_entry, Ahead, WQ!Consume
  <2>3. CASE watch_prefix \/ is_empty \/ take_event
    BY <2>3 DEF watch_prefix, is_empty, take_event, Resume
  <2>4. CASE UNCHANGED vars
    BY <2>4 DEF vars
  <2> QED BY <2>1, <2>2, <2>3, <2>4 DEF Next, consumer, WQ!Next
<1> QED BY <1>1, <1>2, PTL DEF Spec
=============================================================================
