---------------------------- MODULE MC_Snowpatch ----------------------------
(* Snowpatch with one series, one runner and one workflow. *)
EXTENDS Snowpatch

MCWorkflowsOf == [r \in Remotes |-> Workflows]
MCKeyOf == [s \in Series |-> [w \in Workflows |-> 1]]
MCContextOf == [k \in Keys |-> k]

Ended(c, f) ==
  [status |-> "completed", conclusion |-> c, failures |-> f, setup |-> FALSE, annotated |-> FALSE]
MCEndings == {Ended("success", 0), Ended("failure", 1)}
=============================================================================
