----------------------------- MODULE MC_Runner -----------------------------
(* Runner with a repository that has workflows and one that has none. *)
EXTENDS Runner

MCWorkflowsOf == [r \in Repos |-> IF r = "linux-ci" THEN Workflows ELSE {}]

Ended(c, f, s, a) ==
  [status |-> "completed", conclusion |-> c, failures |-> f, setup |-> s, annotated |-> a]
MCEndings == {Ended("success", 0, FALSE, TRUE), Ended("failure", 1, FALSE, FALSE)}

(* All that ever goes wrong is "Set up job". *)
MCSetupEndings == {Ended("success", 0, FALSE, FALSE), Ended("failure", 1, TRUE, FALSE)}
=============================================================================
