------------------------------ MODULE MC_GitOps ------------------------------
(* GitOps on small sets of model values, for the safety runs with symmetry. *)
EXTENDS GitOps, TLC

Symmetry == Permutations(Series) \cup Permutations(Workers) \cup Permutations(Remotes)
=============================================================================
