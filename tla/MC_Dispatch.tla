---------------------------- MODULE MC_Dispatch ----------------------------
(* Dispatch on three entries, two of which are sent under one context. *)
EXTENDS Dispatch

MCKeys == 1..3
MCContexts == {"p1 build", "p1 boot"}
MCContextOf == <<"p1 build", "p1 boot", "p1 build">>
=============================================================================
