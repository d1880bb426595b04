----------------------------- MODULE MCResources ----------------------------
(* Resources with two workers, two storages and two containers of two nodes. *)
EXTENDS Resources, TLC

CONSTANTS m, w1

Visited == <<[node |-> m, jar |-> "a"], [node |-> w1, jar |-> "b"]>>
=============================================================================
