------------------------------ MODULE MCUpkeep ------------------------------
(* Upkeep with one file that two tabs upload, one worker that images go to, *)
(* and two that join.                                                       *)
EXTENDS Upkeep, TLC

CONSTANTS u1, tab1, tab2, m, w1, w2, a1, a2

OneFile     == tab1 :> u1 @@ tab2 :> u1
ThreePieces == u1 :> 3

\* The file that is there before has another size.
Shorter == <<<<None, 1>>>>

TwoNodes == <<m, w1>>

AtHome == w1 :> a1 @@ w2 :> a2
=============================================================================
