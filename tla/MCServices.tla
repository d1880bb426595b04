----------------------------- MODULE MCServices -----------------------------
(* Services with two workers, at home at two of the addresses. *)
EXTENDS Services, TLC

CONSTANTS w1, w2, a1, a2

AtHome == w1 :> a1 @@ w2 :> a2
=============================================================================
