----------------------------- MODULE MCSessions -----------------------------
(* Users who race for the .env file of a project, or for an account.       *)
EXTENDS Sessions, TLC

OneName == <<".env">>
Waiting == {"queue"}

\* Three save; of edits from outside, failed steps, crashes and clients that
\* leave, two happen.  The node restarts before the third request.
Few ==
    /\ Cardinality({r \in Reqs : pc'[r] # "idle"}) <= 3
    /\ edits' + faults' + crashes' + drops' <= 2
    /\ restarts' # restarts => Cardinality({r \in Reqs : step[r] # "idle"}) <= 2

FewSpec == UsersInit /\ [][UsersNext /\ Few]_all

Symmetry == Permutations(Reqs) \cup Permutations(Texts)
=============================================================================
