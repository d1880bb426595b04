--------------------------- MODULE MCComposeEditor ---------------------------
(***************************************************************************)
(* Users who race for the Compose file of a project, under its two names,  *)
(* or for its .env file.                                                   *)
(***************************************************************************)
EXTENDS ComposeEditor, TLC

TwoNames == <<"docker-compose.yml", "compose.yml">>
OneName  == <<".env">>

Nowhere == {}
Waiting == {"queue"}
OnDisk  == {"install"}

\* Of edits from outside, failed steps, crashes and clients that leave, two
\* happen.
FewFaults == edits' + faults' + crashes' + drops' <= 2

FewSpec == Init /\ [][Next /\ FewFaults]_vars

Symmetry == Permutations(Reqs) \cup Permutations(Texts)
=============================================================================
