-------------------------- MODULE MCProjectVersions --------------------------
(* Instances of ProjectVersions for TLC. *)
EXTENDS ProjectVersions, TLC

Form(j, i, s, a) == [jar |-> j, image |-> i, stop |-> s, restart |-> a]

\* A JAR with the stack stopped and started, and an image without.
TwoForms == {Form(TRUE, FALSE, TRUE, TRUE), Form(FALSE, TRUE, FALSE, TRUE)}

\* A JAR, the stack stopped and started.
JarForm == {Form(TRUE, FALSE, TRUE, TRUE)}

AnyStep == Steps

\* Every step but the two statements of mark_current.
AllButMark == Steps \ {"clear", "select", "mark"}

Symmetry == Permutations(Reqs)
=============================================================================
