---------------------------- MODULE VersionHistory ----------------------------
(***************************************************************************)
(* What the list of versions of a project promises, whatever runs at the   *)
(* same time and whatever fails: it opens with the project, it grows by    *)
(* one version at a time, numbered v1, v2, v3, ... without a gap, no       *)
(* version is renumbered or taken out, and it goes with the project.       *)
(***************************************************************************)
EXTENDS Naturals, FiniteSets

CONSTANT Ids        \* the names versions can have

VARIABLES open,     \* the project is registered
          history   \* the versions listed, as pairs <<number, name>>

hvars == <<open, history>>

Init == open = FALSE /\ history = {}

Open == ~open /\ open' = TRUE /\ UNCHANGED history

Append(v) ==
    /\ open /\ \A e \in history : e[2] # v
    /\ history' = history \cup {<<Cardinality(history) + 1, v>>}
    /\ UNCHANGED open

Close == open /\ open' = FALSE /\ history' = {}

Next == Open \/ (\E v \in Ids : Append(v)) \/ Close

Spec == Init /\ [][Next]_hvars
=============================================================================
