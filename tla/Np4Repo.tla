------------------------------ MODULE Np4Repo ------------------------------
(***************************************************************************)
(* The update of a project from the files of the repository                *)
(* (src/src/api.rs update_np4_from_repo).  What was applied last is kept   *)
(* as a manifest beside the projects, and a request whose files have the   *)
(* same stamps is answered that there is nothing to update.  The project's *)
(* lock is held; the repository, filled by the synchronisation, has none.  *)
(***************************************************************************)
EXTENDS Naturals, Sequences

CONSTANTS
    None,
    Contents,           \* what the repository's files may be
    Calls,
    MaxCalls, MaxVersions, MaxChanges, MaxTroubles

VARIABLES
    repo,               \* the files of the repository
    versions, current,  \* what each version of the project holds; the current one (0: none)
    live,               \* what runs
    manifest,           \* None or the stamps of what was applied last
    lock,               \* None or the call that holds the project's lock
    pc, action, was,    \* of each call: its step, what was asked, the current version it read
    stamps, staged,     \*   the stamps it took, the files it copied
    moved,              \* the project was changed by something else since the manifest;
    mixed,              \*   files changed between stamp and copy, or a request was cut short
    calls, changes, troubles

project == <<versions, current, live>>
work    == <<pc, action, was, stamps, staged>>
history == <<moved, mixed>>
vars    == <<repo, project, manifest, lock, work, history, calls, changes, troubles>>

Own == 0                \* files the user uploaded
Idle == {"idle", "unchanged", "found", "done", "failed"}

TypeOK ==
    /\ repo \in Contents /\ live \in Contents \cup {Own}
    /\ \A v \in DOMAIN versions : versions[v] \in Contents \cup {Own}
    /\ current \in DOMAIN versions /\ manifest \in Contents \cup {None} /\ lock \in Calls \cup {None}
    /\ pc \in [Calls -> Idle \cup {"loaded", "stamp", "compare", "stage", "apply", "save"}]
    /\ \A c \in Calls : pc[c] \in {"stamp", "compare", "stage", "apply", "save"} <=> lock = c

Init ==
    /\ repo \in Contents
    /\ versions = <<Own>> /\ current = 1 /\ live = Own /\ manifest = None /\ lock = None
    /\ pc = [c \in Calls |-> "idle"] /\ action = [c \in Calls |-> "check"] /\ was = [c \in Calls |-> 1]
    /\ stamps = [c \in Calls |-> repo] /\ staged = [c \in Calls |-> repo]
    /\ moved = FALSE /\ mixed = FALSE /\ calls = 0 /\ changes = 0 /\ troubles = 0
-----------------------------------------------------------------------------
Trouble    == troubles < MaxTroubles /\ troubles' = troubles + 1
Goto(c, s) == pc' = [pc EXCEPT ![c] = s]
End(c, s)  == Goto(c, s) /\ lock' = None

\* The project is read, and its lock is tried after that.
Ask(c, what) ==
    /\ pc[c] \in Idle /\ calls < MaxCalls /\ calls' = calls + 1
    /\ Goto(c, "loaded") /\ action' = [action EXCEPT ![c] = what] /\ was' = [was EXCEPT ![c] = current]
    /\ UNCHANGED <<repo, project, manifest, lock, stamps, staged, history, changes, troubles>>

\* Mutant: the lock is not looked at.
LockAnyway(c) ==
    /\ pc[c] = "loaded" /\ lock' = c /\ Goto(c, "stamp")
    /\ UNCHANGED <<repo, project, manifest, action, was, stamps, staged, history, calls, changes, troubles>>

TryLock(c) ==
    /\ pc[c] = "loaded"
    /\ IF lock = None THEN lock' = c /\ Goto(c, "stamp") ELSE Goto(c, "failed") /\ UNCHANGED lock
    /\ UNCHANGED <<repo, project, manifest, action, was, stamps, staged, history, calls, changes, troubles>>

\* np4_repo_update_files, np4_repo_file_stamps.
Stamp(c) ==
    /\ pc[c] = "stamp" /\ Goto(c, "compare") /\ stamps' = [stamps EXCEPT ![c] = repo]
    /\ UNCHANGED <<repo, project, manifest, lock, action, was, staged, history, calls, changes, troubles>>

\* np4_repo_manifest_matches; with no manifest the files of the version that
\* was current when the project was read are compared, and the manifest is
\* written: what runs by now may be something else.
Unchanged(c) == IF manifest # None THEN manifest = stamps[c] ELSE versions[was[c]] = repo
Compare(c) ==
    /\ pc[c] = "compare"
    /\ IF Unchanged(c)
       THEN /\ End(c, "unchanged") /\ manifest' = IF manifest = None THEN stamps[c] ELSE manifest
            /\ moved' = IF manifest = None THEN live # versions[was[c]] ELSE moved
            /\ mixed' = (mixed \/ (manifest = None /\ repo # stamps[c]))
       ELSE /\ IF action[c] = "check" THEN End(c, "found") ELSE Goto(c, "stage") /\ UNCHANGED lock
            /\ UNCHANGED <<manifest, history>>
    /\ UNCHANGED <<repo, project, action, was, stamps, staged, calls, changes, troubles>>

\* Mutant: the manifest is written when the files are staged.
StageAndSave(c) ==
    /\ pc[c] = "stage" /\ Goto(c, "apply") /\ staged' = [staged EXCEPT ![c] = repo]
    /\ manifest' = stamps[c] /\ mixed' = (mixed \/ repo # stamps[c])
    /\ UNCHANGED <<repo, project, lock, action, was, stamps, moved, calls, changes, troubles>>

\* The files are copied, as they are by now; one that has gone ends the request.
Stage(c) ==
    /\ pc[c] = "stage"
    /\ \/ /\ Goto(c, "apply") /\ staged' = [staged EXCEPT ![c] = repo]
          /\ mixed' = (mixed \/ repo # stamps[c]) /\ UNCHANGED <<lock, troubles>>
       \/ Trouble /\ End(c, "failed") /\ UNCHANGED <<staged, mixed>>
    /\ UNCHANGED <<repo, project, manifest, action, was, stamps, moved, calls, changes>>

\* apply_update makes a version of them, apply_replace only puts them in place;
\* either can fail with the files in place or not (ProjectVersions).
Publishes(c) == action[c] = "publish"
Apply(c) ==
    /\ pc[c] = "apply"
    /\ \/ /\ Goto(c, "save") /\ live' = staged[c]
          /\ IF Publishes(c)
             THEN /\ Len(versions) < MaxVersions
                  /\ versions' = Append(versions, staged[c]) /\ current' = Len(versions) + 1
             ELSE UNCHANGED <<versions, current>>
          /\ UNCHANGED <<lock, troubles>>
          /\ UNCHANGED moved
       \/ Trouble /\ End(c, "failed") /\ live' \in {live, staged[c]}
          /\ moved' = (moved \/ live' # live) /\ UNCHANGED <<versions, current>>
    /\ UNCHANGED <<repo, manifest, action, was, stamps, staged, mixed, calls, changes>>

\* save_np4_repo_manifest: the stamps taken first.
Saved(c) == stamps[c]
Save(c) ==
    /\ pc[c] = "save"
    /\ \/ End(c, "done") /\ manifest' = Saved(c) /\ moved' = FALSE /\ UNCHANGED <<mixed, troubles>>
       \/ Trouble /\ End(c, "failed") /\ moved' = TRUE /\ UNCHANGED <<manifest, mixed>>
    /\ UNCHANGED <<repo, project, action, was, stamps, staged, calls, changes>>

\* The client leaves or the program ends; what was applied may be whole.
Drop(c) ==
    /\ Trouble /\ lock = c /\ End(c, "failed")
    /\ moved' = (moved \/ pc[c] = "save") /\ mixed' = (mixed \/ pc[c] = "apply")
    /\ UNCHANGED <<repo, project, manifest, action, was, stamps, staged, calls, changes>>
-----------------------------------------------------------------------------
\* The synchronisation replaces the files; an upload makes a version of its own
\* and a rollback takes an old one, each under the project's lock.
Changed == changes < MaxChanges /\ changes' = changes + 1
Sync ==
    /\ Changed /\ \E x \in Contents : x # repo /\ repo' = x
    /\ UNCHANGED <<project, manifest, lock, work, history, calls, troubles>>

Upload ==
    /\ Changed /\ lock = None /\ Len(versions) < MaxVersions
    /\ versions' = Append(versions, Own) /\ current' = Len(versions) + 1 /\ live' = Own /\ moved' = TRUE
    /\ UNCHANGED <<repo, manifest, lock, work, mixed, calls, troubles>>

Rollback(v) ==
    /\ Changed /\ lock = None /\ v # current
    /\ current' = v /\ live' = versions[v] /\ moved' = TRUE
    /\ UNCHANGED <<repo, versions, manifest, lock, work, mixed, calls, troubles>>

Next ==
    \/ \E c \in Calls, what \in {"check", "publish", "replace"} : Ask(c, what)
    \/ \E c \in Calls : TryLock(c) \/ Stamp(c) \/ Compare(c) \/ Stage(c) \/ Apply(c) \/ Save(c) \/ Drop(c)
    \/ Sync \/ Upload \/ \E v \in DOMAIN versions : Rollback(v)

Spec == Init /\ [][Next]_vars
-----------------------------------------------------------------------------
\* api.rs update_np4_from_repo: "no change, no update is needed": what runs is
\* what the manifest says was applied, unless an upload or a rollback came
\* after it, or the files changed under the request.
ManifestIsLive == manifest # None /\ ~moved /\ ~mixed /\ lock = None => live = manifest
=============================================================================
