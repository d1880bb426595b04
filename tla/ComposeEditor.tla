---------------------------- MODULE ComposeEditor ----------------------------
(***************************************************************************)
(* The online editor of a project's Compose file, and of its .env file:    *)
(* save_compose_content and save_env_content of src/src/api.rs over the    *)
(* file, its draft (src/src/paths.rs) and its revisions (src/src/db.rs).   *)
(* Env chooses between the two, which differ in the names the file may     *)
(* have, in empty texts, and in who validates.                             *)
(*                                                                         *)
(* The revision numbered i is revs[i]: numbers are drawn and inserted      *)
(* under one guard of the SQLite mutex and no revision is ever deleted     *)
(* but with its project.                                                   *)
(***************************************************************************)
EXTENDS Naturals, Sequences, FiniteSets

CONSTANTS
    Reqs,           \* the editing sessions, each saved at most once
    Texts,          \* the texts a file may have
    Empty,          \* the empty text
    Absent,         \* no file
    None,           \* no request; no expected etag
    Names,          \* the names the file may have, the preferred one first
    Env,            \* .env instead of the Compose file
    EditDuring,     \* bound: steps of a save at which others edit the file
    RenameDuring,   \* bound: steps of a save at which others rename or remove it
    MaxEdits,       \* bound: changes others make to the file
    Fallible,       \* the steps at which the disk or SQLite may fail
    MaxFaults,      \* bound: failed steps
    MaxCrashes,     \* bound: crashes of the server process
    MaxDrops        \* bound: clients that disconnect from a save in progress

ASSUME NamesAssumption ==
    Names \in Seq(STRING) /\ Names # <<>>
    /\ \A i, j \in DOMAIN Names : Names[i] = Names[j] => i = j
ASSUME ValuesAssumption ==
    /\ Env \in BOOLEAN
    /\ Empty \notin Texts \cup {Absent} /\ Absent \notin Texts
    /\ None \notin Reqs \cup Texts \cup {Empty}
ASSUME BoundAssumption ==
    MaxEdits \in Nat /\ MaxFaults \in Nat /\ MaxCrashes \in Nat /\ MaxDrops \in Nat

VARIABLES
    open,       \* the projects row exists
    revs,       \* the revisions, oldest first: [text, kind]
    files,      \* files[n]: text of the file named n in the project directory
    drafts,     \* drafts[n]: text of n.cangling-draft
    lock,       \* holder of the project's async mutex
    pc,         \* the step each request is at
    expect,     \* the etag the editor got when it was opened, None for a restore
    want,       \* the text to write
    dest,       \* the file to write it to
    disk,       \* what was read of the file under the lock
    edits, faults, crashes, drops,  \* spent of the bounds
    \* History variables: what the editor wrote over, and the text it put in
    \* the live file if nobody else has changed the directory since.
    replaced, written

path  == <<files, drafts>>
save  == <<expect, want, dest, disk>>
spent == <<edits, faults, crashes, drops>>
ghost == <<replaced, written>>
vars  == <<open, revs, path, lock, pc, save, spent, ghost>>

Text  == Texts \cup {Empty}
Ended == {"ok", "unchanged", "conflict", "failed", "refused", "gone", "lost"}
Steps == {"queue", "install", "note", "snapshot", "record", "up"}
Kinds == {"baseline", "external", "save", "restore"}
Name  == {Names[i] : i \in DOMAIN Names}

TypeOK ==
    /\ open \in BOOLEAN
    /\ revs \in Seq([text : Text, kind : Kinds])
    /\ files \in [Name -> Text \cup {Absent}] /\ drafts \in [Name -> Text \cup {Absent}]
    /\ lock \in Reqs \cup {None}
    /\ pc \in [Reqs -> Steps \cup Ended \cup {"idle", "editing"}]
    /\ expect \in [Reqs -> Text \cup {None}]
    /\ want \in [Reqs -> Text \cup {None}]
    /\ dest \in [Reqs -> Name]
    /\ disk \in [Reqs -> Text \cup {None}]
    /\ edits \in 0..MaxEdits /\ faults \in 0..MaxFaults
    /\ crashes \in 0..MaxCrashes /\ drops \in 0..MaxDrops
    /\ replaced \subseteq Texts /\ written \in Text \cup {None}

Init ==
    /\ open = TRUE /\ revs = <<>>
    /\ files \in [Name -> {Absent} \cup Texts]
    /\ \A i, j \in DOMAIN Names : i # j => Absent \in {files[Names[i]], files[Names[j]]}
    /\ drafts = [n \in Name |-> Absent]
    /\ lock = None
    /\ pc = [r \in Reqs |-> "idle"]
    /\ expect = [r \in Reqs |-> None] /\ want = [r \in Reqs |-> None]
    /\ dest = [r \in Reqs |-> Names[1]] /\ disk = [r \in Reqs |-> None]
    /\ edits = 0 /\ faults = 0 /\ crashes = 0 /\ drops = 0
    /\ replaced = {} /\ written = None
-----------------------------------------------------------------------------
Active == {r \in Reqs : pc[r] \in Steps}

\* Where the first of the preferred names is a file; else the name that a new
\* file gets.
LivePath(f) ==
    IF \A n \in Name : f[n] = Absent THEN Names[1]
    ELSE Names[CHOOSE i \in DOMAIN Names :
                   f[Names[i]] # Absent /\ \A j \in 1..(i - 1) : f[Names[j]] = Absent]

\* Mutant: a missing file is not noticed.
ReadRaw(n) == files[n]

\* A file that does not exist reads as the empty text, etag included.
Read(n) == IF files[n] = Absent THEN Empty ELSE files[n]

LiveText == Read(LivePath(files))

\* A conflict is a live file that is not the one the editor was opened on.
Conflict(r) == expect[r] # None /\ expect[r] # LiveText

\* Mutant: the empty history is taken for one that ends with the disk's text.
NotedUnlessFirst(t) ==
    IF revs = <<>> \/ revs[Len(revs)].text = t THEN revs
    ELSE Append(revs, [text |-> t, kind |-> "external"])

\* Mutant: the text found on disk is not compared with the last revision.
NotedAlways(t) ==
    IF t = Empty /\ ~Env THEN revs
    ELSE Append(revs, [text |-> t, kind |-> IF revs = <<>> THEN "baseline" ELSE "external"])

\* The history once the text found on disk is in it.
Noted(t) ==
    IF (t = Empty /\ ~Env) \/ (revs # <<>> /\ revs[Len(revs)].text = t) THEN revs
    ELSE Append(revs, [text |-> t, kind |-> IF revs = <<>> THEN "baseline" ELSE "external"])

Leave(r, s) ==
    /\ pc' = [pc EXCEPT ![r] = s]
    /\ lock' = IF s \in Ended /\ lock = r THEN None ELSE lock
-----------------------------------------------------------------------------
\* compose_file_get, env_file_get: the user opens the editor.
Open(r) ==
    /\ pc[r] = "idle" /\ open
    /\ expect' = [expect EXCEPT ![r] = LiveText]
    /\ pc' = [pc EXCEPT ![r] = "editing"]
    /\ UNCHANGED <<open, revs, path, lock, want, dest, disk, spent, ghost>>

\* compose_file_put, env_file_put: the project is read, the text validated and
\* the etag compared a first time before the lock is waited for.
Put(r) ==
    /\ pc[r] = "editing"
    /\ \E t \in IF Env THEN Text ELSE Texts : want' = [want EXCEPT ![r] = t]
    /\ dest' = [dest EXCEPT ![r] = LivePath(files)]
    /\ Leave(r, IF ~open THEN "refused" ELSE IF Conflict(r) THEN "conflict" ELSE "queue")
    /\ UNCHANGED <<open, revs, path, expect, disk, spent, ghost>>

\* compose_revision_restore, env_revision_restore: no etag is expected.
Restore(r) ==
    /\ pc[r] = "idle" /\ open
    /\ \E i \in DOMAIN revs :
           /\ Env \/ revs[i].text # Empty
           /\ want' = [want EXCEPT ![r] = revs[i].text]
    /\ dest' = [dest EXCEPT ![r] = LivePath(files)]
    /\ pc' = [pc EXCEPT ![r] = "queue"]
    /\ UNCHANGED <<open, revs, path, lock, expect, disk, spent, ghost>>

\* Mutant: the etag is compared only before the lock.
LockAndReadOnce(r) ==
    /\ pc[r] = "queue" /\ lock = None
    /\ disk' = [disk EXCEPT ![r] = LiveText]
    /\ lock' = r /\ pc' = [pc EXCEPT ![r] = "install"]
    /\ drafts' = [drafts EXCEPT ![dest[r]] = want[r]]
    /\ UNCHANGED <<open, revs, files, expect, want, dest, spent, ghost>>

\* The lock is granted, the live file is read again and the etag compared again.
\* A text that is there already is only noted; else it goes to the draft of the
\* file found before the lock (.env looks again, at its only name).
LockAndRead(r) ==
    /\ pc[r] = "queue" /\ lock = None
    /\ disk' = [disk EXCEPT ![r] = LiveText]
    /\ IF Conflict(r)
       THEN /\ pc' = [pc EXCEPT ![r] = "conflict"]
            /\ UNCHANGED <<lock, drafts>>
       ELSE /\ lock' = r
            /\ IF want[r] = LiveText /\ (Env => files[LivePath(files)] # Absent)
               THEN /\ pc' = [pc EXCEPT ![r] = "note"]
                    /\ UNCHANGED drafts
               ELSE /\ pc' = [pc EXCEPT ![r] = "install"]
                    /\ drafts' = [drafts EXCEPT ![dest[r]] = want[r]]
    /\ UNCHANGED <<open, revs, files, expect, want, dest, spent, ghost>>

\* docker compose config rejects the draft.
Reject(r) ==
    /\ pc[r] = "install" /\ ~Env
    /\ drafts' = [drafts EXCEPT ![dest[r]] = Absent]
    /\ Leave(r, "failed")
    /\ UNCHANGED <<open, revs, files, save, spent, ghost>>

\* commit_compose_draft: the draft is renamed over the file.  What the file
\* holds by now is not looked at.
Install(r) ==
    /\ pc[r] = "install" /\ drafts[dest[r]] # Absent
    /\ files' = [files EXCEPT ![dest[r]] = drafts[dest[r]]]
    /\ drafts' = [drafts EXCEPT ![dest[r]] = Absent]
    /\ replaced' = replaced \cup ({files[dest[r]]} \ {Absent, Empty})
    /\ written' = drafts[dest[r]]
    /\ Leave(r, "snapshot")
    /\ UNCHANGED <<open, revs, save, spent>>

\* snapshot_disk_if_needed with what was read under the lock.
SnapshotDisk(r) ==
    /\ pc[r] \in {"note", "snapshot"} /\ open
    /\ revs' = Noted(disk[r])
    /\ Leave(r, IF pc[r] = "note" THEN "unchanged" ELSE "record")
    /\ UNCHANGED <<open, path, save, spent, ghost>>

\* Mutant: the text that was read is recorded, not the one written.
RecordRead(r) ==
    /\ pc[r] = "record" /\ open
    /\ revs' = Append(revs, [text |-> disk[r],
                             kind |-> IF expect[r] = None THEN "restore" ELSE "save"])
    /\ \E s \in {"up", "ok"} : Leave(r, s)
    /\ UNCHANGED <<open, path, save, spent, ghost>>

\* record_compose_revision, record_env_revision; then `compose up` if asked for.
Record(r) ==
    /\ pc[r] = "record" /\ open
    /\ revs' = Append(revs, [text |-> want[r],
                             kind |-> IF expect[r] = None THEN "restore" ELSE "save"])
    /\ \E s \in {"up", "ok"} : Leave(r, s)
    /\ UNCHANGED <<open, path, save, spent, ghost>>

\* A stack that does not start is only reported.
ComposeUp(r) ==
    /\ pc[r] = "up"
    /\ Leave(r, "ok")
    /\ UNCHANGED <<open, revs, path, save, spent, ghost>>

\* The disk or SQLite fails; a row of a project that is gone is always refused.
Fail(r) ==
    /\ \/ /\ pc[r] \in Fallible \cap {"install", "note", "snapshot", "record"}
          /\ faults < MaxFaults
          /\ faults' = faults + 1
       \/ /\ \/ pc[r] \in {"note", "snapshot", "record"} /\ ~open
             \/ pc[r] = "install" /\ drafts[dest[r]] = Absent
          /\ UNCHANGED faults
    /\ drafts' = IF pc[r] = "install" THEN [drafts EXCEPT ![dest[r]] = Absent] ELSE drafts
    /\ Leave(r, "failed")
    /\ UNCHANGED <<open, revs, files, save, edits, crashes, drops, ghost>>

\* The client disconnects at an await: the handler and its lock guard are
\* dropped, the draft stays.
Drop(r) ==
    /\ pc[r] \in (IF Env THEN {"queue", "up"} ELSE {"queue", "install", "up"})
    /\ drops < MaxDrops
    /\ drops' = drops + 1
    /\ Leave(r, "gone")
    /\ UNCHANGED <<open, revs, path, save, edits, faults, crashes, ghost>>

Crash ==
    /\ crashes < MaxCrashes /\ Active # {}
    /\ crashes' = crashes + 1
    /\ pc' = [r \in Reqs |-> IF r \in Active THEN "lost" ELSE pc[r]]
    /\ lock' = None
    /\ UNCHANGED <<open, revs, path, save, edits, faults, drops, ghost>>

\* Somebody else writes, creates, renames away or removes one of the files: a
\* shell on the host, or another handler of this program that does not wait for
\* the lock or holds it while the save waits.
EditOutside(n, t) ==
    /\ edits < MaxEdits /\ files[n] # t
    /\ {pc[r] : r \in Active} \subseteq
           IF n = LivePath(files) /\ t # Absent THEN EditDuring ELSE RenameDuring
    /\ edits' = edits + 1
    /\ files' = [files EXCEPT ![n] = t]
    /\ written' = None
    /\ UNCHANGED <<open, revs, drafts, lock, pc, save, faults, crashes, drops, replaced>>

\* The project is deleted, and its revisions by cascade.
DeleteProject ==
    /\ open
    /\ open' = FALSE /\ revs' = <<>>
    /\ UNCHANGED <<path, lock, pc, save, spent, ghost>>

\* Every session is over.
Rest == (\A r \in Reqs : pc[r] \in Ended \cup {"idle"}) /\ UNCHANGED vars

Next ==
    \/ \E r \in Reqs :
          \/ Open(r) \/ Put(r) \/ Restore(r)
          \/ LockAndRead(r) \/ Reject(r) \/ Install(r)
          \/ SnapshotDisk(r) \/ Record(r) \/ ComposeUp(r)
          \/ Fail(r) \/ Drop(r)
    \/ Crash
    \/ \E n \in Name, t \in Texts \cup {Absent} : EditOutside(n, t)
    \/ DeleteProject
    \/ Rest

Spec == Init /\ [][Next]_vars
-----------------------------------------------------------------------------
\* The texts of the history.
Recorded == {revs[i].text : i \in DOMAIN revs}

\* What the editor wrote over is in the history, whoever put it there (README:
\* a change made outside is recorded first, so that overwriting does not lose
\* it; a restore can be taken back).  Both rows follow the rename.
OverwrittenIsKept ==
    (open /\ \A r \in Reqs : pc[r] \notin {"snapshot", "record"}) => replaced \subseteq Recorded

\* The last revision is the text in the file, until somebody else edits it.
LatestIsLive ==
    (open /\ written # None /\ \A r \in Reqs : pc[r] \notin {"snapshot", "record"})
        => revs # <<>> /\ revs[Len(revs)].text = written

\* A save that is past its rename has put its own text where the editor finds
\* the file.
SavedIsLive ==
    \A r \in Reqs : pc[r] \in {"snapshot", "record", "up"} => LiveText = want[r]

\* api.rs save_compose_content: both at once.
ComposeIsKept == OverwrittenIsKept /\ SavedIsLive

\* A text noted as an outside change is not the one recorded before it.
ExternalIsNews ==
    \A i \in 2..Len(revs) : revs[i].kind = "external" => revs[i].text # revs[i - 1].text

\* A save writes only over the text its editor was opened on (README: a file
\* that changed elsewhere is a conflict), however many sessions are open.
ReplacesOnlySeen ==
    \A r \in Reqs :
        (pc[r] = "install" /\ pc'[r] = "snapshot" /\ expect[r] # None)
            => expect[r] = LiveText
NothingUnseenReplaced == [][ReplacesOnlySeen]_vars
=============================================================================
