--------------------------- MODULE ProjectVersions ---------------------------
(***************************************************************************)
(* The versions of one registered project: the HTTP handlers of            *)
(* src/src/api.rs that register it, upgrade it, replace files in it, roll  *)
(* it back, edit it and delete it, over the SQLite rows (src/src/db.rs),   *)
(* the backup directories (src/src/backup.rs), the live Compose directory  *)
(* and the running stack (src/src/docker.rs).                              *)
(*                                                                         *)
(* A request is one HTTP call.  The version directory and the version row  *)
(* a request makes carry the request's own name (the code draws a UUID),   *)
(* so op[v] and no[v] are the kind and the version_no of row v.            *)
(*                                                                         *)
(* One action is the code between two awaits, or one autocommitted SQL     *)
(* statement where a crash can fall between two of them.                   *)
(***************************************************************************)
EXTENDS Naturals, FiniteSets

CONSTANTS
    Reqs,        \* the requests, each made at most once
    None,        \* no request; also "this file is not part of the backup"
    Ops,         \* the handlers clients call in this instance
    Bodies,      \* the forms clients send: [jar, image, stop, restart]
    Fallible,    \* the steps at which the disk, docker or SQLite may fail
    MaxActive,   \* bound: requests in progress at once
    MaxCrashes,  \* bound: crashes of the server process
    MaxDrops,    \* bound: clients that disconnect from a request in progress
    MaxFaults    \* bound: failed steps

AllOps == {"create", "create-compose", "update", "replace", "rollback",
           "jar-rollback", "edit", "delete", "orphan"}

ASSUME OpsAssumption == Ops \subseteq AllOps \ {"jar-rollback"}
ASSUME BodiesAssumption ==
    Bodies \subseteq [jar : BOOLEAN, image : BOOLEAN, stop : BOOLEAN, restart : BOOLEAN]
ASSUME NoneAssumption == None \notin Reqs \cup AllOps \cup {"orig", "absent", "torn"}
ASSUME BoundAssumption ==
    MaxActive \in Nat /\ MaxCrashes \in Nat /\ MaxDrops \in Nat /\ MaxFaults \in Nat

VARIABLES
    \* SQLite
    project,    \* the projects row exists
    rows,       \* the versions rows
    current,    \* the rows with is_current = 1
    \* config/backups/<project>/
    backup,     \* backup[v]: version directory v is "none", "partial", "complete"
    saved,      \* saved[v]: the files it holds, None for a file left out
    \* the host
    live,       \* the live directory: its JAR and its Compose file
    latest,     \* the archive the :latest image tag was last loaded from
    running,    \* the Compose stack is up
    \* requests
    lock,       \* holder of the project's async mutex
    pc,         \* the step each request is at
    op, body, target, no,   \* handler, form, version restored or removed, version_no
    stopped,    \* requests that have run `compose down`
    detached,   \* requests whose handler was dropped
    crashes, drops, faults  \* spent of the bounds

db      == <<project, rows, current>>
store   == <<backup, saved>>
host    == <<live, latest, running>>
task    == <<op, body, target, no, stopped>>
spent   == <<crashes, drops, faults>>
vars    == <<db, store, host, lock, pc, task, detached, spent>>

File    == Reqs \cup {"orig", "absent", "torn"}
Tree    == [jar : File, yml : File]
Backup  == [jar : File \cup {None}, yml : File \cup {None}]
Nothing == [jar |-> None, yml |-> None]

Ended   == {"ok", "failed", "refused", "gone", "lost"}
\* Steps at which the handler is suspended at an await.
Awaits  == {"queue", "upload", "prepare", "down", "copying", "load", "writing",
            "restart", "up", "upagain", "rmroot", "rmdir"}
\* Awaits on work that goes on without the handler: spawn_blocking, or a
\* docker child process (no kill_on_drop).
Background == Awaits \ {"queue", "upload", "prepare"}
Steps   == Awaits \cup {"try", "snapshot", "enroll", "baseline", "register", "clear",
                        "write", "select", "mark", "cleanup", "edit"}

\* Steps whose failure the handler meets; a stack that does not come up again
\* is a case of ComposeUp.
MayFail == {"upload", "prepare", "down", "copying", "enroll", "baseline", "register", "load",
            "writing", "clear", "select", "mark", "restart", "edit", "cleanup", "rmroot", "rmdir"}

TypeOK ==
    /\ project \in BOOLEAN /\ rows \subseteq Reqs /\ current \subseteq rows
    /\ backup \in [Reqs -> {"none", "partial", "complete"}]
    /\ saved \in [Reqs -> Backup]
    /\ live \in Tree /\ latest \in Reqs \cup {None} /\ running \in BOOLEAN
    /\ lock \in Reqs \cup {None}
    /\ pc \in [Reqs -> Steps \cup Ended \cup {"idle"}]
    /\ op \in [Reqs -> AllOps \cup {None}]
    /\ body \in [Reqs -> Bodies \cup {None}]
    /\ target \in [Reqs -> Reqs \cup {None}]
    /\ \A r \in Reqs : op[r] \in {"rollback", "jar-rollback"} => target[r] \in Reqs
    /\ no \in [Reqs -> Nat]
    /\ stopped \subseteq Reqs /\ detached \subseteq Reqs
    /\ crashes \in 0..MaxCrashes /\ drops \in 0..MaxDrops /\ faults \in 0..MaxFaults

Init ==
    /\ project = FALSE /\ rows = {} /\ current = {}
    /\ backup = [r \in Reqs |-> "none"] /\ saved = [r \in Reqs |-> Nothing]
    /\ live \in [jar : {"orig", "absent"}, yml : {"orig"}]
    /\ latest = None /\ running = TRUE
    /\ lock = None
    /\ pc = [r \in Reqs |-> "idle"]
    /\ op = [r \in Reqs |-> None] /\ body = [r \in Reqs |-> None]
    /\ target = [r \in Reqs |-> None] /\ no = [r \in Reqs |-> 0]
    /\ stopped = {} /\ detached = {}
    /\ crashes = 0 /\ drops = 0 /\ faults = 0
-----------------------------------------------------------------------------
Active == {r \in Reqs : pc[r] \notin Ended \cup {"idle"}}

\* Mutant: the guard outlives the handler.
GotoKeepingLock(r, s) ==
    /\ pc' = [pc EXCEPT ![r] = IF r \in detached THEN "gone" ELSE s]
    /\ UNCHANGED lock

\* The request moves to step s; a dropped handler runs nothing more, and a
\* handler that returns drops its lock guard.
Goto(r, s) ==
    /\ pc' = [pc EXCEPT ![r] = IF r \in detached THEN "gone" ELSE s]
    /\ lock' = IF s \in Ended /\ lock = r THEN None ELSE lock

\* The SQLite connection is a std mutex, held over several statements at these
\* steps by the request that is there.
DbFree(r) == \A q \in Reqs \ {r} : pc[q] \notin {"baseline", "clear", "mark"}

\* COALESCE(MAX(version_no), 0) + 1, as a set of one number.
NextNo == {n \in {1} \cup {no[v] + 1 : v \in rows} : \A v \in rows : no[v] < n}

\* The files of b written over tree t.
Overlay(t, b) == [jar |-> IF b.jar = None THEN t.jar ELSE b.jar,
                  yml |-> IF b.yml = None THEN t.yml ELSE b.yml]

\* A row of kind "pre-replace" whose JARs all have a backup_file.
IsJarBackup(v) == op[v] \in {"replace", "jar-rollback"} /\ saved[v].jar # None

\* What request r copies of the live tree before it writes to it.
Copied(r) ==
    [jar |-> IF \/ op[r] = "create-compose"
                \/ op[r] \in {"replace", "jar-rollback"} /\ live.jar = "absent"
             THEN None ELSE live.jar,
     yml |-> IF op[r] \in {"replace", "jar-rollback"} THEN None ELSE live.yml]

Restoring(r) == op[r] \in {"rollback", "jar-rollback"}

\* The files r writes over the live tree, None for a file it does not touch.
\* The whole-tree path removes what the backup lacks, so a backup directory
\* that holds no file at all empties the live tree.
Puts(r) ==
    IF ~Restoring(r) THEN [jar |-> IF body[r].jar THEN r ELSE None, yml |-> None]
    ELSE IF saved[target[r]] = Nothing THEN [jar |-> "absent", yml |-> "absent"]
    ELSE saved[target[r]]

\* The live tree half way through: files are overwritten in place, except a
\* Compose-only baseline, which is renamed over the old file.
HalfWritten(r) ==
    IF Restoring(r) /\ op[target[r]] = "create-compose" THEN live
    ELSE Overlay(live,
             [jar |-> IF Puts(r).jar \in {None, "absent"} THEN None ELSE "torn",
              yml |-> IF Puts(r).yml \in {None, "absent"} THEN None ELSE "torn"])

\* Mutant: without foreign keys the row of a deleted project is accepted.
DoomedByNumber(r) ==
    \/ pc[r] = "register" /\ \E v \in rows : no[v] = no[r]
    \/ pc[r] \in {"write", "writing"} /\ Restoring(r) /\ backup[target[r]] # "complete"

\* Request r's step cannot succeed: the row's project is gone or its number is
\* taken, or the version to restore has lost its directory.
Doomed(r) ==
    \/ pc[r] = "register" /\ (~project \/ \E v \in rows : no[v] = no[r])
    \/ pc[r] \in {"write", "writing"} /\ Restoring(r) /\ backup[target[r]] # "complete"

\* Mutant: a failure after the row is inserted cleans up all the same.
OnErrorCleaningUp(r) ==
    IF pc[r] \in {"copying", "register", "load", "writing", "clear", "mark", "restart"}
    THEN "cleanup" ELSE "failed"

\* Mutant: the error branches return without bringing the stack back.
OnErrorReturning(r) == "failed"

\* Where the handler goes when step pc[r] fails.
OnError(r) ==
    CASE \/ pc[r] \in {"copying", "enroll", "baseline"}
         \/ pc[r] = "register" /\ op[r] # "rollback"
         \/ pc[r] \in {"load", "writing"} /\ op[r] = "update"      -> "cleanup"
      [] \/ pc[r] = "cleanup"
         \/ pc[r] \in {"write", "writing"} /\ op[r] # "update"
         \/ pc[r] = "load" /\ op[r] = "replace"                    -> "upagain"
      [] OTHER                                                     -> "failed"
-----------------------------------------------------------------------------
(* Requests arrive.  The project row, and the row of the version to restore, *)
(* are read first, before any lock.                                          *)

Admit(r, o, b, v, s) ==
    /\ pc[r] = "idle" /\ Cardinality(Active) < MaxActive
    /\ DbFree(r)
    /\ op' = [op EXCEPT ![r] = o] /\ body' = [body EXCEPT ![r] = b]
    /\ target' = [target EXCEPT ![r] = v]
    /\ pc' = [pc EXCEPT ![r] = s]
    /\ UNCHANGED <<store, host, lock, no, stopped, detached, spent>>

\* One project: it is registered once, by whichever create comes first.
CreateProject(r) ==
    /\ live.yml # "absent" /\ \A q \in Reqs : op[q] \notin {"create", "create-compose"}
    /\ \E o \in Ops \cap {"create", "create-compose"}, b \in Bodies : Admit(r, o, b, None, "down")
    /\ UNCHANGED db

CreateUpdateOrReplace(r) ==
    /\ \E o \in Ops \cap {"update", "replace"}, b \in Bodies :
           Admit(r, o, b, None, IF project THEN "queue" ELSE "refused")
    /\ UNCHANGED db

Rollback(r) ==
    /\ "rollback" \in Ops
    /\ \E v \in rows, b \in Bodies :
           Admit(r, IF IsJarBackup(v) THEN "jar-rollback" ELSE "rollback", b, v, "try")
    /\ UNCHANGED db

SaveCompose(r) ==
    /\ "edit" \in Ops
    /\ \E b \in Bodies : Admit(r, "edit", b, None, IF project THEN "queue" ELSE "refused")
    /\ UNCHANGED db

\* DELETE FROM projects cascades to the versions; the directories go next.
DeleteProject(r) ==
    /\ "delete" \in Ops
    /\ Admit(r, "delete", None, None, IF project THEN "rmroot" ELSE "refused")
    /\ project' = FALSE /\ rows' = {} /\ current' = {}

\* A directory with no row is a leftover, whoever may still be filling it.
DeleteOrphan(r) ==
    /\ "orphan" \in Ops
    /\ \/ \E v \in Reqs \ rows : backup[v] # "none" /\ Admit(r, "orphan", None, v, "rmdir")
       \/ /\ ~project /\ \E v \in Reqs : backup[v] # "none"
          /\ Admit(r, "orphan", None, None, "rmroot")
    /\ UNCHANGED db

Arrive(r) ==
    \/ CreateProject(r) \/ CreateUpdateOrReplace(r) \/ Rollback(r)
    \/ SaveCompose(r) \/ DeleteProject(r) \/ DeleteOrphan(r)
-----------------------------------------------------------------------------
(* The lock, the upload and the version number. *)

\* Mutant: the lock is not waited for.
AcquireAnyway(r) ==
    /\ pc[r] = "queue"
    /\ lock' = r
    /\ pc' = [pc EXCEPT ![r] = IF op[r] = "edit" THEN "edit" ELSE "upload"]
    /\ UNCHANGED <<db, store, host, task, detached, spent>>

\* gate.lock().await
Acquire(r) ==
    /\ pc[r] = "queue" /\ lock = None
    /\ lock' = r
    /\ pc' = [pc EXCEPT ![r] = IF op[r] = "edit" THEN "edit" ELSE "upload"]
    /\ UNCHANGED <<db, store, host, task, detached, spent>>

\* The form is in.  apply_update draws its number at once, before the database
\* backup; apply_replace refuses a form with no file.
Receive(r) ==
    /\ pc[r] = "upload" /\ DbFree(r)
    /\ IF op[r] = "replace"
       THEN /\ Goto(r, IF body[r].jar \/ body[r].image THEN "prepare" ELSE "failed")
            /\ UNCHANGED no
       ELSE /\ Goto(r, "prepare")
            /\ \E n \in NextNo : no' = [no EXCEPT ![r] = n]
    /\ UNCHANGED <<db, store, host, op, body, target, stopped, detached, spent>>

\* dbbackup::create_before_update.  A replacement without a JAR makes no backup.
BackUpDatabase(r) ==
    /\ pc[r] = "prepare" /\ DbFree(r)
    /\ IF op[r] = "replace" /\ body[r].jar
       THEN \E n \in NextNo : no' = [no EXCEPT ![r] = n]
       ELSE UNCHANGED no
    /\ Goto(r, IF op[r] = "replace" /\ ~body[r].jar THEN "load" ELSE "down")
    /\ UNCHANGED <<db, store, host, op, body, target, stopped, detached, spent>>

\* Mutant: try_lock's answer is not looked at.
TryLockAnyway(r) ==
    /\ pc[r] = "try" /\ DbFree(r)
    /\ lock' = r
    /\ pc' = [pc EXCEPT ![r] = "down"]
    /\ IF op[r] = "rollback"
       THEN \E n \in NextNo : no' = [no EXCEPT ![r] = n]
       ELSE UNCHANGED no
    /\ UNCHANGED <<db, store, host, op, body, target, stopped, detached, spent>>

\* gate.try_lock(): a second rollback is refused, never queued.
TryLock(r) ==
    /\ pc[r] = "try" /\ DbFree(r)
    /\ \/ /\ lock = None /\ lock' = r
          /\ pc' = [pc EXCEPT ![r] = "down"]
          /\ IF op[r] = "rollback"
             THEN \E n \in NextNo : no' = [no EXCEPT ![r] = n]
             ELSE UNCHANGED no
       \/ /\ lock # None /\ Goto(r, "refused") /\ UNCHANGED no
    /\ UNCHANGED <<db, store, host, op, body, target, stopped, detached, spent>>

\* compose_down_for_backup
ComposeDown(r) ==
    /\ pc[r] = "down" /\ DbFree(r)
    /\ IF body[r].stop /\ op[r] # "create-compose"
       THEN running' = FALSE /\ stopped' = stopped \cup {r}
       ELSE UNCHANGED <<running, stopped>>
    /\ IF op[r] = "jar-rollback"
       THEN \E n \in NextNo : no' = [no EXCEPT ![r] = n]
       ELSE UNCHANGED no
    /\ Goto(r, "snapshot")
    /\ UNCHANGED <<db, store, live, latest, op, body, target, detached, spent>>
-----------------------------------------------------------------------------
(* The backup of what is about to be overwritten, and its row. *)

StartCopy(r) ==
    /\ pc[r] = "snapshot"
    /\ backup' = [backup EXCEPT ![r] = "partial"]
    /\ saved' = [saved EXCEPT ![r] = Copied(r)]
    /\ Goto(r, "copying")
    /\ UNCHANGED <<db, host, task, detached, spent>>

\* Mutant: a rollback restores first and registers its safety version never.
AfterCopyUnregistered(r, empty) ==
    CASE op[r] \in {"create", "create-compose"}    -> "enroll"
      [] op[r] \in {"update", "replace"} \/ empty -> "load"
      [] OTHER                                    -> "write"

AfterCopy(r, empty) ==
    CASE op[r] \in {"create", "create-compose"} -> "enroll"
      [] op[r] = "update" \/ empty              -> "load"
      [] OTHER                                  -> "register"

\* The copy ends with the files as they were at its start or as they are now.
\* A replacement that found no JAR to save removes the empty directory.
FinishCopy(r) ==
    /\ pc[r] = "copying"
    /\ \E j \in {saved[r].jar, Copied(r).jar}, y \in {saved[r].yml, Copied(r).yml} :
           saved' = [saved EXCEPT ![r] = [jar |-> j, yml |-> y]]
    /\ LET empty == op[r] = "replace" /\ saved'[r].jar = None IN
       /\ backup' = [backup EXCEPT ![r] = IF empty /\ r \notin detached THEN "none" ELSE "complete"]
       /\ Goto(r, AfterCopy(r, empty))
    /\ UNCHANGED <<db, host, task, detached, spent>>

\* db::insert_project, then db::insert_version of v1 under the same mutex guard.
InsertProject(r) ==
    /\ pc[r] = "enroll" /\ DbFree(r)
    /\ project' = TRUE /\ no' = [no EXCEPT ![r] = 1]
    /\ Goto(r, "baseline")
    /\ UNCHANGED <<rows, current, store, host, op, body, target, stopped, detached, spent>>

InsertBaseline(r) ==
    /\ pc[r] = "baseline"
    /\ rows' = rows \cup {r} /\ current' = current \cup {r}
    /\ Goto(r, "up")
    /\ UNCHANGED <<project, store, host, task, detached, spent>>

\* db::insert_version.  An update is inserted as current and marked current
\* next, under the same mutex guard.
InsertVersion(r) ==
    /\ pc[r] = "register" /\ DbFree(r) /\ ~Doomed(r)
    /\ rows' = rows \cup {r}
    /\ current' = IF op[r] = "update" THEN current \cup {r} ELSE current
    /\ Goto(r, CASE op[r] = "update"  -> "clear"
                 [] op[r] = "replace" -> "load"
                 [] OTHER             -> "write")
    /\ UNCHANGED <<project, store, host, task, detached, spent>>
-----------------------------------------------------------------------------
(* The images and the live files. *)

\* load_and_retag for an upload; the archives kept with the target for a rollback.
LoadImages(r) ==
    /\ pc[r] = "load"
    /\ LET from == IF op[r] = "rollback" THEN target[r] ELSE r
           any  == IF op[r] = "rollback"
                   THEN op[from] = "update" /\ backup[from] = "complete" /\ body[from].image
                   ELSE body[r].image
       IN latest' = IF any THEN from ELSE latest
    /\ Goto(r, IF op[r] = "rollback" THEN "select" ELSE "write")
    /\ UNCHANGED <<db, store, live, running, task, detached, spent>>

\* deploy_jars, restore_blocking, restore_compose_file or restore_jar_backup starts.
StartWrite(r) ==
    /\ pc[r] = "write" /\ ~Doomed(r)
    /\ live' = HalfWritten(r)
    /\ Goto(r, "writing")
    /\ UNCHANGED <<db, store, latest, running, task, detached, spent>>

\* JARs are copied one at a time by the handler: dropped, it copies no further.
FinishWrite(r) ==
    /\ pc[r] = "writing" /\ ~Doomed(r)
    /\ \/ live' = Overlay(live, Puts(r))
       \/ r \in detached /\ op[r] # "rollback" /\ UNCHANGED live
    /\ Goto(r, CASE op[r] = "update"       -> "register"
                 [] op[r] = "replace"      -> "restart"
                 [] op[r] = "rollback"     -> "load"
                 [] op[r] = "jar-rollback" -> "select")
    /\ UNCHANGED <<db, store, latest, running, task, detached, spent>>

\* save_compose_content under the lock: the file is renamed into place, then
\* `compose up` if the form asks for it.  (Module ComposeEditor has the rest.)
InstallCompose(r) ==
    /\ pc[r] = "edit"
    /\ live' = [live EXCEPT !.yml = r]
    /\ running' = (running \/ body[r].restart)
    /\ Goto(r, "ok")
    /\ UNCHANGED <<db, store, latest, task, detached, spent>>
-----------------------------------------------------------------------------
(* The end: the current version, the stack, and the ways out of a failure. *)

\* Mutant: the old mark stays.
KeepCurrent(r) ==
    /\ pc[r] \in {"clear", "select"} /\ DbFree(r)
    /\ Goto(r, "mark")
    /\ UNCHANGED <<db, store, host, task, detached, spent>>

\* db::mark_current: two autocommitted UPDATEs.
ClearCurrent(r) ==
    /\ pc[r] \in {"clear", "select"} /\ DbFree(r)
    /\ current' = {}
    /\ Goto(r, "mark")
    /\ UNCHANGED <<project, rows, store, host, task, detached, spent>>

\* Mutant: the mark is set whether or not the row is there.
SetCurrentUnchecked(r) ==
    /\ pc[r] = "mark"
    /\ current' = current \cup {IF Restoring(r) THEN target[r] ELSE r}
    /\ Goto(r, "restart")
    /\ UNCHANGED <<project, rows, store, host, task, detached, spent>>

SetCurrent(r) ==
    /\ pc[r] = "mark"
    /\ current' = current \cup (rows \cap {IF Restoring(r) THEN target[r] ELSE r})
    /\ Goto(r, "restart")
    /\ UNCHANGED <<project, rows, store, host, task, detached, spent>>

\* restart_after_update, or compose_restart when archives were loaded.
Restart(r) ==
    /\ pc[r] = "restart"
    /\ running' = (running \/ body[r].restart)
    /\ Goto(r, "ok")
    /\ UNCHANGED <<db, store, live, latest, task, detached, spent>>

\* compose_up_best_effort: a stack that does not come up is only logged.
ComposeUp(r) ==
    /\ pc[r] \in {"up", "upagain"}
    /\ \/ running' = (running \/ r \in stopped) /\ UNCHANGED faults
       \/ /\ r \in stopped /\ pc[r] \in Fallible /\ faults < MaxFaults
          /\ faults' = faults + 1 /\ UNCHANGED running
    /\ Goto(r, IF pc[r] = "up" THEN "ok" ELSE "failed")
    /\ UNCHANGED <<db, store, live, latest, task, detached, crashes, drops>>

\* A step fails, `?` or a match on Err decides what happens next.  A failed
\* `compose down` may have stopped the stack; a failed insert of the baseline
\* takes the project row back.
Fail(r) ==
    /\ \/ Doomed(r) /\ UNCHANGED faults
       \/ /\ pc[r] \in Fallible \cap MayFail /\ faults < MaxFaults
          /\ faults' = faults + 1
       \/ pc[r] = "copying" /\ backup[r] = "none" /\ UNCHANGED faults
    /\ Goto(r, OnError(r))
    /\ running' \in IF pc[r] = "down" /\ body[r].stop THEN {running, FALSE} ELSE {running}
    /\ project' = (project /\ pc[r] # "baseline")
    /\ UNCHANGED <<rows, current, store, live, latest, task, detached, crashes, drops>>

\* remove_dir_if_exists of the request's own version directory (of the
\* project's whole root for a create, which has only that one).
CleanUp(r) ==
    /\ pc[r] = "cleanup"
    /\ backup' = [backup EXCEPT ![r] = "none"]
    /\ Goto(r, "upagain")
    /\ UNCHANGED <<db, saved, host, task, detached, spent>>

RemoveBackups(r) ==
    /\ pc[r] \in {"rmroot", "rmdir"}
    /\ backup' = [v \in Reqs |-> IF pc[r] = "rmroot" \/ v = target[r] THEN "none" ELSE backup[v]]
    /\ Goto(r, "ok")
    /\ UNCHANGED <<db, saved, host, task, detached, spent>>

\* The client disconnects: hyper drops the handler's future at its await, and
\* the lock guard with it.
Drop(r) ==
    /\ pc[r] \in Awaits /\ r \notin detached /\ drops < MaxDrops
    /\ drops' = drops + 1
    /\ detached' = detached \cup {r}
    /\ pc' = [pc EXCEPT ![r] = IF pc[r] \in Background THEN pc[r] ELSE "gone"]
    /\ lock' = IF lock = r THEN None ELSE lock
    /\ UNCHANGED <<db, store, host, task, crashes, faults>>

\* The process dies and is started again.
Crash ==
    /\ crashes < MaxCrashes /\ Active # {}
    /\ crashes' = crashes + 1
    /\ pc' = [r \in Reqs |-> IF r \in Active THEN "lost" ELSE pc[r]]
    /\ lock' = None
    /\ UNCHANGED <<db, store, host, task, detached, drops, faults>>

\* Every request has been made and has ended.
Rest == (\A r \in Reqs : pc[r] \in Ended) /\ UNCHANGED vars

Step(r) ==
    \/ Acquire(r) \/ Receive(r) \/ BackUpDatabase(r) \/ TryLock(r) \/ ComposeDown(r)
    \/ StartCopy(r) \/ FinishCopy(r) \/ InsertProject(r) \/ InsertBaseline(r) \/ InsertVersion(r)
    \/ LoadImages(r) \/ StartWrite(r) \/ FinishWrite(r) \/ InstallCompose(r)
    \/ ClearCurrent(r) \/ SetCurrent(r) \/ Restart(r) \/ ComposeUp(r)
    \/ Fail(r) \/ CleanUp(r) \/ RemoveBackups(r)

Next ==
    \/ \E r \in Reqs : Arrive(r) \/ Step(r) \/ Drop(r)
    \/ Crash
    \/ Rest

Spec == Init /\ [][Next]_vars
-----------------------------------------------------------------------------
(* Safety. *)

\* A version in the list has its backup on disk, whole: api.rs inserts the row
\* after the copy, removes a directory only before its row is inserted, and
\* delete_project removes the rows before the directories.
RegisteredBackupsExist == \A v \in rows : backup[v] = "complete"

\* One request at a time writes to the live tree, and none copies it meanwhile:
\* the project's lock (README: a restore or an upgrade in progress cannot be
\* repeated).  A handler dropped with its connection frees the lock while its
\* work goes on, so this holds only of clients that wait for the answer.
OneWriter ==
    \A q, r \in Reqs : q # r /\ pc[q] = "writing" => pc[r] \notin {"copying", "writing"}

\* A backup is the live tree at one moment: while a request that still runs
\* copies, nobody writes, so the tree is what it was when the copy began.
BackupIsExact ==
    \A r \in Reqs \ detached : pc[r] = "copying" => saved[r] = Copied(r)

\* Between the end of a rollback's restore and its end, the live tree is the
\* one the restored version holds: no other handler writes in between.
RestoredTreeStays ==
    \A r \in Reqs \ detached :
        pc[r] \in {"select", "mark", "restart"} /\ Restoring(r) /\ saved[target[r]] # Nothing
            => Overlay(live, saved[target[r]]) = live

\* At most one version is the current one, and exactly one while no request is
\* between the statements that move the mark.
OneCurrent ==
    (project /\ \A r \in Reqs : pc[r] \notin {"baseline", "clear", "mark"})
        => Cardinality(current) = 1
-----------------------------------------------------------------------------
(* Action properties. *)

\* Nothing of the live tree is overwritten before a backup that gives it back
\* is on disk; for a rollback or a replacement, before its row is inserted too.
\* (A project that is deleted meanwhile keeps no backup.)
UndoRecordedFirst ==
    [][\A r \in Reqs :
          (project /\ pc[r] = "write" /\ pc'[r] = "writing" /\ live' # live) =>
              \/ /\ backup[r] = "complete" /\ (op[r] # "update" => r \in rows)
                 /\ Overlay(live', saved[r]) = live
              \/ op[r] \in {"replace", "jar-rollback"} /\ live.jar = "absent"]_vars

\* A create, update or replacement that stopped the stack and fails before its
\* version is in the list leaves the stack running, unless docker then refuses
\* to start it.
StackComesBack ==
    [][\A r \in stopped \ rows :
          (pc[r] # "failed" /\ pc'[r] = "failed" /\ pc[r] # "restart" /\ ~Restoring(r))
              => running' \/ (pc[r] = "upagain" /\ faults' # faults)]_vars

\* The list of versions is the one VersionHistory promises.
History == INSTANCE VersionHistory
               WITH Ids <- Reqs, open <- project, history <- {<<no[v], v>> : v \in rows}
HistorySpec == History!Spec
-----------------------------------------------------------------------------
(* Liveness. *)

\* The runtime polls every handler that can proceed, the lock is handed over in
\* FIFO order, uploads end, docker and the disk answer.
FairSpec == Spec /\ \A r \in Reqs : WF_vars(Step(r))

\* Every request ends: nothing waits for ever for the lock or for SQLite.
EveryRequestEnds == \A r \in Reqs : pc[r] = "queue" ~> pc[r] \in Ended
-----------------------------------------------------------------------------
(* What the documentation says and the code does not do. *)

\* README: a version's images/ and jars/ hold what was uploaded then, and
\* restoring it checks that version out.  Rollback reloads images/, never jars/.
RestoredUpdateHasItsJar ==
    \A r \in Reqs \ detached :
        (pc[r] = "restart" /\ op[r] = "rollback" /\ op[target[r]] = "update" /\ body[target[r]].jar)
            => live.jar = target[r]

\* README: an upgrade backs the directory up first and can be rolled back.
\* apply_update removes that backup when copying the JARs fails half way.
FailedUpdateKeepsItsBackup ==
    \A r \in Reqs : (pc[r] = "failed" /\ op[r] = "update" /\ live.jar = "torn")
        => backup[r] = "complete"

\* Console text: restoring a JAR version changes nothing else in the directory.
\* A "pre-replace" row with no JAR takes the whole-tree path.
JarRestoreTouchesOnlyJars ==
    [][\A r \in Reqs :
          (pc[r] = "writing" /\ Restoring(r) /\ op[target[r]] \in {"replace", "jar-rollback"})
              => live'.yml = live.yml]_vars
=============================================================================
