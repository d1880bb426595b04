----------------------- MODULE ProjectVersions_proofs -----------------------
(***************************************************************************)
(* Theorems about ProjectVersions, for any set of requests and any bounds: *)
(* the type invariant; that a listed version has its backup; that one      *)
(* request writes at a time; that what a request overwrites can be given   *)
(* back; that a restored tree and the mark of the current version stay;    *)
(* that the stack comes back; and that the list of versions is the one     *)
(* VersionHistory promises.  Each says what it takes: that clients wait    *)
(* for their answers, that leftovers are not deleted, or that mark_current *)
(* is not interrupted.                                                     *)
(***************************************************************************)
EXTENDS ProjectVersions, FiniteSetTheorems, TLAPS

Creates  == {"create", "create-compose"}
Removals == {"delete", "orphan"}

\* Steps of a create before its project row is in.
Opening == {"down", "snapshot", "copying", "enroll"}

\* Steps of a request before its own version row is in.
Unlisted == {"idle", "queue", "try", "upload", "prepare", "down", "snapshot", "copying",
             "enroll", "baseline", "register", "cleanup"}

Writers == {"update", "replace", "rollback", "jar-rollback"}

\* Which handlers reach which steps.
StepsOfOps ==
    \A r \in Reqs :
        /\ pc[r] = "idle" => op[r] = None
        /\ pc[r] \in {"enroll", "baseline", "up"} => op[r] \in Creates
        /\ pc[r] = "rmdir" => op[r] = "orphan"
        /\ pc[r] = "rmroot" => op[r] \in Removals
        /\ pc[r] = "edit" => op[r] = "edit"
        /\ pc[r] = "queue" => op[r] \in Writers \cup {"edit"}
        /\ pc[r] \in {"upload", "prepare", "try", "register", "load", "write", "writing",
                      "clear", "select", "mark", "restart"} => op[r] \in Writers
        /\ pc[r] \in {"down", "snapshot", "copying"} => op[r] \in Writers \cup Creates
        /\ pc[r] = "select" => op[r] # "update"

\* One create makes the project; until it does, there is no row and nobody
\* else is past the first check.
ProjectLife ==
    /\ \A q, r \in Reqs : op[q] \in Creates /\ op[r] \in Creates => q = r
    /\ project => \E r \in Reqs : op[r] \in Creates
    /\ project => \A r \in Reqs : op[r] \in Creates => pc[r] \notin Opening
    /\ ~project => rows = {}
    /\ \A r \in Reqs : pc[r] = "baseline" => project /\ rows = {}
    /\ \A q, r \in Reqs : pc[q] = "baseline" /\ pc[r] \in {"clear", "mark"} => FALSE
    /\ (\A r \in Reqs : op[r] \notin Creates) =>
           \A r \in Reqs : pc[r] \in Ended \cup {"idle", "rmroot", "rmdir"}
    /\ \A r \in Reqs : op[r] \in Creates /\ pc[r] \in Opening =>
           \A q \in Reqs \ {r} : pc[q] \in Ended \cup {"idle", "rmroot", "rmdir"}

\* A request that has made its backup and not yet listed it still has it, and
\* only the deletion of the project takes a listed one away.
BackupLife ==
    /\ RegisteredBackupsExist
    /\ \A r \in Reqs : pc[r] \in Unlisted => r \notin rows
    /\ \A r \in Reqs : op[r] = "update" /\ pc[r] \in {"load", "write", "writing"} => r \notin rows
    /\ \A r \in Reqs :
          (\/ pc[r] \in {"enroll", "baseline"}
           \/ project /\ pc[r] = "register"
           \/ project /\ op[r] = "update" /\ pc[r] \in {"load", "write", "writing"})
          => backup[r] = "complete"
    /\ \A r \in Reqs : pc[r] = "rmroot" =>
           ~project /\ \E q \in Reqs : op[q] \in Creates /\ pc[q] \notin Opening
    /\ \A r \in Reqs : pc[r] # "rmdir"

\* Steps at which a handler of a registered project has the project's lock.
Locked == {"upload", "prepare", "down", "snapshot", "copying", "register", "load", "write",
           "writing", "clear", "select", "mark", "restart", "cleanup", "upagain", "edit"}

LockHeld ==
    /\ detached = {}
    /\ \A r \in Reqs : pc[r] \in Locked /\ op[r] \notin Creates => lock = r
-----------------------------------------------------------------------------
(* What the other properties rest on. *)

\* Steps a request does not come back to.
Early == {"idle", "queue", "try", "upload", "prepare", "down", "snapshot", "copying"}

\* StepsOfOps says which steps are those of a handler that restores or upgrades;
\* here is which of the two.
Paths ==
    \A r \in Reqs :
        /\ pc[r] = "queue" => op[r] \in {"update", "replace", "edit"}
        /\ pc[r] \in {"upload", "prepare"} => op[r] \in {"update", "replace"}
        /\ pc[r] \in {"try", "select"} => Restoring(r)
        /\ pc[r] = "load" => op[r] # "jar-rollback"
        /\ pc[r] = "clear" => op[r] = "update"
        /\ pc[r] = "mark" => op[r] = "update" \/ Restoring(r)

\* A request lists its version once, and not before it has made the backup.
NotListedYet ==
    \A r \in Reqs :
        pc[r] \in Unlisted \/ (op[r] = "update" /\ pc[r] \in {"load", "write", "writing"})
            => r \notin rows

\* The version a rollback restores has its files for good, is listed as long as
\* the project is, and a JAR version restores no Compose file.
TargetsStay ==
    /\ \A r \in Reqs : Restoring(r) =>
          /\ \E q \in Reqs : op[q] \in Creates /\ pc[q] \notin Opening
          /\ pc[target[r]] \notin Early
          /\ project => target[r] \in rows
          /\ op[r] = "jar-rollback" => op[target[r]] \in {"replace", "jar-rollback"}
    /\ \A r \in Reqs : pc[r] \in Early \ {"copying"} => saved[r] = Nothing
    /\ \A r \in Reqs : op[r] \in {"replace", "jar-rollback"} => saved[r].yml = None

\* Request r has its backup and has yet to write to the live tree.
Undoable(r) ==
    \/ op[r] = "update" /\ pc[r] \in {"load", "write"}
    \/ op[r] = "replace" /\ body[r].jar /\ pc[r] \in {"register", "load", "write"}
    \/ Restoring(r) /\ pc[r] \in {"register", "write"}

\* Its backup is the live tree it will write to, and is listed.
UndoReady ==
    \A r \in Reqs : Undoable(r) =>
        /\ saved[r] = Copied(r)
        /\ (project /\ op[r] # "update" /\ pc[r] # "register") =>
               r \in rows \/ (op[r] = "replace" /\ live.jar = "absent")

\* From the end of a restore on, the live tree is the one restored.
Restored ==
    \A r \in Reqs :
        pc[r] \in {"load", "select", "mark", "restart"} /\ Restoring(r) /\ saved[target[r]] # Nothing
            => Overlay(live, saved[target[r]]) = live

\* The requests that hold the SQLite connection over several statements.
Marking == {"baseline", "clear", "mark"}

\* One request at a time moves the mark, to a version that is listed.
MarkLife ==
    /\ \A q, r \in Reqs : pc[q] \in Marking /\ pc[r] \in Marking => q = r
    /\ \A r \in Reqs : pc[r] \in {"clear", "mark"} /\ op[r] = "update" => r \in rows
    /\ \A r \in detached : pc[r] \in Background \cup Ended

\* The mark is off between the two statements of mark_current, else on one row.
CurrentLife ==
    /\ \A r \in Reqs : pc[r] = "mark" => current = {}
    /\ (project /\ \A r \in Reqs : pc[r] \notin Marking) => \E v \in rows : current = {v}

\* A request that has stopped the stack is past the shutdown.
StoppedLife ==
    \A r \in stopped : /\ op[r] \in Writers \cup {"create"}
                       /\ pc[r] \notin (Early \ {"snapshot", "copying"}) \cup {"edit", "rmroot", "rmdir"}

Listed == {<<no[v], v>> : v \in rows}

\* Request r has drawn its number and not used it yet.
Drawn(r) ==
    \/ op[r] = "update" /\ pc[r] \in {"prepare", "down", "snapshot", "copying", "load", "write",
                                      "writing", "register"}
    \/ op[r] \in {"replace", "rollback"} /\ pc[r] \in {"down", "snapshot", "copying", "register"}
    \/ op[r] = "jar-rollback" /\ pc[r] \in {"snapshot", "copying", "register"}

\* The numbers are 1, 2, ..., and the next one is the one that was drawn.
Numbered ==
    /\ IsFiniteSet(Listed)
    /\ \A v \in rows : no[v] \in 1 .. Cardinality(Listed)
    /\ \A n \in 1 .. Cardinality(Listed) : \E v \in rows : no[v] = n
    /\ \A r \in Reqs : pc[r] = "baseline" => no[r] = 1
    /\ \A r \in Reqs : project /\ Drawn(r) =>
           /\ no[r] = Cardinality(Listed) + 1
           /\ \A q \in Reqs : pc[q] # "baseline"
-----------------------------------------------------------------------------
(* Unfolded everywhere: the tuples of variables. *)

USE DEF db, store, host, task, spent, vars

\* The initial states have the types.
LEMMA TypeInit == Init => TypeOK
<1>. HAVE Init
<1>1. live \in Tree /\ saved \in [Reqs -> Backup]
  BY DEF Init, Tree, File, Backup, Nothing
<1>2. pc \in [Reqs -> Steps \cup Ended \cup {"idle"}]
  BY DEF Init
<1>3. \A r \in Reqs : op[r] = None /\ None \notin {"rollback", "jar-rollback"}
  BY NoneAssumption DEF Init, AllOps
<1>4. \A r \in Reqs : op[r] \in {"rollback", "jar-rollback"} => target[r] \in Reqs
  BY <1>3
<1>5. op \in [Reqs -> AllOps \cup {None}] /\ body \in [Reqs -> Bodies \cup {None}]
  BY DEF Init
<1>6. latest \in Reqs \cup {None} /\ lock \in Reqs \cup {None} /\ running \in BOOLEAN
  BY DEF Init
<1>7. target \in [Reqs -> Reqs \cup {None}] /\ no \in [Reqs -> Nat]
  BY DEF Init
<1>8. backup \in [Reqs -> {"none", "partial", "complete"}]
  BY DEF Init
<1>9. crashes \in 0..MaxCrashes /\ drops \in 0..MaxDrops /\ faults \in 0..MaxFaults
  BY BoundAssumption DEF Init
<1>10. /\ project \in BOOLEAN /\ rows \subseteq Reqs /\ current \subseteq rows
       /\ stopped \subseteq Reqs /\ detached \subseteq Reqs
  BY DEF Init
<1>. QED
  BY <1>1, <1>2, <1>4, <1>5, <1>6, <1>7, <1>8, <1>9, <1>10 DEF TypeOK

\* A version number is a number.
LEMMA NextNoType == ASSUME TypeOK, NEW n \in NextNo PROVE n \in Nat
BY DEF TypeOK, NextNo

\* What a request copies is a backup.
LEMMA CopiedType == ASSUME TypeOK, NEW r \in Reqs PROVE Copied(r) \in Backup
BY DEF TypeOK, Copied, Backup, Tree

\* A backup written over a tree gives a tree.
LEMMA OverlayType == ASSUME NEW t \in Tree, NEW b \in Backup PROVE Overlay(t, b) \in Tree
BY NoneAssumption DEF Tree, Backup, File, Overlay

\* What a request writes is a backup or the uploaded files.
LEMMA PutsType == ASSUME TypeOK, NEW r \in Reqs PROVE Puts(r) \in Backup
<1>1. CASE Restoring(r)
  <2>1. saved[target[r]] \in Backup
    BY <1>1 DEF TypeOK, Restoring
  <2>. QED
    BY <1>1, <2>1 DEF Puts, Backup, File
<1>2. CASE ~Restoring(r)
  BY <1>2 DEF Puts, Backup, File
<1>. QED
  BY <1>1, <1>2

\* A half written tree is a tree.
LEMMA HalfWrittenType == ASSUME TypeOK, NEW r \in Reqs PROVE HalfWritten(r) \in Tree
<1>. DEFINE b == [jar |-> IF Puts(r).jar \in {None, "absent"} THEN None ELSE "torn",
                  yml |-> IF Puts(r).yml \in {None, "absent"} THEN None ELSE "torn"]
<1>1. b \in Backup
  BY DEF Backup, File
<1>2. live \in Tree
  BY DEF TypeOK
<1>. QED
  BY <1>1, <1>2, OverlayType DEF HalfWritten

\* A request moves from step to step, and the lock from holder to nobody.
LEMMA GotoType ==
    ASSUME TypeOK, NEW r \in Reqs, NEW s \in Steps \cup Ended, Goto(r, s)
    PROVE  /\ pc' \in [Reqs -> Steps \cup Ended \cup {"idle"}]
           /\ lock' \in Reqs \cup {None}
BY DEF TypeOK, Goto, Ended

\* Every step keeps the types.
LEMMA TypeStep == ASSUME TypeOK, StepsOfOps, [Next]_vars PROVE TypeOK'
<1>1. ASSUME NEW r \in Reqs, CreateProject(r) PROVE TypeOK'
  BY OpsAssumption, NoneAssumption, <1>1 DEF CreateProject, Goto, Ended, TypeOK, Tree, Backup,
     File, Steps, Awaits, Admit, DbFree, AllOps
<1>2. ASSUME NEW r \in Reqs, CreateUpdateOrReplace(r) PROVE TypeOK'
  BY OpsAssumption, NoneAssumption, <1>2 DEF CreateUpdateOrReplace, Goto, Ended, TypeOK, Tree,
     Backup, File, Steps, Awaits, Admit, DbFree, AllOps
<1>3. ASSUME NEW r \in Reqs, Rollback(r) PROVE TypeOK'
  BY OpsAssumption, NoneAssumption, <1>3 DEF Rollback, Goto, Ended, TypeOK, Tree, Backup, File,
     Steps, Awaits, Admit, DbFree, AllOps
<1>4. ASSUME NEW r \in Reqs, SaveCompose(r) PROVE TypeOK'
  BY OpsAssumption, NoneAssumption, <1>4 DEF SaveCompose, Goto, Ended, TypeOK, Tree, Backup, File,
     Steps, Awaits, Admit, DbFree, AllOps
<1>5. ASSUME NEW r \in Reqs, DeleteProject(r) PROVE TypeOK'
  BY OpsAssumption, NoneAssumption, <1>5 DEF DeleteProject, Goto, Ended, TypeOK, Tree, Backup,
     File, Steps, Awaits, Admit, DbFree, AllOps
<1>6. ASSUME NEW r \in Reqs, DeleteOrphan(r) PROVE TypeOK'
  <2>1. PICK v \in Reqs \cup {None}, s \in {"rmdir", "rmroot"} : Admit(r, "orphan", None, v, s)
    BY <1>6 DEF DeleteOrphan
  <2>. QED
    BY <1>6, <2>1, NoneAssumption DEF DeleteOrphan, Admit, TypeOK, AllOps, Steps, Awaits
<1>7. ASSUME NEW r \in Reqs, Acquire(r) PROVE TypeOK'
  BY <1>7 DEF Acquire, Goto, Ended, TypeOK, Tree, Backup, File, Steps, Awaits
<1>8. ASSUME NEW r \in Reqs, Receive(r) PROVE TypeOK'
  BY NextNoType, <1>8 DEF Receive, Goto, Ended, TypeOK, Tree, Backup, File, Steps, Awaits
<1>9. ASSUME NEW r \in Reqs, BackUpDatabase(r) PROVE TypeOK'
  BY NextNoType, <1>9 DEF BackUpDatabase, Goto, Ended, TypeOK, Tree, Backup, File, Steps, Awaits
<1>10. ASSUME NEW r \in Reqs, TryLock(r) PROVE TypeOK'
  BY NextNoType, <1>10 DEF TryLock, Goto, Ended, TypeOK, Tree, Backup, File, Steps, Awaits
<1>11. ASSUME NEW r \in Reqs, ComposeDown(r) PROVE TypeOK'
  BY NextNoType, <1>11 DEF ComposeDown, Goto, Ended, TypeOK, Tree, Backup, File, Steps, Awaits
<1>12. ASSUME NEW r \in Reqs, StartCopy(r) PROVE TypeOK'
  BY CopiedType, <1>12 DEF StartCopy, Goto, Ended, TypeOK, Tree, Backup, File, Steps, Awaits
<1>13. ASSUME NEW r \in Reqs, FinishCopy(r) PROVE TypeOK'
  <2>1. saved' \in [Reqs -> Backup]
    BY <1>13, CopiedType DEF FinishCopy, TypeOK, Backup
  <2>2. backup' \in [Reqs -> {"none", "partial", "complete"}]
    BY <1>13 DEF FinishCopy, TypeOK
  <2>3. PICK s \in {"enroll", "load", "register"} : Goto(r, s)
    BY <1>13 DEF FinishCopy, AfterCopy
  <2>. QED
    BY <1>13, <2>1, <2>2, <2>3, GotoType DEF FinishCopy, TypeOK, Steps, Awaits
<1>14. ASSUME NEW r \in Reqs, InsertProject(r) PROVE TypeOK'
  BY <1>14 DEF InsertProject, Goto, Ended, TypeOK, Tree, Backup, File, Steps, Awaits
<1>15. ASSUME NEW r \in Reqs, InsertBaseline(r) PROVE TypeOK'
  BY <1>15 DEF InsertBaseline, Goto, Ended, TypeOK, Tree, Backup, File, Steps, Awaits
<1>16. ASSUME NEW r \in Reqs, InsertVersion(r) PROVE TypeOK'
  BY <1>16 DEF InsertVersion, Goto, Ended, TypeOK, Tree, Backup, File, Steps, Awaits
<1>17. ASSUME NEW r \in Reqs, LoadImages(r) PROVE TypeOK'
  BY <1>17 DEF LoadImages, Goto, Ended, TypeOK, Tree, Backup, File, Steps, Awaits
<1>18. ASSUME NEW r \in Reqs, StartWrite(r) PROVE TypeOK'
  <2>1. live' \in Tree
    BY <1>18, HalfWrittenType DEF StartWrite
  <2>. QED
    BY <1>18, <2>1 DEF StartWrite, Goto, Ended, TypeOK, Steps, Awaits
<1>19. ASSUME NEW r \in Reqs, FinishWrite(r) PROVE TypeOK'
  <2>1. pc[r] = "writing" => op[r] \in Writers
    BY DEF StepsOfOps
  <2>2. live' \in Tree
    BY <1>19, PutsType, OverlayType DEF FinishWrite, TypeOK
  <2>. QED
    BY <1>19, <2>1, <2>2 DEF FinishWrite, Goto, Ended, TypeOK, Steps, Awaits, Writers
<1>20. ASSUME NEW r \in Reqs, InstallCompose(r) PROVE TypeOK'
  BY <1>20 DEF InstallCompose, Goto, Ended, TypeOK, Tree, Backup, File, Steps, Awaits
<1>21. ASSUME NEW r \in Reqs, ClearCurrent(r) PROVE TypeOK'
  BY <1>21 DEF ClearCurrent, Goto, Ended, TypeOK, Tree, Backup, File, Steps, Awaits
<1>22. ASSUME NEW r \in Reqs, SetCurrent(r) PROVE TypeOK'
  BY <1>22 DEF SetCurrent, Goto, Ended, TypeOK, Tree, Backup, File, Steps, Awaits, Restoring
<1>23. ASSUME NEW r \in Reqs, Restart(r) PROVE TypeOK'
  BY <1>23 DEF Restart, Goto, Ended, TypeOK, Tree, Backup, File, Steps, Awaits
<1>24. ASSUME NEW r \in Reqs, ComposeUp(r) PROVE TypeOK'
  <2>1. faults' \in 0..MaxFaults
    BY <1>24, BoundAssumption DEF ComposeUp, TypeOK
  <2>2. running' \in BOOLEAN
    BY <1>24 DEF ComposeUp, TypeOK
  <2>. QED
    BY <1>24, <2>1, <2>2, GotoType DEF ComposeUp, TypeOK, Steps, Awaits, Ended
<1>25. ASSUME NEW r \in Reqs, Fail(r) PROVE TypeOK'
  <2>1. OnError(r) \in {"cleanup", "upagain", "failed"}
    BY DEF OnError
  <2>2. faults' \in 0..MaxFaults
    BY <1>25, BoundAssumption DEF Fail, TypeOK
  <2>3. running' \in BOOLEAN /\ project' \in BOOLEAN
    BY <1>25 DEF Fail, TypeOK
  <2>. QED
    BY <1>25, <2>1, <2>2, <2>3, GotoType DEF Fail, TypeOK, Steps, Awaits, Ended
<1>26. ASSUME NEW r \in Reqs, CleanUp(r) PROVE TypeOK'
  BY <1>26 DEF CleanUp, Goto, Ended, TypeOK, Tree, Backup, File, Steps, Awaits
<1>27. ASSUME NEW r \in Reqs, RemoveBackups(r) PROVE TypeOK'
  BY <1>27 DEF RemoveBackups, Goto, Ended, TypeOK, Tree, Backup, File, Steps, Awaits
<1>28. ASSUME NEW r \in Reqs, Drop(r) PROVE TypeOK'
  BY BoundAssumption, <1>28 DEF Drop, Goto, Ended, TypeOK, Tree, Backup, File, Steps, Awaits,
     Background
<1>29. CASE Crash
  <2>1. crashes' \in 0..MaxCrashes
    BY <1>29, BoundAssumption DEF Crash, TypeOK
  <2>2. pc' \in [Reqs -> Steps \cup Ended \cup {"idle"}]
    BY <1>29 DEF Crash, TypeOK, Ended
  <2>. QED
    BY <1>29, <2>1, <2>2 DEF Crash, TypeOK
<1>30. CASE UNCHANGED vars
  BY <1>30 DEF TypeOK, Tree, Backup, File, Steps, Awaits
<1>31. QED
  BY <1>1, <1>2, <1>3, <1>4, <1>5, <1>6, <1>7, <1>8, <1>9, <1>10, <1>11, <1>12, <1>13, <1>14,
     <1>15, <1>16, <1>17, <1>18, <1>19, <1>20, <1>21, <1>22, <1>23, <1>24, <1>25, <1>26, <1>27,
     <1>28, <1>29, <1>30 DEF Next, Arrive, Step, Rest

\* Every step keeps each handler to its own steps.
LEMMA StepsOfOpsStep == ASSUME TypeOK, StepsOfOps, [Next]_vars PROVE StepsOfOps'
<1> USE DEF Goto, Ended, TypeOK, StepsOfOps, Creates, Removals, Writers
<1>1. ASSUME NEW r \in Reqs, CreateProject(r) PROVE StepsOfOps'
  BY <1>1 DEF CreateProject, Admit, DbFree
<1>2. ASSUME NEW r \in Reqs, CreateUpdateOrReplace(r) PROVE StepsOfOps'
  BY NoneAssumption, <1>2 DEF CreateUpdateOrReplace, Admit, DbFree
<1>3. ASSUME NEW r \in Reqs, Rollback(r) PROVE StepsOfOps'
  BY <1>3 DEF Rollback, Admit, DbFree
<1>4. ASSUME NEW r \in Reqs, SaveCompose(r) PROVE StepsOfOps'
  BY <1>4 DEF SaveCompose, Admit, DbFree
<1>5. ASSUME NEW r \in Reqs, DeleteProject(r) PROVE StepsOfOps'
  BY <1>5 DEF DeleteProject, Admit, DbFree
<1>6. ASSUME NEW r \in Reqs, DeleteOrphan(r) PROVE StepsOfOps'
  BY <1>6 DEF DeleteOrphan, Admit, DbFree
<1>7. ASSUME NEW r \in Reqs, Acquire(r) PROVE StepsOfOps'
  BY <1>7 DEF Acquire
<1>8. ASSUME NEW r \in Reqs, Receive(r) PROVE StepsOfOps'
  BY <1>8 DEF Receive
<1>9. ASSUME NEW r \in Reqs, BackUpDatabase(r) PROVE StepsOfOps'
  BY <1>9 DEF BackUpDatabase
<1>10. ASSUME NEW r \in Reqs, TryLock(r) PROVE StepsOfOps'
  BY <1>10 DEF TryLock
<1>11. ASSUME NEW r \in Reqs, ComposeDown(r) PROVE StepsOfOps'
  BY <1>11 DEF ComposeDown
<1>12. ASSUME NEW r \in Reqs, StartCopy(r) PROVE StepsOfOps'
  BY <1>12 DEF StartCopy
<1>13. ASSUME NEW r \in Reqs, FinishCopy(r) PROVE StepsOfOps'
  BY <1>13 DEF FinishCopy, AfterCopy
<1>14. ASSUME NEW r \in Reqs, InsertProject(r) PROVE StepsOfOps'
  BY <1>14 DEF InsertProject, DbFree
<1>15. ASSUME NEW r \in Reqs, InsertBaseline(r) PROVE StepsOfOps'
  BY <1>15 DEF InsertBaseline
<1>16. ASSUME NEW r \in Reqs, InsertVersion(r) PROVE StepsOfOps'
  BY <1>16 DEF InsertVersion, Doomed, DbFree
<1>17. ASSUME NEW r \in Reqs, LoadImages(r) PROVE StepsOfOps'
  BY <1>17 DEF LoadImages
<1>18. ASSUME NEW r \in Reqs, StartWrite(r) PROVE StepsOfOps'
  BY <1>18 DEF StartWrite, Doomed, Restoring
<1>19. ASSUME NEW r \in Reqs, FinishWrite(r) PROVE StepsOfOps'
  BY <1>19 DEF FinishWrite, Restoring
<1>20. ASSUME NEW r \in Reqs, InstallCompose(r) PROVE StepsOfOps'
  BY <1>20 DEF InstallCompose
<1>21. ASSUME NEW r \in Reqs, ClearCurrent(r) PROVE StepsOfOps'
  BY <1>21 DEF ClearCurrent, DbFree
<1>22. ASSUME NEW r \in Reqs, SetCurrent(r) PROVE StepsOfOps'
  BY <1>22 DEF SetCurrent, Restoring
<1>23. ASSUME NEW r \in Reqs, Restart(r) PROVE StepsOfOps'
  BY <1>23 DEF Restart
<1>24. ASSUME NEW r \in Reqs, ComposeUp(r) PROVE StepsOfOps'
  BY <1>24 DEF ComposeUp
<1>25. ASSUME NEW r \in Reqs, Fail(r) PROVE StepsOfOps'
  BY <1>25 DEF Fail, OnError, MayFail, Doomed, Restoring
<1>26. ASSUME NEW r \in Reqs, CleanUp(r) PROVE StepsOfOps'
  BY <1>26 DEF CleanUp
<1>27. ASSUME NEW r \in Reqs, RemoveBackups(r) PROVE StepsOfOps'
  BY <1>27 DEF RemoveBackups
<1>28. ASSUME NEW r \in Reqs, Drop(r) PROVE StepsOfOps'
  BY <1>28 DEF Drop, Awaits, Background
<1>29. CASE Crash
  BY <1>29 DEF Crash, Active
<1>30. CASE UNCHANGED vars
  BY <1>30
<1>31. QED
  BY <1>1, <1>2, <1>3, <1>4, <1>5, <1>6, <1>7, <1>8, <1>9, <1>10, <1>11, <1>12, <1>13, <1>14,
     <1>15, <1>16, <1>17, <1>18, <1>19, <1>20, <1>21, <1>22, <1>23, <1>24, <1>25, <1>26, <1>27,
     <1>28, <1>29, <1>30 DEF Next, Arrive, Step, Rest

\* A request that arrives and is not a create keeps ProjectLife.
LEMMA AdmitLife ==
    ASSUME TypeOK, StepsOfOps, ProjectLife, NEW r \in Reqs, NEW o, NEW b, NEW v, NEW s,
           Admit(r, o, b, v, s), o \notin Creates,
           s \notin Opening \cup {"baseline", "clear", "mark"},
           project \/ s \in Ended \cup {"rmroot", "rmdir"},
           \/ project' = project /\ rows' = rows
           \/ ~project' /\ rows' = {}
    PROVE  ProjectLife'
<1>1. /\ pc[r] = "idle" /\ op[r] = None /\ op[r] \notin Creates
      /\ pc' = [pc EXCEPT ![r] = s] /\ op' = [op EXCEPT ![r] = o]
      /\ \A q \in Reqs : pc'[q] = (IF q = r THEN s ELSE pc[q])
      /\ \A q \in Reqs : op'[q] \in Creates <=> op[q] \in Creates
      /\ \A q \in Reqs \ {r} : pc[q] \notin {"baseline", "clear", "mark"}
  BY NoneAssumption DEF Admit, DbFree, TypeOK, StepsOfOps, Creates, AllOps
<1>. QED
  BY <1>1 DEF ProjectLife, Opening, Ended

\* Every step keeps ProjectLife.
LEMMA ProjectLifeStep == ASSUME TypeOK, StepsOfOps, ProjectLife, [Next]_vars PROVE ProjectLife'
<1> USE DEF Goto, Ended, TypeOK, StepsOfOps, ProjectLife, Opening, Creates, Removals, Writers
<1>1. ASSUME NEW r \in Reqs, CreateProject(r) PROVE ProjectLife'
  BY <1>1 DEF CreateProject, Admit, DbFree
<1>2. ASSUME NEW r \in Reqs, CreateUpdateOrReplace(r) PROVE ProjectLife'
  <2>1. PICK o \in Ops \cap {"update", "replace"}, b \in Bodies :
            Admit(r, o, b, None, IF project THEN "queue" ELSE "refused")
    BY <1>2 DEF CreateUpdateOrReplace
  <2>2. UNCHANGED db
    BY <1>2 DEF CreateUpdateOrReplace
  <2>. QED
    BY <2>1, <2>2, AdmitLife DEF db, Creates, Ended, Opening
<1>3. ASSUME NEW r \in Reqs, Rollback(r) PROVE ProjectLife'
  <2>1. PICK v \in rows, b \in Bodies :
            Admit(r, IF IsJarBackup(v) THEN "jar-rollback" ELSE "rollback", b, v, "try")
    BY <1>3 DEF Rollback
  <2>2. UNCHANGED db /\ project
    BY <1>3, <2>1 DEF Rollback, ProjectLife
  <2>. QED
    BY <2>1, <2>2, AdmitLife DEF db, Creates, Ended, Opening
<1>4. ASSUME NEW r \in Reqs, SaveCompose(r) PROVE ProjectLife'
  <2>1. PICK b \in Bodies : Admit(r, "edit", b, None, IF project THEN "queue" ELSE "refused")
    BY <1>4 DEF SaveCompose
  <2>2. UNCHANGED db
    BY <1>4 DEF SaveCompose
  <2>. QED
    BY <2>1, <2>2, AdmitLife DEF db, Creates, Ended, Opening
<1>5. ASSUME NEW r \in Reqs, DeleteProject(r) PROVE ProjectLife'
  <2>1. Admit(r, "delete", None, None, IF project THEN "rmroot" ELSE "refused")
        /\ project' = FALSE /\ rows' = {} /\ current' = {}
    BY <1>5 DEF DeleteProject
  <2>. QED
    BY <2>1, AdmitLife DEF Creates, Ended, Opening
<1>6. ASSUME NEW r \in Reqs, DeleteOrphan(r) PROVE ProjectLife'
  <2>1. PICK v \in Reqs \cup {None}, s \in {"rmdir", "rmroot"} : Admit(r, "orphan", None, v, s)
    BY <1>6 DEF DeleteOrphan
  <2>2. UNCHANGED db
    BY <1>6 DEF DeleteOrphan
  <2>. QED
    BY <2>1, <2>2, AdmitLife DEF db, Creates, Ended, Opening
<1>7. ASSUME NEW r \in Reqs, Acquire(r) PROVE ProjectLife'
  BY <1>7 DEF Acquire
<1>8. ASSUME NEW r \in Reqs, Receive(r) PROVE ProjectLife'
  BY <1>8 DEF Receive
<1>9. ASSUME NEW r \in Reqs, BackUpDatabase(r) PROVE ProjectLife'
  BY <1>9 DEF BackUpDatabase
<1>10. ASSUME NEW r \in Reqs, TryLock(r) PROVE ProjectLife'
  BY <1>10 DEF TryLock
<1>11. ASSUME NEW r \in Reqs, ComposeDown(r) PROVE ProjectLife'
  BY <1>11 DEF ComposeDown
<1>12. ASSUME NEW r \in Reqs, StartCopy(r) PROVE ProjectLife'
  BY <1>12 DEF StartCopy
<1>13. ASSUME NEW r \in Reqs, FinishCopy(r) PROVE ProjectLife'
  BY <1>13 DEF FinishCopy, AfterCopy
<1>14. ASSUME NEW r \in Reqs, InsertProject(r) PROVE ProjectLife'
  BY <1>14 DEF InsertProject, DbFree
<1>15. ASSUME NEW r \in Reqs, InsertBaseline(r) PROVE ProjectLife'
  BY <1>15 DEF InsertBaseline
<1>16. ASSUME NEW r \in Reqs, InsertVersion(r) PROVE ProjectLife'
  BY <1>16 DEF InsertVersion, Doomed, DbFree
<1>17. ASSUME NEW r \in Reqs, LoadImages(r) PROVE ProjectLife'
  BY <1>17 DEF LoadImages
<1>18. ASSUME NEW r \in Reqs, StartWrite(r) PROVE ProjectLife'
  BY <1>18 DEF StartWrite, Doomed, Restoring
<1>19. ASSUME NEW r \in Reqs, FinishWrite(r) PROVE ProjectLife'
  BY <1>19 DEF FinishWrite, Restoring
<1>20. ASSUME NEW r \in Reqs, InstallCompose(r) PROVE ProjectLife'
  BY <1>20 DEF InstallCompose
<1>21. ASSUME NEW r \in Reqs, ClearCurrent(r) PROVE ProjectLife'
  BY <1>21 DEF ClearCurrent, DbFree
<1>22. ASSUME NEW r \in Reqs, SetCurrent(r) PROVE ProjectLife'
  BY <1>22 DEF SetCurrent, Restoring
<1>23. ASSUME NEW r \in Reqs, Restart(r) PROVE ProjectLife'
  BY <1>23 DEF Restart
<1>24. ASSUME NEW r \in Reqs, ComposeUp(r) PROVE ProjectLife'
  BY <1>24 DEF ComposeUp
<1>25. ASSUME NEW r \in Reqs, Fail(r) PROVE ProjectLife'
  BY <1>25 DEF Fail, OnError, MayFail, Doomed, Restoring
<1>26. ASSUME NEW r \in Reqs, CleanUp(r) PROVE ProjectLife'
  BY <1>26 DEF CleanUp
<1>27. ASSUME NEW r \in Reqs, RemoveBackups(r) PROVE ProjectLife'
  BY <1>27 DEF RemoveBackups
<1>28. ASSUME NEW r \in Reqs, Drop(r) PROVE ProjectLife'
  BY <1>28 DEF Drop, Awaits, Background
<1>29. CASE Crash
  BY <1>29 DEF Crash, Active
<1>30. CASE UNCHANGED vars
  BY <1>30
<1>31. QED
  BY <1>1, <1>2, <1>3, <1>4, <1>5, <1>6, <1>7, <1>8, <1>9, <1>10, <1>11, <1>12, <1>13, <1>14,
     <1>15, <1>16, <1>17, <1>18, <1>19, <1>20, <1>21, <1>22, <1>23, <1>24, <1>25, <1>26, <1>27,
     <1>28, <1>29, <1>30 DEF Next, Arrive, Step, Rest

\* A request that arrives and waits for the lock, or is refused, keeps BackupLife.
LEMMA AdmitBackup ==
    ASSUME TypeOK, StepsOfOps, BackupLife, NEW r \in Reqs, NEW o, NEW b, NEW v, NEW s,
           Admit(r, o, b, v, s), s \in {"queue", "refused"}, UNCHANGED db
    PROVE  BackupLife'
<1>1. /\ pc[r] = "idle" /\ op[r] = None /\ op[r] \notin Creates /\ r \notin rows
      /\ \A q \in Reqs : pc'[q] = (IF q = r THEN s ELSE pc[q])
      /\ \A q \in Reqs : op'[q] = (IF q = r THEN o ELSE op[q])
      /\ UNCHANGED <<project, rows, backup>>
  BY NoneAssumption DEF Admit, TypeOK, StepsOfOps, Creates, BackupLife, Unlisted, AllOps, db,
     store
<1>. QED
  BY <1>1 DEF BackupLife, RegisteredBackupsExist, Unlisted, Opening, TypeOK

\* Without the deletion of leftovers every step keeps BackupLife.
LEMMA BackupLifeStep ==
    ASSUME TypeOK, StepsOfOps, ProjectLife, BackupLife, "orphan" \notin Ops, [Next]_vars
    PROVE  BackupLife'
<1> USE DEF Goto, Ended, TypeOK, StepsOfOps, ProjectLife, BackupLife, RegisteredBackupsExist,
       Unlisted, Opening, Creates, Removals, Writers
<1>1. ASSUME NEW r \in Reqs, CreateProject(r) PROVE BackupLife'
  BY <1>1 DEF CreateProject, Admit, DbFree
<1>2. ASSUME NEW r \in Reqs, CreateUpdateOrReplace(r) PROVE BackupLife'
  <2>1. PICK o \in Ops \cap {"update", "replace"}, b \in Bodies :
            Admit(r, o, b, None, IF project THEN "queue" ELSE "refused")
    BY <1>2 DEF CreateUpdateOrReplace
  <2>2. UNCHANGED db
    BY <1>2 DEF CreateUpdateOrReplace
  <2>. QED
    BY <2>1, <2>2, AdmitBackup DEF db, Creates, Ended, Opening
<1>3. ASSUME NEW r \in Reqs, Rollback(r) PROVE BackupLife'
  BY <1>3 DEF Rollback, Admit, DbFree
<1>4. ASSUME NEW r \in Reqs, SaveCompose(r) PROVE BackupLife'
  <2>1. PICK b \in Bodies : Admit(r, "edit", b, None, IF project THEN "queue" ELSE "refused")
    BY <1>4 DEF SaveCompose
  <2>2. UNCHANGED db
    BY <1>4 DEF SaveCompose
  <2>. QED
    BY <2>1, <2>2, AdmitBackup DEF db, Creates, Ended, Opening
<1>5. ASSUME NEW r \in Reqs, DeleteProject(r) PROVE BackupLife'
  <2>1. /\ Admit(r, "delete", None, None, IF project THEN "rmroot" ELSE "refused")
        /\ project' = FALSE /\ rows' = {}
    BY <1>5 DEF DeleteProject
  <2>2. /\ pc[r] = "idle" /\ op[r] = None /\ op[r] \notin Creates
        /\ \A q \in Reqs : pc'[q] = (IF q = r THEN IF project THEN "rmroot" ELSE "refused" ELSE pc[q])
        /\ \A q \in Reqs : op'[q] = (IF q = r THEN "delete" ELSE op[q])
        /\ UNCHANGED backup
        /\ \A q \in Reqs \ {r} : pc[q] # "baseline"
    BY <2>1, NoneAssumption DEF Admit, DbFree, TypeOK, StepsOfOps, Creates, AllOps, store
  <2>. QED
    BY <2>1, <2>2 DEF BackupLife, ProjectLife, RegisteredBackupsExist, Creates, Opening, TypeOK
<1>6. ASSUME NEW r \in Reqs, DeleteOrphan(r) PROVE BackupLife'
  BY <1>6 DEF DeleteOrphan, Admit, DbFree
<1>7. ASSUME NEW r \in Reqs, Acquire(r) PROVE BackupLife'
  BY <1>7 DEF Acquire
<1>8. ASSUME NEW r \in Reqs, Receive(r) PROVE BackupLife'
  BY <1>8 DEF Receive
<1>9. ASSUME NEW r \in Reqs, BackUpDatabase(r) PROVE BackupLife'
  BY <1>9 DEF BackUpDatabase
<1>10. ASSUME NEW r \in Reqs, TryLock(r) PROVE BackupLife'
  BY <1>10 DEF TryLock
<1>11. ASSUME NEW r \in Reqs, ComposeDown(r) PROVE BackupLife'
  BY <1>11 DEF ComposeDown
<1>12. ASSUME NEW r \in Reqs, StartCopy(r) PROVE BackupLife'
  BY <1>12 DEF StartCopy
<1>13. ASSUME NEW r \in Reqs, FinishCopy(r) PROVE BackupLife'
  BY <1>13 DEF FinishCopy, AfterCopy
<1>14. ASSUME NEW r \in Reqs, InsertProject(r) PROVE BackupLife'
  BY <1>14 DEF InsertProject, DbFree
<1>15. ASSUME NEW r \in Reqs, InsertBaseline(r) PROVE BackupLife'
  BY <1>15 DEF InsertBaseline
<1>16. ASSUME NEW r \in Reqs, InsertVersion(r) PROVE BackupLife'
  BY <1>16 DEF InsertVersion, Doomed, DbFree
<1>17. ASSUME NEW r \in Reqs, LoadImages(r) PROVE BackupLife'
  BY <1>17 DEF LoadImages
<1>18. ASSUME NEW r \in Reqs, StartWrite(r) PROVE BackupLife'
  BY <1>18 DEF StartWrite, Doomed, Restoring
<1>19. ASSUME NEW r \in Reqs, FinishWrite(r) PROVE BackupLife'
  BY <1>19 DEF FinishWrite, Restoring
<1>20. ASSUME NEW r \in Reqs, InstallCompose(r) PROVE BackupLife'
  BY <1>20 DEF InstallCompose
<1>21. ASSUME NEW r \in Reqs, ClearCurrent(r) PROVE BackupLife'
  BY <1>21 DEF ClearCurrent, DbFree
<1>22. ASSUME NEW r \in Reqs, SetCurrent(r) PROVE BackupLife'
  BY <1>22 DEF SetCurrent, Restoring
<1>23. ASSUME NEW r \in Reqs, Restart(r) PROVE BackupLife'
  BY <1>23 DEF Restart
<1>24. ASSUME NEW r \in Reqs, ComposeUp(r) PROVE BackupLife'
  BY <1>24 DEF ComposeUp
<1>25. ASSUME NEW r \in Reqs, Fail(r) PROVE BackupLife'
  BY <1>25 DEF Fail, OnError, MayFail, Doomed, Restoring
<1>26. ASSUME NEW r \in Reqs, CleanUp(r) PROVE BackupLife'
  BY <1>26 DEF CleanUp
<1>27. ASSUME NEW r \in Reqs, RemoveBackups(r) PROVE BackupLife'
  BY <1>27 DEF RemoveBackups
<1>28. ASSUME NEW r \in Reqs, Drop(r) PROVE BackupLife'
  BY <1>28 DEF Drop, Awaits, Background
<1>29. CASE Crash
  BY <1>29 DEF Crash, Active
<1>30. CASE UNCHANGED vars
  BY <1>30
<1>31. QED
  BY <1>1, <1>2, <1>3, <1>4, <1>5, <1>6, <1>7, <1>8, <1>9, <1>10, <1>11, <1>12, <1>13, <1>14,
     <1>15, <1>16, <1>17, <1>18, <1>19, <1>20, <1>21, <1>22, <1>23, <1>24, <1>25, <1>26, <1>27,
     <1>28, <1>29, <1>30 DEF Next, Arrive, Step, Rest

\* While clients wait, every step leaves the lock with the handler that took it.
LEMMA LockHeldStep == ASSUME TypeOK, StepsOfOps, LockHeld, MaxDrops = 0, [Next]_vars PROVE LockHeld'
<1> USE DEF Goto, Ended, TypeOK, StepsOfOps, LockHeld, Locked, Creates, Removals, Writers
<1>1. ASSUME NEW r \in Reqs, CreateProject(r) PROVE LockHeld'
  BY <1>1 DEF CreateProject, Admit, DbFree
<1>2. ASSUME NEW r \in Reqs, CreateUpdateOrReplace(r) PROVE LockHeld'
  BY <1>2 DEF CreateUpdateOrReplace, Admit, DbFree
<1>3. ASSUME NEW r \in Reqs, Rollback(r) PROVE LockHeld'
  BY <1>3 DEF Rollback, Admit, DbFree
<1>4. ASSUME NEW r \in Reqs, SaveCompose(r) PROVE LockHeld'
  BY <1>4 DEF SaveCompose, Admit, DbFree
<1>5. ASSUME NEW r \in Reqs, DeleteProject(r) PROVE LockHeld'
  BY <1>5 DEF DeleteProject, Admit, DbFree
<1>6. ASSUME NEW r \in Reqs, DeleteOrphan(r) PROVE LockHeld'
  BY <1>6 DEF DeleteOrphan, Admit, DbFree
<1>7. ASSUME NEW r \in Reqs, Acquire(r) PROVE LockHeld'
  BY NoneAssumption, <1>7 DEF Acquire
<1>8. ASSUME NEW r \in Reqs, Receive(r) PROVE LockHeld'
  BY <1>8 DEF Receive
<1>9. ASSUME NEW r \in Reqs, BackUpDatabase(r) PROVE LockHeld'
  BY <1>9 DEF BackUpDatabase
<1>10. ASSUME NEW r \in Reqs, TryLock(r) PROVE LockHeld'
  BY NoneAssumption, <1>10 DEF TryLock
<1>11. ASSUME NEW r \in Reqs, ComposeDown(r) PROVE LockHeld'
  BY <1>11 DEF ComposeDown
<1>12. ASSUME NEW r \in Reqs, StartCopy(r) PROVE LockHeld'
  BY <1>12 DEF StartCopy
<1>13. ASSUME NEW r \in Reqs, FinishCopy(r) PROVE LockHeld'
  BY <1>13 DEF FinishCopy, AfterCopy
<1>14. ASSUME NEW r \in Reqs, InsertProject(r) PROVE LockHeld'
  BY <1>14 DEF InsertProject, DbFree
<1>15. ASSUME NEW r \in Reqs, InsertBaseline(r) PROVE LockHeld'
  BY <1>15 DEF InsertBaseline
<1>16. ASSUME NEW r \in Reqs, InsertVersion(r) PROVE LockHeld'
  BY <1>16 DEF InsertVersion, Doomed, DbFree
<1>17. ASSUME NEW r \in Reqs, LoadImages(r) PROVE LockHeld'
  BY <1>17 DEF LoadImages
<1>18. ASSUME NEW r \in Reqs, StartWrite(r) PROVE LockHeld'
  BY <1>18 DEF StartWrite, Doomed, Restoring
<1>19. ASSUME NEW r \in Reqs, FinishWrite(r) PROVE LockHeld'
  BY <1>19 DEF FinishWrite, Restoring
<1>20. ASSUME NEW r \in Reqs, InstallCompose(r) PROVE LockHeld'
  BY <1>20 DEF InstallCompose
<1>21. ASSUME NEW r \in Reqs, ClearCurrent(r) PROVE LockHeld'
  BY <1>21 DEF ClearCurrent, DbFree
<1>22. ASSUME NEW r \in Reqs, SetCurrent(r) PROVE LockHeld'
  BY <1>22 DEF SetCurrent, Restoring
<1>23. ASSUME NEW r \in Reqs, Restart(r) PROVE LockHeld'
  BY <1>23 DEF Restart
<1>24. ASSUME NEW r \in Reqs, ComposeUp(r) PROVE LockHeld'
  BY <1>24 DEF ComposeUp
<1>25. ASSUME NEW r \in Reqs, Fail(r) PROVE LockHeld'
  BY <1>25 DEF Fail, OnError, MayFail, Doomed, Restoring
<1>26. ASSUME NEW r \in Reqs, CleanUp(r) PROVE LockHeld'
  BY <1>26 DEF CleanUp
<1>27. ASSUME NEW r \in Reqs, RemoveBackups(r) PROVE LockHeld'
  BY <1>27 DEF RemoveBackups
<1>28. ASSUME NEW r \in Reqs, Drop(r) PROVE LockHeld'
  BY <1>28 DEF Drop, Awaits, Background
<1>29. CASE Crash
  BY <1>29 DEF Crash, Active
<1>30. CASE UNCHANGED vars
  BY <1>30
<1>31. QED
  BY <1>1, <1>2, <1>3, <1>4, <1>5, <1>6, <1>7, <1>8, <1>9, <1>10, <1>11, <1>12, <1>13, <1>14,
     <1>15, <1>16, <1>17, <1>18, <1>19, <1>20, <1>21, <1>22, <1>23, <1>24, <1>25, <1>26, <1>27,
     <1>28, <1>29, <1>30 DEF Next, Arrive, Step, Rest

\* While clients wait, no step writes to the tree another request copies.
LEMMA BackupIsExactStep ==
    ASSUME TypeOK, StepsOfOps, ProjectLife, LockHeld, BackupIsExact, MaxDrops = 0, [Next]_vars
    PROVE  BackupIsExact'
<1> USE DEF Goto, Ended, TypeOK, StepsOfOps, ProjectLife, LockHeld, Locked, Opening,
       BackupIsExact, Copied, Creates, Removals, Writers
<1>1. ASSUME NEW r \in Reqs, CreateProject(r) PROVE BackupIsExact'
  BY <1>1 DEF CreateProject, Admit, DbFree
<1>2. ASSUME NEW r \in Reqs, CreateUpdateOrReplace(r) PROVE BackupIsExact'
  BY <1>2 DEF CreateUpdateOrReplace, Admit, DbFree
<1>3. ASSUME NEW r \in Reqs, Rollback(r) PROVE BackupIsExact'
  BY <1>3 DEF Rollback, Admit, DbFree
<1>4. ASSUME NEW r \in Reqs, SaveCompose(r) PROVE BackupIsExact'
  BY <1>4 DEF SaveCompose, Admit, DbFree
<1>5. ASSUME NEW r \in Reqs, DeleteProject(r) PROVE BackupIsExact'
  BY <1>5 DEF DeleteProject, Admit, DbFree
<1>6. ASSUME NEW r \in Reqs, DeleteOrphan(r) PROVE BackupIsExact'
  BY <1>6 DEF DeleteOrphan, Admit, DbFree
<1>7. ASSUME NEW r \in Reqs, Acquire(r) PROVE BackupIsExact'
  BY <1>7 DEF Acquire
<1>8. ASSUME NEW r \in Reqs, Receive(r) PROVE BackupIsExact'
  BY <1>8 DEF Receive
<1>9. ASSUME NEW r \in Reqs, BackUpDatabase(r) PROVE BackupIsExact'
  BY <1>9 DEF BackUpDatabase
<1>10. ASSUME NEW r \in Reqs, TryLock(r) PROVE BackupIsExact'
  BY <1>10 DEF TryLock
<1>11. ASSUME NEW r \in Reqs, ComposeDown(r) PROVE BackupIsExact'
  BY <1>11 DEF ComposeDown
<1>12. ASSUME NEW r \in Reqs, StartCopy(r) PROVE BackupIsExact'
  BY <1>12 DEF StartCopy
<1>13. ASSUME NEW r \in Reqs, FinishCopy(r) PROVE BackupIsExact'
  BY <1>13 DEF FinishCopy, AfterCopy
<1>14. ASSUME NEW r \in Reqs, InsertProject(r) PROVE BackupIsExact'
  BY <1>14 DEF InsertProject, DbFree
<1>15. ASSUME NEW r \in Reqs, InsertBaseline(r) PROVE BackupIsExact'
  BY <1>15 DEF InsertBaseline
<1>16. ASSUME NEW r \in Reqs, InsertVersion(r) PROVE BackupIsExact'
  BY <1>16 DEF InsertVersion, Doomed, DbFree
<1>17. ASSUME NEW r \in Reqs, LoadImages(r) PROVE BackupIsExact'
  BY <1>17 DEF LoadImages
<1>18. ASSUME NEW r \in Reqs, StartWrite(r) PROVE BackupIsExact'
  BY <1>18 DEF StartWrite, Doomed, Restoring
<1>19. ASSUME NEW r \in Reqs, FinishWrite(r) PROVE BackupIsExact'
  BY <1>19 DEF FinishWrite, Restoring
<1>20. ASSUME NEW r \in Reqs, InstallCompose(r) PROVE BackupIsExact'
  BY <1>20 DEF InstallCompose
<1>21. ASSUME NEW r \in Reqs, ClearCurrent(r) PROVE BackupIsExact'
  BY <1>21 DEF ClearCurrent, DbFree
<1>22. ASSUME NEW r \in Reqs, SetCurrent(r) PROVE BackupIsExact'
  BY <1>22 DEF SetCurrent, Restoring
<1>23. ASSUME NEW r \in Reqs, Restart(r) PROVE BackupIsExact'
  BY <1>23 DEF Restart
<1>24. ASSUME NEW r \in Reqs, ComposeUp(r) PROVE BackupIsExact'
  BY <1>24 DEF ComposeUp
<1>25. ASSUME NEW r \in Reqs, Fail(r) PROVE BackupIsExact'
  BY <1>25 DEF Fail, OnError, MayFail, Doomed, Restoring
<1>26. ASSUME NEW r \in Reqs, CleanUp(r) PROVE BackupIsExact'
  BY <1>26 DEF CleanUp
<1>27. ASSUME NEW r \in Reqs, RemoveBackups(r) PROVE BackupIsExact'
  BY <1>27 DEF RemoveBackups
<1>28. ASSUME NEW r \in Reqs, Drop(r) PROVE BackupIsExact'
  BY <1>28 DEF Drop, Awaits, Background
<1>29. CASE Crash
  BY <1>29 DEF Crash, Active
<1>30. CASE UNCHANGED vars
  BY <1>30
<1>31. QED
  BY <1>1, <1>2, <1>3, <1>4, <1>5, <1>6, <1>7, <1>8, <1>9, <1>10, <1>11, <1>12, <1>13, <1>14,
     <1>15, <1>16, <1>17, <1>18, <1>19, <1>20, <1>21, <1>22, <1>23, <1>24, <1>25, <1>26, <1>27,
     <1>28, <1>29, <1>30 DEF Next, Arrive, Step, Rest

\* Every step keeps each handler to its path.
LEMMA PathsStep ==
    ASSUME TypeOK, StepsOfOps, Paths, [Next]_vars
    PROVE  Paths'
<1> USE DEF Goto, Ended, TypeOK, StepsOfOps, Creates, Removals, Writers, Paths, Restoring
<1>1. ASSUME NEW r \in Reqs, CreateProject(r) PROVE Paths'
  BY <1>1 DEF CreateProject, Admit, DbFree
<1>2. ASSUME NEW r \in Reqs, CreateUpdateOrReplace(r) PROVE Paths'
  BY <1>2 DEF CreateUpdateOrReplace, Admit, DbFree
<1>3. ASSUME NEW r \in Reqs, Rollback(r) PROVE Paths'
  BY <1>3 DEF Rollback, Admit, DbFree
<1>4. ASSUME NEW r \in Reqs, SaveCompose(r) PROVE Paths'
  BY <1>4 DEF SaveCompose, Admit, DbFree
<1>5. ASSUME NEW r \in Reqs, DeleteProject(r) PROVE Paths'
  BY <1>5 DEF DeleteProject, Admit, DbFree
<1>6. ASSUME NEW r \in Reqs, DeleteOrphan(r) PROVE Paths'
  BY <1>6 DEF DeleteOrphan, Admit, DbFree
<1>7. ASSUME NEW r \in Reqs, Acquire(r) PROVE Paths'
  BY <1>7 DEF Acquire
<1>8. ASSUME NEW r \in Reqs, Receive(r) PROVE Paths'
  BY <1>8 DEF Receive
<1>9. ASSUME NEW r \in Reqs, BackUpDatabase(r) PROVE Paths'
  BY <1>9 DEF BackUpDatabase
<1>10. ASSUME NEW r \in Reqs, TryLock(r) PROVE Paths'
  BY <1>10 DEF TryLock
<1>11. ASSUME NEW r \in Reqs, ComposeDown(r) PROVE Paths'
  BY <1>11 DEF ComposeDown
<1>12. ASSUME NEW r \in Reqs, StartCopy(r) PROVE Paths'
  BY <1>12 DEF StartCopy
<1>13. ASSUME NEW r \in Reqs, FinishCopy(r) PROVE Paths'
  BY <1>13 DEF FinishCopy, AfterCopy
<1>14. ASSUME NEW r \in Reqs, InsertProject(r) PROVE Paths'
  BY <1>14 DEF InsertProject, DbFree
<1>15. ASSUME NEW r \in Reqs, InsertBaseline(r) PROVE Paths'
  BY <1>15 DEF InsertBaseline
<1>16. ASSUME NEW r \in Reqs, InsertVersion(r) PROVE Paths'
  BY <1>16 DEF InsertVersion, DbFree
<1>17. ASSUME NEW r \in Reqs, LoadImages(r) PROVE Paths'
  BY <1>17 DEF LoadImages
<1>18. ASSUME NEW r \in Reqs, StartWrite(r) PROVE Paths'
  BY <1>18 DEF StartWrite
<1>19. ASSUME NEW r \in Reqs, FinishWrite(r) PROVE Paths'
  BY <1>19 DEF FinishWrite
<1>20. ASSUME NEW r \in Reqs, InstallCompose(r) PROVE Paths'
  BY <1>20 DEF InstallCompose
<1>21. ASSUME NEW r \in Reqs, ClearCurrent(r) PROVE Paths'
  BY <1>21 DEF ClearCurrent, DbFree
<1>22. ASSUME NEW r \in Reqs, SetCurrent(r) PROVE Paths'
  BY <1>22 DEF SetCurrent
<1>23. ASSUME NEW r \in Reqs, Restart(r) PROVE Paths'
  BY <1>23 DEF Restart
<1>24. ASSUME NEW r \in Reqs, ComposeUp(r) PROVE Paths'
  BY <1>24 DEF ComposeUp
<1>25. ASSUME NEW r \in Reqs, Fail(r) PROVE Paths'
  BY <1>25 DEF Fail, OnError, MayFail, Doomed
<1>26. ASSUME NEW r \in Reqs, CleanUp(r) PROVE Paths'
  BY <1>26 DEF CleanUp
<1>27. ASSUME NEW r \in Reqs, RemoveBackups(r) PROVE Paths'
  BY <1>27 DEF RemoveBackups
<1>28. ASSUME NEW r \in Reqs, Drop(r) PROVE Paths'
  BY <1>28 DEF Drop, Background, Awaits
<1>29. CASE Crash
  BY <1>29 DEF Crash, Active
<1>30. CASE UNCHANGED vars
  BY <1>30
<1>31. QED
  BY <1>1, <1>2, <1>3, <1>4, <1>5, <1>6, <1>7, <1>8, <1>9, <1>10, <1>11, <1>12, <1>13, <1>14,
     <1>15, <1>16, <1>17, <1>18, <1>19, <1>20, <1>21, <1>22, <1>23, <1>24, <1>25, <1>26, <1>27,
     <1>28, <1>29, <1>30 DEF Next, Arrive, Step, Rest

\* Every step keeps NotListedYet.
LEMMA NotListedYetStep ==
    ASSUME TypeOK, StepsOfOps, ProjectLife, NotListedYet, [Next]_vars
    PROVE  NotListedYet'
<1> USE DEF Goto, Ended, TypeOK, StepsOfOps, Creates, Removals, Writers, ProjectLife,
       NotListedYet, Unlisted, Opening
<1>1. ASSUME NEW r \in Reqs, CreateProject(r) PROVE NotListedYet'
  BY <1>1 DEF CreateProject, Admit, DbFree
<1>2. ASSUME NEW r \in Reqs, CreateUpdateOrReplace(r) PROVE NotListedYet'
  BY <1>2 DEF CreateUpdateOrReplace, Admit, DbFree
<1>3. ASSUME NEW r \in Reqs, Rollback(r) PROVE NotListedYet'
  BY <1>3 DEF Rollback, Admit, DbFree
<1>4. ASSUME NEW r \in Reqs, SaveCompose(r) PROVE NotListedYet'
  BY <1>4 DEF SaveCompose, Admit, DbFree
<1>5. ASSUME NEW r \in Reqs, DeleteProject(r) PROVE NotListedYet'
  BY <1>5 DEF DeleteProject, Admit, DbFree
<1>6. ASSUME NEW r \in Reqs, DeleteOrphan(r) PROVE NotListedYet'
  BY <1>6 DEF DeleteOrphan, Admit, DbFree
<1>7. ASSUME NEW r \in Reqs, Acquire(r) PROVE NotListedYet'
  BY <1>7 DEF Acquire
<1>8. ASSUME NEW r \in Reqs, Receive(r) PROVE NotListedYet'
  BY <1>8 DEF Receive
<1>9. ASSUME NEW r \in Reqs, BackUpDatabase(r) PROVE NotListedYet'
  BY <1>9 DEF BackUpDatabase
<1>10. ASSUME NEW r \in Reqs, TryLock(r) PROVE NotListedYet'
  BY <1>10 DEF TryLock
<1>11. ASSUME NEW r \in Reqs, ComposeDown(r) PROVE NotListedYet'
  BY <1>11 DEF ComposeDown
<1>12. ASSUME NEW r \in Reqs, StartCopy(r) PROVE NotListedYet'
  BY <1>12 DEF StartCopy
<1>13. ASSUME NEW r \in Reqs, FinishCopy(r) PROVE NotListedYet'
  BY <1>13 DEF FinishCopy, AfterCopy
<1>14. ASSUME NEW r \in Reqs, InsertProject(r) PROVE NotListedYet'
  BY <1>14 DEF InsertProject, DbFree
<1>15. ASSUME NEW r \in Reqs, InsertBaseline(r) PROVE NotListedYet'
  BY <1>15 DEF InsertBaseline
<1>16. ASSUME NEW r \in Reqs, InsertVersion(r) PROVE NotListedYet'
  BY <1>16 DEF InsertVersion, DbFree
<1>17. ASSUME NEW r \in Reqs, LoadImages(r) PROVE NotListedYet'
  BY <1>17 DEF LoadImages
<1>18. ASSUME NEW r \in Reqs, StartWrite(r) PROVE NotListedYet'
  BY <1>18 DEF StartWrite
<1>19. ASSUME NEW r \in Reqs, FinishWrite(r) PROVE NotListedYet'
  BY <1>19 DEF FinishWrite
<1>20. ASSUME NEW r \in Reqs, InstallCompose(r) PROVE NotListedYet'
  BY <1>20 DEF InstallCompose
<1>21. ASSUME NEW r \in Reqs, ClearCurrent(r) PROVE NotListedYet'
  BY <1>21 DEF ClearCurrent, DbFree
<1>22. ASSUME NEW r \in Reqs, SetCurrent(r) PROVE NotListedYet'
  BY <1>22 DEF SetCurrent
<1>23. ASSUME NEW r \in Reqs, Restart(r) PROVE NotListedYet'
  BY <1>23 DEF Restart
<1>24. ASSUME NEW r \in Reqs, ComposeUp(r) PROVE NotListedYet'
  BY <1>24 DEF ComposeUp
<1>25. ASSUME NEW r \in Reqs, Fail(r) PROVE NotListedYet'
  BY <1>25 DEF Fail, OnError, MayFail, Doomed
<1>26. ASSUME NEW r \in Reqs, CleanUp(r) PROVE NotListedYet'
  BY <1>26 DEF CleanUp
<1>27. ASSUME NEW r \in Reqs, RemoveBackups(r) PROVE NotListedYet'
  BY <1>27 DEF RemoveBackups
<1>28. ASSUME NEW r \in Reqs, Drop(r) PROVE NotListedYet'
  BY <1>28 DEF Drop, Background, Awaits
<1>29. CASE Crash
  BY <1>29 DEF Crash, Active
<1>30. CASE UNCHANGED vars
  BY <1>30
<1>31. QED
  BY <1>1, <1>2, <1>3, <1>4, <1>5, <1>6, <1>7, <1>8, <1>9, <1>10, <1>11, <1>12, <1>13, <1>14,
     <1>15, <1>16, <1>17, <1>18, <1>19, <1>20, <1>21, <1>22, <1>23, <1>24, <1>25, <1>26, <1>27,
     <1>28, <1>29, <1>30 DEF Next, Arrive, Step, Rest

\* A request that arrives keeps TargetsStay, if what it is to restore is listed.
LEMMA AdmitTargets ==
    ASSUME TypeOK, StepsOfOps, ProjectLife, NotListedYet, TargetsStay,
           NEW r \in Reqs, NEW o, NEW b, NEW v, NEW s,
           Admit(r, o, b, v, s),
           o \in {"rollback", "jar-rollback"} => v \in rows /\ UNCHANGED rows,
           o = "jar-rollback" => IsJarBackup(v),
           \/ UNCHANGED <<project, rows>>
           \/ ~project'
    PROVE  TargetsStay'
<1>1. /\ pc[r] = "idle" /\ op[r] = None /\ op[r] \notin Creates /\ ~Restoring(r)
      /\ \A q \in Reqs : pc'[q] = (IF q = r THEN s ELSE pc[q])
      /\ \A q \in Reqs : op'[q] = (IF q = r THEN o ELSE op[q])
      /\ \A q \in Reqs : target'[q] = (IF q = r THEN v ELSE target[q])
      /\ UNCHANGED saved
  BY NoneAssumption DEF Admit, TypeOK, StepsOfOps, Creates, Restoring, AllOps
<1>2. saved[r] = Nothing
  BY <1>1 DEF TargetsStay, Early
<1>3. ASSUME o \in {"rollback", "jar-rollback"}
      PROVE  /\ v \in rows /\ v # r /\ pc[v] \notin Early
             /\ \E q \in Reqs : op[q] \in Creates /\ pc[q] \notin Opening
  BY <1>1, <1>3 DEF NotListedYet, ProjectLife, Unlisted, Early, Opening, TypeOK
<1>4. ASSUME NEW q \in Reqs, op[q] \in Creates
      PROVE  op'[q] = op[q] /\ pc'[q] = pc[q]
  BY <1>1, <1>4
<1>5. ASSUME NEW q \in Reqs, Restoring(q)
      PROVE  /\ target'[q] = target[q] /\ target[q] \in Reqs \ {r}
             /\ op'[q] = op[q] /\ op'[target[q]] = op[target[q]] /\ pc'[target[q]] = pc[target[q]]
  BY <1>1, <1>5 DEF TargetsStay, Early, TypeOK, Restoring
<1>6. ASSUME NEW q \in Reqs, Restoring(q)'
      PROVE  /\ \E c \in Reqs : op'[c] \in Creates /\ pc'[c] \notin Opening
             /\ pc'[target'[q]] \notin Early
             /\ project' => target'[q] \in rows'
             /\ op'[q] = "jar-rollback" => op'[target'[q]] \in {"replace", "jar-rollback"}
  <2>1. CASE q = r
    BY <1>1, <1>3, <1>4, <1>6, <2>1 DEF Restoring, IsJarBackup, TypeOK
  <2>2. CASE q # r
    BY <1>1, <1>4, <1>5, <1>6, <2>2 DEF Restoring, TargetsStay
  <2>. QED
    BY <2>1, <2>2
<1>7. /\ \A q \in Reqs : pc'[q] \in Early \ {"copying"} => saved'[q] = Nothing
      /\ \A q \in Reqs : op'[q] \in {"replace", "jar-rollback"} => saved'[q].yml = None
  BY <1>1, <1>2 DEF TargetsStay, Nothing, Early
<1>. QED
  BY <1>6, <1>7 DEF TargetsStay

\* Every step keeps TargetsStay.
LEMMA TargetsStayStep ==
    ASSUME TypeOK, StepsOfOps, ProjectLife, NotListedYet, TargetsStay, [Next]_vars
    PROVE  TargetsStay'
<1> USE DEF Goto, Ended, TypeOK, StepsOfOps, Creates, Removals, Writers, ProjectLife,
       NotListedYet, Unlisted, Opening, TargetsStay, Early, Restoring, Copied, Nothing
<1>1. ASSUME NEW r \in Reqs, CreateProject(r) PROVE TargetsStay'
  BY <1>1 DEF CreateProject, Admit, DbFree
<1>2. ASSUME NEW r \in Reqs, CreateUpdateOrReplace(r) PROVE TargetsStay'
  BY <1>2, AdmitTargets DEF CreateUpdateOrReplace
<1>3. ASSUME NEW r \in Reqs, Rollback(r) PROVE TargetsStay'
  <2>1. PICK v \in rows, b \in Bodies :
            Admit(r, IF IsJarBackup(v) THEN "jar-rollback" ELSE "rollback", b, v, "try")
    BY <1>3 DEF Rollback
  <2>. QED
    BY <1>3, <2>1, AdmitTargets DEF Rollback
<1>4. ASSUME NEW r \in Reqs, SaveCompose(r) PROVE TargetsStay'
  BY <1>4, AdmitTargets DEF SaveCompose
<1>5. ASSUME NEW r \in Reqs, DeleteProject(r) PROVE TargetsStay'
  BY <1>5, AdmitTargets DEF DeleteProject
<1>6. ASSUME NEW r \in Reqs, DeleteOrphan(r) PROVE TargetsStay'
  BY <1>6, AdmitTargets DEF DeleteOrphan
<1>7. ASSUME NEW r \in Reqs, Acquire(r) PROVE TargetsStay'
  BY <1>7 DEF Acquire
<1>8. ASSUME NEW r \in Reqs, Receive(r) PROVE TargetsStay'
  BY <1>8 DEF Receive
<1>9. ASSUME NEW r \in Reqs, BackUpDatabase(r) PROVE TargetsStay'
  BY <1>9 DEF BackUpDatabase
<1>10. ASSUME NEW r \in Reqs, TryLock(r) PROVE TargetsStay'
  BY <1>10 DEF TryLock
<1>11. ASSUME NEW r \in Reqs, ComposeDown(r) PROVE TargetsStay'
  BY <1>11 DEF ComposeDown
<1>12. ASSUME NEW r \in Reqs, StartCopy(r) PROVE TargetsStay'
  BY <1>12 DEF StartCopy
<1>13. ASSUME NEW r \in Reqs, FinishCopy(r) PROVE TargetsStay'
  BY <1>13 DEF FinishCopy, AfterCopy
<1>14. ASSUME NEW r \in Reqs, InsertProject(r) PROVE TargetsStay'
  BY <1>14 DEF InsertProject, DbFree
<1>15. ASSUME NEW r \in Reqs, InsertBaseline(r) PROVE TargetsStay'
  BY <1>15 DEF InsertBaseline
<1>16. ASSUME NEW r \in Reqs, InsertVersion(r) PROVE TargetsStay'
  BY <1>16 DEF InsertVersion, DbFree
<1>17. ASSUME NEW r \in Reqs, LoadImages(r) PROVE TargetsStay'
  BY <1>17 DEF LoadImages
<1>18. ASSUME NEW r \in Reqs, StartWrite(r) PROVE TargetsStay'
  BY <1>18 DEF StartWrite
<1>19. ASSUME NEW r \in Reqs, FinishWrite(r) PROVE TargetsStay'
  BY <1>19 DEF FinishWrite
<1>20. ASSUME NEW r \in Reqs, InstallCompose(r) PROVE TargetsStay'
  BY <1>20 DEF InstallCompose
<1>21. ASSUME NEW r \in Reqs, ClearCurrent(r) PROVE TargetsStay'
  BY <1>21 DEF ClearCurrent, DbFree
<1>22. ASSUME NEW r \in Reqs, SetCurrent(r) PROVE TargetsStay'
  BY <1>22 DEF SetCurrent
<1>23. ASSUME NEW r \in Reqs, Restart(r) PROVE TargetsStay'
  BY <1>23 DEF Restart
<1>24. ASSUME NEW r \in Reqs, ComposeUp(r) PROVE TargetsStay'
  BY <1>24 DEF ComposeUp
<1>25. ASSUME NEW r \in Reqs, Fail(r) PROVE TargetsStay'
  BY <1>25 DEF Fail, OnError, MayFail, Doomed
<1>26. ASSUME NEW r \in Reqs, CleanUp(r) PROVE TargetsStay'
  BY <1>26 DEF CleanUp
<1>27. ASSUME NEW r \in Reqs, RemoveBackups(r) PROVE TargetsStay'
  BY <1>27 DEF RemoveBackups
<1>28. ASSUME NEW r \in Reqs, Drop(r) PROVE TargetsStay'
  BY <1>28 DEF Drop, Background, Awaits
<1>29. CASE Crash
  BY <1>29 DEF Crash, Active
<1>30. CASE UNCHANGED vars
  BY <1>30
<1>31. QED
  BY <1>1, <1>2, <1>3, <1>4, <1>5, <1>6, <1>7, <1>8, <1>9, <1>10, <1>11, <1>12, <1>13, <1>14,
     <1>15, <1>16, <1>17, <1>18, <1>19, <1>20, <1>21, <1>22, <1>23, <1>24, <1>25, <1>26, <1>27,
     <1>28, <1>29, <1>30 DEF Next, Arrive, Step, Rest

\* While clients wait, every step keeps UndoReady.
LEMMA UndoReadyStep ==
    ASSUME TypeOK, StepsOfOps, Paths, ProjectLife, NotListedYet, TargetsStay, LockHeld,
           BackupIsExact, UndoReady, MaxDrops = 0, [Next]_vars
    PROVE  UndoReady'
<1> USE DEF Goto, Ended, TypeOK, StepsOfOps, Creates, Removals, Writers, Paths, ProjectLife,
       NotListedYet, LockHeld, Locked, BackupIsExact, UndoReady, Undoable, Copied, Restoring,
       Unlisted, Opening
<1>1. ASSUME NEW r \in Reqs, CreateProject(r) PROVE UndoReady'
  BY <1>1 DEF CreateProject, Admit, DbFree
<1>2. ASSUME NEW r \in Reqs, CreateUpdateOrReplace(r) PROVE UndoReady'
  BY <1>2 DEF CreateUpdateOrReplace, Admit, DbFree
<1>3. ASSUME NEW r \in Reqs, Rollback(r) PROVE UndoReady'
  BY <1>3 DEF Rollback, Admit, DbFree
<1>4. ASSUME NEW r \in Reqs, SaveCompose(r) PROVE UndoReady'
  BY <1>4 DEF SaveCompose, Admit, DbFree
<1>5. ASSUME NEW r \in Reqs, DeleteProject(r) PROVE UndoReady'
  BY <1>5 DEF DeleteProject, Admit, DbFree
<1>6. ASSUME NEW r \in Reqs, DeleteOrphan(r) PROVE UndoReady'
  BY <1>6 DEF DeleteOrphan, Admit, DbFree
<1>7. ASSUME NEW r \in Reqs, Acquire(r) PROVE UndoReady'
  BY <1>7 DEF Acquire
<1>8. ASSUME NEW r \in Reqs, Receive(r) PROVE UndoReady'
  BY <1>8 DEF Receive
<1>9. ASSUME NEW r \in Reqs, BackUpDatabase(r) PROVE UndoReady'
  BY <1>9 DEF BackUpDatabase
<1>10. ASSUME NEW r \in Reqs, TryLock(r) PROVE UndoReady'
  BY <1>10 DEF TryLock
<1>11. ASSUME NEW r \in Reqs, ComposeDown(r) PROVE UndoReady'
  BY <1>11 DEF ComposeDown
<1>12. ASSUME NEW r \in Reqs, StartCopy(r) PROVE UndoReady'
  BY <1>12 DEF StartCopy
<1>13. ASSUME NEW r \in Reqs, FinishCopy(r) PROVE UndoReady'
  <2>1. /\ \A q \in Reqs : q # r => saved'[q] = saved[q] /\ pc'[q] = pc[q]
        /\ UNCHANGED <<op, body, target, live, project, rows>>
        /\ pc[r] = "copying" /\ saved'[r] = saved[r] /\ saved[r] = Copied(r)
    BY <1>13 DEF FinishCopy, Goto, TypeOK, LockHeld, BackupIsExact, Copied, Backup
  <2>2. Undoable(r)' => pc'[r] = "register" \/ op[r] = "update" \/ saved'[r].jar = None
    BY <1>13, <2>1 DEF FinishCopy, Goto, AfterCopy, Undoable, Restoring, TypeOK
  <2>3. op[r] = "replace" /\ saved'[r].jar = None => live.jar = "absent"
    BY <2>1, NoneAssumption DEF Copied, TypeOK, Tree, File
  <2>4. Undoable(r)' => pc'[r] = "register" \/ op[r] = "update" \/ op[r] = "replace"
    BY <1>13, <2>1 DEF FinishCopy, Goto, AfterCopy, Undoable, Restoring, TypeOK
  <2>. QED
    BY <2>1, <2>2, <2>3, <2>4 DEF UndoReady, Undoable, Restoring, Copied
<1>14. ASSUME NEW r \in Reqs, InsertProject(r) PROVE UndoReady'
  BY <1>14 DEF InsertProject, DbFree
<1>15. ASSUME NEW r \in Reqs, InsertBaseline(r) PROVE UndoReady'
  BY <1>15 DEF InsertBaseline
<1>16. ASSUME NEW r \in Reqs, InsertVersion(r) PROVE UndoReady'
  BY <1>16 DEF InsertVersion, DbFree
<1>17. ASSUME NEW r \in Reqs, LoadImages(r) PROVE UndoReady'
  <2>1. /\ \A q \in Reqs : q # r => pc'[q] = pc[q]
        /\ UNCHANGED <<saved, op, body, target, live, project, rows>>
        /\ pc[r] = "load" /\ (op[r] # "rollback" => pc'[r] = "write")
        /\ (op[r] = "rollback" => pc'[r] = "select")
    BY <1>17 DEF LoadImages, Goto, TypeOK, LockHeld
  <2>2. op[r] # "jar-rollback"
    BY <2>1 DEF Paths
  <2>. QED
    BY <2>1, <2>2 DEF UndoReady, Undoable, Restoring, Copied
<1>18. ASSUME NEW r \in Reqs, StartWrite(r) PROVE UndoReady'
  BY <1>18 DEF StartWrite
<1>19. ASSUME NEW r \in Reqs, FinishWrite(r) PROVE UndoReady'
  BY <1>19 DEF FinishWrite
<1>20. ASSUME NEW r \in Reqs, InstallCompose(r) PROVE UndoReady'
  BY <1>20 DEF InstallCompose
<1>21. ASSUME NEW r \in Reqs, ClearCurrent(r) PROVE UndoReady'
  BY <1>21 DEF ClearCurrent, DbFree
<1>22. ASSUME NEW r \in Reqs, SetCurrent(r) PROVE UndoReady'
  BY <1>22 DEF SetCurrent
<1>23. ASSUME NEW r \in Reqs, Restart(r) PROVE UndoReady'
  BY <1>23 DEF Restart
<1>24. ASSUME NEW r \in Reqs, ComposeUp(r) PROVE UndoReady'
  BY <1>24 DEF ComposeUp
<1>25. ASSUME NEW r \in Reqs, Fail(r) PROVE UndoReady'
  BY <1>25 DEF Fail, OnError, MayFail, Doomed
<1>26. ASSUME NEW r \in Reqs, CleanUp(r) PROVE UndoReady'
  BY <1>26 DEF CleanUp
<1>27. ASSUME NEW r \in Reqs, RemoveBackups(r) PROVE UndoReady'
  BY <1>27 DEF RemoveBackups
<1>28. ASSUME NEW r \in Reqs, Drop(r) PROVE UndoReady'
  BY <1>28 DEF Drop, Background, Awaits
<1>29. CASE Crash
  BY <1>29 DEF Crash, Active
<1>30. CASE UNCHANGED vars
  BY <1>30
<1>31. QED
  BY <1>1, <1>2, <1>3, <1>4, <1>5, <1>6, <1>7, <1>8, <1>9, <1>10, <1>11, <1>12, <1>13, <1>14,
     <1>15, <1>16, <1>17, <1>18, <1>19, <1>20, <1>21, <1>22, <1>23, <1>24, <1>25, <1>26, <1>27,
     <1>28, <1>29, <1>30 DEF Next, Arrive, Step, Rest

\* While clients wait, nothing writes over a restored tree.
LEMMA RestoredStep ==
    ASSUME TypeOK, StepsOfOps, Paths, ProjectLife, LockHeld, TargetsStay, MarkLife, Restored,
           MaxDrops = 0, [Next]_vars
    PROVE  Restored'
<1> USE DEF Goto, Ended, TypeOK, StepsOfOps, Creates, Removals, Writers, Paths, ProjectLife,
       MarkLife, LockHeld, Locked, TargetsStay, Early, Restoring, Restored
<1>1. ASSUME NEW r \in Reqs, CreateProject(r) PROVE Restored'
  BY <1>1 DEF CreateProject, Admit, DbFree
<1>2. ASSUME NEW r \in Reqs, CreateUpdateOrReplace(r) PROVE Restored'
  BY <1>2 DEF CreateUpdateOrReplace, Admit, DbFree
<1>3. ASSUME NEW r \in Reqs, Rollback(r) PROVE Restored'
  BY <1>3 DEF Rollback, Admit, DbFree
<1>4. ASSUME NEW r \in Reqs, SaveCompose(r) PROVE Restored'
  BY <1>4 DEF SaveCompose, Admit, DbFree
<1>5. ASSUME NEW r \in Reqs, DeleteProject(r) PROVE Restored'
  BY <1>5 DEF DeleteProject, Admit, DbFree
<1>6. ASSUME NEW r \in Reqs, DeleteOrphan(r) PROVE Restored'
  BY <1>6 DEF DeleteOrphan, Admit, DbFree
<1>7. ASSUME NEW r \in Reqs, Acquire(r) PROVE Restored'
  BY <1>7 DEF Acquire
<1>8. ASSUME NEW r \in Reqs, Receive(r) PROVE Restored'
  BY <1>8 DEF Receive
<1>9. ASSUME NEW r \in Reqs, BackUpDatabase(r) PROVE Restored'
  BY <1>9 DEF BackUpDatabase
<1>10. ASSUME NEW r \in Reqs, TryLock(r) PROVE Restored'
  BY <1>10 DEF TryLock
<1>11. ASSUME NEW r \in Reqs, ComposeDown(r) PROVE Restored'
  BY <1>11 DEF ComposeDown
<1>12. ASSUME NEW r \in Reqs, StartCopy(r) PROVE Restored'
  BY <1>12 DEF StartCopy
<1>13. ASSUME NEW r \in Reqs, FinishCopy(r) PROVE Restored'
  BY <1>13 DEF FinishCopy, AfterCopy
<1>14. ASSUME NEW r \in Reqs, InsertProject(r) PROVE Restored'
  BY <1>14 DEF InsertProject, DbFree
<1>15. ASSUME NEW r \in Reqs, InsertBaseline(r) PROVE Restored'
  BY <1>15 DEF InsertBaseline
<1>16. ASSUME NEW r \in Reqs, InsertVersion(r) PROVE Restored'
  BY <1>16 DEF InsertVersion, DbFree
<1>17. ASSUME NEW r \in Reqs, LoadImages(r) PROVE Restored'
  BY <1>17 DEF LoadImages
<1>18. ASSUME NEW r \in Reqs, StartWrite(r) PROVE Restored'
  BY <1>18 DEF StartWrite
<1>19. ASSUME NEW r \in Reqs, FinishWrite(r) PROVE Restored'
  <2>1. /\ \A q \in Reqs : q # r => pc'[q] = pc[q]
        /\ UNCHANGED <<op, target, saved>>
        /\ pc[r] = "writing" /\ op[r] \in Writers
        /\ live' = Overlay(live, Puts(r))
    BY <1>19 DEF FinishWrite, Goto, TypeOK, LockHeld, StepsOfOps
  <2>2. ASSUME NEW q \in Reqs, q # r, Restoring(q),
               pc[q] \in {"load", "select", "mark", "restart"}
        PROVE  FALSE
    BY <2>1, <2>2 DEF LockHeld, Locked, Restoring, Creates, Writers
  <2>3. Restoring(r) /\ saved[target[r]] # Nothing
            => Overlay(live', saved[target[r]]) = live'
    BY <2>1 DEF Puts, Overlay
  <2>. QED
    BY <2>1, <2>2, <2>3 DEF Restored, Restoring
<1>20. ASSUME NEW r \in Reqs, InstallCompose(r) PROVE Restored'
  BY <1>20 DEF InstallCompose
<1>21. ASSUME NEW r \in Reqs, ClearCurrent(r) PROVE Restored'
  BY <1>21 DEF ClearCurrent, DbFree
<1>22. ASSUME NEW r \in Reqs, SetCurrent(r) PROVE Restored'
  BY <1>22 DEF SetCurrent
<1>23. ASSUME NEW r \in Reqs, Restart(r) PROVE Restored'
  BY <1>23 DEF Restart
<1>24. ASSUME NEW r \in Reqs, ComposeUp(r) PROVE Restored'
  BY <1>24 DEF ComposeUp
<1>25. ASSUME NEW r \in Reqs, Fail(r) PROVE Restored'
  BY <1>25 DEF Fail, OnError, MayFail, Doomed
<1>26. ASSUME NEW r \in Reqs, CleanUp(r) PROVE Restored'
  BY <1>26 DEF CleanUp
<1>27. ASSUME NEW r \in Reqs, RemoveBackups(r) PROVE Restored'
  BY <1>27 DEF RemoveBackups
<1>28. ASSUME NEW r \in Reqs, Drop(r) PROVE Restored'
  BY <1>28 DEF Drop, Background, Awaits
<1>29. CASE Crash
  BY <1>29 DEF Crash, Active
<1>30. CASE UNCHANGED vars
  BY <1>30
<1>31. QED
  BY <1>1, <1>2, <1>3, <1>4, <1>5, <1>6, <1>7, <1>8, <1>9, <1>10, <1>11, <1>12, <1>13, <1>14,
     <1>15, <1>16, <1>17, <1>18, <1>19, <1>20, <1>21, <1>22, <1>23, <1>24, <1>25, <1>26, <1>27,
     <1>28, <1>29, <1>30 DEF Next, Arrive, Step, Rest

\* Every step keeps MarkLife.
LEMMA MarkLifeStep ==
    ASSUME TypeOK, StepsOfOps, Paths, ProjectLife, NotListedYet, MarkLife, [Next]_vars
    PROVE  MarkLife'
<1> USE DEF Goto, Ended, TypeOK, StepsOfOps, Creates, Removals, Writers, Paths, ProjectLife,
       MarkLife, Marking, Restoring, Background, Awaits
<1>1. ASSUME NEW r \in Reqs, CreateProject(r) PROVE MarkLife'
  BY <1>1 DEF CreateProject, Admit, DbFree
<1>2. ASSUME NEW r \in Reqs, CreateUpdateOrReplace(r) PROVE MarkLife'
  BY <1>2 DEF CreateUpdateOrReplace, Admit, DbFree
<1>3. ASSUME NEW r \in Reqs, Rollback(r) PROVE MarkLife'
  BY <1>3 DEF Rollback, Admit, DbFree
<1>4. ASSUME NEW r \in Reqs, SaveCompose(r) PROVE MarkLife'
  BY <1>4 DEF SaveCompose, Admit, DbFree
<1>5. ASSUME NEW r \in Reqs, DeleteProject(r) PROVE MarkLife'
  BY <1>5 DEF DeleteProject, Admit, DbFree
<1>6. ASSUME NEW r \in Reqs, DeleteOrphan(r) PROVE MarkLife'
  BY <1>6 DEF DeleteOrphan, Admit, DbFree
<1>7. ASSUME NEW r \in Reqs, Acquire(r) PROVE MarkLife'
  BY <1>7 DEF Acquire
<1>8. ASSUME NEW r \in Reqs, Receive(r) PROVE MarkLife'
  BY <1>8 DEF Receive
<1>9. ASSUME NEW r \in Reqs, BackUpDatabase(r) PROVE MarkLife'
  BY <1>9 DEF BackUpDatabase
<1>10. ASSUME NEW r \in Reqs, TryLock(r) PROVE MarkLife'
  BY <1>10 DEF TryLock
<1>11. ASSUME NEW r \in Reqs, ComposeDown(r) PROVE MarkLife'
  BY <1>11 DEF ComposeDown
<1>12. ASSUME NEW r \in Reqs, StartCopy(r) PROVE MarkLife'
  BY <1>12 DEF StartCopy
<1>13. ASSUME NEW r \in Reqs, FinishCopy(r) PROVE MarkLife'
  BY <1>13 DEF FinishCopy, AfterCopy
<1>14. ASSUME NEW r \in Reqs, InsertProject(r) PROVE MarkLife'
  BY <1>14 DEF InsertProject, DbFree
<1>15. ASSUME NEW r \in Reqs, InsertBaseline(r) PROVE MarkLife'
  BY <1>15 DEF InsertBaseline
<1>16. ASSUME NEW r \in Reqs, InsertVersion(r) PROVE MarkLife'
  BY <1>16 DEF InsertVersion, DbFree
<1>17. ASSUME NEW r \in Reqs, LoadImages(r) PROVE MarkLife'
  BY <1>17 DEF LoadImages
<1>18. ASSUME NEW r \in Reqs, StartWrite(r) PROVE MarkLife'
  BY <1>18 DEF StartWrite
<1>19. ASSUME NEW r \in Reqs, FinishWrite(r) PROVE MarkLife'
  BY <1>19 DEF FinishWrite
<1>20. ASSUME NEW r \in Reqs, InstallCompose(r) PROVE MarkLife'
  BY <1>20 DEF InstallCompose
<1>21. ASSUME NEW r \in Reqs, ClearCurrent(r) PROVE MarkLife'
  BY <1>21 DEF ClearCurrent, DbFree
<1>22. ASSUME NEW r \in Reqs, SetCurrent(r) PROVE MarkLife'
  BY <1>22 DEF SetCurrent
<1>23. ASSUME NEW r \in Reqs, Restart(r) PROVE MarkLife'
  BY <1>23 DEF Restart
<1>24. ASSUME NEW r \in Reqs, ComposeUp(r) PROVE MarkLife'
  BY <1>24 DEF ComposeUp
<1>25. ASSUME NEW r \in Reqs, Fail(r) PROVE MarkLife'
  BY <1>25 DEF Fail, OnError, MayFail, Doomed
<1>26. ASSUME NEW r \in Reqs, CleanUp(r) PROVE MarkLife'
  BY <1>26 DEF CleanUp
<1>27. ASSUME NEW r \in Reqs, RemoveBackups(r) PROVE MarkLife'
  BY <1>27 DEF RemoveBackups
<1>28. ASSUME NEW r \in Reqs, Drop(r) PROVE MarkLife'
  BY <1>28 DEF Drop, Background, Awaits
<1>29. CASE Crash
  BY <1>29 DEF Crash, Active
<1>30. CASE UNCHANGED vars
  BY <1>30
<1>31. QED
  BY <1>1, <1>2, <1>3, <1>4, <1>5, <1>6, <1>7, <1>8, <1>9, <1>10, <1>11, <1>12, <1>13, <1>14,
     <1>15, <1>16, <1>17, <1>18, <1>19, <1>20, <1>21, <1>22, <1>23, <1>24, <1>25, <1>26, <1>27,
     <1>28, <1>29, <1>30 DEF Next, Arrive, Step, Rest

\* Without crashes, and without failures of mark_current, every step keeps
\* CurrentLife.
LEMMA CurrentLifeStep ==
    ASSUME TypeOK, StepsOfOps, Paths, ProjectLife, NotListedYet, TargetsStay, MarkLife,
           CurrentLife, MaxCrashes = 0, Fallible \cap {"clear", "select", "mark"} = {},
           [Next]_vars
    PROVE  CurrentLife'
<1> USE DEF Goto, Ended, TypeOK, StepsOfOps, Creates, Removals, Writers, Paths, ProjectLife,
       NotListedYet, TargetsStay, MarkLife, CurrentLife, Marking, Restoring, Background, Awaits
<1>1. ASSUME NEW r \in Reqs, CreateProject(r) PROVE CurrentLife'
  BY <1>1 DEF CreateProject, Admit, DbFree
<1>2. ASSUME NEW r \in Reqs, CreateUpdateOrReplace(r) PROVE CurrentLife'
  BY <1>2 DEF CreateUpdateOrReplace, Admit, DbFree
<1>3. ASSUME NEW r \in Reqs, Rollback(r) PROVE CurrentLife'
  BY <1>3 DEF Rollback, Admit, DbFree
<1>4. ASSUME NEW r \in Reqs, SaveCompose(r) PROVE CurrentLife'
  BY <1>4 DEF SaveCompose, Admit, DbFree
<1>5. ASSUME NEW r \in Reqs, DeleteProject(r) PROVE CurrentLife'
  BY <1>5 DEF DeleteProject, Admit, DbFree
<1>6. ASSUME NEW r \in Reqs, DeleteOrphan(r) PROVE CurrentLife'
  BY <1>6 DEF DeleteOrphan, Admit, DbFree
<1>7. ASSUME NEW r \in Reqs, Acquire(r) PROVE CurrentLife'
  BY <1>7 DEF Acquire
<1>8. ASSUME NEW r \in Reqs, Receive(r) PROVE CurrentLife'
  BY <1>8 DEF Receive
<1>9. ASSUME NEW r \in Reqs, BackUpDatabase(r) PROVE CurrentLife'
  BY <1>9 DEF BackUpDatabase
<1>10. ASSUME NEW r \in Reqs, TryLock(r) PROVE CurrentLife'
  BY <1>10 DEF TryLock
<1>11. ASSUME NEW r \in Reqs, ComposeDown(r) PROVE CurrentLife'
  BY <1>11 DEF ComposeDown
<1>12. ASSUME NEW r \in Reqs, StartCopy(r) PROVE CurrentLife'
  BY <1>12 DEF StartCopy
<1>13. ASSUME NEW r \in Reqs, FinishCopy(r) PROVE CurrentLife'
  BY <1>13 DEF FinishCopy, AfterCopy
<1>14. ASSUME NEW r \in Reqs, InsertProject(r) PROVE CurrentLife'
  BY <1>14 DEF InsertProject, DbFree
<1>15. ASSUME NEW r \in Reqs, InsertBaseline(r) PROVE CurrentLife'
  BY <1>15 DEF InsertBaseline
<1>16. ASSUME NEW r \in Reqs, InsertVersion(r) PROVE CurrentLife'
  BY <1>16 DEF InsertVersion, DbFree
<1>17. ASSUME NEW r \in Reqs, LoadImages(r) PROVE CurrentLife'
  BY <1>17 DEF LoadImages
<1>18. ASSUME NEW r \in Reqs, StartWrite(r) PROVE CurrentLife'
  BY <1>18 DEF StartWrite
<1>19. ASSUME NEW r \in Reqs, FinishWrite(r) PROVE CurrentLife'
  BY <1>19 DEF FinishWrite
<1>20. ASSUME NEW r \in Reqs, InstallCompose(r) PROVE CurrentLife'
  BY <1>20 DEF InstallCompose
<1>21. ASSUME NEW r \in Reqs, ClearCurrent(r) PROVE CurrentLife'
  BY <1>21 DEF ClearCurrent, DbFree
<1>22. ASSUME NEW r \in Reqs, SetCurrent(r) PROVE CurrentLife'
  BY <1>22 DEF SetCurrent
<1>23. ASSUME NEW r \in Reqs, Restart(r) PROVE CurrentLife'
  BY <1>23 DEF Restart
<1>24. ASSUME NEW r \in Reqs, ComposeUp(r) PROVE CurrentLife'
  BY <1>24 DEF ComposeUp
<1>25. ASSUME NEW r \in Reqs, Fail(r) PROVE CurrentLife'
  <2>1. pc[r] \notin {"clear", "select", "mark"}
    BY <1>25 DEF Fail, Doomed
  <2>2. /\ \A q \in Reqs : q # r => pc'[q] = pc[q]
        /\ UNCHANGED <<rows, current>>
        /\ project' = (project /\ pc[r] # "baseline")
        /\ pc'[r] \in {"gone", "cleanup", "upagain", "failed"}
    BY <1>25 DEF Fail, Goto, OnError, TypeOK
  <2>3. \A q \in Reqs : pc'[q] = "mark" => pc[q] = "mark"
    BY <2>2
  <2>4. (project' /\ \A q \in Reqs : pc'[q] \notin Marking) =>
            (project /\ \A q \in Reqs : pc[q] \notin Marking)
    BY <2>1, <2>2
  <2>. QED
    BY <2>2, <2>3, <2>4
<1>26. ASSUME NEW r \in Reqs, CleanUp(r) PROVE CurrentLife'
  BY <1>26 DEF CleanUp
<1>27. ASSUME NEW r \in Reqs, RemoveBackups(r) PROVE CurrentLife'
  BY <1>27 DEF RemoveBackups
<1>28. ASSUME NEW r \in Reqs, Drop(r) PROVE CurrentLife'
  BY <1>28 DEF Drop, Background, Awaits
<1>29. CASE Crash
  BY <1>29 DEF Crash, Active
<1>30. CASE UNCHANGED vars
  BY <1>30
<1>31. QED
  BY <1>1, <1>2, <1>3, <1>4, <1>5, <1>6, <1>7, <1>8, <1>9, <1>10, <1>11, <1>12, <1>13, <1>14,
     <1>15, <1>16, <1>17, <1>18, <1>19, <1>20, <1>21, <1>22, <1>23, <1>24, <1>25, <1>26, <1>27,
     <1>28, <1>29, <1>30 DEF Next, Arrive, Step, Rest

\* Every step keeps StoppedLife.
LEMMA StoppedLifeStep ==
    ASSUME TypeOK, StepsOfOps, StoppedLife, [Next]_vars
    PROVE  StoppedLife'
<1> USE DEF Goto, Ended, TypeOK, StepsOfOps, Creates, Removals, Writers, StoppedLife, Early
<1>1. ASSUME NEW r \in Reqs, CreateProject(r) PROVE StoppedLife'
  BY <1>1 DEF CreateProject, Admit, DbFree
<1>2. ASSUME NEW r \in Reqs, CreateUpdateOrReplace(r) PROVE StoppedLife'
  BY <1>2 DEF CreateUpdateOrReplace, Admit, DbFree
<1>3. ASSUME NEW r \in Reqs, Rollback(r) PROVE StoppedLife'
  BY <1>3 DEF Rollback, Admit, DbFree
<1>4. ASSUME NEW r \in Reqs, SaveCompose(r) PROVE StoppedLife'
  BY <1>4 DEF SaveCompose, Admit, DbFree
<1>5. ASSUME NEW r \in Reqs, DeleteProject(r) PROVE StoppedLife'
  BY <1>5 DEF DeleteProject, Admit, DbFree
<1>6. ASSUME NEW r \in Reqs, DeleteOrphan(r) PROVE StoppedLife'
  BY <1>6 DEF DeleteOrphan, Admit, DbFree
<1>7. ASSUME NEW r \in Reqs, Acquire(r) PROVE StoppedLife'
  BY <1>7 DEF Acquire
<1>8. ASSUME NEW r \in Reqs, Receive(r) PROVE StoppedLife'
  BY <1>8 DEF Receive
<1>9. ASSUME NEW r \in Reqs, BackUpDatabase(r) PROVE StoppedLife'
  BY <1>9 DEF BackUpDatabase
<1>10. ASSUME NEW r \in Reqs, TryLock(r) PROVE StoppedLife'
  BY <1>10 DEF TryLock
<1>11. ASSUME NEW r \in Reqs, ComposeDown(r) PROVE StoppedLife'
  BY <1>11 DEF ComposeDown
<1>12. ASSUME NEW r \in Reqs, StartCopy(r) PROVE StoppedLife'
  BY <1>12 DEF StartCopy
<1>13. ASSUME NEW r \in Reqs, FinishCopy(r) PROVE StoppedLife'
  BY <1>13 DEF FinishCopy, AfterCopy
<1>14. ASSUME NEW r \in Reqs, InsertProject(r) PROVE StoppedLife'
  BY <1>14 DEF InsertProject, DbFree
<1>15. ASSUME NEW r \in Reqs, InsertBaseline(r) PROVE StoppedLife'
  BY <1>15 DEF InsertBaseline
<1>16. ASSUME NEW r \in Reqs, InsertVersion(r) PROVE StoppedLife'
  BY <1>16 DEF InsertVersion, DbFree
<1>17. ASSUME NEW r \in Reqs, LoadImages(r) PROVE StoppedLife'
  BY <1>17 DEF LoadImages
<1>18. ASSUME NEW r \in Reqs, StartWrite(r) PROVE StoppedLife'
  BY <1>18 DEF StartWrite
<1>19. ASSUME NEW r \in Reqs, FinishWrite(r) PROVE StoppedLife'
  BY <1>19 DEF FinishWrite
<1>20. ASSUME NEW r \in Reqs, InstallCompose(r) PROVE StoppedLife'
  BY <1>20 DEF InstallCompose
<1>21. ASSUME NEW r \in Reqs, ClearCurrent(r) PROVE StoppedLife'
  BY <1>21 DEF ClearCurrent, DbFree
<1>22. ASSUME NEW r \in Reqs, SetCurrent(r) PROVE StoppedLife'
  BY <1>22 DEF SetCurrent
<1>23. ASSUME NEW r \in Reqs, Restart(r) PROVE StoppedLife'
  BY <1>23 DEF Restart
<1>24. ASSUME NEW r \in Reqs, ComposeUp(r) PROVE StoppedLife'
  BY <1>24 DEF ComposeUp
<1>25. ASSUME NEW r \in Reqs, Fail(r) PROVE StoppedLife'
  BY <1>25 DEF Fail, OnError, MayFail, Doomed
<1>26. ASSUME NEW r \in Reqs, CleanUp(r) PROVE StoppedLife'
  BY <1>26 DEF CleanUp
<1>27. ASSUME NEW r \in Reqs, RemoveBackups(r) PROVE StoppedLife'
  BY <1>27 DEF RemoveBackups
<1>28. ASSUME NEW r \in Reqs, Drop(r) PROVE StoppedLife'
  BY <1>28 DEF Drop, Background, Awaits
<1>29. CASE Crash
  BY <1>29 DEF Crash, Active
<1>30. CASE UNCHANGED vars
  BY <1>30
<1>31. QED
  BY <1>1, <1>2, <1>3, <1>4, <1>5, <1>6, <1>7, <1>8, <1>9, <1>10, <1>11, <1>12, <1>13, <1>14,
     <1>15, <1>16, <1>17, <1>18, <1>19, <1>20, <1>21, <1>22, <1>23, <1>24, <1>25, <1>26, <1>27,
     <1>28, <1>29, <1>30 DEF Next, Arrive, Step, Rest

\* The list of versions is what it was if no row comes or goes or is renumbered.
LEMMA ListedStays ==
    ASSUME rows' = rows, \A v \in rows : no'[v] = no[v]
    PROVE  Listed' = Listed
<1>1. \A v \in rows : <<no'[v], v>> = <<no[v], v>>
  OBVIOUS
<1>2. {<<no'[v], v>> : v \in rows} = {<<no[v], v>> : v \in rows}
  BY <1>1
<1>. QED
  BY <1>2 DEF Listed

\* The next number, MAX(version_no) + 1, is one more than there are versions.
LEMMA NextNoIsNext ==
    ASSUME TypeOK, Numbered, NEW n \in NextNo
    PROVE  n = Cardinality(Listed) + 1
<1>1. Cardinality(Listed) \in Nat
  BY FS_CardinalityType DEF Numbered
<1>2. n \in Nat /\ \A v \in rows : no[v] < n
  BY NextNoType DEF NextNo
<1>3. n <= Cardinality(Listed) + 1
  <2>1. CASE n = 1
    BY <1>1, <2>1
  <2>2. CASE \E v \in rows : n = no[v] + 1
    BY <1>1, <2>2 DEF Numbered
  <2>. QED
    BY <2>1, <2>2 DEF NextNo
<1>4. Cardinality(Listed) < n
  <2>1. CASE Cardinality(Listed) = 0
    <3>1. rows = {}
      BY <2>1 DEF Numbered
    <3>. QED
      BY <2>1, <3>1 DEF NextNo
  <2>2. CASE Cardinality(Listed) # 0
    BY <1>1, <1>2, <2>2 DEF Numbered
  <2>. QED
    BY <2>1, <2>2
<1>. QED
  BY <1>1, <1>2, <1>3, <1>4

\* A step that keeps the list, and the numbers drawn, keeps Numbered.
LEMMA NumbersStay ==
    ASSUME Numbered, rows' = rows, \A v \in rows : no'[v] = no[v],
           \A q \in Reqs : pc'[q] = "baseline" => no'[q] = 1,
           \A q \in Reqs : project' /\ Drawn(q)' =>
               no'[q] = Cardinality(Listed) + 1 /\ \A c \in Reqs : pc'[c] # "baseline"
    PROVE  Numbered'
BY ListedStays DEF Numbered

\* So does a step that draws a number, as long as no baseline is on its way.
LEMMA DrawingStays ==
    ASSUME TypeOK, NotListedYet, Numbered, NEW r \in Reqs,
           UNCHANGED <<rows, op, project>>, pc[r] \in {"upload", "prepare", "try", "down"},
           pc'[r] # "baseline",
           \A q \in Reqs : q # r => pc'[q] = pc[q] /\ no'[q] = no[q],
           \A q \in Reqs \ {r} : pc[q] # "baseline",
           no' = no \/ \E n \in NextNo : no' = [no EXCEPT ![r] = n],
           Drawn(r)' => (Drawn(r) /\ no' = no) \/ \E n \in NextNo : no' = [no EXCEPT ![r] = n]
    PROVE  Numbered'
<1>1. rows \subseteq Reqs /\ r \notin rows
  BY DEF TypeOK, NotListedYet, Unlisted
<1>2. \A q \in Reqs : pc'[q] # "baseline"
  OBVIOUS
<1>3. ASSUME NEW q \in Reqs, project', Drawn(q)'
      PROVE  no'[q] = Cardinality(Listed) + 1
  <2>1. CASE q = r
    BY <1>3, <2>1, NextNoIsNext DEF Numbered, TypeOK
  <2>2. CASE q # r
    BY <1>3, <2>2 DEF Numbered, Drawn
  <2>. QED
    BY <2>1, <2>2
<1>. QED
  BY <1>1, <1>2, <1>3, NumbersStay

\* Of two requests that are past the lock, none is there with its number drawn.
LEMMA OneDraws ==
    ASSUME StepsOfOps, LockHeld, NEW q \in Reqs, NEW r \in Reqs, q # r, Drawn(q)
    PROVE  pc[r] \in Locked => op[r] \in Creates
BY DEF StepsOfOps, LockHeld, Drawn, Locked, Creates, Writers

\* While clients wait, every step keeps Numbered.
LEMMA NumberedStep ==
    ASSUME TypeOK, StepsOfOps, Paths, ProjectLife, NotListedYet, LockHeld, Numbered, [Next]_vars
    PROVE  Numbered'
<1>1. ASSUME NEW r \in Reqs, CreateProject(r) PROVE Numbered'
  <2>1. /\ pc[r] = "idle" /\ UNCHANGED <<rows, no, project>>
        /\ \A q \in Reqs : q # r => pc'[q] = pc[q] /\ op'[q] = op[q]
        /\ pc'[r] \in {"down", "queue", "refused", "try", "rmdir", "rmroot"}
    BY <1>1 DEF CreateProject, Admit, TypeOK
  <2>2. ~Drawn(r)'
    BY <1>1, <2>1 DEF CreateProject, Admit, Drawn, TypeOK
  <2>. QED
    BY <2>1, <2>2, NumbersStay DEF Numbered, Drawn
<1>2. ASSUME NEW r \in Reqs, CreateUpdateOrReplace(r) PROVE Numbered'
  <2>1. /\ pc[r] = "idle" /\ UNCHANGED <<rows, no, project>>
        /\ \A q \in Reqs : q # r => pc'[q] = pc[q] /\ op'[q] = op[q]
        /\ pc'[r] \in {"down", "queue", "refused", "try", "rmdir", "rmroot"}
    BY <1>2 DEF CreateUpdateOrReplace, Admit, TypeOK
  <2>2. ~Drawn(r)'
    BY <1>2, <2>1 DEF CreateUpdateOrReplace, Admit, Drawn, TypeOK
  <2>. QED
    BY <2>1, <2>2, NumbersStay DEF Numbered, Drawn
<1>3. ASSUME NEW r \in Reqs, Rollback(r) PROVE Numbered'
  <2>1. /\ pc[r] = "idle" /\ UNCHANGED <<rows, no, project>>
        /\ \A q \in Reqs : q # r => pc'[q] = pc[q] /\ op'[q] = op[q]
        /\ pc'[r] \in {"down", "queue", "refused", "try", "rmdir", "rmroot"}
    BY <1>3 DEF Rollback, Admit, TypeOK
  <2>2. ~Drawn(r)'
    BY <1>3, <2>1 DEF Rollback, Admit, Drawn, TypeOK
  <2>. QED
    BY <2>1, <2>2, NumbersStay DEF Numbered, Drawn
<1>4. ASSUME NEW r \in Reqs, SaveCompose(r) PROVE Numbered'
  <2>1. /\ pc[r] = "idle" /\ UNCHANGED <<rows, no, project>>
        /\ \A q \in Reqs : q # r => pc'[q] = pc[q] /\ op'[q] = op[q]
        /\ pc'[r] \in {"down", "queue", "refused", "try", "rmdir", "rmroot"}
    BY <1>4 DEF SaveCompose, Admit, TypeOK
  <2>2. ~Drawn(r)'
    BY <1>4, <2>1 DEF SaveCompose, Admit, Drawn, TypeOK
  <2>. QED
    BY <2>1, <2>2, NumbersStay DEF Numbered, Drawn
<1>5. ASSUME NEW r \in Reqs, DeleteProject(r) PROVE Numbered'
  <2>1. /\ rows' = {} /\ ~project' /\ UNCHANGED no
        /\ \A q \in Reqs : pc'[q] = "baseline" => pc[q] = "baseline"
    BY <1>5 DEF DeleteProject, Admit, TypeOK
  <2>2. Listed' = {}
    BY <2>1 DEF Listed
  <2>. QED
    BY <2>1, <2>2, FS_EmptySet DEF Numbered
<1>6. ASSUME NEW r \in Reqs, DeleteOrphan(r) PROVE Numbered'
  <2>1. /\ pc[r] = "idle" /\ UNCHANGED <<rows, no, project>>
        /\ \A q \in Reqs : q # r => pc'[q] = pc[q] /\ op'[q] = op[q]
        /\ pc'[r] \in {"down", "queue", "refused", "try", "rmdir", "rmroot"}
    BY <1>6 DEF DeleteOrphan, Admit, TypeOK
  <2>2. ~Drawn(r)'
    BY <1>6, <2>1 DEF DeleteOrphan, Admit, Drawn, TypeOK
  <2>. QED
    BY <2>1, <2>2, NumbersStay DEF Numbered, Drawn
<1>7. ASSUME NEW r \in Reqs, Acquire(r) PROVE Numbered'
  <2>1. /\ UNCHANGED <<rows, no, op>> /\ (project' => project)
        /\ \A q \in Reqs : q # r => pc'[q] = pc[q]
    BY <1>7 DEF Acquire, Goto, TypeOK
  <2>2. pc'[r] # "baseline" /\ (Drawn(r)' => Drawn(r))
    BY <1>7 DEF Acquire, Goto, TypeOK, StepsOfOps, Ended, Drawn, Creates, Writers, Removals
  <2>. QED
    BY <2>1, <2>2, NumbersStay DEF Numbered, Drawn
<1>8. ASSUME NEW r \in Reqs, Receive(r) PROVE Numbered'
  <2>1. /\ UNCHANGED <<rows, op, project>> /\ pc[r] \in {"upload", "prepare", "try", "down"}
        /\ \A q \in Reqs : q # r => pc'[q] = pc[q] /\ no'[q] = no[q]
        /\ \A q \in Reqs \ {r} : pc[q] # "baseline"
    BY <1>8 DEF Receive, Goto, DbFree, TypeOK
  <2>2. pc'[r] # "baseline" /\ (no' = no \/ \E n \in NextNo : no' = [no EXCEPT ![r] = n])
    BY <1>8 DEF Receive, Goto, TypeOK, Ended
  <2>3. Drawn(r)' => (Drawn(r) /\ no' = no) \/ \E n \in NextNo : no' = [no EXCEPT ![r] = n]
    BY <1>8, <2>1 DEF Receive, Goto, TypeOK, Paths, StepsOfOps, Ended, Drawn, Creates,
       Writers, Restoring
  <2>. QED
    BY <2>1, <2>2, <2>3, DrawingStays
<1>9. ASSUME NEW r \in Reqs, BackUpDatabase(r) PROVE Numbered'
  <2>1. /\ UNCHANGED <<rows, op, project>> /\ pc[r] \in {"upload", "prepare", "try", "down"}
        /\ \A q \in Reqs : q # r => pc'[q] = pc[q] /\ no'[q] = no[q]
        /\ \A q \in Reqs \ {r} : pc[q] # "baseline"
    BY <1>9 DEF BackUpDatabase, Goto, DbFree, TypeOK
  <2>2. pc'[r] # "baseline" /\ (no' = no \/ \E n \in NextNo : no' = [no EXCEPT ![r] = n])
    BY <1>9 DEF BackUpDatabase, Goto, TypeOK, Ended
  <2>3. Drawn(r)' => (Drawn(r) /\ no' = no) \/ \E n \in NextNo : no' = [no EXCEPT ![r] = n]
    BY <1>9, <2>1 DEF BackUpDatabase, Goto, TypeOK, Paths, StepsOfOps, Ended, Drawn, Creates,
       Writers, Restoring
  <2>. QED
    BY <2>1, <2>2, <2>3, DrawingStays
<1>10. ASSUME NEW r \in Reqs, TryLock(r) PROVE Numbered'
  <2>1. /\ UNCHANGED <<rows, op, project>> /\ pc[r] \in {"upload", "prepare", "try", "down"}
        /\ \A q \in Reqs : q # r => pc'[q] = pc[q] /\ no'[q] = no[q]
        /\ \A q \in Reqs \ {r} : pc[q] # "baseline"
    BY <1>10 DEF TryLock, Goto, DbFree, TypeOK
  <2>2. pc'[r] # "baseline" /\ (no' = no \/ \E n \in NextNo : no' = [no EXCEPT ![r] = n])
    BY <1>10 DEF TryLock, Goto, TypeOK, Ended
  <2>3. Drawn(r)' => (Drawn(r) /\ no' = no) \/ \E n \in NextNo : no' = [no EXCEPT ![r] = n]
    BY <1>10, <2>1 DEF TryLock, Goto, TypeOK, Paths, StepsOfOps, Ended, Drawn, Creates,
       Writers, Restoring
  <2>. QED
    BY <2>1, <2>2, <2>3, DrawingStays
<1>11. ASSUME NEW r \in Reqs, ComposeDown(r) PROVE Numbered'
  <2>1. /\ UNCHANGED <<rows, op, project>> /\ pc[r] \in {"upload", "prepare", "try", "down"}
        /\ \A q \in Reqs : q # r => pc'[q] = pc[q] /\ no'[q] = no[q]
        /\ \A q \in Reqs \ {r} : pc[q] # "baseline"
    BY <1>11 DEF ComposeDown, Goto, DbFree, TypeOK
  <2>2. pc'[r] # "baseline" /\ (no' = no \/ \E n \in NextNo : no' = [no EXCEPT ![r] = n])
    BY <1>11 DEF ComposeDown, Goto, TypeOK, Ended
  <2>3. Drawn(r)' => (Drawn(r) /\ no' = no) \/ \E n \in NextNo : no' = [no EXCEPT ![r] = n]
    BY <1>11, <2>1 DEF ComposeDown, Goto, TypeOK, Paths, StepsOfOps, Ended, Drawn, Creates,
       Writers, Restoring
  <2>. QED
    BY <2>1, <2>2, <2>3, DrawingStays
<1>12. ASSUME NEW r \in Reqs, StartCopy(r) PROVE Numbered'
  <2>1. /\ UNCHANGED <<rows, no, op>> /\ (project' => project)
        /\ \A q \in Reqs : q # r => pc'[q] = pc[q]
    BY <1>12 DEF StartCopy, Goto, TypeOK
  <2>2. pc'[r] # "baseline" /\ (Drawn(r)' => Drawn(r))
    BY <1>12 DEF StartCopy, Goto, TypeOK, StepsOfOps, Ended, Drawn, Creates, Writers, Removals
  <2>. QED
    BY <2>1, <2>2, NumbersStay DEF Numbered, Drawn
<1>13. ASSUME NEW r \in Reqs, FinishCopy(r) PROVE Numbered'
  <2>1. /\ UNCHANGED <<rows, no, op>> /\ (project' => project)
        /\ \A q \in Reqs : q # r => pc'[q] = pc[q]
    BY <1>13 DEF FinishCopy, Goto, AfterCopy, TypeOK
  <2>2. pc'[r] # "baseline" /\ (Drawn(r)' => Drawn(r))
    BY <1>13 DEF FinishCopy, Goto, AfterCopy, TypeOK, StepsOfOps, Ended, Drawn, Creates,
       Writers, Removals
  <2>. QED
    BY <2>1, <2>2, NumbersStay DEF Numbered, Drawn
<1>14. ASSUME NEW r \in Reqs, InsertProject(r) PROVE Numbered'
  <2>1. /\ UNCHANGED <<rows, op>> /\ no' = [no EXCEPT ![r] = 1] /\ op[r] \in Creates
        /\ \A q \in Reqs : q # r => pc'[q] = pc[q] /\ no'[q] = no[q]
    BY <1>14 DEF InsertProject, Goto, TypeOK, StepsOfOps
  <2>2. rows = {} /\ \A q \in Reqs : q # r => pc[q] \in Ended \cup {"idle", "rmroot", "rmdir"}
    BY <1>14, <2>1 DEF InsertProject, ProjectLife, Opening
  <2>3. \A q \in Reqs : ~Drawn(q)'
    BY <2>1, <2>2 DEF Drawn, Ended, Creates
  <2>4. \A q \in Reqs : pc'[q] = "baseline" => no'[q] = 1
    BY <2>1, <2>2 DEF Ended, TypeOK
  <2>. QED
    BY <2>1, <2>2, <2>3, <2>4, NumbersStay
<1>15. ASSUME NEW r \in Reqs, InsertBaseline(r) PROVE Numbered'
  <2>1. /\ pc[r] = "baseline" /\ project /\ rows = {} /\ no[r] = 1
        /\ rows' = {r} /\ UNCHANGED <<no, op, project>> /\ pc'[r] # "baseline"
        /\ \A q \in Reqs : q # r => pc'[q] = pc[q]
    BY <1>15 DEF InsertBaseline, Goto, ProjectLife, Numbered, TypeOK
  <2>2. Listed' = {<<1, r>>}
    BY <2>1 DEF Listed
  <2>3. IsFiniteSet(Listed') /\ Cardinality(Listed') = 1
    BY <2>2, FS_Singleton
  <2>4. \A q \in Reqs : ~Drawn(q)'
    BY <1>15, <2>1 DEF Numbered, Drawn, StepsOfOps, Creates, InsertBaseline, Goto, TypeOK
  <2>5. \A q \in Reqs : pc'[q] # "baseline"
    BY <2>1 DEF ProjectLife, StepsOfOps
  <2>. QED
    BY <2>1, <2>3, <2>4, <2>5 DEF Numbered
<1>16. ASSUME NEW r \in Reqs, InsertVersion(r) PROVE Numbered'
  <2>1. /\ pc[r] = "register" /\ project /\ op[r] \in Writers /\ r \notin rows
        /\ rows' = rows \cup {r} /\ UNCHANGED <<no, op, project>>
        /\ pc'[r] \in {"clear", "load", "write", "gone"} /\ (op[r] = "update" => pc'[r] \in {"clear", "gone"})
        /\ \A q \in Reqs : q # r => pc'[q] = pc[q]
    BY <1>16 DEF InsertVersion, Goto, Doomed, StepsOfOps, NotListedYet, Unlisted, TypeOK
  <2>2. Drawn(r) /\ no[r] = Cardinality(Listed) + 1 /\ \A q \in Reqs : pc[q] # "baseline"
    BY <2>1 DEF Drawn, Writers, Numbered
  <2>3. Listed' = Listed \cup {<<no[r], r>>} /\ <<no[r], r>> \notin Listed
    BY <2>1 DEF Listed
  <2>4. /\ IsFiniteSet(Listed') /\ Cardinality(Listed) \in Nat
        /\ Cardinality(Listed') = Cardinality(Listed) + 1
    BY <2>3, FS_AddElement, FS_CardinalityType DEF Numbered
  <2>5. \A q \in Reqs : ~Drawn(q)'
    BY <2>1, <2>2, OneDraws DEF Drawn, Locked, Creates, Writers
  <2>. QED
    BY <2>1, <2>2, <2>4, <2>5 DEF Numbered
<1>17. ASSUME NEW r \in Reqs, LoadImages(r) PROVE Numbered'
  <2>1. /\ UNCHANGED <<rows, no, op>> /\ (project' => project)
        /\ \A q \in Reqs : q # r => pc'[q] = pc[q]
    BY <1>17 DEF LoadImages, Goto, TypeOK
  <2>2. pc'[r] # "baseline" /\ (Drawn(r)' => Drawn(r))
    BY <1>17 DEF LoadImages, Goto, TypeOK, StepsOfOps, Ended, Drawn, Creates, Writers, Removals
  <2>. QED
    BY <2>1, <2>2, NumbersStay DEF Numbered, Drawn
<1>18. ASSUME NEW r \in Reqs, StartWrite(r) PROVE Numbered'
  <2>1. /\ UNCHANGED <<rows, no, op>> /\ (project' => project)
        /\ \A q \in Reqs : q # r => pc'[q] = pc[q]
    BY <1>18 DEF StartWrite, Goto, TypeOK
  <2>2. pc'[r] # "baseline" /\ (Drawn(r)' => Drawn(r))
    BY <1>18 DEF StartWrite, Goto, TypeOK, StepsOfOps, Ended, Drawn, Creates, Writers, Removals
  <2>. QED
    BY <2>1, <2>2, NumbersStay DEF Numbered, Drawn
<1>19. ASSUME NEW r \in Reqs, FinishWrite(r) PROVE Numbered'
  <2>1. /\ UNCHANGED <<rows, no, op>> /\ (project' => project)
        /\ \A q \in Reqs : q # r => pc'[q] = pc[q]
    BY <1>19 DEF FinishWrite, Goto, TypeOK
  <2>2. pc'[r] # "baseline" /\ (Drawn(r)' => Drawn(r))
    BY <1>19 DEF FinishWrite, Goto, TypeOK, StepsOfOps, Ended, Drawn, Creates, Writers, Removals
  <2>. QED
    BY <2>1, <2>2, NumbersStay DEF Numbered, Drawn
<1>20. ASSUME NEW r \in Reqs, InstallCompose(r) PROVE Numbered'
  <2>1. /\ UNCHANGED <<rows, no, op>> /\ (project' => project)
        /\ \A q \in Reqs : q # r => pc'[q] = pc[q]
    BY <1>20 DEF InstallCompose, Goto, TypeOK
  <2>2. pc'[r] # "baseline" /\ (Drawn(r)' => Drawn(r))
    BY <1>20 DEF InstallCompose, Goto, TypeOK, StepsOfOps, Ended, Drawn, Creates, Writers,
       Removals
  <2>. QED
    BY <2>1, <2>2, NumbersStay DEF Numbered, Drawn
<1>21. ASSUME NEW r \in Reqs, ClearCurrent(r) PROVE Numbered'
  <2>1. /\ UNCHANGED <<rows, no, op>> /\ (project' => project)
        /\ \A q \in Reqs : q # r => pc'[q] = pc[q]
    BY <1>21 DEF ClearCurrent, Goto, TypeOK
  <2>2. pc'[r] # "baseline" /\ (Drawn(r)' => Drawn(r))
    BY <1>21 DEF ClearCurrent, Goto, TypeOK, StepsOfOps, Ended, Drawn, Creates, Writers, Removals
  <2>. QED
    BY <2>1, <2>2, NumbersStay DEF Numbered, Drawn
<1>22. ASSUME NEW r \in Reqs, SetCurrent(r) PROVE Numbered'
  <2>1. /\ UNCHANGED <<rows, no, op>> /\ (project' => project)
        /\ \A q \in Reqs : q # r => pc'[q] = pc[q]
    BY <1>22 DEF SetCurrent, Goto, TypeOK
  <2>2. pc'[r] # "baseline" /\ (Drawn(r)' => Drawn(r))
    BY <1>22 DEF SetCurrent, Goto, TypeOK, StepsOfOps, Ended, Drawn, Creates, Writers, Removals
  <2>. QED
    BY <2>1, <2>2, NumbersStay DEF Numbered, Drawn
<1>23. ASSUME NEW r \in Reqs, Restart(r) PROVE Numbered'
  <2>1. /\ UNCHANGED <<rows, no, op>> /\ (project' => project)
        /\ \A q \in Reqs : q # r => pc'[q] = pc[q]
    BY <1>23 DEF Restart, Goto, TypeOK
  <2>2. pc'[r] # "baseline" /\ (Drawn(r)' => Drawn(r))
    BY <1>23 DEF Restart, Goto, TypeOK, StepsOfOps, Ended, Drawn, Creates, Writers, Removals
  <2>. QED
    BY <2>1, <2>2, NumbersStay DEF Numbered, Drawn
<1>24. ASSUME NEW r \in Reqs, ComposeUp(r) PROVE Numbered'
  <2>1. /\ UNCHANGED <<rows, no, op>> /\ (project' => project)
        /\ \A q \in Reqs : q # r => pc'[q] = pc[q]
    BY <1>24 DEF ComposeUp, Goto, TypeOK
  <2>2. pc'[r] # "baseline" /\ (Drawn(r)' => Drawn(r))
    BY <1>24 DEF ComposeUp, Goto, TypeOK, StepsOfOps, Ended, Drawn, Creates, Writers, Removals
  <2>. QED
    BY <2>1, <2>2, NumbersStay DEF Numbered, Drawn
<1>25. ASSUME NEW r \in Reqs, Fail(r) PROVE Numbered'
  <2>1. /\ UNCHANGED <<rows, no, op>> /\ (project' => project)
        /\ \A q \in Reqs : q # r => pc'[q] = pc[q]
    BY <1>25 DEF Fail, Goto, OnError, MayFail, Doomed, TypeOK
  <2>2. pc'[r] # "baseline" /\ (Drawn(r)' => Drawn(r))
    BY <1>25 DEF Fail, Goto, OnError, MayFail, Doomed, TypeOK, StepsOfOps, Ended, Drawn,
       Creates, Writers, Removals
  <2>. QED
    BY <2>1, <2>2, NumbersStay DEF Numbered, Drawn
<1>26. ASSUME NEW r \in Reqs, CleanUp(r) PROVE Numbered'
  <2>1. /\ UNCHANGED <<rows, no, op>> /\ (project' => project)
        /\ \A q \in Reqs : q # r => pc'[q] = pc[q]
    BY <1>26 DEF CleanUp, Goto, TypeOK
  <2>2. pc'[r] # "baseline" /\ (Drawn(r)' => Drawn(r))
    BY <1>26 DEF CleanUp, Goto, TypeOK, StepsOfOps, Ended, Drawn, Creates, Writers, Removals
  <2>. QED
    BY <2>1, <2>2, NumbersStay DEF Numbered, Drawn
<1>27. ASSUME NEW r \in Reqs, RemoveBackups(r) PROVE Numbered'
  <2>1. /\ UNCHANGED <<rows, no, op>> /\ (project' => project)
        /\ \A q \in Reqs : q # r => pc'[q] = pc[q]
    BY <1>27 DEF RemoveBackups, Goto, TypeOK
  <2>2. pc'[r] # "baseline" /\ (Drawn(r)' => Drawn(r))
    BY <1>27 DEF RemoveBackups, Goto, TypeOK, StepsOfOps, Ended, Drawn, Creates, Writers, Removals
  <2>. QED
    BY <2>1, <2>2, NumbersStay DEF Numbered, Drawn
<1>28. ASSUME NEW r \in Reqs, Drop(r) PROVE Numbered'
  <2>1. /\ UNCHANGED <<rows, no, op>> /\ (project' => project)
        /\ \A q \in Reqs : q # r => pc'[q] = pc[q]
    BY <1>28 DEF Drop, Goto, Awaits, Background, TypeOK
  <2>2. pc'[r] # "baseline" /\ (Drawn(r)' => Drawn(r))
    BY <1>28 DEF Drop, Goto, Awaits, Background, TypeOK, StepsOfOps, Ended, Drawn, Creates,
       Writers, Removals
  <2>. QED
    BY <2>1, <2>2, NumbersStay DEF Numbered, Drawn
<1>29. CASE Crash
  <2>1. /\ UNCHANGED <<rows, no, op, project>>
        /\ \A q \in Reqs : pc'[q] = pc[q] \/ pc'[q] = "lost"
    BY <1>29 DEF Crash, TypeOK
  <2>. QED
    BY <2>1, NumbersStay DEF Numbered, Drawn
<1>30. CASE UNCHANGED vars
  BY <1>30, NumbersStay DEF Numbered, Drawn
<1>31. QED
  BY <1>1, <1>2, <1>3, <1>4, <1>5, <1>6, <1>7, <1>8, <1>9, <1>10, <1>11, <1>12, <1>13, <1>14,
     <1>15, <1>16, <1>17, <1>18, <1>19, <1>20, <1>21, <1>22, <1>23, <1>24, <1>25, <1>26, <1>27,
     <1>28, <1>29, <1>30 DEF Next, Arrive, Step, Rest

\* What the outside sees of a step: the project opens, a version is listed, the
\* project closes, or nothing.
Opens == ~project /\ project' /\ Listed' = Listed
Lists(r) ==
    /\ project /\ UNCHANGED project /\ \A e \in Listed : e[2] # r
    /\ Listed' = Listed \cup {<<Cardinality(Listed) + 1, r>>}
Closes == project /\ ~project' /\ Listed' = {}
Observed ==
    \/ Opens \/ (\E r \in Reqs : Lists(r)) \/ Closes
    \/ UNCHANGED project /\ Listed' = Listed

\* A step that leaves the rows alone is not seen.
LEMMA Unnoticed ==
    ASSUME UNCHANGED <<project, rows>>, \A v \in rows : no'[v] = no[v]
    PROVE  Observed
BY ListedStays DEF Observed

\* Every step is seen as one of these.
LEMMA ObservedStep ==
    ASSUME TypeOK, StepsOfOps, ProjectLife, NotListedYet, Paths, Numbered, [Next]_vars
    PROVE  Observed
<1>1. ASSUME NEW r \in Reqs, CreateProject(r) PROVE Observed
  BY <1>1, Unnoticed DEF CreateProject, Admit
<1>2. ASSUME NEW r \in Reqs, CreateUpdateOrReplace(r) PROVE Observed
  BY <1>2, Unnoticed DEF CreateUpdateOrReplace, Admit
<1>3. ASSUME NEW r \in Reqs, Rollback(r) PROVE Observed
  BY <1>3, Unnoticed DEF Rollback, Admit
<1>4. ASSUME NEW r \in Reqs, SaveCompose(r) PROVE Observed
  BY <1>4, Unnoticed DEF SaveCompose, Admit
<1>5. ASSUME NEW r \in Reqs, DeleteProject(r) PROVE Observed
  <2>1. project' = FALSE /\ rows' = {}
    BY <1>5 DEF DeleteProject
  <2>2. Listed' = {}
    BY <2>1 DEF Listed
  <2>3. CASE project
    BY <2>1, <2>2, <2>3 DEF Observed, Closes
  <2>4. CASE ~project
    <3>1. Listed = {}
      BY <2>4 DEF ProjectLife, Listed
    <3>2. UNCHANGED project
      BY <2>1, <2>4 DEF TypeOK
    <3>. QED
      BY <2>2, <3>1, <3>2 DEF Observed
  <2>. QED
    BY <2>3, <2>4
<1>6. ASSUME NEW r \in Reqs, DeleteOrphan(r) PROVE Observed
  BY <1>6, Unnoticed DEF DeleteOrphan, Admit
<1>7. ASSUME NEW r \in Reqs, Acquire(r) PROVE Observed
  BY <1>7, Unnoticed DEF Acquire
<1>8. ASSUME NEW r \in Reqs, Receive(r) PROVE Observed
  <2>1. r \notin rows /\ rows \subseteq Reqs
    BY <1>8 DEF Receive, NotListedYet, Unlisted, TypeOK
  <2>2. UNCHANGED <<project, rows>> /\ \A v \in rows : no'[v] = no[v]
    BY <1>8, <2>1 DEF Receive, TypeOK
  <2>. QED
    BY <2>2, Unnoticed
<1>9. ASSUME NEW r \in Reqs, BackUpDatabase(r) PROVE Observed
  <2>1. r \notin rows /\ rows \subseteq Reqs
    BY <1>9 DEF BackUpDatabase, NotListedYet, Unlisted, TypeOK
  <2>2. UNCHANGED <<project, rows>> /\ \A v \in rows : no'[v] = no[v]
    BY <1>9, <2>1 DEF BackUpDatabase, TypeOK
  <2>. QED
    BY <2>2, Unnoticed
<1>10. ASSUME NEW r \in Reqs, TryLock(r) PROVE Observed
  <2>1. r \notin rows /\ rows \subseteq Reqs
    BY <1>10 DEF TryLock, NotListedYet, Unlisted, TypeOK
  <2>2. UNCHANGED <<project, rows>> /\ \A v \in rows : no'[v] = no[v]
    BY <1>10, <2>1 DEF TryLock, TypeOK
  <2>. QED
    BY <2>2, Unnoticed
<1>11. ASSUME NEW r \in Reqs, ComposeDown(r) PROVE Observed
  <2>1. r \notin rows /\ rows \subseteq Reqs
    BY <1>11 DEF ComposeDown, NotListedYet, Unlisted, TypeOK
  <2>2. UNCHANGED <<project, rows>> /\ \A v \in rows : no'[v] = no[v]
    BY <1>11, <2>1 DEF ComposeDown, TypeOK
  <2>. QED
    BY <2>2, Unnoticed
<1>12. ASSUME NEW r \in Reqs, StartCopy(r) PROVE Observed
  BY <1>12, Unnoticed DEF StartCopy
<1>13. ASSUME NEW r \in Reqs, FinishCopy(r) PROVE Observed
  BY <1>13, Unnoticed DEF FinishCopy
<1>14. ASSUME NEW r \in Reqs, InsertProject(r) PROVE Observed
  <2>1. /\ rows = {} /\ rows' = {} /\ ~project /\ project'
    BY <1>14 DEF InsertProject, ProjectLife, Opening, StepsOfOps
  <2>. QED
    BY <2>1, ListedStays DEF Observed, Opens
<1>15. ASSUME NEW r \in Reqs, InsertBaseline(r) PROVE Observed
  <2>1. /\ project /\ UNCHANGED project /\ rows = {} /\ rows' = {r} /\ no'[r] = 1
    BY <1>15 DEF InsertBaseline, ProjectLife, Numbered
  <2>2. Listed = {} /\ Listed' = {<<1, r>>}
    BY <2>1 DEF Listed
  <2>3. Listed' = Listed \cup {<<Cardinality(Listed) + 1, r>>}
    BY <2>2, FS_EmptySet
  <2>. QED
    BY <2>1, <2>2, <2>3 DEF Observed, Lists
<1>16. ASSUME NEW r \in Reqs, InsertVersion(r) PROVE Observed
  <2>1. /\ pc[r] = "register" /\ project /\ UNCHANGED project /\ op[r] \in Writers /\ r \notin rows
        /\ rows' = rows \cup {r} /\ UNCHANGED no
    BY <1>16 DEF InsertVersion, Doomed, StepsOfOps, NotListedYet, Unlisted, TypeOK
  <2>2. no[r] = Cardinality(Listed) + 1
    BY <2>1 DEF Drawn, Writers, Numbered
  <2>3. Listed' = Listed \cup {<<Cardinality(Listed) + 1, r>>}
    BY <2>1, <2>2 DEF Listed
  <2>4. \A e \in Listed : e[2] # r
    BY <2>1 DEF Listed
  <2>. QED
    BY <2>1, <2>3, <2>4 DEF Observed, Lists
<1>17. ASSUME NEW r \in Reqs, LoadImages(r) PROVE Observed
  BY <1>17, Unnoticed DEF LoadImages
<1>18. ASSUME NEW r \in Reqs, StartWrite(r) PROVE Observed
  BY <1>18, Unnoticed DEF StartWrite
<1>19. ASSUME NEW r \in Reqs, FinishWrite(r) PROVE Observed
  BY <1>19, Unnoticed DEF FinishWrite
<1>20. ASSUME NEW r \in Reqs, InstallCompose(r) PROVE Observed
  BY <1>20, Unnoticed DEF InstallCompose
<1>21. ASSUME NEW r \in Reqs, ClearCurrent(r) PROVE Observed
  BY <1>21, Unnoticed DEF ClearCurrent
<1>22. ASSUME NEW r \in Reqs, SetCurrent(r) PROVE Observed
  BY <1>22, Unnoticed DEF SetCurrent
<1>23. ASSUME NEW r \in Reqs, Restart(r) PROVE Observed
  BY <1>23, Unnoticed DEF Restart
<1>24. ASSUME NEW r \in Reqs, ComposeUp(r) PROVE Observed
  BY <1>24, Unnoticed DEF ComposeUp
<1>25. ASSUME NEW r \in Reqs, Fail(r) PROVE Observed
  <2>1. /\ UNCHANGED <<rows, no>>
        /\ pc[r] # "baseline" => UNCHANGED project
        /\ pc[r] = "baseline" => project /\ ~project' /\ rows = {}
    BY <1>25 DEF Fail, ProjectLife, TypeOK
  <2>2. CASE pc[r] # "baseline"
    BY <2>1, <2>2, Unnoticed
  <2>3. CASE pc[r] = "baseline"
    <3>1. Listed' = {}
      BY <2>1, <2>3 DEF Listed
    <3>. QED
      BY <2>1, <2>3, <3>1 DEF Observed, Closes
  <2>. QED
    BY <2>2, <2>3
<1>26. ASSUME NEW r \in Reqs, CleanUp(r) PROVE Observed
  BY <1>26, Unnoticed DEF CleanUp
<1>27. ASSUME NEW r \in Reqs, RemoveBackups(r) PROVE Observed
  BY <1>27, Unnoticed DEF RemoveBackups
<1>28. ASSUME NEW r \in Reqs, Drop(r) PROVE Observed
  BY <1>28, Unnoticed DEF Drop
<1>29. CASE Crash
  BY <1>29, Unnoticed DEF Crash
<1>30. CASE UNCHANGED vars
  BY <1>30, Unnoticed
<1>31. QED
  BY <1>1, <1>2, <1>3, <1>4, <1>5, <1>6, <1>7, <1>8, <1>9, <1>10, <1>11, <1>12, <1>13, <1>14,
     <1>15, <1>16, <1>17, <1>18, <1>19, <1>20, <1>21, <1>22, <1>23, <1>24, <1>25, <1>26, <1>27,
     <1>28, <1>29, <1>30 DEF Next, Arrive, Step, Rest

\* What UndoRecordedFirst asks of request q.
UndoFirst(q) ==
    (project /\ pc[q] = "write" /\ pc'[q] = "writing" /\ live' # live) =>
        \/ /\ backup[q] = "complete" /\ (op[q] # "update" => q \in rows)
           /\ Overlay(live', saved[q]) = live
        \/ op[q] \in {"replace", "jar-rollback"} /\ live.jar = "absent"

\* What StackComesBack asks of request q.
ComesBack(q) ==
    (q \in stopped \ rows /\ pc[q] # "failed" /\ pc'[q] = "failed" /\ pc[q] # "restart" /\ ~Restoring(q))
        => running' \/ (pc[q] = "upagain" /\ faults' # faults)

\* A backup written over a tree that was half overwritten gives the tree back,
\* if the backup has what the request overwrites.
LEMMA BackupUndoes ==
    ASSUME TypeOK, TargetsStay, UndoReady, NEW r \in Reqs, pc[r] = "write", op[r] \in Writers,
           HalfWritten(r) # live
    PROVE  \/ Overlay(HalfWritten(r), saved[r]) = live
           \/ op[r] \in {"replace", "jar-rollback"} /\ live.jar = "absent"
<1>. DEFINE h == [jar |-> IF Puts(r).jar \in {None, "absent"} THEN None ELSE "torn",
                  yml |-> IF Puts(r).yml \in {None, "absent"} THEN None ELSE "torn"]
<1>1. live \in Tree /\ live = [jar |-> live.jar, yml |-> live.yml]
  BY DEF TypeOK, Tree
<1>2. HalfWritten(r) = Overlay(live, h)
  BY DEF HalfWritten
<1>3. live.jar # None /\ live.yml # None
  BY <1>1, NoneAssumption DEF Tree, File
<1>4. CASE op[r] = "replace" /\ ~body[r].jar
  <2>1. h = Nothing
    BY <1>4 DEF Puts, Restoring, Nothing
  <2>2. Overlay(live, h) = live
    BY <1>1, <2>1 DEF Overlay, Nothing
  <2>. QED
    BY <1>2, <2>2
<1>5. CASE ~(op[r] = "replace" /\ ~body[r].jar)
  <2>1. Undoable(r)
    BY <1>5 DEF Undoable, Restoring, Writers
  <2>2. saved[r] = Copied(r)
    BY <2>1 DEF UndoReady
  <2>3. CASE op[r] \in {"update", "rollback"}
    <3>1. Copied(r) = live
      BY <1>1, <2>3 DEF Copied
    <3>. QED
      BY <1>1, <1>2, <1>3, <2>2, <3>1 DEF Overlay
  <2>4. CASE op[r] \in {"replace", "jar-rollback"} /\ live.jar # "absent"
    <3>1. Copied(r) = [jar |-> live.jar, yml |-> None]
      BY <2>4 DEF Copied
    <3>2. Puts(r).yml \in {None, "absent"}
      <4>1. CASE op[r] = "replace"
        BY <4>1 DEF Puts, Restoring
      <4>2. CASE op[r] = "jar-rollback"
        <5>1. target[r] \in Reqs /\ op[target[r]] \in {"replace", "jar-rollback"}
          BY <4>2 DEF TargetsStay, Restoring, TypeOK
        <5>2. saved[target[r]].yml = None
          BY <5>1 DEF TargetsStay
        <5>. QED
          BY <4>2, <5>2 DEF Puts, Restoring
      <4>. QED
        BY <2>4, <4>1, <4>2
    <3>3. Overlay(live, h).yml = live.yml
      BY <3>2 DEF Overlay
    <3>. QED
      BY <1>1, <1>2, <1>3, <2>2, <3>1, <3>3 DEF Overlay
  <2>. QED
    BY <2>3, <2>4 DEF Writers
<1>. QED
  BY <1>4, <1>5

\* Every step records the undo first.
LEMMA UndoFirstStep ==
    ASSUME TypeOK, StepsOfOps, BackupLife, TargetsStay, UndoReady, NEW q \in Reqs, [Next]_vars
    PROVE  UndoFirst(q)
<1> USE DEF Goto, Ended, UndoFirst
<1>1. ASSUME NEW r \in Reqs, CreateProject(r) PROVE UndoFirst(q)
  BY <1>1 DEF CreateProject, Admit, UndoFirst
<1>2. ASSUME NEW r \in Reqs, CreateUpdateOrReplace(r) PROVE UndoFirst(q)
  BY <1>2 DEF CreateUpdateOrReplace, Admit, UndoFirst
<1>3. ASSUME NEW r \in Reqs, Rollback(r) PROVE UndoFirst(q)
  BY <1>3 DEF Rollback, Admit, UndoFirst
<1>4. ASSUME NEW r \in Reqs, SaveCompose(r) PROVE UndoFirst(q)
  BY <1>4 DEF SaveCompose, Admit, UndoFirst
<1>5. ASSUME NEW r \in Reqs, DeleteProject(r) PROVE UndoFirst(q)
  BY <1>5 DEF DeleteProject, Admit, UndoFirst
<1>6. ASSUME NEW r \in Reqs, DeleteOrphan(r) PROVE UndoFirst(q)
  BY <1>6 DEF DeleteOrphan, Admit, UndoFirst
<1>7. ASSUME NEW r \in Reqs, Acquire(r) PROVE UndoFirst(q)
  BY <1>7 DEF Acquire, UndoFirst
<1>8. ASSUME NEW r \in Reqs, Receive(r) PROVE UndoFirst(q)
  BY <1>8 DEF Receive, UndoFirst
<1>9. ASSUME NEW r \in Reqs, BackUpDatabase(r) PROVE UndoFirst(q)
  BY <1>9 DEF BackUpDatabase, UndoFirst
<1>10. ASSUME NEW r \in Reqs, TryLock(r) PROVE UndoFirst(q)
  BY <1>10 DEF TryLock, UndoFirst
<1>11. ASSUME NEW r \in Reqs, ComposeDown(r) PROVE UndoFirst(q)
  BY <1>11 DEF ComposeDown, UndoFirst
<1>12. ASSUME NEW r \in Reqs, StartCopy(r) PROVE UndoFirst(q)
  BY <1>12 DEF StartCopy, UndoFirst
<1>13. ASSUME NEW r \in Reqs, FinishCopy(r) PROVE UndoFirst(q)
  BY <1>13 DEF FinishCopy, UndoFirst
<1>14. ASSUME NEW r \in Reqs, InsertProject(r) PROVE UndoFirst(q)
  BY <1>14 DEF InsertProject, UndoFirst
<1>15. ASSUME NEW r \in Reqs, InsertBaseline(r) PROVE UndoFirst(q)
  BY <1>15 DEF InsertBaseline, UndoFirst
<1>16. ASSUME NEW r \in Reqs, InsertVersion(r) PROVE UndoFirst(q)
  BY <1>16 DEF InsertVersion, UndoFirst
<1>17. ASSUME NEW r \in Reqs, LoadImages(r) PROVE UndoFirst(q)
  BY <1>17 DEF LoadImages, UndoFirst
<1>18. ASSUME NEW r \in Reqs, StartWrite(r) PROVE UndoFirst(q)
  <2>1. CASE q # r
    BY <1>18, <2>1 DEF StartWrite, Goto, TypeOK, UndoFirst
  <2>2. CASE q = r /\ project
    <3>1. pc[r] = "write" /\ op[r] \in Writers /\ live' = HalfWritten(r)
      BY <1>18 DEF StartWrite, StepsOfOps
    <3>2. op[r] = "update" => backup[r] = "complete"
      BY <2>2, <3>1 DEF BackupLife
    <3>3. live' # live => \/ Overlay(live', saved[r]) = live
                          \/ (op[r] \in {"replace", "jar-rollback"} /\ live.jar = "absent")
      BY <3>1, BackupUndoes
    <3>4. op[r] = "replace" /\ ~body[r].jar => live' = live
      <4>1. live = [jar |-> live.jar, yml |-> live.yml]
        BY DEF TypeOK, Tree
      <4>. QED
        BY <3>1, <4>1 DEF HalfWritten, Puts, Overlay, Restoring
    <3>5. ASSUME live' # live, op[r] # "update"
          PROVE  r \in rows \/ (op[r] = "replace" /\ live.jar = "absent")
      <4>1. Undoable(r)
        BY <3>1, <3>4, <3>5 DEF Undoable, Restoring, Writers
      <4>. QED
        BY <2>2, <3>1, <3>5, <4>1 DEF UndoReady
    <3>6. r \in rows => backup[r] = "complete"
      BY DEF BackupLife, RegisteredBackupsExist
    <3>. QED
      BY <2>2, <3>1, <3>2, <3>3, <3>5, <3>6 DEF UndoFirst
  <2>. QED
    BY <2>1, <2>2 DEF UndoFirst
<1>19. ASSUME NEW r \in Reqs, FinishWrite(r) PROVE UndoFirst(q)
  BY <1>19 DEF FinishWrite, Goto, TypeOK, UndoFirst
<1>20. ASSUME NEW r \in Reqs, InstallCompose(r) PROVE UndoFirst(q)
  BY <1>20 DEF InstallCompose, Goto, TypeOK, UndoFirst
<1>21. ASSUME NEW r \in Reqs, ClearCurrent(r) PROVE UndoFirst(q)
  BY <1>21 DEF ClearCurrent, UndoFirst
<1>22. ASSUME NEW r \in Reqs, SetCurrent(r) PROVE UndoFirst(q)
  BY <1>22 DEF SetCurrent, UndoFirst
<1>23. ASSUME NEW r \in Reqs, Restart(r) PROVE UndoFirst(q)
  BY <1>23 DEF Restart, UndoFirst
<1>24. ASSUME NEW r \in Reqs, ComposeUp(r) PROVE UndoFirst(q)
  BY <1>24 DEF ComposeUp, UndoFirst
<1>25. ASSUME NEW r \in Reqs, Fail(r) PROVE UndoFirst(q)
  BY <1>25 DEF Fail, UndoFirst
<1>26. ASSUME NEW r \in Reqs, CleanUp(r) PROVE UndoFirst(q)
  BY <1>26 DEF CleanUp, UndoFirst
<1>27. ASSUME NEW r \in Reqs, RemoveBackups(r) PROVE UndoFirst(q)
  BY <1>27 DEF RemoveBackups, UndoFirst
<1>28. ASSUME NEW r \in Reqs, Drop(r) PROVE UndoFirst(q)
  BY <1>28 DEF Drop, UndoFirst
<1>29. CASE Crash
  BY <1>29 DEF Crash, UndoFirst
<1>30. CASE UNCHANGED vars
  BY <1>30
<1>31. QED
  BY <1>1, <1>2, <1>3, <1>4, <1>5, <1>6, <1>7, <1>8, <1>9, <1>10, <1>11, <1>12, <1>13, <1>14,
     <1>15, <1>16, <1>17, <1>18, <1>19, <1>20, <1>21, <1>22, <1>23, <1>24, <1>25, <1>26, <1>27,
     <1>28, <1>29, <1>30 DEF Next, Arrive, Step, Rest

\* Every step that ends in a failure has the stack running again.
LEMMA ComesBackStep ==
    ASSUME TypeOK, StepsOfOps, Paths, MarkLife, StoppedLife, NEW q \in Reqs, [Next]_vars
    PROVE  ComesBack(q)
<1> USE DEF Goto, Ended, TypeOK, StepsOfOps, Paths, MarkLife, StoppedLife, Early, Creates,
       Writers, Removals, Restoring, ComesBack
<1>1. ASSUME NEW r \in Reqs, CreateProject(r) PROVE ComesBack(q)
  BY <1>1 DEF CreateProject, Admit, DbFree
<1>2. ASSUME NEW r \in Reqs, CreateUpdateOrReplace(r) PROVE ComesBack(q)
  BY <1>2 DEF CreateUpdateOrReplace, Admit, DbFree
<1>3. ASSUME NEW r \in Reqs, Rollback(r) PROVE ComesBack(q)
  BY <1>3 DEF Rollback, Admit, DbFree
<1>4. ASSUME NEW r \in Reqs, SaveCompose(r) PROVE ComesBack(q)
  BY <1>4 DEF SaveCompose, Admit, DbFree
<1>5. ASSUME NEW r \in Reqs, DeleteProject(r) PROVE ComesBack(q)
  BY <1>5 DEF DeleteProject, Admit, DbFree
<1>6. ASSUME NEW r \in Reqs, DeleteOrphan(r) PROVE ComesBack(q)
  BY <1>6 DEF DeleteOrphan, Admit, DbFree
<1>7. ASSUME NEW r \in Reqs, Acquire(r) PROVE ComesBack(q)
  BY <1>7 DEF Acquire
<1>8. ASSUME NEW r \in Reqs, Receive(r) PROVE ComesBack(q)
  BY <1>8 DEF Receive
<1>9. ASSUME NEW r \in Reqs, BackUpDatabase(r) PROVE ComesBack(q)
  BY <1>9 DEF BackUpDatabase
<1>10. ASSUME NEW r \in Reqs, TryLock(r) PROVE ComesBack(q)
  BY <1>10 DEF TryLock
<1>11. ASSUME NEW r \in Reqs, ComposeDown(r) PROVE ComesBack(q)
  BY <1>11 DEF ComposeDown
<1>12. ASSUME NEW r \in Reqs, StartCopy(r) PROVE ComesBack(q)
  BY <1>12 DEF StartCopy
<1>13. ASSUME NEW r \in Reqs, FinishCopy(r) PROVE ComesBack(q)
  BY <1>13 DEF FinishCopy, AfterCopy
<1>14. ASSUME NEW r \in Reqs, InsertProject(r) PROVE ComesBack(q)
  BY <1>14 DEF InsertProject, DbFree
<1>15. ASSUME NEW r \in Reqs, InsertBaseline(r) PROVE ComesBack(q)
  BY <1>15 DEF InsertBaseline
<1>16. ASSUME NEW r \in Reqs, InsertVersion(r) PROVE ComesBack(q)
  BY <1>16 DEF InsertVersion, DbFree
<1>17. ASSUME NEW r \in Reqs, LoadImages(r) PROVE ComesBack(q)
  BY <1>17 DEF LoadImages
<1>18. ASSUME NEW r \in Reqs, StartWrite(r) PROVE ComesBack(q)
  BY <1>18 DEF StartWrite
<1>19. ASSUME NEW r \in Reqs, FinishWrite(r) PROVE ComesBack(q)
  BY <1>19 DEF FinishWrite
<1>20. ASSUME NEW r \in Reqs, InstallCompose(r) PROVE ComesBack(q)
  BY <1>20 DEF InstallCompose
<1>21. ASSUME NEW r \in Reqs, ClearCurrent(r) PROVE ComesBack(q)
  BY <1>21 DEF ClearCurrent, DbFree
<1>22. ASSUME NEW r \in Reqs, SetCurrent(r) PROVE ComesBack(q)
  BY <1>22 DEF SetCurrent
<1>23. ASSUME NEW r \in Reqs, Restart(r) PROVE ComesBack(q)
  BY <1>23 DEF Restart
<1>24. ASSUME NEW r \in Reqs, ComposeUp(r) PROVE ComesBack(q)
  <2>1. q # r => pc'[q] = pc[q]
    BY <1>24 DEF ComposeUp, Goto, TypeOK
  <2>2. q = r /\ pc'[q] = "failed" => pc[q] = "upagain"
    BY <1>24 DEF ComposeUp, Goto, TypeOK
  <2>3. q = r /\ q \in stopped => running' \/ faults' # faults
    <3>1. CASE running' = (running \/ r \in stopped)
      BY <3>1
    <3>2. CASE faults' = faults + 1
      BY <3>2 DEF TypeOK
    <3>. QED
      BY <1>24, <3>1, <3>2 DEF ComposeUp
  <2>. QED
    BY <2>1, <2>2, <2>3 DEF ComesBack
<1>25. ASSUME NEW r \in Reqs, Fail(r) PROVE ComesBack(q)
  BY <1>25 DEF Fail, OnError, MayFail, Doomed
<1>26. ASSUME NEW r \in Reqs, CleanUp(r) PROVE ComesBack(q)
  BY <1>26 DEF CleanUp
<1>27. ASSUME NEW r \in Reqs, RemoveBackups(r) PROVE ComesBack(q)
  BY <1>27 DEF RemoveBackups
<1>28. ASSUME NEW r \in Reqs, Drop(r) PROVE ComesBack(q)
  BY <1>28 DEF Drop, Background, Awaits
<1>29. CASE Crash
  BY <1>29 DEF Crash, Active
<1>30. CASE UNCHANGED vars
  BY <1>30
<1>31. QED
  BY <1>1, <1>2, <1>3, <1>4, <1>5, <1>6, <1>7, <1>8, <1>9, <1>10, <1>11, <1>12, <1>13, <1>14,
     <1>15, <1>16, <1>17, <1>18, <1>19, <1>20, <1>21, <1>22, <1>23, <1>24, <1>25, <1>26, <1>27,
     <1>28, <1>29, <1>30 DEF Next, Arrive, Step, Rest

-----------------------------------------------------------------------------
(* The theorems. *)

\* The initial states satisfy the inductive invariant.
LEMMA Initially == Init => StepsOfOps /\ ProjectLife /\ BackupLife /\ LockHeld /\ BackupIsExact
BY NoneAssumption DEF Init, StepsOfOps, ProjectLife, BackupLife, LockHeld, BackupIsExact,
   Locked,
   RegisteredBackupsExist, Opening, Ended, Creates, AllOps

\* The variables keep their types.
THEOREM TypeCorrect == Spec => [](TypeOK /\ StepsOfOps)
<1>1. Init => TypeOK /\ StepsOfOps
  BY TypeInit, Initially
<1>2. TypeOK /\ StepsOfOps /\ [Next]_vars => (TypeOK /\ StepsOfOps)'
  BY TypeStep, StepsOfOpsStep
<1>. QED
  BY <1>1, <1>2, PTL DEF Spec

\* One create makes a project; nothing is listed before it or after its deletion.
THEOREM ProjectLifeHolds == Spec => []ProjectLife
<1>1. TypeOK /\ StepsOfOps /\ ProjectLife /\ [Next]_vars => ProjectLife'
  BY ProjectLifeStep
<1>. QED
  BY <1>1, Initially, TypeCorrect, PTL DEF Spec

\* As long as leftovers are not deleted, a backup outlives its request.
LEMMA BackupLifeHolds ==
    ASSUME "orphan" \notin Ops
    PROVE  Spec => []BackupLife
<1>1. TypeOK /\ StepsOfOps /\ ProjectLife /\ BackupLife /\ [Next]_vars => BackupLife'
  BY BackupLifeStep
<1>. QED
  BY <1>1, Initially, TypeCorrect, ProjectLifeHolds, PTL DEF Spec

\* As long as leftovers are not deleted, whatever crashes, disconnects or fails,
\* a listed version has its whole backup on disk.
THEOREM ListedVersionsHaveBackups ==
    ASSUME "orphan" \notin Ops
    PROVE  Spec => []RegisteredBackupsExist
<1>1. BackupLife => RegisteredBackupsExist
  BY DEF BackupLife
<1>. QED
  BY <1>1, BackupLifeHolds, PTL

\* As long as clients wait for their answers, a running handler of a registered
\* project that is past the lock holds it.
THEOREM HandlersHoldTheLock ==
    ASSUME MaxDrops = 0
    PROVE  Spec => []LockHeld
<1>1. TypeOK /\ StepsOfOps /\ LockHeld /\ [Next]_vars => LockHeld'
  BY LockHeldStep
<1>. QED
  BY <1>1, Initially, TypeCorrect, PTL DEF Spec

\* Under the same assumption one request writes at a time and none copies then.
THEOREM OneWriterAtATime ==
    ASSUME MaxDrops = 0
    PROVE  Spec => []OneWriter
<1>1. TypeOK /\ StepsOfOps /\ ProjectLife /\ LockHeld => OneWriter
  BY DEF TypeOK, StepsOfOps, ProjectLife, LockHeld, OneWriter, Locked, Opening, Creates, Writers,
     Ended
<1>. QED
  BY <1>1, TypeCorrect, ProjectLifeHolds, HandlersHoldTheLock, PTL

\* Under the same assumption a backup is the live tree of one moment.
THEOREM BackupsAreExact ==
    ASSUME MaxDrops = 0
    PROVE  Spec => []BackupIsExact
<1>1. TypeOK /\ StepsOfOps /\ ProjectLife /\ LockHeld /\ BackupIsExact /\ [Next]_vars
          => BackupIsExact'
  BY BackupIsExactStep
<1>. QED
  BY <1>1, Initially, TypeCorrect, ProjectLifeHolds, HandlersHoldTheLock, PTL DEF Spec

\* The initial states satisfy the parts that came later.
LEMMA LaterInitially ==
    Init => /\ Paths /\ NotListedYet /\ TargetsStay /\ UndoReady /\ Restored /\ MarkLife
            /\ CurrentLife /\ StoppedLife /\ Numbered
<1>. SUFFICES ASSUME Init
              PROVE  /\ Paths /\ NotListedYet /\ TargetsStay /\ UndoReady /\ Restored /\ MarkLife
                     /\ CurrentLife /\ StoppedLife /\ Numbered
  OBVIOUS
<1>1. \A r \in Reqs : pc[r] = "idle" /\ op[r] = None /\ ~Restoring(r) /\ op[r] # "update" /\ op[r] # "replace"
  BY NoneAssumption DEF Init, Restoring, AllOps
<1>2. Paths /\ NotListedYet /\ UndoReady /\ Restored /\ MarkLife /\ StoppedLife
  BY <1>1 DEF Init, Paths, NotListedYet, UndoReady, Undoable, Restored, MarkLife, Marking,
     StoppedLife
<1>3. TargetsStay
  BY <1>1, NoneAssumption DEF Init, TargetsStay, Early, Restoring, AllOps
<1>4. CurrentLife
  BY <1>1 DEF Init, CurrentLife
<1>5. Numbered
  <2>1. rows = {} /\ Listed = {}
    BY DEF Init, Listed
  <2>2. \A r \in Reqs : ~Drawn(r) /\ pc[r] # "baseline"
    BY <1>1 DEF Drawn
  <2>. QED
    BY <2>1, <2>2, FS_EmptySet DEF Numbered
<1>. QED
  BY <1>2, <1>3, <1>4, <1>5

\* Handlers stay on their paths, and list their version once.
LEMMA PathsHold == Spec => [](Paths /\ NotListedYet)
<1>1. TypeOK /\ StepsOfOps /\ ProjectLife /\ Paths /\ NotListedYet /\ [Next]_vars
          => (Paths /\ NotListedYet)'
  BY PathsStep, NotListedYetStep
<1>. QED
  BY <1>1, LaterInitially, TypeCorrect, ProjectLifeHolds, PTL DEF Spec

\* The version a rollback restores keeps its files and its row.
LEMMA TargetsHold == Spec => []TargetsStay
<1>1. TypeOK /\ StepsOfOps /\ ProjectLife /\ NotListedYet /\ TargetsStay /\ [Next]_vars
          => TargetsStay'
  BY TargetsStayStep
<1>. QED
  BY <1>1, LaterInitially, TypeCorrect, ProjectLifeHolds, PathsHold, PTL DEF Spec

\* One request at a time moves the mark.
LEMMA MarkLifeHolds == Spec => []MarkLife
<1>1. TypeOK /\ StepsOfOps /\ Paths /\ ProjectLife /\ NotListedYet /\ MarkLife /\ [Next]_vars
          => MarkLife'
  BY MarkLifeStep
<1>. QED
  BY <1>1, LaterInitially, TypeCorrect, ProjectLifeHolds, PathsHold, PTL DEF Spec

\* Where no client disconnects and leftovers are not deleted, no file of the
\* live tree is overwritten before the backup that gives it back is on disk and,
\* but for an upgrade, in the list: whatever crashes or fails.
THEOREM UndoComesFirst ==
    ASSUME MaxDrops = 0, "orphan" \notin Ops
    PROVE  Spec => UndoRecordedFirst
<1>1. TypeOK /\ StepsOfOps /\ ProjectLife /\ NotListedYet /\ Paths /\ TargetsStay /\ LockHeld
          /\ BackupIsExact /\ UndoReady /\ [Next]_vars => UndoReady'
  BY UndoReadyStep
<1>2. TypeOK /\ StepsOfOps /\ BackupLife /\ TargetsStay /\ UndoReady /\ [Next]_vars
          => [\A r \in Reqs :
                 (project /\ pc[r] = "write" /\ pc'[r] = "writing" /\ live' # live) =>
                     \/ /\ backup[r] = "complete" /\ (op[r] # "update" => r \in rows)
                        /\ Overlay(live', saved[r]) = live
                     \/ op[r] \in {"replace", "jar-rollback"} /\ live.jar = "absent"]_vars
  BY UndoFirstStep DEF UndoFirst
<1>. QED
  BY <1>1, <1>2, LaterInitially, TypeCorrect, ProjectLifeHolds, PathsHold, TargetsHold,
     BackupLifeHolds,
     HandlersHoldTheLock, BackupsAreExact, PTL DEF Spec, UndoRecordedFirst

\* Where no client disconnects, the live tree stays the restored one until the
\* rollback has ended.
THEOREM RestoredTreesStay ==
    ASSUME MaxDrops = 0
    PROVE  Spec => []RestoredTreeStays
<1>1. TypeOK /\ StepsOfOps /\ Paths /\ ProjectLife /\ LockHeld /\ TargetsStay /\ MarkLife
          /\ Restored /\ [Next]_vars => Restored'
  BY RestoredStep
<1>2. Restored => RestoredTreeStays
  BY DEF Restored, RestoredTreeStays
<1>. QED
  BY <1>1, <1>2, LaterInitially, TypeCorrect, ProjectLifeHolds, PathsHold, TargetsHold,
     MarkLifeHolds, HandlersHoldTheLock, PTL DEF Spec

\* Where the process does not die and the two statements of mark_current do not
\* fail, whoever disconnects and whatever else fails, one version is the current
\* one between the requests that move the mark.
THEOREM OneIsCurrent ==
    ASSUME MaxCrashes = 0, Fallible \cap {"clear", "select", "mark"} = {}
    PROVE  Spec => []OneCurrent
<1>1. TypeOK /\ StepsOfOps /\ Paths /\ ProjectLife /\ NotListedYet /\ TargetsStay /\ MarkLife
          /\ CurrentLife /\ [Next]_vars => CurrentLife'
  BY CurrentLifeStep
<1>2. CurrentLife => OneCurrent
  BY FS_Singleton DEF CurrentLife, OneCurrent, Marking
<1>. QED
  BY <1>1, <1>2, LaterInitially, TypeCorrect, ProjectLifeHolds, PathsHold, TargetsHold,
     MarkLifeHolds, PTL DEF Spec

\* Whatever crashes, disconnects or fails, a create, an upgrade or a replacement
\* that stopped the stack and fails before its version is listed has the stack
\* running again, unless docker refuses.
THEOREM StackComesBackAlways == Spec => StackComesBack
<1>1. TypeOK /\ StepsOfOps /\ StoppedLife /\ [Next]_vars => StoppedLife'
  BY StoppedLifeStep
<1>2. TypeOK /\ StepsOfOps /\ Paths /\ MarkLife /\ StoppedLife /\ [Next]_vars
          => [\A r \in stopped \ rows :
                 (pc[r] # "failed" /\ pc'[r] = "failed" /\ pc[r] # "restart" /\ ~Restoring(r))
                     => running' \/ (pc[r] = "upagain" /\ faults' # faults)]_vars
  <2>1. TypeOK => stopped \subseteq Reqs
    BY DEF TypeOK
  <2>. QED
    BY <2>1, ComesBackStep DEF ComesBack
<1>. QED
  BY <1>1, <1>2, LaterInitially, TypeCorrect, PathsHold, MarkLifeHolds, PTL
     DEF Spec, StackComesBack

\* Where no client disconnects, the list of versions is the one VersionHistory
\* promises, whatever crashes or fails: numbers without a gap, no version
\* renumbered or taken out, none without its project.
THEOREM HistoryIsKept ==
    ASSUME MaxDrops = 0
    PROVE  Spec => HistorySpec
<1>1. TypeOK /\ StepsOfOps /\ Paths /\ ProjectLife /\ NotListedYet /\ LockHeld /\ Numbered
          /\ [Next]_vars => Numbered'
  BY NumberedStep
<1>2. TypeOK /\ StepsOfOps /\ Paths /\ ProjectLife /\ NotListedYet /\ Numbered /\ [Next]_vars
          => Observed
  BY ObservedStep
<1>3. Observed => [History!Next]_(History!hvars)
  <2>1. CASE Opens
    BY <2>1 DEF Opens, Listed, History!Next, History!Open
  <2>2. ASSUME NEW r \in Reqs, Lists(r) PROVE History!Append(r)
    <3>1. Cardinality(Listed) = History!Cardinality(Listed)
      BY DEF Cardinality, History!Cardinality
    <3>. QED
      BY <2>2, <3>1 DEF Lists, Listed, History!Append
  <2>3. CASE Closes
    BY <2>3 DEF Closes, Listed, History!Next, History!Close
  <2>4. CASE UNCHANGED project /\ Listed' = Listed
    BY <2>4 DEF Listed, History!hvars
  <2>. QED
    BY <2>1, <2>2, <2>3, <2>4 DEF Observed, History!Next
<1>4. Init => History!Init
  BY DEF Init, History!Init
<1>. QED
  BY <1>1, <1>2, <1>3, <1>4, LaterInitially, TypeCorrect, ProjectLifeHolds, PathsHold,
     HandlersHoldTheLock, PTL DEF Spec, HistorySpec, History!Spec

=============================================================================
