------------------------------- MODULE Upkeep -------------------------------
(***************************************************************************)
(* What arrives at a host and takes the place of something: files that are *)
(* uploaded in chunks (api.rs), the program itself (self_upgrade.rs,       *)
(* update.rs, cluster/self_update.rs), images (images.rs).  With them the  *)
(* loops that must come through: the schedule of the backups (dbbackup.rs) *)
(* and a worker's client (cluster/client.rs).  They share nothing: `comp`  *)
(* says which one a behaviour is about, so their states add up and do not  *)
(* multiply.  An action of a component is fair only in a behaviour of its  *)
(* own.                                                                    *)
(***************************************************************************)
EXTENDS Naturals, Sequences

CONSTANTS
    None,
    Uploads, Tabs, Of, Total, Old, ChunkPieces, DropAt, MaxDrops, MaxRestarts, MaxFaults,
    Updates, Versions, Installed, CliBeside, LeaveAt, MaxSyncs, MaxClis, MaxLeft, MaxReboots,
    Master, Order, Selections, Stalls, JobIds, MaxRequests, MaxChanges, MaxTroubles,
    Requests, CrashInCopy, MaxIds, MaxDays, MaxSaves, MaxWrites, MaxBreaks,
    Members, Addrs, Home, Discover, TaskIds, MaxPasswords, MaxOutages

VARIABLES
    comp,
    part, mark, target, holder, pc, offset, todo, pool, told, late, drops, restarts, faults,
    exe, draft, run, moved, keeper, slot, upgrading, upc, ver, gone, due, offer, wpc, applying, cooling,
    syncs, clis, left, reboots,
    file, base, cand, kind, sel, jobs, ipc, itodo, did, iholder, up, wjobs, iwpc, wtmp, wfile, images,
    asked, changes, troubles,
    day, dayDue, on, storing, retain, lastRun, status, why, data, dirs, whole, mirror, parts, content, next,
    lock, bpc, seen, saved, id, copied, was, trim, mode, source, booted, ended, saves, breaks,
    password, row, rowAddr, task, missed, theirs, running, link, at, registered, fails, found, passwords, outages

temp   == <<part, mark, target, holder, pc, offset, todo, pool, told, late, drops, restarts, faults>>
update == <<exe, draft, run, moved, keeper, slot, upgrading, upc, ver, gone, due, offer, wpc, applying, cooling,
            syncs, clis, left, reboots>>
image  == <<file, base, cand, kind, sel, jobs, ipc, itodo, did, iholder, up, wjobs, iwpc, wtmp, wfile, images,
            asked, changes, troubles>>
backup == <<day, dayDue, on, storing, retain, lastRun, status, why, data, dirs, whole, mirror, parts, content, next,
            lock, bpc, seen, saved, id, copied, was, trim, mode, source, booted, ended, saves, breaks>>
member == <<password, row, rowAddr, task, missed, theirs, running, link, at, registered, fails, found, passwords,
            outages>>
vars   == <<comp, temp, update, image, backup, member>>

T == INSTANCE TempUpload
U == INSTANCE SelfUpdate WITH
       Uploads <- Updates, DropAt <- LeaveAt, MaxDrops <- MaxLeft, MaxRestarts <- MaxReboots,
       pc <- upc, drops <- left, restarts <- reboots
I == INSTANCE ImageImport WITH
       pc <- ipc, todo <- itodo, holder <- iholder, wpc <- iwpc
B == INSTANCE DbBackups WITH
       due <- dayDue, kind <- why, part <- parts, holder <- lock, pc <- bpc, asked <- saved,
       troubles <- breaks, MaxTroubles <- MaxBreaks
C == INSTANCE ClusterSync WITH
       Workers <- Members, up <- running, changes <- passwords, troubles <- outages,
       MaxChanges <- MaxPasswords, MaxTroubles <- MaxOutages

\* Uploads have sizes, chunks have pieces, None is none of them.
ASSUME TempAssumption ==
    /\ Of \in [Tabs -> Uploads] /\ Total \in [Uploads -> Nat] /\ ChunkPieces \in Nat \ {0}
    /\ Old \in Seq({None} \X Nat) /\ None \notin Tabs
    /\ None \notin Seq((Uploads \cup {None}) \X Nat)
    /\ None \notin [piece : Uploads \X Nat, to : {"part", "temp"}]

\* Versions are numbers, the command line is no request, None is no file.
ASSUME UpdateAssumption ==
    /\ "cli" \notin Updates /\ Versions \subseteq Nat \ {0} /\ 1 \in Versions
    /\ None \notin U!Files

\* The nodes are named in a sequence, the master among them.
ASSUME ImageAssumption ==
    /\ Order \in Seq(I!Nodes) /\ Master \in I!Nodes /\ Selections \subseteq SUBSET I!Nodes
    /\ JobIds \subseteq Nat /\ MaxChanges \in Nat /\ None \notin I!Archive

\* A component that is not looked at is in one of its initial states.
Init ==
    /\ comp \in {"temp", "update", "images", "backup", "member"}
    /\ T!Init /\ U!Init /\ I!Init /\ B!Init /\ C!Init
    /\ comp # "temp" => target = None
    /\ comp # "images" => file = None
    /\ comp # "backup" => ~on /\ ~storing

Next ==
    \/ comp = "temp" /\ T!Next /\ UNCHANGED <<comp, update, image, backup, member>>
    \/ comp = "update" /\ U!Next /\ UNCHANGED <<comp, temp, image, backup, member>>
    \/ comp = "images" /\ I!Next /\ UNCHANGED <<comp, temp, update, backup, member>>
    \/ comp = "backup" /\ B!Next /\ UNCHANGED <<comp, temp, update, image, member>>
    \/ comp = "member" /\ C!Next /\ UNCHANGED <<comp, temp, update, image, backup>>

Spec == Init /\ [][Next]_vars

\* The fairness of TempUpload, SelfUpdate, ImageImport, DbBackups and ClusterSync.
Fairness ==
    /\ \A p \in Tabs :
          /\ WF_temp(comp = "temp" /\ T!Choose(p)) /\ WF_temp(comp = "temp" /\ T!Status(p))
          /\ WF_temp(comp = "temp" /\ T!Send(p)) /\ WF_temp(comp = "temp" /\ T!Accept(p))
          /\ WF_temp(comp = "temp" /\ T!Write(p)) /\ WF_temp(comp = "temp" /\ T!Written(p))
          /\ WF_temp(comp = "temp" /\ T!WriteMarker(p)) /\ WF_temp(comp = "temp" /\ T!Rename(p))
          /\ WF_temp(comp = "temp" /\ T!LateWrite(p))
    /\ \A w \in Updates \cup {"cli"} :
          /\ WF_update(comp = "update" /\ U!Copy(w)) /\ WF_update(comp = "update" /\ U!Fill(w))
          /\ WF_update(comp = "update" /\ U!Rename(w))
    /\ WF_update(comp = "update" /\ U!RestartMaster) /\ WF_update(comp = "update" /\ U!Offer)
    /\ WF_update(comp = "update" /\ U!Download) /\ WF_update(comp = "update" /\ U!RestartWorker)
    /\ WF_update(comp = "update" /\ U!CoolDown)
    /\ WF_image(comp = "images" /\ I!CopyEnds) /\ WF_image(comp = "images" /\ I!Poll)
    /\ \A j \in JobIds :
          /\ WF_image(comp = "images" /\ (I!Begin(j) \/ I!Local(j) \/ I!Post(j) \/ I!PostDelete(j)
                                         \/ I!Unreachable(j)))
          /\ WF_image(comp = "images" /\ I!PollWorker(j))
          /\ \A w \in I!Workers : WF_image(comp = "images" /\ I!WorkerStep(w, j))
    /\ WF_backup(comp = "backup" /\ B!Boot) /\ WF_backup(comp = "backup" /\ B!Tick)
    /\ WF_backup(comp = "backup" /\ B!TickLocked)
    /\ \A r \in Requests : WF_backup(comp = "backup" /\ B!RequestLocked(r))
    /\ \A t \in {"tick"} \cup Requests :
          WF_backup(comp = "backup" /\ (B!BeginDump(t) \/ B!EndDump(t) \/ B!Copy(t) \/ B!Rename(t)
                                        \/ B!Trim(t) \/ B!TrimCopies(t)))
    /\ \A t \in TaskIds :
          WF_member(comp = "member" /\ C!ReadTables(t)) /\ WF_member(comp = "member" /\ C!Push(t))
    /\ \A w \in Members :
          /\ WF_member(comp = "member" /\ C!Tick(w)) /\ WF_member(comp = "member" /\ C!TickFails(w))
          /\ WF_member(comp = "member" /\ C!Mend(w))

FairSpec == Spec /\ Fairness
-----------------------------------------------------------------------------
\* What arrives keeps its types; the others' types, and what their states
\* promise, are checked in Services.
TypeOK == T!TypeOK /\ U!TypeOK /\ I!TypeOK

\* api.rs temp_upload_chunk: a .part file is a beginning of its upload.
PartIsPrefix == T!PartIsPrefix

\* api.rs temp_upload_status, temp_upload_chunk: a client told that its upload
\* is complete has its file in temp.
ToldIsThere == T!ToldIsThere

\* self_upgrade.rs, update.rs: a host that restarts finds a whole program.
AlwaysStarts == U!AlwaysStarts

\* self_upgrade.rs apply_file, self_update.rs verify_version: nothing is
\* downgraded, and a worker starts no version its master has not run.
UpdatesInOrder == U!NoDowngrade /\ U!FollowsMaster

\* self_update.rs: a worker that is served the master's version gets it.
CatchesUp == U!CatchesUp

\* images.rs import_cluster, progress.rs: an import that is reported done was
\* done on its nodes, and the page that follows a job at work finds it.
OutcomesHold == I!OutcomesHold

\* index.html runTempUpload, images.rs: an upload that is taken again and again
\* ends; every import ends, and the archive that stays in the directory ends up
\* on every node.
TransfersEnd == (comp = "temp" => T!Resumes) /\ I!EveryImportEnds /\ I!StableIsDeployed

\* dbbackup.rs scheduler, client.rs run: every day's run is made; every worker
\* ends up registered.
LoopsComeThrough == B!EveryDayRuns /\ (comp = "member" => C!EveryWorkerJoins)
=============================================================================
