------------------------------ MODULE Services ------------------------------
(***************************************************************************)
(* What the program does beside its projects: it counts access logs        *)
(* (nginx_stats.rs), backs up databases (dbbackup.rs) and keeps the nodes  *)
(* of a cluster and their accounts (cluster/*.rs, auth.rs).  The three     *)
(* share nothing: `comp` says which one a behaviour is about, so their     *)
(* states add up and do not multiply.                                      *)
(***************************************************************************)
EXTENDS Naturals, Sequences

CONSTANTS
    None,
    Scans, Clients, Inodes, Chunk, DropAt, Beside, MaxLines, MaxGens, MaxSettings, MaxRestarts,
    Requests, CrashInCopy, MaxIds, MaxDays, MaxSaves, MaxWrites, MaxFaults,
    Workers, Addrs, Home, Discover, TaskIds, MaxChanges, MaxTroubles

VARIABLES
    comp,
    len, gen, listed, enabled, cursor, counted, nlock, npc, todo, work, skipped, nsaves, nrestarts,
    day, due, on, storing, retain, lastRun, status, kind, data, dirs, whole, mirror, part, content, next,
    holder, pc, seen, asked, id, copied, was, trim, mode, source, booted, ended, saves, troubles,
    password, row, rowAddr, task, missed, theirs, up, link, at, registered, fails, found, changes, ctroubles

nginx   == <<len, gen, listed, enabled, cursor, counted, nlock, npc, todo, work, skipped, nsaves, nrestarts>>
backup  == <<day, due, on, storing, retain, lastRun, status, kind, data, dirs, whole, mirror, part, content, next,
             holder, pc, seen, asked, id, copied, was, trim, mode, source, booted, ended, saves, troubles>>
cluster == <<password, row, rowAddr, task, missed, theirs, up, link, at, registered, fails, found, changes, ctroubles>>
vars    == <<comp, nginx, backup, cluster>>

\* The log scans and the backups come with their theorems.
N == INSTANCE NginxScan_proofs WITH
       MaxSaves <- MaxSettings,
       lock <- nlock, pc <- npc, saves <- nsaves, restarts <- nrestarts
B == INSTANCE DbBackups_proofs WITH MaxTroubles <- MaxFaults
C == INSTANCE ClusterSync WITH troubles <- ctroubles

\* A component that is not looked at is in one of its initial states.
Init ==
    /\ comp \in {"nginx", "backup", "cluster"}
    /\ N!Init /\ B!Init /\ C!Init
    /\ comp # "nginx" => listed = {}
    /\ comp # "backup" => ~on /\ ~storing

Next ==
    \/ comp = "nginx" /\ N!Next /\ UNCHANGED <<comp, backup, cluster>>
    \/ comp = "backup" /\ B!Next /\ UNCHANGED <<comp, nginx, cluster>>
    \/ comp = "cluster" /\ C!Next /\ UNCHANGED <<comp, nginx, backup>>

Spec == Init /\ [][Next]_vars
-----------------------------------------------------------------------------
\* Every component keeps its types (the checks of the handlers' inputs).
TypeOK == N!TypeOK /\ B!TypeOK /\ C!TypeOK

\* nginx_stats.rs: no line of an access log is counted twice, and the cursor
\* of a log says exactly which of its lines were counted.
CountedOnce == N!CountedOnce /\ N!CursorTellsCount

\* dbbackup.rs: "running" in the schedule's row is a run at work.
RunningIsReal == B!RunningIsReal

\* dbbackup.rs apply_retention, restore: only scheduled backups go, never the
\* newest, and what a restore replaces was dumped first.
DataStaysKept == B!DataStaysKept

\* dbbackup.rs scheduler: a day that ended with success is not run again, and
\* a run that failed has a step that failed.
RunsAreHonest == B!RunsAreHonest

\* auth.rs sync_users_to_worker: a worker's password differs only by a loss.
DiffersOnlyByLoss == C!DiffersOnlyByLoss

\* server.rs dedupe_nodes: no two rows share an address.
OneRowPerAddress == C!OneRowPerAddress
=============================================================================
