------------------------------ MODULE DbBackups ------------------------------
(***************************************************************************)
(* The PostgreSQL backups of one project (src/src/dbbackup.rs and its      *)
(* handlers in src/src/api.rs): the daily schedule, backups asked for,     *)
(* those before an update and before a restore, the copies on a mounted    *)
(* storage, retention, and the restore.                                    *)
(*                                                                         *)
(* A backup is a number, in the order of creation: every backup is made    *)
(* under the project's lock.  The content of the database is the number of *)
(* the last write to it, or 0 when the tables of a restore are truncated.  *)
(***************************************************************************)
EXTENDS Naturals, FiniteSets, FiniteSetsExt

CONSTANTS
    None,
    Requests,      \* what is asked for, each at most once: "run", "manual", "update", "restore"
    CrashInCopy,   \* whether the process may die between the copy and its rename
    MaxIds, MaxDays, MaxSaves, MaxWrites,
    MaxTroubles    \* bound: steps that fail and restarts

VARIABLES
    day, due,      \* today; whether the schedule's time has come
    on, storing, retain,    \* the schedule's row
    lastRun, status,        \* its last_run_date (0: empty) and last_status
    kind, data,    \* of each backup: why it was made, the content it holds
    dirs, whole,   \* backups with a directory; with a manifest
    mirror, part,  \* copies on the storage; .part directories left with a manifest
    content, next, \* of the database; the number of the next write
    holder, pc,    \* the project lock, the step of each task
    seen, asked,   \* the tick's `today`; the content when the restore began
    id, copied,    \* the lock holder's backup; whether it was copied
    was, trim,     \* the schedule "run" read when asked; the one the lock holder works with
    mode, source,  \* of the restore
    booted,        \* the scheduler has begun
    ended,         \* the day of the last scheduled run that ended (never read)
    saves, troubles

clock   == <<day, due>>
row     == <<on, storing, retain, lastRun, status>>
backups == <<kind, data, dirs, whole, mirror, part>>
base    == <<content, next>>
task    == <<holder, pc, seen, asked, id, copied, was, trim, mode, source>>
held    == <<row, ended, holder, seen, asked, was, trim, mode, source>>
spent   == <<saves, troubles>>
vars    == <<clock, row, backups, base, task, booted, ended, spent>>

Tasks  == {"tick", "run", "manual", "update", "restore"}
Ids    == 1..MaxIds
Kinds  == {"scheduled", "manual", "pre-update", "pre-restore"}
KindOf(t) == CASE t \in {"tick", "run"} -> "scheduled" [] t = "manual" -> "manual"
               [] t = "update" -> "pre-update" [] t = "restore" -> "pre-restore"

NoRow == [storing |-> FALSE, retain |-> 1]
Row   == [storing |-> storing, retain |-> retain]

TypeOK ==
    /\ day \in 1..MaxDays /\ due \in BOOLEAN
    /\ on \in BOOLEAN /\ storing \in BOOLEAN /\ retain \in 1..2
    /\ lastRun \in 0..MaxDays /\ status \in {"", "running", "success", "failed"}
    /\ kind \in [Ids -> Kinds \cup {None}] /\ data \in [Ids -> Nat]
    /\ dirs \subseteq Ids /\ whole \subseteq dirs /\ mirror \subseteq Ids /\ part \subseteq Ids
    /\ content \in Nat /\ next \in Nat
    /\ holder \in Tasks \cup {None} /\ id \in Ids \cup {None}
    /\ pc \in [Tasks -> {"idle", "wait", "begin", "dump", "copy", "rename", "trim", "trimCopies",
                         "check", "truncate", "load", "undo", "done"}]
    /\ {was, trim} \subseteq [storing : BOOLEAN, retain : 1..2] /\ mode \in {"full", "tables"}
    /\ source \in Ids \cup {None} /\ copied \in BOOLEAN /\ booted \in BOOLEAN

Init ==
    /\ day = 1 /\ due = FALSE
    /\ on \in BOOLEAN /\ storing \in BOOLEAN /\ retain = 1 /\ lastRun = 0 /\ status = ""
    /\ kind = [i \in Ids |-> None] /\ data = [i \in Ids |-> 0]
    /\ dirs = {} /\ whole = {} /\ mirror = {} /\ part = {}
    /\ content = 1 /\ next = 2
    /\ holder = None /\ pc = [t \in Tasks |-> "idle"]
    /\ seen = 0 /\ asked = 0 /\ id = None /\ copied = FALSE
    /\ was = NoRow /\ trim = NoRow /\ mode = "full" /\ source = None
    /\ booted = FALSE /\ ended = 0
    /\ saves = 0 /\ troubles = 0
-----------------------------------------------------------------------------
(* The clock, the application, the schedule's form. *)

Trouble == troubles < MaxTroubles /\ troubles' = troubles + 1 /\ UNCHANGED saves

TimeComes == ~due /\ due' = TRUE /\ UNCHANGED <<day, row, backups, base, task, booted, ended, spent>>

NextDay ==
    /\ day < MaxDays /\ day' = day + 1 /\ due' = FALSE
    /\ UNCHANGED <<row, backups, base, task, booted, ended, spent>>

Write ==
    /\ next <= MaxWrites /\ content' = next /\ next' = next + 1
    /\ UNCHANGED <<clock, row, backups, task, booted, ended, spent>>

\* save_schedule keeps the last run; another time of day may not have come yet.
SaveSchedule ==
    /\ saves < MaxSaves /\ saves' = saves + 1
    /\ on' \in BOOLEAN /\ storing' \in BOOLEAN /\ retain' \in 1..2 /\ due' \in BOOLEAN
    /\ UNCHANGED <<day, lastRun, status, backups, base, task, booted, ended, troubles>>
-----------------------------------------------------------------------------
(* The schedule. *)

\* Mutant: a run that was interrupted counts as the day's.
MarkInterrupted == status' = (IF status = "running" THEN "failed" ELSE status) /\ UNCHANGED lastRun

\* Mutant: nothing is cleared at the start.
LeaveRunning == UNCHANGED <<status, lastRun>>

\* scheduler, before its loop: what says "running" was interrupted.
ResetRunning ==
    /\ status' = IF status = "running" THEN "failed" ELSE status
    /\ lastRun' = IF status = "running" THEN 0 ELSE lastRun

Boot ==
    /\ ~booted /\ booted' = TRUE
    /\ ResetRunning
    /\ UNCHANGED <<clock, on, storing, retain, backups, base, task, ended, spent>>

\* A round of the scheduler; the schedule is read again under the lock.
Tick ==
    /\ booted /\ pc["tick"] = "idle" /\ on /\ due /\ lastRun # day
    /\ seen' = day /\ pc' = [pc EXCEPT !["tick"] = "wait"]
    /\ UNCHANGED <<clock, row, backups, base, holder, asked, id, copied, was, trim, mode, source, booted, ended, spent>>

\* set_run_status with a run_date
SetRunning(d) == lastRun' = d /\ status' = "running"

StillDue == on /\ lastRun # seen

TickLocked ==
    /\ pc["tick"] = "wait" /\ holder = None
    /\ IF StillDue
       THEN /\ holder' = "tick" /\ pc' = [pc EXCEPT !["tick"] = "begin"]
            /\ SetRunning(seen) /\ trim' = Row
            /\ UNCHANGED seen
       ELSE /\ pc' = [pc EXCEPT !["tick"] = "idle"] /\ seen' = 0
            /\ UNCHANGED <<holder, lastRun, status, trim>>
    /\ UNCHANGED <<clock, on, storing, retain, backups, base, asked, id, copied, was, mode, source, booted, ended, spent>>

\* The handlers.  db_backup_schedule_run takes the schedule of now; the restore
\* names a backup.
Request(t) ==
    /\ pc[t] = "idle"
    /\ IF t = "restore" THEN mode' \in {"full", "tables"} /\ source' \in whole
       ELSE UNCHANGED <<mode, source>>
    /\ was' = IF t = "run" THEN Row ELSE was
    /\ pc' = [pc EXCEPT ![t] = "wait"]
    /\ UNCHANGED <<clock, row, backups, base, holder, seen, asked, id, copied, trim, booted, ended, spent>>

\* The lock.  The job of "run" marks today, whatever was run before.
RequestLocked(t) ==
    /\ pc[t] = "wait" /\ holder = None
    /\ holder' = t /\ pc' = [pc EXCEPT ![t] = "begin"]
    /\ IF t = "run" THEN SetRunning(day) ELSE UNCHANGED <<lastRun, status>>
    /\ trim' = IF t = "run" THEN was ELSE Row
    /\ asked' = IF t = "restore" THEN content ELSE asked
    /\ UNCHANGED <<clock, on, storing, retain, backups, base, seen, id, copied, was, mode, source, booted, ended, spent>>
-----------------------------------------------------------------------------
(* What a task does while it holds the lock. *)

\* The end of a task; a scheduled run notes how it went.
Leave(t, how) ==
    /\ holder' = None /\ id' = None /\ copied' = FALSE
    /\ pc' = [pc EXCEPT ![t] = IF t = "tick" THEN "idle" ELSE "done"]
    /\ status' = IF KindOf(t) = "scheduled" THEN how ELSE status
    /\ ended' = IF KindOf(t) = "scheduled" THEN lastRun ELSE ended
    /\ asked' = 0 /\ trim' = NoRow
    /\ seen' = (IF t = "tick" THEN 0 ELSE seen) /\ was' = (IF t = "run" THEN NoRow ELSE was)
    /\ mode' = (IF t = "restore" THEN "full" ELSE mode) /\ source' = (IF t = "restore" THEN None ELSE source)
    /\ UNCHANGED <<on, storing, retain, lastRun>>

\* create: a directory, and pg_dump begins with a snapshot of the database.
BeginDump(t) ==
    /\ pc[t] = "begin"
    /\ \E i \in Ids :
        /\ kind[i] = None /\ \A j \in 1..(i - 1) : kind[j] # None
        /\ kind' = [kind EXCEPT ![i] = KindOf(t)] /\ data' = [data EXCEPT ![i] = content]
        /\ dirs' = dirs \cup {i} /\ id' = i
    /\ pc' = [pc EXCEPT ![t] = "dump"]
    /\ UNCHANGED <<clock, row, whole, mirror, part, base, holder, seen, asked, copied, was, trim, mode, source, booted, ended, spent>>

AfterDump(t) ==
    CASE t = "restore" -> "check"
      [] t \notin {"restore", "manual"} /\ trim.storing -> "copy"
      [] KindOf(t) = "scheduled" /\ ~trim.storing -> "trim"
      [] OTHER -> "done"

\* The dumps and queries end and the manifest is written; a restore goes on
\* with its checks.
EndDump(t) ==
    /\ pc[t] = "dump"
    /\ whole' = whole \cup {id}
    /\ IF AfterDump(t) = "done" THEN Leave(t, "success")
       ELSE pc' = [pc EXCEPT ![t] = AfterDump(t)] /\ UNCHANGED <<held, id, copied>>
    /\ UNCHANGED <<clock, kind, data, dirs, mirror, part, base, booted, spent>>

\* Mutant: a restore goes on without its safety backup.
DumpFailsUnseen(t) ==
    /\ pc[t] = "dump" /\ Trouble
    /\ dirs' = dirs \ {id}
    /\ IF t = "restore" THEN pc' = [pc EXCEPT ![t] = "check"] /\ UNCHANGED <<held, id, copied>>
       ELSE Leave(t, "failed")
    /\ UNCHANGED <<clock, kind, data, whole, mirror, part, base, booted>>

\* pg_dump fails and its directory goes, or a query after it and it stays.
DumpFails(t) ==
    /\ pc[t] = "dump" /\ Trouble
    /\ dirs' \in {dirs, dirs \ {id}}
    /\ Leave(t, "failed")
    /\ UNCHANGED <<clock, kind, data, whole, mirror, part, base, booted>>

\* Mutant: the staging directory stays.
PartAfterRename == part

PartAfter == part \ {id}

\* copy_to_storage: into a .part, compared, renamed.
Copy(t) ==
    /\ pc[t] = "copy"
    /\ \/ /\ pc' = [pc EXCEPT ![t] = "rename"] /\ part' = part \cup {id}
          /\ UNCHANGED <<held, id, copied, spent>>
       \/ Trouble /\ Leave(t, "failed") /\ UNCHANGED part
    /\ UNCHANGED <<clock, kind, data, dirs, whole, mirror, base, booted>>

Rename(t) ==
    /\ pc[t] = "rename"
    /\ part' = PartAfter /\ mirror' = mirror \cup {id}
    /\ IF t = "update" THEN Leave(t, "success")
       ELSE /\ pc' = [pc EXCEPT ![t] = "trim"] /\ copied' = TRUE
            /\ UNCHANGED <<held, id>>
    /\ UNCHANGED <<clock, kind, data, dirs, whole, base, booted, spent>>

\* apply_retention: the scheduled ones after the newest n.
Beyond(set, n) ==
    LET scheduled == {i \in set : kind[i] = "scheduled"} IN
    {i \in scheduled : Cardinality({j \in scheduled : j > i}) >= n}

Trim(t) ==
    /\ pc[t] = "trim"
    /\ LET old == Beyond(whole, trim.retain) IN whole' = whole \ old /\ dirs' = dirs \ old
    /\ IF copied
       THEN /\ pc' = [pc EXCEPT ![t] = "trimCopies"]
            /\ UNCHANGED <<held, id, copied>>
       ELSE Leave(t, "success")
    /\ UNCHANGED <<clock, kind, data, mirror, part, base, booted, spent>>

\* A .part with a manifest is in the list too; its name without .part is not
\* there to be removed, which is an error.
TrimCopies(t) ==
    /\ pc[t] = "trimCopies"
    /\ LET old == Beyond(mirror \cup part, trim.retain) IN
       IF old \subseteq mirror
       THEN mirror' = mirror \ old /\ Leave(t, "success")
       ELSE \* newest first, up to the first that is missing
            LET stop == Max(old \ mirror) IN
            mirror' = mirror \ {i \in old : i > stop} /\ Leave(t, "failed")
    /\ UNCHANGED <<clock, kind, data, dirs, whole, part, base, booted, spent>>
-----------------------------------------------------------------------------
(* The restore, after its safety backup. *)

\* Versions, PostGIS and foreign keys may refuse.
Check ==
    /\ pc["restore"] = "check"
    /\ \/ /\ pc' = [pc EXCEPT !["restore"] = IF mode = "full" THEN "load" ELSE "truncate"]
          /\ UNCHANGED <<held, id, copied>>
       \/ Leave("restore", "failed")
    /\ UNCHANGED <<clock, backups, base, booted, spent>>

Truncate ==
    /\ pc["restore"] = "truncate"
    /\ content' = 0 /\ pc' = [pc EXCEPT !["restore"] = "load"]
    /\ UNCHANGED <<clock, row, backups, next, holder, seen, asked, id, copied, was, trim, mode, source, booted, ended, spent>>

\* pg_restore, in one transaction.  Its failure leaves a whole database as it
\* was and truncated tables for the safety backup.
Load ==
    /\ pc["restore"] = "load"
    /\ \/ content' = data[source] /\ Leave("restore", "success") /\ UNCHANGED spent
       \/ /\ Trouble /\ UNCHANGED content
          /\ IF mode = "full" THEN Leave("restore", "failed")
             ELSE /\ pc' = [pc EXCEPT !["restore"] = "undo"]
                  /\ UNCHANGED <<held, id, copied>>
    /\ UNCHANGED <<clock, backups, next, booted>>

Undo ==
    /\ pc["restore"] = "undo"
    /\ \/ content' = data[id] /\ UNCHANGED spent
       \/ Trouble /\ UNCHANGED content
    /\ Leave("restore", "failed")
    /\ UNCHANGED <<clock, backups, next, booted>>
-----------------------------------------------------------------------------
\* The process dies and starts; an update's client that leaves ends its task too.
Restart ==
    /\ Trouble
    /\ CrashInCopy \/ \A t \in Tasks : pc[t] # "rename"
    /\ holder' = None /\ id' = None /\ copied' = FALSE /\ booted' = FALSE
    /\ seen' = 0 /\ asked' = 0 /\ was' = NoRow /\ trim' = NoRow /\ mode' = "full" /\ source' = None
    /\ pc' = [t \in Tasks |-> IF t = "tick" \/ pc[t] = "idle" THEN "idle" ELSE "done"]
    /\ UNCHANGED <<clock, row, backups, base, ended>>

Quiet == UNCHANGED vars

Next ==
    \/ TimeComes \/ NextDay \/ Write \/ SaveSchedule \/ Boot \/ Tick \/ TickLocked \/ Restart \/ Quiet
    \/ \E t \in Requests : Request(t) \/ RequestLocked(t)
    \/ \E t \in Tasks : BeginDump(t) \/ EndDump(t) \/ DumpFails(t) \/ Copy(t) \/ Rename(t)
                        \/ Trim(t) \/ TrimCopies(t)
    \/ Check \/ Truncate \/ Load \/ Undo

Spec == Init /\ [][Next]_vars

\* The loop turns, a task goes on, and a lock that stays free is taken.
Fairness ==
    /\ WF_vars(Boot) /\ WF_vars(Tick) /\ WF_vars(TickLocked)
    /\ \A t \in Requests : WF_vars(RequestLocked(t))
    /\ \A t \in Tasks : WF_vars(BeginDump(t) \/ EndDump(t) \/ Copy(t) \/ Rename(t) \/ Trim(t) \/ TrimCopies(t))
    /\ WF_vars(Check \/ Truncate \/ Load \/ Undo)
FairSpec == Spec /\ Fairness
-----------------------------------------------------------------------------
\* "running" in the schedule's row means that a run is at work, once the
\* scheduler has cleared what a restart interrupted.
RunningIsReal == booted /\ status = "running" => holder \in {"tick", "run"}

\* README: automatic cleaning removes scheduled backups only, and never the
\* newest of them.
OnlyOldScheduledGo ==
    [][\A i \in whole \ whole' : kind[i] = "scheduled" /\ \E j \in whole' : j > i /\ kind[j] = "scheduled"]_vars

\* README: the database is backed up before a restore writes over it: what a
\* restore removes or replaces was dumped after the restore began.
ReplacedIsSaved ==
    [][content' # content /\ next' = next =>
         \E i \in whole : kind[i] = "pre-restore" /\ data[i] >= asked]_vars

\* dbbackup.rs apply_retention, restore: both at once.
DataStaysKept == OnlyOldScheduledGo /\ ReplacedIsSaved

\* The scheduler never runs again on a day that a run has ended with success,
\* if that day is still the one its round began on: past midnight it does.
NoSecondRun ==
    [][holder' = "tick" /\ holder = None /\ seen = day => ~(status = "success" /\ lastRun = day)]_vars

\* README: a run that was missed is made up on the day, and one that a restart
\* interrupted is made again.
EveryDayRuns ==
    \A d \in 1..MaxDays : (on /\ due /\ day = d) ~> (ended = d \/ ~on \/ ~due \/ day # d)

\* README: of scheduled backups as many are kept as the schedule says, on the
\* storage as well: a run ends with a failure only when a step of it failed.
FailsWithCause == [][status' = "failed" => status = "failed" \/ troubles' > troubles \/ ~booted]_vars

\* dbbackup.rs run_schedule: both at once.
RunsAreHonest == NoSecondRun /\ FailsWithCause
=============================================================================
