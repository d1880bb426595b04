-------------------------- MODULE DbBackups_proofs --------------------------
(***************************************************************************)
(* The backups of a project's database, for any number of backups, days,   *)
(* changes of the schedule, writes and faults: one task at a time is at    *)
(* work, "running" is a run at work, retention leaves the newest, and a    *)
(* restore has its safety backup.                                          *)
(***************************************************************************)
EXTENDS DbBackups, FiniteSetTheorems, WellFoundedInduction, TLAPS

\* The scheduler's rounds are not requests; the bounds are numbers.
Setting ==
    /\ Requests \subseteq Tasks \ {"tick"}
    /\ None \notin Tasks \cup Ids \cup Kinds
    /\ MaxIds \in Nat /\ MaxDays \in Nat \ {0}

\* The steps at which a task has the project's lock.
Working == {"begin", "dump", "copy", "rename", "trim", "trimCopies", "check", "truncate", "load", "undo"}
Steps   == Working \cup {"idle", "wait", "done"}

\* One task at a time is at work.
Exclusive ==
    /\ pc \in [Tasks -> Steps] /\ holder \in Tasks \cup {None}
    /\ \A t \in Tasks : pc[t] \in Working => holder = t

\* The scheduler's days, the last run's among them.
Timed ==
    /\ day \in 1..MaxDays /\ due \in BOOLEAN /\ seen \in 0..MaxDays /\ lastRun \in 0..MaxDays
    /\ booted \in BOOLEAN /\ copied \in BOOLEAN /\ mode \in {"full", "tables"}
    /\ status \in {"", "running", "success", "failed"}

\* The schedule's row, and those that were read, hold what the form may.
Rows == [storing : BOOLEAN, retain : 1..2]
Set  ==
    /\ on \in BOOLEAN /\ storing \in BOOLEAN /\ retain \in 1..2
    /\ was \in Rows /\ trim \in Rows

\* The backups there are have been begun, and the one at work has a number.
Stored ==
    /\ kind \in [Ids -> Kinds \cup {None}] /\ data \in [Ids -> Nat]
    /\ whole \subseteq dirs /\ dirs \subseteq {i \in Ids : kind[i] # None}
    /\ mirror \subseteq Ids /\ part \subseteq Ids
    /\ id \in Ids \cup {None}
    /\ \A t \in Tasks : pc[t] \in Working \ {"begin"} => id \in Ids
    /\ \A t \in Tasks : pc[t] = "dump" => id \in dirs \ whole

\* Every content the database had is older than its next write.
Written ==
    /\ content \in Nat /\ next \in Nat /\ content < next
    /\ \A i \in Ids : data[i] < next
    /\ source \in Ids \cup {None}
    /\ pc["restore"] \notin {"idle", "done"} => source \in Ids

\* A restore writes over nothing that its safety backup does not have.
Safe ==
    /\ asked \in Nat
    /\ pc["restore"] = "begin" => content >= asked
    /\ pc["restore"] \in {"dump", "check", "truncate", "load", "undo"} =>
         id \in Ids /\ kind[id] = "pre-restore" /\ data[id] >= asked
    /\ pc["restore"] \in {"check", "truncate", "load", "undo"} => id \in whole

\* Only the task between its copy and the rename has a .part on the storage.
OnePart ==
    /\ (\A t \in Tasks : pc[t] # "rename") => part = {}
    /\ \A t \in Tasks : pc[t] = "rename" => part = {id}
    /\ troubles \in Nat

\* What the steps may do, as the properties say it.
NewestStays ==
    \A i \in whole \ whole' : kind[i] = "scheduled" /\ \E j \in whole' : j > i /\ kind[j] = "scheduled"
SavedFirst ==
    content' # content /\ next' = next => \E i \in whole : kind[i] = "pre-restore" /\ data[i] >= asked
OncePerDay ==
    holder' = "tick" /\ holder = None /\ seen = day => ~(status = "success" /\ lastRun = day)
Caused ==
    status' = "failed" => status = "failed" \/ troubles' > troubles \/ ~booted
-----------------------------------------------------------------------------
\* What the kinds of tasks back up for.
LEMMA KindsOfTasks ==
    /\ \A t \in Tasks : KindOf(t) \in Kinds
    /\ \A t \in Tasks : KindOf(t) = "scheduled" <=> t \in {"tick", "run"}
    /\ KindOf("restore") = "pre-restore"
BY DEF KindOf, Tasks, Kinds

\* EndDump: only a restore has checks to make.
LEMMA AfterDumpGoesOn ==
    ASSUME NEW t \in Tasks
    PROVE  /\ AfterDump(t) \in {"check", "copy", "trim", "done"}
           /\ AfterDump(t) = "check" <=> t = "restore"
<1>1. CASE t = "restore"
  BY <1>1, KindsOfTasks DEF AfterDump, Tasks
<1>2. CASE t \notin {"restore", "manual"} /\ trim.storing
  BY <1>2 DEF AfterDump
<1>3. CASE t # "restore" /\ ~(t # "manual" /\ trim.storing)
  BY <1>3, KindsOfTasks DEF AfterDump
<1> QED
  BY <1>1, <1>2, <1>3

\* The rows are rows, the one that is none as well.
LEMMA RowsAreRows == NoRow \in Rows /\ (storing \in BOOLEAN /\ retain \in 1..2 => Row \in Rows)
<1>1. 1 \in 1..2
  OBVIOUS
<1> QED
  BY <1>1 DEF NoRow, Row, Rows

\* There is a day, and none has the number of no day.
LEMMA DaysThereAre ==
    ASSUME Setting
    PROVE  1 \in 1..MaxDays /\ 0 \in 0..MaxDays /\ 1..MaxDays \subseteq 0..MaxDays
BY DEF Setting

\* Leave: what is forgotten, and what the row says.
LEMMA LeaveTimes ==
    ASSUME NEW t \in Tasks, NEW how \in {"success", "failed"}, Leave(t, how), Setting, Timed,
           UNCHANGED <<clock, booted>>
    PROVE  Timed'
<1>1. 0 \in 0..MaxDays
  BY DEF Setting
<1>2. seen' \in 0..MaxDays /\ status' \in {"", "running", "success", "failed"} /\ mode' \in {"full", "tables"}
  BY <1>1 DEF Leave, Timed
<1> QED
  BY <1>2 DEF Leave, Timed, clock

\* The same of the rows.
LEMMA LeaveSets ==
    ASSUME NEW t \in Tasks, NEW how, Leave(t, how), Set
    PROVE  Set'
<1>1. was' \in Rows /\ trim' \in Rows
  BY RowsAreRows DEF Leave, Set
<1> QED
  BY <1>1 DEF Leave, Set

\* The lock belongs to the task at work.
LEMMA ExclusiveStays ==
    ASSUME Setting, Exclusive, [Next]_vars
    PROVE  Exclusive'
<1> USE DEF Setting, Exclusive, Working, Steps, Tasks
<1>1. CASE TimeComes
  BY <1>1 DEF TimeComes, task, row, backups, base
<1>2. CASE NextDay
  BY <1>2 DEF NextDay, task, row, backups, base
<1>3. CASE Write
  BY <1>3 DEF Write, clock, task, row, backups
<1>4. CASE SaveSchedule
  BY <1>4 DEF SaveSchedule, task, backups, base
<1>5. CASE Boot
  BY <1>5 DEF Boot, clock, task, ResetRunning, backups, base
<1>6. CASE Tick
  BY <1>6 DEF Tick, clock, row, backups, base
<1>7. CASE TickLocked
  BY <1>7 DEF TickLocked, clock, backups, base, StillDue, SetRunning
<1>8. CASE Restart
  BY <1>8 DEF Restart, clock, row, backups, base, Trouble
<1>9. ASSUME NEW t \in Requests, Request(t) PROVE Exclusive'
  BY <1>9 DEF Request, clock, row, backups, base
<1>10. ASSUME NEW t \in Requests, RequestLocked(t) PROVE Exclusive'
  BY <1>10 DEF RequestLocked, clock, backups, base, SetRunning
<1>11. ASSUME NEW t \in Tasks, BeginDump(t) PROVE Exclusive'
  BY <1>11 DEF BeginDump, clock, row, base
<1>12. ASSUME NEW t \in Tasks, EndDump(t) PROVE Exclusive'
  BY <1>12, AfterDumpGoesOn DEF EndDump, clock, base, held, row, spent, Leave
<1>13. ASSUME NEW t \in Tasks, DumpFails(t) PROVE Exclusive'
  BY <1>13 DEF DumpFails, clock, base, Trouble, Leave
<1>14. ASSUME NEW t \in Tasks, Copy(t) PROVE Exclusive'
  BY <1>14 DEF Copy, clock, base, Trouble, Leave, held, row
<1>15. ASSUME NEW t \in Tasks, Rename(t) PROVE Exclusive'
  BY <1>15 DEF Rename, clock, base, Leave, held, row, PartAfter, spent
<1>16. ASSUME NEW t \in Tasks, Trim(t) PROVE Exclusive'
  BY <1>16 DEF Trim, clock, base, Leave, held, row, Beyond
<1>17. ASSUME NEW t \in Tasks, TrimCopies(t) PROVE Exclusive'
  BY <1>17 DEF TrimCopies, clock, base, Leave, Beyond
<1>18. CASE Check
  BY <1>18 DEF Check, clock, base, backups, Leave, held, row
<1>19. CASE Truncate
  BY <1>19 DEF Truncate, clock, row, backups
<1>20. CASE Load
  BY <1>20 DEF Load, clock, backups, Leave, held, row, Trouble
<1>21. CASE Undo
  BY <1>21 DEF Undo, clock, backups, Leave, Trouble
<1>22. CASE UNCHANGED vars
  BY <1>22 DEF vars, clock, row, backups, base, task, spent
<1> QED
  BY <1>1, <1>2, <1>3, <1>4, <1>5, <1>6, <1>7, <1>8, <1>9, <1>10, <1>11, <1>12, <1>13,
     <1>14, <1>15, <1>16, <1>17, <1>18, <1>19, <1>20, <1>21, <1>22 DEF Next, Quiet

\* Days come one after the other.
LEMMA TimedStays ==
    ASSUME Setting, Timed, [Next]_vars
    PROVE  Timed'
<1>1. CASE TimeComes
  BY <1>1 DEF TimeComes, task, row, backups, base, Timed
<1>2. CASE NextDay
  <2>1. day \in 1..MaxDays /\ day < MaxDays /\ day' = day + 1 /\ MaxDays \in Nat
    BY <1>2 DEF NextDay, Setting, Timed
  <2>2. day' \in 1..MaxDays
    BY <2>1
  <2> QED
    BY <1>2, <2>2 DEF NextDay, Timed, row, task
<1>3. CASE Write
  BY <1>3 DEF Write, clock, task, row, backups, Timed
<1>4. CASE SaveSchedule
  BY <1>4 DEF SaveSchedule, task, backups, base, Timed
<1>5. CASE Boot
  <2>1. lastRun' \in 0..MaxDays
    BY <1>5, DaysThereAre DEF Boot, Timed, clock, SetRunning, ResetRunning, Trouble
  <2> QED
    BY <1>5, <2>1 DEF Boot, clock, task, ResetRunning, backups, base, Timed
<1>6. CASE Tick
  <2>1. seen' \in 0..MaxDays
    BY <1>6, DaysThereAre DEF Tick, Timed, clock, SetRunning, ResetRunning, Trouble
  <2> QED
    BY <1>6, <2>1 DEF Tick, clock, row, backups, base, Timed
<1>7. CASE TickLocked
  <2>1. seen' \in 0..MaxDays /\ lastRun' \in 0..MaxDays
    BY <1>7, DaysThereAre DEF TickLocked, Timed, clock, SetRunning, ResetRunning, Trouble
  <2> QED
    BY <1>7, <2>1 DEF TickLocked, clock, backups, base, StillDue, SetRunning, Timed
<1>8. CASE Restart
  <2>1. seen' \in 0..MaxDays
    BY <1>8, DaysThereAre DEF Restart, Timed, clock, SetRunning, ResetRunning, Trouble
  <2> QED
    BY <1>8, <2>1 DEF Restart, clock, row, backups, base, Trouble, Timed
<1>9. ASSUME NEW t \in Requests, Request(t) PROVE Timed'
  BY <1>9 DEF Request, clock, row, backups, base, Timed
<1>10. ASSUME NEW t \in Requests, RequestLocked(t) PROVE Timed'
  <2>1. lastRun' \in 0..MaxDays
    BY <1>10, DaysThereAre DEF RequestLocked, Timed, clock, SetRunning, ResetRunning, Trouble
  <2> QED
    BY <1>10, <2>1 DEF RequestLocked, clock, backups, base, SetRunning, Timed
<1>11. ASSUME NEW t \in Tasks, BeginDump(t) PROVE Timed'
  BY <1>11 DEF BeginDump, clock, row, base, Timed
<1>12. ASSUME NEW t \in Tasks, EndDump(t) PROVE Timed'
  <2>1. CASE \E how \in {"success", "failed"} : Leave(t, how)
    BY <1>12, <2>1, LeaveTimes DEF EndDump, Tasks, clock
  <2>2. CASE ~\E how \in {"success", "failed"} : Leave(t, how)
    <3>1. UNCHANGED held /\ (UNCHANGED copied \/ copied' = TRUE) /\ UNCHANGED <<clock, booted>>
      BY <1>12, <2>2 DEF EndDump, clock
    <3> QED
      BY <3>1 DEF held, row, clock, Timed
  <2> QED
    BY <2>1, <2>2
<1>13. ASSUME NEW t \in Tasks, DumpFails(t) PROVE Timed'
  <2>1. PICK how \in {"success", "failed"} : Leave(t, how)
    BY <1>13 DEF DumpFails
  <2> QED
    BY <1>13, <2>1, LeaveTimes DEF DumpFails, Tasks, clock
<1>14. ASSUME NEW t \in Tasks, Copy(t) PROVE Timed'
  <2>1. CASE \E how \in {"success", "failed"} : Leave(t, how)
    BY <1>14, <2>1, LeaveTimes DEF Copy, Tasks, clock
  <2>2. CASE ~\E how \in {"success", "failed"} : Leave(t, how)
    <3>1. UNCHANGED held /\ (UNCHANGED copied \/ copied' = TRUE) /\ UNCHANGED <<clock, booted>>
      BY <1>14, <2>2 DEF Copy, clock
    <3> QED
      BY <3>1 DEF held, row, clock, Timed
  <2> QED
    BY <2>1, <2>2
<1>15. ASSUME NEW t \in Tasks, Rename(t) PROVE Timed'
  <2>1. CASE \E how \in {"success", "failed"} : Leave(t, how)
    BY <1>15, <2>1, LeaveTimes DEF Rename, Tasks, clock
  <2>2. CASE ~\E how \in {"success", "failed"} : Leave(t, how)
    <3>1. UNCHANGED held /\ (UNCHANGED copied \/ copied' = TRUE) /\ UNCHANGED <<clock, booted>>
      BY <1>15, <2>2 DEF Rename, clock
    <3> QED
      BY <3>1 DEF held, row, clock, Timed
  <2> QED
    BY <2>1, <2>2
<1>16. ASSUME NEW t \in Tasks, Trim(t) PROVE Timed'
  <2>1. CASE \E how \in {"success", "failed"} : Leave(t, how)
    BY <1>16, <2>1, LeaveTimes DEF Trim, Tasks, clock
  <2>2. CASE ~\E how \in {"success", "failed"} : Leave(t, how)
    <3>1. UNCHANGED held /\ (UNCHANGED copied \/ copied' = TRUE) /\ UNCHANGED <<clock, booted>>
      BY <1>16, <2>2 DEF Trim, clock
    <3> QED
      BY <3>1 DEF held, row, clock, Timed
  <2> QED
    BY <2>1, <2>2
<1>17. ASSUME NEW t \in Tasks, TrimCopies(t) PROVE Timed'
  <2>1. PICK how \in {"success", "failed"} : Leave(t, how)
    BY <1>17 DEF TrimCopies
  <2> QED
    BY <1>17, <2>1, LeaveTimes DEF TrimCopies, Tasks, clock
<1>18. CASE Check
  <2>1. CASE \E how \in {"success", "failed"} : Leave("restore", how)
    BY <1>18, <2>1, LeaveTimes DEF Check, Tasks, clock
  <2>2. CASE ~\E how \in {"success", "failed"} : Leave("restore", how)
    <3>1. UNCHANGED held /\ (UNCHANGED copied \/ copied' = TRUE) /\ UNCHANGED <<clock, booted>>
      BY <1>18, <2>2 DEF Check, clock
    <3> QED
      BY <3>1 DEF held, row, clock, Timed
  <2> QED
    BY <2>1, <2>2
<1>19. CASE Truncate
  BY <1>19 DEF Truncate, clock, row, backups, Timed
<1>20. CASE Load
  <2>1. CASE \E how \in {"success", "failed"} : Leave("restore", how)
    BY <1>20, <2>1, LeaveTimes DEF Load, Tasks, clock
  <2>2. CASE ~\E how \in {"success", "failed"} : Leave("restore", how)
    <3>1. UNCHANGED held /\ (UNCHANGED copied \/ copied' = TRUE) /\ UNCHANGED <<clock, booted>>
      BY <1>20, <2>2 DEF Load, clock
    <3> QED
      BY <3>1 DEF held, row, clock, Timed
  <2> QED
    BY <2>1, <2>2
<1>21. CASE Undo
  <2>1. PICK how \in {"success", "failed"} : Leave("restore", how)
    BY <1>21 DEF Undo
  <2> QED
    BY <1>21, <2>1, LeaveTimes DEF Undo, Tasks, clock
<1>22. CASE UNCHANGED vars
  BY <1>22 DEF vars, clock, row, task, Timed
<1> QED
  BY <1>1, <1>2, <1>3, <1>4, <1>5, <1>6, <1>7, <1>8, <1>9, <1>10, <1>11, <1>12, <1>13,
     <1>14, <1>15, <1>16, <1>17, <1>18, <1>19, <1>20, <1>21, <1>22 DEF Next, Quiet

\* The handlers check the form before they store it.
LEMMA SetStays ==
    ASSUME Set, [Next]_vars
    PROVE  Set'
<1>1. CASE TimeComes
  BY <1>1, RowsAreRows DEF TimeComes, task, row, backups, base, Set
<1>2. CASE NextDay
  BY <1>2, RowsAreRows DEF NextDay, task, row, backups, base, Set
<1>3. CASE Write
  BY <1>3, RowsAreRows DEF Write, clock, task, row, backups, Set
<1>4. CASE SaveSchedule
  BY <1>4, RowsAreRows DEF SaveSchedule, task, backups, base, Set
<1>5. CASE Boot
  BY <1>5, RowsAreRows DEF Boot, clock, task, ResetRunning, backups, base, Set
<1>6. CASE Tick
  BY <1>6, RowsAreRows DEF Tick, clock, row, backups, base, Set
<1>7. CASE TickLocked
  BY <1>7, RowsAreRows DEF TickLocked, clock, backups, base, StillDue, SetRunning, Set
<1>8. CASE Restart
  BY <1>8, RowsAreRows DEF Restart, clock, row, backups, base, Trouble, Set
<1>9. ASSUME NEW t \in Requests, Request(t) PROVE Set'
  BY <1>9, RowsAreRows DEF Request, clock, row, backups, base, Set
<1>10. ASSUME NEW t \in Requests, RequestLocked(t) PROVE Set'
  BY <1>10, RowsAreRows DEF RequestLocked, clock, backups, base, SetRunning, Set
<1>11. ASSUME NEW t \in Tasks, BeginDump(t) PROVE Set'
  BY <1>11, RowsAreRows DEF BeginDump, clock, row, base, Set
<1>12. ASSUME NEW t \in Tasks, EndDump(t) PROVE Set'
  <2>1. CASE \E how \in {"success", "failed"} : Leave(t, how)
    BY <1>12, <2>1, LeaveSets DEF EndDump, Tasks, clock
  <2>2. CASE ~\E how \in {"success", "failed"} : Leave(t, how)
    <3>1. UNCHANGED held /\ (UNCHANGED copied \/ copied' = TRUE) /\ UNCHANGED <<clock, booted>>
      BY <1>12, <2>2 DEF EndDump, clock
    <3> QED
      BY <3>1 DEF held, row, clock, Set
  <2> QED
    BY <2>1, <2>2
<1>13. ASSUME NEW t \in Tasks, DumpFails(t) PROVE Set'
  <2>1. PICK how \in {"success", "failed"} : Leave(t, how)
    BY <1>13 DEF DumpFails
  <2> QED
    BY <1>13, <2>1, LeaveSets DEF DumpFails, Tasks, clock
<1>14. ASSUME NEW t \in Tasks, Copy(t) PROVE Set'
  <2>1. CASE \E how \in {"success", "failed"} : Leave(t, how)
    BY <1>14, <2>1, LeaveSets DEF Copy, Tasks, clock
  <2>2. CASE ~\E how \in {"success", "failed"} : Leave(t, how)
    <3>1. UNCHANGED held /\ (UNCHANGED copied \/ copied' = TRUE) /\ UNCHANGED <<clock, booted>>
      BY <1>14, <2>2 DEF Copy, clock
    <3> QED
      BY <3>1 DEF held, row, clock, Set
  <2> QED
    BY <2>1, <2>2
<1>15. ASSUME NEW t \in Tasks, Rename(t) PROVE Set'
  <2>1. CASE \E how \in {"success", "failed"} : Leave(t, how)
    BY <1>15, <2>1, LeaveSets DEF Rename, Tasks, clock
  <2>2. CASE ~\E how \in {"success", "failed"} : Leave(t, how)
    <3>1. UNCHANGED held /\ (UNCHANGED copied \/ copied' = TRUE) /\ UNCHANGED <<clock, booted>>
      BY <1>15, <2>2 DEF Rename, clock
    <3> QED
      BY <3>1 DEF held, row, clock, Set
  <2> QED
    BY <2>1, <2>2
<1>16. ASSUME NEW t \in Tasks, Trim(t) PROVE Set'
  <2>1. CASE \E how \in {"success", "failed"} : Leave(t, how)
    BY <1>16, <2>1, LeaveSets DEF Trim, Tasks, clock
  <2>2. CASE ~\E how \in {"success", "failed"} : Leave(t, how)
    <3>1. UNCHANGED held /\ (UNCHANGED copied \/ copied' = TRUE) /\ UNCHANGED <<clock, booted>>
      BY <1>16, <2>2 DEF Trim, clock
    <3> QED
      BY <3>1 DEF held, row, clock, Set
  <2> QED
    BY <2>1, <2>2
<1>17. ASSUME NEW t \in Tasks, TrimCopies(t) PROVE Set'
  <2>1. PICK how \in {"success", "failed"} : Leave(t, how)
    BY <1>17 DEF TrimCopies
  <2> QED
    BY <1>17, <2>1, LeaveSets DEF TrimCopies, Tasks, clock
<1>18. CASE Check
  <2>1. CASE \E how \in {"success", "failed"} : Leave("restore", how)
    BY <1>18, <2>1, LeaveSets DEF Check, Tasks, clock
  <2>2. CASE ~\E how \in {"success", "failed"} : Leave("restore", how)
    <3>1. UNCHANGED held /\ (UNCHANGED copied \/ copied' = TRUE) /\ UNCHANGED <<clock, booted>>
      BY <1>18, <2>2 DEF Check, clock
    <3> QED
      BY <3>1 DEF held, row, clock, Set
  <2> QED
    BY <2>1, <2>2
<1>19. CASE Truncate
  BY <1>19, RowsAreRows DEF Truncate, clock, row, backups, Set
<1>20. CASE Load
  <2>1. CASE \E how \in {"success", "failed"} : Leave("restore", how)
    BY <1>20, <2>1, LeaveSets DEF Load, Tasks, clock
  <2>2. CASE ~\E how \in {"success", "failed"} : Leave("restore", how)
    <3>1. UNCHANGED held /\ (UNCHANGED copied \/ copied' = TRUE) /\ UNCHANGED <<clock, booted>>
      BY <1>20, <2>2 DEF Load, clock
    <3> QED
      BY <3>1 DEF held, row, clock, Set
  <2> QED
    BY <2>1, <2>2
<1>21. CASE Undo
  <2>1. PICK how \in {"success", "failed"} : Leave("restore", how)
    BY <1>21 DEF Undo
  <2> QED
    BY <1>21, <2>1, LeaveSets DEF Undo, Tasks, clock
<1>22. CASE UNCHANGED vars
  BY <1>22 DEF vars, row, task, Set
<1> QED
  BY <1>1, <1>2, <1>3, <1>4, <1>5, <1>6, <1>7, <1>8, <1>9, <1>10, <1>11, <1>12, <1>13,
     <1>14, <1>15, <1>16, <1>17, <1>18, <1>19, <1>20, <1>21, <1>22 DEF Next, Quiet

\* Only backups that were begun have directories.
LEMMA StoredStays ==
    ASSUME Setting, Exclusive, Stored, Written, [Next]_vars
    PROVE  Stored'
<1> USE DEF Setting, Stored, Exclusive, Working, Tasks
<1>1. CASE TimeComes
  BY <1>1 DEF TimeComes, task, row, backups, base
<1>2. CASE NextDay
  BY <1>2 DEF NextDay, task, row, backups, base
<1>3. CASE Write
  BY <1>3 DEF Write, clock, task, row, backups
<1>4. CASE SaveSchedule
  BY <1>4 DEF SaveSchedule, task, backups, base
<1>5. CASE Boot
  BY <1>5 DEF Boot, clock, task, ResetRunning, backups, base
<1>6. CASE Tick
  BY <1>6 DEF Tick, clock, row, backups, base
<1>7. CASE TickLocked
  BY <1>7 DEF TickLocked, clock, backups, base, StillDue, SetRunning
<1>8. CASE Restart
  BY <1>8 DEF Restart, clock, row, backups, base, Trouble
<1>9. ASSUME NEW t \in Requests, Request(t) PROVE Stored'
  BY <1>9 DEF Request, clock, row, backups, base
<1>10. ASSUME NEW t \in Requests, RequestLocked(t) PROVE Stored'
  BY <1>10 DEF RequestLocked, clock, backups, base, SetRunning
<1>11. ASSUME NEW t \in Tasks, BeginDump(t) PROVE Stored'
  <2>1. PICK i \in Ids : /\ kind[i] = None /\ kind' = [kind EXCEPT ![i] = KindOf(t)]
                         /\ data' = [data EXCEPT ![i] = content]
                         /\ dirs' = dirs \cup {i} /\ id' = i
    BY <1>11 DEF BeginDump
  <2>2. KindOf(t) \in Kinds /\ KindOf(t) # None /\ content \in Nat /\ UNCHANGED <<whole, mirror, part>>
    BY <1>11, KindsOfTasks DEF BeginDump, Setting, Written
  <2>3. kind' \in [Ids -> Kinds \cup {None}] /\ data' \in [Ids -> Nat] /\ id' \in Ids \cup {None}
    BY <2>1, <2>2 DEF Stored
  <2>4. whole' \subseteq dirs' /\ dirs' \subseteq {j \in Ids : kind'[j] # None} /\ i \notin whole
    BY <2>1, <2>2 DEF Stored
  <2>5. \A u \in Tasks : pc'[u] \in Working \ {"begin"} => u = t
    BY <1>11 DEF BeginDump, Exclusive, Working
  <2>6. pc'[t] = "dump"
    BY <1>11 DEF BeginDump, Exclusive, Working
  <2> QED
    BY <2>1, <2>2, <2>3, <2>4, <2>5, <2>6 DEF Stored
<1>12. ASSUME NEW t \in Tasks, EndDump(t) PROVE Stored'
  BY <1>12, AfterDumpGoesOn DEF EndDump, clock, base, held, row, spent, Leave
<1>13. ASSUME NEW t \in Tasks, DumpFails(t) PROVE Stored'
  BY <1>13 DEF DumpFails, clock, base, Trouble, Leave
<1>14. ASSUME NEW t \in Tasks, Copy(t) PROVE Stored'
  BY <1>14 DEF Copy, clock, base, Trouble, Leave, held, row
<1>15. ASSUME NEW t \in Tasks, Rename(t) PROVE Stored'
  BY <1>15 DEF Rename, clock, base, Leave, held, row, PartAfter, spent
<1>16. ASSUME NEW t \in Tasks, Trim(t) PROVE Stored'
  <2>1. \E old \in SUBSET Ids : whole' = whole \ old /\ dirs' = dirs \ old
    BY <1>16 DEF Trim, Beyond, Stored
  <2> QED
    BY <1>16, <2>1 DEF Trim, Leave, held
<1>17. ASSUME NEW t \in Tasks, TrimCopies(t) PROVE Stored'
  <2>1. mirror' \subseteq mirror
    BY <1>17 DEF TrimCopies
  <2> QED
    BY <1>17, <2>1 DEF TrimCopies, Leave
<1>18. CASE Check
  BY <1>18 DEF Check, clock, base, backups, Leave, held, row
<1>19. CASE Truncate
  BY <1>19 DEF Truncate, clock, row, backups
<1>20. CASE Load
  BY <1>20 DEF Load, clock, backups, Leave, held, row, Trouble
<1>21. CASE Undo
  BY <1>21 DEF Undo, clock, backups, Leave, Trouble
<1>22. CASE UNCHANGED vars
  BY <1>22 DEF vars, clock, row, backups, base, task, spent
<1> QED
  BY <1>1, <1>2, <1>3, <1>4, <1>5, <1>6, <1>7, <1>8, <1>9, <1>10, <1>11, <1>12, <1>13,
     <1>14, <1>15, <1>16, <1>17, <1>18, <1>19, <1>20, <1>21, <1>22 DEF Next, Quiet

\* Writes are numbered in their order, and a backup has one that was.
LEMMA WrittenStays ==
    ASSUME Setting, Exclusive, Stored, Written, [Next]_vars
    PROVE  Written'
<1> USE DEF Setting, Stored, Written, Exclusive, Working, Tasks
<1>1. CASE TimeComes
  BY <1>1 DEF TimeComes, task, row, backups, base
<1>2. CASE NextDay
  BY <1>2 DEF NextDay, task, row, backups, base
<1>3. CASE Write
  BY <1>3 DEF Write, clock, task, row, backups
<1>4. CASE SaveSchedule
  BY <1>4 DEF SaveSchedule, task, backups, base
<1>5. CASE Boot
  BY <1>5 DEF Boot, clock, task, ResetRunning, backups, base
<1>6. CASE Tick
  BY <1>6 DEF Tick, clock, row, backups, base
<1>7. CASE TickLocked
  BY <1>7 DEF TickLocked, clock, backups, base, StillDue, SetRunning
<1>8. CASE Restart
  BY <1>8 DEF Restart, clock, row, backups, base, Trouble
<1>9. ASSUME NEW t \in Requests, Request(t) PROVE Written'
  BY <1>9 DEF Request, clock, row, backups, base
<1>10. ASSUME NEW t \in Requests, RequestLocked(t) PROVE Written'
  BY <1>10 DEF RequestLocked, clock, backups, base, SetRunning
<1>11. ASSUME NEW t \in Tasks, BeginDump(t) PROVE Written'
  BY <1>11 DEF BeginDump, clock, row, base
<1>12. ASSUME NEW t \in Tasks, EndDump(t) PROVE Written'
  BY <1>12, AfterDumpGoesOn DEF EndDump, clock, base, held, row, spent, Leave
<1>13. ASSUME NEW t \in Tasks, DumpFails(t) PROVE Written'
  BY <1>13 DEF DumpFails, clock, base, Trouble, Leave
<1>14. ASSUME NEW t \in Tasks, Copy(t) PROVE Written'
  BY <1>14 DEF Copy, clock, base, Trouble, Leave, held, row
<1>15. ASSUME NEW t \in Tasks, Rename(t) PROVE Written'
  BY <1>15 DEF Rename, clock, base, Leave, held, row, PartAfter, spent
<1>16. ASSUME NEW t \in Tasks, Trim(t) PROVE Written'
  BY <1>16 DEF Trim, clock, base, Leave, held, row, Beyond
<1>17. ASSUME NEW t \in Tasks, TrimCopies(t) PROVE Written'
  BY <1>17 DEF TrimCopies, clock, base, Leave, Beyond
<1>18. CASE Check
  BY <1>18 DEF Check, clock, base, backups, Leave, held, row
<1>19. CASE Truncate
  BY <1>19 DEF Truncate, clock, row, backups
<1>20. CASE Load
  BY <1>20 DEF Load, clock, backups, Leave, held, row, Trouble
<1>21. CASE Undo
  BY <1>21 DEF Undo, clock, backups, Leave, Trouble
<1>22. CASE UNCHANGED vars
  BY <1>22 DEF vars, clock, row, backups, base, task, spent
<1> QED
  BY <1>1, <1>2, <1>3, <1>4, <1>5, <1>6, <1>7, <1>8, <1>9, <1>10, <1>11, <1>12, <1>13,
     <1>14, <1>15, <1>16, <1>17, <1>18, <1>19, <1>20, <1>21, <1>22 DEF Next, Quiet

\* Nothing removes the safety backup of a restore at work.
LEMMA SafeStays ==
    ASSUME Setting, Exclusive, Stored, Written, Safe, [Next]_vars
    PROVE  Safe'
<1> USE DEF Setting, Stored, Written, Safe, Exclusive, Working, Tasks
<1>1. CASE TimeComes
  BY <1>1, KindsOfTasks DEF TimeComes, task, row, backups, base
<1>2. CASE NextDay
  BY <1>2, KindsOfTasks DEF NextDay, task, row, backups, base
<1>3. CASE Write
  BY <1>3, KindsOfTasks DEF Write, clock, task, row, backups
<1>4. CASE SaveSchedule
  BY <1>4, KindsOfTasks DEF SaveSchedule, task, backups, base
<1>5. CASE Boot
  BY <1>5, KindsOfTasks DEF Boot, clock, task, ResetRunning, backups, base
<1>6. CASE Tick
  BY <1>6, KindsOfTasks DEF Tick, clock, row, backups, base
<1>7. CASE TickLocked
  BY <1>7, KindsOfTasks DEF TickLocked, clock, backups, base, StillDue, SetRunning
<1>8. CASE Restart
  BY <1>8, KindsOfTasks DEF Restart, clock, row, backups, base, Trouble
<1>9. ASSUME NEW t \in Requests, Request(t) PROVE Safe'
  BY <1>9, KindsOfTasks DEF Request, clock, row, backups, base
<1>10. ASSUME NEW t \in Requests, RequestLocked(t) PROVE Safe'
  BY <1>10, KindsOfTasks DEF RequestLocked, clock, backups, base, SetRunning
<1>11. ASSUME NEW t \in Tasks, BeginDump(t) PROVE Safe'
  BY <1>11, KindsOfTasks DEF BeginDump, clock, row, base
<1>12. ASSUME NEW t \in Tasks, EndDump(t) PROVE Safe'
  BY <1>12, KindsOfTasks, AfterDumpGoesOn DEF EndDump, clock, base, held, row, spent, Leave
<1>13. ASSUME NEW t \in Tasks, DumpFails(t) PROVE Safe'
  BY <1>13, KindsOfTasks DEF DumpFails, clock, base, Trouble, Leave
<1>14. ASSUME NEW t \in Tasks, Copy(t) PROVE Safe'
  BY <1>14, KindsOfTasks DEF Copy, clock, base, Trouble, Leave, held, row
<1>15. ASSUME NEW t \in Tasks, Rename(t) PROVE Safe'
  BY <1>15, KindsOfTasks DEF Rename, clock, base, Leave, held, row, PartAfter, spent
<1>16. ASSUME NEW t \in Tasks, Trim(t) PROVE Safe'
  BY <1>16, KindsOfTasks DEF Trim, clock, base, Leave, held, row, Beyond
<1>17. ASSUME NEW t \in Tasks, TrimCopies(t) PROVE Safe'
  BY <1>17, KindsOfTasks DEF TrimCopies, clock, base, Leave, Beyond
<1>18. CASE Check
  BY <1>18, KindsOfTasks DEF Check, clock, base, backups, Leave, held, row
<1>19. CASE Truncate
  BY <1>19, KindsOfTasks DEF Truncate, clock, row, backups
<1>20. CASE Load
  BY <1>20, KindsOfTasks DEF Load, clock, backups, Leave, held, row, Trouble
<1>21. CASE Undo
  BY <1>21, KindsOfTasks DEF Undo, clock, backups, Leave, Trouble
<1>22. CASE UNCHANGED vars
  BY <1>22, KindsOfTasks DEF vars, clock, row, backups, base, task, spent
<1> QED
  BY <1>1, <1>2, <1>3, <1>4, <1>5, <1>6, <1>7, <1>8, <1>9, <1>10, <1>11, <1>12, <1>13,
     <1>14, <1>15, <1>16, <1>17, <1>18, <1>19, <1>20, <1>21, <1>22 DEF Next, Quiet

\* The directory that a copy stages is renamed or stays with its task.
LEMMA OnePartStays ==
    ASSUME Setting, ~CrashInCopy, Exclusive, OnePart, [Next]_vars
    PROVE  OnePart'
<1> USE DEF Setting, OnePart, Exclusive, Working, Tasks
<1>1. CASE TimeComes
  BY <1>1 DEF TimeComes, task, row, backups, base, spent
<1>2. CASE NextDay
  BY <1>2 DEF NextDay, task, row, backups, base, spent
<1>3. CASE Write
  BY <1>3 DEF Write, clock, task, row, backups, spent
<1>4. CASE SaveSchedule
  BY <1>4 DEF SaveSchedule, task, backups, base
<1>5. CASE Boot
  BY <1>5 DEF Boot, clock, task, ResetRunning, backups, base, spent
<1>6. CASE Tick
  BY <1>6 DEF Tick, clock, row, backups, base, spent
<1>7. CASE TickLocked
  BY <1>7 DEF TickLocked, clock, backups, base, StillDue, SetRunning, spent
<1>8. CASE Restart
  BY <1>8 DEF Restart, clock, row, backups, base, Trouble
<1>9. ASSUME NEW t \in Requests, Request(t) PROVE OnePart'
  BY <1>9 DEF Request, clock, row, backups, base, spent
<1>10. ASSUME NEW t \in Requests, RequestLocked(t) PROVE OnePart'
  BY <1>10 DEF RequestLocked, clock, backups, base, SetRunning, spent
<1>11. ASSUME NEW t \in Tasks, BeginDump(t) PROVE OnePart'
  BY <1>11 DEF BeginDump, clock, row, base, spent
<1>12. ASSUME NEW t \in Tasks, EndDump(t) PROVE OnePart'
  BY <1>12, AfterDumpGoesOn DEF EndDump, clock, base, held, row, spent, Leave
<1>13. ASSUME NEW t \in Tasks, DumpFails(t) PROVE OnePart'
  BY <1>13 DEF DumpFails, clock, base, Trouble, Leave
<1>14. ASSUME NEW t \in Tasks, Copy(t) PROVE OnePart'
  BY <1>14 DEF Copy, clock, base, Trouble, Leave, held, row, spent
<1>15. ASSUME NEW t \in Tasks, Rename(t) PROVE OnePart'
  BY <1>15 DEF Rename, clock, base, Leave, held, row, PartAfter, spent
<1>16. ASSUME NEW t \in Tasks, Trim(t) PROVE OnePart'
  BY <1>16 DEF Trim, clock, base, Leave, held, row, Beyond, spent
<1>17. ASSUME NEW t \in Tasks, TrimCopies(t) PROVE OnePart'
  BY <1>17 DEF TrimCopies, clock, base, Leave, Beyond, spent
<1>18. CASE Check
  BY <1>18 DEF Check, clock, base, backups, Leave, held, row, spent
<1>19. CASE Truncate
  BY <1>19 DEF Truncate, clock, row, backups, spent
<1>20. CASE Load
  BY <1>20 DEF Load, clock, backups, Leave, held, row, Trouble, spent
<1>21. CASE Undo
  BY <1>21 DEF Undo, clock, backups, Leave, Trouble, spent
<1>22. CASE UNCHANGED vars
  BY <1>22 DEF vars, clock, row, backups, base, task, spent
<1> QED
  BY <1>1, <1>2, <1>3, <1>4, <1>5, <1>6, <1>7, <1>8, <1>9, <1>10, <1>11, <1>12, <1>13,
     <1>14, <1>15, <1>16, <1>17, <1>18, <1>19, <1>20, <1>21, <1>22 DEF Next, Quiet

\* "running" is written under the lock, and taken back before it is released.
LEMMA RunningStays ==
    ASSUME Setting, Exclusive, RunningIsReal, [Next]_vars
    PROVE  RunningIsReal'
<1> USE DEF Setting, RunningIsReal, Exclusive, Working, Tasks
<1>1. CASE TimeComes
  BY <1>1, KindsOfTasks DEF TimeComes, task, row, backups, base
<1>2. CASE NextDay
  BY <1>2, KindsOfTasks DEF NextDay, task, row, backups, base
<1>3. CASE Write
  BY <1>3, KindsOfTasks DEF Write, clock, task, row, backups
<1>4. CASE SaveSchedule
  BY <1>4, KindsOfTasks DEF SaveSchedule, task, backups, base
<1>5. CASE Boot
  BY <1>5, KindsOfTasks DEF Boot, clock, task, ResetRunning, backups, base
<1>6. CASE Tick
  BY <1>6, KindsOfTasks DEF Tick, clock, row, backups, base
<1>7. CASE TickLocked
  BY <1>7, KindsOfTasks DEF TickLocked, clock, backups, base, StillDue, SetRunning
<1>8. CASE Restart
  BY <1>8, KindsOfTasks DEF Restart, clock, row, backups, base, Trouble
<1>9. ASSUME NEW t \in Requests, Request(t) PROVE RunningIsReal'
  BY <1>9, KindsOfTasks DEF Request, clock, row, backups, base
<1>10. ASSUME NEW t \in Requests, RequestLocked(t) PROVE RunningIsReal'
  BY <1>10, KindsOfTasks DEF RequestLocked, clock, backups, base, SetRunning
<1>11. ASSUME NEW t \in Tasks, BeginDump(t) PROVE RunningIsReal'
  BY <1>11, KindsOfTasks DEF BeginDump, clock, row, base
<1>12. ASSUME NEW t \in Tasks, EndDump(t) PROVE RunningIsReal'
  BY <1>12, KindsOfTasks, AfterDumpGoesOn DEF EndDump, clock, base, held, row, spent, Leave
<1>13. ASSUME NEW t \in Tasks, DumpFails(t) PROVE RunningIsReal'
  BY <1>13, KindsOfTasks DEF DumpFails, clock, base, Trouble, Leave
<1>14. ASSUME NEW t \in Tasks, Copy(t) PROVE RunningIsReal'
  BY <1>14, KindsOfTasks DEF Copy, clock, base, Trouble, Leave, held, row
<1>15. ASSUME NEW t \in Tasks, Rename(t) PROVE RunningIsReal'
  BY <1>15, KindsOfTasks DEF Rename, clock, base, Leave, held, row, PartAfter, spent
<1>16. ASSUME NEW t \in Tasks, Trim(t) PROVE RunningIsReal'
  BY <1>16, KindsOfTasks DEF Trim, clock, base, Leave, held, row, Beyond
<1>17. ASSUME NEW t \in Tasks, TrimCopies(t) PROVE RunningIsReal'
  BY <1>17, KindsOfTasks DEF TrimCopies, clock, base, Leave, Beyond
<1>18. CASE Check
  BY <1>18, KindsOfTasks DEF Check, clock, base, backups, Leave, held, row
<1>19. CASE Truncate
  BY <1>19, KindsOfTasks DEF Truncate, clock, row, backups
<1>20. CASE Load
  BY <1>20, KindsOfTasks DEF Load, clock, backups, Leave, held, row, Trouble
<1>21. CASE Undo
  BY <1>21, KindsOfTasks DEF Undo, clock, backups, Leave, Trouble
<1>22. CASE UNCHANGED vars
  BY <1>22, KindsOfTasks DEF vars, clock, row, backups, base, task, spent
<1> QED
  BY <1>1, <1>2, <1>3, <1>4, <1>5, <1>6, <1>7, <1>8, <1>9, <1>10, <1>11, <1>12, <1>13,
     <1>14, <1>15, <1>16, <1>17, <1>18, <1>19, <1>20, <1>21, <1>22 DEF Next, Quiet
-----------------------------------------------------------------------------
\* The types hold of every state: a number for every backup, a row that the
\* form may hold, and no manifest without a directory.
Filled == Exclusive /\ Timed /\ Set /\ Stored /\ Written

\* Nothing is at work at first.
LEMMA InitIdle ==
    ASSUME Init
    PROVE  pc["restore"] = "idle" /\ \A t \in Tasks : pc[t] = "idle"
<1>1. "restore" \in Tasks
  BY DEF Tasks
<1> QED
  BY <1>1 DEF Init

\* The first state has all of it.
LEMMA InitFilled ==
    ASSUME Setting, Init
    PROVE  Filled
<1>1. Exclusive
  BY DEF Init, Exclusive, Working, Steps
<1>2. Timed /\ Set
  <2>1. 1 \in 1..2
    OBVIOUS
  <2> QED
    BY <2>1, DaysThereAre, RowsAreRows DEF Init, Timed, Set
<1>3. Stored
  <2>1. kind \in [Ids -> Kinds \cup {None}] /\ data \in [Ids -> Nat]
    BY DEF Init
  <2> QED
    BY InitIdle, <2>1 DEF Init, Stored, Working
<1>4. Written
  <2>1. pc["restore"] = "idle" /\ \A i \in Ids : data[i] = 0
    BY InitIdle DEF Init
  <2>2. content = 1 /\ next = 2 /\ source = None
    BY DEF Init
  <2> QED
    BY <2>1, <2>2 DEF Written
<1> QED
  BY <1>1, <1>2, <1>3, <1>4 DEF Filled

\* And every step keeps it.
LEMMA NextFilled ==
    ASSUME Setting, Filled, [Next]_vars
    PROVE  Filled'
BY ExclusiveStays, TimedStays, SetStays, StoredStays, WrittenStays DEF Filled

\* dbbackup.rs: the row, the backups and the tasks have the types they are
\* stored with, and a backup has its manifest in its directory.
THEOREM TypeCorrect ==
    ASSUME Setting
    PROVE  Spec => []TypeOK
<1>1. Filled => TypeOK
  <2>1. ASSUME Filled PROVE whole \subseteq dirs /\ dirs \subseteq Ids
    BY <2>1 DEF Filled, Stored
  <2>2. ASSUME Filled PROVE {was, trim} \subseteq [storing : BOOLEAN, retain : 1..2]
    BY <2>2 DEF Filled, Set, Rows
  <2> QED
    BY <2>1, <2>2 DEF Filled, Exclusive, Timed, Set, Stored, Written, TypeOK, Steps, Working
<1> QED
  BY <1>1, InitFilled, NextFilled, PTL DEF Spec

\* dbbackup.rs scheduler, run_schedule: "running" in the schedule's row is a
\* run at work, once what a restart interrupted is cleared.
THEOREM RunningIsAtWork ==
    ASSUME Setting
    PROVE  Spec => []RunningIsReal
<1>1. Init => RunningIsReal
  BY DEF Init, RunningIsReal
<1>2. Filled /\ RunningIsReal /\ [Next]_vars => RunningIsReal'
  BY RunningStays DEF Filled
<1> QED
  BY <1>1, <1>2, InitFilled, NextFilled, PTL DEF Spec
-----------------------------------------------------------------------------
\* A set of numbers has a least one.
LEMMA Least ==
    ASSUME NEW T, T \subseteq Nat, T # {}
    PROVE  \E x \in T : \A y \in T : x <= y
<1> DEFINE Less == {ss \in Nat \X Nat : ss[1] < ss[2]}
<1>1. IsWellFoundedOn(Less, Nat)
  BY NatLessThanWellFounded DEF OpToRel
<1>2. \A x, y \in Nat : y < x => <<y, x>> \in Less
  OBVIOUS
<1>3. PICK x \in T : \A y \in T : <<y, x>> \notin Less
  <2> HIDE DEF Less
  <2> QED
    BY <1>1, WFMin
<1>4. \A y \in T : y \in Nat /\ x \in Nat /\ ~(y < x)
  BY <1>2, <1>3
<1> QED
  BY <1>4

\* A set of backups has a newest one.
LEMMA Newest ==
    ASSUME Setting, NEW S, S \subseteq Ids, S # {}
    PROVE  \E m \in S : \A j \in S : j <= m
<1> DEFINE T == {MaxIds - i : i \in S}
<1>1. T \subseteq Nat /\ T # {}
  <2>1. \A i \in S : MaxIds - i \in Nat
    BY DEF Setting, Ids
  <2> QED
    BY <2>1
<1>2. PICK x \in T : \A y \in T : x <= y
  <2> HIDE DEF T
  <2> QED
    BY <1>1, Least
<1>3. PICK m \in S : x = MaxIds - m
  BY <1>2
<1>4. \A j \in S : MaxIds - m <= MaxIds - j
  BY <1>2, <1>3
<1>5. ASSUME NEW j \in S PROVE j <= m
  <2>1. j \in Nat /\ m \in Nat /\ MaxIds \in Nat
    BY DEF Setting, Ids
  <2>2. MaxIds - m <= MaxIds - j
    BY <1>4
  <2> HIDE DEF T
  <2> QED
    BY <2>1, <2>2
<1> QED
  BY <1>5

\* apply_retention: what is beyond the first n is scheduled, and has a newer
\* scheduled one that is not beyond them.
LEMMA BeyondIsOld ==
    ASSUME Setting, NEW S, S \subseteq Ids, NEW n \in 1..2, NEW i \in Beyond(S, n)
    PROVE  i \in S /\ kind[i] = "scheduled" /\ \E j \in S \ Beyond(S, n) : j > i /\ kind[j] = "scheduled"
<1> DEFINE R == {k \in S : kind[k] = "scheduled"}
<1>1. i \in R /\ Cardinality({j \in R : j > i}) >= n
  BY DEF Beyond
<1>2. \A j \in R : j \in Beyond(S, n) => Cardinality({k \in R : k > j}) >= n
  BY DEF Beyond
<1>3. {j \in R : j > i} # {}
  <2>1. CASE {j \in R : j > i} = {}
    BY <1>1, <2>1, FS_EmptySet
  <2> QED
    BY <2>1
<1>4. PICK m \in R : \A j \in R : j <= m
  BY <1>1, Newest
<1>5. \A k \in S : k \in Nat
  BY DEF Setting, Ids
<1>6. {k \in R : k > m} = {}
  BY <1>4, <1>5
<1>7. m \notin Beyond(S, n)
  BY <1>2, <1>4, <1>6, FS_EmptySet
<1>8. PICK j \in R : j > i
  BY <1>3
<1>9. m > i
  <2>1. j \in Nat /\ m \in Nat /\ i \in Nat /\ j <= m
    BY <1>1, <1>4, <1>5, <1>8
  <2> QED
    BY <1>8, <2>1
<1> QED
  BY <1>1, <1>4, <1>7, <1>9

\* Only apply_retention removes backups that are whole.
LEMMA RetentionLeavesTheNewest ==
    ASSUME Setting, Filled, [Next]_vars
    PROVE  NewestStays
<1> USE DEF NewestStays
<1>1. CASE TimeComes
  BY <1>1 DEF TimeComes, task, row, backups, base
<1>2. CASE NextDay
  BY <1>2 DEF NextDay, task, row, backups, base
<1>3. CASE Write
  BY <1>3 DEF Write, clock, task, row, backups
<1>4. CASE SaveSchedule
  BY <1>4 DEF SaveSchedule, task, backups, base
<1>5. CASE Boot
  BY <1>5 DEF Boot, clock, task, ResetRunning, backups, base
<1>6. CASE Tick
  BY <1>6 DEF Tick, clock, row, backups, base
<1>7. CASE TickLocked
  BY <1>7 DEF TickLocked, clock, backups, base, StillDue, SetRunning
<1>8. CASE Restart
  BY <1>8 DEF Restart, clock, row, backups, base, Trouble
<1>9. ASSUME NEW t \in Requests, Request(t) PROVE NewestStays
  BY <1>9 DEF Request, clock, row, backups, base
<1>10. ASSUME NEW t \in Requests, RequestLocked(t) PROVE NewestStays
  BY <1>10 DEF RequestLocked, clock, backups, base, SetRunning
<1>11. ASSUME NEW t \in Tasks, BeginDump(t) PROVE NewestStays
  BY <1>11 DEF BeginDump, clock, row, base
<1>12. ASSUME NEW t \in Tasks, EndDump(t) PROVE NewestStays
  BY <1>12, AfterDumpGoesOn DEF EndDump, clock, base, held, row, spent, Leave
<1>13. ASSUME NEW t \in Tasks, DumpFails(t) PROVE NewestStays
  BY <1>13 DEF DumpFails, clock, base, Trouble, Leave
<1>14. ASSUME NEW t \in Tasks, Copy(t) PROVE NewestStays
  BY <1>14 DEF Copy, clock, base, Trouble, Leave, held, row
<1>15. ASSUME NEW t \in Tasks, Rename(t) PROVE NewestStays
  BY <1>15 DEF Rename, clock, base, Leave, held, row, PartAfter, spent
<1>16. ASSUME NEW t \in Tasks, Trim(t) PROVE NewestStays
  <2>1. whole' = whole \ Beyond(whole, trim.retain) /\ UNCHANGED kind
    BY <1>16 DEF Trim
  <2>2. whole \subseteq Ids /\ trim.retain \in 1..2
    BY DEF Filled, Stored, Set, Rows
  <2>3. \A i \in Beyond(whole, trim.retain) :
           kind[i] = "scheduled" /\ \E j \in whole' : j > i /\ kind[j] = "scheduled"
    BY <2>1, <2>2, BeyondIsOld
  <2> QED
    BY <2>1, <2>3
<1>17. ASSUME NEW t \in Tasks, TrimCopies(t) PROVE NewestStays
  BY <1>17 DEF TrimCopies, clock, base, Leave, Beyond
<1>18. CASE Check
  BY <1>18 DEF Check, clock, base, backups, Leave, held, row
<1>19. CASE Truncate
  BY <1>19 DEF Truncate, clock, row, backups
<1>20. CASE Load
  BY <1>20 DEF Load, clock, backups, Leave, held, row, Trouble
<1>21. CASE Undo
  BY <1>21 DEF Undo, clock, backups, Leave, Trouble
<1>22. CASE UNCHANGED vars
  BY <1>22 DEF vars, clock, row, backups, base, task, spent
<1> QED
  BY <1>1, <1>2, <1>3, <1>4, <1>5, <1>6, <1>7, <1>8, <1>9, <1>10, <1>11, <1>12, <1>13,
     <1>14, <1>15, <1>16, <1>17, <1>18, <1>19, <1>20, <1>21, <1>22 DEF Next, Quiet

\* Only the application's writes and a restore change the content.
LEMMA RestoresAreSaved ==
    ASSUME Setting, Exclusive, Written, Safe, [Next]_vars
    PROVE  SavedFirst
<1> USE DEF SavedFirst, Safe, Tasks
<1>1. CASE TimeComes
  BY <1>1 DEF TimeComes, task, row, backups, base
<1>2. CASE NextDay
  BY <1>2 DEF NextDay, task, row, backups, base
<1>3. CASE Write
  BY <1>3 DEF Write, clock, task, row, backups, Written
<1>4. CASE SaveSchedule
  BY <1>4 DEF SaveSchedule, task, backups, base
<1>5. CASE Boot
  BY <1>5 DEF Boot, clock, task, ResetRunning, backups, base
<1>6. CASE Tick
  BY <1>6 DEF Tick, clock, row, backups, base
<1>7. CASE TickLocked
  BY <1>7 DEF TickLocked, clock, backups, base, StillDue, SetRunning
<1>8. CASE Restart
  BY <1>8 DEF Restart, clock, row, backups, base, Trouble
<1>9. ASSUME NEW t \in Requests, Request(t) PROVE SavedFirst
  BY <1>9 DEF Request, clock, row, backups, base
<1>10. ASSUME NEW t \in Requests, RequestLocked(t) PROVE SavedFirst
  BY <1>10 DEF RequestLocked, clock, backups, base, SetRunning
<1>11. ASSUME NEW t \in Tasks, BeginDump(t) PROVE SavedFirst
  BY <1>11 DEF BeginDump, clock, row, base
<1>12. ASSUME NEW t \in Tasks, EndDump(t) PROVE SavedFirst
  BY <1>12, AfterDumpGoesOn DEF EndDump, clock, base, held, row, spent, Leave
<1>13. ASSUME NEW t \in Tasks, DumpFails(t) PROVE SavedFirst
  BY <1>13 DEF DumpFails, clock, base, Trouble, Leave
<1>14. ASSUME NEW t \in Tasks, Copy(t) PROVE SavedFirst
  BY <1>14 DEF Copy, clock, base, Trouble, Leave, held, row
<1>15. ASSUME NEW t \in Tasks, Rename(t) PROVE SavedFirst
  BY <1>15 DEF Rename, clock, base, Leave, held, row, PartAfter, spent
<1>16. ASSUME NEW t \in Tasks, Trim(t) PROVE SavedFirst
  BY <1>16 DEF Trim, clock, base, Leave, held, row, Beyond
<1>17. ASSUME NEW t \in Tasks, TrimCopies(t) PROVE SavedFirst
  BY <1>17 DEF TrimCopies, clock, base, Leave, Beyond
<1>18. CASE Check
  BY <1>18 DEF Check, clock, base, backups, Leave, held, row
<1>19. CASE Truncate
  BY <1>19 DEF Truncate, clock, row, backups
<1>20. CASE Load
  BY <1>20 DEF Load, clock, backups, Leave, held, row, Trouble
<1>21. CASE Undo
  BY <1>21 DEF Undo, clock, backups, Leave, Trouble
<1>22. CASE UNCHANGED vars
  BY <1>22 DEF vars, clock, row, backups, base, task, spent
<1> QED
  BY <1>1, <1>2, <1>3, <1>4, <1>5, <1>6, <1>7, <1>8, <1>9, <1>10, <1>11, <1>12, <1>13,
     <1>14, <1>15, <1>16, <1>17, <1>18, <1>19, <1>20, <1>21, <1>22 DEF Next, Quiet

\* The scheduler looks at the row again under the lock.
LEMMA RoundsLookAgain ==
    ASSUME Setting, Filled, [Next]_vars
    PROVE  OncePerDay
<1> USE DEF OncePerDay, Setting, Filled, Exclusive, Working, Tasks
<1>1. CASE TimeComes
  BY <1>1 DEF TimeComes, task, row, backups, base
<1>2. CASE NextDay
  BY <1>2 DEF NextDay, task, row, backups, base
<1>3. CASE Write
  BY <1>3 DEF Write, clock, task, row, backups
<1>4. CASE SaveSchedule
  BY <1>4 DEF SaveSchedule, task, backups, base
<1>5. CASE Boot
  BY <1>5 DEF Boot, clock, task, ResetRunning, backups, base
<1>6. CASE Tick
  BY <1>6 DEF Tick, clock, row, backups, base
<1>7. CASE TickLocked
  BY <1>7 DEF TickLocked, clock, backups, base, StillDue, SetRunning
<1>8. CASE Restart
  BY <1>8 DEF Restart, clock, row, backups, base, Trouble
<1>9. ASSUME NEW t \in Requests, Request(t) PROVE OncePerDay
  BY <1>9 DEF Request, clock, row, backups, base
<1>10. ASSUME NEW t \in Requests, RequestLocked(t) PROVE OncePerDay
  BY <1>10 DEF RequestLocked, clock, backups, base, SetRunning
<1>11. ASSUME NEW t \in Tasks, BeginDump(t) PROVE OncePerDay
  BY <1>11 DEF BeginDump, clock, row, base
<1>12. ASSUME NEW t \in Tasks, EndDump(t) PROVE OncePerDay
  BY <1>12, AfterDumpGoesOn DEF EndDump, clock, base, held, row, spent, Leave
<1>13. ASSUME NEW t \in Tasks, DumpFails(t) PROVE OncePerDay
  BY <1>13 DEF DumpFails, clock, base, Trouble, Leave
<1>14. ASSUME NEW t \in Tasks, Copy(t) PROVE OncePerDay
  BY <1>14 DEF Copy, clock, base, Trouble, Leave, held, row
<1>15. ASSUME NEW t \in Tasks, Rename(t) PROVE OncePerDay
  BY <1>15 DEF Rename, clock, base, Leave, held, row, PartAfter, spent
<1>16. ASSUME NEW t \in Tasks, Trim(t) PROVE OncePerDay
  BY <1>16 DEF Trim, clock, base, Leave, held, row, Beyond
<1>17. ASSUME NEW t \in Tasks, TrimCopies(t) PROVE OncePerDay
  BY <1>17 DEF TrimCopies, clock, base, Leave, Beyond
<1>18. CASE Check
  BY <1>18 DEF Check, clock, base, backups, Leave, held, row
<1>19. CASE Truncate
  BY <1>19 DEF Truncate, clock, row, backups
<1>20. CASE Load
  BY <1>20 DEF Load, clock, backups, Leave, held, row, Trouble
<1>21. CASE Undo
  BY <1>21 DEF Undo, clock, backups, Leave, Trouble
<1>22. CASE UNCHANGED vars
  BY <1>22 DEF vars, clock, row, backups, base, task, spent
<1> QED
  BY <1>1, <1>2, <1>3, <1>4, <1>5, <1>6, <1>7, <1>8, <1>9, <1>10, <1>11, <1>12, <1>13,
     <1>14, <1>15, <1>16, <1>17, <1>18, <1>19, <1>20, <1>21, <1>22 DEF Next, Quiet

\* A step of a scheduled run fails, or it ends with success.
LEMMA FailuresHaveCauses ==
    ASSUME Setting, Filled, OnePart, OnePart', [Next]_vars
    PROVE  Caused
<1> USE DEF OnePart, Caused
<1>1. CASE TimeComes
  BY <1>1, KindsOfTasks DEF TimeComes, task, row, backups, base
<1>2. CASE NextDay
  BY <1>2, KindsOfTasks DEF NextDay, task, row, backups, base
<1>3. CASE Write
  BY <1>3, KindsOfTasks DEF Write, clock, task, row, backups
<1>4. CASE SaveSchedule
  BY <1>4, KindsOfTasks DEF SaveSchedule, task, backups, base
<1>5. CASE Boot
  BY <1>5, KindsOfTasks DEF Boot, clock, task, ResetRunning, backups, base
<1>6. CASE Tick
  BY <1>6, KindsOfTasks DEF Tick, clock, row, backups, base
<1>7. CASE TickLocked
  BY <1>7, KindsOfTasks DEF TickLocked, clock, backups, base, StillDue, SetRunning
<1>8. CASE Restart
  BY <1>8, KindsOfTasks DEF Restart, clock, row, backups, base, Trouble
<1>9. ASSUME NEW t \in Requests, Request(t) PROVE Caused
  BY <1>9, KindsOfTasks DEF Request, clock, row, backups, base
<1>10. ASSUME NEW t \in Requests, RequestLocked(t) PROVE Caused
  BY <1>10, KindsOfTasks DEF RequestLocked, clock, backups, base, SetRunning
<1>11. ASSUME NEW t \in Tasks, BeginDump(t) PROVE Caused
  BY <1>11, KindsOfTasks DEF BeginDump, clock, row, base
<1>12. ASSUME NEW t \in Tasks, EndDump(t) PROVE Caused
  BY <1>12, KindsOfTasks, AfterDumpGoesOn DEF EndDump, clock, base, held, row, spent, Leave
<1>13. ASSUME NEW t \in Tasks, DumpFails(t) PROVE Caused
  BY <1>13, KindsOfTasks DEF DumpFails, clock, base, Trouble, Leave
<1>14. ASSUME NEW t \in Tasks, Copy(t) PROVE Caused
  BY <1>14, KindsOfTasks DEF Copy, clock, base, Trouble, Leave, held, row
<1>15. ASSUME NEW t \in Tasks, Rename(t) PROVE Caused
  BY <1>15, KindsOfTasks DEF Rename, clock, base, Leave, held, row, PartAfter, spent
<1>16. ASSUME NEW t \in Tasks, Trim(t) PROVE Caused
  BY <1>16, KindsOfTasks DEF Trim, clock, base, Leave, held, row, Beyond
<1>17. ASSUME NEW t \in Tasks, TrimCopies(t) PROVE Caused
  <2>1. \A u \in Tasks : pc[u] # "rename"
    BY <1>17 DEF TrimCopies, Filled, Exclusive, Working
  <2>2. part = {}
    BY <2>1
  <2>3. Beyond(mirror \cup part, trim.retain) \subseteq mirror
    BY <2>2 DEF Beyond
  <2>4. Leave(t, "success")
    BY <1>17, <2>3 DEF TrimCopies
  <2> QED
    BY <2>4 DEF Leave
<1>18. CASE Check
  BY <1>18, KindsOfTasks DEF Check, clock, base, backups, Leave, held, row
<1>19. CASE Truncate
  BY <1>19, KindsOfTasks DEF Truncate, clock, row, backups
<1>20. CASE Load
  BY <1>20, KindsOfTasks DEF Load, clock, backups, Leave, held, row, Trouble
<1>21. CASE Undo
  BY <1>21, KindsOfTasks DEF Undo, clock, backups, Leave, Trouble
<1>22. CASE UNCHANGED vars
  BY <1>22, KindsOfTasks DEF vars, clock, row, backups, base, task, spent
<1> QED
  BY <1>1, <1>2, <1>3, <1>4, <1>5, <1>6, <1>7, <1>8, <1>9, <1>10, <1>11, <1>12, <1>13,
     <1>14, <1>15, <1>16, <1>17, <1>18, <1>19, <1>20, <1>21, <1>22 DEF Next, Quiet

\* README, dbbackup.rs apply_retention, restore: cleaning removes scheduled
\* backups only and never the newest, and what a restore writes over was dumped
\* after the restore began.
THEOREM DataIsKept ==
    ASSUME Setting
    PROVE  Spec => DataStaysKept
<1>1. Init => Safe
  <2>1. Init => asked = 0 /\ pc["restore"] = "idle"
    BY InitIdle DEF Init
  <2> QED
    BY <2>1 DEF Safe
<1>2. Filled /\ Safe /\ [Next]_vars => Safe'
  BY SafeStays DEF Filled
<1>3. Filled /\ [Next]_vars => [NewestStays]_vars
  BY RetentionLeavesTheNewest
<1>4. Filled /\ Safe /\ [Next]_vars => [SavedFirst]_vars
  BY RestoresAreSaved DEF Filled
<1> QED
  BY <1>1, <1>2, <1>3, <1>4, InitFilled, NextFilled, PTL
     DEF Spec, DataStaysKept, OnlyOldScheduledGo, ReplacedIsSaved, NewestStays,
         SavedFirst

\* README, dbbackup.rs run_schedule: a day that ended with success is not run
\* again, and a run ends with a failure only when a step of it failed.
THEOREM RunsTellTheTruth ==
    ASSUME Setting, ~CrashInCopy
    PROVE  Spec => RunsAreHonest
<1>1. Init => OnePart
  <2>1. Init => part = {} /\ troubles = 0 /\ \A t \in Tasks : pc[t] = "idle"
    BY InitIdle DEF Init
  <2> QED
    BY <2>1 DEF OnePart
<1>2. Filled /\ OnePart /\ [Next]_vars => OnePart'
  BY OnePartStays DEF Filled
<1>3. Filled /\ [Next]_vars => [OncePerDay]_vars
  BY RoundsLookAgain
<1>4. Filled /\ OnePart /\ OnePart' /\ [Next]_vars => [Caused]_vars
  BY FailuresHaveCauses
<1> QED
  BY <1>1, <1>2, <1>3, <1>4, InitFilled, NextFilled, PTL
     DEF Spec, RunsAreHonest, NoSecondRun, FailsWithCause, OncePerDay, Caused
=============================================================================
