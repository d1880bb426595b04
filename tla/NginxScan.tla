----------------------------- MODULE NginxScan -----------------------------
(***************************************************************************)
(* The statistics of the Nginx access logs (src/src/nginx_stats.rs):       *)
(* scans from the scheduler, from a request and after a change of the      *)
(* settings, which resume from the cursor of each file.                    *)
(*                                                                         *)
(* A file is named by its inode.  Every line has two bytes, its text and   *)
(* its newline, so a read may end in the middle of one.  Counting a line   *)
(* stands for every table persist_batch adds to.                           *)
(***************************************************************************)
EXTENDS Naturals, FiniteSets

CONSTANTS
    None,
    Scans,         \* the tasks that scan; each may scan again
    Clients,       \* those that are a handler and end with their client
    Inodes,
    Chunk,         \* bytes of one read: 8 MiB in the code
    DropAt,        \* the steps at which a client may disconnect
    Beside,        \* whether the settings may be saved while a scan runs
    MaxLines,      \* bound: lines of one file
    MaxGens,       \* bound: how often an inode is truncated or used again
    MaxSaves, MaxRestarts

VARIABLES
    len, gen,      \* bytes of each file; its content's generation
    listed,        \* inodes that have an access log name
    enabled,
    cursor,        \* nginx_log_cursors: [off, held], held the bytes of an open line
    counted,       \* how often each line was added to the buckets
    lock,          \* nginx_stats_lock
    pc, todo,      \* each scan's step and the files it has left
    work,          \* the file it reads: its size when asked, the position, the chunk read
    skipped,       \* files moved to their end, or truncated (never read by the code)
    saves, restarts

logs  == <<len, gen, listed>>
db    == <<enabled, cursor, counted, skipped>>
scan  == <<pc, todo, work>>
spent == <<saves, restarts>>
vars  == <<logs, db, lock, scan, spent>>

Lines == Inodes \X (0..MaxGens) \X (1..MaxLines)
Bytes == 0..(2 * MaxLines)
NoWork == [file |-> None, size |-> 0, off |-> 0, held |-> 0, read |-> 0, gen |-> 0]
\* The steps of scan_blocking, which runs on when its handler is dropped.
Busy == {"files", "stat", "read", "persist"}

TypeOK ==
    /\ len \in [Inodes -> Bytes] /\ gen \in [Inodes -> 0..MaxGens] /\ listed \subseteq Inodes
    /\ enabled \in BOOLEAN
    /\ cursor \in [Inodes -> [off : Bytes, held : 0..1]]
    /\ counted \in [Lines -> Nat]
    /\ lock \in Scans \cup {None}
    /\ pc \in [Scans -> Busy \cup {"idle", "wait"}] /\ todo \in [Scans -> SUBSET Inodes]
    /\ \A s \in Scans : /\ work[s].file \in Inodes \cup {None} /\ work[s].off \in Bytes
                        /\ work[s].held \in 0..1 /\ work[s].read \in 0..Chunk
    /\ skipped \subseteq Inodes

Init ==
    /\ len = [i \in Inodes |-> 0] /\ gen = [i \in Inodes |-> 0] /\ listed \in SUBSET Inodes
    /\ enabled = FALSE
    /\ cursor = [i \in Inodes |-> [off |-> 0, held |-> 0]]
    /\ counted = [l \in Lines |-> 0]
    /\ lock = None
    /\ pc = [s \in Scans |-> "idle"] /\ todo = [s \in Scans |-> {}]
    /\ work = [s \in Scans |-> NoWork]
    /\ skipped = {} /\ saves = 0 /\ restarts = 0
-----------------------------------------------------------------------------
(* Nginx and logrotate. *)

Append(i) ==
    /\ i \in listed
    /\ \E n \in {1, 2} : /\ len[i] + n \in Bytes
                         /\ len' = [len EXCEPT ![i] = @ + n]
    /\ UNCHANGED <<gen, listed, db, lock, scan, spent>>

\* copytruncate, or a new file that gets the inode of a deleted one.
Truncate(i) ==
    /\ len[i] > 0 /\ gen[i] < MaxGens
    /\ gen' = [gen EXCEPT ![i] = @ + 1] /\ len' = [len EXCEPT ![i] = 0]
    /\ skipped' = skipped \cup {i}
    /\ UNCHANGED <<listed, enabled, cursor, counted, lock, scan, spent>>

\* A file appears, or is compressed.
Rotate(i) ==
    /\ listed' = IF i \in listed THEN listed \ {i} ELSE listed \cup {i}
    /\ UNCHANGED <<len, gen, db, lock, scan, spent>>
-----------------------------------------------------------------------------
\* save_settings: initialize_cursors_at_end, or a scan of its own.
SaveSettings(s) ==
    /\ saves < MaxSaves /\ saves' = saves + 1
    /\ Beside \/ \A t \in Scans : pc[t] \notin Busy
    /\ \E on, fromEnd \in BOOLEAN :
        /\ enabled' = on
        /\ cursor' = IF fromEnd
                     THEN [i \in Inodes |-> IF i \in listed THEN [off |-> len[i], held |-> 0] ELSE cursor[i]]
                     ELSE cursor
        /\ skipped' = IF fromEnd THEN skipped \cup listed ELSE skipped
        /\ IF on /\ ~fromEnd THEN s \notin Clients /\ pc[s] = "idle" /\ pc' = [pc EXCEPT ![s] = "wait"]
           ELSE UNCHANGED pc
    /\ UNCHANGED <<logs, counted, lock, todo, work, restarts>>

\* configure_loadbalance_logs, called by the cluster's checks.
Configure ==
    /\ ~enabled /\ enabled' = TRUE
    /\ UNCHANGED <<logs, cursor, counted, skipped, lock, scan, spent>>

\* scan_now, or the scheduler at minute 15 and 45.
Start(s) ==
    /\ pc[s] = "idle" /\ (s \in Clients \/ enabled)
    /\ pc' = [pc EXCEPT ![s] = "wait"]
    /\ UNCHANGED <<logs, db, lock, todo, work, spent>>

LockFree == lock = None

\* run_scan under its lock: the settings, the list of the files.
Run(s) ==
    /\ pc[s] = "wait" /\ LockFree
    /\ IF enabled
       THEN /\ lock' = s /\ pc' = [pc EXCEPT ![s] = "files"]
            /\ todo' = [todo EXCEPT ![s] = listed]
       ELSE /\ pc' = [pc EXCEPT ![s] = "idle"] /\ UNCHANGED <<lock, todo>>
    /\ UNCHANGED <<logs, db, work, spent>>

\* scan_file: the size is asked before the cursor is read.
Stat(s) ==
    /\ pc[s] = "files"
    /\ \E i \in todo[s] :
        /\ work' = [work EXCEPT ![s] = [NoWork EXCEPT !.file = i, !.size = len[i]]]
        /\ todo' = [todo EXCEPT ![s] = @ \ {i}]
    /\ pc' = [pc EXCEPT ![s] = "stat"]
    /\ UNCHANGED <<logs, db, lock, spent>>

\* A file shorter than its cursor is read from the start.
ReadCursor(s) ==
    /\ pc[s] = "stat"
    /\ LET w == work[s]  c == cursor[w.file]  from == IF w.size < c.off THEN [off |-> 0, held |-> 0] ELSE c IN
       work' = [work EXCEPT ![s].off = from.off, ![s].held = from.held]
    /\ pc' = [pc EXCEPT ![s] = "read"]
    /\ UNCHANGED <<logs, db, lock, todo, spent>>

\* The next chunk, or the end of the file.
ReadChunk(s) ==
    /\ pc[s] = "read"
    /\ LET w == work[s] IN
       IF len[w.file] > w.off
       THEN /\ work' = [work EXCEPT ![s].gen = gen[w.file],
                                    ![s].read = IF len[w.file] - w.off < Chunk THEN len[w.file] - w.off ELSE Chunk]
            /\ pc' = [pc EXCEPT ![s] = "persist"]
       ELSE /\ work' = [work EXCEPT ![s] = NoWork] /\ pc' = [pc EXCEPT ![s] = "files"]
    /\ UNCHANGED <<logs, db, lock, todo, spent>>

\* The lines whose newline is in the chunk; the rest of a line whose text was
\* dropped does not parse.
Complete(w) ==
    {k \in 1..MaxLines : 2 * k > w.off /\ 2 * k <= w.off + w.read /\ (2 * k - 1 > w.off \/ w.held = 1)}

\* Mutant: the open line is not kept with the cursor.
HeldForgotten(w) == 0

\* Mutant: all that was read is kept.
HeldWhole(w) == w.off + w.read

HeldAfter(w) == (w.off + w.read) % 2

\* persist_batch: the buckets and the cursor in one transaction.
Persist(s) ==
    /\ pc[s] = "persist"
    /\ LET w == work[s]  i == w.file  done == w.off + w.read IN
       /\ counted' = [l \in Lines |-> IF l \in {<<i, w.gen, k>> : k \in Complete(w)}
                                      THEN counted[l] + 1 ELSE counted[l]]
       /\ cursor' = [cursor EXCEPT ![i] = [off |-> done, held |-> HeldAfter(w)]]
       /\ work' = [work EXCEPT ![s].off = done, ![s].held = HeldAfter(w), ![s].read = 0]
    /\ pc' = [pc EXCEPT ![s] = "read"]
    /\ UNCHANGED <<logs, enabled, skipped, lock, todo, spent>>

End(s) ==
    /\ pc' = [pc EXCEPT ![s] = "idle"] /\ todo' = [todo EXCEPT ![s] = {}]
    /\ work' = [work EXCEPT ![s] = NoWork]
    /\ lock' = IF lock = s THEN None ELSE lock

\* The last file, or an error: the scan ends with what it has committed.
Finish(s) ==
    /\ pc[s] \in Busy /\ (pc[s] = "files" => todo[s] = {})
    /\ End(s) /\ UNCHANGED <<logs, db, spent>>

\* The client of scan_now leaves: the lock goes with the handler, the blocking
\* scan does not.
Drop(s) ==
    /\ s \in Clients /\ pc[s] \in DropAt
    /\ pc[s] = "wait" \/ lock = s
    /\ IF pc[s] = "wait" THEN End(s)
       ELSE lock' = None /\ UNCHANGED scan
    /\ UNCHANGED <<logs, db, spent>>

Restart ==
    /\ restarts < MaxRestarts /\ restarts' = restarts + 1
    /\ lock' = None
    /\ pc' = [s \in Scans |-> "idle"] /\ todo' = [s \in Scans |-> {}]
    /\ work' = [s \in Scans |-> NoWork]
    /\ UNCHANGED <<logs, db, saves>>

Next ==
    \/ \E i \in Inodes : Append(i) \/ Truncate(i) \/ Rotate(i)
    \/ \E s \in Scans :
          \/ SaveSettings(s) \/ Start(s) \/ Run(s) \/ Stat(s) \/ ReadCursor(s)
          \/ ReadChunk(s) \/ Persist(s) \/ Finish(s) \/ Drop(s)
    \/ Configure \/ Restart

Spec == Init /\ [][Next]_vars
-----------------------------------------------------------------------------
\* README: rotations are recognised and nothing is read twice.  No line is
\* counted twice, wherever reads, restarts and truncations fall; see the bounds
\* DropAt and Beside for the two ways the code breaks it.
CountedOnce == \A l \in Lines : counted[l] <= 1

\* The cursor of a file that was neither truncated nor moved to its end says
\* exactly which of its lines were counted: all whose newline is before it.
CursorTellsCount ==
    \A i \in Inodes \ skipped, k \in 1..MaxLines :
        (counted[<<i, gen[i], k>>] = 1) <=> 2 * k <= cursor[i].off
=============================================================================
