-------------------------- MODULE NginxScan_proofs --------------------------
(***************************************************************************)
(* The access logs are counted once, for any number of files, scans, lines *)
(* and any size of a read, wherever appends, truncations, rotations and    *)
(* restarts fall between the steps of a scan.                              *)
(***************************************************************************)
EXTENDS NginxScan, TLAPS

\* No client leaves a scan that has begun, and the settings wait for its end.
Setting ==
    /\ DropAt \subseteq {"wait"} /\ Beside = FALSE
    /\ None \notin Scans /\ Chunk \in Nat /\ MaxLines \in Nat /\ MaxGens \in Nat

Works == [file : Inodes \cup {None}, size : Bytes, off : Bytes, held : 0..1, read : 0..Chunk,
          gen : 0..MaxGens]

\* The types; a scan at a file has one, and reads no more than there may be.
LogsShape == len \in [Inodes -> Bytes] /\ gen \in [Inodes -> 0..MaxGens] /\ listed \subseteq Inodes
DbShape   ==
    /\ cursor \in [Inodes -> [off : Bytes, held : 0..1]] /\ counted \in [Lines -> Nat]
    /\ enabled \in BOOLEAN /\ skipped \subseteq Inodes
ScanShape ==
    /\ pc \in [Scans -> Busy \cup {"idle", "wait"}] /\ lock \in Scans \cup {None}
    /\ todo \in [Scans -> SUBSET Inodes] /\ work \in [Scans -> Works]
    /\ \A s \in Scans : pc[s] \in {"stat", "read", "persist"} => work[s].file \in Inodes
    /\ \A s \in Scans : pc[s] = "persist" => work[s].off + work[s].read \in Bytes
Shape == LogsShape /\ DbShape /\ ScanShape

\* One scan at a time is at work.
Alone == \A s \in Scans : pc[s] \in Busy => lock = s

Counted(i, k) == counted[<<i, gen[i], k>>] = 1

\* What was counted of a file is before its cursor, which is not beyond the
\* end then; a file that is shorter than its cursor is a new one.
Once   == \A l \in Lines : counted[l] <= 1
Future == \A i \in Inodes, g \in 0..MaxGens, k \in 1..MaxLines : g > gen[i] => counted[<<i, g, k>>] = 0
Behind ==
    \A i \in Inodes, k \in 1..MaxLines : Counted(i, k) => 2 * k <= cursor[i].off /\ cursor[i].off <= len[i]

\* And a scan begins behind it, whatever it has seen of the file before.
AheadOf(s, k) ==
    /\ pc[s] = "stat" /\ Counted(work[s].file, k) => work[s].size >= cursor[work[s].file].off
    /\ pc[s] = "read" /\ Counted(work[s].file, k) => 2 * k <= work[s].off
    /\ pc[s] = "persist" /\ counted[<<work[s].file, work[s].gen, k>>] = 1 => 2 * k <= work[s].off
Ahead == \A s \in Scans, k \in 1..MaxLines : AheadOf(s, k)

\* What a scan has read is of the file there is, or of one before it of which
\* the new one has nothing counted.
ReadOf(s) ==
    pc[s] = "persist" =>
        /\ work[s].gen <= gen[work[s].file]
        /\ work[s].gen = gen[work[s].file] => work[s].off + work[s].read <= len[work[s].file]
        /\ work[s].gen # gen[work[s].file] => \A k \in 1..MaxLines : ~Counted(work[s].file, k)
Read == \A s \in Scans : ReadOf(s)

\* A file that was left alone is counted up to its cursor, its open line kept.
Kept ==
    \A i \in Inodes \ skipped :
        /\ cursor[i].off <= len[i] /\ cursor[i].held = cursor[i].off % 2
        /\ \A k \in 1..MaxLines : Counted(i, k) <=> 2 * k <= cursor[i].off

\* And a scan at such a file goes on from its cursor.
AtOf(s) ==
    work[s].file \notin skipped =>
        /\ pc[s] = "stat" => work[s].size >= cursor[work[s].file].off
        /\ pc[s] \in {"read", "persist"} => /\ work[s].off = cursor[work[s].file].off
                                            /\ work[s].held = cursor[work[s].file].held
        /\ pc[s] = "persist" => work[s].gen = gen[work[s].file]
At == \A s \in Scans : AtOf(s)
-----------------------------------------------------------------------------
\* The bytes there may be are numbers.
LEMMA BytesAreNumbers ==
    ASSUME Setting
    PROVE  /\ Bytes \subseteq Nat /\ 0 \in Bytes /\ \A b \in Bytes, n \in Nat : n <= b => n \in Bytes
           /\ 0 \in 0..1 /\ 0 \in 0..MaxGens /\ 0 \in 0..Chunk /\ 2 * MaxLines \in Nat
<1>1. 2 * MaxLines \in Nat
  BY DEF Setting
<1> QED
  BY <1>1 DEF Setting, Bytes

\* A scan without a file is one.
LEMMA NoWorkIsWork ==
    ASSUME Setting
    PROVE  NoWork \in Works
BY BytesAreNumbers DEF NoWork, Works

\* A step of a scan changes nothing of another's.
Only(s) == \A t \in Scans \ {s} : work'[t] = work[t] /\ pc'[t] = pc[t]

\* scan_file: it takes the size,
LEMMA StatDoes ==
    ASSUME Setting, Shape, NEW s \in Scans, Stat(s)
    PROVE  /\ work' \in [Scans -> Works] /\ Only(s) /\ pc' = [pc EXCEPT ![s] = "stat"]
           /\ work'[s].file \in Inodes /\ work'[s].size = len[work'[s].file]
<1> USE DEF Shape, LogsShape, ScanShape
<1>1. PICK i \in todo[s] : work' = [work EXCEPT ![s] = [NoWork EXCEPT !.file = i, !.size = len[i]]]
  BY DEF Stat
<1>2. i \in Inodes /\ len[i] \in Bytes
  OBVIOUS
<1> DEFINE w == [NoWork EXCEPT !.file = i, !.size = len[i]]
<1>3. w \in Works /\ w.file = i /\ w.size = len[i]
  BY <1>2, NoWorkIsWork, BytesAreNumbers DEF Works, NoWork
<1>4. work' = [work EXCEPT ![s] = w]
  BY <1>1
<1> HIDE DEF w
<1> QED
  BY <1>2, <1>3, <1>4 DEF Stat, Only

\* then the cursor, or none when the file is shorter,
LEMMA ReadCursorDoes ==
    ASSUME Setting, Shape, NEW s \in Scans, ReadCursor(s)
    PROVE  /\ work' \in [Scans -> Works] /\ Only(s) /\ pc' = [pc EXCEPT ![s] = "read"]
           /\ work[s].file \in Inodes /\ work'[s].file = work[s].file
           /\ work[s].size < cursor[work[s].file].off => work'[s].off = 0 /\ work'[s].held = 0
           /\ ~(work[s].size < cursor[work[s].file].off) =>
                 /\ work'[s].off = cursor[work[s].file].off
                 /\ work'[s].held = cursor[work[s].file].held
<1> USE DEF Shape, DbShape, ScanShape
<1> DEFINE c == cursor[work[s].file]
           from == IF work[s].size < c.off THEN [off |-> 0, held |-> 0] ELSE c
           w == [work[s] EXCEPT !.off = from.off, !.held = from.held]
<1>1. work[s].file \in Inodes /\ work[s] \in Works
  BY DEF ReadCursor
<1>2. c.off \in Bytes /\ c.held \in 0..1
  BY <1>1
<1>3. from.off \in Bytes /\ from.held \in 0..1
  BY <1>2, BytesAreNumbers
<1>4. work' = [work EXCEPT ![s] = w]
  BY <1>1 DEF ReadCursor, Works
<1>5. w \in Works /\ w.file = work[s].file /\ w.off = from.off /\ w.held = from.held
  <2> HIDE DEF from
  <2> QED
    BY <1>1, <1>3 DEF Works
<1>6. work' \in [Scans -> Works] /\ work'[s] = w /\ \A t \in Scans \ {s} : work'[t] = work[t]
  <2> HIDE DEF w
  <2> QED
    BY <1>4, <1>5
<1>7. pc' = [pc EXCEPT ![s] = "read"]
  BY DEF ReadCursor
<1>8. Only(s)
  BY <1>6, <1>7 DEF Only
<1> HIDE DEF w
<1> QED
  BY <1>1, <1>5, <1>6, <1>7, <1>8

\* a chunk, if there is more,
LEMMA ReadChunkDoes ==
    ASSUME Setting, Shape, NEW s \in Scans, ReadChunk(s)
    PROVE  /\ work' \in [Scans -> Works] /\ Only(s) /\ work[s].file \in Inodes
           /\ \/ pc' = [pc EXCEPT ![s] = "files"]
              \/ /\ pc' = [pc EXCEPT ![s] = "persist"]
                 /\ work'[s].file = work[s].file /\ work'[s].off = work[s].off
                 /\ work'[s].held = work[s].held /\ work'[s].gen = gen[work[s].file]
                 /\ work'[s].off + work'[s].read <= len[work[s].file]
                 /\ work'[s].off + work'[s].read \in Bytes
<1> USE DEF Shape, LogsShape, ScanShape
<1>1. work[s].file \in Inodes /\ work[s] \in Works
  BY DEF ReadChunk
<1>2. CASE ~(len[work[s].file] > work[s].off)
  BY <1>1, <1>2, NoWorkIsWork DEF ReadChunk, Only
<1>3. CASE len[work[s].file] > work[s].off
  <2> DEFINE f == work[s].file
             r == IF len[f] - work[s].off < Chunk THEN len[f] - work[s].off ELSE Chunk
             w == [work[s] EXCEPT !.gen = gen[f], !.read = r]
  <2>1. len[f] \in Nat /\ work[s].off \in Nat /\ gen[f] \in 0..MaxGens /\ len[f] \in Bytes
    BY <1>1, BytesAreNumbers DEF Works
  <2>2. r \in 0..Chunk /\ work[s].off + r <= len[f] /\ work[s].off + r \in Nat
    BY <2>1, <1>3 DEF Setting
  <2>3. work[s].off + r \in Bytes
    BY <2>1, <2>2, BytesAreNumbers
  <2>4. work' = [work EXCEPT ![s] = w] /\ pc' = [pc EXCEPT ![s] = "persist"]
    BY <1>1, <1>3 DEF ReadChunk, Works
  <2>5. w \in Works /\ w.file = f /\ w.off = work[s].off /\ w.held = work[s].held
           /\ w.gen = gen[f] /\ w.read = r
    <3> HIDE DEF r
    <3> QED
      BY <1>1, <2>1, <2>2 DEF Works
  <2>6. work' \in [Scans -> Works] /\ work'[s] = w /\ \A t \in Scans \ {s} : work'[t] = work[t]
    <3> HIDE DEF w
    <3> QED
      BY <2>4, <2>5
  <2>7. Only(s)
    BY <2>4, <2>6 DEF Only
  <2> HIDE DEF w, r
  <2> QED
    BY <1>1, <2>2, <2>3, <2>4, <2>5, <2>6, <2>7
<1> QED
  BY <1>2, <1>3

\* and persists its lines with the cursor behind it.
LEMMA PersistDoes ==
    ASSUME Setting, Shape, NEW s \in Scans, Persist(s)
    PROVE  /\ work' \in [Scans -> Works] /\ Only(s) /\ pc' = [pc EXCEPT ![s] = "read"]
           /\ work[s].file \in Inodes /\ work'[s].file = work[s].file
           /\ work'[s].off = work[s].off + work[s].read
           /\ work'[s].held = HeldAfter(work[s])
           /\ cursor' = [cursor EXCEPT ![work[s].file] =
                           [off |-> work[s].off + work[s].read, held |-> HeldAfter(work[s])]]
           /\ HeldAfter(work[s]) = work'[s].off % 2 /\ HeldAfter(work[s]) \in 0..1
           /\ work'[s].off \in Bytes
<1> USE DEF Shape, LogsShape, ScanShape
<1> DEFINE done == work[s].off + work[s].read
           w == [work[s] EXCEPT !.off = done, !.held = HeldAfter(work[s]), !.read = 0]
<1>1. work[s].file \in Inodes /\ work[s] \in Works /\ done \in Bytes
  BY DEF Persist
<1>2. HeldAfter(work[s]) = done % 2 /\ HeldAfter(work[s]) \in 0..1
  BY <1>1, BytesAreNumbers DEF HeldAfter
<1>3. work' = [work EXCEPT ![s] = w] /\ pc' = [pc EXCEPT ![s] = "read"]
  BY <1>1 DEF Persist, Works
<1>4. w \in Works /\ w.file = work[s].file /\ w.off = done /\ w.held = HeldAfter(work[s])
  <2> HIDE DEF done
  <2> QED
    BY <1>1, <1>2, BytesAreNumbers DEF Works
<1>5. work' \in [Scans -> Works] /\ work'[s] = w /\ \A t \in Scans \ {s} : work'[t] = work[t]
  <2> HIDE DEF w
  <2> QED
    BY <1>3, <1>4
<1>6. Only(s)
  BY <1>3, <1>5 DEF Only
<1>7. cursor' = [cursor EXCEPT ![work[s].file] = [off |-> done, held |-> HeldAfter(work[s])]]
  BY DEF Persist
<1> HIDE DEF w
<1> QED
  BY <1>1, <1>2, <1>3, <1>4, <1>5, <1>6, <1>7

\* A line is counted or not.
LEMMA ZeroOrOne == \A n \in Nat : n <= 1 /\ n # 1 => n = 0
OBVIOUS

\* Persist adds one to the lines that end in the chunk, of the file as it was
\* when the chunk was read.
LEMMA PersistCounts ==
    ASSUME Setting, Shape, NEW s \in Scans, Persist(s), NEW i \in Inodes,
           NEW g \in 0..MaxGens, NEW k \in 1..MaxLines
    PROVE  counted'[<<i, g, k>>] = IF i = work[s].file /\ g = work[s].gen /\ k \in Complete(work[s])
                                   THEN counted[<<i, g, k>>] + 1 ELSE counted[<<i, g, k>>]
<1>1. <<i, g, k>> \in Lines
  BY DEF Lines
<1>2. <<i, g, k>> \in {<<work[s].file, work[s].gen, j>> : j \in Complete(work[s])}
        <=> i = work[s].file /\ g = work[s].gen /\ k \in Complete(work[s])
  OBVIOUS
<1> QED
  BY <1>1, <1>2 DEF Persist

\* The lines whose newline comes with the chunk; the open line is one of them
\* when its text was kept.
LEMMA CompleteOnes ==
    ASSUME NEW w, w.off \in Nat, w.read \in Nat, NEW k \in 1..MaxLines
    PROVE  /\ k \in Complete(w) => 2 * k > w.off /\ 2 * k <= w.off + w.read
           /\ w.held = w.off % 2 => (k \in Complete(w) <=> 2 * k > w.off /\ 2 * k <= w.off + w.read)
<1>1. k \in Complete(w) <=> 2 * k > w.off /\ 2 * k <= w.off + w.read /\ (2 * k - 1 > w.off \/ w.held = 1)
  BY DEF Complete
<1>2. k \in Nat
  OBVIOUS
<1>3. ASSUME 2 * k > w.off, ~(2 * k - 1 > w.off) PROVE w.off % 2 = 1
  BY <1>2, <1>3
<1> QED
  BY <1>1, <1>3

\* Every file's lines may be counted.
LEMMA LinesThereAre ==
    ASSUME Setting, Shape, NEW i \in Inodes, NEW g \in 0..MaxGens, NEW k \in 1..MaxLines
    PROVE  <<i, g, k>> \in Lines /\ counted[<<i, g, k>>] \in Nat /\ gen[i] \in 0..MaxGens /\ gen[i] \in Nat
           /\ cursor[i].off \in Nat /\ len[i] \in Nat /\ k \in Nat
BY BytesAreNumbers DEF Lines, Shape, LogsShape, DbShape

\* The lock is kept for as long as a scan works.
LEMMA AloneStays ==
    ASSUME Setting, ScanShape, Alone, [Next]_vars
    PROVE  Alone'
<1> USE DEF Setting, ScanShape, Alone, Busy
<1>1. ASSUME NEW i \in Inodes, Append(i) PROVE Alone'
  BY <1>1 DEF Append, db, scan, spent
<1>2. ASSUME NEW i \in Inodes, Truncate(i) PROVE Alone'
  BY <1>2 DEF Truncate, scan, spent
<1>3. ASSUME NEW i \in Inodes, Rotate(i) PROVE Alone'
  BY <1>3 DEF Rotate, db, scan, spent
<1>4. ASSUME NEW s \in Scans, SaveSettings(s) PROVE Alone'
  BY <1>4 DEF SaveSettings, logs
<1>5. ASSUME NEW s \in Scans, Start(s) PROVE Alone'
  BY <1>5 DEF Start, logs, db
<1>6. ASSUME NEW s \in Scans, Run(s) PROVE Alone'
  BY <1>6 DEF Run, logs, db, LockFree
<1>7. ASSUME NEW s \in Scans, Stat(s) PROVE Alone'
  BY <1>7 DEF Stat, logs, db
<1>8. ASSUME NEW s \in Scans, ReadCursor(s) PROVE Alone'
  BY <1>8 DEF ReadCursor, logs, db
<1>9. ASSUME NEW s \in Scans, ReadChunk(s) PROVE Alone'
  BY <1>9 DEF ReadChunk, logs, db
<1>10. ASSUME NEW s \in Scans, Persist(s) PROVE Alone'
  BY <1>10 DEF Persist, logs
<1>11. ASSUME NEW s \in Scans, Finish(s) PROVE Alone'
  BY <1>11 DEF Finish, logs, db, End
<1>12. ASSUME NEW s \in Scans, Drop(s) PROVE Alone'
  BY <1>12 DEF Drop, logs, db, End, scan
<1>13. CASE Configure
  BY <1>13 DEF Configure, logs, scan
<1>14. CASE Restart
  BY <1>14 DEF Restart, logs, db
<1>15. CASE UNCHANGED vars
  BY <1>15 DEF vars, logs, db, scan
<1> QED
  BY <1>1, <1>2, <1>3, <1>4, <1>5, <1>6, <1>7, <1>8, <1>9, <1>10, <1>11, <1>12, <1>13,
     <1>14, <1>15 DEF Next

\* Files have the sizes they may have.
LEMMA LogsStay ==
    ASSUME Setting, LogsShape, [Next]_vars
    PROVE  LogsShape'
<1> USE DEF LogsShape
<1>1. ASSUME NEW i \in Inodes, Append(i) PROVE LogsShape'
  <2>1. PICK n \in {1, 2} : len[i] + n \in Bytes /\ len' = [len EXCEPT ![i] = len[i] + n]
    BY <1>1 DEF Append
  <2> QED
    BY <1>1, <2>1 DEF Append
<1>2. ASSUME NEW i \in Inodes, Truncate(i) PROVE LogsShape'
  <2>1. gen[i] + 1 \in 0..MaxGens /\ 0 \in Bytes
    <3>1. gen[i] \in 0..MaxGens /\ gen[i] < MaxGens /\ MaxGens \in Nat
      BY <1>2 DEF Truncate, Setting
    <3> QED
      BY <3>1, BytesAreNumbers
  <2> QED
    BY <1>2, <2>1 DEF Truncate
<1>3. ASSUME NEW i \in Inodes, Rotate(i) PROVE LogsShape'
  BY <1>3 DEF Rotate, db, scan, spent
<1>4. ASSUME NEW s \in Scans, SaveSettings(s) PROVE LogsShape'
  BY <1>4 DEF SaveSettings, logs
<1>5. ASSUME NEW s \in Scans, Start(s) PROVE LogsShape'
  BY <1>5 DEF Start, logs, db
<1>6. ASSUME NEW s \in Scans, Run(s) PROVE LogsShape'
  BY <1>6 DEF Run, logs, db, LockFree
<1>7. ASSUME NEW s \in Scans, Stat(s) PROVE LogsShape'
  BY <1>7 DEF Stat, logs, db
<1>8. ASSUME NEW s \in Scans, ReadCursor(s) PROVE LogsShape'
  BY <1>8 DEF ReadCursor, logs, db
<1>9. ASSUME NEW s \in Scans, ReadChunk(s) PROVE LogsShape'
  BY <1>9 DEF ReadChunk, logs, db
<1>10. ASSUME NEW s \in Scans, Persist(s) PROVE LogsShape'
  BY <1>10 DEF Persist, logs
<1>11. ASSUME NEW s \in Scans, Finish(s) PROVE LogsShape'
  BY <1>11 DEF Finish, logs, db, End
<1>12. ASSUME NEW s \in Scans, Drop(s) PROVE LogsShape'
  BY <1>12 DEF Drop, logs, db, End, scan
<1>13. CASE Configure
  BY <1>13 DEF Configure, logs, scan
<1>14. CASE Restart
  BY <1>14 DEF Restart, logs, db
<1>15. CASE UNCHANGED vars
  BY <1>15 DEF vars, logs, db, scan
<1> QED
  BY <1>1, <1>2, <1>3, <1>4, <1>5, <1>6, <1>7, <1>8, <1>9, <1>10, <1>11, <1>12, <1>13,
     <1>14, <1>15 DEF Next

\* What is persisted has its types.
LEMMA DbStays ==
    ASSUME Setting, Shape, [Next]_vars
    PROVE  DbShape'
<1> USE DEF Shape, LogsShape, DbShape, ScanShape
<1>1. ASSUME NEW i \in Inodes, Append(i) PROVE DbShape'
  BY <1>1 DEF Append, db, scan, spent
<1>2. ASSUME NEW i \in Inodes, Truncate(i) PROVE DbShape'
  BY <1>2 DEF Truncate, scan, spent
<1>3. ASSUME NEW i \in Inodes, Rotate(i) PROVE DbShape'
  BY <1>3 DEF Rotate, db, scan, spent
<1>4. ASSUME NEW s \in Scans, SaveSettings(s) PROVE DbShape'
  <2>1. cursor' \in [Inodes -> [off : Bytes, held : 0..1]]
    BY <1>4, BytesAreNumbers DEF SaveSettings
  <2> QED
    BY <1>4, <2>1 DEF SaveSettings
<1>5. ASSUME NEW s \in Scans, Start(s) PROVE DbShape'
  BY <1>5 DEF Start, logs, db
<1>6. ASSUME NEW s \in Scans, Run(s) PROVE DbShape'
  BY <1>6 DEF Run, logs, db, LockFree
<1>7. ASSUME NEW s \in Scans, Stat(s) PROVE DbShape'
  BY <1>7 DEF Stat, logs, db
<1>8. ASSUME NEW s \in Scans, ReadCursor(s) PROVE DbShape'
  BY <1>8 DEF ReadCursor, logs, db
<1>9. ASSUME NEW s \in Scans, ReadChunk(s) PROVE DbShape'
  BY <1>9 DEF ReadChunk, logs, db
<1>10. ASSUME NEW s \in Scans, Persist(s) PROVE DbShape'
  <2> DEFINE done == work[s].off + work[s].read
  <2>1. done \in Bytes /\ HeldAfter(work[s]) \in 0..1 /\ work[s].file \in Inodes
    BY <1>10, BytesAreNumbers DEF Persist, HeldAfter, Works
  <2>2. cursor' = [cursor EXCEPT ![work[s].file] = [off |-> done, held |-> HeldAfter(work[s])]]
    BY <1>10 DEF Persist
  <2>3. cursor' \in [Inodes -> [off : Bytes, held : 0..1]]
    <3> HIDE DEF done
    <3> QED
      BY <2>1, <2>2
  <2>4. counted' \in [Lines -> Nat]
    BY <1>10 DEF Persist
  <2> QED
    BY <1>10, <2>3, <2>4 DEF Persist
<1>11. ASSUME NEW s \in Scans, Finish(s) PROVE DbShape'
  BY <1>11 DEF Finish, logs, db, End
<1>12. ASSUME NEW s \in Scans, Drop(s) PROVE DbShape'
  BY <1>12 DEF Drop, logs, db, End, scan
<1>13. CASE Configure
  BY <1>13 DEF Configure, logs, scan
<1>14. CASE Restart
  BY <1>14 DEF Restart, logs, db
<1>15. CASE UNCHANGED vars
  BY <1>15 DEF vars, logs, db, scan
<1> QED
  BY <1>1, <1>2, <1>3, <1>4, <1>5, <1>6, <1>7, <1>8, <1>9, <1>10, <1>11, <1>12, <1>13,
     <1>14, <1>15 DEF Next

\* A scan has a file while it works at one.
LEMMA ScansStay ==
    ASSUME Setting, Shape, [Next]_vars
    PROVE  ScanShape'
<1> USE DEF Shape, LogsShape, DbShape, ScanShape, Busy
<1>1. ASSUME NEW i \in Inodes, Append(i) PROVE ScanShape'
  BY <1>1 DEF Append, db, scan, spent
<1>2. ASSUME NEW i \in Inodes, Truncate(i) PROVE ScanShape'
  BY <1>2 DEF Truncate, scan, spent
<1>3. ASSUME NEW i \in Inodes, Rotate(i) PROVE ScanShape'
  BY <1>3 DEF Rotate, db, scan, spent
<1>4. ASSUME NEW s \in Scans, SaveSettings(s) PROVE ScanShape'
  BY <1>4 DEF SaveSettings, logs
<1>5. ASSUME NEW s \in Scans, Start(s) PROVE ScanShape'
  BY <1>5 DEF Start, logs, db
<1>6. ASSUME NEW s \in Scans, Run(s) PROVE ScanShape'
  BY <1>6 DEF Run, logs, db, LockFree
<1>7. ASSUME NEW s \in Scans, Stat(s) PROVE ScanShape'
  <2>1. UNCHANGED lock /\ todo' \in [Scans -> SUBSET Inodes]
    BY <1>7 DEF Stat
  <2> QED
    BY <1>7, <2>1, StatDoes DEF Only
<1>8. ASSUME NEW s \in Scans, ReadCursor(s) PROVE ScanShape'
  <2>1. UNCHANGED lock /\ todo' \in [Scans -> SUBSET Inodes]
    BY <1>8 DEF ReadCursor
  <2> QED
    BY <1>8, <2>1, ReadCursorDoes DEF Only
<1>9. ASSUME NEW s \in Scans, ReadChunk(s) PROVE ScanShape'
  <2>1. UNCHANGED lock /\ todo' \in [Scans -> SUBSET Inodes]
    BY <1>9 DEF ReadChunk
  <2> QED
    BY <1>9, <2>1, ReadChunkDoes DEF Only
<1>10. ASSUME NEW s \in Scans, Persist(s) PROVE ScanShape'
  <2>1. UNCHANGED lock /\ todo' \in [Scans -> SUBSET Inodes]
    BY <1>10 DEF Persist
  <2> QED
    BY <1>10, <2>1, PersistDoes DEF Only
<1>11. ASSUME NEW s \in Scans, Finish(s) PROVE ScanShape'
  BY <1>11, NoWorkIsWork DEF Finish, logs, db, End
<1>12. ASSUME NEW s \in Scans, Drop(s) PROVE ScanShape'
  BY <1>12, NoWorkIsWork DEF Drop, logs, db, End, scan
<1>13. CASE Configure
  BY <1>13 DEF Configure, logs, scan
<1>14. CASE Restart
  BY <1>14, NoWorkIsWork DEF Restart, logs, db
<1>15. CASE UNCHANGED vars
  BY <1>15 DEF vars, logs, db, scan
<1> QED
  BY <1>1, <1>2, <1>3, <1>4, <1>5, <1>6, <1>7, <1>8, <1>9, <1>10, <1>11, <1>12, <1>13,
     <1>14, <1>15 DEF Next

\* All of it together.
Inv == Shape /\ Alone /\ Once /\ Future /\ Behind /\ Ahead /\ Read

\* A line is counted when it was not.
LEMMA OnceStays ==
    ASSUME Setting, Inv, [Next]_vars
    PROVE  Once'
<1> USE DEF Inv, Once, Shape, LogsShape, DbShape, ScanShape
<1>1. ASSUME NEW i \in Inodes, Append(i) PROVE Once'
  BY <1>1 DEF Append, db, scan, spent
<1>2. ASSUME NEW i \in Inodes, Truncate(i) PROVE Once'
  BY <1>2 DEF Truncate, scan, spent
<1>3. ASSUME NEW i \in Inodes, Rotate(i) PROVE Once'
  BY <1>3 DEF Rotate, db, scan, spent
<1>4. ASSUME NEW s \in Scans, SaveSettings(s) PROVE Once'
  BY <1>4 DEF SaveSettings, logs
<1>5. ASSUME NEW s \in Scans, Start(s) PROVE Once'
  BY <1>5 DEF Start, logs, db
<1>6. ASSUME NEW s \in Scans, Run(s) PROVE Once'
  BY <1>6 DEF Run, logs, db, LockFree
<1>7. ASSUME NEW s \in Scans, Stat(s) PROVE Once'
  BY <1>7 DEF Stat, logs, db
<1>8. ASSUME NEW s \in Scans, ReadCursor(s) PROVE Once'
  BY <1>8 DEF ReadCursor, logs, db
<1>9. ASSUME NEW s \in Scans, ReadChunk(s) PROVE Once'
  BY <1>9 DEF ReadChunk, logs, db
<1>10. ASSUME NEW s \in Scans, Persist(s) PROVE Once'
  <2>1. work[s].file \in Inodes /\ work[s].off \in Nat /\ work[s].read \in Nat /\ work[s].gen \in 0..MaxGens
           /\ work[s] \in Works
    BY <1>10, BytesAreNumbers DEF Persist, Works
  <2>2. pc[s] = "persist" /\ UNCHANGED <<len, gen>>
    BY <1>10 DEF Persist, logs
  <2>3. SUFFICES ASSUME NEW i \in Inodes, NEW h \in 0..MaxGens, NEW k \in 1..MaxLines
                 PROVE  counted'[<<i, h, k>>] <= 1
      BY DEF Lines
  <2>4. counted[<<i, h, k>>] \in Nat /\ counted[<<i, h, k>>] <= 1
    BY LinesThereAre
  <2>5. ASSUME i = work[s].file, h = work[s].gen, k \in Complete(work[s]) PROVE counted[<<i, h, k>>] = 0
    <3>1. 2 * k > work[s].off
      BY <2>1, <2>5, CompleteOnes
    <3>2. AheadOf(s, k)
      BY DEF Ahead
    <3>3. k \in Nat /\ counted[<<i, h, k>>] # 1
      BY <2>1, <2>2, <2>5, <3>1, <3>2 DEF AheadOf
    <3> QED
      BY <2>4, <3>3, ZeroOrOne
  <2> QED
    BY <1>10, <2>4, <2>5, PersistCounts
<1>11. ASSUME NEW s \in Scans, Finish(s) PROVE Once'
  BY <1>11 DEF Finish, logs, db, End
<1>12. ASSUME NEW s \in Scans, Drop(s) PROVE Once'
  BY <1>12 DEF Drop, logs, db, End, scan
<1>13. CASE Configure
  BY <1>13 DEF Configure, logs, scan
<1>14. CASE Restart
  BY <1>14 DEF Restart, logs, db
<1>15. CASE UNCHANGED vars
  BY <1>15 DEF vars, logs, db, scan
<1> QED
  BY <1>1, <1>2, <1>3, <1>4, <1>5, <1>6, <1>7, <1>8, <1>9, <1>10, <1>11, <1>12, <1>13,
     <1>14, <1>15 DEF Next

\* Nothing is counted of what is not written yet.
LEMMA FutureStays ==
    ASSUME Setting, Inv, [Next]_vars
    PROVE  Future'
<1> USE DEF Inv, Future, Shape, LogsShape, DbShape, ScanShape
<1>1. ASSUME NEW i \in Inodes, Append(i) PROVE Future'
  BY <1>1 DEF Append, db, scan, spent
<1>2. ASSUME NEW i \in Inodes, Truncate(i) PROVE Future'
  <2>1. \A j \in Inodes : gen[j] \in Nat /\ gen'[j] \in Nat /\ gen'[j] >= gen[j]
    BY <1>2 DEF Truncate, Setting
  <2> QED
    BY <1>2, <2>1 DEF Truncate
<1>3. ASSUME NEW i \in Inodes, Rotate(i) PROVE Future'
  BY <1>3 DEF Rotate, db, scan, spent
<1>4. ASSUME NEW s \in Scans, SaveSettings(s) PROVE Future'
  BY <1>4 DEF SaveSettings, logs
<1>5. ASSUME NEW s \in Scans, Start(s) PROVE Future'
  BY <1>5 DEF Start, logs, db
<1>6. ASSUME NEW s \in Scans, Run(s) PROVE Future'
  BY <1>6 DEF Run, logs, db, LockFree
<1>7. ASSUME NEW s \in Scans, Stat(s) PROVE Future'
  BY <1>7 DEF Stat, logs, db
<1>8. ASSUME NEW s \in Scans, ReadCursor(s) PROVE Future'
  BY <1>8 DEF ReadCursor, logs, db
<1>9. ASSUME NEW s \in Scans, ReadChunk(s) PROVE Future'
  BY <1>9 DEF ReadChunk, logs, db
<1>10. ASSUME NEW s \in Scans, Persist(s) PROVE Future'
  <2>1. work[s].file \in Inodes /\ work[s].off \in Nat /\ work[s].read \in Nat /\ work[s].gen \in 0..MaxGens
           /\ work[s] \in Works
    BY <1>10, BytesAreNumbers DEF Persist, Works
  <2>2. pc[s] = "persist" /\ UNCHANGED <<len, gen>>
    BY <1>10 DEF Persist, logs
  <2>3. ASSUME NEW i \in Inodes, NEW h \in 0..MaxGens, NEW k \in 1..MaxLines, h > gen'[i]
        PROVE  counted'[<<i, h, k>>] = 0
    <3>1. ASSUME i = work[s].file PROVE h # work[s].gen
      BY <2>1, <2>2, <2>3, <3>1, LinesThereAre DEF Read, ReadOf
    <3> QED
      BY <1>10, <2>2, <2>3, <3>1, PersistCounts
  <2> QED
    BY <2>3
<1>11. ASSUME NEW s \in Scans, Finish(s) PROVE Future'
  BY <1>11 DEF Finish, logs, db, End
<1>12. ASSUME NEW s \in Scans, Drop(s) PROVE Future'
  BY <1>12 DEF Drop, logs, db, End, scan
<1>13. CASE Configure
  BY <1>13 DEF Configure, logs, scan
<1>14. CASE Restart
  BY <1>14 DEF Restart, logs, db
<1>15. CASE UNCHANGED vars
  BY <1>15 DEF vars, logs, db, scan
<1> QED
  BY <1>1, <1>2, <1>3, <1>4, <1>5, <1>6, <1>7, <1>8, <1>9, <1>10, <1>11, <1>12, <1>13,
     <1>14, <1>15 DEF Next

\* What is counted stays behind the cursor.
LEMMA BehindStays ==
    ASSUME Setting, Inv, [Next]_vars
    PROVE  Behind'
<1> USE DEF Inv, Shape, LogsShape, DbShape, ScanShape, Behind, Counted
<1>1. ASSUME NEW i \in Inodes, Append(i) PROVE Behind'
  <2>1. \A j \in Inodes : len[j] \in Nat /\ len'[j] \in Nat /\ len'[j] >= len[j]
    BY <1>1, BytesAreNumbers DEF Append
  <2>2. UNCHANGED <<gen, counted, cursor>>
    BY <1>1 DEF Append, db
  <2> QED
    BY <2>1, <2>2, LinesThereAre
<1>2. ASSUME NEW i \in Inodes, Truncate(i) PROVE Behind'
  <2>1. UNCHANGED <<counted, cursor>> /\ \A j \in Inodes \ {i} : gen'[j] = gen[j] /\ len'[j] = len[j]
    BY <1>2 DEF Truncate
  <2>2. gen'[i] \in 0..MaxGens /\ gen'[i] > gen[i]
    <3>1. gen[i] \in 0..MaxGens /\ gen[i] < MaxGens /\ MaxGens \in Nat /\ gen'[i] = gen[i] + 1
      BY <1>2 DEF Truncate, Setting
    <3> QED
      BY <3>1
  <2>3. \A k \in 1..MaxLines : counted'[<<i, gen'[i], k>>] = 0
    BY <2>1, <2>2 DEF Future
  <2> QED
    BY <2>1, <2>3
<1>3. ASSUME NEW i \in Inodes, Rotate(i) PROVE Behind'
  BY <1>3 DEF Rotate, db, scan, spent
<1>4. ASSUME NEW s \in Scans, SaveSettings(s) PROVE Behind'
  <2>1. UNCHANGED <<len, gen, counted>> /\ \A j \in Inodes : cursor'[j].off \in {cursor[j].off, len[j]}
    BY <1>4 DEF SaveSettings, logs
  <2>2. ASSUME NEW j \in Inodes, NEW k \in 1..MaxLines, counted[<<j, gen[j], k>>] = 1
        PROVE  2 * k <= cursor'[j].off /\ cursor'[j].off <= len[j]
    <3>1. 2 * k <= cursor[j].off /\ cursor[j].off <= len[j]
      BY <2>2
    <3>2. cursor'[j].off = cursor[j].off \/ cursor'[j].off = len[j]
      BY <2>1
    <3>3. k \in Nat /\ cursor[j].off \in Nat /\ len[j] \in Nat
      BY BytesAreNumbers
    <3> QED
      BY <3>1, <3>2, <3>3
  <2> QED
    BY <2>1, <2>2
<1>5. ASSUME NEW s \in Scans, Start(s) PROVE Behind'
  BY <1>5 DEF Start, logs, db
<1>6. ASSUME NEW s \in Scans, Run(s) PROVE Behind'
  BY <1>6 DEF Run, logs, db, LockFree
<1>7. ASSUME NEW s \in Scans, Stat(s) PROVE Behind'
  BY <1>7 DEF Stat, logs, db
<1>8. ASSUME NEW s \in Scans, ReadCursor(s) PROVE Behind'
  BY <1>8 DEF ReadCursor, logs, db
<1>9. ASSUME NEW s \in Scans, ReadChunk(s) PROVE Behind'
  BY <1>9 DEF ReadChunk, logs, db
<1>10. ASSUME NEW s \in Scans, Persist(s) PROVE Behind'
  <2>1. work[s].file \in Inodes /\ work[s].off \in Nat /\ work[s].read \in Nat /\ work[s].gen \in 0..MaxGens
           /\ work[s] \in Works
    BY <1>10, BytesAreNumbers DEF Persist, Works
  <2>2. pc[s] = "persist" /\ UNCHANGED <<len, gen>>
    BY <1>10 DEF Persist, logs
  <2>3. SUFFICES ASSUME NEW i \in Inodes, NEW k \in 1..MaxLines, counted'[<<i, gen[i], k>>] = 1
                 PROVE  2 * k <= cursor'[i].off /\ cursor'[i].off <= len[i]
    BY <2>2
  <2>4. gen[i] \in 0..MaxGens /\ k \in Nat /\ len[i] \in Nat
    BY LinesThereAre
  <2>5. i # work[s].file => cursor'[i] = cursor[i]
    BY <1>10, PersistDoes
  <2>6. CASE i # work[s].file
    BY <1>10, <2>3, <2>4, <2>5, <2>6, PersistCounts
  <2>7. CASE i = work[s].file /\ work[s].gen = gen[i]
    <3>1. cursor'[i] = [off |-> work[s].off + work[s].read, held |-> HeldAfter(work[s])]
      BY <1>10, <2>1, <2>7, PersistDoes
    <3>2. 2 * k <= work[s].off + work[s].read
      <4>1. CASE k \in Complete(work[s])
        BY <4>1, <2>1, CompleteOnes
      <4>2. CASE k \notin Complete(work[s])
        <5>1. counted[<<i, gen[i], k>>] = 1 /\ AheadOf(s, k)
          BY <1>10, <2>3, <2>4, <2>7, <4>2, PersistCounts DEF Ahead
        <5> QED
          BY <2>1, <2>2, <2>4, <2>7, <5>1 DEF AheadOf
      <4> QED
        BY <4>1, <4>2
    <3> QED
      BY <2>2, <2>7, <3>1, <3>2 DEF Read, ReadOf
  <2>8. CASE i = work[s].file /\ work[s].gen # gen[i]
    <3>1. counted[<<i, gen[i], k>>] = 1
      BY <1>10, <2>3, <2>4, <2>8, PersistCounts
    <3> QED
      BY <2>1, <2>2, <2>8, <3>1 DEF Read, ReadOf
  <2> QED
    BY <2>6, <2>7, <2>8
<1>11. ASSUME NEW s \in Scans, Finish(s) PROVE Behind'
  BY <1>11 DEF Finish, logs, db, End
<1>12. ASSUME NEW s \in Scans, Drop(s) PROVE Behind'
  BY <1>12 DEF Drop, logs, db, End, scan
<1>13. CASE Configure
  BY <1>13 DEF Configure, logs, scan
<1>14. CASE Restart
  BY <1>14 DEF Restart, logs, db
<1>15. CASE UNCHANGED vars
  BY <1>15 DEF vars, logs, db, scan
<1> QED
  BY <1>1, <1>2, <1>3, <1>4, <1>5, <1>6, <1>7, <1>8, <1>9, <1>10, <1>11, <1>12, <1>13,
     <1>14, <1>15 DEF Next

\* A scan goes on behind what was counted, whatever comes between its steps.
LEMMA AheadStays ==
    ASSUME Setting, Inv, [Next]_vars
    PROVE  Ahead' /\ Read'
<1> USE DEF Inv, Shape, LogsShape, DbShape, ScanShape, Counted, Alone
<1>1. ASSUME NEW i \in Inodes, Append(i) PROVE Ahead' /\ Read'
  <2>1. \A j \in Inodes : len[j] \in Nat /\ len'[j] \in Nat /\ len'[j] >= len[j]
    BY <1>1, BytesAreNumbers DEF Append
  <2>2. UNCHANGED <<gen, counted, cursor, pc, work>>
    BY <1>1 DEF Append, db, scan
  <2>3. ASSUME NEW t \in Scans PROVE ReadOf(t)'
    <3> SUFFICES ASSUME pc[t] = "persist" PROVE ReadOf(t)'
      BY <2>2 DEF ReadOf
    <3>1. work[t].file \in Inodes /\ work[t].off + work[t].read \in Nat /\ ReadOf(t)
      BY BytesAreNumbers DEF Read
    <3>2. len[work[t].file] \in Nat /\ len'[work[t].file] \in Nat /\ len'[work[t].file] >= len[work[t].file]
      BY <2>1, <3>1
    <3>3. work[t].gen = gen[work[t].file] => work[t].off + work[t].read <= len'[work[t].file]
      BY <3>1, <3>2 DEF ReadOf
    <3> QED
      BY <2>2, <3>1, <3>3 DEF ReadOf
  <2>4. ASSUME NEW t \in Scans, NEW k \in 1..MaxLines PROVE AheadOf(t, k)'
    BY <2>2 DEF Ahead, AheadOf
  <2> QED
    BY <2>3, <2>4 DEF Ahead, Read
<1>2. ASSUME NEW i \in Inodes, Truncate(i) PROVE Ahead' /\ Read'
  <2>1. UNCHANGED <<counted, cursor, pc, work>> /\ \A j \in Inodes \ {i} : gen'[j] = gen[j] /\ len'[j] = len[j]
    BY <1>2 DEF Truncate, scan
  <2>2. gen[i] \in 0..MaxGens /\ gen'[i] \in 0..MaxGens /\ gen'[i] > gen[i]
    <3>1. gen[i] \in 0..MaxGens /\ gen[i] < MaxGens /\ MaxGens \in Nat /\ gen'[i] = gen[i] + 1
      BY <1>2 DEF Truncate, Setting
    <3> QED
      BY <3>1
  <2>3. \A k \in 1..MaxLines : counted'[<<i, gen'[i], k>>] = 0
    BY <2>1, <2>2 DEF Future
  <2>4. ASSUME NEW t \in Scans PROVE ReadOf(t)'
    <3>1. pc[t] = "persist" => work[t].file \in Inodes /\ work[t].gen \in 0..MaxGens
      BY DEF Works
    <3>2. CASE work[t].file = i
      BY <2>1, <2>2, <2>3, <3>1, <3>2 DEF Read, ReadOf
    <3>3. CASE work[t].file # i
      BY <2>1, <3>1, <3>3 DEF Read, ReadOf
    <3> QED
      BY <3>2, <3>3
  <2>5. ASSUME NEW t \in Scans, NEW k \in 1..MaxLines PROVE AheadOf(t, k)'
    <3>1. CASE work[t].file = i
      <4>1. AheadOf(t, k) /\ ~Counted(i, k)'
        BY <2>1, <2>3 DEF Ahead
      <4> QED
        BY <2>1, <3>1, <4>1 DEF AheadOf
    <3>2. CASE work[t].file # i
      BY <2>1, <3>2 DEF Ahead, AheadOf
    <3> QED
      BY <3>1, <3>2
  <2> QED
    BY <2>4, <2>5 DEF Ahead, Read
<1>3. ASSUME NEW i \in Inodes, Rotate(i) PROVE Ahead' /\ Read'
  <2>1. UNCHANGED <<len, gen, counted, cursor>>
    BY <1>3 DEF Rotate, db, scan
  <2>2. \A t \in Scans : pc'[t] \in {"stat", "read", "persist"} => pc'[t] = pc[t] /\ work'[t] = work[t]
    BY <1>3 DEF Rotate, db, scan
  <2> QED
    BY <2>1, <2>2 DEF Ahead, Read, AheadOf, ReadOf
<1>4. ASSUME NEW s \in Scans, SaveSettings(s) PROVE Ahead' /\ Read'
  <2>1. \A t \in Scans : pc'[t] \notin Busy
    BY <1>4 DEF SaveSettings, Setting, Busy
  <2> QED
    BY <2>1 DEF Ahead, Read, AheadOf, ReadOf, Busy
<1>5. ASSUME NEW s \in Scans, Start(s) PROVE Ahead' /\ Read'
  <2>1. UNCHANGED <<len, gen, counted, cursor>>
    BY <1>5 DEF Start, logs, db
  <2>2. \A t \in Scans : pc'[t] \in {"stat", "read", "persist"} => pc'[t] = pc[t] /\ work'[t] = work[t]
    BY <1>5 DEF Start, logs, db
  <2> QED
    BY <2>1, <2>2 DEF Ahead, Read, AheadOf, ReadOf
<1>6. ASSUME NEW s \in Scans, Run(s) PROVE Ahead' /\ Read'
  <2>1. UNCHANGED <<len, gen, counted, cursor>>
    BY <1>6 DEF Run, logs, db
  <2>2. \A t \in Scans : pc'[t] \in {"stat", "read", "persist"} => pc'[t] = pc[t] /\ work'[t] = work[t]
    BY <1>6 DEF Run, logs, db
  <2> QED
    BY <2>1, <2>2 DEF Ahead, Read, AheadOf, ReadOf
<1>7. ASSUME NEW s \in Scans, Stat(s) PROVE Ahead' /\ Read'
  <2>1. \A t \in Scans : pc'[t] \in Busy => t = s
    BY <1>7, StatDoes DEF Only, Alone, Busy, Stat
  <2>2. UNCHANGED <<len, gen, counted, cursor>> /\ pc'[s] = "stat"
    BY <1>7, StatDoes DEF Stat, logs, db
  <2>3. ASSUME NEW k \in 1..MaxLines PROVE AheadOf(s, k)'
    BY <1>7, <2>2, StatDoes DEF AheadOf, Behind
  <2>4. ReadOf(s)'
    BY <2>2 DEF ReadOf
  <2> QED
    BY <2>1, <2>3, <2>4 DEF Ahead, Read, AheadOf, ReadOf, Busy
<1>8. ASSUME NEW s \in Scans, ReadCursor(s) PROVE Ahead' /\ Read'
  <2>1. \A t \in Scans : pc'[t] \in Busy => t = s
    BY <1>8, ReadCursorDoes DEF Only, Alone, Busy, ReadCursor
  <2>2. UNCHANGED <<len, gen, counted, cursor>> /\ pc'[s] = "read" /\ pc[s] = "stat"
    BY <1>8, ReadCursorDoes DEF ReadCursor, logs, db
  <2>3. ASSUME NEW k \in 1..MaxLines PROVE AheadOf(s, k)'
    <3>1. AheadOf(s, k) /\ work[s].file \in Inodes /\ work'[s].file = work[s].file
      BY <1>8, ReadCursorDoes DEF Ahead
    <3>2. CASE work[s].size < cursor[work[s].file].off
      <4>1. ~Counted(work[s].file, k)
        BY <2>2, <3>1, <3>2, BytesAreNumbers DEF AheadOf, Works
      <4> QED
        BY <2>2, <3>1, <4>1 DEF AheadOf
    <3>3. CASE ~(work[s].size < cursor[work[s].file].off)
      BY <1>8, <2>2, <3>1, <3>3, ReadCursorDoes DEF AheadOf, Behind
    <3> QED
      BY <3>2, <3>3
  <2>4. ReadOf(s)'
    BY <2>2 DEF ReadOf
  <2> QED
    BY <2>1, <2>3, <2>4 DEF Ahead, Read, AheadOf, ReadOf, Busy
<1>9. ASSUME NEW s \in Scans, ReadChunk(s) PROVE Ahead' /\ Read'
  <2>1. \A t \in Scans : pc'[t] \in Busy => t = s
    BY <1>9, ReadChunkDoes DEF Only, Alone, Busy, ReadChunk
  <2>2. UNCHANGED <<len, gen, counted, cursor>> /\ pc[s] = "read"
    BY <1>9 DEF ReadChunk, logs, db
  <2>3. ASSUME NEW k \in 1..MaxLines PROVE AheadOf(s, k)'
    <3>1. AheadOf(s, k)
      BY DEF Ahead
    <3> QED
      BY <1>9, <2>2, <3>1, ReadChunkDoes DEF AheadOf
  <2>4. ReadOf(s)'
    BY <1>9, <2>2, ReadChunkDoes, LinesThereAre DEF ReadOf
  <2> QED
    BY <2>1, <2>3, <2>4 DEF Ahead, Read, AheadOf, ReadOf, Busy
<1>10. ASSUME NEW s \in Scans, Persist(s) PROVE Ahead' /\ Read'
  <2>1. \A t \in Scans : pc'[t] \in Busy => t = s
    BY <1>10, PersistDoes DEF Only, Alone, Busy, Persist
  <2>2. pc'[s] = "read" /\ UNCHANGED <<len, gen>>
    BY <1>10, PersistDoes DEF logs, Persist
  <2>3. ASSUME NEW k \in 1..MaxLines PROVE AheadOf(s, k)'
    <3>1. Behind'
      BY BehindStays
    <3>2. work'[s].file = work[s].file /\ work[s].file \in Inodes /\ work'[s].off = work[s].off + work[s].read
      BY <1>10, PersistDoes
    <3>3. cursor'[work[s].file] = [off |-> work[s].off + work[s].read, held |-> HeldAfter(work[s])]
      BY <1>10, <3>2, PersistDoes
    <3> QED
      BY <2>2, <3>1, <3>2, <3>3 DEF AheadOf, Behind
  <2>4. ReadOf(s)'
    BY <2>2 DEF ReadOf
  <2> QED
    BY <2>1, <2>3, <2>4 DEF Ahead, Read, AheadOf, ReadOf, Busy
<1>11. ASSUME NEW s \in Scans, Finish(s) PROVE Ahead' /\ Read'
  <2>1. UNCHANGED <<len, gen, counted, cursor>>
    BY <1>11 DEF Finish, End, logs, db
  <2>2. \A t \in Scans : pc'[t] \in {"stat", "read", "persist"} => pc'[t] = pc[t] /\ work'[t] = work[t]
    BY <1>11 DEF Finish, End, logs, db
  <2> QED
    BY <2>1, <2>2 DEF Ahead, Read, AheadOf, ReadOf
<1>12. ASSUME NEW s \in Scans, Drop(s) PROVE Ahead' /\ Read'
  <2>1. UNCHANGED <<len, gen, counted, cursor>>
    BY <1>12 DEF Drop, End, logs, db, scan, Setting
  <2>2. \A t \in Scans : pc'[t] \in {"stat", "read", "persist"} => pc'[t] = pc[t] /\ work'[t] = work[t]
    BY <1>12 DEF Drop, End, logs, db, scan, Setting
  <2> QED
    BY <2>1, <2>2 DEF Ahead, Read, AheadOf, ReadOf
<1>13. CASE Configure
  <2>1. UNCHANGED <<len, gen, counted, cursor>>
    BY <1>13 DEF Configure, logs, scan
  <2>2. \A t \in Scans : pc'[t] \in {"stat", "read", "persist"} => pc'[t] = pc[t] /\ work'[t] = work[t]
    BY <1>13 DEF Configure, logs, scan
  <2> QED
    BY <2>1, <2>2 DEF Ahead, Read, AheadOf, ReadOf
<1>14. CASE Restart
  <2>1. UNCHANGED <<len, gen, counted, cursor>>
    BY <1>14 DEF Restart, logs, db
  <2>2. \A t \in Scans : pc'[t] \in {"stat", "read", "persist"} => pc'[t] = pc[t] /\ work'[t] = work[t]
    BY <1>14 DEF Restart, logs, db
  <2> QED
    BY <2>1, <2>2 DEF Ahead, Read, AheadOf, ReadOf
<1>15. CASE UNCHANGED vars
  BY <1>15 DEF vars, logs, db, scan, Ahead, Read, AheadOf, ReadOf
<1> QED
  BY <1>1, <1>2, <1>3, <1>4, <1>5, <1>6, <1>7, <1>8, <1>9, <1>10, <1>11, <1>12, <1>13,
     <1>14, <1>15 DEF Next

\* A file that is left alone is counted line by line.
LEMMA KeptStays ==
    ASSUME Setting, Inv, Kept, At, [Next]_vars
    PROVE  Kept'
<1> USE DEF Shape, LogsShape, DbShape, ScanShape, Inv, Counted
<1>1. ASSUME NEW i \in Inodes, Append(i) PROVE Kept'
  <2>1. UNCHANGED <<gen, counted, cursor, skipped>>
           /\ \A j \in Inodes : len[j] \in Nat /\ len'[j] \in Nat /\ len'[j] >= len[j]
    BY <1>1, BytesAreNumbers DEF Append, db
  <2>2. ASSUME NEW j \in Inodes \ skipped PROVE cursor[j].off <= len'[j]
    <3>1. cursor[j].off \in Nat /\ cursor[j].off <= len[j]
      BY BytesAreNumbers DEF Kept
    <3> QED
      BY <2>1, <3>1
  <2> QED
    BY <2>1, <2>2 DEF Kept
<1>2. ASSUME NEW i \in Inodes, Truncate(i) PROVE Kept'
  <2>1. UNCHANGED <<counted, cursor>> /\ \A j \in Inodes \ {i} : gen'[j] = gen[j] /\ len'[j] = len[j]
    BY <1>2 DEF Truncate
  <2>2. skipped' = skipped \cup {i}
    BY <1>2 DEF Truncate
  <2> QED
    BY <2>1, <2>2 DEF Kept
<1>3. ASSUME NEW i \in Inodes, Rotate(i) PROVE Kept'
  <2>1. UNCHANGED <<len, gen, counted, cursor, skipped>>
    BY <1>3 DEF Rotate, db, scan, spent
  <2> QED
    BY <2>1 DEF Kept
<1>4. ASSUME NEW s \in Scans, SaveSettings(s) PROVE Kept'
  <2>1. UNCHANGED <<len, gen, counted>> /\ skipped \subseteq skipped'
    BY <1>4 DEF SaveSettings, logs
  <2>2. \A j \in Inodes \ skipped' : cursor'[j] = cursor[j]
    BY <1>4 DEF SaveSettings
  <2> QED
    BY <2>1, <2>2 DEF Kept
<1>5. ASSUME NEW s \in Scans, Start(s) PROVE Kept'
  <2>1. UNCHANGED <<len, gen, counted, cursor, skipped>>
    BY <1>5 DEF Start, logs, db
  <2> QED
    BY <2>1 DEF Kept
<1>6. ASSUME NEW s \in Scans, Run(s) PROVE Kept'
  <2>1. UNCHANGED <<len, gen, counted, cursor, skipped>>
    BY <1>6 DEF Run, logs, db, LockFree
  <2> QED
    BY <2>1 DEF Kept
<1>7. ASSUME NEW s \in Scans, Stat(s) PROVE Kept'
  <2>1. UNCHANGED <<len, gen, counted, cursor, skipped>>
    BY <1>7 DEF Stat, logs, db
  <2> QED
    BY <2>1 DEF Kept
<1>8. ASSUME NEW s \in Scans, ReadCursor(s) PROVE Kept'
  <2>1. UNCHANGED <<len, gen, counted, cursor, skipped>>
    BY <1>8 DEF ReadCursor, logs, db
  <2> QED
    BY <2>1 DEF Kept
<1>9. ASSUME NEW s \in Scans, ReadChunk(s) PROVE Kept'
  <2>1. UNCHANGED <<len, gen, counted, cursor, skipped>>
    BY <1>9 DEF ReadChunk, logs, db
  <2> QED
    BY <2>1 DEF Kept
<1>10. ASSUME NEW s \in Scans, Persist(s) PROVE Kept'
  <2>1. work[s].file \in Inodes /\ work[s].off \in Nat /\ work[s].read \in Nat /\ work[s].gen \in 0..MaxGens
           /\ work[s] \in Works
    BY <1>10, BytesAreNumbers DEF Persist, Works
  <2>2. pc[s] = "persist" /\ UNCHANGED <<len, gen>>
    BY <1>10 DEF Persist, logs
  <2>3. UNCHANGED skipped
    BY <1>10 DEF Persist
  <2>4. ASSUME NEW j \in Inodes \ skipped, j # work[s].file PROVE cursor'[j] = cursor[j]
    BY <1>10, <2>1, <2>4, PersistDoes
  <2>5. ASSUME NEW j \in Inodes \ skipped, j # work[s].file, NEW k \in 1..MaxLines
        PROVE  counted'[<<j, gen[j], k>>] = counted[<<j, gen[j], k>>]
    BY <1>10, <2>5, LinesThereAre, PersistCounts
  <2> DEFINE f == work[s].file
  <2>6. ASSUME f \notin skipped
        PROVE  /\ cursor'[f].off <= len[f] /\ cursor'[f].held = cursor'[f].off % 2
               /\ \A k \in 1..MaxLines : counted'[<<f, gen[f], k>>] = 1 <=> 2 * k <= cursor'[f].off
    <3>1. /\ work[s].off = cursor[f].off /\ work[s].held = cursor[f].held /\ work[s].gen = gen[f]
          /\ cursor[f].held = cursor[f].off % 2
      BY <2>1, <2>2, <2>6 DEF At, AtOf, Kept
    <3>2. /\ cursor' = [cursor EXCEPT ![f] = [off |-> work[s].off + work[s].read, held |-> HeldAfter(work[s])]]
          /\ HeldAfter(work[s]) = (work[s].off + work[s].read) % 2
      BY <1>10, PersistDoes DEF HeldAfter
    <3>3. cursor'[f].off = work[s].off + work[s].read /\ cursor'[f].held = (work[s].off + work[s].read) % 2
      BY <2>1, <3>2
    <3>4. work[s].off + work[s].read <= len[f]
      BY <2>2, <3>1 DEF Read, ReadOf
    <3>5. ASSUME NEW k \in 1..MaxLines
          PROVE  counted'[<<f, gen[f], k>>] = 1 <=> 2 * k <= work[s].off + work[s].read
      <4>1. counted[<<f, gen[f], k>>] \in Nat /\ gen[f] \in 0..MaxGens /\ k \in Nat
        BY <2>1, LinesThereAre
      <4>2. counted[<<f, gen[f], k>>] <= 1
        BY <2>1, LinesThereAre DEF Once
      <4>3. counted[<<f, gen[f], k>>] = 1 <=> 2 * k <= work[s].off
        BY <2>1, <2>6, <3>1 DEF Kept
      <4>4. k \in Complete(work[s]) <=> 2 * k > work[s].off /\ 2 * k <= work[s].off + work[s].read
        BY <2>1, <3>1, CompleteOnes
      <4>5. counted'[<<f, gen[f], k>>] = IF k \in Complete(work[s]) THEN counted[<<f, gen[f], k>>] + 1
                                         ELSE counted[<<f, gen[f], k>>]
        BY <1>10, <2>1, <3>1, <4>1, PersistCounts
      <4>6. CASE k \in Complete(work[s])
        <5>1. counted[<<f, gen[f], k>>] # 1
          BY <2>1, <4>1, <4>3, <4>4, <4>6
        <5>2. counted[<<f, gen[f], k>>] = 0
          BY <4>1, <4>2, <5>1, ZeroOrOne
        <5> QED
          BY <4>4, <4>5, <4>6, <5>2
      <4>7. CASE k \notin Complete(work[s])
        BY <2>1, <4>1, <4>3, <4>4, <4>5, <4>7
      <4> QED
        BY <4>6, <4>7
    <3> QED
      BY <3>3, <3>4, <3>5
  <2> QED
    BY <2>2, <2>3, <2>4, <2>5, <2>6 DEF Kept
<1>11. ASSUME NEW s \in Scans, Finish(s) PROVE Kept'
  <2>1. UNCHANGED <<len, gen, counted, cursor, skipped>>
    BY <1>11 DEF Finish, logs, db, End
  <2> QED
    BY <2>1 DEF Kept
<1>12. ASSUME NEW s \in Scans, Drop(s) PROVE Kept'
  <2>1. UNCHANGED <<len, gen, counted, cursor, skipped>>
    BY <1>12 DEF Drop, logs, db, End, scan
  <2> QED
    BY <2>1 DEF Kept
<1>13. CASE Configure
  <2>1. UNCHANGED <<len, gen, counted, cursor, skipped>>
    BY <1>13 DEF Configure, logs, scan
  <2> QED
    BY <2>1 DEF Kept
<1>14. CASE Restart
  <2>1. UNCHANGED <<len, gen, counted, cursor, skipped>>
    BY <1>14 DEF Restart, logs, db
  <2> QED
    BY <2>1 DEF Kept
<1>15. CASE UNCHANGED vars
  BY <1>15 DEF vars, logs, db, Kept
<1> QED
  BY <1>1, <1>2, <1>3, <1>4, <1>5, <1>6, <1>7, <1>8, <1>9, <1>10, <1>11, <1>12, <1>13,
     <1>14, <1>15 DEF Next

\* A scan of such a file is where its cursor is.
LEMMA AtStays ==
    ASSUME Setting, Inv, Kept, At, [Next]_vars
    PROVE  At'
<1> USE DEF Inv, Alone, Shape, LogsShape, DbShape, ScanShape
<1>1. ASSUME NEW i \in Inodes, Append(i) PROVE At'
  <2>1. UNCHANGED <<gen, cursor, skipped>>
    BY <1>1 DEF Append, db, scan
  <2>2. \A t \in Scans : pc'[t] \in {"stat", "read", "persist"} => pc'[t] = pc[t] /\ work'[t] = work[t]
    BY <1>1 DEF Append, db, scan
  <2> QED
    BY <2>1, <2>2 DEF At, AtOf
<1>2. ASSUME NEW i \in Inodes, Truncate(i) PROVE At'
  <2>1. UNCHANGED <<counted, cursor, pc, work>> /\ \A j \in Inodes \ {i} : gen'[j] = gen[j]
    BY <1>2 DEF Truncate, scan
  <2>2. skipped' = skipped \cup {i}
    BY <1>2 DEF Truncate
  <2>3. ASSUME NEW t \in Scans PROVE AtOf(t)'
    <3>1. pc[t] = "persist" => work[t].file \in Inodes
      OBVIOUS
    <3> QED
      BY <2>1, <2>2, <3>1 DEF At, AtOf
  <2> QED
    BY <2>3 DEF At
<1>3. ASSUME NEW i \in Inodes, Rotate(i) PROVE At'
  <2>1. UNCHANGED <<gen, cursor, skipped>>
    BY <1>3 DEF Rotate, db, scan
  <2>2. \A t \in Scans : pc'[t] \in {"stat", "read", "persist"} => pc'[t] = pc[t] /\ work'[t] = work[t]
    BY <1>3 DEF Rotate, db, scan
  <2> QED
    BY <2>1, <2>2 DEF At, AtOf
<1>4. ASSUME NEW s \in Scans, SaveSettings(s) PROVE At'
  <2>1. \A t \in Scans : pc'[t] \notin Busy
    BY <1>4 DEF SaveSettings, Setting, Busy
  <2> QED
    BY <2>1 DEF At, AtOf, Busy
<1>5. ASSUME NEW s \in Scans, Start(s) PROVE At'
  <2>1. UNCHANGED <<gen, cursor, skipped>>
    BY <1>5 DEF Start, logs, db
  <2>2. \A t \in Scans : pc'[t] \in {"stat", "read", "persist"} => pc'[t] = pc[t] /\ work'[t] = work[t]
    BY <1>5 DEF Start, logs, db
  <2> QED
    BY <2>1, <2>2 DEF At, AtOf
<1>6. ASSUME NEW s \in Scans, Run(s) PROVE At'
  <2>1. UNCHANGED <<gen, cursor, skipped>>
    BY <1>6 DEF Run, logs, db
  <2>2. \A t \in Scans : pc'[t] \in {"stat", "read", "persist"} => pc'[t] = pc[t] /\ work'[t] = work[t]
    BY <1>6 DEF Run, logs, db
  <2> QED
    BY <2>1, <2>2 DEF At, AtOf
<1>7. ASSUME NEW s \in Scans, Stat(s) PROVE At'
  <2>1. \A t \in Scans : pc'[t] \in Busy => t = s
    BY <1>7, StatDoes DEF Only, Alone, Busy, Stat
  <2>2. UNCHANGED <<len, gen, cursor, skipped>> /\ pc'[s] = "stat"
    BY <1>7, StatDoes DEF Stat, logs, db
  <2>3. AtOf(s)'
    BY <1>7, <2>2, StatDoes DEF AtOf, Kept
  <2> QED
    BY <2>1, <2>3 DEF At, AtOf, Busy
<1>8. ASSUME NEW s \in Scans, ReadCursor(s) PROVE At'
  <2>1. \A t \in Scans : pc'[t] \in Busy => t = s
    BY <1>8, ReadCursorDoes DEF Only, Alone, Busy, ReadCursor
  <2>2. UNCHANGED <<len, gen, cursor, skipped>> /\ pc'[s] = "read" /\ pc[s] = "stat"
    BY <1>8, ReadCursorDoes DEF ReadCursor, logs, db
  <2>3. AtOf(s)'
    <3> SUFFICES ASSUME work[s].file \notin skipped PROVE AtOf(s)'
      BY <1>8, <2>2, ReadCursorDoes DEF AtOf
    <3>1. work[s].size \in Nat /\ cursor[work[s].file].off \in Nat /\ ~(work[s].size < cursor[work[s].file].off)
      BY <1>8, <2>2, ReadCursorDoes, BytesAreNumbers DEF At, AtOf, Works
    <3> QED
      BY <1>8, <2>2, <3>1, ReadCursorDoes DEF AtOf
  <2> QED
    BY <2>1, <2>3 DEF At, AtOf, Busy
<1>9. ASSUME NEW s \in Scans, ReadChunk(s) PROVE At'
  <2>1. \A t \in Scans : pc'[t] \in Busy => t = s
    BY <1>9, ReadChunkDoes DEF Only, Alone, Busy, ReadChunk
  <2>2. UNCHANGED <<len, gen, cursor, skipped>> /\ pc[s] = "read"
    BY <1>9 DEF ReadChunk, logs, db
  <2>3. AtOf(s)'
    BY <1>9, <2>2, ReadChunkDoes DEF At, AtOf
  <2> QED
    BY <2>1, <2>3 DEF At, AtOf, Busy
<1>10. ASSUME NEW s \in Scans, Persist(s) PROVE At'
  <2>1. \A t \in Scans : pc'[t] \in Busy => t = s
    BY <1>10, PersistDoes DEF Only, Alone, Busy, Persist
  <2>2. pc'[s] = "read" /\ UNCHANGED <<len, gen, skipped>>
    BY <1>10, PersistDoes DEF logs, Persist
  <2>3. AtOf(s)'
    <3>1. work'[s].file = work[s].file /\ work[s].file \in Inodes /\ work'[s].off = work[s].off + work[s].read
             /\ work'[s].held = HeldAfter(work[s])
      BY <1>10, PersistDoes
    <3>2. cursor'[work[s].file] = [off |-> work[s].off + work[s].read, held |-> HeldAfter(work[s])]
      BY <1>10, <3>1, PersistDoes
    <3> QED
      BY <2>2, <3>1, <3>2 DEF AtOf
  <2> QED
    BY <2>1, <2>3 DEF At, AtOf, Busy
<1>11. ASSUME NEW s \in Scans, Finish(s) PROVE At'
  <2>1. UNCHANGED <<gen, cursor, skipped>>
    BY <1>11 DEF Finish, End, logs, db
  <2>2. \A t \in Scans : pc'[t] \in {"stat", "read", "persist"} => pc'[t] = pc[t] /\ work'[t] = work[t]
    BY <1>11 DEF Finish, End, logs, db
  <2> QED
    BY <2>1, <2>2 DEF At, AtOf
<1>12. ASSUME NEW s \in Scans, Drop(s) PROVE At'
  <2>1. UNCHANGED <<gen, cursor, skipped>>
    BY <1>12 DEF Drop, End, logs, db, scan, Setting
  <2>2. \A t \in Scans : pc'[t] \in {"stat", "read", "persist"} => pc'[t] = pc[t] /\ work'[t] = work[t]
    BY <1>12 DEF Drop, End, logs, db, scan, Setting
  <2> QED
    BY <2>1, <2>2 DEF At, AtOf
<1>13. CASE Configure
  <2>1. UNCHANGED <<gen, cursor, skipped>>
    BY <1>13 DEF Configure, logs, scan
  <2>2. \A t \in Scans : pc'[t] \in {"stat", "read", "persist"} => pc'[t] = pc[t] /\ work'[t] = work[t]
    BY <1>13 DEF Configure, logs, scan
  <2> QED
    BY <2>1, <2>2 DEF At, AtOf
<1>14. CASE Restart
  <2>1. UNCHANGED <<gen, cursor, skipped>>
    BY <1>14 DEF Restart, logs, db
  <2>2. \A t \in Scans : pc'[t] \in {"stat", "read", "persist"} => pc'[t] = pc[t] /\ work'[t] = work[t]
    BY <1>14 DEF Restart, logs, db
  <2> QED
    BY <2>1, <2>2 DEF At, AtOf
<1>15. CASE UNCHANGED vars
  BY <1>15 DEF vars, logs, db, scan, At, AtOf
<1> QED
  BY <1>1, <1>2, <1>3, <1>4, <1>5, <1>6, <1>7, <1>8, <1>9, <1>10, <1>11, <1>12, <1>13,
     <1>14, <1>15 DEF Next
-----------------------------------------------------------------------------
\* At first there is nothing, and nothing of it is counted.
LEMMA InitInv ==
    ASSUME Setting, Init
    PROVE  Inv /\ Kept /\ At
<1> USE DEF Counted
<1>1. LogsShape /\ DbShape
  BY BytesAreNumbers DEF Init, LogsShape, DbShape
<1>2. ScanShape /\ Alone
  BY NoWorkIsWork DEF Init, ScanShape, Alone, Busy
<1>3. \A i \in Inodes, k \in 1..MaxLines :
           /\ counted[<<i, gen[i], k>>] = 0 /\ gen[i] = 0 /\ len[i] = 0 /\ k \in Nat
           /\ cursor[i] = [off |-> 0, held |-> 0]
  BY BytesAreNumbers DEF Init, Lines
<1>4. Once /\ Future
  BY DEF Init, Once, Future, Lines
<1>5. Behind
  BY <1>3 DEF Behind
<1>6. \A s \in Scans : pc[s] = "idle"
  BY DEF Init
<1>7. Ahead /\ Read /\ At
  BY <1>6 DEF Ahead, AheadOf, Read, ReadOf, At, AtOf
<1>8. Kept
  <2>1. \A i \in Inodes : cursor[i].off = 0 /\ cursor[i].held = 0 /\ len[i] = 0
    BY DEF Init
  <2>2. \A i \in Inodes, k \in 1..MaxLines : ~Counted(i, k) /\ ~(2 * k <= 0)
    BY <1>3
  <2> QED
    BY <2>1, <2>2 DEF Kept
<1> QED
  BY <1>1, <1>2, <1>4, <1>5, <1>7, <1>8 DEF Inv, Shape

\* Every step keeps it.
LEMMA NextInv ==
    ASSUME Setting, Inv, Kept, At, [Next]_vars
    PROVE  (Inv /\ Kept /\ At)'
<1>1. Shape'
  BY LogsStay, DbStays, ScansStay DEF Inv, Shape
<1> QED
  BY <1>1, AloneStays, OnceStays, FutureStays, BehindStays, AheadStays, KeptStays, AtStays DEF Inv, Shape

\* nginx_stats.rs: files, cursors and the work of the scans have their types.
THEOREM TypeCorrect ==
    ASSUME Setting
    PROVE  Spec => []TypeOK
<1>1. Inv => TypeOK
  <2> SUFFICES ASSUME Inv PROVE TypeOK
    OBVIOUS
  <2>1. \A s \in Scans : work[s] \in Works
    BY DEF Inv, Shape, ScanShape
  <2>2. \A s \in Scans : /\ work[s].file \in Inodes \cup {None} /\ work[s].off \in Bytes
                         /\ work[s].held \in 0..1 /\ work[s].read \in 0..Chunk
    BY <2>1 DEF Works
  <2> QED
    BY <2>2 DEF TypeOK, Inv, Shape, LogsShape, DbShape, ScanShape
<1> QED
  BY <1>1, InitInv, NextInv, PTL DEF Spec

\* nginx_stats.rs scan_file, persist_batch: no line is counted twice, and of a
\* file that was neither truncated nor moved to its end exactly the lines
\* before its cursor are counted.
THEOREM LinesAreCountedOnce ==
    ASSUME Setting
    PROVE  Spec => [](CountedOnce /\ CursorTellsCount)
<1>1. Inv => CountedOnce
  BY DEF Inv, Once, CountedOnce
<1>2. Kept => CursorTellsCount
  BY DEF Kept, Counted, CursorTellsCount
<1> QED
  BY <1>1, <1>2, InitInv, NextInv, PTL DEF Spec
=============================================================================
