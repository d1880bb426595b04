-------------------------- MODULE Services_proofs ---------------------------
(***************************************************************************)
(* What the services promise, for any constants.  The theorems about the   *)
(* log scans and the backups are those of their modules.  The argument     *)
(* about the cluster is here: every way a row of the table of nodes comes  *)
(* online, and every change of the password, starts a push that covers the *)
(* row's address; what is left of a push goes on to cover it, until it     *)
(* comes there.                                                            *)
(***************************************************************************)
EXTENDS Services, FiniteSetTheorems, SequenceTheorems, TLAPS

\* A step of the program is one of the log scans, or leaves them as they are.
LEMMA NginxSteps ==
    /\ Init => N!Init
    /\ [Next]_vars => [N!Next]_N!vars
BY DEF Init, Next, vars, nginx, N!vars, N!logs, N!db, N!scan, N!spent

\* Likewise for the backups.
LEMMA BackupSteps ==
    /\ Init => B!Init
    /\ [Next]_vars => [B!Next]_B!vars
BY DEF Init, Next, vars, backup, B!vars, B!clock, B!row, B!backups, B!base, B!task, B!spent

\* And for the nodes.
LEMMA ClusterSteps ==
    /\ Init => C!Init
    /\ [Next]_vars => [C!Next]_C!vars
BY DEF Init, Next, vars, cluster, C!vars, C!master, C!worker, C!spent

\* nginx_stats.rs scan_file, persist_batch: no line is counted twice, and of a
\* file that was neither truncated nor moved to its end exactly the lines
\* before its cursor are counted.
THEOREM LinesAreCountedOnce ==
    ASSUME N!Setting
    PROVE  Spec => []CountedOnce
<1>1. N!Spec => [](N!CountedOnce /\ N!CursorTellsCount)
  BY N!LinesAreCountedOnce
<1> QED
  BY <1>1, NginxSteps, PTL DEF Spec, N!Spec, CountedOnce

\* dbbackup.rs: once the scheduler has begun, a schedule that says "running"
\* has a run at work, restarts included.
THEOREM RunningIsAtWork ==
    ASSUME B!Setting
    PROVE  Spec => []RunningIsReal
<1>1. B!Spec => []B!RunningIsReal
  BY B!RunningIsAtWork
<1> QED
  BY <1>1, BackupSteps, PTL DEF Spec, B!Spec, RunningIsReal

\* dbbackup.rs apply_retention, restore: retention removes scheduled backups
\* only and never the newest, and what a restore truncates or writes over is in
\* a complete safety backup.
THEOREM DataIsKept ==
    ASSUME B!Setting
    PROVE  Spec => DataStaysKept
<1>1. B!Spec => B!DataStaysKept
  BY B!DataIsKept
<1> QED
  BY <1>1, BackupSteps, PTL DEF Spec, B!Spec, DataStaysKept

\* dbbackup.rs scheduler, run_schedule: a day that ended with success is not run
\* again, and a run that ended as failed has a step that failed.
THEOREM RunsTellTheTruth ==
    ASSUME B!Setting, ~CrashInCopy
    PROVE  Spec => RunsAreHonest
<1>1. B!Spec => B!RunsAreHonest
  BY B!RunsTellTheTruth
<1> QED
  BY <1>1, BackupSteps, PTL DEF Spec, B!Spec, RunsAreHonest
-----------------------------------------------------------------------------
\* The instance counts as this module does.
LEMMA SameCount ==
    /\ \A S : C!Cardinality(S) = Cardinality(S) /\ C!IsFiniteSet(S) = IsFiniteSet(S)
    /\ \A f : C!IsInjective(f) = IsInjective(f)
BY DEF C!Cardinality, Cardinality, C!IsInjective, IsInjective, C!IsFiniteSet, IsFiniteSet

Setting ==
    /\ IsFiniteSet(Workers) /\ MaxChanges \in Nat
    /\ Home \in [Workers -> Addrs] /\ IsInjective(Home)
    /\ None \notin Nat \cup Seq(Addrs)

Lists == {q \in Seq(Addrs) : q # <<>>}
Tasks == [hash : 0..MaxChanges \cup {None}, list : Lists \cup {None}]

Shape ==
    /\ changes \in 0..MaxChanges /\ password = changes
    /\ row \in [Workers -> {"none", "online", "offline"}]
    /\ rowAddr \in [Workers -> Addrs]
    /\ task \in [TaskIds -> Tasks]
    /\ theirs \in [Workers -> 0..MaxChanges \cup {None}]
    /\ up \in [Workers -> BOOLEAN] /\ link \in [Workers -> BOOLEAN]
    /\ at \in [Workers -> Addrs] /\ IsInjective(at)
    /\ registered \in [Workers -> BOOLEAN] /\ found \in [Workers -> BOOLEAN]
    /\ fails \in [Workers -> 0..2] /\ missed \subseteq Workers
-----------------------------------------------------------------------------
\* What is left of a list of addresses after its first.
LEMMA RestOfList ==
    ASSUME NEW q \in Lists
    PROVE  /\ Head(q) \in Addrs /\ C!ToSet(q) \subseteq Addrs /\ Len(q) \in Nat
           /\ Len(q) = 1 => C!ToSet(q) = {Head(q)}
           /\ Len(q) # 1 => Tail(q) \in Lists /\ C!ToSet(q) = {Head(q)} \cup C!ToSet(Tail(q))
<1>1. q \in Seq(Addrs) /\ q # <<>> /\ Head(q) = q[1] /\ Len(q) \in Nat \ {0} /\ DOMAIN q = 1..Len(q)
  BY EmptySeq DEF Lists
<1>2. /\ Head(q) \in Addrs /\ Tail(q) \in Seq(Addrs) /\ Len(Tail(q)) = Len(q) - 1
      /\ \A i \in 1..Len(Tail(q)) : Tail(q)[i] = q[i + 1]
  BY <1>1, HeadTailProperties
<1>3. C!ToSet(q) \subseteq Addrs /\ (Len(q) = 1 => C!ToSet(q) = {Head(q)})
  BY <1>1 DEF C!ToSet
<1>4. ASSUME Len(q) # 1
      PROVE  Tail(q) \in Lists /\ C!ToSet(q) = {Head(q)} \cup C!ToSet(Tail(q))
  <2>a. DOMAIN Tail(q) = 1..Len(Tail(q)) /\ Len(Tail(q)) # 0
    BY <1>1, <1>2, <1>4
  <2>1. Tail(q) \in Lists /\ DOMAIN Tail(q) = 1..(Len(q) - 1)
    BY <1>2, <2>a, EmptySeq DEF Lists
  <2>2. \A i \in 1..Len(q) : i = 1 \/ i - 1 \in 1..(Len(q) - 1)
    BY <1>1
  <2>3. \A i \in 1..Len(q) : i # 1 => q[i] = Tail(q)[i - 1]
    BY <1>1, <1>2
  <2>4. \A i \in 1..(Len(q) - 1) : i + 1 \in 1..Len(q) /\ Tail(q)[i] = q[i + 1]
    BY <1>1, <1>2
  <2>5. 1 \in 1..Len(q)
    BY <1>1
  <2>6. C!ToSet(q) \subseteq {Head(q)} \cup C!ToSet(Tail(q))
    <3> SUFFICES ASSUME NEW i \in 1..Len(q) PROVE q[i] \in {Head(q)} \cup C!ToSet(Tail(q))
      BY <1>1 DEF C!ToSet
    <3>1. CASE i = 1
      BY <1>1, <3>1
    <3>2. CASE i # 1
      BY <2>1, <2>2, <2>3, <3>2 DEF C!ToSet
    <3> QED
      BY <3>1, <3>2
  <2>7. {Head(q)} \cup C!ToSet(Tail(q)) \subseteq C!ToSet(q)
    BY <1>1, <2>1, <2>4, <2>5 DEF C!ToSet
  <2> QED
    BY <2>1, <2>6, <2>7
<1> QED
  BY <1>1, <1>2, <1>3, <1>4

\* An order of the addresses of a change: it has all of them.
LEMMA OrderHasAll ==
    ASSUME Setting, Shape, NEW q \in C!SetToSeqs(C!OnlineAddrs)
    PROVE  /\ q = <<>> \/ q \in Lists
           /\ \A w \in Workers : row[w] = "online" => q # <<>> /\ rowAddr[w] \in C!ToSet(q)
<1> DEFINE Online == {w \in Workers : row[w] = "online"}
           column == [w \in Online |-> rowAddr[w]]
<1>1. IsFiniteSet(C!OnlineAddrs) /\ C!OnlineAddrs \subseteq Addrs
  <2>1. IsFiniteSet(Online)
    BY FS_Subset DEF Setting
  <2>2. column \in Surjection(Online, C!OnlineAddrs)
    BY DEF Surjection, C!OnlineAddrs
  <2>3. C!OnlineAddrs \subseteq Addrs
    BY DEF C!OnlineAddrs, Shape
  <2> QED
    BY <2>1, <2>2, <2>3, FS_Surjection
<1> DEFINE D == 1..Cardinality(C!OnlineAddrs)
<1>2. Cardinality(C!OnlineAddrs) \in Nat /\ IsFiniteSet(D) /\ Cardinality(D) = Cardinality(C!OnlineAddrs)
  BY <1>1, FS_CardinalityType, FS_Interval
<1>3. q \in [D -> C!OnlineAddrs] /\ \A i, j \in D : i # j => q[i] # q[j]
  BY SameCount DEF C!SetToSeqs
<1>4. q \in Injection(D, C!OnlineAddrs)
  BY <1>3 DEF Injection, IsInjective
<1>5. q \in Surjection(D, C!OnlineAddrs)
  BY <1>1, <1>2, <1>4, FS_Injection
<1>6. C!ToSet(q) = C!OnlineAddrs
  BY <1>3, <1>5 DEF Surjection, C!ToSet
<1>7. q \in Seq(Addrs)
  BY <1>1, <1>2, <1>3
<1>8. \A w \in Workers : row[w] = "online" => rowAddr[w] \in C!ToSet(q)
  BY <1>6 DEF C!OnlineAddrs
<1>9. q = <<>> => C!ToSet(q) = {}
  BY DEF C!ToSet
<1> QED
  BY <1>7, <1>8, <1>9 DEF Lists

\* At the start every worker is where it is at home.
LEMMA InitShape == Setting /\ C!Init => Shape
BY DEF Setting, C!Init, Shape, Tasks, C!Idle

\* A flag of one worker that changes.
LEMMA Switched ==
    ASSUME NEW f \in [Workers -> BOOLEAN], NEW w \in Workers, NEW b \in BOOLEAN
    PROVE  [f EXCEPT ![w] = b] \in [Workers -> BOOLEAN]
OBVIOUS

\* Every step keeps the types, and no two workers have one address.
LEMMA NextShape ==
    ASSUME Setting, Shape, [C!Next]_C!vars
    PROVE  Shape'
<1> USE DEF Setting, Shape, C!master, C!worker, C!spent
<1>1. CASE C!ChangePassword
  BY <1>1 DEF C!ChangePassword, C!Idle, Tasks
<1>2. CASE C!Abandon
  BY <1>2 DEF C!Abandon, C!Trouble, C!Idle, Tasks
<1>3. ASSUME NEW t \in TaskIds, C!ReadTables(t) PROVE Shape'
  <2>1. \A q \in C!SetToSeqs(C!OnlineAddrs) : q = <<>> \/ q \in Lists
    BY OrderHasAll
  <2>2. task[t] \in Tasks /\ C!Idle \in Tasks
    BY DEF C!Idle, Tasks
  <2>3. CASE task' = [task EXCEPT ![t] = [task[t] EXCEPT !.hash = password]]
    <3>1. task' \in [TaskIds -> Tasks]
      BY <2>2, <2>3 DEF Tasks
    <3> QED
      BY <1>3, <3>1 DEF C!ReadTables
  <2>4. ASSUME NEW q \in C!SetToSeqs(C!OnlineAddrs),
               task' = [task EXCEPT ![t] = IF q = <<>> THEN C!Idle ELSE [task[t] EXCEPT !.list = q]]
        PROVE  Shape'
    <3>a. q # <<>> => [task[t] EXCEPT !.list = q] \in Tasks
      BY <2>1, <2>2, <2>4 DEF Tasks
    <3>1. task' \in [TaskIds -> Tasks]
      BY <2>2, <2>4, <3>a
    <3> QED
      BY <1>3, <3>1 DEF C!ReadTables
  <2>5. \/ task' = [task EXCEPT ![t] = [task[t] EXCEPT !.hash = password]]
        \/ \E q \in C!SetToSeqs(C!OnlineAddrs) :
             task' = [task EXCEPT ![t] = IF q = <<>> THEN C!Idle ELSE [task[t] EXCEPT !.list = q]]
    BY <1>3 DEF C!ReadTables
  <2> QED
    BY <2>3, <2>4, <2>5
<1>4. ASSUME NEW t \in TaskIds, C!Push(t) PROVE Shape'
  <2>1. task[t] \in Tasks /\ task[t].list \in Lists /\ task[t].hash \in 0..MaxChanges
    BY <1>4 DEF C!Push, Tasks
  <2>2. task' \in [TaskIds -> Tasks]
    BY <1>4, <2>1, RestOfList DEF C!Push, C!Rest, C!Idle, Tasks
  <2>3. theirs' \in [Workers -> 0..MaxChanges \cup {None}]
    BY <1>4, <2>1 DEF C!Push, C!AuthSync
  <2>4. missed' \subseteq Workers
    BY <1>4 DEF C!Push, C!Reached, C!Known
  <2>5. UNCHANGED <<password, row, rowAddr, up, link, at, registered, fails, found, changes>>
    BY <1>4 DEF C!Push
  <2> QED
    BY <2>2, <2>3, <2>4, <2>5
<1>5. ASSUME NEW w \in Workers, C!Tick(w) PROVE Shape'
  <2>1. UNCHANGED <<password, missed, theirs, up, link, at, changes>>
    BY <1>5 DEF C!Tick
  <2>a. found' \in [Workers -> BOOLEAN] /\ fails' \in [Workers -> 0..2]
    BY <1>5 DEF C!Tick
  <2>b. \E b \in BOOLEAN : registered' = [registered EXCEPT ![w] = b]
    BY <1>5 DEF C!Tick, C!StaysRegistered
  <2>2. registered' \in [Workers -> BOOLEAN]
    BY <2>b, Switched
  <2>3. row' \in [Workers -> {"none", "online", "offline"}] /\ rowAddr' \in [Workers -> Addrs]
    BY <1>5 DEF C!Tick, C!Register, C!Heartbeat
  <2>4. ASSUME NEW a \in Addrs, C!Spawn(a) PROVE task' \in [TaskIds -> Tasks]
    <3>1. <<a>> \in Lists
      BY DEF Lists
    <3> QED
      BY <2>4, <3>1 DEF C!Spawn, Tasks
  <2>5. UNCHANGED task \/ \E a \in Addrs : C!Spawn(a)
    BY <1>5 DEF C!Tick, C!Register, C!Heartbeat
  <2> QED
    BY <2>a, <2>1, <2>2, <2>3, <2>4, <2>5
<1>6. ASSUME NEW w \in Workers, C!TickFails(w) PROVE Shape'
  BY <1>6 DEF C!TickFails, C!FailsAfter
<1>7. ASSUME NEW w \in Workers, C!Lapse(w) PROVE Shape'
  BY <1>7 DEF C!Lapse
<1>8. ASSUME NEW w \in Workers, C!Cut(w) PROVE Shape'
  <2>a. found' = found \/ \E b \in BOOLEAN : found' = [found EXCEPT ![w] = b]
    BY <1>8 DEF C!Cut
  <2>b. found' \in [Workers -> BOOLEAN]
    BY <2>a, Switched
  <2>1. up' \in [Workers -> BOOLEAN] /\ link' \in [Workers -> BOOLEAN]
    BY <1>8 DEF C!Cut
  <2>c. fails' \in [Workers -> 0..2]
    BY <1>8 DEF C!Cut
  <2>d. registered' = registered \/ registered' = [registered EXCEPT ![w] = FALSE]
    BY <1>8 DEF C!Cut
  <2>e. registered' \in [Workers -> BOOLEAN]
    BY <2>d, Switched
  <2>2. UNCHANGED <<changes, password, row, rowAddr, task, missed, theirs, at>>
    BY <1>8 DEF C!Cut, C!Trouble
  <2> QED
    BY <2>b, <2>c, <2>e, <2>1, <2>2
<1>9. ASSUME NEW w \in Workers, C!Mend(w) PROVE Shape'
  BY <1>9 DEF C!Mend
<1>10. ASSUME NEW w \in Workers, C!Move(w) PROVE Shape'
  BY <1>10 DEF C!Move, C!Trouble, IsInjective
<1>11. CASE UNCHANGED C!vars
  BY <1>11 DEF C!vars
<1> QED
  BY <1>1, <1>2, <1>3, <1>4, <1>5, <1>6, <1>7, <1>8, <1>9, <1>10, <1>11 DEF C!Next

\* A registration takes the rows with its address away, and nothing else writes one.
LEMMA NextRows ==
    ASSUME Shape, C!OneRowPerAddress, [C!Next]_C!vars
    PROVE  C!OneRowPerAddress'
<1> USE DEF Shape, C!OneRowPerAddress, C!Known, C!master, C!worker, C!spent
<1>1. CASE C!ChangePassword
  BY <1>1 DEF C!ChangePassword
<1>2. CASE C!Abandon
  BY <1>2 DEF C!Abandon, C!Trouble
<1>3. ASSUME NEW t \in TaskIds, C!ReadTables(t) PROVE C!OneRowPerAddress'
  BY <1>3 DEF C!ReadTables
<1>4. ASSUME NEW t \in TaskIds, C!Push(t) PROVE C!OneRowPerAddress'
  BY <1>4 DEF C!Push, C!AuthSync, C!Rest
<1>5. ASSUME NEW w \in Workers, C!Tick(w) PROVE C!OneRowPerAddress'
  BY <1>5 DEF C!Tick, C!Register, C!Heartbeat, C!Spawn, C!StaysRegistered
<1>6. ASSUME NEW w \in Workers, C!TickFails(w) PROVE C!OneRowPerAddress'
  BY <1>6 DEF C!TickFails, C!FailsAfter
<1>7. ASSUME NEW w \in Workers, C!Lapse(w) PROVE C!OneRowPerAddress'
  BY <1>7 DEF C!Lapse
<1>8. ASSUME NEW w \in Workers, C!Cut(w) PROVE C!OneRowPerAddress'
  BY <1>8 DEF C!Cut, C!Trouble
<1>9. ASSUME NEW w \in Workers, C!Mend(w) PROVE C!OneRowPerAddress'
  BY <1>9 DEF C!Mend
<1>10. ASSUME NEW w \in Workers, C!Move(w) PROVE C!OneRowPerAddress'
  BY <1>10 DEF C!Move, C!Trouble
<1>11. CASE UNCHANGED C!vars
  BY <1>11 DEF C!vars
<1> QED
  BY <1>1, <1>2, <1>3, <1>4, <1>5, <1>6, <1>7, <1>8, <1>9, <1>10, <1>11 DEF C!Next

\* A row comes online with a push to its address, a change of the password pushes to
\* all of them, and a push goes on until it comes there or notes whom it missed.
LEMMA NextTold ==
    ASSUME Setting, Shape, C!DiffersOnlyByLoss, [C!Next]_C!vars
    PROVE  C!DiffersOnlyByLoss'
<1>1. CASE C!ChangePassword
  <2>1. PICK t \in TaskIds : task' = [task EXCEPT ![t] = [hash |-> changes + 1, list |-> None]]
    BY <1>1 DEF C!ChangePassword
  <2>2. task'[t] = [hash |-> changes + 1, list |-> None] /\ password' = changes + 1 /\ changes + 1 # None
    BY <1>1, <2>1 DEF C!ChangePassword, Shape, Setting
  <2>3. task'[t] # C!Idle /\ task'[t].hash = password' /\ task'[t].list = None
    BY <2>2 DEF C!Idle
  <2> QED
    BY <2>3 DEF C!Underway, C!DiffersOnlyByLoss
<1>2. CASE C!Abandon
  BY <1>2 DEF C!Abandon, C!DiffersOnlyByLoss
<1>3. ASSUME NEW t \in TaskIds, C!ReadTables(t) PROVE C!DiffersOnlyByLoss'
  <2> SUFFICES ASSUME NEW w \in Workers, row[w] = "online", C!Underway(w) PROVE C!Underway(w)'
    BY <1>3 DEF C!ReadTables, C!worker, C!DiffersOnlyByLoss
  <2>1. PICK s \in TaskIds : /\ task[s] # C!Idle /\ task[s].hash \in {None, password}
                             /\ task[s].list = None \/ rowAddr[w] \in C!ToSet(task[s].list)
    BY DEF C!Underway
  <2>2. UNCHANGED <<password, rowAddr>>
    BY <1>3 DEF C!ReadTables
  <2>3. CASE s # t
    <3>1. \E x : task' = [task EXCEPT ![t] = x]
      BY <1>3 DEF C!ReadTables
    <3>2. task'[s] = task[s]
      BY <2>3, <3>1 DEF Shape
    <3> QED
      BY <2>1, <2>2, <3>2 DEF C!Underway
  <2>4. CASE s = t
    <3>1. task[t] \in Tasks /\ password # None
      BY DEF Shape, Setting
    <3>2. CASE task' = [task EXCEPT ![t] = [task[t] EXCEPT !.hash = password]]
      <4>1. task'[t].hash = password /\ task'[t].list = task[t].list /\ task'[t] # C!Idle
        BY <3>1, <3>2 DEF Shape, Tasks, C!Idle
      <4> QED
        BY <2>1, <2>2, <2>4, <4>1 DEF C!Underway
    <3>3. ASSUME NEW q \in C!SetToSeqs(C!OnlineAddrs),
                 task' = [task EXCEPT ![t] = IF q = <<>> THEN C!Idle ELSE [task[t] EXCEPT !.list = q]]
          PROVE  C!Underway(w)'
      <4>1. q \in Lists /\ rowAddr[w] \in C!ToSet(q) /\ q # <<>> /\ q # None
        BY OrderHasAll DEF Setting, Lists
      <4>2. task'[t].hash = task[t].hash /\ task'[t].list = q /\ task'[t] # C!Idle
        BY <3>1, <3>3, <4>1 DEF Shape, Tasks, C!Idle
      <4> QED
        BY <2>1, <2>2, <2>4, <4>1, <4>2 DEF C!Underway
    <3>4. \/ task' = [task EXCEPT ![t] = [task[t] EXCEPT !.hash = password]]
          \/ \E q \in C!SetToSeqs(C!OnlineAddrs) :
               task' = [task EXCEPT ![t] = IF q = <<>> THEN C!Idle ELSE [task[t] EXCEPT !.list = q]]
      BY <1>3 DEF C!ReadTables
    <3> QED
      BY <3>2, <3>3, <3>4
  <2> QED
    BY <2>3, <2>4
<1>4. ASSUME NEW t \in TaskIds, C!Push(t) PROVE C!DiffersOnlyByLoss'
  <2> DEFINE a == Head(task[t].list)
             h == task[t].hash
  <2>1. task[t] \in Tasks /\ task[t].list \in Lists /\ h \in 0..MaxChanges /\ h # None
    BY <1>4 DEF C!Push, Tasks, Shape, Setting
  <2>2. /\ UNCHANGED <<password, row, rowAddr>> /\ task' = [task EXCEPT ![t] = C!Rest(t)]
        /\ \A w \in Workers : theirs'[w] = IF w \in C!Reached(a) THEN h ELSE theirs[w]
        /\ missed' = IF h = password
                     THEN (missed \ C!Reached(a)) \cup {w \in C!Known \ C!Reached(a) : rowAddr[w] = a}
                     ELSE missed \cup C!Reached(a)
    BY <1>4 DEF C!Push, C!AuthSync
  <2> HIDE DEF a, h
  <2> SUFFICES ASSUME NEW w \in Workers \ missed', row[w] = "online"
               PROVE  theirs'[w] = password \/ C!Underway(w)'
    BY <2>2 DEF C!DiffersOnlyByLoss
  <2>3. CASE w \in C!Reached(a)
    BY <2>2, <2>3
  <2>4. CASE w \notin C!Reached(a)
    <3>1. w \notin missed /\ theirs'[w] = theirs[w] /\ (h = password => rowAddr[w] # a)
      BY <2>2, <2>4 DEF C!Known
    <3>2. CASE theirs[w] = password
      BY <3>1, <3>2
    <3>3. CASE C!Underway(w)
      <4>1. PICK s \in TaskIds : /\ task[s] # C!Idle /\ task[s].hash \in {None, password}
                                 /\ task[s].list = None \/ rowAddr[w] \in C!ToSet(task[s].list)
        BY <3>3 DEF C!Underway
      <4>2. CASE s # t
        <5>1. task'[s] = task[s]
          BY <2>2, <4>2
        <5> QED
          BY <2>2, <4>1, <5>1 DEF C!Underway
      <4>3. CASE s = t
        <5>1. h = password /\ rowAddr[w] \in C!ToSet(task[t].list) /\ rowAddr[w] # a
          <6>1. task[t].list # None
            BY <2>1 DEF Setting, Lists
          <6> QED
            BY <2>1, <3>1, <4>1, <4>3, <6>1 DEF h
        <5>2. /\ Len(task[t].list) # 1 /\ Tail(task[t].list) \in Lists
              /\ rowAddr[w] \in C!ToSet(Tail(task[t].list))
          BY <2>1, <5>1, RestOfList DEF a
        <5>3. /\ task'[t].hash = task[t].hash /\ task'[t].list = Tail(task[t].list)
              /\ task'[t] # C!Idle
          BY <2>1, <2>2, <5>2 DEF Shape, C!Rest, Tasks, C!Idle, h
        <5> QED
          BY <2>2, <5>1, <5>2, <5>3 DEF C!Underway, h
      <4> QED
        BY <4>2, <4>3
    <3> QED
      BY <3>1, <3>2, <3>3 DEF C!DiffersOnlyByLoss
  <2> QED
    BY <2>3, <2>4
<1>5. ASSUME NEW w \in Workers, C!Tick(w) PROVE C!DiffersOnlyByLoss'
  <2>1. UNCHANGED <<password, missed, theirs>>
    BY <1>5 DEF C!Tick
  <2>2. ASSUME NEW x \in Addrs, C!Spawn(x), rowAddr' = rowAddr \/ rowAddr' = [rowAddr EXCEPT ![w] = x],
               rowAddr'[w] = x, \A v \in Workers \ {w} : row'[v] = "online" => row[v] = "online"
        PROVE  C!DiffersOnlyByLoss'
    <3>1. PICK t \in TaskIds : /\ task[t] = C!Idle
                          /\ task' = [task EXCEPT ![t] = [hash |-> None, list |-> <<x>>]]
      BY <2>2 DEF C!Spawn, C!FirstIdle
    <3>2. task'[t].hash = None /\ task'[t].list = <<x>> /\ x \in C!ToSet(<<x>>)
      BY <3>1 DEF Shape, C!ToSet
    <3>3. task'[t] # C!Idle
      <4>1. <<x>> \in Seq(Addrs)
        OBVIOUS
      <4>2. task'[t].list # None
        BY <3>2, <4>1 DEF Setting
      <4> QED
        BY <4>2 DEF C!Idle
    <3>4. C!Underway(w)'
      BY <2>2, <3>2, <3>3 DEF C!Underway
    <3>5. ASSUME NEW v \in Workers \ {w}, C!Underway(v) PROVE C!Underway(v)'
      <4>1. rowAddr'[v] = rowAddr[v]
        BY <2>2, <3>5 DEF Shape
      <4>2. \A s \in TaskIds : task[s] # C!Idle => task'[s] = task[s]
        BY <3>1
      <4> QED
        BY <2>1, <3>5, <4>1, <4>2 DEF C!Underway
    <3> QED
      BY <2>1, <2>2, <3>4, <3>5 DEF C!DiffersOnlyByLoss
  <2>3. CASE C!Register(w)
    <3>1. C!Spawn(at[w]) /\ rowAddr' = [rowAddr EXCEPT ![w] = at[w]] /\ rowAddr'[w] = at[w]
      BY <2>3 DEF C!Register, Shape
    <3>a. at[w] \in Addrs /\ rowAddr[w] \in Addrs
      BY DEF Shape
    <3>2. \A v \in Workers \ {w} : row'[v] = "online" => row[v] = "online"
      BY <2>3 DEF C!Register
    <3> QED
      BY <2>2, <3>a, <3>1, <3>2
  <2>4. CASE C!Heartbeat(w)
    <3>1. UNCHANGED rowAddr /\ \A v \in Workers \ {w} : row'[v] = "online" => row[v] = "online"
      BY <2>4 DEF C!Heartbeat, Shape
    <3>2. CASE row[w] = "offline"
      <4>1. C!Spawn(rowAddr[w])
        BY <2>4, <3>2 DEF C!Heartbeat
      <4>2. rowAddr[w] \in Addrs
        BY DEF Shape
      <4> QED
        BY <2>2, <3>1, <4>1, <4>2
    <3>3. CASE row[w] # "offline"
      <4>1. UNCHANGED task /\ (row'[w] = "online" => row[w] = "online")
        BY <2>4, <3>3 DEF C!Heartbeat, Shape
      <4>2. \A v \in Workers : C!Underway(v)' = C!Underway(v)
        BY <2>1, <3>1, <4>1 DEF C!Underway
      <4> QED
        BY <2>1, <3>1, <4>1, <4>2 DEF C!DiffersOnlyByLoss
    <3> QED
      BY <3>2, <3>3
  <2> QED
    BY <1>5, <2>3, <2>4 DEF C!Tick
<1>6. ASSUME NEW w \in Workers, C!TickFails(w) PROVE C!DiffersOnlyByLoss'
  <2>1. UNCHANGED <<password, missed, theirs, rowAddr, task>>
    BY <1>6 DEF C!TickFails, C!master, C!worker
  <2>2. \A v \in Workers : row'[v] = "online" => row[v] = "online"
    BY <1>6 DEF C!TickFails, C!master, C!worker, Shape
  <2>3. \A v \in Workers : C!Underway(v)' = C!Underway(v)
    BY <2>1 DEF C!Underway
  <2> QED
    BY <2>1, <2>2, <2>3 DEF C!DiffersOnlyByLoss
<1>7. ASSUME NEW w \in Workers, C!Lapse(w) PROVE C!DiffersOnlyByLoss'
  <2>1. UNCHANGED <<password, missed, theirs, rowAddr, task>>
    BY <1>7 DEF C!Lapse, C!master, C!worker
  <2>2. \A v \in Workers : row'[v] = "online" => row[v] = "online"
    BY <1>7 DEF C!Lapse, C!master, C!worker, Shape
  <2>3. \A v \in Workers : C!Underway(v)' = C!Underway(v)
    BY <2>1 DEF C!Underway
  <2> QED
    BY <2>1, <2>2, <2>3 DEF C!DiffersOnlyByLoss
<1>8. ASSUME NEW w \in Workers, C!Cut(w) PROVE C!DiffersOnlyByLoss'
  <2>1. UNCHANGED <<password, missed, theirs, rowAddr, task>>
    BY <1>8 DEF C!Cut, C!master, C!worker
  <2>2. \A v \in Workers : row'[v] = "online" => row[v] = "online"
    BY <1>8 DEF C!Cut, C!master, C!worker, Shape
  <2>3. \A v \in Workers : C!Underway(v)' = C!Underway(v)
    BY <2>1 DEF C!Underway
  <2> QED
    BY <2>1, <2>2, <2>3 DEF C!DiffersOnlyByLoss
<1>9. ASSUME NEW w \in Workers, C!Mend(w) PROVE C!DiffersOnlyByLoss'
  <2>1. UNCHANGED <<password, missed, theirs, rowAddr, task>>
    BY <1>9 DEF C!Mend, C!master, C!worker
  <2>2. \A v \in Workers : row'[v] = "online" => row[v] = "online"
    BY <1>9 DEF C!Mend, C!master, C!worker, Shape
  <2>3. \A v \in Workers : C!Underway(v)' = C!Underway(v)
    BY <2>1 DEF C!Underway
  <2> QED
    BY <2>1, <2>2, <2>3 DEF C!DiffersOnlyByLoss
<1>10. ASSUME NEW w \in Workers, C!Move(w) PROVE C!DiffersOnlyByLoss'
  <2>1. UNCHANGED <<password, missed, theirs, rowAddr, task>>
    BY <1>10 DEF C!Move, C!master, C!worker
  <2>2. \A v \in Workers : row'[v] = "online" => row[v] = "online"
    BY <1>10 DEF C!Move, C!master, C!worker, Shape
  <2>3. \A v \in Workers : C!Underway(v)' = C!Underway(v)
    BY <2>1 DEF C!Underway
  <2> QED
    BY <2>1, <2>2, <2>3 DEF C!DiffersOnlyByLoss
<1>11. CASE UNCHANGED C!vars
  <2>1. UNCHANGED <<password, missed, theirs, rowAddr, task>>
    BY <1>11 DEF C!vars, C!master, C!worker
  <2>2. \A v \in Workers : row'[v] = "online" => row[v] = "online"
    BY <1>11 DEF C!vars, C!master, C!worker, Shape
  <2>3. \A v \in Workers : C!Underway(v)' = C!Underway(v)
    BY <2>1 DEF C!Underway
  <2> QED
    BY <2>1, <2>2, <2>3 DEF C!DiffersOnlyByLoss
<1> QED
  BY <1>1, <1>2, <1>3, <1>4, <1>5, <1>6, <1>7, <1>8, <1>9, <1>10, <1>11 DEF C!Next

\* Every reachable state of the cluster is well typed, and no two workers have
\* one address.
LEMMA ClusterIsTyped ==
    ASSUME Setting
    PROVE  Spec => []C!TypeOK
<1>1. Shape => C!TypeOK
  <2> SUFFICES ASSUME Shape PROVE C!TypeOK
    OBVIOUS
  <2>1. ASSUME NEW t \in TaskIds
        PROVE  /\ task[t].hash \in 0..MaxChanges \cup {None}
               /\ task[t].list = None \/ C!ToSet(task[t].list) \subseteq Addrs
    BY RestOfList DEF Shape, Tasks
  <2> QED
    BY <2>1, SameCount DEF Shape, C!TypeOK, Setting
<1> QED
  BY <1>1, InitShape, NextShape, ClusterSteps, PTL DEF Spec

\* Every reachable state of the three is well typed.
THEOREM TypeCorrect ==
    ASSUME N!Setting, B!Setting, Setting
    PROVE  Spec => []TypeOK
<1>1. N!Spec => []N!TypeOK
  BY N!TypeCorrect
<1>2. B!Spec => []B!TypeOK
  BY B!TypeCorrect
<1>3. Spec => []C!TypeOK
  BY ClusterIsTyped
<1> QED
  BY <1>1, <1>2, <1>3, NginxSteps, BackupSteps, PTL DEF Spec, N!Spec, B!Spec, TypeOK

\* cluster/server.rs dedupe_nodes: no two rows of the node table share an
\* address, so no push goes to one worker in another's name.
THEOREM RowsHaveTheirAddress ==
    ASSUME Setting
    PROVE  Spec => []OneRowPerAddress
<1>1. C!Init => C!OneRowPerAddress
  BY DEF C!Init, C!OneRowPerAddress, C!Known
<1> QED
  BY <1>1, InitShape, NextShape, NextRows, ClusterSteps, PTL DEF Spec, OneRowPerAddress

\* auth.rs sync_users_to_worker, sync_password_to_workers: an online worker has
\* the master's password, or a push of it is under way to its address, or one
\* was lost or overtaken, however workers come, go and move.
THEOREM PushesReachAllButTheLost ==
    ASSUME Setting
    PROVE  Spec => []DiffersOnlyByLoss
<1>1. C!Init => C!DiffersOnlyByLoss
  BY DEF C!Init, C!DiffersOnlyByLoss
<1> QED
  BY <1>1, InitShape, NextShape, NextTold, ClusterSteps, PTL DEF Spec, DiffersOnlyByLoss
=============================================================================
