---------------------------- MODULE ClusterSync ----------------------------
(***************************************************************************)
(* The workers of one master: registration, heartbeats, the node table     *)
(* (src/src/cluster/client.rs, server.rs) and the accounts the master      *)
(* pushes to them (src/src/auth.rs).                                       *)
(*                                                                         *)
(* There is one account.  Its password is the number of times the master   *)
(* changed it; a worker starts with one of its own.  A row is "online"     *)
(* while its last_seen is less than 45 s old: a worker that is up and      *)
(* reachable is taken to tick often enough.                                *)
(***************************************************************************)
EXTENDS Naturals, FiniteSets, Sequences, SequencesExt

CONSTANTS
    Workers, Addrs, None,
    Home,          \* the address each worker starts with
    Discover,      \* no --master: the worker looks for it by broadcast
    TaskIds,       \* the pushing tasks the master runs, 1 to some number
    MaxChanges,    \* bound: changes of the password
    MaxTroubles    \* bound: links cut, workers stopped, addresses changed, restarts of the master

VARIABLES
    password,      \* the master's
    row,           \* cluster_nodes by worker: "none", "online" or "offline"
    rowAddr,       \* its addr column
    task,          \* sync_users_to_worker and sync_password_to_workers at work
    theirs,        \* the password each worker has stored
    up, link, at,  \* worker running; reachable; its address now
    registered, fails, found,   \* client::run's variables; found: master_slot is set
    missed,        \* workers a push did not reach, or reached late (never read)
    changes, troubles

master == <<password, row, rowAddr, task, missed>>
worker == <<theirs, up, link, at, registered, fails, found>>
spent  == <<changes, troubles>>
vars   == <<master, worker, spent>>

Idle   == [hash |-> None, list |-> None]
Known  == {w \in Workers : row[w] # "none"}
\* The worker a request to address a reaches, if any.
Reached(a) == {w \in Workers : at[w] = a /\ up[w] /\ link[w]}
OnlineAddrs == {rowAddr[w] : w \in {v \in Workers : row[v] = "online"}}

TypeOK ==
    /\ password \in 0..MaxChanges
    /\ row \in [Workers -> {"none", "online", "offline"}]
    /\ rowAddr \in [Workers -> Addrs]
    /\ \A t \in TaskIds : /\ task[t].hash \in 0..MaxChanges \cup {None}
                          /\ task[t].list = None \/ ToSet(task[t].list) \subseteq Addrs
    /\ theirs \in [Workers -> 0..MaxChanges \cup {None}]
    /\ up \in [Workers -> BOOLEAN] /\ link \in [Workers -> BOOLEAN]
    /\ at \in [Workers -> Addrs] /\ IsInjective(at)
    /\ registered \in [Workers -> BOOLEAN] /\ found \in [Workers -> BOOLEAN]
    /\ fails \in [Workers -> 0..2] /\ missed \subseteq Workers

Init ==
    /\ password = 0
    /\ row = [w \in Workers |-> "none"]
    /\ at = Home /\ rowAddr = Home
    /\ task = [t \in TaskIds |-> Idle]
    /\ theirs = [w \in Workers |-> None]
    /\ up = [w \in Workers |-> TRUE] /\ link = [w \in Workers |-> TRUE]
    /\ registered = [w \in Workers |-> FALSE] /\ fails = [w \in Workers |-> 0]
    /\ found = [w \in Workers |-> ~Discover]
    /\ missed = {}
    /\ changes = 0 /\ troubles = 0
-----------------------------------------------------------------------------
(* The master pushes accounts. *)

Trouble == troubles < MaxTroubles /\ troubles' = troubles + 1 /\ UNCHANGED changes

\* Tasks are alike: a new one takes the first free place.
FirstIdle(t) == task[t] = Idle /\ \A s \in 1..(t - 1) : task[s] # Idle

\* tokio::spawn(sync_users_to_worker(addr)): the users are read when it runs.
Spawn(a) ==
    \E t \in TaskIds : /\ FirstIdle(t)
                       /\ task' = [task EXCEPT ![t] = [hash |-> None, list |-> <<a>>]]

\* change_password: the new hash, then the handler goes on as a task.
ChangePassword ==
    /\ changes < MaxChanges /\ changes' = changes + 1
    /\ password' = changes + 1
    /\ \E t \in TaskIds : /\ FirstIdle(t)
                          /\ task' = [task EXCEPT ![t] = [hash |-> changes + 1, list |-> None]]
    /\ UNCHANGED <<row, rowAddr, missed, worker, troubles>>

\* list_users of a task for one worker; online_workers of a change.
ReadTables(t) ==
    /\ task[t] # Idle
    /\ \/ task[t].hash = None /\ task' = [task EXCEPT ![t].hash = password]
       \/ /\ task[t].list = None
          /\ \E q \in SetToSeqs(OnlineAddrs) :
                 task' = [task EXCEPT ![t] = IF q = <<>> THEN Idle ELSE [@ EXCEPT !.list = q]]
    /\ UNCHANGED <<password, row, rowAddr, missed, worker, spent>>

Rest(t) == IF Len(task[t].list) = 1 THEN Idle ELSE [task[t] EXCEPT !.list = Tail(@)]

\* auth_sync: the worker takes the hash as its own and ends the user's sessions.
AuthSync(reached, h) == theirs' = [w \in Workers |-> IF w \in reached THEN h ELSE theirs[w]]

\* POST /api/cluster/auth/sync to the next address, one after the other.  An
\* answer that is not a success is logged or shown, never tried again.
Push(t) ==
    /\ task[t].hash # None /\ task[t].list # None
    /\ LET a == Head(task[t].list)  h == task[t].hash IN
       /\ AuthSync(Reached(a), h)
       /\ missed' = IF h = password
                    THEN (missed \ Reached(a)) \cup {w \in Known \ Reached(a) : rowAddr[w] = a}
                    ELSE missed \cup Reached(a)
    /\ task' = [task EXCEPT ![t] = Rest(t)]
    /\ UNCHANGED <<password, row, rowAddr, up, link, at, registered, fails, found, spent>>

\* The master restarts, or the client of change_password disconnects: the
\* addresses that are left are never served.
Abandon ==
    /\ Trouble
    /\ task' = [t \in TaskIds |-> Idle]
    /\ missed' = Workers
    /\ UNCHANGED <<password, row, rowAddr, worker>>
-----------------------------------------------------------------------------
(* A worker's loop in client::run. *)

\* Mutant: a worker that registers again is not pushed to.
RegisterQuietly(w) ==
    /\ row' = [v \in Workers |-> IF v = w THEN "online" ELSE IF rowAddr[v] = at[w] THEN "none" ELSE row[v]]
    /\ rowAddr' = [rowAddr EXCEPT ![w] = at[w]]
    /\ IF row[w] = "none" THEN Spawn(at[w]) ELSE UNCHANGED task

\* Mutant: dedupe_nodes is forgotten.
RegisterBeside(w) ==
    /\ row' = [row EXCEPT ![w] = "online"]
    /\ rowAddr' = [rowAddr EXCEPT ![w] = at[w]]
    /\ Spawn(at[w])

\* register: upsert_node, dedupe_nodes, and a push of the accounts.
Register(w) ==
    /\ row' = [v \in Workers |-> IF v = w THEN "online" ELSE IF rowAddr[v] = at[w] THEN "none" ELSE row[v]]
    /\ rowAddr' = [rowAddr EXCEPT ![w] = at[w]]
    /\ Spawn(at[w])

\* heartbeat: touch_node; a row that was offline is pushed to at its old address.
Heartbeat(w) ==
    /\ row' = [row EXCEPT ![w] = IF row[w] = "none" THEN "none" ELSE "online"]
    /\ UNCHANGED rowAddr
    /\ IF row[w] = "offline" THEN Spawn(rowAddr[w]) ELSE UNCHANGED task

\* Mutant: the worker does not look at `known`.
StillRegistered(w) == TRUE

\* HeartbeatResponse.known
StaysRegistered(w) == row[w] # "none"

\* One round: discovery if there is no master, then register or heartbeat.
Tick(w) ==
    /\ up[w] /\ link[w]
    /\ found' = [found EXCEPT ![w] = TRUE]
    /\ fails' = [fails EXCEPT ![w] = 0]
    /\ LET first == ~registered[w] \/ ~found[w] IN
       IF first THEN Register(w) /\ registered' = [registered EXCEPT ![w] = TRUE]
       ELSE Heartbeat(w) /\ registered' = [registered EXCEPT ![w] = StaysRegistered(w)]
    /\ UNCHANGED <<password, missed, theirs, up, link, at, spent>>

\* Failed rounds in a row; with --master the count means nothing.
FailsAfter(n) == IF n = 2 THEN 0 ELSE n + 1

\* A round that fails; after the third a discovered master is forgotten.
TickFails(w) ==
    /\ up[w] /\ ~link[w] /\ found[w]
    /\ LET third == Discover /\ fails[w] = 2 IN
       /\ fails' = [fails EXCEPT ![w] = FailsAfter(fails[w])]
       /\ found' = [found EXCEPT ![w] = ~third]
       /\ registered' = [registered EXCEPT ![w] = registered[w] /\ ~third]
    /\ UNCHANGED <<master, theirs, up, link, at, spent>>

\* 45 s without a heartbeat.
Lapse(w) ==
    /\ row[w] = "online" /\ (~up[w] \/ ~link[w])
    /\ row' = [row EXCEPT ![w] = "offline"]
    /\ UNCHANGED <<password, rowAddr, task, missed, worker, spent>>
-----------------------------------------------------------------------------
(* The network and the worker's process. *)

Cut(w) ==
    /\ Trouble
    /\ \/ link[w] /\ link' = [link EXCEPT ![w] = FALSE] /\ UNCHANGED <<up, registered, fails, found>>
       \/ /\ up[w] /\ up' = [up EXCEPT ![w] = FALSE]
          /\ registered' = [registered EXCEPT ![w] = FALSE]
          /\ fails' = [fails EXCEPT ![w] = 0] /\ found' = [found EXCEPT ![w] = ~Discover]
          /\ UNCHANGED link
    /\ UNCHANGED <<master, theirs, at>>

Mend(w) ==
    /\ ~up[w] \/ ~link[w]
    /\ up' = [up EXCEPT ![w] = TRUE] /\ link' = [link EXCEPT ![w] = TRUE]
    /\ UNCHANGED <<master, theirs, at, registered, fails, found, spent>>

\* The host gets another address; primary_ip is read again at the next registration.
Move(w) ==
    /\ Trouble
    /\ \E a \in Addrs \ {at[v] : v \in Workers} : at' = [at EXCEPT ![w] = a]
    /\ UNCHANGED <<master, theirs, up, link, registered, fails, found>>

Next ==
    \/ ChangePassword \/ Abandon
    \/ \E t \in TaskIds : ReadTables(t) \/ Push(t)
    \/ \E w \in Workers : Tick(w) \/ TickFails(w) \/ Lapse(w) \/ Cut(w) \/ Mend(w) \/ Move(w)

Spec == Init /\ [][Next]_vars

\* Tasks run, the loops turn, cut links and stopped workers come back.
Fairness ==
    /\ \A t \in TaskIds : WF_vars(ReadTables(t)) /\ WF_vars(Push(t))
    /\ \A w \in Workers : WF_vars(Tick(w)) /\ WF_vars(TickFails(w)) /\ WF_vars(Mend(w))
FairSpec == Spec /\ Fairness
-----------------------------------------------------------------------------
\* A push of the present password to worker w is under way.
Underway(w) ==
    \E t \in TaskIds : /\ task[t] # Idle /\ task[t].hash \in {None, password}
                       /\ task[t].list = None \/ rowAddr[w] \in ToSet(task[t].list)

\* An online worker has the master's password, or a push of it is under way, or
\* one was lost or overtaken: register, the return from offline and
\* change_password together leave no other gap.
DiffersOnlyByLoss ==
    \A w \in Workers \ missed :
        row[w] = "online" => theirs[w] = password \/ Underway(w)

\* dedupe_nodes: no two rows share an address, so no push goes to one worker
\* in another's name.
OneRowPerAddress == \A v, w \in Known : rowAddr[v] = rowAddr[w] => v = w

\* Every worker ends up registered and stays it, whatever addresses, links and
\* processes did before.
EveryWorkerJoins == \A w \in Workers : <>[](registered[w] /\ row[w] = "online")

\* README: the push at registration and at the return from offline keeps all
\* nodes on one password.
SamePassword == <>[](\A w \in Workers : theirs[w] = password)
=============================================================================
