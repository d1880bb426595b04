---------------------------- MODULE ClusterInit ----------------------------
(***************************************************************************)
(* The installation of a cluster (src/src/cluster/init.rs): the master     *)
(* installs itself, reaches every worker over SSH, waits for them to       *)
(* register and then has each of them install its packages, one request    *)
(* per package, which is sent again when no answer comes.  A page polls    *)
(* the list of steps.  Of the packages there are the end of the swap and   *)
(* K3s, which stands for all those that come after it.                     *)
(***************************************************************************)
EXTENDS Naturals, Sequences

CONSTANTS
    Master, Workers,
    Launches,       \* start_init and start_check: the requests of the page
    Attempts,       \* how often a request to a worker is sent
    MaxTroubles

VARIABLES
    running, finished, error,   \* InitStatus
    steps,                      \* InitStatus.steps
    pc, todo, tries,            \* of each launch: its step, the workers to do, the requests sent
    swap, k3s,                  \* of each node: is there swap; was the installation of K3s begun
    online,                     \* the workers whose heartbeats arrive
    late,                       \* of each worker: what it still does for a request given up
    skipped, overlapped,        \* workers that were offline when it was their turn; were there
    troubles                    \*   two launches at once (neither is read by the code)

status  == <<running, finished, error, steps>>
hosts   == <<swap, k3s>>
history == <<skipped, overlapped>>
vars    == <<status, pc, todo, tries, hosts, online, late, history, troubles>>

Nodes == {Master} \cup Workers
Steps == (Nodes \X {"host", "swap", "k3s"}) \cup {<<Master, "lb">>}
Busy  == {t \in Launches : pc[t] \notin {"none", "end"}}

TypeOK ==
    /\ running \in BOOLEAN /\ finished \in BOOLEAN /\ error \in BOOLEAN
    /\ steps \in [Steps -> {"none", "pending", "running", "ok", "failed"}]
    /\ pc \in [Launches -> {"none", "spawned", "host", "boot", "wait", "swap", "k3s", "list",
                            "wswap", "wk3s", "lb", "fail", "close", "end"}]
    /\ todo \in [Launches -> SUBSET Workers] /\ tries \in [Launches -> 0..Attempts]
    /\ swap \in [Nodes -> BOOLEAN] /\ k3s \in [Nodes -> BOOLEAN]
    /\ online \subseteq Workers /\ late \in [Workers -> SUBSET {"swap", "k3s"}]

Init ==
    /\ running = FALSE /\ finished = FALSE /\ error = FALSE
    /\ steps = [s \in Steps |-> "none"]
    /\ pc = [t \in Launches |-> "none"] /\ todo = [t \in Launches |-> {}] /\ tries = [t \in Launches |-> 0]
    /\ swap = [n \in Nodes |-> TRUE] /\ k3s = [n \in Nodes |-> FALSE]
    /\ online = {} /\ late = [w \in Workers |-> {}]
    /\ skipped = {} /\ overlapped = FALSE /\ troubles = 0
-----------------------------------------------------------------------------
Goto(t, step)      == pc' = [pc EXCEPT ![t] = step]
Set(n, step, what) == steps' = [steps EXCEPT ![<<n, step>>] = what]
Trouble            == troubles < MaxTroubles /\ troubles' = troubles + 1

\* launch: `running` is looked at here and set by the task.
MayLaunch == ~running
Launch(t) ==
    /\ pc[t] = "none" /\ MayLaunch
    /\ Goto(t, "spawned") /\ overlapped' = (overlapped \/ Busy # {})
    /\ UNCHANGED <<status, todo, tries, hosts, online, late, skipped, troubles>>

\* run_init, build_steps.
Begin(t) ==
    /\ pc[t] = "spawned"
    /\ running' = TRUE /\ finished' = FALSE /\ error' = FALSE
    /\ steps' = [s \in Steps |-> "pending"] /\ skipped' = {}
    /\ Goto(t, "host")
    /\ UNCHANGED <<todo, tries, hosts, online, late, overlapped, troubles>>

\* set_system_hostname.
Hostname(t) ==
    /\ pc[t] = "host"
    /\ \/ Set(Master, "host", "ok") /\ Goto(t, "boot") /\ todo' = [todo EXCEPT ![t] = Workers]
          /\ UNCHANGED troubles
       \/ Trouble /\ Set(Master, "host", "failed") /\ Goto(t, "fail") /\ UNCHANGED todo
    /\ UNCHANGED <<running, finished, error, tries, hosts, online, late, history>>

\* bootstrap_worker_blocking: the program is copied to the worker and started
\* there; what the one that was running still did ends with it.
Bootstrapped(w) == late' = [late EXCEPT ![w] = {}]

\* bootstrap_workers: worker after worker.
Bootstrap(t) ==
    /\ pc[t] = "boot"
    /\ IF todo[t] = {} THEN Goto(t, "wait") /\ UNCHANGED <<steps, todo, late, troubles>>
       ELSE \E w \in todo[t] :
               \/ /\ Set(w, "host", "ok") /\ todo' = [todo EXCEPT ![t] = @ \ {w}]
                  /\ Bootstrapped(w) /\ UNCHANGED <<pc, troubles>>
               \/ Trouble /\ Set(w, "host", "failed") /\ Goto(t, "fail") /\ UNCHANGED <<todo, late>>
    /\ UNCHANGED <<running, finished, error, tries, hosts, online, history>>

\* bootstrap_workers: thirty polls for the registrations.
Registered(t) ==
    /\ pc[t] = "wait" /\ Workers \subseteq online /\ Goto(t, "swap")
    /\ UNCHANGED <<status, todo, tries, hosts, online, late, history, troubles>>

NotRegistered(t) ==
    /\ pc[t] = "wait" /\ ~(Workers \subseteq online) /\ Goto(t, "fail")
    /\ UNCHANGED <<status, todo, tries, hosts, online, late, history, troubles>>

\* disable_swap on the master: a failure ends the installation.
MasterSwap(t) ==
    /\ pc[t] = "swap"
    /\ \/ swap' = [swap EXCEPT ![Master] = FALSE] /\ Set(Master, "swap", "ok") /\ Goto(t, "k3s")
          /\ UNCHANGED troubles
       \/ Trouble /\ Set(Master, "swap", "failed") /\ Goto(t, "fail") /\ UNCHANGED swap
    /\ UNCHANGED <<running, finished, error, todo, tries, k3s, online, late, history>>

\* The master's packages: a failure is noted and the next one comes.
MasterK3s(t) ==
    /\ pc[t] = "k3s" /\ k3s' = [k3s EXCEPT ![Master] = TRUE] /\ Goto(t, "list")
    /\ \/ Set(Master, "k3s", "ok") /\ UNCHANGED troubles
       \/ Trouble /\ Set(Master, "k3s", "failed")
    /\ UNCHANGED <<running, finished, error, todo, tries, swap, online, late, history>>

\* online_workers, once for all of them.
ListWorkers(t) ==
    /\ pc[t] = "list" /\ todo' = [todo EXCEPT ![t] = online]
    /\ skipped' = skipped \cup (Workers \ online)
    /\ Goto(t, IF online = {} THEN "lb" ELSE "wswap")
    /\ UNCHANGED <<status, tries, hosts, online, late, overlapped, troubles>>
-----------------------------------------------------------------------------
\* init_worker: the worker whose turn it is.
Turn(t) == CHOOSE w \in todo[t] : TRUE
Package(t) == IF pc[t] = "wswap" THEN "swap" ELSE "k3s"

\* The worker is done, with all its packages or without the rest of them.
NextWorker(t) ==
    /\ todo' = [todo EXCEPT ![t] = @ \ {Turn(t)}]
    /\ Goto(t, IF todo[t] = {Turn(t)} THEN "lb" ELSE "wswap")

\* mark_worker_remaining_failed.
Remaining(t) ==
    {<<Turn(t), p>> : p \in IF Package(t) = "swap" THEN {"swap", "k3s"} ELSE {"k3s"}}

GiveUp(t) ==
    /\ steps' = [s \in Steps |-> IF s \in Remaining(t) THEN "failed" ELSE steps[s]]
    /\ tries' = [tries EXCEPT ![t] = 0] /\ NextWorker(t)

Effect(w, package) ==
    IF package = "swap" THEN swap' = [swap EXCEPT ![w] = FALSE] /\ UNCHANGED k3s
    ELSE k3s' = [k3s EXCEPT ![w] = TRUE] /\ UNCHANGED swap

\* update_step "running", post_worker_json_with_retry and run_worker_init: the
\* worker did it and its answer came.
Install(t) ==
    /\ pc[t] \in {"wswap", "wk3s"}
    /\ Effect(Turn(t), Package(t)) /\ Set(Turn(t), Package(t), "ok") /\ tries' = [tries EXCEPT ![t] = 0]
    /\ IF pc[t] = "wswap" THEN Goto(t, "wk3s") /\ UNCHANGED todo ELSE NextWorker(t)
    /\ UNCHANGED <<running, finished, error, online, late, history, troubles>>

\* Mutant: the other packages come although the swap is still there.
NeverStops(package) == FALSE

\* The worker answers that the package failed, or with an error instead of a
\* result: after an error, and with its swap still there, it gets no other one.
StopsAt(package) == package = "swap"
InstallFails(t) ==
    /\ Trouble /\ pc[t] \in {"wswap", "wk3s"}
    /\ IF Package(t) = "k3s" THEN k3s' = [k3s EXCEPT ![Turn(t)] = TRUE] ELSE UNCHANGED k3s
    /\ \/ GiveUp(t)
       \/ /\ ~StopsAt(Package(t)) /\ tries' = [tries EXCEPT ![t] = 0]
          /\ Set(Turn(t), Package(t), "failed")
          /\ IF pc[t] = "wswap" THEN Goto(t, "wk3s") /\ UNCHANGED todo ELSE NextWorker(t)
    /\ UNCHANGED <<running, finished, error, swap, online, late, history>>

\* No answer: the request is sent again, while the worker may still be at the
\* first one, and after the last attempt the worker is given up.
NoAnswer(t) ==
    /\ pc[t] \in {"wswap", "wk3s"}
    /\ \/ Turn(t) \notin online /\ UNCHANGED <<late, troubles>>
       \/ Turn(t) \in online /\ Trouble /\ late' = [late EXCEPT ![Turn(t)] = @ \cup {Package(t)}]
    /\ IF tries[t] + 1 < Attempts
       THEN /\ tries' = [tries EXCEPT ![t] = @ + 1] /\ Set(Turn(t), Package(t), "running")
            /\ UNCHANGED <<pc, todo>>
       ELSE GiveUp(t)
    /\ UNCHANGED <<running, finished, error, hosts, online, history>>

\* run_worker_init goes on for a request the master gave up.
LateInstall(w) ==
    \E package \in late[w] :
        /\ Effect(w, package) /\ late' = [late EXCEPT ![w] = @ \ {package}]
        /\ UNCHANGED <<status, pc, todo, tries, online, history, troubles>>
-----------------------------------------------------------------------------
\* ensure_loadbalance.
LoadBalance(t) ==
    /\ pc[t] = "lb" /\ Goto(t, "close")
    /\ \/ Set(Master, "lb", "ok") /\ UNCHANGED troubles
       \/ Trouble /\ Set(Master, "lb", "failed")
    /\ UNCHANGED <<running, finished, error, todo, tries, hosts, online, late, history>>

\* run_init: the outcome.
AnyFailed == \E s \in Steps : steps[s] = "failed"
Close(t) ==
    /\ pc[t] \in {"fail", "close"}
    /\ running' = FALSE /\ finished' = TRUE
    /\ error' = (pc[t] = "fail" \/ AnyFailed \/ error)
    /\ Goto(t, "end")
    /\ UNCHANGED <<steps, todo, tries, hosts, online, late, history, troubles>>

\* Heartbeats of a worker that has been installed arrive, or stop arriving.
Heartbeat(w) ==
    /\ w \notin online /\ steps[<<w, "host">>] = "ok" /\ online' = online \cup {w}
    /\ UNCHANGED <<status, pc, todo, tries, hosts, late, history, troubles>>

Silent(w) ==
    /\ Trouble /\ w \in online /\ online' = online \ {w}
    /\ UNCHANGED <<status, pc, todo, tries, hosts, late, history>>

Next ==
    \/ \E t \in Launches :
          \/ Launch(t) \/ Begin(t) \/ Hostname(t) \/ Bootstrap(t) \/ Registered(t) \/ NotRegistered(t)
          \/ MasterSwap(t) \/ MasterK3s(t) \/ ListWorkers(t) \/ Install(t) \/ InstallFails(t) \/ NoAnswer(t)
          \/ LoadBalance(t) \/ Close(t)
    \/ \E w \in Workers : LateInstall(w) \/ Heartbeat(w) \/ Silent(w)

Spec == Init /\ [][Next]_vars
-----------------------------------------------------------------------------
\* init.rs init_worker and run_init: K3s is not installed on a node that still
\* has swap, whatever is sent twice, comes late or runs beside it; and an
\* installation that says it ended well has done every step, but those of
\* workers that were offline when their turn came.
SwapOffBeforeK3s == \A n \in Nodes : k3s[n] => ~swap[n]
EndsHonest ==
    finished /\ ~running /\ ~error /\ ~overlapped =>
        \A s \in Steps : steps[s] = "ok" \/ (s[1] \in skipped /\ steps[s] = "pending")
InstallsInOrder == SwapOffBeforeK3s /\ EndsHonest
=============================================================================
