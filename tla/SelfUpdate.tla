----------------------------- MODULE SelfUpdate -----------------------------
(***************************************************************************)
(* How the program replaces itself: the upload and the online update of    *)
(* the master's page (src/src/self_upgrade.rs), `update` on the command    *)
(* line (src/src/update.rs), the binaries kept for workers                 *)
(* (src/src/binaries.rs) and a worker that follows its master              *)
(* (src/src/cluster/self_update.rs), up to the restart (service.rs).       *)
(*                                                                         *)
(* One master and one worker of the same architecture; a program is its    *)
(* version.  /proc/self/exe of a process whose file was replaced names     *)
(* "<path> (deleted)": what that process installs later, or executes       *)
(* again, goes to that path and not to the program's.                      *)
(***************************************************************************)
EXTENDS Naturals, FiniteSets

CONSTANTS
    None,
    Uploads,       \* the requests for an update of the master
    Versions,      \* a set of positive numbers, with 1
    Installed,     \* the hosts where the systemd unit is installed
    CliBeside,     \* whether `update` may be run while an upload installs
    DropAt,        \* the steps of an upload at which its client may disconnect
    MaxSyncs,      \* bound: packages the keeper brings
    MaxClis,       \* bound: runs of `update`
    MaxDrops,      \* bound: clients that disconnect
    MaxRestarts    \* bound: restarts by the operator

VARIABLES
    exe,           \* the program file of each host: [ver, whole, by]
    draft,         \* the master's .cangling-update.tmp, the same for every writer
    run,           \* the running version, 0 when the process does not come back
    moved,         \* the running process's file has been replaced
    keeper, slot,  \* repo/np4/np4-update/latest and updates/; 0: absent
    upgrading,     \* UPGRADING
    pc, ver,       \* step and version of each upload, and of "cli"
    gone,          \* uploads whose client has disconnected
    due,           \* a restart of the master has been scheduled
    offer, wpc,    \* the worker's offer and step
    applying, cooling,   \* APPLYING; the worker's back-off
    syncs, clis, drops, restarts

files  == <<exe, draft>>
master == <<upgrading, pc, ver, gone>>
works == <<offer, wpc, applying, cooling>>
spent == <<syncs, clis, drops, restarts>>
vars  == <<files, run, moved, keeper, slot, master, due, works, spent>>

Hosts   == {"master", "worker"}
Writers == Uploads \cup {"cli"}
Files   == [ver : Versions, whole : BOOLEAN, by : Writers \cup {None}]

TypeOK ==
    /\ exe \in [Hosts -> Files] /\ draft \in Files \cup {None}
    /\ run \in [Hosts -> Versions \cup {0}] /\ moved \in [Hosts -> BOOLEAN]
    /\ keeper \in Versions \cup {0} /\ slot \in Versions \cup {0}
    /\ upgrading \in BOOLEAN /\ gone \subseteq Uploads /\ due \in BOOLEAN
    /\ pc \in [Writers -> {"idle", "fetch", "copy", "fill", "rename", "done"}]
    /\ ver \in [Writers -> Versions \cup {None}]
    /\ offer \in Versions \cup {None} /\ wpc \in {"idle", "download", "restart"}
    /\ applying \in BOOLEAN /\ cooling \in BOOLEAN

Init ==
    /\ exe = [h \in Hosts |-> [ver |-> 1, whole |-> TRUE, by |-> None]]
    /\ draft = None
    /\ run = [h \in Hosts |-> 1] /\ moved = [h \in Hosts |-> FALSE]
    /\ keeper = 0 /\ slot = 1
    /\ upgrading = FALSE /\ gone = {} /\ due = FALSE
    /\ pc = [w \in Writers |-> "idle"] /\ ver = [w \in Writers |-> None]
    /\ offer = None /\ wpc = "idle" /\ applying = FALSE /\ cooling = FALSE
    /\ syncs = 0 /\ clis = 0 /\ drops = 0 /\ restarts = 0

\* binaries::stored: the keeper's package before the program's own copy.
Stored == IF keeper # 0 THEN keeper ELSE slot
-----------------------------------------------------------------------------
(* Writing the program file: copy_executable. *)

\* Every writer removes and makes the same draft.
Copy(w) ==
    /\ pc[w] = "copy"
    /\ draft' = [ver |-> ver[w], whole |-> FALSE, by |-> w]
    /\ pc' = [pc EXCEPT ![w] = "fill"]
    /\ UNCHANGED <<exe, run, moved, keeper, slot, upgrading, ver, gone, due, works, spent>>

\* The bytes go to the file the writer opened, wherever it is now.
Fill(w) ==
    /\ pc[w] = "fill"
    /\ draft' = IF draft # None /\ draft.by = w THEN [draft EXCEPT !.whole = TRUE] ELSE draft
    /\ exe' = [exe EXCEPT !["master"].whole = @ \/ exe["master"].by = w]
    /\ pc' = [pc EXCEPT ![w] = "rename"]
    /\ UNCHANGED <<run, moved, keeper, slot, upgrading, ver, gone, due, works, spent>>

\* A draft that somebody else renamed makes this fail.  An upload then schedules
\* the restart, in a task of its own; `update` does not.
Rename(w) ==
    /\ pc[w] = "rename"
    /\ IF draft = None THEN UNCHANGED <<exe, draft, moved, due>>
       ELSE /\ exe' = [exe EXCEPT !["master"] = draft] /\ draft' = None
            /\ moved' = [moved EXCEPT !["master"] = TRUE]
            /\ due' = (due \/ w \notin gone \cup {"cli"})
    /\ pc' = [pc EXCEPT ![w] = "done"]
    /\ upgrading' = (upgrading /\ w \in gone \cup {"cli"})
    /\ UNCHANGED <<run, keeper, slot, ver, gone, works, spent>>
-----------------------------------------------------------------------------
(* The master's page. *)

\* Mutant: the flag is set and not asked.
AcquireAnyway(u) ==
    /\ upgrading' = TRUE
    /\ pc' = [pc EXCEPT ![u] = "fetch"]

\* UpgradeGuard::acquire
Acquire(u) ==
    /\ upgrading' = TRUE
    /\ pc' = [pc EXCEPT ![u] = IF upgrading THEN "done" ELSE "fetch"]

\* upload or online_apply: what comes is some version.
Request(u) ==
    /\ pc[u] = "idle" /\ run["master"] # 0
    /\ CliBeside \/ pc["cli"] \in {"idle", "done"}
    /\ Acquire(u)
    /\ \E v \in Versions : ver' = [ver EXCEPT ![u] = v]
    /\ UNCHANGED <<files, run, moved, keeper, slot, gone, due, works, spent>>

\* apply_file: only a version above the running one.
Newer(u) == ver[u] > run["master"]

\* The file is in and its version was asked; install_into writes the slot.  A
\* process whose own file was replaced writes beside it.
Inspect(u) ==
    /\ pc[u] = "fetch"
    /\ IF ~Newer(u)
       THEN /\ pc' = [pc EXCEPT ![u] = "done"] /\ upgrading' = FALSE
            /\ UNCHANGED <<slot, due>>
       ELSE /\ slot' = ver[u]
            /\ pc' = [pc EXCEPT ![u] = IF moved["master"] THEN "done" ELSE "copy"]
            /\ due' = (due \/ moved["master"])
            /\ upgrading' = ~moved["master"]
    /\ UNCHANGED <<files, run, moved, keeper, ver, gone, works, spent>>

\* The client disconnects: the guard goes with the handler, spawn_blocking not.
Drop(u) ==
    /\ pc[u] \in DropAt /\ drops < MaxDrops
    /\ u \notin gone /\ gone' = gone \cup {u}
    /\ drops' = drops + 1 /\ upgrading' = FALSE
    /\ pc' = IF pc[u] = "fetch" THEN [pc EXCEPT ![u] = "done"] ELSE pc
    /\ UNCHANGED <<files, run, moved, keeper, slot, ver, due, works, syncs, clis, restarts>>
-----------------------------------------------------------------------------
(* The command line and the keeper on the master's host. *)

\* The keeper's rsync brings a package.
KeeperSync ==
    /\ syncs < MaxSyncs /\ syncs' = syncs + 1
    /\ \E v \in Versions : v > keeper /\ keeper' = v
    /\ UNCHANGED <<files, run, moved, slot, master, due, works, clis, drops, restarts>>

\* `update`: the keeper's package or a release, if it is above the program on
\* disk; it goes to updates/ and from there over the program.
CliUpdate ==
    /\ clis < MaxClis /\ clis' = clis + 1
    /\ pc["cli"] \in {"idle", "done"} /\ exe["master"].whole
    /\ CliBeside \/ \A u \in Uploads : pc[u] \in {"idle", "done"}
    /\ \E v \in {w \in Versions : w > exe["master"].ver} :
           /\ slot' = v /\ ver' = [ver EXCEPT !["cli"] = v]
           /\ pc' = [pc EXCEPT !["cli"] = "copy"]
    /\ UNCHANGED <<files, run, moved, keeper, upgrading, gone, due, works, syncs, drops, restarts>>

\* `update --import`
CliImport ==
    /\ clis < MaxClis /\ clis' = clis + 1
    /\ slot' \in Versions
    /\ UNCHANGED <<files, run, moved, keeper, master, due, works, syncs, drops, restarts>>
-----------------------------------------------------------------------------
(* The restart of a process: service::request_restart. *)

\* What starts: systemd the unit's ExecStart, spawn_reexec the path the process
\* believes to be its own.
Starts(h) ==
    IF ~exe[h].whole \/ (h \notin Installed /\ moved[h]) THEN 0 ELSE exe[h].ver

\* The master's process ends and the next one seeds its slot; uploads are lost.
MasterStarts(v) ==
    /\ run' = [run EXCEPT !["master"] = v]
    /\ moved' = [moved EXCEPT !["master"] = FALSE]
    /\ slot' = IF v = 0 THEN slot ELSE v
    /\ pc' = [w \in Writers |-> IF w # "cli" /\ pc[w] # "idle" THEN "done" ELSE pc[w]]
    /\ upgrading' = FALSE /\ due' = FALSE
    /\ UNCHANGED <<exe, draft, keeper, ver, gone, works>>

\* schedule_restart; systemctl may refuse, which is logged and no more.
RestartMaster ==
    /\ due /\ run["master"] # 0
    /\ \/ MasterStarts(Starts("master")) /\ UNCHANGED spent
       \/ /\ "master" \in Installed /\ restarts < MaxRestarts /\ restarts' = restarts + 1
          /\ due' = FALSE
          /\ UNCHANGED <<files, run, moved, keeper, slot, master, works, syncs, clis, drops>>

\* The operator restarts the master.
Operator ==
    /\ restarts < MaxRestarts /\ restarts' = restarts + 1
    /\ MasterStarts(IF exe["master"].whole THEN exe["master"].ver ELSE 0)
    /\ UNCHANGED <<syncs, clis, drops>>
-----------------------------------------------------------------------------
(* The worker follows. *)

\* offer_for, in the answer to a heartbeat; client::run waits out its back-off
\* and APPLYING lets one in.
Offer ==
    /\ wpc = "idle" /\ run["worker"] # 0 /\ run["master"] > run["worker"]
    /\ Stored # 0 /\ ~cooling /\ ~applying
    /\ offer' = run["master"] /\ wpc' = "download" /\ applying' = TRUE
    /\ UNCHANGED <<files, run, moved, keeper, slot, master, due, cooling, spent>>

\* Mutant: APPLYING stays set.
GiveUpForGood ==
    wpc' = "idle" /\ offer' = None /\ cooling' = TRUE /\ UNCHANGED applying

GiveUp ==
    wpc' = "idle" /\ offer' = None /\ cooling' = TRUE /\ applying' = FALSE

\* Mutant: the downloaded program is not asked for its version.
AnyVersion == TRUE

\* verify_version
AsOffered == Stored = offer

\* apply_inner and finish_replace: what is served now must be what was offered.
Download ==
    /\ wpc = "download"
    /\ \/ /\ run["master"] # 0 /\ AsOffered
          /\ exe' = [exe EXCEPT !["worker"].ver = IF moved["worker"] THEN @ ELSE Stored]
          /\ moved' = [moved EXCEPT !["worker"] = TRUE]
          /\ wpc' = "restart"
          /\ UNCHANGED <<offer, applying, cooling>>
       \/ /\ run["master"] = 0 \/ ~AsOffered
          /\ GiveUp /\ UNCHANGED <<exe, moved>>
    /\ UNCHANGED <<draft, run, keeper, slot, master, due, spent>>

RestartWorker ==
    /\ wpc = "restart"
    /\ \/ /\ run' = [run EXCEPT !["worker"] = Starts("worker")]
          /\ moved' = [moved EXCEPT !["worker"] = FALSE]
          /\ offer' = None /\ wpc' = "idle" /\ applying' = FALSE /\ cooling' = FALSE
          /\ UNCHANGED restarts
       \/ /\ "worker" \in Installed /\ restarts < MaxRestarts /\ restarts' = restarts + 1
          /\ GiveUp /\ UNCHANGED <<run, moved>>
    /\ UNCHANGED <<exe, draft, keeper, slot, master, due, syncs, clis, drops>>

\* RETRY_SECS
CoolDown ==
    /\ cooling /\ cooling' = FALSE
    /\ UNCHANGED <<files, run, moved, keeper, slot, master, due, offer, wpc, applying, spent>>

\* The servers run on.
Stay == UNCHANGED vars

Next ==
    \/ \E w \in Writers : Copy(w) \/ Fill(w) \/ Rename(w)
    \/ \E u \in Uploads : Request(u) \/ Inspect(u) \/ Drop(u)
    \/ KeeperSync \/ CliUpdate \/ CliImport \/ RestartMaster \/ Operator
    \/ Offer \/ Download \/ RestartWorker \/ CoolDown \/ Stay

Spec == Init /\ [][Next]_vars

\* The worker's loop turns, and blocking work and restarts end.
Fairness ==
    /\ \A w \in Writers : WF_vars(Copy(w)) /\ WF_vars(Fill(w)) /\ WF_vars(Rename(w))
    /\ WF_vars(RestartMaster) /\ WF_vars(Offer) /\ WF_vars(Download)
    /\ WF_vars(RestartWorker) /\ WF_vars(CoolDown)
FairSpec == Spec /\ Fairness
-----------------------------------------------------------------------------
\* A host that restarts finds a whole program to start, whatever updates,
\* imports and restarts came before.
AlwaysStarts == \A h \in Hosts : run[h] # 0

\* README: nothing is ever downgraded, though the page, the command line and
\* the master each compare with another version.
NoDowngrade == [][\A h \in Hosts : run'[h] >= run[h] \/ run'[h] = 0]_vars

\* A worker only ever starts a version its master has run before.
FollowsMaster ==
    [][run'["worker"] # run["worker"] /\ run'["worker"] # 0 => run'["worker"] <= run["master"]]_vars

\* Once the binary the master serves stays the version it runs, the worker gets it.
CatchesUp ==
    <>[](Stored = run["master"] /\ run["master"] # 0) => <>[](run["worker"] >= run["master"])

\* README: the master compares versions at a heartbeat and an older worker
\* downloads, replaces and restarts.  A newer package of the keeper is served
\* under the master's version and refused.
WorkerFollows == <>[](run["worker"] = run["master"])
=============================================================================
