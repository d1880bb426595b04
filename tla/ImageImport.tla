---------------------------- MODULE ImageImport ----------------------------
(***************************************************************************)
(* The distribution of an image archive to the nodes (src/src/images.rs):  *)
(* the monitor of the master's directory, the import jobs that wait for    *)
(* one lock, the workers that fetch the archive and import it in a job of  *)
(* their own, which the master polls, and the map that holds the jobs      *)
(* (src/src/progress.rs).                                                  *)
(*                                                                         *)
(* There is one archive name.  A file is a version and whether all of it   *)
(* is there; its size and time, the monitor's signature, tell exactly that.*)
(***************************************************************************)
EXTENDS Naturals, Sequences, FiniteSets

CONSTANTS
    None,
    Master, Order,      \* the nodes in the order of their names
    Selections,         \* the sets of nodes a request names ({}: all)
    Stalls,             \* a copy into the directory may pause for a poll of the monitor
    JobIds,             \* 1..n: the jobs, in the order of their creation
    MaxRequests, MaxChanges, MaxTroubles

VARIABLES
    file,               \* the archive in the master's directory
    base, cand,         \* the monitor: the signature it deployed, the one it saw once
    kind, sel,          \* of each job: import, auto or delete; the nodes asked for, then those it is for
    jobs,               \* of each job: its entry in the master's map
    pc, todo,           \* of each job's task: its step, the nodes still to do, in their order
    did,                \* of each job: the nodes where k3s did what it says (never read by the code)
    holder,             \* the job that has image_import_lock, the console's active job
    up,                 \* the workers that are online
    wjobs, wpc, wtmp,   \* of each worker: the map, the steps and the .part files of its jobs
    wfile,              \* of each worker: the archive in its directory
    images,             \* of each node: what k3s holds
    asked, changes, troubles

Nodes   == {Order[i] : i \in DOMAIN Order}
Workers == Nodes \ {Master}

master == <<kind, sel, jobs, pc, todo, did, holder>>
worker == <<wjobs, wpc, wtmp, wfile>>
spent  == <<asked, changes, troubles>>
vars   == <<file, base, cand, master, up, worker, images, spent>>

Archive == [ver : 0..MaxChanges, whole : BOOLEAN]

TypeOK ==
    /\ {file, base, cand} \subseteq Archive \cup {None}
    /\ kind \in [JobIds -> {"none", "import", "auto", "delete"}] /\ sel \in [JobIds -> SUBSET Nodes]
    /\ jobs \in [JobIds -> {"none", "open", "ok", "failed"}] /\ todo \in [JobIds -> SUBSET Nodes]
    /\ pc \in [JobIds -> {"none", "wait", "next", "poll", "end"}]
    /\ did \in [JobIds -> SUBSET Nodes] /\ holder \in JobIds \cup {None} /\ up \subseteq Workers
    /\ wjobs \in [Workers -> [JobIds -> {"none", "open", "ok", "failed"}]]
    /\ wpc \in [Workers -> [JobIds -> {"none", "get", "place", "import"}]]
    /\ wtmp \in [Workers -> [JobIds -> Archive \cup {None}]]
    /\ wfile \in [Workers -> Archive \cup {None}] /\ images \in [Nodes -> Archive \cup {None}]

\* The monitor's baseline is what the directory holds at the start.
Init ==
    /\ file \in {None, [ver |-> 0, whole |-> TRUE]} /\ base = file /\ cand = None
    /\ kind = [j \in JobIds |-> "none"] /\ sel = [j \in JobIds |-> {}]
    /\ jobs = [j \in JobIds |-> "none"] /\ pc = [j \in JobIds |-> "none"]
    /\ todo = [j \in JobIds |-> {}] /\ did = [j \in JobIds |-> {}]
    /\ holder = None /\ up = Workers
    /\ wjobs = [w \in Workers |-> [j \in JobIds |-> "none"]] /\ wpc = wjobs
    /\ wtmp = [w \in Workers |-> [j \in JobIds |-> None]] /\ wfile = [w \in Workers |-> None]
    /\ images = [n \in Nodes |-> None]
    /\ asked = 0 /\ changes = 0 /\ troubles = 0
-----------------------------------------------------------------------------
\* The directory: an administrator copies a file into it, in place and in two
\* steps; upload, which renames; delete_packages.
CopyBegins ==
    /\ changes < MaxChanges /\ (file # None => file.whole)
    /\ changes' = changes + 1 /\ file' = [ver |-> changes', whole |-> FALSE]
    /\ UNCHANGED <<base, cand, master, up, worker, images, asked, troubles>>

CopyEnds ==
    /\ file # None /\ ~file.whole
    /\ file' = [file EXCEPT !.whole = TRUE]
    /\ UNCHANGED <<base, cand, master, up, worker, images, spent>>

Upload ==
    /\ changes < MaxChanges
    /\ changes' = changes + 1 /\ file' = [ver |-> changes', whole |-> TRUE]
    /\ UNCHANGED <<base, cand, master, up, worker, images, asked, troubles>>

DeletePackage ==
    /\ changes < MaxChanges /\ file # None
    /\ changes' = changes + 1 /\ file' = None
    /\ UNCHANGED <<base, cand, master, up, worker, images, asked, troubles>>
-----------------------------------------------------------------------------
\* JobHub::create, and the task: an import waits for the lock, a deletion does not.
Queue(k, nodes) ==
    \E j \in JobIds :
        /\ kind[j] = "none" /\ \A i \in 1..(j - 1) : kind[i] # "none"
        /\ kind' = [kind EXCEPT ![j] = k] /\ sel' = [sel EXCEPT ![j] = nodes]
        /\ jobs' = [jobs EXCEPT ![j] = "open"] /\ pc' = [pc EXCEPT ![j] = "wait"]

\* A file that is being copied has a new size at every poll, unless the copy stalls.
Same(signature) == signature = file /\ (file.whole \/ Stalls)

\* Mutant: a file under a name that was deployed is not looked at.
DeployedOnce == base # None

\* The file is the one that was deployed last.
Deployed == base # None /\ Same(base)

\* monitor: one turn of its loop.
Poll ==
    /\ IF file = None
       THEN base' = None /\ cand' = None /\ UNCHANGED <<kind, sel, jobs, pc>>
       ELSE \/ Deployed /\ cand' = None /\ UNCHANGED <<base, kind, sel, jobs, pc>>
            \/ ~Deployed /\ ~Same(cand) /\ cand' = file /\ UNCHANGED <<base, kind, sel, jobs, pc>>
            \/ ~Deployed /\ Same(cand) /\ base' = file /\ cand' = None /\ Queue("auto", {})
    /\ UNCHANGED <<file, todo, did, holder, up, worker, images, spent>>

\* start_import, start_node_image_delete.
Request(k, nodes) ==
    /\ asked < MaxRequests /\ asked' = asked + 1
    /\ k = "import" => file # None
    /\ k = "delete" => nodes # {}
    /\ Queue(k, nodes)
    /\ UNCHANGED <<file, base, cand, todo, did, holder, up, worker, images, changes, troubles>>

\* The end of a job's task.
Finish(j, outcome) ==
    /\ jobs' = [jobs EXCEPT ![j] = outcome]
    /\ pc' = [pc EXCEPT ![j] = "end"] /\ todo' = [todo EXCEPT ![j] = {}]
    /\ holder' = IF holder = j THEN None ELSE holder

\* target_nodes: the nodes asked for that are online.
Targets(j) == {n \in up \cup {Master} : sel[j] = {} \/ n \in sel[j]}

Begin(j) ==
    /\ pc[j] = "wait"
    /\ kind[j] # "delete" => holder = None
    /\ IF Targets(j) = {} THEN Finish(j, "failed") /\ UNCHANGED sel
       ELSE /\ holder' = IF kind[j] = "delete" THEN holder ELSE j
            /\ pc' = [pc EXCEPT ![j] = "next"] /\ todo' = [todo EXCEPT ![j] = Targets(j)]
            /\ sel' = [sel EXCEPT ![j] = Targets(j)] /\ UNCHANGED jobs
    /\ UNCHANGED <<file, base, cand, kind, did, up, worker, images, spent>>

\* The node whose turn it is.
First(i, j) == Order[i] \in todo[j] /\ \A k \in 1..(i - 1) : Order[k] \notin todo[j]
Turn(j)     == Order[CHOOSE i \in DOMAIN Order : First(i, j)]

\* A node is done: the next one, or the job's end.
Advance(j) ==
    IF todo[j] = {Turn(j)} THEN Finish(j, "ok")
    ELSE /\ todo' = [todo EXCEPT ![j] = @ \ {Turn(j)}] /\ pc' = [pc EXCEPT ![j] = "next"]
         /\ UNCHANGED <<jobs, holder>>

\* import_file: k3s takes a whole archive; half of one it may refuse or take.
Done(j, n, held)       == images' = [images EXCEPT ![n] = held] /\ did' = [did EXCEPT ![j] = @ \cup {n}]
Imports(j, n, archive) == archive # None /\ Done(j, n, archive)
Refuses(archive)       == (archive # None => ~archive.whole) /\ UNCHANGED <<images, did>>

\* import_cluster, delete_cluster_images: the master itself.
Local(j) ==
    /\ pc[j] = "next" /\ Turn(j) = Master
    /\ \/ kind[j] = "delete" /\ Done(j, Master, None) /\ Advance(j)
       \/ kind[j] # "delete" /\ Imports(j, Master, file) /\ Advance(j)
       \/ kind[j] # "delete" /\ Refuses(file) /\ Finish(j, "failed")
    /\ UNCHANGED <<file, base, cand, kind, sel, up, worker, spent>>

\* import_cluster, worker_import: the worker answers with a job of its own.
Post(j) ==
    LET w == Turn(j) IN
    /\ pc[j] = "next" /\ kind[j] # "delete" /\ w \in up
    /\ wjobs' = [wjobs EXCEPT ![w][j] = "open"] /\ wpc' = [wpc EXCEPT ![w][j] = "get"]
    /\ pc' = [pc EXCEPT ![j] = "poll"]
    /\ UNCHANGED <<file, base, cand, kind, sel, jobs, todo, did, holder, up, wtmp, wfile, images, spent>>

\* delete_cluster_images, worker_image_delete.
PostDelete(j) ==
    LET w == Turn(j) IN
    /\ pc[j] = "next" /\ kind[j] = "delete" /\ w \in up
    /\ Done(j, w, None) /\ Advance(j)
    /\ UNCHANGED <<file, base, cand, kind, sel, up, worker, spent>>

\* import_cluster: the poll of the worker's job, every half second.
PollWorker(j) ==
    LET w == Turn(j) IN
    /\ pc[j] = "poll" /\ w \in up
    /\ \/ wjobs[w][j] = "ok" /\ Advance(j)
       \/ wjobs[w][j] \in {"failed", "none"} /\ Finish(j, "failed")
    /\ UNCHANGED <<file, base, cand, kind, sel, did, up, worker, images, spent>>

\* The worker does not answer.
Unreachable(j) ==
    /\ pc[j] \in {"next", "poll"} /\ Turn(j) \in Workers \ up
    /\ Finish(j, "failed")
    /\ UNCHANGED <<file, base, cand, kind, sel, did, up, worker, images, spent>>
-----------------------------------------------------------------------------
\* worker_import: the download into a .part file of its own, the rename, the
\* import of whatever has the archive's name then, the outcome.
FinishWorker(w, j, outcome) ==
    wjobs' = [wjobs EXCEPT ![w][j] = outcome] /\ wpc' = [wpc EXCEPT ![w][j] = "none"]

Get(w, j) ==
    /\ wpc[w][j] = "get"
    /\ IF file = None THEN FinishWorker(w, j, "failed") /\ UNCHANGED wtmp
       ELSE /\ wtmp' = [wtmp EXCEPT ![w][j] = file] /\ wpc' = [wpc EXCEPT ![w][j] = "place"]
            /\ UNCHANGED wjobs
    /\ UNCHANGED <<file, base, cand, master, up, wfile, images, spent>>

Place(w, j) ==
    /\ wpc[w][j] = "place"
    /\ wfile' = [wfile EXCEPT ![w] = wtmp[w][j]] /\ wtmp' = [wtmp EXCEPT ![w][j] = None]
    /\ wpc' = [wpc EXCEPT ![w][j] = "import"]
    /\ UNCHANGED <<file, base, cand, master, up, wjobs, images, spent>>

Import(w, j) ==
    /\ wpc[w][j] = "import"
    /\ \/ Imports(j, w, wfile[w]) /\ FinishWorker(w, j, "ok")
       \/ Refuses(wfile[w]) /\ FinishWorker(w, j, "failed")
    /\ UNCHANGED <<file, base, cand, kind, sel, jobs, pc, todo, holder, up, wtmp, wfile, spent>>
-----------------------------------------------------------------------------
Trouble == troubles < MaxTroubles /\ troubles' = troubles + 1

\* k3s or a request fails; the worker's task, if there is one, goes on.
Fail(j) ==
    /\ Trouble /\ pc[j] \in {"next", "poll"} /\ Finish(j, "failed")
    /\ UNCHANGED <<file, base, cand, kind, sel, did, up, worker, images, asked, changes>>

WorkerFails(w, j) ==
    /\ Trouble /\ wpc[w][j] # "none" /\ FinishWorker(w, j, "failed")
    /\ wtmp' = [wtmp EXCEPT ![w][j] = None]
    /\ UNCHANGED <<file, base, cand, master, up, wfile, images, asked, changes>>

\* A worker stops: its tasks and its map are gone when it comes back.
Down(w) ==
    /\ Trouble /\ w \in up /\ up' = up \ {w}
    /\ wjobs' = [wjobs EXCEPT ![w] = [j \in JobIds |-> "none"]]
    /\ wpc' = [wpc EXCEPT ![w] = [j \in JobIds |-> "none"]]
    /\ wtmp' = [wtmp EXCEPT ![w] = [j \in JobIds |-> None]]
    /\ UNCHANGED <<file, base, cand, master, wfile, images, asked, changes>>

Up(w) ==
    /\ w \in Workers \ up /\ up' = up \cup {w}
    /\ UNCHANGED <<file, base, cand, master, worker, images, spent>>

\* The master stops: what it had queued is gone, and the file there becomes the baseline.
Restart ==
    /\ Trouble /\ base' = file /\ cand' = None /\ holder' = None
    /\ jobs' = [j \in JobIds |-> "none"]
    /\ pc' = [j \in JobIds |-> IF kind[j] = "none" THEN "none" ELSE "end"]
    /\ todo' = [j \in JobIds |-> {}]
    /\ UNCHANGED <<file, kind, sel, did, up, worker, images, asked, changes>>

\* JobHub::create for another handler, when there are more than 80 jobs.

\* Mutant: jobs at work are dropped too.
KeptNone(entry) == "none"
Kept(entry)     == IF entry = "open" THEN entry ELSE "none"
Crowd ==
    /\ Trouble /\ jobs' = [j \in JobIds |-> Kept(jobs[j])]
    /\ UNCHANGED <<file, base, cand, kind, sel, pc, todo, did, holder, up, worker, images, asked, changes>>

CrowdWorker(w) ==
    /\ Trouble /\ wjobs' = [wjobs EXCEPT ![w] = [j \in JobIds |-> Kept(@[j])]]
    /\ UNCHANGED <<file, base, cand, master, up, wpc, wtmp, wfile, images, asked, changes>>

WorkerStep(w, j) == Get(w, j) \/ Place(w, j) \/ Import(w, j)

Next ==
    \/ CopyBegins \/ CopyEnds \/ Upload \/ DeletePackage \/ Poll \/ Restart \/ Crowd
    \/ \E k \in {"import", "delete"}, nodes \in Selections : Request(k, nodes)
    \/ \E j \in JobIds :
          Begin(j) \/ Local(j) \/ Post(j) \/ PostDelete(j) \/ PollWorker(j) \/ Unreachable(j) \/ Fail(j)
    \/ \E w \in Workers, j \in JobIds : Get(w, j) \/ Place(w, j) \/ Import(w, j) \/ WorkerFails(w, j)
    \/ \E w \in Workers : Down(w) \/ Up(w) \/ CrowdWorker(w)

Spec == Init /\ [][Next]_vars

\* Tasks run on, polls come again, a copy ends; a worker need not come back.
Fairness ==
    /\ WF_vars(CopyEnds) /\ WF_vars(Poll)
    /\ \A j \in JobIds :
          /\ WF_vars(Begin(j)) /\ WF_vars(Local(j)) /\ WF_vars(Post(j)) /\ WF_vars(PostDelete(j))
          /\ WF_vars(PollWorker(j)) /\ WF_vars(Unreachable(j))
    /\ \A w \in Workers, j \in JobIds : WF_vars(WorkerStep(w, j))

FairSpec == Spec /\ Fairness
-----------------------------------------------------------------------------
\* progress.rs, images.rs: a job at work has its entry; one that ended well was
\* done on every online node it was for, by that node's own account.
OutcomesHold ==
    \A j \in JobIds :
        /\ pc[j] \in {"wait", "next", "poll"} => jobs[j] = "open"
        /\ jobs[j] = "ok" => sel[j] # {} /\ sel[j] \subseteq did[j]

\* images.rs monitor: the archive that stays in the directory ends up on every
\* node, however imports by hand come in between, unless something failed, it
\* was there at the start or its images were removed again.
StableIsDeployed ==
    <>[](\/ file = None \/ file.ver = 0 \/ troubles > 0
         \/ \E j \in JobIds : kind[j] = "delete"
         \/ \A n \in Nodes : images[n] = file)

\* images.rs: an import does not keep the lock for ever.
EveryImportEnds == \A j \in JobIds : pc[j] = "wait" ~> pc[j] = "end"
=============================================================================
