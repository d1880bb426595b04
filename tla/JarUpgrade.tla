------------------------------ MODULE JarUpgrade ------------------------------
(***************************************************************************)
(* The JAR files of the cluster's containers: the directory they are       *)
(* uploaded to and their distribution to the other hosts (jar_store.rs),   *)
(* the check of the environment that writes the upgrade script, the run of *)
(* that script over the containers of every node, and the repair of the    *)
(* shared storage that takes the same flag (jar_upgrade.rs).               *)
(*                                                                         *)
(* Handlers interleave at their awaits, a client that hangs up drops its   *)
(* handler there, and any command on a host can fail.  A JAR is the number *)
(* of the upload it came with: 0 is none in the upload directory, and the  *)
(* version the containers started with on a node.                          *)
(***************************************************************************)
EXTENDS Naturals, Sequences, SequencesExt, FiniteSets

CONSTANTS Jars,         \* the required JAR names
          Master,       \* the node this program runs on
          Order,        \* the containers that mount one: [node, jar] in order
          Nodes,        \* the nodes with the shared storage, Master among them
          Calls,        \* requests that can be in flight at once
          Ops,          \* the operations they ask for
          MaxRequests,  \* bound on requests
          MaxTroubles,  \* bound on failures, hang-ups and restarts
          None

VARIABLES incoming,  \* the upload directory: the version of each JAR, or 0
          report,    \* the last saved check: "none", "bad" or "ok"
          script,    \* the upgrade script: the containers it visits, or None
          flag,      \* UPGRADING
          jar,       \* the JAR mounted in each container
          up,        \* the JAR each container runs
          copy,      \* the distribution directory of each node
          mount,     \* the file system of the shared directory on each node
          call, requests, troubles

vars == <<incoming, report, script, flag, jar, up, copy, mount, call,
          requests, troubles>>
disk == <<incoming, copy>>
checked == <<report, script>>
containers == <<jar, up>>

Targets == ToSet(Order)
Local(t) == t.node = Master
Idle == [op |-> "none", pc |-> "idle"]

Init ==
    /\ incoming = [j \in Jars |-> 0]
    /\ report = "none" /\ script = None
    /\ flag = FALSE
    /\ jar = [t \in Targets |-> 0] /\ up = jar
    /\ copy = [n \in Nodes |-> [j \in Jars |-> 0]]
    /\ mount = [n \in Nodes |-> "nfs"]
    /\ call = [c \in Calls |-> Idle]
    /\ requests = 0 /\ troubles = 0

At(c, op, pc) == call[c].op = op /\ call[c].pc = pc
Goto(c, state) == call' = [call EXCEPT ![c] = state]
Ends(c, how) == Goto(c, [op |-> call[c].op, pc |-> how])
Fails(c, cause) ==
    Goto(c, [op |-> call[c].op, pc |-> "failed", cause |-> cause])
Trouble == troubles < MaxTroubles /\ troubles' = troubles + 1
Asks(c, op) ==
    /\ op \in Ops
    /\ call[c].pc \in {"idle", "done", "failed", "refused"}
    /\ requests < MaxRequests
    /\ requests' = requests + 1

-----------------------------------------------------------------------------
\* Uploads.  The batch upload of the upgrade page looks at the flag once,
\* before the first byte; the upload of the JAR list does not look at all.

StartUpload(c) ==
    /\ Asks(c, "upload") /\ ~flag
    /\ \E S \in SUBSET Jars \ {{}} :
         Goto(c, [op |-> "upload", pc |-> "receive", left |-> S, got |-> S,
                  version |-> requests'])
    /\ UNCHANGED <<disk, checked, flag, containers, mount, troubles>>

StartStore(c) ==
    /\ Asks(c, "store")
    /\ \E S \in SUBSET Jars \ {{}} :
         Goto(c, [op |-> "store", pc |-> "receive", left |-> S, got |-> S,
                  version |-> requests'])
    /\ UNCHANGED <<disk, checked, flag, containers, mount, troubles>>

Pairs(S) == Nodes \X S
Syncing(S) == [op |-> "store", pc |-> "sync", left |-> Pairs(S), held |-> None]

\* a received file replaces the one of its name by a rename
Receive(c) ==
    /\ call[c].pc = "receive"
    /\ \E j \in call[c].left :
         LET left == call[c].left \ {j} IN
         /\ incoming' = [incoming EXCEPT ![j] = call[c].version]
         /\ Goto(c, IF left # {} THEN [call[c] EXCEPT !.left = left]
                    ELSE IF call[c].op = "store" THEN Syncing(call[c].got)
                    ELSE [call[c] EXCEPT !.pc = "clear",
                                         !.left = Jars \ call[c].got])
    /\ UNCHANGED <<copy, checked, flag, containers, mount, requests, troubles>>

\* the JARs the batch did not bring go, one by one
Clear(c) ==
    /\ At(c, "upload", "clear")
    /\ IF call[c].left = {} THEN Ends(c, "done") /\ UNCHANGED incoming
       ELSE \E j \in call[c].left :
              /\ incoming' = [incoming EXCEPT ![j] = 0]
              /\ Goto(c, [call[c] EXCEPT !.left = @ \ {j}])
    /\ UNCHANGED <<copy, checked, flag, containers, mount, requests, troubles>>

\* an error of the upload, or its client hanging up: what it did stays done
UploadBreaks(c) ==
    /\ call[c].pc \in {"receive", "clear"} /\ Trouble
    /\ Fails(c, "trouble")
    /\ UNCHANGED <<disk, checked, flag, containers, mount, requests>>

-----------------------------------------------------------------------------
\* The distribution, a task of its own: the digests are compared, the file is
\* copied beside its target and moved over it.

StartSync(c) ==
    /\ Asks(c, "sync")
    /\ LET present == {j \in Jars : incoming[j] # 0} IN
       present # {} /\ Goto(c, Syncing(present))
    /\ UNCHANGED <<disk, checked, flag, containers, mount, troubles>>

Fetch(c) ==
    /\ At(c, "store", "sync") /\ call[c].held = None
    /\ \/ call[c].left = {} /\ Ends(c, "done")
       \/ \E p \in call[c].left :
            LET v == incoming[p[2]] IN
            CASE v = 0 -> Fails(c, "gone")
              [] v # 0 /\ copy[p[1]][p[2]] = v ->
                   Goto(c, [call[c] EXCEPT !.left = @ \ {p}])
              [] OTHER ->
                   Goto(c, [call[c] EXCEPT !.left = @ \ {p},
                                           !.held = <<p[1], p[2], v>>])
    /\ UNCHANGED <<disk, checked, flag, containers, mount, requests, troubles>>

Put(c) ==
    /\ At(c, "store", "sync") /\ call[c].held # None
    /\ LET h == call[c].held IN copy' = [copy EXCEPT ![h[1]][h[2]] = h[3]]
    /\ Goto(c, [call[c] EXCEPT !.held = None])
    /\ UNCHANGED <<incoming, checked, flag, containers, mount, requests,
                   troubles>>

SyncBreaks(c) ==
    /\ At(c, "store", "sync") /\ Trouble
    /\ Fails(c, "trouble")
    /\ UNCHANGED <<disk, checked, flag, containers, mount, requests>>

-----------------------------------------------------------------------------
\* The check of the environment looks at the flag once and then saves its
\* report and the script, one after the other.

StartCheck(c) ==
    /\ Asks(c, "check") /\ ~flag
    /\ Goto(c, [op |-> "check", pc |-> "inspect"])
    /\ UNCHANGED <<disk, checked, flag, containers, mount, troubles>>

\* the script visits the containers of the nodes that answered
Visits(silent) ==
    LET first[i \in 0..Len(Order)] ==
          IF i = 0 THEN <<>>
          ELSE IF Order[i].node \in silent THEN first[i - 1] ELSE Append(first[i - 1], Order[i])
    IN first[Len(Order)]

Inspected(c) ==
    /\ At(c, "check", "inspect")
    /\ \E silent \in SUBSET Nodes :
         /\ IF silent = {} THEN UNCHANGED troubles ELSE Trouble
         /\ report' = IF silent = {} THEN "ok" ELSE "bad"
         /\ Goto(c, [op |-> "check", pc |-> "write", new |-> Visits(silent)])
    /\ UNCHANGED <<disk, script, flag, containers, mount, requests>>

\* A shell reads its script as it runs it: one that runs meanwhile goes on with
\* what it had read, or at some place of the new text.
Rereads(new) == {SubSeq(new, i, Len(new)) : i \in 1..(Len(new) + 1)}
Reads(running, new) ==
    {[c \in Calls |-> IF c \in running THEN [call[c] EXCEPT !.left = rest]
                      ELSE call[c]]
       : rest \in UNION {{call[c].left} \cup Rereads(new) : c \in running}}

WriteScript(c) ==
    /\ At(c, "check", "write")
    /\ script' = call[c].new
    /\ LET running == {d \in Calls : At(d, "run", "run")}
           over == [op |-> "check", pc |-> "done"] IN
       IF running = {} THEN Goto(c, over)
       ELSE \E all \in Reads(running, call[c].new) :
              call' = [all EXCEPT ![c] = over]
    /\ UNCHANGED <<disk, report, flag, containers, mount, requests, troubles>>

CheckBreaks(c) ==
    /\ call[c].op = "check" /\ call[c].pc \in {"inspect", "write"} /\ Trouble
    /\ Fails(c, "trouble")
    /\ UNCHANGED <<disk, checked, flag, containers, mount, requests>>

-----------------------------------------------------------------------------
\* A run takes the flag and starts the script, container after container.

StartRun(c) ==
    /\ Asks(c, "run")
    /\ report = "ok" /\ script # None /\ \E j \in Jars : incoming[j] # 0
    /\ Goto(c, [op |-> "run", pc |-> "ready"])
    /\ UNCHANGED <<disk, checked, flag, containers, mount, troubles>>

\* Mutant: the store that does not look at what was there
SetsFlag(c, state) == flag' = TRUE /\ Goto(c, state)

TakesFlag(c, state) ==
    /\ flag' = TRUE
    /\ IF flag THEN Ends(c, "refused") ELSE Goto(c, state)

TakeFlag(c) ==
    /\ At(c, "run", "ready")
    /\ TakesFlag(c, [op |-> "run", pc |-> "run", left |-> script, took |-> {},
                     base |-> jar])
    /\ UNCHANGED <<disk, checked, containers, mount, requests, troubles>>

Quits(c, cause) == flag' = FALSE /\ Fails(c, cause)

\* A container of this node: the JAR is backed up, installed, and the container
\* restarted; when it does not run, the backup comes back and the script ends.
UpgradeLocal(c, t) ==
    \/ /\ jar' = [jar EXCEPT ![t] = incoming[t.jar]]
       /\ up' = [up EXCEPT ![t] = incoming[t.jar]]
       /\ Goto(c, [call[c] EXCEPT !.left = Tail(@),
                     !.took = @ \cup {[at |-> t, version |-> incoming[t.jar]]}])
       /\ UNCHANGED <<flag, troubles>>
    \/ /\ Trouble /\ Quits(c, "trouble")
       /\ \E alive \in {jar[t], None} : up' = [up EXCEPT ![t] = alive]
       /\ UNCHANGED jar

\* A container of another node: the quoting of the command makes its backup go
\* to a directory named "$RUN_ID" that is not there, so it ends before the
\* install, whatever the container does.
UpgradeRemote(c) ==
    /\ \/ Quits(c, "none") /\ UNCHANGED troubles
       \/ Quits(c, "trouble") /\ Trouble
    /\ UNCHANGED containers

RunStep(c) ==
    /\ At(c, "run", "run") /\ call[c].left # <<>>
    /\ LET t == Head(call[c].left) IN
       IF incoming[t.jar] = 0
       THEN /\ Goto(c, [call[c] EXCEPT !.left = Tail(@)])
            /\ UNCHANGED <<flag, containers, troubles>>
       ELSE IF Local(t) THEN UpgradeLocal(c, t) ELSE UpgradeRemote(c)
    /\ UNCHANGED <<disk, checked, mount, requests>>

RunEnds(c) ==
    /\ At(c, "run", "run") /\ call[c].left = <<>>
    /\ flag' = FALSE
    /\ IF call[c].took = {} THEN Fails(c, "nothing matched")
       ELSE Ends(c, "done")
    /\ UNCHANGED <<disk, checked, containers, mount, requests, troubles>>

-----------------------------------------------------------------------------
\* The repair of the storage: the flag is taken, every node is looked at, then
\* this node is switched, then the others.

StartRepair(c) ==
    /\ Asks(c, "repair")
    /\ flag' = TRUE
    /\ Goto(c, IF flag THEN [op |-> "repair", pc |-> "refused"]
               ELSE [op |-> "repair", pc |-> "preflight"])
    /\ UNCHANGED <<disk, checked, containers, mount, troubles>>

Preflight(c) ==
    /\ At(c, "repair", "preflight")
    /\ \/ /\ Goto(c, [op |-> "repair", pc |-> "repair", left |-> Nodes,
                      bad |-> FALSE])
          /\ UNCHANGED <<flag, troubles>>
       \/ Trouble /\ Quits(c, "trouble")
    /\ UNCHANGED <<disk, checked, containers, mount, requests>>

\* a client that hangs up in the preflight leaves the flag to nobody
RepairDropped(c) ==
    /\ At(c, "repair", "preflight") /\ Trouble
    /\ Fails(c, "dropped")
    /\ UNCHANGED <<disk, checked, flag, containers, mount, requests>>

\* A switch that fails goes back to NFS, or does not even manage that; a node
\* switched before can fail too, at its write test or restarting containers.
Outcomes(n) ==
    {<<"cifs", TRUE>>} \cup ({mount[n], "nfs", "cifs", "none"} \X {FALSE})

RepairNode(c) ==
    /\ At(c, "repair", "repair") /\ call[c].left # {}
    /\ \E n \in call[c].left : \E o \in Outcomes(n) :
         /\ Master \in call[c].left => n = Master
         /\ mount' = [mount EXCEPT ![n] = o[1]]
         /\ IF o[2] THEN UNCHANGED troubles ELSE Trouble
         /\ IF n = Master /\ ~o[2] THEN Quits(c, "trouble")
            ELSE /\ UNCHANGED flag
                 /\ Goto(c, [call[c] EXCEPT !.left = @ \ {n},
                                            !.bad = @ \/ ~o[2]])
    /\ UNCHANGED <<disk, checked, containers, requests>>

RepairEnds(c) ==
    /\ At(c, "repair", "repair") /\ call[c].left = {}
    /\ IF call[c].bad THEN Quits(c, "trouble")
       ELSE flag' = FALSE /\ Ends(c, "done")
    /\ UNCHANGED <<disk, checked, containers, mount, requests, troubles>>

\* The program restarts: requests, tasks and the flag are gone.  A container
\* whose upgrade was cut has the new JAR or the old.
Restart ==
    /\ Trouble
    /\ flag' = FALSE
    /\ call' = [c \in Calls |-> Idle]
    /\ \E T \in SUBSET {t \in Targets : Local(t)} :
         /\ \A t \in T : \E c \in Calls :
              /\ At(c, "run", "run")
              /\ call[c].left # <<>> /\ Head(call[c].left) = t
              /\ incoming[t.jar] # 0
         /\ jar' = [t \in Targets |-> IF t \in T THEN incoming[t.jar] ELSE jar[t]]
    /\ UNCHANGED <<disk, checked, up, mount, requests>>

Next ==
    \/ \E c \in Calls :
         \/ StartUpload(c) \/ StartStore(c) \/ Receive(c) \/ Clear(c)
         \/ UploadBreaks(c) \/ StartSync(c) \/ Fetch(c) \/ Put(c)
         \/ SyncBreaks(c) \/ StartCheck(c) \/ Inspected(c) \/ WriteScript(c)
         \/ CheckBreaks(c) \/ StartRun(c) \/ TakeFlag(c) \/ RunStep(c)
         \/ RunEnds(c) \/ StartRepair(c) \/ Preflight(c) \/ RepairDropped(c)
         \/ RepairNode(c) \/ RepairEnds(c)
    \/ Restart

Spec == Init /\ [][Next]_vars

-----------------------------------------------------------------------------
Versions == 0..MaxRequests

TypeOK ==
    /\ incoming \in [Jars -> Versions]
    /\ report \in {"none", "bad", "ok"} /\ flag \in BOOLEAN
    /\ script # None => ToSet(script) \subseteq Targets
    /\ jar \in [Targets -> Versions]
    /\ up \in [Targets -> Versions \cup {None}]
    /\ copy \in [Nodes -> [Jars -> Versions]]
    /\ mount \in [Nodes -> {"nfs", "cifs", "none"}]
    /\ DOMAIN call = Calls
    /\ requests \in 0..MaxRequests /\ troubles \in 0..MaxTroubles

Holds(c) ==
    \/ At(c, "run", "run")
    \/ At(c, "repair", "preflight") \/ At(c, "repair", "repair")

\* A run knows what it did: each container has the JAR the run gave it last, or
\* the one it had when the run started.  A second run of the script meanwhile
\* would overwrite it, and its backup would be the first run's new JAR.
RunOwnsContainers ==
    \A c \in Calls : At(c, "run", "run") =>
      \A t \in Targets :
        LET took == {g \in call[c].took : g.at = t} IN
        IF took = {} THEN jar[t] = call[c].base[t]
        ELSE \E g \in took : jar[t] = g.version /\ up[t] = g.version

\* A repair that has found no failure has every node it is done with on CIFS.
RepairOwnsMounts ==
    \A c \in Calls : At(c, "repair", "repair") /\ ~call[c].bad =>
      \A n \in Nodes \ call[c].left : mount[n] = "cifs"

\* One flag for both: nobody upgrades or repairs beside another, whatever
\* fails, hangs up or restarts.
UpgradesAreWhole ==
    /\ \A c, d \in Calls : Holds(c) /\ Holds(d) => c = d
    /\ \A c \in Calls : Holds(c) => flag
    /\ RunOwnsContainers
    /\ RepairOwnsMounts

\* What the progress of a run announces, a rolling upgrade of the nodes: it
\* fails only when a command failed or nothing matched.
RunFailsForCause ==
    \A c \in Calls : At(c, "run", "failed") => call[c].cause # "none"
===============================================================================
