--------------------------- MODULE TemplateDeploy ---------------------------
(***************************************************************************)
(* The projects deployed from the repository's templates (src/src/api.rs): *)
(* NP4 is copied in place, the registry Zot is unpacked beside its         *)
(* directory and renamed.  Both are initialised, their images loaded, then *)
(* registered and started.  No lock is held: a second request finds the    *)
(* directory of the first one.  A deployed Zot can be checked, which       *)
(* updates it and brings its certificate to every node.                    *)
(***************************************************************************)
EXTENDS Naturals, FiniteSets

CONSTANTS
    None,
    Templates,          \* of {"np4", "zot"}
    Calls,
    Master, Workers,
    MaxCalls, MaxTroubles

VARIABLES
    dir,                \* of each template: None or what stands in its directory
    rows,               \* the templates that have their project's row
    running,            \* those whose containers were started
    pc, what,           \* of each call: its step, its template
    nodes, results,     \* of a check: the nodes left, the nodes that failed
    trusts,             \* of each node: the certificate it was given (0: none)
    verified,           \* the certificate the last successful check answered for
    made,               \* certificates made
    overlapped, torn,   \* templates deployed or updated twice at once; left by a dropped
    calls, troubles     \*   request, a restart, a registration that failed

places  == <<dir, rows, running>>
work    == <<pc, what, nodes, results>>
network == <<trusts, verified, made>>
history == <<overlapped, torn>>
vars    == <<places, work, network, history, calls, troubles>>

Nodes == {Master} \cup Workers
Idle  == {"idle", "done", "failed"}
Stages == {"partial", "unpacked", "ready"}      \* "ready": initialised
Deploying == {"unpack", "mkdir", "copy", "init", "load", "dirs", "register", "up"}
Checking  == {"update", "test", "node"}

TypeOK ==
    /\ \A t \in Templates : dir[t] # None => dir[t].stage \in Stages /\ dir[t].by \in Calls /\ dir[t].ca \in 0..made
    /\ rows \subseteq Templates /\ running \subseteq Templates
    /\ pc \in [Calls -> Idle \cup Deploying \cup Checking] /\ what \in [Calls -> Templates]
    /\ \A c \in Calls : nodes[c] \subseteq Nodes /\ results[c] \subseteq Nodes
    /\ trusts \in [Nodes -> 0..made] /\ verified \in 0..made

Init ==
    /\ dir = [t \in Templates |-> None] /\ rows = {} /\ running = {}
    /\ pc = [c \in Calls |-> "idle"] /\ what \in [Calls -> {CHOOSE t \in Templates : TRUE}]
    /\ nodes = [c \in Calls |-> {}] /\ results = [c \in Calls |-> {}]
    /\ trusts = [n \in Nodes |-> 0] /\ verified = 0 /\ made = 0
    /\ overlapped = {} /\ torn = {} /\ calls = 0 /\ troubles = 0
-----------------------------------------------------------------------------
Trouble    == troubles < MaxTroubles /\ troubles' = troubles + 1
Goto(c, s) == pc' = [pc EXCEPT ![c] = s]
There(t)   == dir[t] # None
Busy(t)    == \E c \in Calls : what[c] = t /\ pc[c] \notin Idle

\* deploy_np4, deploy_harbor: an existing directory cancels the request; Harbor
\* looks for its row first.
Ask(c, t) ==
    /\ pc[c] \in Idle /\ calls < MaxCalls /\ calls' = calls + 1
    /\ ~There(t) /\ (t = "zot" => t \notin rows)
    /\ Goto(c, "unpack") /\ what' = [what EXCEPT ![c] = t]
    /\ overlapped' = IF Busy(t) THEN overlapped \cup {t} ELSE overlapped
    /\ UNCHANGED <<places, nodes, results, network, torn, troubles>>

\* check_zot_environment, of a registered one.
AskCheck(c) ==
    /\ pc[c] \in Idle /\ calls < MaxCalls /\ calls' = calls + 1
    /\ "zot" \in rows
    /\ Goto(c, "update") /\ what' = [what EXCEPT ![c] = "zot"]
    /\ overlapped' = IF Busy("zot") THEN overlapped \cup {"zot"} ELSE overlapped
    /\ UNCHANGED <<places, nodes, results, network, torn, troubles>>

\* Mutant: a deployment that fails leaves what it made.
CleansNone(t) == FALSE

\* A deployment of Zot that fails removes the directory; one of NP4 leaves it.
Cleans(t) == t = "zot"
FailDeploy(c) ==
    /\ Goto(c, "failed")
    /\ dir' = IF Cleans(what[c]) THEN [dir EXCEPT ![what[c]] = None] ELSE dir

\* unpack_harbor_template: the directory is looked for again, and the rename
\* fails on one that has come: the handler removes it.
Unpack(c) ==
    /\ pc[c] = "unpack" /\ what[c] = "zot"
    /\ \/ /\ ~There("zot") /\ Goto(c, "init")
          /\ dir' = [dir EXCEPT !["zot"] = [stage |-> "unpacked", by |-> c, ca |-> 0]]
          /\ UNCHANGED troubles
       \/ There("zot") /\ FailDeploy(c) /\ UNCHANGED troubles
       \/ Trouble /\ FailDeploy(c)
    /\ UNCHANGED <<rows, running, what, nodes, results, network, history, calls>>

\* copy_np4_template: the directory is looked for again, made, and filled.
CopyCheck(c) ==
    /\ pc[c] = "unpack" /\ what[c] = "np4"
    /\ Goto(c, IF There("np4") THEN "failed" ELSE "mkdir")
    /\ UNCHANGED <<places, what, nodes, results, network, history, calls, troubles>>

MakeDir(c) ==
    /\ pc[c] = "mkdir" /\ Goto(c, "copy")
    /\ dir' = IF There("np4") THEN dir ELSE [dir EXCEPT !["np4"] = [stage |-> "partial", by |-> c, ca |-> 0]]
    /\ UNCHANGED <<rows, running, what, nodes, results, network, history, calls, troubles>>

CopyFiles(c) ==
    /\ pc[c] = "copy"
    /\ \/ dir' = [dir EXCEPT !["np4"].stage = IF @ = "partial" THEN "unpacked" ELSE @]
          /\ Goto(c, "init") /\ UNCHANGED troubles
       \/ Trouble /\ FailDeploy(c)
    /\ UNCHANGED <<rows, running, what, nodes, results, network, history, calls>>

\* initialize_np4_project: .env and the JAR files.
InitialiseNp4 ==
    /\ dir' = [dir EXCEPT !["np4"].stage = IF @ = "partial" THEN @ ELSE "ready"]
    /\ UNCHANGED made

\* initialize_harbor_project: init-auth.sh makes the accounts, and the
\* certificate if there is none.
InitialiseZot ==
    /\ made' = IF dir["zot"].ca = 0 THEN made + 1 ELSE made
    /\ dir' = [dir EXCEPT !["zot"] = [stage |-> "ready", by |-> @.by, ca |-> IF @.ca = 0 THEN made + 1 ELSE @.ca]]

Initialise(c) ==
    /\ pc[c] = "init"
    /\ \/ /\ There(what[c]) /\ Goto(c, "load") /\ UNCHANGED troubles
          /\ IF what[c] = "np4" THEN InitialiseNp4 ELSE InitialiseZot
       \/ ~There(what[c]) /\ FailDeploy(c) /\ UNCHANGED <<made, troubles>>
       \/ Trouble /\ FailDeploy(c) /\ UNCHANGED made
    /\ UNCHANGED <<rows, running, what, nodes, results, trusts, verified, history, calls>>

\* load_archive: Zot's images are in its own directory.
Load(c) ==
    /\ pc[c] = "load"
    /\ \/ what[c] = "np4" /\ Goto(c, "dirs") /\ UNCHANGED <<dir, troubles>>
       \/ what[c] = "zot" /\ There("zot") /\ Goto(c, "register") /\ UNCHANGED <<dir, troubles>>
       \/ what[c] = "zot" /\ ~There("zot") /\ FailDeploy(c) /\ UNCHANGED troubles
       \/ Trouble /\ FailDeploy(c)
    /\ UNCHANGED <<rows, running, what, nodes, results, network, history, calls>>

\* create_np4_data_dirs, where NP4's .env says.
CreateDataDirs(c) ==
    /\ pc[c] = "dirs"
    /\ \/ Goto(c, "register") /\ UNCHANGED <<dir, troubles>>
       \/ Trouble /\ FailDeploy(c)
    /\ UNCHANGED <<rows, running, what, nodes, results, network, history, calls>>

\* create_project: the directory must be there and the name be free; when it
\* fails the directory stays.
Register(c) ==
    /\ pc[c] = "register"
    /\ \/ /\ There(what[c]) /\ what[c] \notin rows
          /\ rows' = rows \cup {what[c]} /\ Goto(c, "up") /\ UNCHANGED <<torn, troubles>>
       \/ /\ ~There(what[c]) \/ what[c] \in rows
          /\ Goto(c, "failed") /\ UNCHANGED <<rows, torn, troubles>>
       \/ Trouble /\ Goto(c, "failed") /\ torn' = torn \cup {what[c]} /\ UNCHANGED rows
    /\ UNCHANGED <<dir, running, what, nodes, results, network, overlapped, calls>>

Start(c) ==
    /\ pc[c] = "up"
    /\ \/ There(what[c]) /\ running' = running \cup {what[c]} /\ Goto(c, "done") /\ UNCHANGED troubles
       \/ ~There(what[c]) /\ Goto(c, "failed") /\ UNCHANGED <<running, troubles>>
       \/ Trouble /\ Goto(c, "failed") /\ UNCHANGED running
    /\ UNCHANGED <<dir, rows, what, nodes, results, network, history, calls>>
-----------------------------------------------------------------------------
\* update_harbor_project_from_template, initialize_harbor_project, the image and
\* compose_up; the list of the workers is taken then.
Update(c) ==
    /\ pc[c] = "update"
    /\ \/ /\ There("zot") /\ Goto(c, "node") /\ running' = running \cup {"zot"}
          /\ InitialiseZot
          /\ nodes' = [nodes EXCEPT ![c] = Nodes] /\ results' = [results EXCEPT ![c] = {}]
          /\ UNCHANGED troubles
       \/ ~There("zot") /\ Goto(c, "failed") /\ UNCHANGED <<dir, running, nodes, results, made, troubles>>
       \/ Trouble /\ Goto(c, "failed") /\ UNCHANGED <<dir, running, nodes, results, made>>
    /\ UNCHANGED <<rows, what, trusts, verified, history, calls>>

\* apply_zot_environment_local and _on_node: hosts, the certificate and the
\* registries are written and K3s is restarted.  One that fails, is offline or
\* does not answer is noted, and the next one comes; the master is the first.
Configure(c, n) ==
    /\ pc[c] = "node" /\ n \in nodes[c] /\ (n = Master \/ Master \notin nodes[c])
    /\ There("zot")
    /\ nodes' = [nodes EXCEPT ![c] = @ \ {n}]
    /\ \/ trusts' = [trusts EXCEPT ![n] = dir["zot"].ca] /\ UNCHANGED <<results, troubles>>
       \/ Trouble /\ results' = [results EXCEPT ![c] = @ \cup {n}]
          /\ trusts' \in {trusts, [trusts EXCEPT ![n] = dir["zot"].ca]}
    /\ UNCHANGED <<places, pc, what, verified, made, history, calls>>

\* test-k3s.sh, when every node was configured, and the answer.
AllConfigured(c) == results[c] = {}
Answer(c) ==
    /\ pc[c] = "node" /\ (nodes[c] = {} \/ ~There("zot"))
    /\ \/ /\ AllConfigured(c) /\ There("zot") /\ Goto(c, "done") /\ verified' = dir["zot"].ca
          /\ UNCHANGED troubles
       \/ (~AllConfigured(c) \/ ~There("zot")) /\ Goto(c, "failed") /\ UNCHANGED <<verified, troubles>>
       \/ Trouble /\ Goto(c, "failed") /\ UNCHANGED verified
    /\ UNCHANGED <<places, what, nodes, results, trusts, made, history, calls>>
-----------------------------------------------------------------------------
\* The client leaves, or the program ends: what was done stays, and files that
\* were being written may still all come.
Drop(c) ==
    /\ Trouble /\ pc[c] \notin Idle /\ Goto(c, "failed")
    /\ torn' = torn \cup {what[c]}
    /\ \/ UNCHANGED dir
       \/ /\ pc[c] = "unpack" /\ what[c] = "zot" /\ ~There("zot")
          /\ dir' = [dir EXCEPT !["zot"] = [stage |-> "unpacked", by |-> c, ca |-> 0]]
       \/ pc[c] = "copy" /\ dir' = [dir EXCEPT !["np4"].stage = IF @ = "partial" THEN "unpacked" ELSE @]
    /\ UNCHANGED <<rows, running, what, nodes, results, network, overlapped, calls>>

Next ==
    \/ \E c \in Calls, t \in Templates : Ask(c, t)
    \/ \E c \in Calls : \/ AskCheck(c) \/ Unpack(c) \/ CopyCheck(c) \/ MakeDir(c) \/ CopyFiles(c)
                        \/ Initialise(c) \/ Load(c) \/ CreateDataDirs(c) \/ Register(c) \/ Start(c)
                        \/ Update(c) \/ Answer(c) \/ Drop(c)
    \/ \E c \in Calls, n \in Nodes : Configure(c, n)

Spec == Init /\ [][Next]_vars
-----------------------------------------------------------------------------
\* api.rs deploy_harbor, deploy_np4: a registered project is a whole one, and
\* when Zot could not be deployed it can be asked for again, unless requests
\* overlapped, were dropped, or the registration itself failed;
RegisteredIsWhole ==
    \A t \in rows \ overlapped : There(t) /\ dir[t].stage = "ready"
FailedLeavesNothing ==
    "zot" \in Templates \ (overlapped \cup torn) /\ There("zot") /\ ~Busy("zot") => "zot" \in rows

\* api.rs check_zot_environment: and when a check answers that all is well,
\* every node has the certificate of the registry that is there.
VerifiedIsTrusted ==
    verified # 0 /\ There("zot") /\ "zot" \notin overlapped =>
        verified = dir["zot"].ca /\ \A n \in Nodes : trusts[n] = verified
DeploysWhole == RegisteredIsWhole /\ FailedLeavesNothing /\ VerifiedIsTrusted

\* api.rs harbor_deploy_status: "already exists; to avoid overwriting it, it was
\* not deployed automatically": a directory goes only with the request that made
\* it, when that one fails.
NothingOverwritten ==
    [][\A t \in Templates : dir[t] # None /\ dir'[t] = None =>
          pc[dir[t].by] \notin Idle /\ pc'[dir[t].by] = "failed"]_vars
=============================================================================
