-------------------------- MODULE Resources_proofs ---------------------------
(***************************************************************************)
(* What makes the installation, the storages, the deployments and the two  *)
(* ways of bringing new JARs safe, for any number of requests, nodes,      *)
(* containers and files.  The theorem about the storages is that of its    *)
(* module.  The upgrade of the cluster's containers and the repair of the  *)
(* storage have one flag; a project that is updated from the NP4           *)
(* repository has a lock.  Of the installation two things are shown: K3s   *)
(* never comes to a node that still has swap, however often a request is   *)
(* sent, for every launch keeps the order of the steps and no late request *)
(* undoes it; and an installation that says it ended well has done what it *)
(* says, as long as no second one was started beside it.  Last come the    *)
(* types of all of it: the certificates that are given out were made, the  *)
(* versions of the JARs are those of uploads, and the script, which is     *)
(* made container by container, visits containers.                         *)
(***************************************************************************)
EXTENDS Resources, SequenceTheorems, WellFoundedInduction, TLAPS

\* A step of the program is one of the installation, or leaves it as it is.
LEMMA InstallSteps ==
    /\ Init => I!Init
    /\ [Next]_vars => [I!Next]_I!vars
BY DEF Init, Next, vars, install, I!vars, I!status, I!hosts, I!history

\* Likewise for the deployments.
LEMMA DeploySteps ==
    /\ Init => D!Init
    /\ [Next]_vars => [D!Next]_D!vars
BY DEF Init, Next, vars, deploy, D!vars, D!places, D!work, D!network, D!history

\* For the storages.
LEMMA StorageSteps ==
    /\ Init => S!Init
    /\ [Next]_vars => [S!Next]_S!vars
BY DEF Init, Next, vars, storage, S!vars, S!work, S!node, S!history, S!counts

\* For the repository.
LEMMA RepositorySteps ==
    /\ Init => N!Init
    /\ [Next]_vars => [N!Next]_N!vars
BY DEF Init, Next, vars, np4, N!vars, N!project, N!work, N!history

\* And for the upgrades, when they are what is looked at.
LEMMA UpgradeSteps ==
    /\ Init => V!Init
    /\ [Next]_vars => comp' = comp
    /\ [Next]_vars /\ comp = "upgrade" => [V!Next]_V!vars
<1>1. J!Init => V!Init
  BY DEF J!Init, V!Init, J!Targets, V!Targets, J!ToSet, V!ToSet, J!Idle, V!Idle
<1> QED
  BY <1>1 DEF Init, Next, vars, jars, V!vars

\* storage.rs: what was last done to a directory of a host is what its next boot
\* finds, and the row the user gave last stays.
THEOREM StoragesTellTheTruth ==
    ASSUME S!Setting
    PROVE  Spec => []StoragesLast
<1>1. S!Spec => []S!StoragesLast
  BY S!StoragesKeepTheLastWord
<1> QED
  BY <1>1, StorageSteps, PTL DEF Spec, S!Spec, StoragesLast
-----------------------------------------------------------------------------
\* What the records of the requests have.
Fields ==
    /\ DOMAIN call = Calls
    /\ \A c \in Calls : {"op", "pc"} \subseteq DOMAIN call[c]
    /\ \A c \in Calls : V!At(c, "run", "run") => {"left", "took", "base"} \subseteq DOMAIN call[c]
    /\ \A c \in Calls : V!At(c, "repair", "repair") => {"left", "bad"} \subseteq DOMAIN call[c]
    /\ DOMAIN jar = V!Targets /\ DOMAIN up = V!Targets /\ DOMAIN mount = JarNodes

\* The flag belongs to one request.
Flagged ==
    /\ \A c, d \in Calls : V!Holds(c) /\ V!Holds(d) => c = d
    /\ \A c \in Calls : V!Holds(c) => flag

\* What steps do to the request they are of.
Over(c) ==
    /\ DOMAIN call' = Calls /\ \A d \in Calls : {"op", "pc"} \subseteq DOMAIN call'[d]
    /\ call'[c].pc \in {"done", "failed", "refused"}
    /\ \A d \in Calls \ {c} : call'[d] = call[d]

Same(c) == call'[c].op = call[c].op /\ \A d \in Calls \ {c} : call'[d] = call[d]

Skips(c) ==
    /\ call' = [call EXCEPT ![c] = [call[c] EXCEPT !.left = Tail(call[c].left)]]
    /\ UNCHANGED <<flag, jar, up>>

Upgrades(c, t, v) ==
    /\ jar' = [jar EXCEPT ![t] = v] /\ up' = [up EXCEPT ![t] = v] /\ UNCHANGED flag
    /\ call' = [call EXCEPT ![c] =
                  [call[c] EXCEPT !.left = Tail(call[c].left),
                                  !.took = call[c].took \cup {[at |-> t, version |-> v]}]]

Notes(c, n, m, b) ==
    /\ mount' = [mount EXCEPT ![n] = m] /\ (~b => ~call[c].bad /\ m = "cifs")
    /\ call' = [call EXCEPT ![c] = [call[c] EXCEPT !.left = call[c].left \ {n}, !.bad = b]]
-----------------------------------------------------------------------------

\* A request whose record is replaced by a finished one: the others keep theirs,
\* and it holds nothing.
LEMMA Finished ==
    ASSUME Fields, NEW c \in Calls
    PROVE  /\ \A how \in {"done", "refused"} : V!Ends(c, how) => Over(c)
           /\ \A cause : V!Fails(c, cause) => Over(c)
BY DEF Fields, V!Ends, V!Fails, V!Goto, Over

\* What the fields ask of a step that ends a request.
LEMMA FieldsOver ==
    ASSUME Fields, NEW c \in Calls, Over(c),
           DOMAIN jar' = V!Targets, DOMAIN up' = V!Targets, DOMAIN mount' = JarNodes
    PROVE  Fields'
BY DEF Fields, Over, V!At

\* The flag, when the request that held it has given it back, and when a request
\* ends that did not hold it.
LEMMA FlaggedOver ==
    ASSUME Flagged, NEW c \in Calls, Over(c), flag' = flag \/ V!Holds(c)
    PROVE  Flagged'
<1>1. ~V!Holds(c)' /\ \A d \in Calls \ {c} : V!Holds(d)' = V!Holds(d)
  BY DEF Over, V!Holds, V!At
<1>2. V!Holds(c) => \A d \in Calls \ {c} : ~V!Holds(d)
  BY DEF Flagged
<1> QED
  BY <1>1, <1>2 DEF Flagged

\* A request that changes what it has left keeps its step, and the others theirs.
LEMMA Further ==
    ASSUME Fields, NEW c \in Calls, "left" \in DOMAIN call[c], NEW rest,
           call' = [call EXCEPT ![c] = [call[c] EXCEPT !.left = rest]]
    PROVE  /\ DOMAIN call' = Calls /\ \A d \in Calls : DOMAIN call'[d] = DOMAIN call[d]
           /\ call'[c].op = call[c].op /\ call'[c].pc = call[c].pc
           /\ call'[c].left = rest
           /\ \A d \in Calls \ {c} : call'[d] = call[d]
BY DEF Fields

\* A step of the script: a container is passed over, or upgraded and noted, or
\* the run gives the flag back and has failed.
LEMMA RunCases ==
    ASSUME NEW c \in Calls, V!RunStep(c)
    PROVE  /\ V!At(c, "run", "run") /\ UNCHANGED mount
           /\ \/ Skips(c) \/ \E t, v : Upgrades(c, t, v)
              \/ flag' = FALSE /\ jar' = jar /\ DOMAIN up' = DOMAIN up /\ \E cause : V!Fails(c, cause)
BY DEF V!RunStep, V!UpgradeLocal, V!UpgradeRemote, V!Quits, V!Goto, Skips, Upgrades, V!containers

\* A step of the repair: it fails with this node, or goes on and notes the node.
LEMMA NodeCases ==
    ASSUME NEW c \in Calls, V!RepairNode(c)
    PROVE  /\ V!At(c, "repair", "repair") /\ UNCHANGED V!containers
           /\ \/ \E cause : V!Fails(c, cause)
              \/ \E n, m, b : Notes(c, n, m, b)
<1>0. V!At(c, "repair", "repair") /\ UNCHANGED V!containers
  BY DEF V!RepairNode
<1>1. PICK n \in call[c].left : \E o \in V!Outcomes(n) :
        /\ mount' = [mount EXCEPT ![n] = o[1]]
        /\ IF n = Master /\ ~o[2] THEN V!Quits(c, "trouble")
           ELSE V!Goto(c, [call[c] EXCEPT !.left = @ \ {n}, !.bad = @ \/ ~o[2]])
  BY DEF V!RepairNode
<1>2. PICK o \in V!Outcomes(n) :
        /\ mount' = [mount EXCEPT ![n] = o[1]]
        /\ IF n = Master /\ ~o[2] THEN V!Quits(c, "trouble")
           ELSE V!Goto(c, [call[c] EXCEPT !.left = @ \ {n}, !.bad = @ \/ ~o[2]])
  BY <1>1
<1>3. o[2] \in BOOLEAN /\ (o[2] => o[1] = "cifs")
  <2>1. CASE o = <<"cifs", TRUE>>
    BY <2>1
  <2>2. CASE o \in {mount[n], "nfs", "cifs", "none"} \X {FALSE}
    <3>1. o[2] = FALSE
      BY <2>2
    <3> QED
      BY <3>1
  <2> QED
    BY <1>2, <2>1, <2>2 DEF V!Outcomes
<1>4. CASE n = Master /\ ~o[2]
  BY <1>0, <1>2, <1>4 DEF V!Quits
<1>5. CASE ~(n = Master /\ ~o[2])
  <2> DEFINE b == call[c].bad \/ ~o[2]
  <2>1. /\ mount' = [mount EXCEPT ![n] = o[1]]
        /\ call' = [call EXCEPT ![c] = [call[c] EXCEPT !.left = call[c].left \ {n}, !.bad = b]]
    BY <1>2, <1>5 DEF V!Goto
  <2>2. ~b => ~call[c].bad /\ o[1] = "cifs"
    BY <1>3
  <2> HIDE DEF b
  <2>3. Notes(c, n, o[1], b)
    BY <2>1, <2>2 DEF Notes
  <2> QED
    BY <1>0, <2>3
<1> QED
  BY <1>4, <1>5

\* A step of the distribution: it ends, or goes on with what it has left.
LEMMA FetchCases ==
    ASSUME NEW c \in Calls, V!Fetch(c)
    PROVE  /\ call[c].op = "store" /\ UNCHANGED <<flag, jar, up, mount>>
           /\ \/ V!Ends(c, "done") \/ \E cause : V!Fails(c, cause)
              \/ \E r : call' = [call EXCEPT ![c] = [call[c] EXCEPT !.left = r]]
              \/ \E r, h : call' = [call EXCEPT ![c] = [call[c] EXCEPT !.left = r, !.held = h]]
<1>1. call[c].op = "store" /\ UNCHANGED <<flag, jar, up, mount>>
  BY DEF V!Fetch, V!At, V!containers
<1>2. CASE V!Ends(c, "done")
  BY <1>1, <1>2
<1>3. ASSUME ~V!Ends(c, "done")
      PROVE  \/ \E cause : V!Fails(c, cause)
             \/ \E r : call' = [call EXCEPT ![c] = [call[c] EXCEPT !.left = r]]
             \/ \E r, h : call' = [call EXCEPT ![c] = [call[c] EXCEPT !.left = r, !.held = h]]
  <2>1. PICK p \in call[c].left :
          LET v == incoming[p[2]] IN
          CASE v = 0 -> V!Fails(c, "gone")
            [] v # 0 /\ copy[p[1]][p[2]] = v -> V!Goto(c, [call[c] EXCEPT !.left = @ \ {p}])
            [] OTHER -> V!Goto(c, [call[c] EXCEPT !.left = @ \ {p}, !.held = <<p[1], p[2], v>>])
    BY <1>3 DEF V!Fetch
  <2>2. CASE V!Fails(c, "gone")
    BY <2>2
  <2>3. CASE V!Goto(c, [call[c] EXCEPT !.left = @ \ {p}])
    BY <2>3 DEF V!Goto
  <2>4. CASE V!Goto(c, [call[c] EXCEPT !.left = @ \ {p}, !.held = <<p[1], p[2], incoming[p[2]]>>])
    BY <2>4 DEF V!Goto
  <2> QED
    BY <2>1, <2>2, <2>3, <2>4
<1> QED
  BY <1>1, <1>2, <1>3

\* A step of a request that is neither a run nor a repair, and leaves the flag.
LEMMA FlaggedKept ==
    ASSUME Flagged, NEW c \in Calls, Same(c), call[c].op \notin {"run", "repair"}, UNCHANGED flag
    PROVE  Flagged'
<1>1. ~V!Holds(c)' /\ \A d \in Calls \ {c} : V!Holds(d)' = V!Holds(d)
  BY DEF Same, V!Holds, V!At
<1> QED
  BY <1>1 DEF Flagged

\* A request stays what it is, and the others as they are.
LEMMA SameOps ==
    ASSUME Fields, NEW c \in Calls
    PROVE  /\ \A how : V!Ends(c, how) => Same(c)
           /\ \A cause : V!Fails(c, cause) => Same(c)
           /\ \A r : call' = [call EXCEPT ![c] = [call[c] EXCEPT !.left = r]] => Same(c)
           /\ \A r, h : call' = [call EXCEPT ![c] = [call[c] EXCEPT !.left = r, !.held = h]] => Same(c)
           /\ \A r, k : call' = [call EXCEPT ![c] = [call[c] EXCEPT !.left = r, !.took = k]] => Same(c)
           /\ \A r, b : call' = [call EXCEPT ![c] = [call[c] EXCEPT !.left = r, !.bad = b]] => Same(c)
<1>1. ASSUME NEW state, V!Goto(c, state), state.op = call[c].op PROVE Same(c)
  BY <1>1 DEF Fields, V!Goto, Same
<1>2. "op" \in DOMAIN call[c]
  BY DEF Fields
<1>3. /\ \A how : [op |-> call[c].op, pc |-> how].op = call[c].op
      /\ \A cause : [op |-> call[c].op, pc |-> "failed", cause |-> cause].op = call[c].op
  OBVIOUS
<1>4. /\ \A r : [call[c] EXCEPT !.left = r].op = call[c].op
      /\ \A r, h : [call[c] EXCEPT !.left = r, !.held = h].op = call[c].op
      /\ \A r, k : [call[c] EXCEPT !.left = r, !.took = k].op = call[c].op
      /\ \A r, b : [call[c] EXCEPT !.left = r, !.bad = b].op = call[c].op
  BY <1>2
<1>5. ASSUME NEW how, V!Ends(c, how) PROVE Same(c)
  BY <1>1, <1>3, <1>5 DEF V!Ends
<1>6. ASSUME NEW cause, V!Fails(c, cause) PROVE Same(c)
  BY <1>1, <1>3, <1>6 DEF V!Fails
<1> QED
  BY <1>1, <1>4, <1>5, <1>6 DEF V!Goto

\* So does one of these three.
LEMMA SameSteps ==
    ASSUME Fields, NEW c \in Calls, V!Fetch(c) \/ V!RunStep(c) \/ V!RepairNode(c)
    PROVE  Same(c)
<1>1. CASE V!Fetch(c)
  BY <1>1, FetchCases, SameOps
<1>2. CASE V!RunStep(c)
  <2>1. CASE Skips(c)
    BY <2>1, SameOps DEF Skips
  <2>2. ASSUME NEW t, NEW v, Upgrades(c, t, v) PROVE Same(c)
    BY <2>2, SameOps DEF Upgrades
  <2> QED
    BY <1>2, <2>1, <2>2, RunCases, SameOps
<1>3. CASE V!RepairNode(c)
  <2>1. ASSUME NEW n, NEW m, NEW b, Notes(c, n, m, b) PROVE Same(c)
    BY <2>1, SameOps DEF Notes
  <2> QED
    BY <1>3, <2>1, NodeCases, SameOps
<1> QED
  BY <1>1, <1>2, <1>3

\* The records keep their fields, whatever happens to the requests.
LEMMA NextFields ==
    ASSUME Fields, [V!Next]_V!vars
    PROVE  Fields'
<1> USE DEF Fields, V!disk, V!checked, V!containers, V!At
<1>1. ASSUME NEW c \in Calls, V!StartUpload(c) PROVE Fields'
  BY <1>1 DEF V!StartUpload, V!Asks, V!Goto
<1>2. ASSUME NEW c \in Calls, V!StartStore(c) PROVE Fields'
  BY <1>2 DEF V!StartStore, V!Asks, V!Goto
<1>3. ASSUME NEW c \in Calls, V!Receive(c) PROVE Fields'
  BY <1>3 DEF V!Receive, V!Goto, V!Syncing
<1>4. ASSUME NEW c \in Calls, V!Clear(c) PROVE Fields'
  BY <1>4 DEF V!Clear, V!At, V!Ends, V!Goto
<1>5. ASSUME NEW c \in Calls, V!UploadBreaks(c) PROVE Fields'
  BY <1>5 DEF V!UploadBreaks, V!Fails, V!Goto
<1>6. ASSUME NEW c \in Calls, V!StartSync(c) PROVE Fields'
  BY <1>6 DEF V!StartSync, V!Asks, V!Goto, V!Syncing
<1>7. ASSUME NEW c \in Calls, V!Fetch(c) PROVE Fields'
  <2>1. /\ call[c].op = "store" /\ UNCHANGED <<flag, jar, up, mount>>
        /\ \/ V!Ends(c, "done") \/ \E cause : V!Fails(c, cause)
           \/ \E r : call' = [call EXCEPT ![c] = [call[c] EXCEPT !.left = r]]
           \/ \E r, h : call' = [call EXCEPT ![c] = [call[c] EXCEPT !.left = r, !.held = h]]
    BY <1>7, FetchCases
  <2>2. CASE V!Ends(c, "done") \/ \E cause : V!Fails(c, cause)
    BY <2>1, <2>2, Finished, FieldsOver
  <2>3. CASE \E r : call' = [call EXCEPT ![c] = [call[c] EXCEPT !.left = r]]
    BY <2>1, <2>3
  <2>4. CASE \E r, h : call' = [call EXCEPT ![c] = [call[c] EXCEPT !.left = r, !.held = h]]
    BY <2>1, <2>4
  <2> QED
    BY <2>1, <2>2, <2>3, <2>4
<1>8. ASSUME NEW c \in Calls, V!Put(c) PROVE Fields'
  BY <1>8 DEF V!Put, V!At, V!Goto
<1>9. ASSUME NEW c \in Calls, V!SyncBreaks(c) PROVE Fields'
  BY <1>9 DEF V!SyncBreaks, V!At, V!Fails, V!Goto
<1>10. ASSUME NEW c \in Calls, V!StartCheck(c) PROVE Fields'
  BY <1>10 DEF V!StartCheck, V!Asks, V!Goto
<1>11. ASSUME NEW c \in Calls, V!Inspected(c) PROVE Fields'
  BY <1>11 DEF V!Inspected, V!At, V!Goto
<1>12. ASSUME NEW c \in Calls, V!WriteScript(c) PROVE Fields'
  BY <1>12 DEF V!WriteScript, V!At, V!Goto, V!Reads
<1>13. ASSUME NEW c \in Calls, V!CheckBreaks(c) PROVE Fields'
  BY <1>13 DEF V!CheckBreaks, V!Fails, V!Goto
<1>14. ASSUME NEW c \in Calls, V!StartRun(c) PROVE Fields'
  BY <1>14 DEF V!StartRun, V!Asks, V!Goto
<1>15. ASSUME NEW c \in Calls, V!TakeFlag(c) PROVE Fields'
  BY <1>15 DEF V!TakeFlag, V!At, V!TakesFlag, V!Ends, V!Goto
<1>16. ASSUME NEW c \in Calls, V!RunStep(c) PROVE Fields'
  <2>1. CASE Skips(c)
    BY <1>16, <2>1, RunCases DEF Skips
  <2>2. ASSUME NEW t, NEW v, Upgrades(c, t, v) PROVE Fields'
    BY <1>16, <2>2, RunCases DEF Upgrades
  <2>3. ASSUME NEW cause, V!Fails(c, cause), jar' = jar, DOMAIN up' = DOMAIN up PROVE Fields'
    BY <1>16, <2>3, RunCases, Finished, FieldsOver
  <2> QED
    BY <1>16, <2>1, <2>2, <2>3, RunCases
<1>17. ASSUME NEW c \in Calls, V!RunEnds(c) PROVE Fields'
  <2>1. V!At(c, "run", "run") /\ UNCHANGED <<jar, up, mount>>
    BY <1>17 DEF V!RunEnds
  <2>2. Over(c)
    BY <1>17, Finished DEF V!RunEnds
  <2> QED
    BY <2>1, <2>2, FieldsOver
<1>18. ASSUME NEW c \in Calls, V!StartRepair(c) PROVE Fields'
  BY <1>18 DEF V!StartRepair, V!Asks, V!Goto
<1>19. ASSUME NEW c \in Calls, V!Preflight(c) PROVE Fields'
  BY <1>19 DEF V!Preflight, V!At, V!Quits, V!Fails, V!Goto
<1>20. ASSUME NEW c \in Calls, V!RepairDropped(c) PROVE Fields'
  BY <1>20 DEF V!RepairDropped, V!At, V!Fails, V!Goto
<1>21. ASSUME NEW c \in Calls, V!RepairNode(c) PROVE Fields'
  <2>1. DOMAIN mount' = JarNodes /\ UNCHANGED <<jar, up>>
    BY <1>21 DEF V!RepairNode
  <2>2. CASE \E cause : V!Fails(c, cause)
    BY <2>1, <2>2, Finished, FieldsOver
  <2>3. ASSUME NEW n, NEW m, NEW b, Notes(c, n, m, b) PROVE Fields'
    BY <2>1, <2>3 DEF Notes
  <2> QED
    BY <1>21, <2>2, <2>3, NodeCases
<1>22. ASSUME NEW c \in Calls, V!RepairEnds(c) PROVE Fields'
  BY <1>22 DEF V!RepairEnds, V!At, V!Quits, V!Ends, V!Fails, V!Goto
<1>23. CASE V!Restart
  BY <1>23 DEF V!Restart, V!Idle
<1>24. CASE UNCHANGED V!vars
  BY <1>24 DEF V!vars
<1> QED
  BY <1>1, <1>2, <1>3, <1>4, <1>5, <1>6, <1>7, <1>8, <1>9, <1>10, <1>11, <1>12, <1>13,
     <1>14, <1>15, <1>16, <1>17, <1>18, <1>19, <1>20, <1>21, <1>22, <1>23, <1>24 DEF V!Next

\* Who takes the flag finds it free, and who gives it back had it.
LEMMA NextFlagged ==
    ASSUME Fields, Flagged, [V!Next]_V!vars
    PROVE  Flagged'
<1> USE DEF Fields, Flagged, V!Holds, V!disk, V!checked, V!containers, V!At
<1>1. ASSUME NEW c \in Calls, V!StartUpload(c) PROVE Flagged'
  BY <1>1 DEF V!StartUpload, V!Asks, V!Goto
<1>2. ASSUME NEW c \in Calls, V!StartStore(c) PROVE Flagged'
  BY <1>2 DEF V!StartStore, V!Asks, V!Goto
<1>3. ASSUME NEW c \in Calls, V!Receive(c) PROVE Flagged'
  BY <1>3 DEF V!Receive, V!Goto, V!Syncing
<1>4. ASSUME NEW c \in Calls, V!Clear(c) PROVE Flagged'
  BY <1>4 DEF V!Clear, V!At, V!Ends, V!Goto
<1>5. ASSUME NEW c \in Calls, V!UploadBreaks(c) PROVE Flagged'
  BY <1>5 DEF V!UploadBreaks, V!Fails, V!Goto
<1>6. ASSUME NEW c \in Calls, V!StartSync(c) PROVE Flagged'
  BY <1>6 DEF V!StartSync, V!Asks, V!Goto, V!Syncing
<1>7. ASSUME NEW c \in Calls, V!Fetch(c) PROVE Flagged'
  <2>1. call[c].op = "store" /\ UNCHANGED flag
    BY <1>7, FetchCases
  <2> QED
    BY <1>7, <2>1, FlaggedKept, SameSteps
<1>8. ASSUME NEW c \in Calls, V!Put(c) PROVE Flagged'
  BY <1>8 DEF V!Put, V!At, V!Goto
<1>9. ASSUME NEW c \in Calls, V!SyncBreaks(c) PROVE Flagged'
  BY <1>9 DEF V!SyncBreaks, V!At, V!Fails, V!Goto
<1>10. ASSUME NEW c \in Calls, V!StartCheck(c) PROVE Flagged'
  BY <1>10 DEF V!StartCheck, V!Asks, V!Goto
<1>11. ASSUME NEW c \in Calls, V!Inspected(c) PROVE Flagged'
  BY <1>11 DEF V!Inspected, V!At, V!Goto
<1>12. ASSUME NEW c \in Calls, V!WriteScript(c) PROVE Flagged'
  BY <1>12 DEF V!WriteScript, V!At, V!Goto, V!Reads
<1>13. ASSUME NEW c \in Calls, V!CheckBreaks(c) PROVE Flagged'
  BY <1>13 DEF V!CheckBreaks, V!Fails, V!Goto
<1>14. ASSUME NEW c \in Calls, V!StartRun(c) PROVE Flagged'
  BY <1>14 DEF V!StartRun, V!Asks, V!Goto
<1>15. ASSUME NEW c \in Calls, V!TakeFlag(c) PROVE Flagged'
  BY <1>15 DEF V!TakeFlag, V!At, V!TakesFlag, V!Ends, V!Goto
<1>16. ASSUME NEW c \in Calls, V!RunStep(c) PROVE Flagged'
  BY <1>16 DEF V!RunStep, V!At, V!UpgradeLocal, V!UpgradeRemote, V!Quits, V!Fails, V!Goto
<1>17. ASSUME NEW c \in Calls, V!RunEnds(c) PROVE Flagged'
  <2>1. V!At(c, "run", "run") /\ UNCHANGED <<jar, up, mount>>
    BY <1>17 DEF V!RunEnds
  <2>2. Over(c)
    BY <1>17, Finished DEF V!RunEnds
  <2> QED
    BY <2>1, <2>2, FlaggedOver
<1>18. ASSUME NEW c \in Calls, V!StartRepair(c) PROVE Flagged'
  BY <1>18 DEF V!StartRepair, V!Asks, V!Goto
<1>19. ASSUME NEW c \in Calls, V!Preflight(c) PROVE Flagged'
  BY <1>19 DEF V!Preflight, V!At, V!Quits, V!Fails, V!Goto
<1>20. ASSUME NEW c \in Calls, V!RepairDropped(c) PROVE Flagged'
  BY <1>20 DEF V!RepairDropped, V!At, V!Fails, V!Goto
<1>21. ASSUME NEW c \in Calls, V!RepairNode(c) PROVE Flagged'
  BY <1>21 DEF V!RepairNode, V!At, V!Quits, V!Fails, V!Goto
<1>22. ASSUME NEW c \in Calls, V!RepairEnds(c) PROVE Flagged'
  BY <1>22 DEF V!RepairEnds, V!At, V!Quits, V!Ends, V!Fails, V!Goto
<1>23. CASE V!Restart
  BY <1>23 DEF V!Restart, V!Idle
<1>24. CASE UNCHANGED V!vars
  BY <1>24 DEF V!vars
<1> QED
  BY <1>1, <1>2, <1>3, <1>4, <1>5, <1>6, <1>7, <1>8, <1>9, <1>10, <1>11, <1>12, <1>13,
     <1>14, <1>15, <1>16, <1>17, <1>18, <1>19, <1>20, <1>21, <1>22, <1>23, <1>24 DEF V!Next

\* A step of a request that is not a run, and that leaves the containers alone.
LEMMA RunKept ==
    ASSUME Fields, V!RunOwnsContainers, NEW c \in Calls, UNCHANGED <<jar, up>>,
           \A d \in Calls \ {c} : call'[d] = call[d], ~V!At(c, "run", "run")'
    PROVE  V!RunOwnsContainers'
BY DEF V!RunOwnsContainers, V!At

\* A step of a request that is not a repair, and that leaves the mounts alone.
LEMMA RepairKept ==
    ASSUME Fields, V!RepairOwnsMounts, NEW c \in Calls, UNCHANGED mount,
           \A d \in Calls \ {c} : call'[d] = call[d], ~V!At(c, "repair", "repair")'
    PROVE  V!RepairOwnsMounts'
BY DEF V!RepairOwnsMounts, V!At

\* Only the run that has the flag changes containers, and it notes what it does.
LEMMA NextRun ==
    ASSUME Fields, Flagged, V!RunOwnsContainers, [V!Next]_V!vars
    PROVE  V!RunOwnsContainers'
<1> USE DEF Fields, V!RunOwnsContainers, V!disk, V!checked, V!containers, V!At
<1>1. ASSUME NEW c \in Calls, V!StartUpload(c) PROVE V!RunOwnsContainers'
  BY <1>1 DEF V!StartUpload, V!Asks, V!Goto
<1>2. ASSUME NEW c \in Calls, V!StartStore(c) PROVE V!RunOwnsContainers'
  BY <1>2 DEF V!StartStore, V!Asks, V!Goto
<1>3. ASSUME NEW c \in Calls, V!Receive(c) PROVE V!RunOwnsContainers'
  BY <1>3 DEF V!Receive, V!Goto, V!Syncing
<1>4. ASSUME NEW c \in Calls, V!Clear(c) PROVE V!RunOwnsContainers'
  BY <1>4 DEF V!Clear, V!At, V!Ends, V!Goto
<1>5. ASSUME NEW c \in Calls, V!UploadBreaks(c) PROVE V!RunOwnsContainers'
  BY <1>5 DEF V!UploadBreaks, V!Fails, V!Goto
<1>6. ASSUME NEW c \in Calls, V!StartSync(c) PROVE V!RunOwnsContainers'
  <2>1. call'[c].op = "store" /\ \A d \in Calls \ {c} : call'[d] = call[d]
    BY <1>6 DEF V!StartSync, V!Goto, V!Syncing
  <2>2. UNCHANGED <<jar, up, mount>>
    BY <1>6 DEF V!StartSync
  <2> QED
    BY <2>1, <2>2, RunKept
<1>7. ASSUME NEW c \in Calls, V!Fetch(c) PROVE V!RunOwnsContainers'
  <2>1. call[c].op = "store" /\ UNCHANGED <<jar, up, mount>>
    BY <1>7, FetchCases
  <2> QED
    BY <1>7, <2>1, RunKept, SameSteps DEF Same
<1>8. ASSUME NEW c \in Calls, V!Put(c) PROVE V!RunOwnsContainers'
  BY <1>8 DEF V!Put, V!At, V!Goto
<1>9. ASSUME NEW c \in Calls, V!SyncBreaks(c) PROVE V!RunOwnsContainers'
  BY <1>9 DEF V!SyncBreaks, V!At, V!Fails, V!Goto
<1>10. ASSUME NEW c \in Calls, V!StartCheck(c) PROVE V!RunOwnsContainers'
  BY <1>10 DEF V!StartCheck, V!Asks, V!Goto
<1>11. ASSUME NEW c \in Calls, V!Inspected(c) PROVE V!RunOwnsContainers'
  BY <1>11 DEF V!Inspected, V!At, V!Goto
<1>12. ASSUME NEW c \in Calls, V!WriteScript(c) PROVE V!RunOwnsContainers'
  BY <1>12 DEF V!WriteScript, V!At, V!Goto, V!Reads
<1>13. ASSUME NEW c \in Calls, V!CheckBreaks(c) PROVE V!RunOwnsContainers'
  BY <1>13 DEF V!CheckBreaks, V!Fails, V!Goto
<1>14. ASSUME NEW c \in Calls, V!StartRun(c) PROVE V!RunOwnsContainers'
  BY <1>14 DEF V!StartRun, V!Asks, V!Goto
<1>15. ASSUME NEW c \in Calls, V!TakeFlag(c) PROVE V!RunOwnsContainers'
  BY <1>15 DEF V!TakeFlag, V!At, V!TakesFlag, V!Ends, V!Goto
<1>16. ASSUME NEW c \in Calls, V!RunStep(c) PROVE V!RunOwnsContainers'
  <2>1. V!At(c, "run", "run") /\ \A d \in Calls \ {c} : ~V!At(d, "run", "run")
    BY <1>16, RunCases DEF Flagged, V!Holds
  <2>2. CASE Skips(c)
    BY <2>1, <2>2 DEF Skips
  <2>3. ASSUME NEW t, NEW v, Upgrades(c, t, v) PROVE V!RunOwnsContainers'
    <3>1. /\ call'[c].took = call[c].took \cup {[at |-> t, version |-> v]}
          /\ call'[c].base = call[c].base
          /\ \A d \in Calls \ {c} : ~V!At(d, "run", "run")'
      BY <2>1, <2>3 DEF Upgrades
    <3>2. ASSUME NEW u \in V!Targets
          PROVE  LET took == {g \in call'[c].took : g.at = u} IN
                 IF took = {} THEN jar'[u] = call'[c].base[u]
                 ELSE \E g \in took : jar'[u] = g.version /\ up'[u] = g.version
      <4> DEFINE old == {g \in call[c].took : g.at = u}
                 new == {g \in call'[c].took : g.at = u}
                 note == [at |-> t, version |-> v]
      <4>1. CASE u = t
        <5>1. note \in new /\ jar'[u] = note.version /\ up'[u] = note.version
          BY <2>3, <3>1, <4>1 DEF Upgrades
        <5> QED
          BY <5>1
      <4>2. CASE u # t
        <5>1. new = old /\ jar'[u] = jar[u] /\ up'[u] = up[u]
          BY <2>3, <3>1, <4>2 DEF Upgrades
        <5>2. IF old = {} THEN jar[u] = call[c].base[u]
              ELSE \E g \in old : jar[u] = g.version /\ up[u] = g.version
          BY <2>1
        <5> QED
          BY <3>1, <5>1, <5>2
      <4> QED
        BY <4>1, <4>2
    <3> QED
      BY <3>1, <3>2
  <2>4. ASSUME NEW cause, V!Fails(c, cause) PROVE V!RunOwnsContainers'
    <3>1. Over(c)
      BY <2>4, Finished
    <3> QED
      BY <2>1, <3>1 DEF Over
  <2> QED
    BY <1>16, <2>2, <2>3, <2>4, RunCases
<1>17. ASSUME NEW c \in Calls, V!RunEnds(c) PROVE V!RunOwnsContainers'
  <2>1. Over(c) /\ UNCHANGED <<jar, up, mount>>
    BY <1>17, Finished DEF V!RunEnds
  <2> QED
    BY <2>1, RunKept DEF Over
<1>18. ASSUME NEW c \in Calls, V!StartRepair(c) PROVE V!RunOwnsContainers'
  BY <1>18 DEF V!StartRepair, V!Asks, V!Goto
<1>19. ASSUME NEW c \in Calls, V!Preflight(c) PROVE V!RunOwnsContainers'
  BY <1>19 DEF V!Preflight, V!At, V!Quits, V!Fails, V!Goto
<1>20. ASSUME NEW c \in Calls, V!RepairDropped(c) PROVE V!RunOwnsContainers'
  BY <1>20 DEF V!RepairDropped, V!At, V!Fails, V!Goto
<1>21. ASSUME NEW c \in Calls, V!RepairNode(c) PROVE V!RunOwnsContainers'
  <2>1. call[c].op = "repair" /\ UNCHANGED <<jar, up>>
    BY <1>21, NodeCases
  <2> QED
    BY <1>21, <2>1, RunKept, SameSteps DEF Same
<1>22. ASSUME NEW c \in Calls, V!RepairEnds(c) PROVE V!RunOwnsContainers'
  BY <1>22 DEF V!RepairEnds, V!At, V!Quits, V!Ends, V!Fails, V!Goto
<1>23. CASE V!Restart
  BY <1>23 DEF V!Restart, V!Idle
<1>24. CASE UNCHANGED V!vars
  BY <1>24 DEF V!vars
<1> QED
  BY <1>1, <1>2, <1>3, <1>4, <1>5, <1>6, <1>7, <1>8, <1>9, <1>10, <1>11, <1>12, <1>13,
     <1>14, <1>15, <1>16, <1>17, <1>18, <1>19, <1>20, <1>21, <1>22, <1>23, <1>24 DEF V!Next

\* Only the repair that has the flag changes mounts, and it notes what failed.
LEMMA NextRepair ==
    ASSUME Fields, Flagged, V!RepairOwnsMounts, [V!Next]_V!vars
    PROVE  V!RepairOwnsMounts'
<1> USE DEF Fields, V!RepairOwnsMounts, V!disk, V!checked, V!containers, V!At
<1>1. ASSUME NEW c \in Calls, V!StartUpload(c) PROVE V!RepairOwnsMounts'
  BY <1>1 DEF V!StartUpload, V!Asks, V!Goto
<1>2. ASSUME NEW c \in Calls, V!StartStore(c) PROVE V!RepairOwnsMounts'
  BY <1>2 DEF V!StartStore, V!Asks, V!Goto
<1>3. ASSUME NEW c \in Calls, V!Receive(c) PROVE V!RepairOwnsMounts'
  BY <1>3 DEF V!Receive, V!Goto, V!Syncing
<1>4. ASSUME NEW c \in Calls, V!Clear(c) PROVE V!RepairOwnsMounts'
  BY <1>4 DEF V!Clear, V!At, V!Ends, V!Goto
<1>5. ASSUME NEW c \in Calls, V!UploadBreaks(c) PROVE V!RepairOwnsMounts'
  BY <1>5 DEF V!UploadBreaks, V!Fails, V!Goto
<1>6. ASSUME NEW c \in Calls, V!StartSync(c) PROVE V!RepairOwnsMounts'
  BY <1>6 DEF V!StartSync, V!Asks, V!Goto, V!Syncing
<1>7. ASSUME NEW c \in Calls, V!Fetch(c) PROVE V!RepairOwnsMounts'
  <2>1. call[c].op = "store" /\ UNCHANGED <<jar, up, mount>>
    BY <1>7, FetchCases
  <2> QED
    BY <1>7, <2>1, RepairKept, SameSteps DEF Same
<1>8. ASSUME NEW c \in Calls, V!Put(c) PROVE V!RepairOwnsMounts'
  BY <1>8 DEF V!Put, V!At, V!Goto
<1>9. ASSUME NEW c \in Calls, V!SyncBreaks(c) PROVE V!RepairOwnsMounts'
  BY <1>9 DEF V!SyncBreaks, V!At, V!Fails, V!Goto
<1>10. ASSUME NEW c \in Calls, V!StartCheck(c) PROVE V!RepairOwnsMounts'
  BY <1>10 DEF V!StartCheck, V!Asks, V!Goto
<1>11. ASSUME NEW c \in Calls, V!Inspected(c) PROVE V!RepairOwnsMounts'
  BY <1>11 DEF V!Inspected, V!At, V!Goto
<1>12. ASSUME NEW c \in Calls, V!WriteScript(c) PROVE V!RepairOwnsMounts'
  BY <1>12 DEF V!WriteScript, V!At, V!Goto, V!Reads
<1>13. ASSUME NEW c \in Calls, V!CheckBreaks(c) PROVE V!RepairOwnsMounts'
  BY <1>13 DEF V!CheckBreaks, V!Fails, V!Goto
<1>14. ASSUME NEW c \in Calls, V!StartRun(c) PROVE V!RepairOwnsMounts'
  BY <1>14 DEF V!StartRun, V!Asks, V!Goto
<1>15. ASSUME NEW c \in Calls, V!TakeFlag(c) PROVE V!RepairOwnsMounts'
  BY <1>15 DEF V!TakeFlag, V!At, V!TakesFlag, V!Ends, V!Goto
<1>16. ASSUME NEW c \in Calls, V!RunStep(c) PROVE V!RepairOwnsMounts'
  <2>1. call[c].op = "run" /\ UNCHANGED mount
    BY <1>16, RunCases
  <2> QED
    BY <1>16, <2>1, RepairKept, SameSteps DEF Same
<1>17. ASSUME NEW c \in Calls, V!RunEnds(c) PROVE V!RepairOwnsMounts'
  <2>1. Over(c) /\ UNCHANGED <<jar, up, mount>>
    BY <1>17, Finished DEF V!RunEnds
  <2> QED
    BY <2>1, RepairKept DEF Over
<1>18. ASSUME NEW c \in Calls, V!StartRepair(c) PROVE V!RepairOwnsMounts'
  BY <1>18 DEF V!StartRepair, V!Asks, V!Goto
<1>19. ASSUME NEW c \in Calls, V!Preflight(c) PROVE V!RepairOwnsMounts'
  BY <1>19 DEF V!Preflight, V!At, V!Quits, V!Fails, V!Goto
<1>20. ASSUME NEW c \in Calls, V!RepairDropped(c) PROVE V!RepairOwnsMounts'
  BY <1>20 DEF V!RepairDropped, V!At, V!Fails, V!Goto
<1>21. ASSUME NEW c \in Calls, V!RepairNode(c) PROVE V!RepairOwnsMounts'
  <2>1. V!At(c, "repair", "repair") /\ \A d \in Calls \ {c} : ~V!At(d, "repair", "repair")
    BY <1>21, NodeCases DEF Flagged, V!Holds
  <2>2. ASSUME NEW cause, V!Fails(c, cause) PROVE V!RepairOwnsMounts'
    <3>1. Over(c)
      BY <2>2, Finished
    <3> QED
      BY <2>1, <3>1 DEF Over
  <2>3. ASSUME NEW n, NEW m, NEW b, Notes(c, n, m, b) PROVE V!RepairOwnsMounts'
    BY <2>1, <2>3 DEF Notes
  <2> QED
    BY <1>21, <2>2, <2>3, NodeCases
<1>22. ASSUME NEW c \in Calls, V!RepairEnds(c) PROVE V!RepairOwnsMounts'
  BY <1>22 DEF V!RepairEnds, V!At, V!Quits, V!Ends, V!Fails, V!Goto
<1>23. CASE V!Restart
  BY <1>23 DEF V!Restart, V!Idle
<1>24. CASE UNCHANGED V!vars
  BY <1>24 DEF V!vars
<1> QED
  BY <1>1, <1>2, <1>3, <1>4, <1>5, <1>6, <1>7, <1>8, <1>9, <1>10, <1>11, <1>12, <1>13,
     <1>14, <1>15, <1>16, <1>17, <1>18, <1>19, <1>20, <1>21, <1>22, <1>23, <1>24 DEF V!Next

\* jar_upgrade.rs: nobody upgrades or repairs beside another, whatever fails,
\* hangs up or restarts; a run knows which JAR every container has, and a repair
\* without a failure has every node it is done with on CIFS.
THEOREM NobodyUpgradesBesideAnother == Spec => []UpgradesAreWhole
<1> DEFINE Inv == Fields /\ Flagged /\ V!RunOwnsContainers /\ V!RepairOwnsMounts
<1>1. V!Init => Inv
  <2> SUFFICES ASSUME V!Init PROVE Inv
    OBVIOUS
  <2>1. \A c \in Calls : call[c] = V!Idle
    BY DEF V!Init
  <2>2. \A c \in Calls : ~V!At(c, "run", "run") /\ ~V!Holds(c) /\ ~V!At(c, "repair", "repair")
    BY <2>1 DEF V!At, V!Holds, V!Idle
  <2>3. Fields
    BY <2>1, <2>2 DEF V!Init, Fields, V!Idle
  <2> QED
    BY <2>2, <2>3 DEF Flagged, V!RunOwnsContainers, V!RepairOwnsMounts
<1>2. Inv /\ [V!Next]_V!vars => Inv'
  BY NextFields, NextFlagged, NextRun, NextRepair
<1> HIDE DEF Inv
<1>3. Init => (comp = "upgrade" => Inv)
  BY <1>1, UpgradeSteps
<1>4. (comp = "upgrade" => Inv) /\ [Next]_vars => (comp = "upgrade" => Inv)'
  BY <1>2, UpgradeSteps
<1>5. (comp = "upgrade" => Inv) => UpgradesAreWhole
  BY DEF Inv, Flagged, UpgradesAreWhole, V!UpgradesAreWhole
<1> QED
  BY <1>3, <1>4, <1>5, PTL DEF Spec
-----------------------------------------------------------------------------
Working == {"stamp", "compare", "stage", "apply", "save"}

Steps == N!Idle \cup {"loaded"} \cup Working

\* The lock belongs to the one request that works.
Locked ==
    /\ pc \in [Calls -> Steps] /\ lock \in Calls \cup {None}
    /\ \A c \in Calls : pc[c] \in Working <=> lock = c

Filled ==
    /\ repo \in Contents /\ live \in Contents \cup {N!Own} /\ manifest \in Contents \cup {None}
    /\ versions \in Seq(Contents \cup {N!Own}) /\ current \in DOMAIN versions
    /\ was \in [Calls -> DOMAIN versions]
    /\ action \in [Calls -> {"check", "publish", "replace"}]
    /\ stamps \in [Calls -> Contents] /\ staged \in [Calls -> Contents]
    /\ moved \in BOOLEAN /\ mixed \in BOOLEAN

RepositoryShape == Locked /\ Filled

\* What was copied is what was stamped, what was applied runs, and then the
\* manifest is what runs: as long as nothing comes between.
Truth ==
    /\ \A c \in Calls : pc[c] \in {"apply", "save"} => mixed \/ staged[c] = stamps[c]
    /\ \A c \in Calls : pc[c] = "save" => live = staged[c]
    /\ (\A c \in Calls : pc[c] # "save") /\ manifest # None /\ ~moved /\ ~mixed => live = manifest

Free == None \notin Calls
-----------------------------------------------------------------------------
\* At the start the user's own version runs.
LEMMA InitShape == Free /\ N!Init => RepositoryShape
<1> SUFFICES ASSUME Free, N!Init PROVE RepositoryShape
  OBVIOUS
<1>1. versions \in Seq(Contents \cup {N!Own}) /\ DOMAIN versions = {1}
  BY DEF N!Init
<1>2. Locked
  BY DEF Free, N!Init, Locked, Steps, N!Idle, Working
<1> QED
  BY <1>1, <1>2 DEF N!Init, RepositoryShape, Filled

\* A new version keeps the numbers of the others.
LEMMA Appended ==
    ASSUME NEW Versions, NEW s \in Seq(Versions), NEW x \in Versions
    PROVE  /\ Append(s, x) \in Seq(Versions) /\ DOMAIN s \subseteq DOMAIN Append(s, x)
           /\ Len(s) + 1 \in DOMAIN Append(s, x)
           /\ \A i \in DOMAIN s : s[i] \in Versions
BY AppendProperties

\* The request that works gives its lock back, or goes on and keeps it.
LEMMA LockKept ==
    ASSUME Free, Locked, NEW c \in Calls, pc[c] \in Working
    PROVE  /\ \A s \in Working : N!Goto(c, s) /\ UNCHANGED lock => Locked'
           /\ \A s \in N!Idle : N!End(c, s) => Locked'
<1>1. lock = c /\ \A d \in Calls : d # c => pc[d] \notin Working
  BY DEF Locked, Free
<1>2. ASSUME NEW s \in Working, N!Goto(c, s), UNCHANGED lock PROVE Locked'
  BY <1>1, <1>2 DEF Locked, N!Goto, Steps, Working, N!Idle
<1>3. ASSUME NEW s \in N!Idle, N!End(c, s) PROVE Locked'
  <2>1. lock' = None /\ pc' = [pc EXCEPT ![c] = s] /\ s \notin Working
    BY <1>3 DEF N!End, N!Goto, N!Idle, Working
  <2>2. pc' \in [Calls -> Steps] /\ \A d \in Calls : pc'[d] \notin Working
    BY <1>1, <2>1 DEF Locked, Steps
  <2> QED
    BY <2>1, <2>2 DEF Locked, Free
<1> QED
  BY <1>2, <1>3

\* Every step leaves the lock with the one request that works.
LEMMA NextLocked ==
    ASSUME Free, Locked, [N!Next]_N!vars
    PROVE  Locked'
<1> USE DEF N!project, N!work, N!history
<1>1. ASSUME NEW c \in Calls, NEW a, N!Ask(c, a) PROVE Locked'
  BY <1>1 DEF N!Ask, N!Goto, Locked, Steps, N!Idle, Working
<1>2. ASSUME NEW c \in Calls, N!TryLock(c) PROVE Locked'
  BY <1>2 DEF N!TryLock, N!Goto, Locked, Steps, N!Idle, Working, Free
<1>3. ASSUME NEW c \in Calls, N!Stamp(c) \/ N!Compare(c) \/ N!Stage(c) \/ N!Apply(c) \/ N!Save(c) \/ N!Drop(c)
      PROVE Locked'
  <2>1. pc[c] \in Working
    BY <1>3 DEF N!Stamp, N!Compare, N!Stage, N!Apply, N!Save, N!Drop, Working, Locked
  <2>2. /\ {"compare", "stage", "apply", "save"} \subseteq Working
        /\ {"unchanged", "found", "done", "failed"} \subseteq N!Idle
    BY DEF Working, N!Idle
  <2> HIDE DEF Working, N!Idle
  <2>3. CASE N!Stamp(c)
    BY <2>1, <2>2, <2>3, LockKept DEF N!Stamp
  <2>4. CASE N!Compare(c)
    BY <2>1, <2>2, <2>4, LockKept DEF N!Compare
  <2>5. CASE N!Stage(c)
    BY <2>1, <2>2, <2>5, LockKept DEF N!Stage
  <2>6. CASE N!Apply(c)
    BY <2>1, <2>2, <2>6, LockKept DEF N!Apply
  <2>7. CASE N!Save(c)
    BY <2>1, <2>2, <2>7, LockKept DEF N!Save
  <2>8. CASE N!Drop(c)
    BY <2>1, <2>2, <2>8, LockKept DEF N!Drop
  <2> QED
    BY <1>3, <2>3, <2>4, <2>5, <2>6, <2>7, <2>8
<1>4. CASE N!Sync \/ N!Upload \/ \E v \in DOMAIN versions : N!Rollback(v)
  BY <1>4 DEF N!Sync, N!Upload, N!Rollback, Locked
<1>5. CASE UNCHANGED N!vars
  BY <1>5 DEF N!vars, Locked
<1> QED
  BY <1>1, <1>2, <1>3, <1>4, <1>5 DEF N!Next

\* Every step keeps the types.
LEMMA NextShape ==
    ASSUME Free, RepositoryShape, [N!Next]_N!vars
    PROVE  RepositoryShape'
<1>0. Locked'
  BY NextLocked DEF RepositoryShape
<1> SUFFICES Filled'
  BY <1>0 DEF RepositoryShape
<1> USE DEF Filled, N!project, N!work, N!history
<1>a. Filled /\ \A v \in DOMAIN versions : versions[v] \in Contents \cup {N!Own}
  BY DEF RepositoryShape
<1>b. \A x \in Contents \cup {N!Own} :
           /\ Append(versions, x) \in Seq(Contents \cup {N!Own})
           /\ DOMAIN versions \subseteq DOMAIN Append(versions, x)
           /\ Len(versions) + 1 \in DOMAIN Append(versions, x)
  BY <1>a, Appended
<1> USE <1>a
<1> HIDE DEF N!Own
<1>1. ASSUME NEW c \in Calls, NEW a \in {"check", "publish", "replace"}, N!Ask(c, a) PROVE Filled'
  BY <1>1 DEF N!Ask
<1>2. ASSUME NEW c \in Calls, N!TryLock(c) PROVE Filled'
  BY <1>2 DEF N!TryLock
<1>3. ASSUME NEW c \in Calls, N!Stamp(c) PROVE Filled'
  BY <1>3 DEF N!Stamp
<1>4. ASSUME NEW c \in Calls, N!Compare(c) PROVE Filled'
  BY <1>4 DEF N!Compare
<1>5. ASSUME NEW c \in Calls, N!Stage(c) PROVE Filled'
  BY <1>5 DEF N!Stage
<1>6. ASSUME NEW c \in Calls, N!Apply(c) PROVE Filled'
  BY <1>b, <1>6 DEF N!Apply
<1>7. ASSUME NEW c \in Calls, N!Save(c) PROVE Filled'
  BY <1>7 DEF N!Save, N!Saved
<1>8. ASSUME NEW c \in Calls, N!Drop(c) PROVE Filled'
  BY <1>8 DEF N!Drop
<1>9. CASE N!Sync
  BY <1>9 DEF N!Sync, N!Changed
<1>10. CASE N!Upload
  BY <1>b, <1>10 DEF N!Upload, N!Changed
<1>11. ASSUME NEW v \in DOMAIN versions, N!Rollback(v) PROVE Filled'
  BY <1>11 DEF N!Rollback, N!Changed
<1>12. CASE UNCHANGED N!vars
  BY <1>12 DEF N!vars
<1> QED
  BY <1>1, <1>2, <1>3, <1>4, <1>5, <1>6, <1>7, <1>8, <1>9, <1>10, <1>11, <1>12 DEF N!Next

\* Every step keeps the manifest true, or notes what came between.
LEMMA NextTruth ==
    ASSUME Free, RepositoryShape, Truth, [N!Next]_N!vars
    PROVE  Truth'
<1> USE DEF Truth, N!project, N!work, N!history
<1>0. /\ pc \in [Calls -> Steps]
      /\ staged \in [Calls -> Contents] /\ stamps \in [Calls -> Contents]
      /\ \A c \in Calls : pc[c] \in Working <=> lock = c
  BY DEF RepositoryShape, Locked, Filled
<1> USE <1>0 DEF Steps, N!Idle, Working, Free
<1>1. ASSUME NEW c \in Calls, NEW a, N!Ask(c, a) PROVE Truth'
  BY <1>1 DEF N!Ask, N!Goto
<1>2. ASSUME NEW c \in Calls, N!TryLock(c) PROVE Truth'
  BY <1>2 DEF N!TryLock, N!Goto
<1>3. ASSUME NEW c \in Calls, N!Stamp(c) PROVE Truth'
  BY <1>3 DEF N!Stamp, N!Goto
<1>4. ASSUME NEW c \in Calls, N!Compare(c) PROVE Truth'
  BY <1>4 DEF N!Compare, N!Goto, N!End, N!Unchanged
<1>5. ASSUME NEW c \in Calls, N!Stage(c) PROVE Truth'
  BY <1>5 DEF N!Stage, N!Goto, N!End, N!Trouble
<1>6. ASSUME NEW c \in Calls, N!Apply(c) PROVE Truth'
  BY <1>6 DEF N!Apply, N!Goto, N!End, N!Trouble
<1>7. ASSUME NEW c \in Calls, N!Save(c) PROVE Truth'
  BY <1>7 DEF N!Save, N!Goto, N!End, N!Trouble, N!Saved
<1>8. ASSUME NEW c \in Calls, N!Drop(c) PROVE Truth'
  BY <1>8 DEF N!Drop, N!Goto, N!End, N!Trouble
<1>9. CASE N!Sync
  BY <1>9 DEF N!Sync, N!Changed
<1>10. CASE N!Upload
  BY <1>10 DEF N!Upload, N!Changed
<1>11. ASSUME NEW v \in DOMAIN versions, N!Rollback(v) PROVE Truth'
  BY <1>11 DEF N!Rollback, N!Changed
<1>12. CASE UNCHANGED N!vars
  BY <1>12 DEF N!vars
<1> QED
  BY <1>1, <1>2, <1>3, <1>4, <1>5, <1>6, <1>7, <1>8, <1>9, <1>10, <1>11, <1>12 DEF N!Next

\* Every reachable state is well typed, and the lock is held by exactly the
\* request that is between its stamps and its manifest.
THEOREM RepositoryTypes ==
    ASSUME Free
    PROVE  N!Spec => []N!TypeOK
<1>1. RepositoryShape => N!TypeOK
  BY DEF RepositoryShape, Locked, Filled, N!TypeOK, Steps, Working
<1> QED
  BY <1>1, InitShape, NextShape, PTL DEF N!Spec

\* update_np4_from_repo: what the manifest says was applied last is what runs,
\* unless an upload or a rollback came after it, or files changed under the
\* request.
THEOREM ManifestTellsTheTruth ==
    ASSUME Free
    PROVE  Spec => []ManifestIsLive
<1>1. N!Init => RepositoryShape /\ Truth
  BY InitShape DEF N!Init, Truth
<1>2. RepositoryShape /\ Truth /\ [N!Next]_N!vars => (RepositoryShape /\ Truth)'
  BY NextShape, NextTruth
<1>3. RepositoryShape /\ Truth => N!ManifestIsLive
  BY DEF RepositoryShape, Locked, Filled, Working, Truth, N!ManifestIsLive, Free
<1> QED
  BY <1>1, <1>2, <1>3, RepositorySteps, PTL DEF Spec, ManifestIsLive
-----------------------------------------------------------------------------
\* The parts of the types the argument needs.
InstallShape ==
    /\ ipc \in [Launches -> {"none", "spawned", "host", "boot", "wait", "swap", "k3s", "list",
                            "wswap", "wk3s", "lb", "fail", "close", "end"}]
    /\ itodo \in [Launches -> SUBSET Workers]
    /\ swap \in [I!Nodes -> BOOLEAN] /\ k3s \in [I!Nodes -> BOOLEAN]
    /\ late \in [Workers -> SUBSET {"swap", "k3s"}]
    /\ online \subseteq Workers

\* A launch that is about to install K3s has seen the swap of that node end.
Ready(t) ==
    /\ ipc[t] = "k3s" => ~swap[Master]
    /\ ipc[t] \in {"wswap", "wk3s"} => itodo[t] # {}
    /\ ipc[t] = "wk3s" => ~swap[I!Turn(t)]
StepsInOrder == \A t \in Launches : Ready(t)

\* And so has one whose request the worker may still be at.
LateInOrder == \A w \in Workers : "k3s" \in late[w] => ~swap[w]

InOrder == InstallShape /\ StepsInOrder /\ LateInOrder /\ I!SwapOffBeforeK3s

-----------------------------------------------------------------------------
\* The worker whose turn it is, is one.
LEMMA TurnIsWorker ==
    ASSUME InstallShape, NEW t \in Launches, itodo[t] # {}
    PROVE  I!Turn(t) \in itodo[t] /\ I!Turn(t) \in Workers /\ I!Turn(t) \in I!Nodes
BY DEF InstallShape, I!Turn, I!Nodes

\* Nothing is installed at the start.
LEMMA InitInOrder == I!Init => InOrder
BY DEF I!Init, InOrder, InstallShape, StepsInOrder, Ready, LateInOrder, I!SwapOffBeforeK3s, I!Nodes

\* What the launches and the late requests know of the swap stays so when
\* swap only ends.
LEMMA OrderStays ==
    ASSUME InOrder,
           \A n \in I!Nodes : ~swap[n] => ~swap'[n],
           \A u \in Launches : (ipc'[u] = ipc[u] /\ itodo'[u] = itodo[u]) \/ Ready(u)',
           \A w \in Workers : "k3s" \in late'[w] => "k3s" \in late[w] \/ ~swap'[w]
    PROVE  StepsInOrder' /\ LateInOrder'
<1>1. ASSUME NEW u \in Launches PROVE Ready(u)'
  <2>1. CASE ipc'[u] = ipc[u] /\ itodo'[u] = itodo[u]
    <3>1. I!Turn(u)' = I!Turn(u)
      BY <2>1 DEF I!Turn
    <3>2. ipc[u] = "wk3s" => I!Turn(u) \in I!Nodes /\ ~swap[I!Turn(u)]
      BY TurnIsWorker DEF InOrder, StepsInOrder, Ready
    <3>3. Master \in I!Nodes
      BY DEF I!Nodes
    <3> QED
      BY <2>1, <3>1, <3>2, <3>3 DEF InOrder, StepsInOrder, Ready
  <2> QED
    BY <2>1
<1>2. LateInOrder'
  BY DEF InOrder, LateInOrder, I!Nodes
<1> QED
  BY <1>1, <1>2 DEF StepsInOrder

\* What a launch does without a host keeps everything: its step may change to
\* one that comes before a package.
LEMMA QuietStep ==
    ASSUME InOrder, InstallShape', UNCHANGED I!hosts,
           \A u \in Launches :
              \/ ipc'[u] = ipc[u] /\ itodo'[u] = itodo[u]
              \/ ipc'[u] \notin {"k3s", "wk3s"} /\ (ipc'[u] = "wswap" => itodo'[u] # {}),
           \A w \in Workers : "k3s" \in late'[w] => "k3s" \in late[w] \/ ~swap[w]
    PROVE  InOrder'
<1>1. \A u \in Launches : (ipc'[u] = ipc[u] /\ itodo'[u] = itodo[u]) \/ Ready(u)'
  BY DEF Ready
<1>2. StepsInOrder' /\ LateInOrder'
  BY <1>1, OrderStays DEF I!hosts
<1>3. I!SwapOffBeforeK3s'
  BY DEF InOrder, I!SwapOffBeforeK3s, I!hosts
<1> QED
  BY <1>2, <1>3 DEF InOrder

-----------------------------------------------------------------------------
\* The end of a worker's turn comes before no package of it.
LEMMA NextWorkerGoesBack ==
    ASSUME InstallShape, NEW t \in Launches, itodo[t] # {}, I!NextWorker(t), UNCHANGED online,
           late' \in [Workers -> SUBSET {"swap", "k3s"}],
           swap' \in [I!Nodes -> BOOLEAN], k3s' \in [I!Nodes -> BOOLEAN]
    PROVE  /\ InstallShape'
           /\ \A u \in Launches :
                 \/ ipc'[u] = ipc[u] /\ itodo'[u] = itodo[u]
                 \/ ipc'[u] \notin {"k3s", "wk3s"} /\ (ipc'[u] = "wswap" => itodo'[u] # {})
<1>1. /\ I!Turn(t) \in itodo[t]
      /\ itodo' = [itodo EXCEPT ![t] = itodo[t] \ {I!Turn(t)}]
      /\ ipc' = [ipc EXCEPT ![t] = IF itodo[t] = {I!Turn(t)} THEN "lb" ELSE "wswap"]
  BY TurnIsWorker DEF I!NextWorker, I!Goto
<1> QED
  BY <1>1 DEF InstallShape

\* A package's installation changes one node, and only towards the order: the
\* swap ends, or K3s comes where there is none left.
LEMMA EffectInOrder ==
    ASSUME InstallShape, I!SwapOffBeforeK3s, NEW w \in Workers, NEW package \in {"swap", "k3s"},
           package = "k3s" => ~swap[w], I!Effect(w, package)
    PROVE  /\ swap' \in [I!Nodes -> BOOLEAN] /\ k3s' \in [I!Nodes -> BOOLEAN]
           /\ \A n \in I!Nodes : ~swap[n] => ~swap'[n]
           /\ package = "swap" => ~swap'[w]
           /\ I!SwapOffBeforeK3s'
<1>1. w \in I!Nodes
  BY DEF I!Nodes
<1>2. CASE package = "swap"
  BY <1>1, <1>2 DEF InstallShape, I!SwapOffBeforeK3s, I!Effect
<1>3. CASE package = "k3s"
  BY <1>1, <1>3 DEF InstallShape, I!SwapOffBeforeK3s, I!Effect
<1> QED
  BY <1>2, <1>3

-----------------------------------------------------------------------------
\* A step that touches no host keeps the order.
LEMMA QuietStepsInOrder ==
    ASSUME InOrder, NEW t \in Launches,
           \/ I!Launch(t) \/ I!Begin(t) \/ I!Hostname(t) \/ I!Bootstrap(t) \/ I!Registered(t)
                 \/ I!NotRegistered(t)
           \/ I!ListWorkers(t) \/ I!LoadBalance(t) \/ I!Close(t)
    PROVE  InOrder'
<1> USE DEF I!Goto, I!Trouble
<1>1. CASE I!Launch(t)
  <2>1. InstallShape'
    BY <1>1 DEF InOrder, InstallShape, I!Launch, I!hosts
  <2> QED
    BY <1>1, <2>1, QuietStep DEF InOrder, InstallShape, I!Launch, I!hosts
<1>2. CASE I!Begin(t)
  <2>1. InstallShape'
    BY <1>2 DEF InOrder, InstallShape, I!Begin, I!hosts
  <2> QED
    BY <1>2, <2>1, QuietStep DEF InOrder, InstallShape, I!Begin, I!hosts
<1>3. CASE I!Hostname(t)
  <2>1. InstallShape'
    BY <1>3 DEF InOrder, InstallShape, I!Hostname, I!hosts
  <2> QED
    BY <1>3, <2>1, QuietStep DEF InOrder, InstallShape, I!Hostname, I!hosts
<1>4. CASE I!Bootstrap(t)
  <2>1. InstallShape'
    BY <1>4 DEF InOrder, InstallShape, I!Bootstrap, I!Bootstrapped, I!hosts
  <2> QED
    BY <1>4, <2>1, QuietStep DEF InOrder, InstallShape, I!Bootstrap, I!Bootstrapped, I!hosts
<1>5. CASE I!Registered(t)
  <2>1. InstallShape'
    BY <1>5 DEF InOrder, InstallShape, I!Registered, I!hosts
  <2> QED
    BY <1>5, <2>1, QuietStep DEF InOrder, InstallShape, I!Registered, I!hosts
<1>6. CASE I!NotRegistered(t)
  <2>1. InstallShape'
    BY <1>6 DEF InOrder, InstallShape, I!NotRegistered, I!hosts
  <2> QED
    BY <1>6, <2>1, QuietStep DEF InOrder, InstallShape, I!NotRegistered, I!hosts
<1>7. CASE I!ListWorkers(t)
  <2>1. InstallShape'
    BY <1>7 DEF InOrder, InstallShape, I!ListWorkers, I!hosts
  <2> QED
    BY <1>7, <2>1, QuietStep DEF InOrder, InstallShape, I!ListWorkers, I!hosts
<1>8. CASE I!LoadBalance(t)
  <2>1. InstallShape'
    BY <1>8 DEF InOrder, InstallShape, I!LoadBalance, I!hosts
  <2> QED
    BY <1>8, <2>1, QuietStep DEF InOrder, InstallShape, I!LoadBalance, I!hosts
<1>9. CASE I!Close(t)
  <2>1. InstallShape'
    BY <1>9 DEF InOrder, InstallShape, I!Close, I!hosts
  <2> QED
    BY <1>9, <2>1, QuietStep DEF InOrder, InstallShape, I!Close, I!hosts
<1> QED
  BY <1>1, <1>2, <1>3, <1>4, <1>5, <1>6, <1>7, <1>8, <1>9

-----------------------------------------------------------------------------
\* The master's own swap ends.
LEMMA MasterSwapInOrder ==
    ASSUME InOrder, NEW t \in Launches, I!MasterSwap(t)
    PROVE  InOrder'
<1> USE DEF I!Goto, I!Trouble
<1>1. InstallShape'
  BY DEF InOrder, InstallShape, I!MasterSwap, I!Nodes
<1>2. \A n \in I!Nodes : ~swap[n] => ~swap'[n]
  BY DEF InOrder, InstallShape, I!MasterSwap, I!Nodes
<1>3. ASSUME NEW u \in Launches
      PROVE  (ipc'[u] = ipc[u] /\ itodo'[u] = itodo[u]) \/ Ready(u)'
  BY DEF InOrder, InstallShape, I!MasterSwap, Ready, I!Nodes
<1>4. \A w \in Workers : "k3s" \in late'[w] => "k3s" \in late[w]
  BY DEF I!MasterSwap
<1>5. StepsInOrder' /\ LateInOrder'
  BY <1>2, <1>3, <1>4, OrderStays
<1>6. I!SwapOffBeforeK3s'
  BY <1>2 DEF InOrder, I!SwapOffBeforeK3s, I!MasterSwap
<1> QED
  BY <1>1, <1>5, <1>6 DEF InOrder

\* K3s comes to the master after its swap has ended.
LEMMA MasterK3sInOrder ==
    ASSUME InOrder, NEW t \in Launches, I!MasterK3s(t)
    PROVE  InOrder'
<1> USE DEF I!Goto, I!Trouble
<1>1. InstallShape'
  BY DEF InOrder, InstallShape, I!MasterK3s, I!Nodes
<1>2. \A n \in I!Nodes : ~swap[n] => ~swap'[n]
  BY DEF I!MasterK3s
<1>3. ASSUME NEW u \in Launches
      PROVE  (ipc'[u] = ipc[u] /\ itodo'[u] = itodo[u]) \/ Ready(u)'
  BY DEF InOrder, InstallShape, I!MasterK3s, Ready
<1>4. \A w \in Workers : "k3s" \in late'[w] => "k3s" \in late[w]
  BY DEF I!MasterK3s
<1>5. StepsInOrder' /\ LateInOrder'
  BY <1>2, <1>3, <1>4, OrderStays
<1>6. ~swap[Master]
  BY DEF InOrder, StepsInOrder, Ready, I!MasterK3s
<1>7. I!SwapOffBeforeK3s'
  BY <1>6 DEF InOrder, InstallShape, I!SwapOffBeforeK3s, I!MasterK3s, I!Nodes
<1> QED
  BY <1>1, <1>5, <1>7 DEF InOrder

-----------------------------------------------------------------------------
\* A launch at the packages of the workers has one to do, and one whose swap
\* has ended when K3s is next.
LEMMA AtWorker ==
    ASSUME InOrder, NEW t \in Launches, ipc[t] \in {"wswap", "wk3s"}
    PROVE  /\ itodo[t] # {} /\ I!Turn(t) \in Workers /\ I!Turn(t) \in I!Nodes
           /\ I!Package(t) \in {"swap", "k3s"}
           /\ I!Package(t) = "k3s" => ipc[t] = "wk3s" /\ ~swap[I!Turn(t)]
<1>1. itodo[t] # {}
  BY DEF InOrder, StepsInOrder, Ready
<1> QED
  BY <1>1, TurnIsWorker DEF InOrder, StepsInOrder, Ready, I!Package

\* The worker did what it was asked for.
LEMMA InstallInOrder ==
    ASSUME InOrder, NEW t \in Launches, I!Install(t)
    PROVE  InOrder'
<1> USE AtWorker
<1>1. ipc[t] \in {"wswap", "wk3s"} /\ UNCHANGED <<late, online>>
  BY DEF I!Install
<1>2. /\ swap' \in [I!Nodes -> BOOLEAN] /\ k3s' \in [I!Nodes -> BOOLEAN]
      /\ \A n \in I!Nodes : ~swap[n] => ~swap'[n]
      /\ I!Package(t) = "swap" => ~swap'[I!Turn(t)]
      /\ I!SwapOffBeforeK3s'
  BY <1>1, EffectInOrder DEF InOrder, I!Install
<1>3. CASE ipc[t] = "wswap"
  <2>1. ipc' = [ipc EXCEPT ![t] = "wk3s"] /\ itodo' = itodo
    BY <1>3 DEF I!Install, I!Goto
  <2>2. I!Turn(t)' = I!Turn(t) /\ ~swap'[I!Turn(t)]
    BY <1>2, <1>3, <2>1 DEF I!Turn, I!Package
  <2>3. InstallShape'
    BY <1>1, <1>2, <2>1 DEF InOrder, InstallShape
  <2>4. Ready(t)'
    BY <1>1, <2>1, <2>2 DEF Ready, InOrder, InstallShape
  <2>5. ASSUME NEW u \in Launches
        PROVE  (ipc'[u] = ipc[u] /\ itodo'[u] = itodo[u]) \/ Ready(u)'
    BY <2>1, <2>4 DEF InOrder, InstallShape
  <2>6. StepsInOrder' /\ LateInOrder'
    BY <1>1, <1>2, <2>5, OrderStays
  <2> QED
    BY <1>2, <2>3, <2>6 DEF InOrder
<1>4. CASE ipc[t] = "wk3s"
  <2>1. I!NextWorker(t)
    BY <1>4 DEF I!Install
  <2>2. late' \in [Workers -> SUBSET {"swap", "k3s"}]
    BY <1>1 DEF InOrder, InstallShape
  <2>3. /\ InstallShape'
        /\ \A u \in Launches :
              \/ ipc'[u] = ipc[u] /\ itodo'[u] = itodo[u]
              \/ ipc'[u] \notin {"k3s", "wk3s"} /\ (ipc'[u] = "wswap" => itodo'[u] # {})
    BY <1>1, <1>2, <2>1, <2>2, NextWorkerGoesBack DEF InOrder
  <2>4. \A u \in Launches : (ipc'[u] = ipc[u] /\ itodo'[u] = itodo[u]) \/ Ready(u)'
    BY <2>3 DEF Ready
  <2>5. StepsInOrder' /\ LateInOrder'
    BY <1>1, <1>2, <2>4, OrderStays
  <2> QED
    BY <1>2, <2>3, <2>5 DEF InOrder
<1> QED
  BY <1>1, <1>3, <1>4

\* The worker answers that it failed: K3s may have come halfway, and no other
\* package comes to a worker that has swap.
LEMMA InstallFailsInOrder ==
    ASSUME InOrder, NEW t \in Launches, I!InstallFails(t)
    PROVE  InOrder'
<1> USE AtWorker
<1>1. ipc[t] \in {"wswap", "wk3s"} /\ UNCHANGED <<swap, late, online>>
  BY DEF I!InstallFails
<1>2. k3s' \in [I!Nodes -> BOOLEAN] /\ I!SwapOffBeforeK3s'
  <2>1. CASE I!Package(t) = "k3s"
    BY <1>1, <2>1 DEF InOrder, InstallShape, I!SwapOffBeforeK3s, I!InstallFails
  <2>2. CASE I!Package(t) # "k3s"
    BY <1>1, <2>2 DEF InOrder, InstallShape, I!SwapOffBeforeK3s, I!InstallFails
  <2> QED
    BY <2>1, <2>2
<1>3. I!NextWorker(t)
  BY DEF I!InstallFails, I!GiveUp, I!StopsAt, I!Package
<1>4. /\ InstallShape'
      /\ \A u \in Launches :
            \/ ipc'[u] = ipc[u] /\ itodo'[u] = itodo[u]
            \/ ipc'[u] \notin {"k3s", "wk3s"} /\ (ipc'[u] = "wswap" => itodo'[u] # {})
  <2>1. late' \in [Workers -> SUBSET {"swap", "k3s"}] /\ swap' \in [I!Nodes -> BOOLEAN]
    BY <1>1 DEF InOrder, InstallShape
  <2> QED
    BY <1>1, <1>2, <1>3, <2>1, NextWorkerGoesBack DEF InOrder
<1>5. \A u \in Launches : (ipc'[u] = ipc[u] /\ itodo'[u] = itodo[u]) \/ Ready(u)'
  BY <1>4 DEF Ready
<1>6. StepsInOrder' /\ LateInOrder'
  BY <1>1, <1>5, OrderStays
<1> QED
  BY <1>2, <1>4, <1>6 DEF InOrder

\* A request without an answer is one the worker may still do, with its swap
\* gone if it is about K3s.
LEMMA NoAnswerInOrder ==
    ASSUME InOrder, NEW t \in Launches, I!NoAnswer(t)
    PROVE  InOrder'
<1> USE AtWorker
<1>1. ipc[t] \in {"wswap", "wk3s"} /\ UNCHANGED <<swap, k3s, online>>
  BY DEF I!NoAnswer, I!hosts
<1>2. late' = late \/ late' = [late EXCEPT ![I!Turn(t)] = @ \cup {I!Package(t)}]
  BY DEF I!NoAnswer
<1>3. /\ late' \in [Workers -> SUBSET {"swap", "k3s"}]
      /\ \A w \in Workers : "k3s" \in late'[w] => "k3s" \in late[w] \/ ~swap[w]
  BY <1>1, <1>2 DEF InOrder, InstallShape
<1>4. CASE UNCHANGED <<ipc, itodo>>
  <2>1. InstallShape'
    BY <1>1, <1>3, <1>4 DEF InOrder, InstallShape
  <2> QED
    BY <1>1, <1>3, <1>4, <2>1, QuietStep DEF I!hosts
<1>5. CASE I!NextWorker(t)
  <2>1. swap' \in [I!Nodes -> BOOLEAN] /\ k3s' \in [I!Nodes -> BOOLEAN]
    BY <1>1 DEF InOrder, InstallShape
  <2>2. /\ InstallShape'
        /\ \A u \in Launches :
              \/ ipc'[u] = ipc[u] /\ itodo'[u] = itodo[u]
              \/ ipc'[u] \notin {"k3s", "wk3s"} /\ (ipc'[u] = "wswap" => itodo'[u] # {})
    BY <1>1, <1>3, <1>5, <2>1, NextWorkerGoesBack DEF InOrder
  <2> QED
    BY <1>1, <1>3, <2>2, QuietStep DEF I!hosts
<1> QED
  BY <1>4, <1>5 DEF I!NoAnswer, I!GiveUp

\* What a worker still does for a request that was given up.
LEMMA LateInstallInOrder ==
    ASSUME InOrder, NEW w \in Workers, I!LateInstall(w)
    PROVE  InOrder'
<1>1. PICK package \in late[w] :
         /\ I!Effect(w, package) /\ late' = [late EXCEPT ![w] = @ \ {package}]
         /\ UNCHANGED <<ipc, itodo, online>>
  BY DEF I!LateInstall
<1>2. package \in {"swap", "k3s"} /\ (package = "k3s" => ~swap[w])
  BY DEF InOrder, InstallShape, LateInOrder
<1>3. /\ swap' \in [I!Nodes -> BOOLEAN] /\ k3s' \in [I!Nodes -> BOOLEAN]
      /\ \A n \in I!Nodes : ~swap[n] => ~swap'[n]
      /\ I!SwapOffBeforeK3s'
  BY <1>1, <1>2, EffectInOrder DEF InOrder
<1>4. InstallShape'
  BY <1>1, <1>3 DEF InOrder, InstallShape
<1>5. StepsInOrder' /\ LateInOrder'
  <2>1. \A x \in Workers : "k3s" \in late'[x] => "k3s" \in late[x]
    BY <1>1 DEF InOrder, InstallShape
  <2> QED
    BY <1>1, <1>3, <2>1, OrderStays
<1> QED
  BY <1>3, <1>4, <1>5 DEF InOrder

-----------------------------------------------------------------------------
\* Every step keeps the order.
LEMMA NextInOrder == InOrder /\ [I!Next]_I!vars => InOrder'
<1> SUFFICES ASSUME InOrder, [I!Next]_I!vars PROVE InOrder'
  OBVIOUS
<1>1. ASSUME NEW t \in Launches, I!MasterSwap(t) PROVE InOrder'
  BY <1>1, MasterSwapInOrder
<1>2. ASSUME NEW t \in Launches, I!MasterK3s(t) PROVE InOrder'
  BY <1>2, MasterK3sInOrder
<1>3. ASSUME NEW t \in Launches, I!Install(t) PROVE InOrder'
  BY <1>3, InstallInOrder
<1>4. ASSUME NEW t \in Launches, I!InstallFails(t) PROVE InOrder'
  BY <1>4, InstallFailsInOrder
<1>5. ASSUME NEW t \in Launches, I!NoAnswer(t) PROVE InOrder'
  BY <1>5, NoAnswerInOrder
<1>6. ASSUME NEW t \in Launches,
             \/ I!Launch(t) \/ I!Begin(t) \/ I!Hostname(t) \/ I!Bootstrap(t) \/ I!Registered(t)
                   \/ I!NotRegistered(t)
             \/ I!ListWorkers(t) \/ I!LoadBalance(t) \/ I!Close(t)
      PROVE  InOrder'
  BY <1>6, QuietStepsInOrder
<1>7. ASSUME NEW w \in Workers, I!LateInstall(w) PROVE InOrder'
  BY <1>7, LateInstallInOrder
<1>8. ASSUME NEW w \in Workers, I!Heartbeat(w) \/ I!Silent(w) PROVE InOrder'
  <2>1. UNCHANGED <<ipc, itodo, I!hosts, late>>
    BY <1>8 DEF I!Heartbeat, I!Silent
  <2>2. online' \subseteq Workers
    BY <1>8 DEF I!Heartbeat, I!Silent, InOrder, InstallShape
  <2>3. InstallShape'
    BY <2>1, <2>2 DEF InOrder, InstallShape, I!hosts
  <2> QED
    BY <2>1, <2>3, QuietStep
<1>9. CASE UNCHANGED I!vars
  <2>1. UNCHANGED <<ipc, itodo, I!hosts, late, online>>
    BY <1>9 DEF I!vars
  <2>2. InstallShape'
    BY <2>1 DEF InOrder, InstallShape, I!hosts
  <2> QED
    BY <2>1, <2>2, QuietStep
<1> QED
  BY <1>1, <1>2, <1>3, <1>4, <1>5, <1>6, <1>7, <1>8, <1>9 DEF I!Next

\* init.rs run_init, init_worker and run_worker_init: K3s comes to no node that
\* has swap, for every set of workers, any number of installations at once and
\* any number of requests sent again or answered late.
THEOREM K3sComesAfterSwap == Spec => []I!SwapOffBeforeK3s
<1>1. I!Init => InOrder
  BY InitInOrder
<1>2. InOrder /\ [I!Next]_I!vars => InOrder'
  BY NextInOrder
<1>3. InOrder => I!SwapOffBeforeK3s
  BY DEF InOrder
<1> QED
  BY <1>1, <1>2, <1>3, InstallSteps, PTL DEF Spec
-----------------------------------------------------------------------------
(***************************************************************************)
(* What an installation says when it has ended.  The list of steps belongs *)
(* to the launch that is at work, as long as no two of them overlap.       *)
(***************************************************************************)
\* The values of a step, and whether it is over.
StepsKnown == steps \in [I!Steps -> {"none", "pending", "running", "ok", "failed"}]
PackageOver(s) == steps[s] \in {"ok", "failed"}

\* A launch that is nowhere near the steps, and one that is at them.
Away   == {"none", "end"}
AtWork == {"host", "boot", "wait", "swap", "k3s", "list", "wswap", "wk3s", "lb", "fail", "close"}

\* What the steps say when a single launch has come as far as t: those behind
\* it are over, and the packages of no worker are begun before its turn.
SelfDone(t) ==
    /\ ipc[t] \in AtWork \ {"host", "fail"} => steps[<<Master, "host">>] = "ok"
    /\ ipc[t] \in {"k3s", "list", "wswap", "wk3s", "lb", "close"} => steps[<<Master, "swap">>] = "ok"
    /\ ipc[t] \in {"list", "wswap", "wk3s", "lb", "close"} => PackageOver(<<Master, "k3s">>)
    /\ ipc[t] = "close" => PackageOver(<<Master, "lb">>)
HostsDone(t) ==
    \A w \in Workers :
        \/ ipc[t] = "boot" /\ w \in itodo[t]
        \/ ipc[t] \in {"none", "spawned", "host", "fail", "end"}
        \/ steps[<<w, "host">>] = "ok"
NotBegun(t) ==
    ipc[t] \in {"host", "boot", "wait", "swap", "k3s", "list"} =>
        \A w \in Workers : \A p \in {"swap", "k3s"} : steps[<<w, p>>] = "pending"
WorkersDone(t) ==
    /\ ipc[t] \in {"wswap", "wk3s", "lb", "close"} =>
          \A w \in Workers \ itodo[t] : \A p \in {"swap", "k3s"} :
             PackageOver(<<w, p>>) \/ (w \in skipped /\ steps[<<w, p>>] = "pending")
    /\ ipc[t] \in {"lb", "close"} => itodo[t] = {}
    /\ ipc[t] = "wk3s" => PackageOver(<<I!Turn(t), "swap">>)
SoFar(t) == SelfDone(t) /\ HostsDone(t) /\ NotBegun(t) /\ WorkersDone(t)

\* As long as no two launches ran at once: there is one at most, `running` is
\* set while it is at work, and the steps are those it has come to.
OneLaunch ==
    /\ \A t, u \in Launches : t = u \/ ipc[t] \in Away \/ ipc[u] \in Away
    /\ \A t \in Launches : ipc[t] \in AtWork => running
    /\ \A t \in Launches : SoFar(t)
Told == StepsKnown /\ (~ioverlapped => OneLaunch /\ I!EndsHonest)
-----------------------------------------------------------------------------
\* Nothing is told at the start.
LEMMA InitTold == I!Init => Told
BY DEF I!Init, Told, StepsKnown, OneLaunch, Away, AtWork, SoFar, SelfDone, HostsDone, NotBegun, WorkersDone,
       I!EndsHonest

\* The steps there are.
LEMMA StepsThereAre ==
    /\ Master \in I!Nodes /\ Workers \subseteq I!Nodes
    /\ \A n \in I!Nodes : \A p \in {"host", "swap", "k3s"} : <<n, p>> \in I!Steps
    /\ <<Master, "lb">> \in I!Steps
BY DEF I!Nodes, I!Steps

\* A launch that comes along changes what is told only as far as it comes.
LEMMA StepOfOne ==
    ASSUME Told, StepsKnown', NEW t \in Launches, ipc[t] \in AtWork, ipc'[t] \in AtWork,
           UNCHANGED <<running, ioverlapped>>,
           \A u \in Launches : u = t \/ ipc'[u] = ipc[u],
           ~ioverlapped /\ SoFar(t) => SoFar(t)'
    PROVE  Told'
<1> SUFFICES ASSUME ~ioverlapped PROVE OneLaunch' /\ I!EndsHonest'
  BY DEF Told
<1>1. OneLaunch /\ running'
  BY DEF Told, OneLaunch
<1>2. \A u \in Launches : u = t \/ ipc[u] \in Away
  BY <1>1 DEF OneLaunch, Away, AtWork
<1>3. \A u \in Launches : u # t => SoFar(u)'
  BY <1>2 DEF SoFar, SelfDone, HostsDone, NotBegun, WorkersDone, Away, AtWork
<1>4. OneLaunch'
  BY <1>1, <1>2, <1>3 DEF OneLaunch
<1> QED
  BY <1>1, <1>4 DEF I!EndsHonest

\* A step in which no launch comes along and nothing is told.
LEMMA StepOfNone ==
    ASSUME Told, UNCHANGED <<I!status, ipc, itodo, I!history>>
    PROVE  Told'
BY DEF Told, StepsKnown, OneLaunch, SoFar, SelfDone, HostsDone, NotBegun, WorkersDone, PackageOver, I!Turn,
       I!EndsHonest,
       I!status, I!history

\* One step is written, and the others are as they were.
LEMMA SetOne ==
    ASSUME StepsKnown, NEW n \in I!Nodes, NEW step \in {"host", "swap", "k3s", "lb"}, <<n, step>> \in I!Steps,
           NEW word \in {"running", "ok", "failed"}, I!Set(n, step, word)
    PROVE  /\ StepsKnown'
           /\ steps'[<<n, step>>] = word
           /\ \A x \in I!Nodes : \A p \in {"host", "swap", "k3s"} :
                 x # n \/ p # step => steps'[<<x, p>>] = steps[<<x, p>>]
           /\ step # "lb" => steps'[<<Master, "lb">>] = steps[<<Master, "lb">>]
BY StepsThereAre DEF StepsKnown, I!Set

\* The steps of a launch that are before the packages of the workers.
LEMMA HostnameTold ==
    ASSUME InOrder, Told, NEW t \in Launches, I!Hostname(t)
    PROVE  Told'
<1>1. PICK word \in {"ok", "failed"} : I!Set(Master, "host", word) /\ (ipc'[t] # "fail" => word = "ok")
  BY DEF I!Hostname, I!Goto, InOrder, InstallShape
<1>2. /\ ipc[t] = "host" /\ ipc'[t] \in {"boot", "fail"} /\ (ipc'[t] = "boot" => itodo'[t] = Workers)
      /\ UNCHANGED <<running, ioverlapped, skipped>>
      /\ \A u \in Launches : u # t => ipc'[u] = ipc[u]
  BY DEF I!Hostname, I!Goto, InOrder, InstallShape, I!history
<1>3. /\ StepsKnown' /\ steps'[<<Master, "host">>] = word
      /\ \A x \in I!Nodes : \A p \in {"swap", "k3s"} : steps'[<<x, p>>] = steps[<<x, p>>]
  BY <1>1, SetOne, StepsThereAre DEF Told
<1>4. ~ioverlapped /\ SoFar(t) => SoFar(t)'
  BY <1>1, <1>2, <1>3, StepsThereAre DEF SoFar, SelfDone, HostsDone, NotBegun, WorkersDone, AtWork
<1> QED
  BY <1>2, <1>3, <1>4, StepOfOne DEF AtWork

\* Worker after worker is reached.
LEMMA BootstrapTold ==
    ASSUME Master \notin Workers, InOrder, Told, NEW t \in Launches, I!Bootstrap(t)
    PROVE  Told'
<1> USE StepsThereAre DEF I!Bootstrap, I!Goto, I!Trouble, InOrder, InstallShape, Told, I!history
<1>1. CASE itodo[t] = {}
  <2>1. ipc' = [ipc EXCEPT ![t] = "wait"] /\ UNCHANGED <<steps, itodo, skipped>>
    BY <1>1
  <2>2. ~ioverlapped /\ SoFar(t) => SoFar(t)'
    BY <1>1, <2>1 DEF SoFar, SelfDone, HostsDone, NotBegun, WorkersDone, AtWork, PackageOver
  <2> QED
    BY <2>1, <2>2, StepOfOne DEF AtWork, StepsKnown
<1>2. CASE itodo[t] # {}
  <2>1. PICK w \in itodo[t] :
          \/ I!Set(w, "host", "ok") /\ itodo' = [itodo EXCEPT ![t] = @ \ {w}] /\ UNCHANGED ipc
          \/ I!Set(w, "host", "failed") /\ I!Goto(t, "fail") /\ UNCHANGED itodo
    BY <1>2
  <2>2. w \in I!Nodes /\ w # Master /\ itodo[t] \subseteq Workers
    OBVIOUS
  <2>3. /\ StepsKnown'
        /\ \A x \in I!Nodes : \A p \in {"host", "swap", "k3s"} :
              x # w \/ p # "host" => steps'[<<x, p>>] = steps[<<x, p>>]
        /\ ipc'[t] # "fail" => ipc'[t] = "boot" /\ steps'[<<w, "host">>] = "ok" /\ itodo'[t] = itodo[t] \ {w}
    BY <2>1, <2>2, SetOne
  <2>4. ipc'[t] \in {"boot", "fail"} /\ \A u \in Launches : u # t => ipc'[u] = ipc[u]
    BY <2>1
  <2>5. ~ioverlapped /\ SoFar(t) => SoFar(t)'
    <3> SUFFICES ASSUME SoFar(t), ipc'[t] = "boot" PROVE SoFar(t)'
      BY <2>4 DEF SoFar, SelfDone, HostsDone, NotBegun, WorkersDone, AtWork
    <3>1. SelfDone(t)' /\ WorkersDone(t)'
      BY <2>2, <2>3 DEF SoFar, SelfDone, WorkersDone, AtWork
    <3>2. HostsDone(t)'
      BY <2>2, <2>3 DEF SoFar, HostsDone
    <3>3. NotBegun(t)'
      BY <2>2, <2>3 DEF SoFar, NotBegun
    <3> QED
      BY <3>1, <3>2, <3>3 DEF SoFar
  <2> QED
    BY <2>3, <2>4, <2>5, StepOfOne DEF AtWork
<1> QED
  BY <1>1, <1>2

\* The registrations say nothing.
LEMMA WaitTold ==
    ASSUME InOrder, Told, NEW t \in Launches, I!Registered(t) \/ I!NotRegistered(t)
    PROVE  Told'
<1>1. /\ ipc[t] = "wait" /\ ipc'[t] \in {"swap", "fail"} /\ UNCHANGED <<I!status, itodo, I!history>>
      /\ \A u \in Launches : u # t => ipc'[u] = ipc[u]
  BY DEF I!Registered, I!NotRegistered, I!Goto, InOrder, InstallShape
<1>2. ~ioverlapped /\ SoFar(t) => SoFar(t)'
  BY <1>1 DEF SoFar, SelfDone, HostsDone, NotBegun, WorkersDone, AtWork, I!status
<1> QED
  BY <1>1, <1>2, StepOfOne DEF AtWork, Told, StepsKnown, I!status, I!history

\* The master's own packages and its load balancer.
LEMMA MasterTold ==
    ASSUME Master \notin Workers, InOrder, Told, NEW t \in Launches,
           I!MasterSwap(t) \/ I!MasterK3s(t) \/ I!LoadBalance(t)
    PROVE  Told'
<1>1. PICK step \in {"swap", "k3s", "lb"}, word \in {"ok", "failed"} :
        I!Set(Master, step, word) /\ ipc[t] = step /\ (ipc'[t] = "k3s" => word = "ok")
  BY DEF I!MasterSwap, I!MasterK3s, I!LoadBalance, I!Goto, InOrder, InstallShape
<1>2. /\ \/ ipc[t] = "swap" /\ ipc'[t] \in {"k3s", "fail"}
         \/ ipc[t] = "k3s" /\ ipc'[t] = "list"
         \/ ipc[t] = "lb" /\ ipc'[t] = "close"
      /\ UNCHANGED <<running, itodo, skipped, ioverlapped>>
      /\ \A u \in Launches : u # t => ipc'[u] = ipc[u]
  BY DEF I!MasterSwap, I!MasterK3s, I!LoadBalance, I!Goto, InOrder, InstallShape, I!history
<1>3. /\ StepsKnown' /\ steps'[<<Master, step>>] = word
      /\ \A x \in I!Nodes : \A p \in {"host", "swap", "k3s"} :
            x # Master \/ p # step => steps'[<<x, p>>] = steps[<<x, p>>]
  <2>1. <<Master, step>> \in I!Steps /\ Master \in I!Nodes
    BY StepsThereAre
  <2>2. StepsKnown /\ step \in {"host", "swap", "k3s", "lb"} /\ word \in {"running", "ok", "failed"}
    BY DEF Told
  <2> QED
    BY ONLY <1>1, <2>1, <2>2, StepsThereAre DEF I!Set, StepsKnown
<1>4. \A w \in Workers : \A p \in {"host", "swap", "k3s"} : steps'[<<w, p>>] = steps[<<w, p>>]
  BY <1>3, StepsThereAre
<1>5. ~ioverlapped /\ SoFar(t) => SoFar(t)'
  <2> SUFFICES ASSUME SoFar(t) PROVE SoFar(t)'
    OBVIOUS
  <2>1. SelfDone(t)'
    BY <1>1, <1>2, <1>3, StepsThereAre DEF SoFar, SelfDone, AtWork, PackageOver
  <2>2. HostsDone(t)'
    BY <1>2, <1>4 DEF SoFar, HostsDone
  <2>3. NotBegun(t)'
    BY <1>2, <1>4 DEF SoFar, NotBegun
  <2>4. CASE ipc'[t] = "close"
    <3>1. WorkersDone(t) /\ ipc[t] = "lb" /\ UNCHANGED <<itodo, skipped>>
      BY <1>2, <2>4 DEF SoFar
    <3>2. WorkersDone(t)'
      BY <1>4, <2>4, <3>1 DEF WorkersDone, PackageOver
    <3> QED
      BY <2>1, <2>2, <2>3, <3>2 DEF SoFar
  <2>5. CASE ipc'[t] # "close"
    BY <1>2, <2>1, <2>2, <2>3, <2>5 DEF SoFar, WorkersDone
  <2> QED
    BY <2>4, <2>5
<1> QED
  BY <1>2, <1>3, <1>5, StepOfOne DEF AtWork

\* The workers that are not online when they are listed are the skipped ones.
LEMMA ListWorkersTold ==
    ASSUME InOrder, Told, NEW t \in Launches, I!ListWorkers(t)
    PROVE  Told'
<1>1. /\ ipc[t] = "list" /\ ipc'[t] \in {"wswap", "lb"} /\ (ipc'[t] = "lb" => online = {})
      /\ itodo'[t] = online /\ skipped' = skipped \cup (Workers \ online)
      /\ UNCHANGED <<I!status, ioverlapped>>
      /\ \A u \in Launches : u # t => ipc'[u] = ipc[u]
  BY DEF I!ListWorkers, I!Goto, InOrder, InstallShape
<1>2. ~ioverlapped /\ SoFar(t) => SoFar(t)'
  BY <1>1 DEF SoFar, SelfDone, HostsDone, NotBegun, WorkersDone, AtWork, PackageOver, I!status
<1> QED
  BY <1>1, <1>2, StepOfOne DEF AtWork, Told, StepsKnown, I!status

-----------------------------------------------------------------------------
\* A launch at the packages of the workers comes along when it is at a worker
\* that is still to do, and leaves the others as they are.
LEMMA AtWorkerTold ==
    ASSUME Master \notin Workers, InOrder, Told, NEW t \in Launches, ipc[t] \in {"wswap", "wk3s"},
           StepsKnown', UNCHANGED <<running, skipped, ioverlapped>>,
           \A u \in Launches : u # t => ipc'[u] = ipc[u],
           \A x \in I!Nodes : \A p \in {"host", "swap", "k3s"} :
              (x = I!Turn(t) /\ p # "host") \/ steps'[<<x, p>>] = steps[<<x, p>>],
           \/ itodo'[t] = itodo[t] /\ ipc'[t] = ipc[t]
                 /\ (ipc[t] = "wk3s" => UNCHANGED steps[<<I!Turn(t), "swap">>])
           \/ itodo'[t] = itodo[t] /\ ipc[t] = "wswap" /\ ipc'[t] = "wk3s"
              /\ steps'[<<I!Turn(t), "swap">>] \in {"ok", "failed"}
           \/ /\ itodo'[t] = itodo[t] \ {I!Turn(t)} /\ ipc'[t] = IF itodo'[t] = {} THEN "lb" ELSE "wswap"
              /\ \A p \in {"swap", "k3s"} : steps'[<<I!Turn(t), p>>] \in {"ok", "failed"}
    PROVE  Told'
<1>1. /\ I!Turn(t) \in itodo[t] /\ I!Turn(t) \in Workers /\ I!Turn(t) # Master
      /\ ipc'[t] \in {"wswap", "wk3s", "lb"}
  BY TurnIsWorker, AtWorker DEF InOrder
<1>2. itodo'[t] = itodo[t] => I!Turn(t)' = I!Turn(t)
  BY DEF I!Turn
<1>3. ~ioverlapped /\ SoFar(t) => SoFar(t)'
  <2> SUFFICES ASSUME SoFar(t) PROVE SoFar(t)'
    OBVIOUS
  <2> USE StepsThereAre
  <2>1. SelfDone(t)'
    BY <1>1 DEF SoFar, SelfDone, AtWork, PackageOver
  <2>2. HostsDone(t)'
    BY <1>1 DEF SoFar, HostsDone
  <2>3. NotBegun(t)'
    BY <1>1 DEF NotBegun
  <2>4. \A w \in Workers \ itodo[t] : \A p \in {"swap", "k3s"} : steps'[<<w, p>>] = steps[<<w, p>>]
    BY <1>1
  <2>5. \A w \in Workers \ itodo[t] : \A p \in {"swap", "k3s"} :
           PackageOver(<<w, p>>) \/ (w \in skipped /\ steps[<<w, p>>] = "pending")
    BY DEF SoFar, WorkersDone
  <2>6. \A w \in Workers \ itodo'[t] : \A p \in {"swap", "k3s"} :
           PackageOver(<<w, p>>)' \/ (w \in skipped' /\ steps'[<<w, p>>] = "pending")
    BY <2>4, <2>5 DEF PackageOver
  <2>7. (ipc'[t] \in {"lb", "close"} => itodo'[t] = {})
            /\ (ipc'[t] = "wk3s" => PackageOver(<<I!Turn(t), "swap">>)')
    BY <1>1, <1>2 DEF SoFar, WorkersDone, PackageOver
  <2> QED
    BY <2>1, <2>2, <2>3, <2>6, <2>7 DEF SoFar, WorkersDone
<1> QED
  BY <1>1, <1>3, StepOfOne DEF AtWork

\* What GiveUp and the end of a worker's turn say of its packages.
LEMMA GiveUpTold ==
    ASSUME Master \notin Workers, InOrder, Told, NEW t \in Launches, ipc[t] \in {"wswap", "wk3s"},
           I!GiveUp(t), UNCHANGED <<running, I!history>>
    PROVE  Told'
<1> USE StepsThereAre, AtWorker DEF InOrder, InstallShape
<1>1. /\ I!Turn(t) \in itodo[t]
      /\ itodo' = [itodo EXCEPT ![t] = itodo[t] \ {I!Turn(t)}]
      /\ ipc' = [ipc EXCEPT ![t] = IF itodo[t] = {I!Turn(t)} THEN "lb" ELSE "wswap"]
  BY TurnIsWorker DEF I!GiveUp, I!NextWorker, I!Goto
<1>2. /\ StepsKnown'
      /\ \A s \in I!Remaining(t) : s \in I!Steps => steps'[s] = "failed"
      /\ \A s \in I!Steps \ I!Remaining(t) : steps'[s] = steps[s]
  BY DEF I!GiveUp, StepsKnown, Told
<1>3. \A x \in I!Nodes : \A p \in {"host", "swap", "k3s"} :
         (x = I!Turn(t) /\ p # "host") \/ steps'[<<x, p>>] = steps[<<x, p>>]
  BY <1>2 DEF I!Remaining, I!Package
<1>4. ~ioverlapped => \A p \in {"swap", "k3s"} : steps'[<<I!Turn(t), p>>] \in {"ok", "failed"}
  <2>1. CASE ipc[t] = "wswap"
    <3>1. \A p \in {"swap", "k3s"} : <<I!Turn(t), p>> \in I!Remaining(t) /\ <<I!Turn(t), p>> \in I!Steps
      BY <2>1 DEF I!Remaining, I!Package
    <3> QED
      BY <1>2, <3>1
  <2>2. CASE ipc[t] = "wk3s"
    <3>1. I!Remaining(t) = {<<I!Turn(t), "k3s">>}
      BY <2>2 DEF I!Remaining, I!Package
    <3>2. <<I!Turn(t), "swap">> \in I!Steps \ I!Remaining(t) /\ <<I!Turn(t), "k3s">> \in I!Steps
      BY <3>1
    <3>3. ~ioverlapped => steps[<<I!Turn(t), "swap">>] \in {"ok", "failed"}
      BY <2>2 DEF PackageOver, Told, OneLaunch, SoFar, WorkersDone
    <3> QED
      BY <1>2, <3>1, <3>2, <3>3
  <2> QED
    BY <2>1, <2>2
<1>5. itodo'[t] = itodo[t] \ {I!Turn(t)} /\ ipc'[t] = IF itodo'[t] = {} THEN "lb" ELSE "wswap"
  BY <1>1
<1>6. \A u \in Launches : u # t => ipc'[u] = ipc[u]
  BY <1>1
<1>7. CASE ioverlapped
  BY <1>2, <1>7 DEF Told, I!history
<1>8. CASE ~ioverlapped
  BY <1>2, <1>3, <1>4, <1>5, <1>6, <1>8, AtWorkerTold DEF I!history
<1> QED
  BY <1>7, <1>8

\* One package is written to be over.
LEMMA PackageTold ==
    ASSUME Master \notin Workers, InOrder, Told, NEW t \in Launches, ipc[t] \in {"wswap", "wk3s"},
           NEW word \in {"ok", "failed"}, I!Set(I!Turn(t), I!Package(t), word),
           UNCHANGED <<running, I!history>>,
           IF ipc[t] = "wswap" THEN I!Goto(t, "wk3s") /\ UNCHANGED itodo ELSE I!NextWorker(t)
    PROVE  Told'
<1> USE StepsThereAre, AtWorker DEF InOrder, InstallShape
<1>1. /\ StepsKnown'
      /\ steps'[<<I!Turn(t), I!Package(t)>>] = word
      /\ \A x \in I!Nodes : \A p \in {"host", "swap", "k3s"} :
            x # I!Turn(t) \/ p # I!Package(t) => steps'[<<x, p>>] = steps[<<x, p>>]
  <2>1. StepsKnown /\ I!Turn(t) \in I!Nodes /\ I!Package(t) \in {"host", "swap", "k3s", "lb"}
    BY DEF Told
  <2>2. <<I!Turn(t), I!Package(t)>> \in I!Steps /\ word \in {"running", "ok", "failed"}
    BY AtWorker, StepsThereAre
  <2> QED
    BY ONLY <2>1, <2>2, StepsThereAre, I!Set(I!Turn(t), I!Package(t), word) DEF I!Set, StepsKnown
<1>2. \A x \in I!Nodes : \A p \in {"host", "swap", "k3s"} :
         (x = I!Turn(t) /\ p # "host") \/ steps'[<<x, p>>] = steps[<<x, p>>]
  BY <1>1
<1>3. CASE ioverlapped
  BY <1>1, <1>3 DEF Told, I!history
<1>4. CASE ~ioverlapped /\ ipc[t] = "wswap"
  <2>1. /\ itodo'[t] = itodo[t] /\ ipc'[t] = "wk3s" /\ steps'[<<I!Turn(t), "swap">>] \in {"ok", "failed"}
        /\ \A u \in Launches : u # t => ipc'[u] = ipc[u]
    BY <1>1, <1>4 DEF I!Package, I!Goto
  <2> QED
    BY <1>1, <1>2, <1>4, <2>1, AtWorkerTold DEF I!history
<1>5. CASE ~ioverlapped /\ ipc[t] = "wk3s"
  <2>1. /\ I!Turn(t) \in itodo[t]
        /\ itodo' = [itodo EXCEPT ![t] = itodo[t] \ {I!Turn(t)}]
        /\ ipc' = [ipc EXCEPT ![t] = IF itodo[t] = {I!Turn(t)} THEN "lb" ELSE "wswap"]
    BY <1>5, TurnIsWorker DEF I!NextWorker, I!Goto
  <2>2. /\ itodo'[t] = itodo[t] \ {I!Turn(t)} /\ ipc'[t] = IF itodo'[t] = {} THEN "lb" ELSE "wswap"
        /\ \A u \in Launches : u # t => ipc'[u] = ipc[u]
    BY <2>1
  <2>3. steps[<<I!Turn(t), "swap">>] \in {"ok", "failed"}
    BY <1>5 DEF Told, OneLaunch, SoFar, WorkersDone, PackageOver
  <2>4. \A p \in {"swap", "k3s"} : steps'[<<I!Turn(t), p>>] \in {"ok", "failed"}
    BY <1>1, <1>5, <2>3 DEF I!Package
  <2> QED
    BY <1>1, <1>2, <1>5, <2>2, <2>4, AtWorkerTold DEF I!history
<1> QED
  BY <1>3, <1>4, <1>5

\* The packages of the workers.
LEMMA InstallTold ==
    ASSUME Master \notin Workers, InOrder, Told, NEW t \in Launches, I!Install(t) \/ I!InstallFails(t)
    PROVE  Told'
<1>1. ipc[t] \in {"wswap", "wk3s"} /\ UNCHANGED <<running, I!history>>
  BY DEF I!Install, I!InstallFails
<1>2. \/ I!GiveUp(t)
      \/ \E word \in {"ok", "failed"} :
            /\ I!Set(I!Turn(t), I!Package(t), word)
            /\ IF ipc[t] = "wswap" THEN I!Goto(t, "wk3s") /\ UNCHANGED itodo ELSE I!NextWorker(t)
  BY DEF I!Install, I!InstallFails
<1> QED
  BY <1>1, <1>2, GiveUpTold, PackageTold

\* A request sent again leaves the package at "running".
LEMMA NoAnswerTold ==
    ASSUME Master \notin Workers, InOrder, Told, NEW t \in Launches, I!NoAnswer(t)
    PROVE  Told'
<1>1. ipc[t] \in {"wswap", "wk3s"} /\ UNCHANGED <<running, I!history>>
  BY DEF I!NoAnswer
<1>2. CASE I!Set(I!Turn(t), I!Package(t), "running") /\ UNCHANGED <<ipc, itodo>>
  <2>1. /\ StepsKnown /\ I!Turn(t) \in I!Nodes /\ I!Package(t) \in {"swap", "k3s"}
        /\ ipc[t] = "wk3s" => I!Package(t) = "k3s"
    BY <1>1, AtWorker DEF Told, I!Package
  <2>2. /\ StepsKnown'
        /\ \A x \in I!Nodes : \A p \in {"host", "swap", "k3s"} :
              (x = I!Turn(t) /\ p # "host") \/ steps'[<<x, p>>] = steps[<<x, p>>]
        /\ ipc[t] = "wk3s" => steps'[<<I!Turn(t), "swap">>] = steps[<<I!Turn(t), "swap">>]
    BY ONLY <1>2, <2>1, StepsThereAre DEF I!Set, StepsKnown
  <2>3. ipc[t] = "wk3s" => UNCHANGED steps[<<I!Turn(t), "swap">>]
    BY <1>2, <2>2 DEF I!Turn
  <2> QED
    BY <1>1, <1>2, <2>2, <2>3, AtWorkerTold DEF I!history
<1>3. CASE I!GiveUp(t)
  BY <1>1, <1>3, GiveUpTold
<1> QED
  BY <1>2, <1>3 DEF I!NoAnswer

-----------------------------------------------------------------------------
\* A launch that comes while another one is there is an overlap.
LEMMA LaunchTold ==
    ASSUME InOrder, Told, NEW t \in Launches, I!Launch(t)
    PROVE  Told'
<1>1. /\ ipc[t] = "none" /\ ipc' = [ipc EXCEPT ![t] = "spawned"]
      /\ UNCHANGED <<I!status, itodo, skipped>> /\ ioverlapped' = (ioverlapped \/ I!Busy # {}) /\ ~running
  BY DEF I!Launch, I!Goto, I!MayLaunch
<1>2. StepsKnown'
  BY <1>1 DEF Told, StepsKnown, I!status
<1>3. CASE ioverlapped'
  BY <1>2, <1>3 DEF Told
<1>4. CASE ~ioverlapped'
  <2>1. OneLaunch /\ I!EndsHonest /\ \A u \in Launches : ipc[u] \in Away
    BY <1>1, <1>4 DEF I!Busy, Told, Away
  <2>2. \A u \in Launches : (u = t /\ ipc'[u] = "spawned") \/ (u # t /\ ipc'[u] \in Away)
    BY <1>1, <2>1 DEF InOrder, InstallShape
  <2>3. \A u \in Launches : SoFar(u)'
    BY <2>2 DEF SoFar, SelfDone, HostsDone, NotBegun, WorkersDone, Away, AtWork
  <2>4. OneLaunch'
    BY <2>2, <2>3 DEF OneLaunch, Away, AtWork
  <2>5. I!EndsHonest'
    BY <1>1, <1>4, <2>1 DEF I!EndsHonest, I!status
  <2> QED
    BY <1>2, <2>4, <2>5 DEF Told
<1> QED
  BY <1>3, <1>4

\* It begins with no step done and nobody skipped.
LEMMA BeginTold ==
    ASSUME InOrder, Told, NEW t \in Launches, I!Begin(t)
    PROVE  Told'
<1>1. /\ ipc[t] = "spawned" /\ ipc'[t] = "host" /\ running' /\ UNCHANGED ioverlapped
      /\ steps' = [s \in I!Steps |-> "pending"]
      /\ \A u \in Launches : u # t => ipc'[u] = ipc[u]
  BY DEF I!Begin, I!Goto, InOrder, InstallShape
<1>2. StepsKnown'
  BY <1>1 DEF StepsKnown
<1>3. CASE ~ioverlapped
  <2>1. \A u \in Launches : u = t \/ (ipc[u] \in Away /\ ipc'[u] \in Away)
    BY <1>1, <1>3 DEF Told, OneLaunch, Away
  <2>2. \A u \in Launches : u # t => SoFar(u)'
    BY <2>1 DEF SoFar, SelfDone, HostsDone, NotBegun, WorkersDone, Away, AtWork
  <2>3. SoFar(t)'
    BY <1>1, StepsThereAre DEF SoFar, SelfDone, HostsDone, NotBegun, WorkersDone, AtWork
  <2>4. OneLaunch'
    BY <1>1, <2>1, <2>2, <2>3 DEF OneLaunch
  <2> QED
    BY <1>1, <1>2, <2>4 DEF Told, I!EndsHonest
<1> QED
  BY <1>1, <1>2, <1>3 DEF Told

\* At the end every step is over, or that of a worker that was skipped; and
\* without an error none of them failed.
LEMMA CloseTold ==
    ASSUME InOrder, Told, NEW t \in Launches, I!Close(t)
    PROVE  Told'
<1>1. /\ ipc[t] \in {"fail", "close"} /\ ipc'[t] = "end" /\ UNCHANGED <<steps, itodo, I!history>>
      /\ error' = (ipc[t] = "fail" \/ I!AnyFailed \/ error)
      /\ \A u \in Launches : u # t => ipc'[u] = ipc[u]
  BY DEF I!Close, I!Goto, InOrder, InstallShape
<1>2. StepsKnown'
  BY <1>1 DEF Told, StepsKnown
<1>3. CASE ~ioverlapped
  <2>1. \A u \in Launches : ipc'[u] \in Away
    BY <1>1, <1>3 DEF Told, OneLaunch, Away
  <2>2. OneLaunch'
    BY <2>1 DEF OneLaunch, SoFar, SelfDone, HostsDone, NotBegun, WorkersDone, Away, AtWork
  <2>3. SUFFICES ASSUME ~error', NEW s \in I!Steps
        PROVE  steps[s] = "ok" \/ (s[1] \in skipped /\ steps[s] = "pending")
    BY <1>1, <1>2, <2>2 DEF Told, I!EndsHonest, I!history
  <2>4. ipc[t] = "close" /\ SoFar(t) /\ steps[s] # "failed"
    BY <1>1, <1>3, <2>3 DEF I!AnyFailed, Told, OneLaunch
  <2>5. CASE s = <<Master, "lb">>
    BY <2>4, <2>5 DEF SoFar, SelfDone, PackageOver
  <2>6. CASE s \in I!Nodes \X {"host", "swap", "k3s"}
    <3>1. PICK n \in I!Nodes, p \in {"host", "swap", "k3s"} : s = <<n, p>>
      BY <2>6
    <3>2. CASE n = Master
      BY <2>4, <3>1, <3>2 DEF SoFar, SelfDone, PackageOver, AtWork
    <3>3. CASE n \in Workers /\ p = "host"
      BY <2>4, <3>1, <3>3 DEF SoFar, HostsDone
    <3>4. CASE n \in Workers /\ p # "host"
      BY <2>4, <3>1, <3>4 DEF SoFar, WorkersDone, PackageOver
    <3> QED
      BY <3>2, <3>3, <3>4 DEF I!Nodes
  <2> QED
    BY <2>5, <2>6 DEF I!Steps
<1> QED
  BY <1>1, <1>2, <1>3 DEF Told, I!history

-----------------------------------------------------------------------------
\* Every step keeps what is told.
LEMMA NextTold ==
    ASSUME Master \notin Workers, InOrder, Told, [I!Next]_I!vars
    PROVE  Told'
<1>1. ASSUME NEW t \in Launches, I!Launch(t) \/ I!Begin(t) \/ I!Close(t) PROVE Told'
  BY <1>1, LaunchTold, BeginTold, CloseTold
<1>2. ASSUME NEW t \in Launches,
             \/ I!Hostname(t) \/ I!Bootstrap(t) \/ I!Registered(t) \/ I!NotRegistered(t)
             \/ I!MasterSwap(t) \/ I!MasterK3s(t) \/ I!LoadBalance(t) \/ I!ListWorkers(t)
      PROVE  Told'
  BY <1>2, HostnameTold, BootstrapTold, WaitTold, MasterTold, ListWorkersTold
<1>3. ASSUME NEW t \in Launches, I!Install(t) \/ I!InstallFails(t) \/ I!NoAnswer(t) PROVE Told'
  BY <1>3, InstallTold, NoAnswerTold
<1>4. ASSUME NEW w \in Workers, I!LateInstall(w) \/ I!Heartbeat(w) \/ I!Silent(w) PROVE Told'
  BY <1>4, StepOfNone DEF I!LateInstall, I!Heartbeat, I!Silent
<1>5. CASE UNCHANGED I!vars
  BY <1>5, StepOfNone DEF I!vars
<1> QED
  BY <1>1, <1>2, <1>3, <1>4, <1>5 DEF I!Next

\* init.rs run_init, init_worker and online_workers, which leaves the master out
\* of the workers: besides the order, an installation that says it ended well
\* has done every step but those of workers that were offline at their turn,
\* if no other installation was started beside it.
THEOREM InstallationsTellTheTruth ==
    ASSUME Master \notin Workers
    PROVE  Spec => []InstallsInOrder
<1>1. I!Init => InOrder /\ Told
  BY InitInOrder, InitTold
<1>2. InOrder /\ Told /\ [I!Next]_I!vars => (InOrder /\ Told)'
  BY NextInOrder, NextTold
<1>3. InOrder /\ Told => I!InstallsInOrder
  BY DEF InOrder, Told, I!InstallsInOrder, I!EndsHonest
<1> QED
  BY <1>1, <1>2, <1>3, InstallSteps, PTL DEF Spec, InstallsInOrder
-----------------------------------------------------------------------------
\* What stands in a template's directory.
Trees == [stage : D!Stages, by : Calls, ca : Nat]

DeployShape ==
    /\ dir \in [Templates -> Trees \cup {None}]
    /\ rows \subseteq Templates
    /\ dpc \in [Calls -> D!Idle \cup D!Deploying \cup D!Checking] /\ what \in [Calls -> Templates]
    /\ nodes \in [Calls -> SUBSET D!Nodes] /\ results \in [Calls -> SUBSET D!Nodes]
    /\ trusts \in [D!Nodes -> Nat] /\ verified \in Nat /\ made \in Nat

\* Requests that meet at a template are remembered, and a check is of a Zot that
\* is registered.
OneDeployment ==
    /\ \A c, d \in Calls : dpc[c] \notin D!Idle /\ dpc[d] \notin D!Idle /\ what[c] = what[d]
          /\ c # d => what[c] \in overlapped
    /\ \A c \in Calls : dpc[c] \in D!Checking => what[c] = "zot"
    /\ \A c \in Calls : dpc[c] \in D!Checking \cup {"up"} => what[c] \in rows
    /\ verified # 0 => "zot" \in rows

\* What a deployment has made at each of its steps, when no other one came.
Made(c) ==
    /\ dpc[c] \in {"mkdir", "copy"} => what[c] = "np4"
    /\ dpc[c] = "copy" => D!There("np4")
    /\ what[c] \notin overlapped =>
          /\ dpc[c] \in D!Deploying \ {"up"} => what[c] \notin rows
          /\ dpc[c] = "init" => D!There(what[c]) /\ dir[what[c]].stage # "partial"
          /\ dpc[c] \in {"load", "dirs", "register"} => D!There(what[c]) /\ dir[what[c]].stage = "ready"
          /\ dpc[c] = "node" => \A n \in D!Nodes \ (nodes[c] \cup results[c]) : trusts[n] = dir["zot"].ca
Progress == \A c \in Calls : Made(c)

\* A Zot that is there and was not left half way is registered or at work.
Left ==
    "zot" \in Templates \ (overlapped \cup torn) /\ D!There("zot") =>
        "zot" \in rows \/ \E c \in Calls : what[c] = "zot" /\ dpc[c] \in D!Deploying

Certified ==
    "zot" \in Templates /\ D!There("zot") /\ dir["zot"].stage = "ready" => dir["zot"].ca # 0

DeployInv == DeployShape /\ OneDeployment /\ Progress /\ Left /\ Certified /\ D!RegisteredIsWhole
          /\ D!VerifiedIsTrusted

TwoTemplates ==
    /\ Templates \subseteq {"np4", "zot"} /\ Templates # {}
    /\ None \notin Trees
-----------------------------------------------------------------------------
\* Nothing is there and nobody works.
LEMMA InitDeploy == TwoTemplates /\ D!Init => DeployInv
BY DEF TwoTemplates, D!Init, DeployInv, DeployShape, OneDeployment, Progress, Made, Left, Certified,
       D!RegisteredIsWhole, D!VerifiedIsTrusted, D!There, Trees,
       D!Idle, D!Checking, D!Deploying, D!Nodes

\* A step of one request leaves what another one has made, unless they meet.
LEMMA OthersGoOn ==
    ASSUME DeployShape, OneDeployment, Progress, NEW c \in Calls, NEW d \in Calls, d # c,
           dpc[c] \notin D!Idle,
           dpc'[d] = dpc[d], what' = what, nodes'[d] = nodes[d], results'[d] = results[d],
           rows' \subseteq rows \cup {what[c]}, trusts' = trusts, overlapped' = overlapped,
           \A t \in Templates \ {what[c]} : dir'[t] = dir[t],
           "np4" \in Templates /\ D!There("np4") => D!There("np4")'
    PROVE  Made(d)'
<1>1. dpc[d] \notin D!Idle /\ what[d] \notin overlapped => what[d] # what[c]
  BY DEF OneDeployment
<1>2. dpc[d] \in D!Checking => what[d] = "zot"
  BY DEF OneDeployment
<1>3. what[d] \in Templates /\ Made(d)
  BY DEF DeployShape, Progress
<1>4. dpc[d] \in D!Idle => dpc[d] \notin D!Checking \cup D!Deploying
  BY DEF D!Idle, D!Checking, D!Deploying
<1>5. dpc[d] \in {"mkdir", "copy"} => what[d] = "np4" /\ (dpc[d] = "copy" => D!There("np4")')
  BY <1>3 DEF Made
<1>6. CASE what[d] \in overlapped \/ dpc[d] \in D!Idle
  BY <1>3, <1>4, <1>5, <1>6 DEF Made, D!Checking, D!Deploying, D!Idle
<1>7. CASE what[d] \notin overlapped /\ dpc[d] \notin D!Idle
  <2>1. what[d] # what[c] /\ dir'[what[d]] = dir[what[d]] /\ (what[d] \in rows' => what[d] \in rows)
    BY <1>1, <1>3, <1>7
  <2>2. dpc[d] = "node" => what[d] = "zot"
    BY <1>2 DEF D!Checking
  <2> QED
    BY <1>3, <1>5, <1>7, <2>1, <2>2 DEF Made, D!There
<1> QED
  BY <1>6, <1>7

\* deploy_np4 and deploy_harbor start where nothing is.
LEMMA AskInv ==
    ASSUME TwoTemplates, DeployInv, NEW c \in Calls, NEW t \in Templates, D!Ask(c, t)
    PROVE  DeployInv'
<1> USE DEF TwoTemplates, DeployInv, DeployShape, Trees, D!Stages, D!Idle, D!Checking, D!Deploying,
     D!places, D!work, D!network, D!history
<1> USE DEF D!Ask, D!There, D!Busy, D!Goto
<1>1. DeployShape'
  BY DEF OneDeployment, Progress, Made, D!Nodes
<1>2. OneDeployment'
  BY DEF OneDeployment
<1>3. Progress'
  <2>1. ASSUME NEW d \in Calls, d # c PROVE Made(d)'
    BY <2>1 DEF OneDeployment, Progress, Made, D!RegisteredIsWhole
  <2>2. Made(c)'
    BY DEF OneDeployment, Progress, Made, D!RegisteredIsWhole
  <2> QED
    BY <2>1, <2>2 DEF Progress
<1>4. Left' /\ Certified'
  BY DEF OneDeployment, Progress, Made, Left, Certified
<1>5. D!RegisteredIsWhole'
  BY DEF OneDeployment, Progress, Made, D!RegisteredIsWhole
<1>6. D!VerifiedIsTrusted'
  BY DEF OneDeployment, Progress, Made, Certified, D!RegisteredIsWhole, D!VerifiedIsTrusted
<1> QED
  BY <1>1, <1>2, <1>3, <1>4, <1>5, <1>6

\* check_zot_environment needs the row.
LEMMA AskCheckInv ==
    ASSUME TwoTemplates, DeployInv, NEW c \in Calls, D!AskCheck(c)
    PROVE  DeployInv'
<1> USE DEF TwoTemplates, DeployInv, DeployShape, Trees, D!Stages, D!Idle, D!Checking, D!Deploying,
     D!places, D!work, D!network, D!history
<1> USE DEF D!AskCheck, D!There, D!Busy, D!Goto
<1>1. DeployShape'
  BY DEF OneDeployment, Progress, Made, D!Nodes
<1>2. OneDeployment'
  BY DEF OneDeployment
<1>3. Progress'
  <2>1. ASSUME NEW d \in Calls, d # c PROVE Made(d)'
    BY <2>1 DEF OneDeployment, Progress, Made, D!RegisteredIsWhole
  <2>2. Made(c)'
    BY DEF OneDeployment, Progress, Made, D!RegisteredIsWhole
  <2> QED
    BY <2>1, <2>2 DEF Progress
<1>4. Left' /\ Certified'
  BY DEF OneDeployment, Progress, Made, Left, Certified
<1>5. D!RegisteredIsWhole'
  BY DEF OneDeployment, Progress, Made, D!RegisteredIsWhole
<1>6. D!VerifiedIsTrusted'
  BY DEF OneDeployment, Progress, Made, Certified, D!RegisteredIsWhole, D!VerifiedIsTrusted
<1> QED
  BY <1>1, <1>2, <1>3, <1>4, <1>5, <1>6

\* What goes when it fails was not registered.
LEMMA UnpackInv ==
    ASSUME TwoTemplates, DeployInv, NEW c \in Calls, D!Unpack(c)
    PROVE  DeployInv'
<1> USE DEF TwoTemplates, DeployInv, DeployShape, Trees, D!Stages, D!Idle, D!Checking, D!Deploying,
     D!places, D!work, D!network, D!history
<1> USE DEF D!Unpack, D!There, D!Goto, D!FailDeploy, D!Cleans, D!Trouble
<1>1. DeployShape'
  BY DEF OneDeployment, Progress, Made, D!Nodes
<1>2. OneDeployment'
  BY DEF OneDeployment
<1>3. Progress'
  <2>1. ASSUME NEW d \in Calls, d # c PROVE Made(d)'
    <3>1. dpc'[d] = dpc[d] /\ dpc[c] \notin D!Idle
      BY <2>1
    <3>2. nodes'[d] = nodes[d] /\ results'[d] = results[d]
      BY <2>1
    <3>3. \A t \in Templates \ {what[c]} : dir'[t] = dir[t]
      BY DEF OneDeployment
    <3>4. "np4" \in Templates /\ D!There("np4") => D!There("np4")'
      BY DEF OneDeployment
    <3>5. what' = what /\ rows' = rows /\ trusts' = trusts /\ overlapped' = overlapped
      OBVIOUS
    <3> QED
      BY <2>1, <3>1, <3>2, <3>3, <3>4, <3>5, OthersGoOn
  <2>2. Made(c)'
    BY DEF OneDeployment, Progress, Made, D!RegisteredIsWhole
  <2> QED
    BY <2>1, <2>2 DEF Progress
<1>4. Left' /\ Certified'
  BY DEF OneDeployment, Progress, Made, Left, Certified
<1>5. D!RegisteredIsWhole'
  BY DEF OneDeployment, Progress, Made, D!RegisteredIsWhole
<1>6. D!VerifiedIsTrusted'
  BY DEF OneDeployment, Progress, Made, Certified, D!RegisteredIsWhole, D!VerifiedIsTrusted
<1> QED
  BY <1>1, <1>2, <1>3, <1>4, <1>5, <1>6

\* copy_np4_template looks again.
LEMMA CopyCheckInv ==
    ASSUME TwoTemplates, DeployInv, NEW c \in Calls, D!CopyCheck(c)
    PROVE  DeployInv'
<1> USE DEF TwoTemplates, DeployInv, DeployShape, Trees, D!Stages, D!Idle, D!Checking, D!Deploying,
     D!places, D!work, D!network, D!history
<1> USE DEF D!CopyCheck, D!There, D!Goto
<1>1. DeployShape'
  BY DEF OneDeployment, Progress, Made, D!Nodes
<1>2. OneDeployment'
  BY DEF OneDeployment
<1>3. Progress'
  <2>1. ASSUME NEW d \in Calls, d # c PROVE Made(d)'
    BY <2>1 DEF OneDeployment, Progress, Made, D!RegisteredIsWhole
  <2>2. Made(c)'
    BY DEF OneDeployment, Progress, Made, D!RegisteredIsWhole
  <2> QED
    BY <2>1, <2>2 DEF Progress
<1>4. Left' /\ Certified'
  BY DEF OneDeployment, Progress, Made, Left, Certified
<1>5. D!RegisteredIsWhole'
  BY DEF OneDeployment, Progress, Made, D!RegisteredIsWhole
<1>6. D!VerifiedIsTrusted'
  BY DEF OneDeployment, Progress, Made, Certified, D!RegisteredIsWhole, D!VerifiedIsTrusted
<1> QED
  BY <1>1, <1>2, <1>3, <1>4, <1>5, <1>6

\* An empty NP4 comes.
LEMMA MakeDirInv ==
    ASSUME TwoTemplates, DeployInv, NEW c \in Calls, D!MakeDir(c)
    PROVE  DeployInv'
<1> USE DEF TwoTemplates, DeployInv, DeployShape, Trees, D!Stages, D!Idle, D!Checking, D!Deploying,
     D!places, D!work, D!network, D!history
<1> USE DEF D!MakeDir, D!There, D!Goto
<1>1. DeployShape'
  BY DEF OneDeployment, Progress, Made, D!Nodes
<1>2. OneDeployment'
  BY DEF OneDeployment
<1>3. Progress'
  <2>1. ASSUME NEW d \in Calls, d # c PROVE Made(d)'
    BY <2>1 DEF OneDeployment, Progress, Made, D!RegisteredIsWhole
  <2>2. Made(c)'
    BY DEF OneDeployment, Progress, Made, D!RegisteredIsWhole
  <2> QED
    BY <2>1, <2>2 DEF Progress
<1>4. Left' /\ Certified'
  BY DEF OneDeployment, Progress, Made, Left, Certified
<1>5. D!RegisteredIsWhole'
  BY DEF OneDeployment, Progress, Made, D!RegisteredIsWhole
<1>6. D!VerifiedIsTrusted'
  BY DEF OneDeployment, Progress, Made, Certified, D!RegisteredIsWhole, D!VerifiedIsTrusted
<1> QED
  BY <1>1, <1>2, <1>3, <1>4, <1>5, <1>6

\* Its files have come, or the rest of them never will.
LEMMA CopyFilesInv ==
    ASSUME TwoTemplates, DeployInv, NEW c \in Calls, D!CopyFiles(c)
    PROVE  DeployInv'
<1> USE DEF TwoTemplates, DeployInv, DeployShape, Trees, D!Stages, D!Idle, D!Checking, D!Deploying,
     D!places, D!work, D!network, D!history
<1> USE DEF D!CopyFiles, D!There, D!Goto, D!FailDeploy, D!Cleans, D!Trouble
<1>1. DeployShape'
  BY DEF OneDeployment, Progress, Made, D!Nodes
<1>2. OneDeployment'
  BY DEF OneDeployment
<1>3. Progress'
  <2>1. ASSUME NEW d \in Calls, d # c PROVE Made(d)'
    BY <2>1 DEF OneDeployment, Progress, Made, D!RegisteredIsWhole
  <2>2. Made(c)'
    BY DEF OneDeployment, Progress, Made, D!RegisteredIsWhole
  <2> QED
    BY <2>1, <2>2 DEF Progress
<1>4. Left' /\ Certified'
  BY DEF OneDeployment, Progress, Made, Left, Certified
<1>5. D!RegisteredIsWhole'
  BY DEF OneDeployment, Progress, Made, D!RegisteredIsWhole
<1>6. D!VerifiedIsTrusted'
  BY DEF OneDeployment, Progress, Made, Certified, D!RegisteredIsWhole, D!VerifiedIsTrusted
<1> QED
  BY <1>1, <1>2, <1>3, <1>4, <1>5, <1>6

\* A Zot gets its certificate with its accounts, before it can be registered.
LEMMA InitialiseInv ==
    ASSUME TwoTemplates, DeployInv, NEW c \in Calls, D!Initialise(c)
    PROVE  DeployInv'
<1> USE DEF TwoTemplates, DeployInv, DeployShape, Trees, D!Stages, D!Idle, D!Checking, D!Deploying,
     D!places, D!work, D!network, D!history
<1> USE DEF D!Initialise, D!InitialiseNp4, D!InitialiseZot, D!There, D!Goto, D!FailDeploy, D!Cleans, D!Trouble
<1>1. DeployShape'
  BY DEF OneDeployment, Progress, Made, D!Nodes
<1>2. OneDeployment'
  BY DEF OneDeployment
<1>3. Progress'
  <2>1. ASSUME NEW d \in Calls, d # c PROVE Made(d)'
    BY <2>1 DEF OneDeployment, Progress, Made, D!RegisteredIsWhole
  <2>2. Made(c)'
    BY DEF OneDeployment, Progress, Made, D!RegisteredIsWhole
  <2> QED
    BY <2>1, <2>2 DEF Progress
<1>4. Left' /\ Certified'
  BY DEF OneDeployment, Progress, Made, Left, Certified
<1>5. D!RegisteredIsWhole'
  BY DEF OneDeployment, Progress, Made, D!RegisteredIsWhole
<1>6. D!VerifiedIsTrusted'
  BY DEF OneDeployment, Progress, Made, Certified, D!RegisteredIsWhole, D!VerifiedIsTrusted
<1> QED
  BY <1>1, <1>2, <1>3, <1>4, <1>5, <1>6

\* The images of Zot are in what was unpacked.
LEMMA LoadInv ==
    ASSUME TwoTemplates, DeployInv, NEW c \in Calls, D!Load(c)
    PROVE  DeployInv'
<1> USE DEF TwoTemplates, DeployInv, DeployShape, Trees, D!Stages, D!Idle, D!Checking, D!Deploying,
     D!places, D!work, D!network, D!history
<1> USE DEF D!Load, D!There, D!Goto, D!FailDeploy, D!Cleans, D!Trouble
<1>1. DeployShape'
  BY DEF OneDeployment, Progress, Made, D!Nodes
<1>2. OneDeployment'
  BY DEF OneDeployment
<1>3. Progress'
  <2>1. ASSUME NEW d \in Calls, d # c PROVE Made(d)'
    <3>1. dpc'[d] = dpc[d] /\ dpc[c] \notin D!Idle
      BY <2>1
    <3>2. nodes'[d] = nodes[d] /\ results'[d] = results[d]
      BY <2>1
    <3>3. \A t \in Templates \ {what[c]} : dir'[t] = dir[t]
      BY DEF OneDeployment
    <3>4. "np4" \in Templates /\ D!There("np4") => D!There("np4")'
      BY DEF OneDeployment
    <3>5. what' = what /\ rows' = rows /\ trusts' = trusts /\ overlapped' = overlapped
      OBVIOUS
    <3> QED
      BY <2>1, <3>1, <3>2, <3>3, <3>4, <3>5, OthersGoOn
  <2>2. Made(c)'
    BY DEF OneDeployment, Progress, Made, D!RegisteredIsWhole
  <2> QED
    BY <2>1, <2>2 DEF Progress
<1>4. Left' /\ Certified'
  BY DEF OneDeployment, Progress, Made, Left, Certified
<1>5. D!RegisteredIsWhole'
  BY DEF OneDeployment, Progress, Made, D!RegisteredIsWhole
<1>6. D!VerifiedIsTrusted'
  BY DEF OneDeployment, Progress, Made, Certified, D!RegisteredIsWhole, D!VerifiedIsTrusted
<1> QED
  BY <1>1, <1>2, <1>3, <1>4, <1>5, <1>6

\* The data directories are elsewhere.
LEMMA DataInv ==
    ASSUME TwoTemplates, DeployInv, NEW c \in Calls, D!CreateDataDirs(c)
    PROVE  DeployInv'
<1> USE DEF TwoTemplates, DeployInv, DeployShape, Trees, D!Stages, D!Idle, D!Checking, D!Deploying,
     D!places, D!work, D!network, D!history
<1> USE DEF D!CreateDataDirs, D!There, D!Goto, D!FailDeploy, D!Cleans, D!Trouble
<1>1. DeployShape'
  BY DEF OneDeployment, Progress, Made, D!Nodes
<1>2. OneDeployment'
  BY DEF OneDeployment
<1>3. Progress'
  <2>1. ASSUME NEW d \in Calls, d # c PROVE Made(d)'
    <3>1. dpc'[d] = dpc[d] /\ dpc[c] \notin D!Idle
      BY <2>1
    <3>2. nodes'[d] = nodes[d] /\ results'[d] = results[d]
      BY <2>1
    <3>3. \A t \in Templates \ {what[c]} : dir'[t] = dir[t]
      BY DEF OneDeployment
    <3>4. "np4" \in Templates /\ D!There("np4") => D!There("np4")'
      BY DEF OneDeployment
    <3>5. what' = what /\ rows' = rows /\ trusts' = trusts /\ overlapped' = overlapped
      OBVIOUS
    <3> QED
      BY <2>1, <3>1, <3>2, <3>3, <3>4, <3>5, OthersGoOn
  <2>2. Made(c)'
    BY DEF OneDeployment, Progress, Made, D!RegisteredIsWhole
  <2> QED
    BY <2>1, <2>2 DEF Progress
<1>4. Left' /\ Certified'
  BY DEF OneDeployment, Progress, Made, Left, Certified
<1>5. D!RegisteredIsWhole'
  BY DEF OneDeployment, Progress, Made, D!RegisteredIsWhole
<1>6. D!VerifiedIsTrusted'
  BY DEF OneDeployment, Progress, Made, Certified, D!RegisteredIsWhole, D!VerifiedIsTrusted
<1> QED
  BY <1>1, <1>2, <1>3, <1>4, <1>5, <1>6

\* create_project, of a directory that is ready.
LEMMA RegisterInv ==
    ASSUME TwoTemplates, DeployInv, NEW c \in Calls, D!Register(c)
    PROVE  DeployInv'
<1> USE DEF TwoTemplates, DeployInv, DeployShape, Trees, D!Stages, D!Idle, D!Checking, D!Deploying,
     D!places, D!work, D!network, D!history
<1> USE DEF D!Register, D!There, D!Goto, D!Trouble
<1>1. DeployShape'
  <2>1. what[c] \in Templates
    OBVIOUS
  <2>2. rows' \subseteq rows \cup {what[c]}
    OBVIOUS
  <2>3. dpc' \in [Calls -> D!Idle \cup D!Deploying \cup D!Checking]
    OBVIOUS
  <2> QED
    BY <2>1, <2>2, <2>3 DEF D!Nodes
<1>2. OneDeployment'
  BY DEF OneDeployment
<1>3. Progress'
  <2>1. ASSUME NEW d \in Calls, d # c PROVE Made(d)'
    BY <2>1 DEF OneDeployment, Progress, Made, D!RegisteredIsWhole
  <2>2. Made(c)'
    BY DEF OneDeployment, Progress, Made, D!RegisteredIsWhole
  <2> QED
    BY <2>1, <2>2 DEF Progress
<1>4. Left' /\ Certified'
  BY DEF OneDeployment, Progress, Made, Left, Certified
<1>5. D!RegisteredIsWhole'
  BY DEF OneDeployment, Progress, Made, D!RegisteredIsWhole
<1>6. D!VerifiedIsTrusted'
  BY DEF OneDeployment, Progress, Made, Certified, D!RegisteredIsWhole, D!VerifiedIsTrusted
<1> QED
  BY <1>1, <1>2, <1>3, <1>4, <1>5, <1>6

\* It is registered whether it starts or not.
LEMMA StartInv ==
    ASSUME TwoTemplates, DeployInv, NEW c \in Calls, D!Start(c)
    PROVE  DeployInv'
<1> USE DEF TwoTemplates, DeployInv, DeployShape, Trees, D!Stages, D!Idle, D!Checking, D!Deploying,
     D!places, D!work, D!network, D!history
<1> USE DEF D!Start, D!There, D!Goto, D!Trouble
<1>1. DeployShape'
  BY DEF OneDeployment, Progress, Made, D!Nodes
<1>2. OneDeployment'
  BY DEF OneDeployment
<1>3. Progress'
  <2>1. ASSUME NEW d \in Calls, d # c PROVE Made(d)'
    BY <2>1 DEF OneDeployment, Progress, Made, D!RegisteredIsWhole
  <2>2. Made(c)'
    BY DEF OneDeployment, Progress, Made, D!RegisteredIsWhole
  <2> QED
    BY <2>1, <2>2 DEF Progress
<1>4. Left' /\ Certified'
  BY DEF OneDeployment, Progress, Made, Left, Certified
<1>5. D!RegisteredIsWhole'
  BY DEF OneDeployment, Progress, Made, D!RegisteredIsWhole
<1>6. D!VerifiedIsTrusted'
  BY DEF OneDeployment, Progress, Made, Certified, D!RegisteredIsWhole, D!VerifiedIsTrusted
<1> QED
  BY <1>1, <1>2, <1>3, <1>4, <1>5, <1>6

\* A check begins with all nodes to do, and the certificate stays.
LEMMA UpdateInv ==
    ASSUME TwoTemplates, DeployInv, NEW c \in Calls, D!Update(c)
    PROVE  DeployInv'
<1> USE DEF TwoTemplates, DeployInv, DeployShape, Trees, D!Stages, D!Idle, D!Checking, D!Deploying,
     D!places, D!work, D!network, D!history
<1> USE DEF D!Update, D!InitialiseZot, D!There, D!Goto, D!Trouble
<1>1. DeployShape'
  BY DEF OneDeployment, Progress, Made, D!Nodes
<1>2. OneDeployment'
  BY DEF OneDeployment
<1>3. Progress'
  <2>1. ASSUME NEW d \in Calls, d # c PROVE Made(d)'
    <3>1. dpc'[d] = dpc[d] /\ dpc[c] \notin D!Idle
      BY <2>1
    <3>2. nodes'[d] = nodes[d] /\ results'[d] = results[d]
      BY <2>1
    <3>3. \A t \in Templates \ {what[c]} : dir'[t] = dir[t]
      BY DEF OneDeployment
    <3>4. "np4" \in Templates /\ D!There("np4") => D!There("np4")'
      BY DEF OneDeployment
    <3>5. what' = what /\ rows' = rows /\ trusts' = trusts /\ overlapped' = overlapped
      OBVIOUS
    <3> QED
      BY <2>1, <3>1, <3>2, <3>3, <3>4, <3>5, OthersGoOn
  <2>2. Made(c)'
    BY DEF OneDeployment, Progress, Made, D!RegisteredIsWhole
  <2> QED
    BY <2>1, <2>2 DEF Progress
<1>4. Left' /\ Certified'
  BY DEF OneDeployment, Progress, Made, Left, Certified
<1>5. D!RegisteredIsWhole'
  BY DEF OneDeployment, Progress, Made, D!RegisteredIsWhole
<1>6. D!VerifiedIsTrusted'
  BY DEF OneDeployment, Progress, Made, Certified, D!RegisteredIsWhole, D!VerifiedIsTrusted
<1> QED
  BY <1>1, <1>2, <1>3, <1>4, <1>5, <1>6

\* A node gets the certificate, or is among the failed ones.
LEMMA ConfigureInv ==
    ASSUME TwoTemplates, DeployInv, NEW c \in Calls, NEW n \in D!Nodes, D!Configure(c, n)
    PROVE  DeployInv'
<1> USE DEF TwoTemplates, DeployInv, DeployShape, Trees, D!Stages, D!Idle, D!Checking, D!Deploying,
     D!places, D!work, D!network, D!history
<1> USE DEF D!Configure, D!There, D!Trouble
<1>1. DeployShape'
  BY DEF OneDeployment, Progress, Made, D!Nodes
<1>2. OneDeployment'
  BY DEF OneDeployment
<1>3. Progress'
  <2>1. ASSUME NEW d \in Calls, d # c PROVE Made(d)'
    BY <2>1 DEF OneDeployment, Progress, Made, D!RegisteredIsWhole
  <2>2. Made(c)'
    BY DEF OneDeployment, Progress, Made, D!RegisteredIsWhole
  <2> QED
    BY <2>1, <2>2 DEF Progress
<1>4. Left' /\ Certified'
  BY DEF OneDeployment, Progress, Made, Left, Certified
<1>5. D!RegisteredIsWhole'
  BY DEF OneDeployment, Progress, Made, D!RegisteredIsWhole
<1>6. D!VerifiedIsTrusted'
  BY DEF OneDeployment, Progress, Made, Certified, D!RegisteredIsWhole, D!VerifiedIsTrusted
<1> QED
  BY <1>1, <1>2, <1>3, <1>4, <1>5, <1>6

\* No node is left and none failed: all have it.
LEMMA AnswerInv ==
    ASSUME TwoTemplates, DeployInv, NEW c \in Calls, D!Answer(c)
    PROVE  DeployInv'
<1> USE DEF TwoTemplates, DeployInv, DeployShape, Trees, D!Stages, D!Idle, D!Checking, D!Deploying,
     D!places, D!work, D!network, D!history
<1> USE DEF D!Answer, D!AllConfigured, D!There, D!Goto, D!Trouble
<1>1. DeployShape'
  BY DEF OneDeployment, Progress, Made, D!Nodes
<1>2. OneDeployment'
  BY DEF OneDeployment
<1>3. Progress'
  <2>1. ASSUME NEW d \in Calls, d # c PROVE Made(d)'
    BY <2>1 DEF OneDeployment, Progress, Made, D!RegisteredIsWhole
  <2>2. Made(c)'
    BY DEF OneDeployment, Progress, Made, D!RegisteredIsWhole
  <2> QED
    BY <2>1, <2>2 DEF Progress
<1>4. Left' /\ Certified'
  BY DEF OneDeployment, Progress, Made, Left, Certified
<1>5. D!RegisteredIsWhole'
  BY DEF OneDeployment, Progress, Made, D!RegisteredIsWhole
<1>6. D!VerifiedIsTrusted'
  BY DEF OneDeployment, Progress, Made, Certified, D!RegisteredIsWhole, D!VerifiedIsTrusted
<1> QED
  BY <1>1, <1>2, <1>3, <1>4, <1>5, <1>6

\* What a request leaves that is dropped is remembered as torn.
LEMMA DropInv ==
    ASSUME TwoTemplates, DeployInv, NEW c \in Calls, D!Drop(c)
    PROVE  DeployInv'
<1> USE DEF TwoTemplates, DeployInv, DeployShape, Trees, D!Stages, D!Idle, D!Checking, D!Deploying,
     D!places, D!work, D!network, D!history
<1> USE DEF D!Drop, D!There, D!Goto, D!Trouble
<1>1. DeployShape'
  BY DEF OneDeployment, Progress, Made, D!Nodes
<1>2. OneDeployment'
  BY DEF OneDeployment
<1>3. Progress'
  <2>1. ASSUME NEW d \in Calls, d # c PROVE Made(d)'
    BY <2>1 DEF OneDeployment, Progress, Made, D!RegisteredIsWhole
  <2>2. Made(c)'
    BY DEF OneDeployment, Progress, Made, D!RegisteredIsWhole
  <2> QED
    BY <2>1, <2>2 DEF Progress
<1>4. Left' /\ Certified'
  BY DEF OneDeployment, Progress, Made, Left, Certified
<1>5. D!RegisteredIsWhole'
  BY DEF OneDeployment, Progress, Made, D!RegisteredIsWhole
<1>6. D!VerifiedIsTrusted'
  BY DEF OneDeployment, Progress, Made, Certified, D!RegisteredIsWhole, D!VerifiedIsTrusted
<1> QED
  BY <1>1, <1>2, <1>3, <1>4, <1>5, <1>6

\* Every step keeps it.
LEMMA NextDeploy == TwoTemplates /\ DeployInv /\ [D!Next]_D!vars => DeployInv'
<1> SUFFICES ASSUME TwoTemplates, DeployInv, [D!Next]_D!vars PROVE DeployInv'
  OBVIOUS
<1>1. CASE \E c \in Calls, t \in Templates : D!Ask(c, t)
  BY <1>1, AskInv
<1>2. CASE \E c \in Calls : D!AskCheck(c) \/ D!Update(c) \/ D!Answer(c) \/ D!Drop(c)
  BY <1>2, AskCheckInv, UpdateInv, AnswerInv, DropInv
<1>3. CASE \E c \in Calls : \/ D!Unpack(c) \/ D!CopyCheck(c) \/ D!MakeDir(c) \/ D!CopyFiles(c)
                                  \/ D!Initialise(c)
                           \/ D!Load(c) \/ D!CreateDataDirs(c) \/ D!Register(c) \/ D!Start(c)
  BY <1>3, UnpackInv, CopyCheckInv, MakeDirInv, CopyFilesInv, InitialiseInv, LoadInv, DataInv, RegisterInv,
       StartInv
<1>4. CASE \E c \in Calls, n \in D!Nodes : D!Configure(c, n)
  BY <1>4, ConfigureInv
<1>5. CASE UNCHANGED D!vars
  BY <1>5 DEF DeployInv, DeployShape, OneDeployment, Progress, Made, Left, Certified, D!RegisteredIsWhole,
       D!VerifiedIsTrusted, D!There, D!Nodes,
       D!vars, D!places, D!work, D!network, D!history
<1> QED
  BY <1>1, <1>2, <1>3, <1>4, <1>5 DEF D!Next

\* deploy_np4, deploy_harbor and check_zot_environment: what is registered is whole, a
\* deployment that fails leaves nothing, and a Zot that is verified is trusted by
\* every node.
THEOREM DeploymentsAreWhole ==
    ASSUME TwoTemplates
    PROVE  Spec => []DeploysWhole
<1>1. DeployInv => D!DeploysWhole
  BY DEF DeployInv, Left, D!DeploysWhole, D!FailedLeavesNothing, D!Busy, D!Deploying, D!Idle
<1> QED
  BY <1>1, InitDeploy, NextDeploy, DeploySteps, PTL DEF Spec, DeploysWhole
-----------------------------------------------------------------------------
(***************************************************************************)
(* The types of all of it.                                                 *)
(***************************************************************************)
\* What the installation counts and says.
Counted ==
    /\ running \in BOOLEAN /\ finished \in BOOLEAN /\ error \in BOOLEAN
    /\ tries \in [Launches -> 0..Attempts]

\* A request is not sent more often than it may.
LEMMA NextCounted ==
    ASSUME Attempts \in Nat, Counted, [I!Next]_I!vars
    PROVE  Counted'
<1> USE DEF Counted, I!Goto, I!Set, I!Trouble, I!status, I!hosts, I!history
<1>1. ASSUME NEW t \in Launches,
             \/ I!Launch(t) \/ I!Hostname(t) \/ I!Bootstrap(t) \/ I!Registered(t) \/ I!NotRegistered(t)
             \/ I!MasterSwap(t) \/ I!MasterK3s(t) \/ I!ListWorkers(t) \/ I!LoadBalance(t)
      PROVE  Counted'
  BY <1>1 DEF I!Launch, I!Hostname, I!Bootstrap, I!Registered, I!NotRegistered, I!MasterSwap, I!MasterK3s,
              I!ListWorkers, I!LoadBalance
<1>2. ASSUME NEW t \in Launches, I!Begin(t) \/ I!Close(t) PROVE Counted'
  BY <1>2 DEF I!Begin, I!Close
<1>3. ASSUME NEW t \in Launches, I!Install(t) \/ I!InstallFails(t) PROVE Counted'
  <2>1. UNCHANGED <<running, finished, error>> /\ tries' = [tries EXCEPT ![t] = 0]
    BY <1>3 DEF I!Install, I!InstallFails, I!GiveUp
  <2> QED
    BY <2>1
<1>4. ASSUME NEW t \in Launches, I!NoAnswer(t) PROVE Counted'
  <2>1. /\ UNCHANGED <<running, finished, error>>
        /\ \/ tries' = [tries EXCEPT ![t] = 0]
           \/ tries[t] + 1 < Attempts /\ tries' = [tries EXCEPT ![t] = tries[t] + 1]
    BY <1>4 DEF I!NoAnswer, I!GiveUp
  <2> QED
    BY <2>1
<1>5. ASSUME NEW w \in Workers, I!LateInstall(w) \/ I!Heartbeat(w) \/ I!Silent(w) PROVE Counted'
  BY <1>5 DEF I!LateInstall, I!Heartbeat, I!Silent
<1>6. CASE UNCHANGED I!vars
  BY <1>6 DEF I!vars
<1> QED
  BY <1>1, <1>2, <1>3, <1>4, <1>5, <1>6 DEF I!Next

\* cluster/init.rs InitStatus: what the page polls, and the hosts.
LEMMA InstallTypes ==
    ASSUME Attempts \in Nat, Master \notin Workers
    PROVE  Spec => []I!TypeOK
<1>0. I!Init => Counted
  <2>1. 0 \in 0..Attempts
    OBVIOUS
  <2>2. I!Init => tries \in [Launches -> 0..Attempts]
    BY <2>1 DEF I!Init
  <2>3. I!Init => running \in BOOLEAN /\ finished \in BOOLEAN /\ error \in BOOLEAN
    BY DEF I!Init
  <2> QED
    BY <2>2, <2>3 DEF Counted
<1>1. I!Init => InOrder /\ Told /\ Counted
  BY <1>0, InitInOrder, InitTold
<1>2. InOrder /\ Told /\ Counted /\ [I!Next]_I!vars => (InOrder /\ Told /\ Counted)'
  BY NextInOrder, NextTold, NextCounted
<1>3. InOrder /\ Told /\ Counted => I!TypeOK
  BY DEF InOrder, InstallShape, Told, StepsKnown, Counted, I!TypeOK
<1> QED
  BY <1>1, <1>2, <1>3, InstallSteps, PTL DEF Spec

\* The certificates there are, are made.
Certificates ==
    /\ \A t \in Templates : dir[t] # None => dir[t].ca <= made
    /\ \A n \in D!Nodes : trusts[n] <= made
    /\ verified <= made

\* A certificate is put in a tree and given out when it is made, or after it.
LEMMA NextCertificates ==
    ASSUME TwoTemplates, DeployInv, Certificates, [D!Next]_D!vars
    PROVE  Certificates'
<1> USE DEF D!Goto, D!Trouble, D!There, D!FailDeploy, D!Cleans, D!places, D!work, D!network, D!history
<1>0. /\ dir \in [Templates -> Trees \cup {None}] /\ None \notin Trees /\ what \in [Calls -> Templates]
      /\ trusts \in [D!Nodes -> Nat] /\ verified \in Nat /\ made \in Nat
  BY DEF DeployInv, DeployShape, TwoTemplates
<1>1. \A t \in Templates : dir[t] # None => dir[t].ca \in Nat /\ dir[t] \in Trees
  BY <1>0 DEF Trees
<1>2. ASSUME UNCHANGED <<trusts, verified, made>>,
             \A t \in Templates : dir'[t] # None => (dir[t] # None
                       /\ dir'[t].ca = dir[t].ca) \/ dir'[t].ca = 0
      PROVE  Certificates'
  BY <1>0, <1>2 DEF Certificates
<1>3. CASE UNCHANGED <<dir, trusts, verified, made>>
  BY <1>2, <1>3
<1>4. ASSUME NEW t \in Templates, NEW c \in Calls, NEW s \in D!Stages, UNCHANGED <<trusts, verified, made>>,
             dir' = [dir EXCEPT ![t] = [stage |-> s, by |-> c, ca |-> 0]]
      PROVE  Certificates'
  BY <1>0, <1>2, <1>4
<1>5. ASSUME NEW t \in Templates, UNCHANGED <<trusts, verified, made>>, dir' = [dir EXCEPT ![t] = None]
      PROVE  Certificates'
  BY <1>0, <1>2, <1>5
<1>6. ASSUME NEW t, NEW s, UNCHANGED <<trusts, verified, made>>, t \in Templates => dir[t] # None,
             dir' = [dir EXCEPT ![t] = [dir[t] EXCEPT !.stage = s]]
      PROVE  Certificates'
  BY <1>0, <1>1, <1>2, <1>6 DEF Trees
<1>7. ASSUME NEW c \in Calls, D!FailDeploy(c), UNCHANGED <<trusts, verified, made>> PROVE Certificates'
  BY <1>0, <1>3, <1>5, <1>7
<1>8. CASE \E c \in Calls, t \in Templates : D!Ask(c, t)
  BY <1>3, <1>8 DEF D!Ask
<1>9. ASSUME NEW c \in Calls, D!AskCheck(c) \/ D!CopyCheck(c) \/ D!Register(c)
          \/ D!Start(c) PROVE Certificates'
  BY <1>3, <1>9 DEF D!AskCheck, D!CopyCheck, D!Register, D!Start
<1>10. ASSUME NEW c \in Calls, D!Unpack(c) PROVE Certificates'
  <2>1. "zot" \in Templates /\ "unpacked" \in D!Stages /\ UNCHANGED <<trusts, verified, made>>
    BY <1>0, <1>10 DEF D!Unpack, D!Stages
  <2> QED
    BY <1>4, <1>7, <1>10, <2>1 DEF D!Unpack
<1>11. ASSUME NEW c \in Calls, D!MakeDir(c) PROVE Certificates'
  <2>1. "np4" \in Templates /\ "partial" \in D!Stages /\ UNCHANGED <<trusts, verified, made>>
    BY <1>0, <1>11 DEF D!MakeDir, D!Stages, DeployInv, Progress, Made
  <2> QED
    BY <1>3, <1>4, <1>11, <2>1 DEF D!MakeDir
<1>12. ASSUME NEW c \in Calls, D!CopyFiles(c) PROVE Certificates'
  <2>1. dir["np4"] # None /\ "np4" \in Templates /\ UNCHANGED <<trusts, verified, made>>
    BY <1>0, <1>12 DEF D!CopyFiles, DeployInv, Progress, Made
  <2>2. CASE \E s : dir' = [dir EXCEPT !["np4"] = [dir["np4"] EXCEPT !.stage = s]]
    BY <1>6, <2>1, <2>2
  <2>3. CASE D!FailDeploy(c)
    BY <1>7, <2>1, <2>3
  <2> QED
    BY <1>12, <2>2, <2>3 DEF D!CopyFiles
<1>13. ASSUME D!InitialiseZot, D!There("zot"), "zot" \in Templates, UNCHANGED <<trusts,
          verified>> PROVE Certificates'
  <2>1. dir["zot"].ca \in Nat /\ dir["zot"].ca <= made /\ made <= made' /\ made' \in Nat
    BY <1>0, <1>1, <1>13 DEF Certificates, D!InitialiseZot
  <2>2. /\ \A t \in Templates \ {"zot"} : dir'[t] = dir[t]
        /\ dir'["zot"].ca = IF dir["zot"].ca = 0 THEN made' ELSE dir["zot"].ca
    BY <1>0, <1>13 DEF D!InitialiseZot
  <2>3. \A t \in Templates : dir'[t] # None => dir'[t].ca <= made'
    BY <1>1, <2>1, <2>2, <1>0 DEF Certificates
  <2> QED
    BY <1>0, <1>13, <2>1, <2>3 DEF Certificates
<1>14. ASSUME NEW c \in Calls, D!Initialise(c) PROVE Certificates'
  <2>1. CASE D!There(what[c]) /\ what[c] = "np4" /\ D!InitialiseNp4
    <3>1. \E s : dir' = [dir EXCEPT !["np4"] = [dir["np4"] EXCEPT !.stage = s]]
      BY <2>1 DEF D!InitialiseNp4
    <3> QED
      BY <1>6, <1>14, <2>1, <3>1 DEF D!Initialise, D!InitialiseNp4
  <2>2. CASE D!There(what[c]) /\ what[c] # "np4" /\ D!InitialiseZot
    <3>1. what[c] = "zot"
      BY <1>0, <2>2 DEF TwoTemplates
    <3> QED
      BY <1>0, <1>13, <1>14, <2>2, <3>1 DEF D!Initialise
  <2>3. CASE D!FailDeploy(c) /\ UNCHANGED made
    BY <1>7, <1>14, <2>3 DEF D!Initialise
  <2> QED
    BY <1>14, <2>1, <2>2, <2>3 DEF D!Initialise
<1>15. ASSUME NEW c \in Calls, D!Load(c) \/ D!CreateDataDirs(c) PROVE Certificates'
  <2>1. UNCHANGED <<trusts, verified, made>> /\ (dir' = dir \/ D!FailDeploy(c))
    BY <1>15 DEF D!Load, D!CreateDataDirs
  <2> QED
    BY <1>3, <1>7, <2>1
<1>16. ASSUME NEW c \in Calls, D!Update(c) PROVE Certificates'
  <2>1. what[c] = "zot" /\ "zot" \in Templates /\ UNCHANGED <<trusts, verified>>
    BY <1>0, <1>16 DEF D!Update, DeployInv, OneDeployment, D!Checking
  <2>2. CASE D!There("zot") /\ D!InitialiseZot
    BY <1>13, <2>1, <2>2
  <2>3. CASE UNCHANGED <<dir, made>>
    BY <1>3, <2>1, <2>3
  <2> QED
    BY <1>16, <2>2, <2>3 DEF D!Update
<1>17. ASSUME NEW c \in Calls, D!Answer(c) \/ (\E n \in D!Nodes : D!Configure(c, n)) PROVE Certificates'
  <2>1. "zot" \in Templates /\ UNCHANGED <<dir, made>>
    BY <1>0, <1>17 DEF D!Answer, D!Configure, DeployInv, OneDeployment, D!Checking
  <2>2. CASE D!Answer(c)
    BY <1>0, <2>1, <2>2 DEF D!Answer, Certificates
  <2>3. ASSUME NEW n \in D!Nodes, D!Configure(c, n) PROVE Certificates'
    <3>1. dir["zot"].ca <= made /\ (trusts' = trusts \/ trusts' = [trusts EXCEPT ![n] = dir["zot"].ca])
      BY <2>1, <2>3 DEF D!Configure, Certificates
    <3> QED
      BY <1>0, <2>1, <2>3, <3>1 DEF D!Configure, Certificates
  <2> QED
    BY <1>17, <2>2, <2>3
<1>18. ASSUME NEW c \in Calls, D!Drop(c) PROVE Certificates'
  <2>1. UNCHANGED <<trusts, verified, made>>
    BY <1>18 DEF D!Drop
  <2>2. CASE UNCHANGED dir
    BY <1>3, <2>1, <2>2
  <2>3. CASE what[c] = "zot" /\ dir' = [dir EXCEPT !["zot"] = [stage |-> "unpacked", by |-> c, ca |-> 0]]
    <3>1. "zot" \in Templates /\ "unpacked" \in D!Stages
      BY <1>0, <2>3 DEF D!Stages
    <3> QED
      BY <1>4, <2>1, <2>3, <3>1
  <2>4. CASE dpc[c] = "copy" /\ \E s : dir' = [dir EXCEPT !["np4"] = [dir["np4"] EXCEPT !.stage = s]]
    <3>1. dir["np4"] # None
      BY <2>4 DEF DeployInv, Progress, Made
    <3> QED
      BY <1>6, <2>1, <2>4, <3>1
  <2>5. CASE dpc[c] = "copy" /\ dir' = [dir EXCEPT !["np4"].stage = IF @ = "partial" THEN "unpacked" ELSE @]
    <3>1. dir' = [dir EXCEPT !["np4"] = [dir["np4"] EXCEPT !.stage =
                                            IF dir["np4"].stage = "partial" THEN "unpacked" ELSE dir["np4"].stage]]
      BY <2>5
    <3> QED
      BY <2>4, <2>5, <3>1
  <2> QED
    BY <1>18, <2>2, <2>3, <2>5 DEF D!Drop
<1>19. CASE UNCHANGED D!vars
  BY <1>3, <1>19 DEF D!vars
<1> QED
  BY <1>8, <1>9, <1>10, <1>11, <1>12, <1>14, <1>15, <1>16, <1>17, <1>18, <1>19 DEF D!Next

\* What is started is a template's.
LEMMA NextStarted ==
    ASSUME DeployInv, drunning \subseteq Templates, [D!Next]_D!vars
    PROVE  drunning' \subseteq Templates
<1>0. what \in [Calls -> Templates]
  BY DEF DeployInv, DeployShape
<1>1. ASSUME NEW c \in Calls, D!Start(c) PROVE drunning' \subseteq Templates
  BY <1>0, <1>1 DEF D!Start
<1>2. ASSUME NEW c \in Calls, D!Update(c) PROVE drunning' \subseteq Templates
  <2>1. what[c] = "zot"
    BY <1>2 DEF D!Update, DeployInv, OneDeployment, D!Checking
  <2> QED
    BY <1>0, <1>2, <2>1 DEF D!Update
<1>3. CASE UNCHANGED drunning
  BY <1>3
<1> QED
  BY <1>1, <1>2, <1>3
  DEF D!Next, D!vars, D!places, D!Ask, D!AskCheck, D!Unpack, D!CopyCheck, D!MakeDir, D!CopyFiles,
            D!Initialise,
      D!Load, D!CreateDataDirs, D!Register, D!Answer, D!Drop, D!Configure

\* api.rs: what a deployment and a check keep.
LEMMA DeployTypes ==
    ASSUME TwoTemplates
    PROVE  Spec => []D!TypeOK
<1> DEFINE Inv == DeployInv /\ Certificates /\ drunning \subseteq Templates
<1>1. D!Init => Inv
  BY InitDeploy DEF D!Init, Certificates
<1>2. Inv /\ [D!Next]_D!vars => Inv'
  BY NextDeploy, NextCertificates, NextStarted
<1>3. Inv => D!TypeOK
  <2> SUFFICES ASSUME Inv PROVE D!TypeOK
    OBVIOUS
  <2>1. /\ dir \in [Templates -> Trees \cup {None}] /\ trusts \in [D!Nodes -> Nat] /\ verified \in Nat
              /\ made \in Nat
        /\ rows \subseteq Templates
        /\ dpc \in [Calls -> D!Idle \cup D!Deploying \cup D!Checking] /\ what \in [Calls -> Templates]
        /\ nodes \in [Calls -> SUBSET D!Nodes] /\ results \in [Calls -> SUBSET D!Nodes]
    BY DEF DeployInv, DeployShape
  <2>2. \A t \in Templates : dir[t] # None =>
          dir[t].stage \in D!Stages /\ dir[t].by \in Calls /\ dir[t].ca \in 0..made
    BY <2>1 DEF Trees, Certificates
  <2>3. trusts \in [D!Nodes -> 0..made] /\ verified \in 0..made
    BY <2>1 DEF Certificates
  <2> QED
    BY <2>1, <2>2, <2>3 DEF D!TypeOK
<1> QED
  BY <1>1, <1>2, <1>3, DeploySteps, PTL DEF Spec
-----------------------------------------------------------------------------
\* The JARs, whatever may be asked for, and as often as either look at them
\* allows.
W == INSTANCE JarUpgrade WITH
       Nodes <- JarNodes, Ops <- Storing \cup Upgrading, MaxRequests <- MaxStores + MaxUpgrades,
       requests <- jrequests, troubles <- jtroubles

\* A set of naturals that is not empty has a least element.
LEMMA Least ==
    ASSUME NEW T, T \subseteq Nat, T # {}
    PROVE  \E x \in T : \A y \in T : x <= y
<1> DEFINE Less == {ss \in Nat \X Nat : ss[1] < ss[2]}
<1>1. IsWellFoundedOn(Less, Nat)
  BY NatLessThanWellFounded DEF OpToRel
<1>2. \A x, y \in Nat : y < x => <<y, x>> \in Less
  OBVIOUS
<1>3. PICK x \in T : \A y \in T : <<y, x>> \notin Less
  <2> HIDE DEF Less
  <2> QED
    BY <1>1, WFMin
<1>4. \A y \in T : y \in Nat /\ x \in Nat /\ ~(y < x)
  BY <1>2, <1>3
<1> QED
  BY <1>4

\* A script, after one container more.
Longer(s, silent, i) == IF Order[i].node \in silent THEN s ELSE Append(s, Order[i])

\* What is written of the script up to each container.
Written(g, silent, k) ==
    /\ g \in [0..k -> Seq(W!Targets)]
    /\ g[0] = <<>>
    /\ \A i \in 1..k : g[i] = Longer(g[i - 1], silent, i)

\* It visits containers as long as it does.
LEMMA LongerVisits ==
    ASSUME Order \in Seq(W!Targets), NEW i \in 1..Len(Order), NEW s \in Seq(W!Targets), NEW silent
    PROVE  Longer(s, silent, i) \in Seq(W!Targets)
BY DEF Longer

\* There is a script for every container, so the recursion defines one,
LEMMA ScriptsThereAre ==
    ASSUME Order \in Seq(W!Targets), NEW silent
    PROVE  \E g : Written(g, silent, Len(Order))
<1> DEFINE T == {k \in 0..Len(Order) : ~\E g : Written(g, silent, k)}
<1>0. Len(Order) \in Nat
  OBVIOUS
<1>1. SUFFICES ASSUME T # {} PROVE FALSE
  BY <1>0
<1>2. PICK x \in T : \A y \in T : x <= y
  <2>1. T \subseteq Nat
    BY <1>0
  <2> HIDE DEF T
  <2> QED
    BY <1>1, <2>1, Least
<1>3. CASE x = 0
  <2>1. Written([i \in 0..0 |-> <<>>], silent, 0)
    BY DEF Written
  <2> QED
    BY <1>3, <2>1
<1>4. CASE x # 0
  <2>1. x \in 1..Len(Order) /\ x - 1 \in 0..Len(Order) /\ x - 1 \notin T
    BY <1>0, <1>2, <1>4
  <2>2. PICK g : Written(g, silent, x - 1)
    BY <2>1
  <2> DEFINE h == [i \in 0..x |-> IF i = x THEN Longer(g[x - 1], silent, x) ELSE g[i]]
  <2>3. g[x - 1] \in Seq(W!Targets) /\ \A i \in 0..(x - 1) : g[i] \in Seq(W!Targets)
    BY <2>1, <2>2 DEF Written
  <2>4. Longer(g[x - 1], silent, x) \in Seq(W!Targets)
    BY <2>1, <2>3, LongerVisits
  <2>5. h \in [0..x -> Seq(W!Targets)]
    BY <2>1, <2>3, <2>4
  <2>6. h[0] = <<>>
    BY <2>1, <2>2 DEF Written
  <2>7. ASSUME NEW i \in 1..x PROVE h[i] = Longer(h[i - 1], silent, i)
    <3>1. CASE i = x
      BY <2>1, <3>1
    <3>2. CASE i # x
      <4>1. i \in 1..(x - 1) /\ i - 1 \in 0..(x - 1) /\ i - 1 # x /\ i \in 0..x /\ i - 1 \in 0..x
        BY <2>1, <3>2
      <4>2. g[i] = Longer(g[i - 1], silent, i)
        BY <2>2, <4>1 DEF Written
      <4> QED
        BY <3>2, <4>1, <4>2
    <3> QED
      BY <3>1, <3>2
  <2>8. Written(h, silent, x)
    <3> HIDE DEF h
    <3> QED
      BY <2>5, <2>6, <2>7 DEF Written
  <2> QED
    BY <1>2, <2>8
<1> QED
  BY <1>3, <1>4

\* and it visits containers only.
LEMMA VisitsAreTargets ==
    ASSUME Order \in Seq(W!Targets), NEW silent
    PROVE  W!Visits(silent) \in Seq(W!Targets)
<1> DEFINE n == Len(Order)
           Eq(f) == f = [i \in 0..n |-> IF i = 0 THEN <<>>
                                        ELSE IF Order[i].node \in silent THEN f[i - 1]
                                        ELSE Append(f[i - 1], Order[i])]
           first == CHOOSE f : Eq(f)
<1>0. n \in Nat
  OBVIOUS
<1>1. PICK g : Written(g, silent, n)
  BY ScriptsThereAre
<1>2. Eq(g)
  <2> HIDE DEF n
  <2>1. g = [i \in 0..n |-> g[i]]
    BY <1>1 DEF Written
  <2>2. \A i \in 0..n : i # 0 => i \in 1..n
    BY <1>0
  <2>3. \A i \in 0..n : g[i] = IF i = 0 THEN <<>>
                               ELSE IF Order[i].node \in silent THEN g[i - 1] ELSE Append(g[i - 1], Order[i])
    BY <1>1, <2>2 DEF Written, Longer
  <2> QED
    BY <2>1, <2>3
<1>3. Eq(first)
  <2> HIDE DEF Eq
  <2> QED
    BY <1>2
<1>4. W!Visits(silent) = first[n]
  BY DEF W!Visits
<1> HIDE DEF first
<1>5. /\ first[0] = <<>>
      /\ \A i \in 1..n : first[i] = Longer(first[i - 1], silent, i)
  <2> HIDE DEF n
  <2>1. 0 \in 0..n /\ \A i \in 1..n : i \in 0..n /\ i # 0
    BY <1>0
  <2> QED
    BY <1>3, <2>1 DEF Longer
<1> DEFINE T == {k \in 0..n : first[k] \notin Seq(W!Targets)}
<1>6. T = {}
  <2> SUFFICES ASSUME T # {} PROVE FALSE
    OBVIOUS
  <2>0. T \subseteq Nat
    BY <1>0
  <2>1. PICK x \in T : \A y \in T : x <= y
    <3> HIDE DEF T
    <3> QED
      BY <2>0, Least
  <2>2. x # 0
    <3>1. first[0] \in Seq(W!Targets)
      BY <1>5
    <3> QED
      BY <2>1, <3>1
  <2>3. x \in 1..n /\ x - 1 \in 0..n /\ x - 1 \notin T
    BY <1>0, <2>1, <2>2
  <2>4. first[x - 1] \in Seq(W!Targets)
    BY <2>3
  <2>5. first[x] \in Seq(W!Targets)
    BY <1>5, <2>3, <2>4, LongerVisits
  <2> QED
    BY <2>1, <2>5
<1> QED
  BY <1>0, <1>4, <1>6
-----------------------------------------------------------------------------
\* The records of the requests, by the step they are at, when n were made.
Receiving(n) ==
    [op : {"upload", "store"}, pc : {"receive"}, left : SUBSET Jars, got : SUBSET Jars, version : 0..n]
Clearing(n) == [op : {"upload"}, pc : {"clear"}, left : SUBSET Jars, got : SUBSET Jars, version : 0..n]
Held(n) == {<<m, j, v>> : m \in JarNodes, j \in Jars, v \in 0..n}
Distributing(n) == [op : {"store"}, pc : {"sync"}, left : SUBSET (JarNodes \X Jars),
          held : Held(n) \cup {None}]
Writing == [op : {"check"}, pc : {"write"}, new : Seq(W!Targets)]

Record(r, n) ==
    /\ {"op", "pc"} \subseteq DOMAIN r
    /\ r.pc = "receive" => r \in Receiving(n)
    /\ r.op = "upload" /\ r.pc = "clear" => r \in Clearing(n)
    /\ r.op = "store" /\ r.pc = "sync" => r \in Distributing(n)
    /\ r.op = "check" /\ r.pc = "write" => r \in Writing

\* What the nodes, the containers and the directories have.
Stored ==
    /\ jrequests \in Nat /\ jtroubles \in Nat
    /\ incoming \in [Jars -> 0..jrequests]
    /\ copy \in [JarNodes -> [Jars -> 0..jrequests]]
    /\ report \in {"none", "bad", "ok"} /\ flag \in BOOLEAN
    /\ script # None => script \in Seq(W!Targets)
    /\ mount \in [JarNodes -> {"nfs", "cifs", "none"}]
Mounted ==
    /\ jar \in [W!Targets -> 0..jrequests]
    /\ up \in [W!Targets -> 0..jrequests \cup {None}]
Asked == DOMAIN call = Calls /\ \A c \in Calls : Record(call[c], jrequests)

JarsInv == Stored /\ Mounted /\ Asked

JarSetting ==
    /\ Order \in Seq([node : JarNodes, jar : Jars])
    /\ MaxStores \in Nat /\ MaxUpgrades \in Nat /\ MaxTroubles \in Nat
-----------------------------------------------------------------------------
\* The containers are of the nodes, and mount the JARs.
LEMMA ContainersThereAre ==
    ASSUME JarSetting
    PROVE  Order \in Seq(W!Targets) /\ \A t \in W!Targets : t.jar \in Jars /\ t.node \in JarNodes
<1> DEFINE Containers == [node : JarNodes, jar : Jars]
<1>1. Order \in [1..Len(Order) -> Containers] /\ Len(Order) \in Nat
  <2>1. Order \in Seq(Containers)
    BY DEF JarSetting
  <2> HIDE DEF Containers
  <2> QED
    BY <2>1
<1>2. W!Targets = {Order[i] : i \in 1..Len(Order)}
  BY <1>1 DEF W!Targets, W!ToSet
<1>3. \A t \in W!Targets : t.jar \in Jars /\ t.node \in JarNodes
  BY <1>1, <1>2
<1>4. \A i \in 1..Len(Order) : Order[i] \in W!Targets
  BY <1>2
<1> HIDE DEF W!Targets
<1>5. Order \in Seq(W!Targets)
  <2>1. Order = [i \in 1..Len(Order) |-> Order[i]]
    BY <1>1
  <2> QED
    BY <1>1, <1>4, <2>1
<1> QED
  BY <1>3, <1>5

\* A record of no step that has more than its step.
LEMMA Plain ==
    ASSUME NEW r, NEW n, {"op", "pc"} \subseteq DOMAIN r, r.pc \notin {"receive", "clear", "sync", "write"}
    PROVE  Record(r, n)
BY DEF Record

\* More requests are made: what there is stays what it is.
LEMMA RecordGrows ==
    ASSUME NEW n \in Nat, NEW r, Record(r, n)
    PROVE  Record(r, n + 1)
<1>1. 0..n \subseteq 0..(n + 1)
  OBVIOUS
<1>2. Receiving(n) \subseteq Receiving(n + 1)
  BY <1>1 DEF Receiving
<1>3. Clearing(n) \subseteq Clearing(n + 1)
  BY <1>1 DEF Clearing
<1>4. Held(n) \subseteq Held(n + 1)
  BY <1>1 DEF Held
<1>5. Distributing(n) \subseteq Distributing(n + 1)
  BY <1>4 DEF Distributing
<1> QED
  BY <1>2, <1>3, <1>5 DEF Record

\* A request moves on to a record that is one of a step.
LEMMA AskedStays ==
    ASSUME Asked, NEW c \in Calls, NEW r, call' = [call EXCEPT ![c] = r], Record(r, jrequests'),
           jrequests \in Nat, jrequests' \in {jrequests, jrequests + 1}
    PROVE  Asked'
<1>1. DOMAIN call' = Calls /\ call'[c] = r /\ \A d \in Calls \ {c} : call'[d] = call[d]
  BY DEF Asked
<1>2. ASSUME NEW d \in Calls \ {c} PROVE Record(call[d], jrequests')
  BY RecordGrows DEF Asked
<1>3. ASSUME NEW d \in Calls PROVE Record(call'[d], jrequests')
  BY <1>1, <1>2
<1> QED
  BY <1>1, <1>3 DEF Asked

\* A request is over.
LEMMA AskedEnds ==
    ASSUME Asked, NEW c \in Calls, jrequests' = jrequests, jrequests \in Nat
    PROVE  /\ \A how \in {"done", "refused"} : W!Ends(c, how) => Asked'
           /\ \A cause : W!Fails(c, cause) => Asked'
<1>1. ASSUME NEW how \in {"done", "refused"}, W!Ends(c, how) PROVE Asked'
  <2> DEFINE r == [op |-> call[c].op, pc |-> how]
  <2>1. Record(r, jrequests')
    BY Plain
  <2>2. call' = [call EXCEPT ![c] = r]
    BY <1>1 DEF W!Ends, W!Goto
  <2> HIDE DEF r
  <2> QED
    BY <2>1, <2>2, AskedStays
<1>2. ASSUME NEW cause, W!Fails(c, cause) PROVE Asked'
  <2> DEFINE r == [op |-> call[c].op, pc |-> "failed", cause |-> cause]
  <2>1. Record(r, jrequests')
    BY Plain
  <2>2. call' = [call EXCEPT ![c] = r]
    BY <1>2 DEF W!Fails, W!Goto
  <2> HIDE DEF r
  <2> QED
    BY <2>1, <2>2, AskedStays
<1> QED
  BY <1>1, <1>2

\* A request comes: nothing else moves, but for the flag.
LEMMA MoreRequests ==
    ASSUME Stored, Mounted, jrequests' = jrequests + 1, flag' \in BOOLEAN, jtroubles' = jtroubles,
           UNCHANGED <<incoming, copy, report, script, jar, up, mount>>
    PROVE  Stored' /\ Mounted'
<1>1. jrequests \in Nat /\ jrequests + 1 \in Nat /\ 0..jrequests \subseteq 0..(jrequests + 1)
  BY DEF Stored
<1>2. incoming' \in [Jars -> 0..jrequests'] /\ copy' \in [JarNodes -> [Jars -> 0..jrequests']]
  BY <1>1 DEF Stored
<1>3. jar' \in [W!Targets -> 0..jrequests'] /\ up' \in [W!Targets -> 0..jrequests' \cup {None}]
  BY <1>1 DEF Mounted
<1> QED
  BY <1>1, <1>2, <1>3 DEF Stored, Mounted

-----------------------------------------------------------------------------
\* The requests begin.
LEMMA Begins ==
    ASSUME JarSetting, JarsInv, NEW c \in Calls,
           \/ W!StartUpload(c) \/ W!StartStore(c) \/ W!StartSync(c)
           \/ W!StartCheck(c) \/ W!StartRun(c) \/ W!StartRepair(c)
    PROVE  JarsInv'
<1> DEFINE n == jrequests + 1
<1>0. jrequests \in Nat /\ n \in Nat /\ flag \in BOOLEAN
  BY DEF JarsInv, Stored
<1>1. /\ jrequests' = n /\ jtroubles' = jtroubles /\ flag' \in BOOLEAN
      /\ UNCHANGED <<incoming, copy, report, script, jar, up, mount>>
  BY <1>0 DEF W!StartUpload, W!StartStore, W!StartSync, W!StartCheck, W!StartRun, W!StartRepair,
              W!Asks, W!disk, W!checked, W!containers
<1>2. Stored' /\ Mounted'
  BY <1>1, MoreRequests DEF JarsInv
<1>3. ASSUME NEW r, Record(r, n), call' = [call EXCEPT ![c] = r] PROVE JarsInv'
  BY <1>0, <1>1, <1>2, <1>3, AskedStays DEF JarsInv
<1> HIDE DEF n
<1>4. CASE W!StartUpload(c)
  <2>1. PICK F \in SUBSET Jars \ {{}} :
          call' = [call EXCEPT ![c] = [op |-> "upload", pc |-> "receive", left |-> F, got |-> F,
                    version |-> n]]
    BY <1>1, <1>4 DEF W!StartUpload, W!Goto
  <2> DEFINE r == [op |-> "upload", pc |-> "receive", left |-> F, got |-> F, version |-> n]
  <2>2. Record(r, n) /\ call' = [call EXCEPT ![c] = r]
    BY <1>0, <2>1 DEF Record, Receiving
  <2> HIDE DEF r
  <2> QED
    BY <1>3, <2>2
<1>5. CASE W!StartStore(c)
  <2>1. PICK F \in SUBSET Jars \ {{}} :
          call' = [call EXCEPT ![c] = [op |-> "store", pc |-> "receive", left |-> F, got |-> F,
                    version |-> n]]
    BY <1>1, <1>5 DEF W!StartStore, W!Goto
  <2> DEFINE r == [op |-> "store", pc |-> "receive", left |-> F, got |-> F, version |-> n]
  <2>2. Record(r, n) /\ call' = [call EXCEPT ![c] = r]
    BY <1>0, <2>1 DEF Record, Receiving
  <2> HIDE DEF r
  <2> QED
    BY <1>3, <2>2
<1>6. CASE W!StartSync(c)
  <2> DEFINE F == {j \in Jars : incoming[j] # 0}
  <2>1. call' = [call EXCEPT ![c] = W!Syncing(F)]
    BY <1>6 DEF W!StartSync, W!Goto
  <2> DEFINE r == W!Syncing(F)
  <2>2. Record(r, n)
    BY <1>0 DEF Record, Distributing, W!Syncing, W!Pairs
  <2>3. call' = [call EXCEPT ![c] = r]
    BY <2>1
  <2> HIDE DEF r
  <2> QED
    BY <1>3, <2>2, <2>3
<1>7. CASE W!StartCheck(c) \/ W!StartRun(c) \/ W!StartRepair(c)
  <2>1. PICK op, pc1 : /\ call' = [call EXCEPT ![c] = [op |-> op, pc |-> pc1]]
                       /\ pc1 \in {"inspect", "ready", "refused", "preflight"}
    BY <1>7 DEF W!StartCheck, W!StartRun, W!StartRepair, W!Goto
  <2> DEFINE r == [op |-> op, pc |-> pc1]
  <2>2. Record(r, n) /\ call' = [call EXCEPT ![c] = r]
    BY <2>1, Plain
  <2> HIDE DEF r
  <2> QED
    BY <1>3, <2>2
<1> QED
  BY <1>4, <1>5, <1>6, <1>7

\* The uploads go on.
LEMMA Uploads ==
    ASSUME JarsInv, NEW c \in Calls, W!Receive(c) \/ W!Clear(c) \/ W!UploadBreaks(c)
    PROVE  JarsInv'
<1> DEFINE n == jrequests
<1>0. n \in Nat /\ incoming \in [Jars -> 0..n] /\ jtroubles \in Nat /\ 0 \in 0..n
  BY DEF JarsInv, Stored
<1>1. /\ jrequests' = jrequests /\ jtroubles' \in {jtroubles, jtroubles + 1}
      /\ UNCHANGED <<copy, report, script, flag, jar, up, mount>>
  BY DEF W!Receive, W!Clear, W!UploadBreaks, W!Trouble, W!disk, W!checked, W!containers
<1>2. ASSUME incoming' \in [Jars -> 0..n] PROVE Stored' /\ Mounted'
  BY <1>0, <1>1, <1>2 DEF JarsInv, Stored, Mounted
<1>3. ASSUME NEW r, Record(r, n), call' = [call EXCEPT ![c] = r] PROVE Asked'
  BY <1>0, <1>1, <1>3, AskedStays DEF JarsInv
<1>4. Asked /\ Record(call[c], n)
  BY DEF JarsInv, Asked
<1> HIDE DEF n
<1>5. CASE W!Receive(c)
  <2>0. call[c] \in Receiving(n)
    BY <1>4, <1>5 DEF W!Receive, Record
  <2>1. PICK j \in call[c].left :
          /\ incoming' = [incoming EXCEPT ![j] = call[c].version]
          /\ W!Goto(c, IF call[c].left \ {j} # {} THEN [call[c] EXCEPT !.left = call[c].left \ {j}]
                       ELSE IF call[c].op = "store" THEN W!Syncing(call[c].got)
                       ELSE [call[c] EXCEPT !.pc = "clear", !.left = Jars \ call[c].got])
    BY <1>5 DEF W!Receive
  <2>2. call[c].version \in 0..n /\ call[c].got \subseteq Jars /\ call[c].left \subseteq Jars
    BY <2>0 DEF Receiving
  <2>3. incoming' \in [Jars -> 0..n]
    BY <1>0, <2>1, <2>2
  <2> DEFINE r1 == [call[c] EXCEPT !.left = call[c].left \ {j}]
             r2 == W!Syncing(call[c].got)
             r3 == [call[c] EXCEPT !.pc = "clear", !.left = Jars \ call[c].got]
  <2>4. Record(r1, n)
    BY <2>0, <2>2 DEF Record, Receiving
  <2>5. Record(r2, n)
    BY <1>0, <2>2 DEF Record, Distributing, W!Syncing, W!Pairs
  <2>6. call[c].op # "store" => Record(r3, n)
    BY <2>0, <2>2 DEF Record, Receiving, Clearing
  <2>7. \/ call' = [call EXCEPT ![c] = r1]
        \/ call' = [call EXCEPT ![c] = r2]
        \/ call[c].op # "store" /\ call' = [call EXCEPT ![c] = r3]
    BY <2>1 DEF W!Goto
  <2> HIDE DEF r1, r2, r3
  <2>8. Asked'
    BY <1>3, <2>4, <2>5, <2>6, <2>7
  <2> QED
    BY <1>2, <2>3, <2>8 DEF JarsInv
<1>6. CASE W!Clear(c)
  <2>0. call[c] \in Clearing(n)
    BY <1>4, <1>6 DEF W!Clear, W!At, Record
  <2>1. CASE W!Ends(c, "done") /\ UNCHANGED incoming
    BY <1>0, <1>1, <1>2, <1>4, <2>1, AskedEnds DEF JarsInv, n
  <2>2. ASSUME NEW j \in call[c].left, incoming' = [incoming EXCEPT ![j] = 0],
               W!Goto(c, [call[c] EXCEPT !.left = call[c].left \ {j}])
        PROVE  JarsInv'
    <3> DEFINE r1 == [call[c] EXCEPT !.left = call[c].left \ {j}]
    <3>1. Record(r1, n)
      BY <2>0 DEF Record, Clearing
    <3>2. call' = [call EXCEPT ![c] = r1]
      BY <2>2 DEF W!Goto
    <3> HIDE DEF r1
    <3>3. incoming' \in [Jars -> 0..n]
      BY <1>0, <2>2
    <3> QED
      BY <1>2, <1>3, <3>1, <3>2, <3>3 DEF JarsInv
  <2> QED
    BY <1>6, <2>1, <2>2 DEF W!Clear
<1>7. CASE W!UploadBreaks(c)
  <2>1. Asked'
    BY <1>0, <1>1, <1>4, <1>7, AskedEnds DEF W!UploadBreaks, n
  <2>2. incoming' = incoming
    BY <1>7 DEF W!UploadBreaks, W!disk
  <2> QED
    BY <1>0, <1>2, <2>1, <2>2 DEF JarsInv
<1> QED
  BY <1>5, <1>6, <1>7

\* The distribution goes on.
LEMMA Distributes ==
    ASSUME JarsInv, NEW c \in Calls, W!Fetch(c) \/ W!Put(c) \/ W!SyncBreaks(c)
    PROVE  JarsInv'
<1> DEFINE n == jrequests
<1>0. /\ n \in Nat /\ incoming \in [Jars -> 0..n] /\ jtroubles \in Nat
      /\ copy \in [JarNodes -> [Jars -> 0..n]]
  BY DEF JarsInv, Stored
<1>1. /\ jrequests' = jrequests /\ jtroubles' \in {jtroubles, jtroubles + 1}
      /\ UNCHANGED <<incoming, report, script, flag, jar, up, mount>>
  BY DEF W!Fetch, W!Put, W!SyncBreaks, W!Trouble, W!disk, W!checked, W!containers
<1>2. ASSUME copy' \in [JarNodes -> [Jars -> 0..n]] PROVE Stored' /\ Mounted'
  BY <1>0, <1>1, <1>2 DEF JarsInv, Stored, Mounted
<1>3. ASSUME NEW r, Record(r, n), call' = [call EXCEPT ![c] = r] PROVE Asked'
  BY <1>0, <1>1, <1>3, AskedStays DEF JarsInv
<1>4. Asked /\ Record(call[c], n)
  BY DEF JarsInv, Asked
<1> HIDE DEF n
<1>5. call[c] \in Distributing(n)
  BY <1>4 DEF W!Fetch, W!Put, W!SyncBreaks, W!At, Record
<1>6. CASE W!Fetch(c)
  <2>1. copy' = copy
    BY <1>6 DEF W!Fetch, W!disk
  <2>2. CASE W!Ends(c, "done") \/ W!Fails(c, "gone")
    BY <1>0, <1>1, <1>2, <1>4, <2>1, <2>2, AskedEnds DEF JarsInv, n
  <2>3. ASSUME NEW p \in call[c].left, NEW h \in Held(n) \cup {None},
               call' = [call EXCEPT ![c] = [call[c] EXCEPT !.left = call[c].left \ {p}, !.held = h]]
        PROVE  JarsInv'
    <3> DEFINE r == [call[c] EXCEPT !.left = call[c].left \ {p}, !.held = h]
    <3>1. Record(r, n)
      BY <1>5, <2>3 DEF Record, Distributing
    <3>2. call' = [call EXCEPT ![c] = r]
      BY <2>3
    <3> HIDE DEF r
    <3> QED
      BY <1>0, <1>2, <1>3, <2>1, <3>1, <3>2 DEF JarsInv
  <2>4. ASSUME NEW p \in call[c].left,
               call' = [call EXCEPT ![c] = [call[c] EXCEPT !.left = call[c].left \ {p}]]
        PROVE  JarsInv'
    <3> DEFINE r == [call[c] EXCEPT !.left = call[c].left \ {p}]
    <3>1. Record(r, n)
      BY <1>5, <2>4 DEF Record, Distributing
    <3>2. call' = [call EXCEPT ![c] = r]
      BY <2>4
    <3> HIDE DEF r
    <3> QED
      BY <1>0, <1>2, <1>3, <2>1, <3>1, <3>2 DEF JarsInv
  <2>5. ASSUME NEW p \in call[c].left,
               LET v == incoming[p[2]] IN
               CASE v = 0 -> W!Fails(c, "gone")
                 [] v # 0 /\ copy[p[1]][p[2]] = v -> W!Goto(c, [call[c] EXCEPT !.left = @ \ {p}])
                 [] OTHER -> W!Goto(c, [call[c] EXCEPT !.left = @ \ {p}, !.held = <<p[1], p[2], v>>])
        PROVE  JarsInv'
    <3>1. CASE W!Fails(c, "gone")
      BY <2>2, <3>1
    <3>2. CASE W!Goto(c, [call[c] EXCEPT !.left = @ \ {p}])
      BY <2>4, <3>2 DEF W!Goto
    <3>3. CASE W!Goto(c, [call[c] EXCEPT !.left = @ \ {p}, !.held = <<p[1], p[2], incoming[p[2]]>>])
      <4>1. p \in JarNodes \X Jars
        BY <1>5 DEF Distributing
      <4>2. p[1] \in JarNodes /\ p[2] \in Jars /\ incoming[p[2]] \in 0..n
        BY <1>0, <4>1
      <4>3. <<p[1], p[2], incoming[p[2]]>> \in Held(n)
        BY <4>2 DEF Held
      <4> QED
        BY <2>3, <3>3, <4>3 DEF W!Goto
    <3> QED
      BY <2>5, <3>1, <3>2, <3>3
  <2> QED
    BY <1>6, <2>2, <2>5 DEF W!Fetch
<1>7. CASE W!Put(c)
  <2>1. call[c].held \in Held(n)
    BY <1>5, <1>7 DEF W!Put, Distributing
  <2>2. PICK nd \in JarNodes, j \in Jars, v \in 0..n : call[c].held = <<nd, j, v>>
    BY <2>1 DEF Held
  <2>3. copy' = [copy EXCEPT ![nd] = [copy[nd] EXCEPT ![j] = v]]
    BY <1>7, <2>2 DEF W!Put
  <2>4. [copy[nd] EXCEPT ![j] = v] \in [Jars -> 0..n]
    BY <1>0
  <2>5. copy' \in [JarNodes -> [Jars -> 0..n]]
    BY <1>0, <2>3, <2>4
  <2> DEFINE r == [call[c] EXCEPT !.held = None]
  <2>6. Record(r, n)
    BY <1>5 DEF Record, Distributing
  <2>7. call' = [call EXCEPT ![c] = r]
    BY <1>7 DEF W!Put, W!Goto
  <2> HIDE DEF r
  <2> QED
    BY <1>2, <1>3, <2>5, <2>6, <2>7 DEF JarsInv
<1>8. CASE W!SyncBreaks(c)
  <2>1. Asked'
    BY <1>0, <1>1, <1>4, <1>8, AskedEnds DEF W!SyncBreaks, n
  <2>2. copy' = copy
    BY <1>8 DEF W!SyncBreaks, W!disk
  <2> QED
    BY <1>0, <1>2, <2>1, <2>2 DEF JarsInv
<1> QED
  BY <1>6, <1>7, <1>8

\* The checks go on.
LEMMA Checks ==
    ASSUME JarSetting, JarsInv, NEW c \in Calls, W!Inspected(c) \/ W!WriteScript(c) \/ W!CheckBreaks(c)
    PROVE  JarsInv'
<1> DEFINE n == jrequests
<1>0. n \in Nat /\ jtroubles \in Nat
  BY DEF JarsInv, Stored
<1>1. /\ jrequests' = jrequests /\ jtroubles' \in {jtroubles, jtroubles + 1}
      /\ UNCHANGED <<incoming, copy, flag, jar, up, mount>>
  BY DEF W!Inspected, W!WriteScript, W!CheckBreaks, W!Trouble, W!disk, W!checked, W!containers
<1>2. ASSUME report' \in {"none", "bad", "ok"}, script' # None => script' \in Seq(W!Targets)
      PROVE  Stored' /\ Mounted'
  BY <1>0, <1>1, <1>2 DEF JarsInv, Stored, Mounted
<1>3. ASSUME NEW r, Record(r, n), call' = [call EXCEPT ![c] = r] PROVE Asked'
  BY <1>0, <1>1, <1>3, AskedStays DEF JarsInv
<1>4. Asked /\ Record(call[c], n)
  BY DEF JarsInv, Asked
<1>5. report \in {"none", "bad", "ok"} /\ (script # None => script \in Seq(W!Targets))
  BY DEF JarsInv, Stored
<1> HIDE DEF n
<1>6. CASE W!Inspected(c)
  <2>1. PICK silent : /\ report' = IF silent = {} THEN "ok" ELSE "bad"
                      /\ W!Goto(c, [op |-> "check", pc |-> "write", new |-> W!Visits(silent)])
    BY <1>6 DEF W!Inspected
  <2>2. script' = script
    BY <1>6 DEF W!Inspected
  <2> DEFINE new == W!Visits(silent)
             r == [op |-> "check", pc |-> "write", new |-> new]
  <2>3. new \in Seq(W!Targets)
    BY ContainersThereAre, VisitsAreTargets
  <2>4. call' = [call EXCEPT ![c] = r]
    BY <2>1 DEF W!Goto
  <2> HIDE DEF new
  <2>5. Record(r, n)
    BY <2>3 DEF Record, Writing
  <2> HIDE DEF r
  <2>6. report' \in {"none", "bad", "ok"}
    BY <2>1
  <2> QED
    BY <1>2, <1>3, <1>5, <2>2, <2>4, <2>5, <2>6 DEF JarsInv
<1>7. CASE W!WriteScript(c)
  <2>0. call[c].new \in Seq(W!Targets)
    BY <1>4, <1>7 DEF W!WriteScript, W!At, Record, Writing
  <2>1. script' = call[c].new /\ report' = report
    BY <1>7 DEF W!WriteScript
  <2>2. Stored' /\ Mounted'
    BY <1>2, <1>5, <2>0, <2>1
  <2> DEFINE over == [op |-> "check", pc |-> "done"]
             running_ == {d \in Calls : W!At(d, "run", "run")}
  <2>3. Record(over, n)
    BY Plain
  <2>4. CASE running_ = {}
    <3>1. call' = [call EXCEPT ![c] = over]
      BY <1>7, <2>4 DEF W!WriteScript, W!Goto
    <3> HIDE DEF over
    <3> QED
      BY <1>3, <2>2, <2>3, <3>1 DEF JarsInv
  <2>5. CASE running_ # {}
    <3>1. PICK all \in W!Reads(running_, call[c].new) : call' = [all EXCEPT ![c] = over]
      BY <1>7, <2>5 DEF W!WriteScript
    <3>2. PICK rest : all = [d \in Calls |-> IF d \in running_ THEN [call[d] EXCEPT !.left = rest] ELSE call[d]]
      BY <3>1 DEF W!Reads
    <3>3. DOMAIN call' = Calls /\ call'[c] = over
      BY <3>1, <3>2
    <3>4. ASSUME NEW d \in Calls \ {c} PROVE Record(call'[d], n)
      <4>1. Record(call[d], n)
        BY <1>4 DEF Asked, n
      <4>2. CASE d \in running_
        <5>1. call'[d] = [call[d] EXCEPT !.left = rest]
          BY <3>1, <3>2, <4>2
        <5>2. call[d].pc = "run" /\ {"op", "pc"} \subseteq DOMAIN call[d]
          BY <4>1, <4>2 DEF W!At, Record
        <5> DEFINE r == call'[d]
        <5>3. {"op", "pc"} \subseteq DOMAIN r /\ r.pc = "run"
          BY <5>1, <5>2
        <5> HIDE DEF r
        <5>4. Record(r, n)
          BY <5>3, Plain
        <5> QED
          BY <5>4 DEF r
      <4>3. CASE d \notin running_
        <5>1. call'[d] = call[d]
          BY <3>1, <3>2, <4>3
        <5> QED
          BY <4>1, <5>1
      <4> QED
        BY <4>2, <4>3
    <3>5. Asked'
      <4> HIDE DEF over
      <4>1. jrequests' = n
        BY <1>1 DEF n
      <4> QED
        BY <2>3, <3>3, <3>4, <4>1 DEF Asked
    <3> QED
      BY <2>2, <3>5 DEF JarsInv
  <2> QED
    BY <2>4, <2>5
<1>8. CASE W!CheckBreaks(c)
  <2>1. Asked'
    BY <1>0, <1>1, <1>4, <1>8, AskedEnds DEF W!CheckBreaks, n
  <2>2. UNCHANGED <<report, script>>
    BY <1>8 DEF W!CheckBreaks, W!checked
  <2> QED
    BY <1>2, <1>5, <2>1, <2>2 DEF JarsInv
<1> QED
  BY <1>6, <1>7, <1>8

\* The runs of the script go on.
LEMMA Runs ==
    ASSUME JarSetting, JarsInv, NEW c \in Calls, W!TakeFlag(c) \/ W!RunStep(c) \/ W!RunEnds(c)
    PROVE  JarsInv'
<1> DEFINE n == jrequests
<1>0. /\ n \in Nat /\ jtroubles \in Nat /\ flag \in BOOLEAN /\ incoming \in [Jars -> 0..n]
      /\ jar \in [W!Targets -> 0..n] /\ up \in [W!Targets -> 0..n \cup {None}]
  BY DEF JarsInv, Stored, Mounted
<1>1. jrequests' = jrequests /\ UNCHANGED <<incoming, copy, report, script, mount>>
  BY DEF W!TakeFlag, W!RunStep, W!RunEnds, W!disk, W!checked
<1>2. ASSUME jtroubles' \in {jtroubles, jtroubles + 1}, flag' \in BOOLEAN,
             jar' \in [W!Targets -> 0..n], up' \in [W!Targets -> 0..n \cup {None}]
      PROVE  Stored' /\ Mounted'
  BY <1>0, <1>1, <1>2 DEF JarsInv, Stored, Mounted
<1>3. ASSUME NEW r, Record(r, n), call' = [call EXCEPT ![c] = r] PROVE Asked'
  BY <1>0, <1>1, <1>3, AskedStays DEF JarsInv
<1>4. Asked /\ Record(call[c], n) /\ {"op", "pc"} \subseteq DOMAIN call[c]
  BY DEF JarsInv, Asked, Record
<1>5. /\ \A how \in {"done", "refused"} : W!Ends(c, how) => Asked'
      /\ \A cause : W!Fails(c, cause) => Asked'
  BY <1>0, <1>1, <1>4, AskedEnds
<1> HIDE DEF n
<1>6. CASE W!TakeFlag(c)
  <2>1. UNCHANGED <<jtroubles, jar, up>> /\ flag' = TRUE
    BY <1>6 DEF W!TakeFlag, W!TakesFlag, W!containers
  <2>2. Stored' /\ Mounted'
    BY <1>0, <1>2, <2>1
  <2> DEFINE r == [op |-> "run", pc |-> "run", left |-> script, took |-> {}, base |-> jar]
  <2>3. Record(r, n)
    BY Plain
  <2>4. W!Ends(c, "refused") \/ call' = [call EXCEPT ![c] = r]
    BY <1>6 DEF W!TakeFlag, W!TakesFlag, W!Goto
  <2> HIDE DEF r
  <2> QED
    BY <1>3, <1>5, <2>2, <2>3, <2>4 DEF JarsInv
<1>7. CASE W!RunStep(c)
  <2> DEFINE t == Head(call[c].left)
             v == incoming[t.jar]
  <2>0. call[c].pc = "run"
    BY <1>7 DEF W!RunStep, W!At
  <2>1. CASE v = 0
    <3>1. UNCHANGED <<jtroubles, flag, jar, up>>
              /\ call' = [call EXCEPT ![c] = [call[c] EXCEPT !.left = Tail(call[c].left)]]
      BY <1>7, <2>1 DEF W!RunStep, W!Goto, W!containers
    <3> DEFINE r == [call[c] EXCEPT !.left = Tail(call[c].left)]
    <3>2. {"op", "pc"} \subseteq DOMAIN r /\ r.pc = "run"
      BY <1>4, <2>0
    <3>3. call' = [call EXCEPT ![c] = r]
      BY <3>1
    <3> HIDE DEF r
    <3>4. Asked'
      BY <1>3, <3>2, <3>3, Plain
    <3> QED
      BY <1>0, <1>2, <3>1, <3>4 DEF JarsInv
  <2>2. CASE v # 0 /\ W!Local(t)
    <3>1. W!UpgradeLocal(c, t)
      BY <1>7, <2>2 DEF W!RunStep
    <3>2. t \in W!Targets => v \in 0..n
      BY <1>0, ContainersThereAre
    <3>3. CASE /\ jar' = [jar EXCEPT ![t] = incoming[t.jar]]
               /\ up' = [up EXCEPT ![t] = incoming[t.jar]]
               /\ W!Goto(c, [call[c] EXCEPT !.left = Tail(@),
                                            !.took = @ \cup {[at |-> t, version |-> incoming[t.jar]]}])
               /\ UNCHANGED <<flag, jtroubles>>
      <4> DEFINE r == [call[c] EXCEPT !.left = Tail(call[c].left),
                                      !.took = call[c].took \cup {[at |-> t, version |-> v]}]
      <4>1. {"op", "pc"} \subseteq DOMAIN r /\ r.pc = "run"
        BY <1>4, <2>0
      <4>2. call' = [call EXCEPT ![c] = r]
        BY <3>3 DEF W!Goto
      <4> HIDE DEF r
      <4>3. Asked'
        BY <1>3, <4>1, <4>2, Plain
      <4>4. jar' = [jar EXCEPT ![t] = v] /\ up' = [up EXCEPT ![t] = v]
        BY <3>3
      <4> HIDE DEF t, v
      <4>5. jar' \in [W!Targets -> 0..n] /\ up' \in [W!Targets -> 0..n \cup {None}]
        BY <1>0, <3>2, <4>4
      <4> QED
        BY <1>0, <1>2, <3>3, <4>3, <4>5 DEF JarsInv
    <3>4. ASSUME NEW alive \in {jar[t], None}, up' = [up EXCEPT ![t] = alive], UNCHANGED jar,
                 W!Trouble, W!Quits(c, "trouble")
          PROVE  JarsInv'
      <4>1. Asked' /\ flag' = FALSE /\ jtroubles' = jtroubles + 1
        BY <1>5, <3>4 DEF W!Quits, W!Trouble
      <4> HIDE DEF t
      <4>2. up' \in [W!Targets -> 0..n \cup {None}]
        BY <1>0, <3>4
      <4> QED
        BY <1>0, <1>2, <3>4, <4>1, <4>2 DEF JarsInv
    <3> QED
      BY <3>1, <3>3, <3>4 DEF W!UpgradeLocal
  <2>3. CASE v # 0 /\ ~W!Local(t)
    <3>1. W!UpgradeRemote(c)
      BY <1>7, <2>3 DEF W!RunStep
    <3>2. /\ UNCHANGED <<jar, up>> /\ flag' = FALSE /\ jtroubles' \in {jtroubles, jtroubles + 1}
          /\ \E cause : W!Fails(c, cause)
      BY <3>1 DEF W!UpgradeRemote, W!Quits, W!Trouble, W!containers
    <3> QED
      BY <1>0, <1>2, <1>5, <3>2 DEF JarsInv
  <2> QED
    BY <2>1, <2>2, <2>3
<1>8. CASE W!RunEnds(c)
  <2>1. UNCHANGED <<jtroubles, jar, up>> /\ flag' = FALSE
            /\ (W!Ends(c, "done") \/ W!Fails(c, "nothing matched"))
    BY <1>8 DEF W!RunEnds, W!containers
  <2> QED
    BY <1>0, <1>2, <1>5, <2>1 DEF JarsInv
<1> QED
  BY <1>6, <1>7, <1>8

\* The repairs go on.
LEMMA Repairs ==
    ASSUME JarsInv, NEW c \in Calls,
           W!Preflight(c) \/ W!RepairDropped(c) \/ W!RepairNode(c) \/ W!RepairEnds(c)
    PROVE  JarsInv'
<1> DEFINE n == jrequests
           Kinds == {"nfs", "cifs", "none"}
<1>0. n \in Nat /\ jtroubles \in Nat /\ flag \in BOOLEAN /\ mount \in [JarNodes -> Kinds]
  BY DEF JarsInv, Stored
<1>1. jrequests' = jrequests /\ UNCHANGED <<incoming, copy, report, script, jar, up>>
  BY DEF W!Preflight, W!RepairDropped, W!RepairNode, W!RepairEnds, W!disk, W!checked, W!containers
<1>2. ASSUME jtroubles' \in {jtroubles, jtroubles + 1}, flag' \in BOOLEAN, mount' \in [JarNodes -> Kinds]
      PROVE  Stored' /\ Mounted'
  BY <1>0, <1>1, <1>2 DEF JarsInv, Stored, Mounted
<1>3. ASSUME NEW r, Record(r, n), call' = [call EXCEPT ![c] = r] PROVE Asked'
  BY <1>0, <1>1, <1>3, AskedStays DEF JarsInv
<1>4. Asked /\ Record(call[c], n) /\ {"op", "pc"} \subseteq DOMAIN call[c]
  BY DEF JarsInv, Asked, Record
<1>5. /\ \A how \in {"done", "refused"} : W!Ends(c, how) => Asked'
      /\ \A cause : W!Fails(c, cause) => Asked'
  BY <1>0, <1>1, <1>4, AskedEnds
<1> HIDE DEF n
<1>6. CASE W!Preflight(c)
  <2> DEFINE r == [op |-> "repair", pc |-> "repair", left |-> JarNodes, bad |-> FALSE]
  <2>1. mount' = mount /\ jtroubles' \in {jtroubles, jtroubles + 1} /\ flag' \in BOOLEAN
    BY <1>0, <1>6 DEF W!Preflight, W!Trouble, W!Quits
  <2>2. Record(r, n)
    BY Plain
  <2>3. call' = [call EXCEPT ![c] = r] \/ W!Fails(c, "trouble")
    BY <1>6 DEF W!Preflight, W!Goto, W!Quits
  <2> HIDE DEF r
  <2>4. Asked'
    BY <1>3, <1>5, <2>2, <2>3
  <2> QED
    BY <1>0, <1>2, <2>1, <2>4 DEF JarsInv
<1>7. CASE W!RepairDropped(c)
  <2>1. mount' = mount /\ jtroubles' = jtroubles + 1 /\ flag' = flag /\ W!Fails(c, "dropped")
    BY <1>7 DEF W!RepairDropped, W!Trouble
  <2> QED
    BY <1>0, <1>2, <1>5, <2>1 DEF JarsInv
<1>8. CASE W!RepairNode(c)
  <2>0. call[c].pc = "repair"
    BY <1>8 DEF W!RepairNode, W!At
  <2>1. PICK nd \in call[c].left : \E o \in W!Outcomes(nd) :
          /\ mount' = [mount EXCEPT ![nd] = o[1]]
          /\ IF o[2] THEN UNCHANGED jtroubles ELSE W!Trouble
          /\ IF nd = Master /\ ~o[2] THEN W!Quits(c, "trouble")
             ELSE /\ UNCHANGED flag
                  /\ W!Goto(c, [call[c] EXCEPT !.left = @ \ {nd}, !.bad = @ \/ ~o[2]])
    BY <1>8 DEF W!RepairNode
  <2>2. PICK o \in W!Outcomes(nd) :
          /\ mount' = [mount EXCEPT ![nd] = o[1]]
          /\ IF o[2] THEN UNCHANGED jtroubles ELSE W!Trouble
          /\ IF nd = Master /\ ~o[2] THEN W!Quits(c, "trouble")
             ELSE /\ UNCHANGED flag
                  /\ W!Goto(c, [call[c] EXCEPT !.left = @ \ {nd}, !.bad = @ \/ ~o[2]])
    BY <2>1
  <2>3. nd \in JarNodes => o[1] \in Kinds
    <3>1. CASE o = <<"cifs", TRUE>>
      BY <3>1
    <3>2. CASE o \in {mount[nd], "nfs", "cifs", "none"} \X {FALSE}
      <4>1. o[1] \in {mount[nd], "nfs", "cifs", "none"}
        BY <3>2
      <4> QED
        BY <1>0, <4>1
    <3> QED
      BY <2>2, <3>1, <3>2 DEF W!Outcomes
  <2>4. mount' \in [JarNodes -> Kinds]
    BY <1>0, <2>2, <2>3
  <2>5. jtroubles' \in {jtroubles, jtroubles + 1} /\ flag' \in BOOLEAN
    BY <1>0, <2>2 DEF W!Trouble, W!Quits
  <2> DEFINE r == [call[c] EXCEPT !.left = call[c].left \ {nd}, !.bad = call[c].bad \/ ~o[2]]
  <2>6. {"op", "pc"} \subseteq DOMAIN r /\ r.pc = "repair"
    BY <1>4, <2>0
  <2>7. call' = [call EXCEPT ![c] = r] \/ W!Fails(c, "trouble")
    BY <2>2 DEF W!Goto, W!Quits
  <2> HIDE DEF r
  <2>8. Asked'
    BY <1>3, <1>5, <2>6, <2>7, Plain
  <2> QED
    BY <1>2, <2>4, <2>5, <2>8 DEF JarsInv
<1>9. CASE W!RepairEnds(c)
  <2>1. mount' = mount /\ jtroubles' = jtroubles /\ flag' = FALSE
            /\ (W!Ends(c, "done") \/ W!Fails(c, "trouble"))
    BY <1>9 DEF W!RepairEnds, W!Quits
  <2> QED
    BY <1>0, <1>2, <1>5, <2>1 DEF JarsInv
<1> QED
  BY <1>6, <1>7, <1>8, <1>9

\* The program restarts.
LEMMA Restarts ==
    ASSUME JarSetting, JarsInv, W!Restart
    PROVE  JarsInv'
<1> DEFINE n == jrequests
<1>0. /\ n \in Nat /\ jtroubles \in Nat /\ incoming \in [Jars -> 0..n]
      /\ jar \in [W!Targets -> 0..n]
  BY DEF JarsInv, Stored, Mounted
<1>1. /\ jrequests' = jrequests /\ jtroubles' = jtroubles + 1 /\ flag' = FALSE
      /\ UNCHANGED <<incoming, copy, report, script, up, mount>>
  BY DEF W!Restart, W!Trouble, W!disk, W!checked
<1>2. PICK T \in SUBSET W!Targets : jar' = [t \in W!Targets |-> IF t \in T THEN incoming[t.jar] ELSE jar[t]]
  BY DEF W!Restart
<1>3. jar' \in [W!Targets -> 0..n]
  BY <1>0, <1>2, ContainersThereAre
<1>4. Stored' /\ Mounted'
  <2>1. jtroubles' \in Nat
    BY <1>0, <1>1
  <2>2. flag' \in BOOLEAN
    BY <1>1
  <2> QED
    BY <1>1, <1>3, <2>1, <2>2 DEF JarsInv, Stored, Mounted
<1>5. Record(W!Idle, jrequests')
  BY Plain DEF W!Idle
<1>6. call' = [c \in Calls |-> W!Idle]
  BY DEF W!Restart
<1>7. Asked'
  <2> HIDE DEF n
  <2>1. DOMAIN call' = Calls /\ \A c \in Calls : call'[c] = W!Idle
    BY <1>6
  <2> QED
    BY <1>5, <2>1 DEF Asked
<1> QED
  BY <1>4, <1>7 DEF JarsInv

\* The invariant of the JARs.
LEMMA NextJars ==
    ASSUME JarSetting, JarsInv, [W!Next]_W!vars
    PROVE  JarsInv'
<1>1. CASE UNCHANGED W!vars
  BY <1>1 DEF W!vars, JarsInv, Stored, Mounted, Asked
<1> QED
  BY <1>1, Begins, Uploads, Distributes, Checks, Runs, Repairs, Restarts DEF W!Next

\* The two looks at the JARs differ in what may be asked for, and how often.
LEMMA JarSteps ==
    ASSUME JarSetting, jrequests \in Nat
    PROVE  /\ J!Init => W!Init
           /\ [J!Next]_J!vars => [W!Next]_W!vars
           /\ [V!Next]_V!vars => [W!Next]_W!vars
<1> USE DEF J!disk, J!checked, J!containers, J!Targets, J!ToSet, J!Idle, J!At, J!Goto, J!Ends, J!Fails,
     J!Trouble,
            W!disk, W!checked, W!containers, W!Targets, W!ToSet, W!Idle, W!At, W!Goto, W!Ends, W!Fails,
                      W!Trouble,
            V!disk, V!checked, V!containers, V!Targets, V!ToSet, V!Idle, V!At, V!Goto, V!Ends, V!Fails,
                      V!Trouble
<1>1. J!Init => W!Init
  BY DEF J!Init, W!Init
<1>2. ASSUME NEW c, NEW op
      PROVE  (J!Asks(c, op) \/ V!Asks(c, op)) => W!Asks(c, op)
  BY DEF J!Asks, V!Asks, W!Asks, JarSetting
<1>3. ASSUME NEW c \in Calls
      PROVE  /\ J!StartUpload(c) \/ V!StartUpload(c) => W!StartUpload(c)
             /\ J!StartStore(c) \/ V!StartStore(c) => W!StartStore(c)
             /\ J!StartSync(c) \/ V!StartSync(c) => W!StartSync(c)
             /\ J!StartCheck(c) \/ V!StartCheck(c) => W!StartCheck(c)
             /\ J!StartRun(c) \/ V!StartRun(c) => W!StartRun(c)
             /\ J!StartRepair(c) \/ V!StartRepair(c) => W!StartRepair(c)
  BY <1>2 DEF J!StartUpload, V!StartUpload, W!StartUpload, J!StartStore, V!StartStore, W!StartStore,
              J!StartSync, V!StartSync, W!StartSync, J!StartCheck, V!StartCheck, W!StartCheck,
              J!StartRun, V!StartRun, W!StartRun, J!StartRepair, V!StartRepair, W!StartRepair,
              J!Syncing, V!Syncing, W!Syncing, J!Pairs, V!Pairs, W!Pairs
<1>4. ASSUME NEW c \in Calls
      PROVE  /\ J!Receive(c) \/ V!Receive(c) => W!Receive(c)
             /\ J!Clear(c) \/ V!Clear(c) => W!Clear(c)
             /\ J!UploadBreaks(c) \/ V!UploadBreaks(c) => W!UploadBreaks(c)
  BY DEF J!Receive, V!Receive, W!Receive, J!Clear, V!Clear, W!Clear, J!UploadBreaks, V!UploadBreaks,
         W!UploadBreaks,
         J!Syncing, V!Syncing, W!Syncing, J!Pairs, V!Pairs, W!Pairs
<1>5. ASSUME NEW c \in Calls
      PROVE  /\ J!Fetch(c) \/ V!Fetch(c) => W!Fetch(c)
             /\ J!Put(c) \/ V!Put(c) => W!Put(c)
             /\ J!SyncBreaks(c) \/ V!SyncBreaks(c) => W!SyncBreaks(c)
  BY DEF J!Fetch, V!Fetch, W!Fetch, J!Put, V!Put, W!Put, J!SyncBreaks, V!SyncBreaks, W!SyncBreaks
<1>6. ASSUME NEW c \in Calls
      PROVE  /\ J!Inspected(c) \/ V!Inspected(c) => W!Inspected(c)
             /\ J!WriteScript(c) \/ V!WriteScript(c) => W!WriteScript(c)
             /\ J!CheckBreaks(c) \/ V!CheckBreaks(c) => W!CheckBreaks(c)
  BY DEF J!Inspected, V!Inspected, W!Inspected, J!WriteScript, V!WriteScript, W!WriteScript,
         J!CheckBreaks, V!CheckBreaks, W!CheckBreaks, J!Visits, V!Visits, W!Visits,
         J!Reads, V!Reads, W!Reads, J!Rereads, V!Rereads, W!Rereads
<1>7. ASSUME NEW c \in Calls
      PROVE  /\ J!TakeFlag(c) \/ V!TakeFlag(c) => W!TakeFlag(c)
             /\ J!RunStep(c) \/ V!RunStep(c) => W!RunStep(c)
             /\ J!RunEnds(c) \/ V!RunEnds(c) => W!RunEnds(c)
  BY DEF J!TakeFlag, V!TakeFlag, W!TakeFlag, J!TakesFlag, V!TakesFlag, W!TakesFlag, J!RunStep, V!RunStep,
         W!RunStep,
         J!RunEnds, V!RunEnds, W!RunEnds, J!UpgradeLocal, V!UpgradeLocal, W!UpgradeLocal,
         J!UpgradeRemote, V!UpgradeRemote, W!UpgradeRemote, J!Quits, V!Quits, W!Quits, J!Local, V!Local,
                   W!Local
<1>8. ASSUME NEW c \in Calls
      PROVE  /\ J!Preflight(c) \/ V!Preflight(c) => W!Preflight(c)
             /\ J!RepairDropped(c) \/ V!RepairDropped(c) => W!RepairDropped(c)
             /\ J!RepairNode(c) \/ V!RepairNode(c) => W!RepairNode(c)
             /\ J!RepairEnds(c) \/ V!RepairEnds(c) => W!RepairEnds(c)
  BY DEF J!Preflight, V!Preflight, W!Preflight, J!RepairDropped, V!RepairDropped, W!RepairDropped,
         J!RepairNode, V!RepairNode, W!RepairNode, J!RepairEnds, V!RepairEnds, W!RepairEnds,
         J!Quits, V!Quits, W!Quits, J!Outcomes, V!Outcomes, W!Outcomes
<1>9. J!Restart \/ V!Restart => W!Restart
  BY DEF J!Restart, V!Restart, W!Restart, J!Local, V!Local, W!Local
<1>10. UNCHANGED J!vars \/ UNCHANGED V!vars => UNCHANGED W!vars
  BY DEF J!vars, V!vars, W!vars
<1>11. J!Next \/ V!Next => W!Next
  BY <1>3, <1>4, <1>5, <1>6, <1>7, <1>8, <1>9 DEF J!Next, V!Next, W!Next
<1> QED
  BY <1>1, <1>10, <1>11

\* The bounds on requests and troubles.
Bounded ==
    /\ jtroubles <= MaxTroubles
    /\ comp = "jars" => jrequests <= MaxStores
    /\ comp = "upgrade" => jrequests <= MaxUpgrades

\* A request is made, a trouble comes, or neither.
Counts(bound) ==
    /\ jrequests' = jrequests \/ (jrequests < bound /\ jrequests' = jrequests + 1)
    /\ jtroubles' = jtroubles \/ (jtroubles < MaxTroubles /\ jtroubles' = jtroubles + 1)

\* The steps count what they take, of the distribution
LEMMA StoresCounted == J!Next => Counts(MaxStores)
<1> USE DEF Counts, J!Asks, J!Trouble
<1>1. ASSUME NEW c \in Calls,
             \/ J!StartUpload(c) \/ J!StartStore(c) \/ J!StartSync(c) \/ J!StartCheck(c) \/ J!StartRun(c)
             \/ J!StartRepair(c)
      PROVE  Counts(MaxStores)
  BY <1>1 DEF J!StartUpload, J!StartStore, J!StartSync, J!StartCheck, J!StartRun, J!StartRepair
<1>2. ASSUME NEW c \in Calls,
             \/ J!Receive(c) \/ J!Clear(c) \/ J!UploadBreaks(c) \/ J!Fetch(c) \/ J!Put(c) \/ J!SyncBreaks(c)
             \/ J!Inspected(c) \/ J!WriteScript(c) \/ J!CheckBreaks(c)
      PROVE  Counts(MaxStores)
  BY <1>2 DEF J!Receive, J!Clear, J!UploadBreaks, J!Fetch, J!Put, J!SyncBreaks, J!Inspected, J!WriteScript,
              J!CheckBreaks
<1>3. ASSUME NEW c \in Calls,
             \/ J!TakeFlag(c) \/ J!RunStep(c) \/ J!RunEnds(c)
             \/ J!Preflight(c) \/ J!RepairDropped(c) \/ J!RepairNode(c) \/ J!RepairEnds(c)
      PROVE  Counts(MaxStores)
  BY <1>3 DEF J!TakeFlag, J!RunStep, J!RunEnds, J!UpgradeLocal, J!UpgradeRemote, J!Preflight, J!RepairDropped,
              J!RepairNode, J!RepairEnds
<1>4. J!Restart => Counts(MaxStores)
  BY DEF J!Restart
<1> QED
  BY <1>1, <1>2, <1>3, <1>4 DEF J!Next

\* and of the upgrades.
LEMMA UpgradesCounted == V!Next => Counts(MaxUpgrades)
<1> USE DEF Counts, V!Asks, V!Trouble
<1>1. ASSUME NEW c \in Calls,
             \/ V!StartUpload(c) \/ V!StartStore(c) \/ V!StartSync(c) \/ V!StartCheck(c) \/ V!StartRun(c)
             \/ V!StartRepair(c)
      PROVE  Counts(MaxUpgrades)
  BY <1>1 DEF V!StartUpload, V!StartStore, V!StartSync, V!StartCheck, V!StartRun, V!StartRepair
<1>2. ASSUME NEW c \in Calls,
             \/ V!Receive(c) \/ V!Clear(c) \/ V!UploadBreaks(c) \/ V!Fetch(c) \/ V!Put(c) \/ V!SyncBreaks(c)
             \/ V!Inspected(c) \/ V!WriteScript(c) \/ V!CheckBreaks(c)
      PROVE  Counts(MaxUpgrades)
  BY <1>2 DEF V!Receive, V!Clear, V!UploadBreaks, V!Fetch, V!Put, V!SyncBreaks, V!Inspected, V!WriteScript,
              V!CheckBreaks
<1>3. ASSUME NEW c \in Calls,
             \/ V!TakeFlag(c) \/ V!RunStep(c) \/ V!RunEnds(c)
             \/ V!Preflight(c) \/ V!RepairDropped(c) \/ V!RepairNode(c) \/ V!RepairEnds(c)
      PROVE  Counts(MaxUpgrades)
  BY <1>3 DEF V!TakeFlag, V!RunStep, V!RunEnds, V!UpgradeLocal, V!UpgradeRemote, V!Preflight, V!RepairDropped,
              V!RepairNode, V!RepairEnds
<1>4. V!Restart => Counts(MaxUpgrades)
  BY DEF V!Restart
<1> QED
  BY <1>1, <1>2, <1>3, <1>4 DEF V!Next

\* No look at the JARs makes more requests than it may.
LEMMA BoundsKept ==
    ASSUME JarSetting, Bounded, jrequests \in Nat, jtroubles \in Nat, [Next]_vars
    PROVE  Bounded'
<1>1. CASE comp = "jars" /\ J!Next /\ comp' = comp
  <2>1. Counts(MaxStores)
    BY <1>1, StoresCounted
  <2> QED
    BY <1>1, <2>1 DEF Counts, Bounded, JarSetting
<1>2. CASE comp = "upgrade" /\ V!Next /\ comp' = comp
  <2>1. Counts(MaxUpgrades)
    BY <1>2, UpgradesCounted
  <2> QED
    BY <1>2, <2>1 DEF Counts, Bounded, JarSetting
<1>3. CASE UNCHANGED <<comp, jrequests, jtroubles>>
  BY <1>3 DEF Bounded
<1> QED
  BY <1>1, <1>2, <1>3 DEF Next, vars, jars

\* jar_store.rs and jar_upgrade.rs: what the uploads, the distribution, the
\* checks, the runs and the repairs keep.
LEMMA JarTypes ==
    ASSUME JarSetting
    PROVE  Spec => []((comp = "jars" => J!TypeOK) /\ (comp = "upgrade" => V!TypeOK))
<1> DEFINE Inv == JarsInv /\ Bounded
<1>1. Init => Inv
  <2> SUFFICES ASSUME Init PROVE Inv
    OBVIOUS
  <2>1. J!Init
    BY DEF Init
  <2>2. Stored
    <3>1. jrequests = 0 /\ jtroubles = 0 /\ 0 \in 0..jrequests /\ script = None
      BY <2>1 DEF J!Init
    <3>2. incoming = [j \in Jars |-> 0] /\ copy = [n \in JarNodes |-> [j \in Jars |-> 0]]
      BY <2>1 DEF J!Init
    <3>3. report \in {"none", "bad", "ok"} /\ flag \in BOOLEAN
              /\ mount \in [JarNodes -> {"nfs", "cifs", "none"}]
      BY <2>1 DEF J!Init
    <3>4. incoming \in [Jars -> 0..jrequests] /\ copy \in [JarNodes -> [Jars -> 0..jrequests]]
      BY <3>1, <3>2
    <3> QED
      BY <3>1, <3>3, <3>4 DEF Stored
  <2>3. Mounted
    BY <2>1 DEF J!Init, Mounted, J!Targets, J!ToSet, W!Targets, W!ToSet
  <2>4. \A n : Record(J!Idle, n)
    BY Plain DEF J!Idle
  <2>5. Asked
    BY <2>1, <2>4 DEF J!Init, Asked
  <2>6. Bounded
    BY <2>1 DEF J!Init, Bounded, JarSetting
  <2> QED
    BY <2>2, <2>3, <2>5, <2>6 DEF JarsInv
<1>2. Inv /\ [Next]_vars => Inv'
  <2> SUFFICES ASSUME Inv, [Next]_vars PROVE Inv'
    OBVIOUS
  <2>1. jrequests \in Nat /\ jtroubles \in Nat
    BY DEF JarsInv, Stored
  <2>2. [J!Next]_J!vars \/ [V!Next]_V!vars
    BY DEF Next, vars, jars, J!vars, V!vars
  <2>3. JarsInv'
    BY <2>1, <2>2, JarSteps, NextJars
  <2> QED
    BY <2>1, <2>3, BoundsKept
<1>3. Inv => (comp = "jars" => J!TypeOK) /\ (comp = "upgrade" => V!TypeOK)
  <2> SUFFICES ASSUME Inv PROVE (comp = "jars" => J!TypeOK) /\ (comp = "upgrade" => V!TypeOK)
    OBVIOUS
  <2>1. /\ incoming \in [Jars -> 0..jrequests]
        /\ copy \in [JarNodes -> [Jars -> 0..jrequests]]
        /\ jar \in [W!Targets -> 0..jrequests] /\ up \in [W!Targets -> 0..jrequests \cup {None}]
        /\ jrequests \in Nat /\ jtroubles \in 0..MaxTroubles
    BY DEF JarsInv, Stored, Mounted, Bounded, JarSetting
  <2>2. report \in {"none", "bad", "ok"} /\ flag \in BOOLEAN
            /\ mount \in [JarNodes -> {"nfs", "cifs", "none"}]
    BY DEF JarsInv, Stored
  <2>3. script # None => {script[i] : i \in DOMAIN script} \subseteq W!Targets
    <3> SUFFICES ASSUME script # None PROVE {script[i] : i \in DOMAIN script} \subseteq W!Targets
      OBVIOUS
    <3>1. script \in Seq(W!Targets)
      BY DEF JarsInv, Stored
    <3> QED
      BY <3>1
  <2>4. DOMAIN call = Calls
    BY DEF JarsInv, Asked
  <2>5. ASSUME NEW n \in Nat, jrequests <= n
        PROVE  /\ incoming \in [Jars -> 0..n]
               /\ copy \in [JarNodes -> [Jars -> 0..n]]
               /\ jar \in [W!Targets -> 0..n] /\ up \in [W!Targets -> 0..n \cup {None}]
               /\ jrequests \in 0..n
    <3>1. 0..jrequests \subseteq 0..n /\ jrequests \in 0..n
      BY <2>1, <2>5
    <3> QED
      BY <2>1, <3>1
  <2>6. CASE comp = "jars"
    <3>1. jrequests <= MaxStores /\ MaxStores \in Nat
      BY <2>6 DEF Bounded, JarSetting
    <3>2. J!Targets = W!Targets /\ J!ToSet(script) = {script[i] : i \in DOMAIN script}
      BY DEF J!Targets, W!Targets, J!ToSet, W!ToSet
    <3> QED
      BY <2>1, <2>2, <2>3, <2>4, <2>5, <2>6, <3>1, <3>2 DEF J!TypeOK, J!Versions
  <2>7. CASE comp = "upgrade"
    <3>1. jrequests <= MaxUpgrades /\ MaxUpgrades \in Nat
      BY <2>7 DEF Bounded, JarSetting
    <3>2. V!Targets = W!Targets /\ V!ToSet(script) = {script[i] : i \in DOMAIN script}
      BY DEF V!Targets, W!Targets, V!ToSet, W!ToSet
    <3> QED
      BY <2>1, <2>2, <2>3, <2>4, <2>5, <2>7, <3>1, <3>2 DEF V!TypeOK, V!Versions
  <2> QED
    BY <2>6, <2>7
<1> QED
  BY <1>1, <1>2, <1>3, PTL DEF Spec
-----------------------------------------------------------------------------
\* Every component keeps its types: what is stored stays within what the
\* handlers' checks let in.
THEOREM ResourcesKeepTheirTypes ==
    ASSUME S!Setting, TwoTemplates, Free, JarSetting, Attempts \in Nat, Master \notin Workers
    PROVE  Spec => []TypeOK
<1>1. Spec => []I!TypeOK
  BY InstallTypes
<1>2. Spec => []S!TypeOK
  <2>1. S!Spec => []S!TypeOK
    BY S!StoragesKeepTheirTypes
  <2> QED
    BY <2>1, StorageSteps, PTL DEF Spec, S!Spec
<1>3. Spec => []D!TypeOK
  BY DeployTypes
<1>4. Spec => []N!TypeOK
  <2>1. N!Spec => []N!TypeOK
    BY RepositoryTypes
  <2> QED
    BY <2>1, RepositorySteps, PTL DEF Spec, N!Spec
<1>5. Spec => []((comp = "jars" => J!TypeOK) /\ (comp = "upgrade" => V!TypeOK))
  BY JarTypes
<1>6. /\ I!TypeOK /\ S!TypeOK /\ D!TypeOK /\ N!TypeOK
      /\ (comp = "jars" => J!TypeOK) /\ (comp = "upgrade" => V!TypeOK)
      => TypeOK
  BY DEF TypeOK
<1> QED
  BY <1>1, <1>2, <1>3, <1>4, <1>5, <1>6, PTL
=============================================================================
