--------------------------- MODULE Sessions_proofs ---------------------------
(***************************************************************************)
(* What users who race can rely on, for any number of them.                *)
(*                                                                         *)
(* The file: what the editor of src/src/api.rs promises for any number of  *)
(* editing sessions, texts and file names.  With nothing assumed, an       *)
(* outside change is noted once.  As long as nobody else touches the file  *)
(* between the second look at it and the rename, no save writes over a     *)
(* text its user did not see.  And as long as the inserts that follow the  *)
(* rename succeed, the history has what was written over and ends with the *)
(* file.                                                                   *)
(*                                                                         *)
(* The account: the lockout is asked before the hash is verified and the   *)
(* failure is counted after it, so the guesses in progress come on top of  *)
(* the limit, and no others; and the sessions that a change of the         *)
(* password leaves are gone when it is done, whoever changes it beside it. *)
(***************************************************************************)
EXTENDS Sessions, FiniteSetTheorems, WellFoundedInduction, TLAPS

-----------------------------------------------------------------------------
\* The least of some numbers.
LEMMA Least ==
    ASSUME NEW T, T \subseteq Nat, T # {}
    PROVE  \E x \in T : \A y \in T : x <= y
<1> DEFINE Less == {ss \in Nat \X Nat : ss[1] < ss[2]}
<1>1. IsWellFoundedOn(Less, Nat)
  BY NatLessThanWellFounded DEF OpToRel
<1>2. \A x, y \in Nat : y < x => <<y, x>> \in Less
  OBVIOUS
<1>3. PICK x \in T : \A y \in T : <<y, x>> \notin Less
  <2> HIDE DEF Less
  <2> QED
    BY <1>1, WFMin
<1>4. \A y \in T : y \in Nat /\ x \in Nat /\ ~(y < x)
  BY <1>2, <1>3
<1> QED
  BY <1>4

\* The first of the names there is a file of.
First(f, i) ==
    /\ i \in DOMAIN Names /\ f[Names[i]] # Absent
    /\ \A j \in 1..(i - 1) : f[Names[j]] = Absent

\* The names are numbered from one.
LEMMA NamesThereAre ==
    /\ DOMAIN Names \subseteq Nat /\ 1 \in DOMAIN Names
    /\ \A i \in DOMAIN Names : Names[i] \in Name /\ \A j \in 1..i : j \in DOMAIN Names
BY NamesAssumption DEF Name

\* If there is a file, one is the first.
LEMMA FirstThereIs ==
    ASSUME NEW f \in [Name -> Text \cup {Absent}], \E n \in Name : f[n] # Absent
    PROVE  \E i \in DOMAIN Names : First(f, i)
<1> DEFINE There == {i \in DOMAIN Names : f[Names[i]] # Absent}
<1>1. There # {} /\ There \subseteq Nat
  BY NamesThereAre DEF Name
<1>2. PICK i \in There : \A j \in There : i <= j
  BY <1>1, Least
<1>3. \A j \in 1..(i - 1) : j \in DOMAIN Names /\ ~(i <= j)
  BY NamesThereAre
<1> QED
  BY <1>2, <1>3 DEF First

\* And only one is.
LEMMA FirstIsOne ==
    ASSUME NEW f, NEW i, NEW j, First(f, i), First(f, j)
    PROVE  i = j
<1>1. i \in Nat /\ j \in Nat /\ i >= 1 /\ j >= 1
  BY NamesAssumption DEF First
<1>2. ~(i \in 1..(j - 1)) /\ ~(j \in 1..(i - 1))
  BY DEF First
<1> QED
  BY <1>1, <1>2

\* The live file is the first there is, or else the first name.
LEMMA LiveIsFirst ==
    ASSUME NEW f \in [Name -> Text \cup {Absent}]
    PROVE  /\ LivePath(f) \in Name
           /\ \A i : First(f, i) => LivePath(f) = Names[i]
           /\ (\A n \in Name : f[n] = Absent) => LivePath(f) = Names[1]
           /\ (\E n \in Name : f[n] # Absent) => \E i \in DOMAIN Names : First(f, i) /\ LivePath(f) = Names[i]
<1>1. CASE \A n \in Name : f[n] = Absent
  <2>1. \A i \in DOMAIN Names : Names[i] \in Name
    BY NamesThereAre
  <2> QED
    BY <1>1, <2>1, NamesThereAre DEF LivePath, First
<1>2. CASE \E n \in Name : f[n] # Absent
  <2>1. LivePath(f) = Names[CHOOSE i \in DOMAIN Names : First(f, i)]
    BY <1>2 DEF LivePath, First
  <2>2. PICK i \in DOMAIN Names : First(f, i)
    BY <1>2, FirstThereIs
  <2>3. First(f, CHOOSE k \in DOMAIN Names : First(f, k))
    BY <2>2
  <2>4. (CHOOSE k \in DOMAIN Names : First(f, k)) = i
    BY <2>2, <2>3, FirstIsOne
  <2>5. \A k : First(f, k) => k = i
    BY <2>2, FirstIsOne
  <2> QED
    BY <1>2, <2>1, <2>2, <2>4, <2>5, NamesThereAre
<1> QED
  BY <1>1, <1>2

\* It stays the live file when it is written.
LEMMA LiveStays ==
    ASSUME NEW f \in [Name -> Text \cup {Absent}], NEW t \in Text
    PROVE  LivePath([f EXCEPT ![LivePath(f)] = t]) = LivePath(f)
<1> DEFINE g == [f EXCEPT ![LivePath(f)] = t]
<1>1. g \in [Name -> Text \cup {Absent}] /\ LivePath(f) \in Name /\ t # Absent
  BY LiveIsFirst, ValuesAssumption DEF Text
<1>2. \E i \in DOMAIN Names : First(g, i) /\ LivePath(f) = Names[i]
  <2>1. CASE \A n \in Name : f[n] = Absent
    <3>1. LivePath(f) = Names[1] /\ 1 \in DOMAIN Names
      BY <2>1, LiveIsFirst, NamesThereAre
    <3>2. First(g, 1)
      BY <1>1, <3>1 DEF First
    <3> QED
      BY <3>1, <3>2
  <2>2. CASE \E n \in Name : f[n] # Absent
    <3>1. PICK i \in DOMAIN Names : First(f, i) /\ LivePath(f) = Names[i]
      BY <2>2, LiveIsFirst
    <3>2. \A j \in 1..(i - 1) : j \in DOMAIN Names /\ j # i /\ Names[j] \in Name /\ f[Names[j]] = Absent
      BY <3>1, NamesThereAre DEF First
    <3>3. \A j \in 1..(i - 1) : Names[j] # LivePath(f)
      BY <3>1, <3>2, NamesAssumption
    <3>4. First(g, i)
      BY <1>1, <3>1, <3>2, <3>3 DEF First
    <3> QED
      BY <3>1, <3>4
  <2> QED
    BY <2>1, <2>2
<1>3. LivePath(g) = LivePath(f)
  <2> HIDE DEF g
  <2> QED
    BY <1>1, <1>2, LiveIsFirst
<1> QED
  BY <1>3

-----------------------------------------------------------------------------
\* What a save carries from step to step, and where it will write.
Filled ==
    \A r \in Reqs :
        /\ pc[r] \in Steps => want[r] \in Text
        /\ pc[r] \in Steps \ {"queue"} => disk[r] \in Text

\* Past the queue a save has the lock, so there is one such save at most.
HasLock(r) == pc[r] \in {"install", "note", "snapshot", "record", "up"}
Held == \A r \in Reqs : HasLock(r) => lock = r

Sane == TypeOK /\ Filled /\ Held

\* What is read is a text.
LEMMA ReadIsText ==
    ASSUME TypeOK
    PROVE  LivePath(files) \in Name /\ LiveText \in Text /\ \A n \in Name : Read(n) \in Text
BY LiveIsFirst DEF TypeOK, LiveText, Read, Text

\* It is the same as long as the files are.
LEMMA LiveUnchanged == UNCHANGED files => LiveText' = LiveText /\ LivePath(files') = LivePath(files)
BY DEF LiveText, Read

\* A revision that is added keeps the others and is the last one.
LEMMA Added ==
    ASSUME TypeOK, NEW e \in [text : Text, kind : Kinds], revs' = Append(revs, e)
    PROVE  /\ revs' \in Seq([text : Text, kind : Kinds])
           /\ revs' # <<>> /\ revs'[Len(revs')] = e
           /\ Recorded \subseteq Recorded' /\ e.text \in Recorded'
<1> DEFINE R == [text : Text, kind : Kinds]
<1>1. revs \in Seq(R) /\ e \in R
  BY DEF TypeOK
<1>2. \A s \in Seq(R) : /\ Append(s, e) \in Seq(R) /\ Append(s, e) # <<>> /\ Append(s, e)[Len(Append(s, e))] = e
                        /\ Len(Append(s, e)) \in DOMAIN Append(s, e)
                        /\ \A i \in DOMAIN s : i \in DOMAIN Append(s, e) /\ Append(s, e)[i] = s[i]
  <2> HIDE DEF R
  <2> QED
    BY <1>1
<1> HIDE DEF R
<1>3. /\ revs' \in Seq(R) /\ revs' # <<>> /\ revs'[Len(revs')] = e /\ Len(revs') \in DOMAIN revs'
      /\ \A i \in DOMAIN revs : i \in DOMAIN revs' /\ revs'[i] = revs[i]
  BY <1>1, <1>2
<1> QED
  BY <1>3 DEF Recorded, R

\* Noting a text keeps the history, and has the text in it unless it is empty.
LEMMA NotedIsHistory ==
    ASSUME TypeOK, NEW t \in Text, revs' = Noted(t)
    PROVE  /\ revs' \in Seq([text : Text, kind : Kinds])
           /\ Recorded \subseteq Recorded'
           /\ t = Empty \/ t \in Recorded'
<1> DEFINE there == (t = Empty /\ ~Env) \/ (revs # <<>> /\ revs[Len(revs)].text = t)
<1>1. revs \in Seq([text : Text, kind : Kinds])
  BY DEF TypeOK
<1>2. CASE there
  <2>1. revs' = revs
    BY <1>2 DEF Noted
  <2>2. revs # <<>> => Len(revs) \in DOMAIN revs
    BY <1>1
  <2> QED
    BY <1>1, <1>2, <2>1, <2>2 DEF Recorded
<1>3. CASE ~there
  <2>1. PICK k \in Kinds : revs' = Append(revs, [text |-> t, kind |-> k])
    BY <1>3 DEF Noted, Kinds
  <2>2. [text |-> t, kind |-> k] \in [text : Text, kind : Kinds]
    OBVIOUS
  <2>3. [text |-> t, kind |-> k].text = t
    OBVIOUS
  <2> QED
    BY <2>1, <2>2, <2>3, Added
<1> QED
  BY <1>2, <1>3

\* What a save records is the last revision.
LEMMA RecordAdds ==
    ASSUME Sane, NEW r \in Reqs, Record(r)
    PROVE  /\ revs' \in Seq([text : Text, kind : Kinds]) /\ Recorded \subseteq Recorded'
           /\ revs' # <<>> /\ revs'[Len(revs')].text = want[r]
<1>1. want[r] \in Text
  BY DEF Sane, Filled, Record, Steps
<1>2. PICK k \in Kinds : revs' = Append(revs, [text |-> want[r], kind |-> k])
  BY DEF Record, Kinds
<1>3. PICK e \in [text : Text, kind : Kinds] : e.text = want[r] /\ e = [text |-> want[r], kind |-> k]
  BY <1>1
<1> QED
  BY <1>2, <1>3, Added DEF Sane

\* A revision's text is one.
LEMMA RevisionsAreTexts ==
    ASSUME TypeOK
    PROVE  \A i \in DOMAIN revs : revs[i].text \in Text
<1>1. revs \in Seq([text : Text, kind : Kinds])
  BY DEF TypeOK
<1>2. \A S : \A s \in Seq(S) : \A i \in DOMAIN s : s[i] \in S
  OBVIOUS
<1>3. \A i \in DOMAIN revs : revs[i] \in [text : Text, kind : Kinds]
  BY <1>1, <1>2
<1> QED
  BY <1>3

\* At the start nothing is saved.
LEMMA InitSane == Init => Sane
BY NamesThereAre, ValuesAssumption, BoundAssumption
DEF Init, Sane, TypeOK, Filled, Held, HasLock, Text, Steps, Ended

\* The lock is asked for before the file, and given back at the end.
LEMMA HeldStep ==
    ASSUME TypeOK, Held, [Next]_vars
    PROVE  Held'
<1> USE DEF path, save, spent, ghost, Steps, Ended, TypeOK, Held, HasLock
<1>1. ASSUME NEW r \in Reqs, Open(r) PROVE Held'
  BY <1>1, ValuesAssumption DEF Open
<1>2. ASSUME NEW r \in Reqs, Put(r) PROVE Held'
  BY <1>2, ValuesAssumption DEF Put, Leave
<1>3. ASSUME NEW r \in Reqs, Restore(r) PROVE Held'
  BY <1>3, ValuesAssumption DEF Restore
<1>4. ASSUME NEW r \in Reqs, LockAndRead(r) PROVE Held'
  BY <1>4, ValuesAssumption DEF LockAndRead
<1>5. ASSUME NEW r \in Reqs, Reject(r) PROVE Held'
  BY <1>5, ValuesAssumption DEF Reject, Leave
<1>6. ASSUME NEW r \in Reqs, Install(r) PROVE Held'
  BY <1>6, ValuesAssumption DEF Install, Leave
<1>7. ASSUME NEW r \in Reqs, SnapshotDisk(r) PROVE Held'
  BY <1>7, ValuesAssumption DEF SnapshotDisk, Leave
<1>8. ASSUME NEW r \in Reqs, Record(r) PROVE Held'
  BY <1>8, ValuesAssumption DEF Record, Leave
<1>9. ASSUME NEW r \in Reqs, ComposeUp(r) PROVE Held'
  BY <1>9, ValuesAssumption DEF ComposeUp, Leave
<1>10. ASSUME NEW r \in Reqs, Fail(r) PROVE Held'
  BY <1>10, ValuesAssumption DEF Fail, Leave
<1>11. ASSUME NEW r \in Reqs, Drop(r) PROVE Held'
  BY <1>11, ValuesAssumption DEF Drop, Leave
<1>12. CASE Crash
  BY <1>12, ValuesAssumption DEF Crash, Active
<1>13. ASSUME NEW n \in Name, NEW t \in Texts \cup {Absent}, EditOutside(n, t) PROVE Held'
  BY <1>13, ValuesAssumption DEF EditOutside
<1>14. CASE DeleteProject
  BY <1>14, ValuesAssumption DEF DeleteProject
<1>15. CASE UNCHANGED vars
  BY <1>15, ValuesAssumption DEF vars
<1> QED
  BY <1>1, <1>2, <1>3, <1>4, <1>5, <1>6, <1>7, <1>8, <1>9, <1>10, <1>11, <1>12, <1>13,
     <1>14, <1>15 DEF Next, Rest

\* Every step keeps Filled.
LEMMA FilledStep ==
    ASSUME TypeOK, Filled, [Next]_vars
    PROVE  Filled'
<1> USE DEF path, save, spent, ghost, Steps, Ended, TypeOK, Filled, Text
<1>1. ASSUME NEW r \in Reqs, Open(r) PROVE Filled'
  BY <1>1, ReadIsText DEF Open
<1>2. ASSUME NEW r \in Reqs, Put(r) PROVE Filled'
  BY <1>2, ReadIsText DEF Put, Leave
<1>3. ASSUME NEW r \in Reqs, Restore(r) PROVE Filled'
  BY <1>3, ReadIsText, RevisionsAreTexts DEF Restore
<1>4. ASSUME NEW r \in Reqs, LockAndRead(r) PROVE Filled'
  BY <1>4, ReadIsText DEF LockAndRead
<1>5. ASSUME NEW r \in Reqs, Reject(r) PROVE Filled'
  BY <1>5, ReadIsText DEF Reject, Leave
<1>6. ASSUME NEW r \in Reqs, Install(r) PROVE Filled'
  BY <1>6, ReadIsText DEF Install, Leave
<1>7. ASSUME NEW r \in Reqs, SnapshotDisk(r) PROVE Filled'
  BY <1>7, ReadIsText DEF SnapshotDisk, Leave
<1>8. ASSUME NEW r \in Reqs, Record(r) PROVE Filled'
  BY <1>8, ReadIsText DEF Record, Leave
<1>9. ASSUME NEW r \in Reqs, ComposeUp(r) PROVE Filled'
  BY <1>9, ReadIsText DEF ComposeUp, Leave
<1>10. ASSUME NEW r \in Reqs, Fail(r) PROVE Filled'
  BY <1>10, ReadIsText DEF Fail, Leave
<1>11. ASSUME NEW r \in Reqs, Drop(r) PROVE Filled'
  BY <1>11, ReadIsText DEF Drop, Leave
<1>12. CASE Crash
  BY <1>12, ReadIsText DEF Crash, Active
<1>13. ASSUME NEW n \in Name, NEW t \in Texts \cup {Absent}, EditOutside(n, t) PROVE Filled'
  BY <1>13, ReadIsText DEF EditOutside
<1>14. CASE DeleteProject
  BY <1>14, ReadIsText DEF DeleteProject
<1>15. CASE UNCHANGED vars
  BY <1>15, ReadIsText DEF vars
<1> QED
  BY <1>1, <1>2, <1>3, <1>4, <1>5, <1>6, <1>7, <1>8, <1>9, <1>10, <1>11, <1>12, <1>13,
     <1>14, <1>15 DEF Next, Rest

\* Every step keeps the types.
LEMMA TypeStep ==
    ASSUME TypeOK, Filled, [Next]_vars
    PROVE  TypeOK'
<1> USE DEF path, save, spent, ghost, Steps, Ended, TypeOK, Filled
<1>1. ASSUME NEW r \in Reqs, Open(r) PROVE TypeOK'
  BY <1>1, ValuesAssumption, BoundAssumption, ReadIsText DEF Open
<1>2. ASSUME NEW r \in Reqs, Put(r) PROVE TypeOK'
  BY <1>2, ValuesAssumption, BoundAssumption, ReadIsText DEF Put, Leave, Text
<1>3. ASSUME NEW r \in Reqs, Restore(r) PROVE TypeOK'
  BY <1>3, ValuesAssumption, BoundAssumption, ReadIsText, RevisionsAreTexts DEF Restore
<1>4. ASSUME NEW r \in Reqs, LockAndRead(r) PROVE TypeOK'
  BY <1>4, ValuesAssumption, BoundAssumption, ReadIsText DEF LockAndRead
<1>5. ASSUME NEW r \in Reqs, Reject(r) PROVE TypeOK'
  BY <1>5, ValuesAssumption, BoundAssumption, ReadIsText DEF Reject, Leave
<1>6. ASSUME NEW r \in Reqs, Install(r) PROVE TypeOK'
  <2>1. /\ drafts[dest[r]] \in Text /\ files[dest[r]] \in Text \cup {Absent} /\ dest[r] \in Name
    BY <1>6 DEF Install
  <2>2. replaced' \subseteq Texts /\ written' \in Text
    BY <1>6, <2>1 DEF Install, Text
  <2> QED
    BY <1>6, <2>1, <2>2 DEF Install, Leave
<1>7. ASSUME NEW r \in Reqs, SnapshotDisk(r) PROVE TypeOK'
  <2>1. revs' \in Seq([text : Text, kind : Kinds])
    BY <1>7, NotedIsHistory DEF SnapshotDisk
  <2> QED
    BY <1>7, <2>1 DEF SnapshotDisk, Leave
<1>8. ASSUME NEW r \in Reqs, Record(r) PROVE TypeOK'
  <2>1. revs' \in Seq([text : Text, kind : Kinds])
    BY <1>8 DEF Record, Kinds
  <2> QED
    BY <1>8, <2>1 DEF Record, Leave
<1>9. ASSUME NEW r \in Reqs, ComposeUp(r) PROVE TypeOK'
  BY <1>9, ValuesAssumption, BoundAssumption, ReadIsText DEF ComposeUp, Leave
<1>10. ASSUME NEW r \in Reqs, Fail(r) PROVE TypeOK'
  BY <1>10, ValuesAssumption, BoundAssumption, ReadIsText DEF Fail, Leave
<1>11. ASSUME NEW r \in Reqs, Drop(r) PROVE TypeOK'
  BY <1>11, ValuesAssumption, BoundAssumption, ReadIsText DEF Drop, Leave
<1>12. CASE Crash
  BY <1>12, ValuesAssumption, BoundAssumption, ReadIsText DEF Crash, Active
<1>13. ASSUME NEW n \in Name, NEW t \in Texts \cup {Absent}, EditOutside(n, t) PROVE TypeOK'
  BY <1>13, ValuesAssumption, BoundAssumption, ReadIsText DEF EditOutside, Text
<1>14. CASE DeleteProject
  <2>1. revs' \in Seq([text : Text, kind : Kinds])
    BY <1>14 DEF DeleteProject
  <2> QED
    BY <1>14, <2>1 DEF DeleteProject
<1>15. CASE UNCHANGED vars
  BY <1>15, ValuesAssumption, BoundAssumption, ReadIsText DEF vars
<1> QED
  BY <1>1, <1>2, <1>3, <1>4, <1>5, <1>6, <1>7, <1>8, <1>9, <1>10, <1>11, <1>12, <1>13,
     <1>14, <1>15 DEF Next, Rest

\* A save keeps its types, its text and its lock.
LEMMA NextSane == Sane /\ [Next]_vars => Sane'
BY HeldStep, FilledStep, TypeStep DEF Sane

\* The types are right, for every number of sessions, texts and names.
THEOREM TypeCorrect == Spec => []TypeOK
<1>1. Init => Sane
  BY InitSane
<1>2. Sane /\ [Next]_vars => Sane'
  BY NextSane
<1>3. Sane => TypeOK
  BY DEF Sane
<1> QED
  BY <1>1, <1>2, <1>3, PTL DEF Spec

-----------------------------------------------------------------------------

\* A text is noted as an outside change when it is not the last of the history.
LEMMA NewsStep ==
    ASSUME Sane, ExternalIsNews, [Next]_vars
    PROVE  ExternalIsNews'
<1> USE DEF path, save, spent, ghost, Steps, Ended, ExternalIsNews
<1>1. ASSUME NEW r \in Reqs, Open(r) PROVE ExternalIsNews'
  BY <1>1 DEF Open
<1>2. ASSUME NEW r \in Reqs, Put(r) PROVE ExternalIsNews'
  BY <1>2 DEF Put, Leave
<1>3. ASSUME NEW r \in Reqs, Restore(r) PROVE ExternalIsNews'
  BY <1>3 DEF Restore
<1>4. ASSUME NEW r \in Reqs, LockAndRead(r) PROVE ExternalIsNews'
  BY <1>4 DEF LockAndRead
<1>5. ASSUME NEW r \in Reqs, Reject(r) PROVE ExternalIsNews'
  BY <1>5 DEF Reject, Leave
<1>6. ASSUME NEW r \in Reqs, Install(r) PROVE ExternalIsNews'
  BY <1>6 DEF Install, Leave
<1>7. ASSUME NEW r \in Reqs, SnapshotDisk(r) PROVE ExternalIsNews'
  <2>1. revs \in Seq([text : Text, kind : Kinds])
    BY DEF Sane, TypeOK
  <2>2. CASE revs' = revs
    BY <2>2
  <2>3. CASE revs' # revs
    <3>1. /\ revs' = Append(revs, [text |-> disk[r], kind |-> IF revs = <<>> THEN "baseline" ELSE "external"])
          /\ revs # <<>> => revs[Len(revs)].text # disk[r]
      BY <1>7, <2>3 DEF SnapshotDisk, Noted
    <3> QED
      BY <2>1, <3>1
  <2> QED
    BY <2>2, <2>3
<1>8. ASSUME NEW r \in Reqs, Record(r) PROVE ExternalIsNews'
  <2>1. revs \in Seq([text : Text, kind : Kinds])
    BY DEF Sane, TypeOK
  <2>2. PICK k \in {"restore", "save"} : revs' = Append(revs, [text |-> want[r], kind |-> k])
    BY <1>8 DEF Record
  <2> QED
    BY <2>1, <2>2
<1>9. ASSUME NEW r \in Reqs, ComposeUp(r) PROVE ExternalIsNews'
  BY <1>9 DEF ComposeUp, Leave
<1>10. ASSUME NEW r \in Reqs, Fail(r) PROVE ExternalIsNews'
  BY <1>10 DEF Fail, Leave
<1>11. ASSUME NEW r \in Reqs, Drop(r) PROVE ExternalIsNews'
  BY <1>11 DEF Drop, Leave
<1>12. CASE Crash
  BY <1>12 DEF Crash, Active
<1>13. ASSUME NEW n \in Name, NEW t \in Texts \cup {Absent}, EditOutside(n, t) PROVE ExternalIsNews'
  BY <1>13 DEF EditOutside
<1>14. CASE DeleteProject
  BY <1>14 DEF DeleteProject
<1>15. CASE UNCHANGED vars
  BY <1>15 DEF vars
<1> QED
  BY <1>1, <1>2, <1>3, <1>4, <1>5, <1>6, <1>7, <1>8, <1>9, <1>10, <1>11, <1>12, <1>13,
     <1>14, <1>15 DEF Next, Rest

\* snapshot_disk_if_needed: a text noted as an outside change is never the one
\* recorded before it, whatever fails, crashes or is edited meanwhile.
THEOREM ChangesAreNews == Spec => []ExternalIsNews
<1>1. Init => Sane /\ ExternalIsNews
  BY InitSane DEF Init, ExternalIsNews
<1>2. Sane /\ ExternalIsNews /\ [Next]_vars => (Sane /\ ExternalIsNews)'
  BY NextSane, NewsStep
<1> QED
  BY <1>1, <1>2, PTL DEF Spec

-----------------------------------------------------------------------------
\* The text a save was opened on is still there when it is about to write.
Seen == \A r \in Reqs : pc[r] = "install" /\ expect[r] # None => expect[r] = LiveText

\* Nobody else writes the file between the second look at it and the rename.
LeftAlone == "install" \notin EditDuring \cup RenameDuring

\* The file stays while a save has the lock, but for its own rename.
LEMMA SeenStep ==
    ASSUME LeftAlone, Sane, Seen, [Next]_vars
    PROVE  Seen'
<1> USE DEF path, save, spent, ghost, Steps, Ended, Sane, TypeOK, Held, HasLock, Seen
<1>1. ASSUME NEW r \in Reqs, Open(r) PROVE Seen'
  BY <1>1, LiveUnchanged DEF Open
<1>2. ASSUME NEW r \in Reqs, Put(r) PROVE Seen'
  BY <1>2, LiveUnchanged DEF Put, Leave
<1>3. ASSUME NEW r \in Reqs, Restore(r) PROVE Seen'
  BY <1>3, LiveUnchanged DEF Restore
<1>4. ASSUME NEW r \in Reqs, LockAndRead(r) PROVE Seen'
  BY <1>4, ValuesAssumption, LiveUnchanged DEF LockAndRead, Conflict
<1>5. ASSUME NEW r \in Reqs, Reject(r) PROVE Seen'
  BY <1>5, LiveUnchanged DEF Reject, Leave
<1>6. ASSUME NEW r \in Reqs, Install(r) PROVE Seen'
  BY <1>6 DEF Install, Leave
<1>7. ASSUME NEW r \in Reqs, SnapshotDisk(r) PROVE Seen'
  BY <1>7, LiveUnchanged DEF SnapshotDisk, Leave
<1>8. ASSUME NEW r \in Reqs, Record(r) PROVE Seen'
  BY <1>8, LiveUnchanged DEF Record, Leave
<1>9. ASSUME NEW r \in Reqs, ComposeUp(r) PROVE Seen'
  BY <1>9, LiveUnchanged DEF ComposeUp, Leave
<1>10. ASSUME NEW r \in Reqs, Fail(r) PROVE Seen'
  BY <1>10, LiveUnchanged DEF Fail, Leave
<1>11. ASSUME NEW r \in Reqs, Drop(r) PROVE Seen'
  BY <1>11, LiveUnchanged DEF Drop, Leave
<1>12. CASE Crash
  BY <1>12, LiveUnchanged DEF Crash, Active
<1>13. ASSUME NEW n \in Name, NEW t \in Texts \cup {Absent}, EditOutside(n, t) PROVE Seen'
  <2>1. \A q \in Reqs : pc[q] # "install"
    BY <1>13 DEF EditOutside, Active, LeftAlone
  <2> QED
    BY <1>13, <2>1 DEF EditOutside
<1>14. CASE DeleteProject
  BY <1>14, LiveUnchanged DEF DeleteProject
<1>15. CASE UNCHANGED vars
  BY <1>15, LiveUnchanged DEF vars
<1> QED
  BY <1>1, <1>2, <1>3, <1>4, <1>5, <1>6, <1>7, <1>8, <1>9, <1>10, <1>11, <1>12, <1>13,
     <1>14, <1>15 DEF Next, Rest

\* save_compose_content, save_env_content: however many sessions, crashes and
\* dropped requests there are, a save writes only over the text its editor was
\* opened on, as long as others leave the file alone from the second look at it
\* to the rename.
THEOREM SavesReplaceWhatWasSeen ==
    ASSUME LeftAlone
    PROVE  Spec => NothingUnseenReplaced
<1>1. Init => Sane /\ Seen
  BY InitSane DEF Init, Seen
<1>2. Sane /\ Seen /\ [Next]_vars => (Sane /\ Seen)'
  BY NextSane, SeenStep
<1>3. Seen => ReplacesOnlySeen
  BY DEF Seen, ReplacesOnlySeen
<1> QED
  BY <1>1, <1>2, <1>3, PTL DEF Spec, NothingUnseenReplaced

-----------------------------------------------------------------------------
\* A save writes to the file it looked at, what it was asked to write, and
\* knows the text it writes over.
Aimed ==
    /\ \A r \in Reqs : pc[r] \in Steps => dest[r] = LivePath(files)
    /\ \A r \in Reqs : pc[r] = "install" => drafts[dest[r]] = want[r]
    /\ \A r \in Reqs : pc[r] \in {"install", "note"} => disk[r] = LiveText

\* What was written over is in the history, or on its way there.
Kept ==
    open => \A t \in replaced : t \in Recorded \/ \E r \in Reqs : pc[r] = "snapshot" /\ disk[r] = t

\* What the editor wrote last is in the file, and the history ends with it, or
\* it is on its way there.
Current ==
    written # None =>
        /\ written = LiveText
        /\ \/ ~open
           \/ \E r \in Reqs : pc[r] \in {"snapshot", "record"}
           \/ revs # <<>> /\ revs[Len(revs)].text = written

\* From the queue on others leave the file, and before it its name; and the
\* inserts that follow the rename come.
Calm ==
    /\ EditDuring \subseteq {"queue"} /\ RenameDuring = {}
    /\ Fallible \cap {"note", "snapshot", "record"} = {} /\ MaxCrashes = 0

\* What others do to the file leaves its name, and all of it to one that has
\* the lock.
LEMMA EditIsCalm ==
    ASSUME Calm, Sane, NEW n \in Name, NEW t \in Texts \cup {Absent}, EditOutside(n, t)
    PROVE  /\ \A r \in Reqs : ~HasLock(r)
           /\ Active # {} => LivePath(files') = LivePath(files)
<1>1. \A r \in Reqs : ~HasLock(r)
  BY DEF Calm, EditOutside, Active, HasLock, Steps
<1>2. ASSUME Active # {} PROVE LivePath(files') = LivePath(files)
  <2>1. n = LivePath(files) /\ t \in Text
    BY <1>2 DEF Calm, EditOutside, Text
  <2>2. files' = [files EXCEPT ![LivePath(files)] = t] /\ files \in [Name -> Text \cup {Absent}]
    BY <2>1 DEF EditOutside, Sane, TypeOK
  <2> QED
    BY <2>1, <2>2, LiveStays
<1> QED
  BY <1>1, <1>2

\* The rename puts the text of the save into the live file.
LEMMA InstallIsLive ==
    ASSUME Sane, Aimed, NEW r \in Reqs, Install(r)
    PROVE  /\ LivePath(files') = LivePath(files) /\ dest[r] = LivePath(files)
           /\ LiveText' = want[r] /\ written' = want[r] /\ want[r] \in Text
           /\ disk[r] = LiveText /\ replaced' \subseteq replaced \cup {disk[r]}
<1>1. /\ pc[r] = "install" /\ dest[r] = LivePath(files) /\ drafts[dest[r]] = want[r]
      /\ want[r] \in Text /\ disk[r] = LiveText
  BY DEF Install, Sane, Filled, Aimed, Steps
<1>2. /\ files' = [files EXCEPT ![LivePath(files)] = want[r]] /\ files \in [Name -> Text \cup {Absent}]
      /\ LivePath(files) \in Name /\ written' = want[r]
  BY <1>1, ReadIsText DEF Install, Sane, TypeOK
<1>3. LivePath(files') = LivePath(files)
  BY <1>1, <1>2, LiveStays
<1>4. LiveText' = want[r]
  BY <1>1, <1>2, <1>3, ValuesAssumption DEF LiveText, Read, Text
<1>5. replaced' \subseteq replaced \cup {disk[r]}
  BY <1>1 DEF Install, LiveText, Read
<1> QED
  BY <1>1, <1>2, <1>3, <1>4, <1>5

\* A save stays aimed at the live file.
LEMMA AimedStep ==
    ASSUME Calm, Sane, Aimed, [Next]_vars
    PROVE  Aimed'
<1> USE DEF path, save, spent, ghost, Steps, Ended, Sane, TypeOK, Held, HasLock, Aimed
<1>1. ASSUME NEW r \in Reqs, Open(r) PROVE Aimed'
  BY <1>1, LiveUnchanged DEF Open
<1>2. ASSUME NEW r \in Reqs, Put(r) PROVE Aimed'
  BY <1>2, LiveUnchanged DEF Put, Leave
<1>3. ASSUME NEW r \in Reqs, Restore(r) PROVE Aimed'
  BY <1>3, LiveUnchanged DEF Restore
<1>4. ASSUME NEW r \in Reqs, LockAndRead(r) PROVE Aimed'
  <2>1. \A q \in Reqs : pc[q] \notin {"install", "note", "snapshot", "record", "up"}
    BY <1>4, ValuesAssumption DEF LockAndRead
  <2>2. LiveText' = LiveText /\ LivePath(files') = LivePath(files) /\ UNCHANGED <<files, dest, want>>
    BY <1>4, LiveUnchanged DEF LockAndRead
  <2>3. /\ pc[r] = "queue" /\ dest[r] = LivePath(files) /\ dest[r] \in Name
        /\ pc'[r] \in Steps => disk'[r] = LiveText
        /\ pc'[r] = "install" => drafts'[dest[r]] = want[r]
        /\ \A q \in Reqs : q # r => pc'[q] = pc[q]
    BY <1>4 DEF LockAndRead
  <2> QED
    BY <2>1, <2>2, <2>3
<1>5. ASSUME NEW r \in Reqs, Reject(r) PROVE Aimed'
  BY <1>5, LiveUnchanged DEF Reject, Leave
<1>6. ASSUME NEW r \in Reqs, Install(r) PROVE Aimed'
  BY <1>6, InstallIsLive DEF Install, Leave
<1>7. ASSUME NEW r \in Reqs, SnapshotDisk(r) PROVE Aimed'
  BY <1>7, LiveUnchanged DEF SnapshotDisk, Leave
<1>8. ASSUME NEW r \in Reqs, Record(r) PROVE Aimed'
  BY <1>8, LiveUnchanged DEF Record, Leave
<1>9. ASSUME NEW r \in Reqs, ComposeUp(r) PROVE Aimed'
  BY <1>9, LiveUnchanged DEF ComposeUp, Leave
<1>10. ASSUME NEW r \in Reqs, Fail(r) PROVE Aimed'
  BY <1>10, LiveUnchanged DEF Fail, Leave
<1>11. ASSUME NEW r \in Reqs, Drop(r) PROVE Aimed'
  BY <1>11, LiveUnchanged DEF Drop, Leave
<1>12. CASE Crash
  BY <1>12, LiveUnchanged DEF Crash, Active
<1>13. ASSUME NEW n \in Name, NEW t \in Texts \cup {Absent}, EditOutside(n, t) PROVE Aimed'
  <2>1. \A q \in Reqs : pc[q] \notin {"install", "note", "snapshot", "record", "up"}
    BY <1>13, EditIsCalm
  <2>2. \A q \in Reqs : pc[q] \in Steps => LivePath(files') = LivePath(files)
    BY <1>13, EditIsCalm DEF Active
  <2> QED
    BY <1>13, <2>1, <2>2 DEF EditOutside
<1>14. CASE DeleteProject
  BY <1>14, LiveUnchanged DEF DeleteProject
<1>15. CASE UNCHANGED vars
  BY <1>15, LiveUnchanged DEF vars
<1> QED
  BY <1>1, <1>2, <1>3, <1>4, <1>5, <1>6, <1>7, <1>8, <1>9, <1>10, <1>11, <1>12, <1>13,
     <1>14, <1>15 DEF Next, Rest

\* What a save has written stays the live text while it has the lock.
LEMMA SavedStep ==
    ASSUME Calm, Sane, Aimed, SavedIsLive, [Next]_vars
    PROVE  SavedIsLive'
<1> USE DEF path, save, spent, ghost, Steps, Ended, Sane, TypeOK, Held, HasLock, SavedIsLive
<1>1. ASSUME NEW r \in Reqs, Open(r) PROVE SavedIsLive'
  BY <1>1, LiveUnchanged DEF Open
<1>2. ASSUME NEW r \in Reqs, Put(r) PROVE SavedIsLive'
  BY <1>2, LiveUnchanged DEF Put, Leave
<1>3. ASSUME NEW r \in Reqs, Restore(r) PROVE SavedIsLive'
  BY <1>3, LiveUnchanged DEF Restore
<1>4. ASSUME NEW r \in Reqs, LockAndRead(r) PROVE SavedIsLive'
  BY <1>4, LiveUnchanged DEF LockAndRead
<1>5. ASSUME NEW r \in Reqs, Reject(r) PROVE SavedIsLive'
  BY <1>5, LiveUnchanged DEF Reject, Leave
<1>6. ASSUME NEW r \in Reqs, Install(r) PROVE SavedIsLive'
  BY <1>6, InstallIsLive DEF Install, Leave
<1>7. ASSUME NEW r \in Reqs, SnapshotDisk(r) PROVE SavedIsLive'
  BY <1>7, LiveUnchanged DEF SnapshotDisk, Leave
<1>8. ASSUME NEW r \in Reqs, Record(r) PROVE SavedIsLive'
  BY <1>8, LiveUnchanged DEF Record, Leave
<1>9. ASSUME NEW r \in Reqs, ComposeUp(r) PROVE SavedIsLive'
  BY <1>9, LiveUnchanged DEF ComposeUp, Leave
<1>10. ASSUME NEW r \in Reqs, Fail(r) PROVE SavedIsLive'
  BY <1>10, LiveUnchanged DEF Fail, Leave
<1>11. ASSUME NEW r \in Reqs, Drop(r) PROVE SavedIsLive'
  BY <1>11, LiveUnchanged DEF Drop, Leave
<1>12. CASE Crash
  BY <1>12, LiveUnchanged DEF Crash, Active
<1>13. ASSUME NEW n \in Name, NEW t \in Texts \cup {Absent}, EditOutside(n, t) PROVE SavedIsLive'
  <2>1. \A q \in Reqs : pc[q] \notin {"install", "note", "snapshot", "record", "up"}
    BY <1>13, EditIsCalm
  <2> QED
    BY <1>13, <2>1 DEF EditOutside
<1>14. CASE DeleteProject
  BY <1>14, LiveUnchanged DEF DeleteProject
<1>15. CASE UNCHANGED vars
  BY <1>15, LiveUnchanged DEF vars
<1> QED
  BY <1>1, <1>2, <1>3, <1>4, <1>5, <1>6, <1>7, <1>8, <1>9, <1>10, <1>11, <1>12, <1>13,
     <1>14, <1>15 DEF Next, Rest

\* What is written over is noted before the lock is given back.
LEMMA KeptStep ==
    ASSUME Calm, Sane, Aimed, Kept, [Next]_vars
    PROVE  Kept'
<1> USE DEF path, save, spent, ghost, Steps, Ended, Sane, TypeOK, Held, HasLock, Kept
<1>1. ASSUME NEW r \in Reqs, Open(r) PROVE Kept'
  BY <1>1 DEF Open, Recorded
<1>2. ASSUME NEW r \in Reqs, Put(r) PROVE Kept'
  BY <1>2 DEF Put, Leave, Recorded
<1>3. ASSUME NEW r \in Reqs, Restore(r) PROVE Kept'
  BY <1>3 DEF Restore, Recorded
<1>4. ASSUME NEW r \in Reqs, LockAndRead(r) PROVE Kept'
  BY <1>4 DEF LockAndRead, Recorded
<1>5. ASSUME NEW r \in Reqs, Reject(r) PROVE Kept'
  BY <1>5 DEF Reject, Leave, Recorded
<1>6. ASSUME NEW r \in Reqs, Install(r) PROVE Kept'
  <2>1. /\ replaced' \subseteq replaced \cup {disk[r]} /\ pc[r] = "install" /\ pc' = [pc EXCEPT ![r] = "snapshot"]
        /\ UNCHANGED <<open, revs, disk>>
    BY <1>6, InstallIsLive DEF Install, Leave
  <2>2. \A q \in Reqs : pc[q] # "snapshot"
    BY <2>1
  <2> QED
    BY <2>1, <2>2 DEF Recorded
<1>7. ASSUME NEW r \in Reqs, SnapshotDisk(r) PROVE Kept'
  <2>1. /\ pc[r] \in {"note", "snapshot"} /\ lock = r /\ revs' = Noted(disk[r]) /\ disk[r] \in Text
        /\ UNCHANGED <<replaced, open, disk>> /\ replaced \subseteq Texts
    BY <1>7 DEF SnapshotDisk, Filled
  <2>2. Recorded \subseteq Recorded' /\ (disk[r] = Empty \/ disk[r] \in Recorded')
    BY ONLY <2>1, NotedIsHistory, Sane DEF Sane
  <2>3. \A q \in Reqs : pc[q] = "snapshot" => q = r
    BY <2>1
  <2> QED
    BY <2>1, <2>2, <2>3, ValuesAssumption
<1>8. ASSUME NEW r \in Reqs, Record(r) PROVE Kept'
  <2>1. /\ UNCHANGED <<replaced, open, disk>> /\ pc[r] = "record" /\ \A q \in Reqs : q # r => pc'[q] = pc[q]
    BY <1>8 DEF Record, Leave
  <2>2. Recorded \subseteq Recorded'
    BY <1>8, RecordAdds
  <2> QED
    BY <2>1, <2>2
<1>9. ASSUME NEW r \in Reqs, ComposeUp(r) PROVE Kept'
  BY <1>9 DEF ComposeUp, Leave, Recorded
<1>10. ASSUME NEW r \in Reqs, Fail(r) PROVE Kept'
  BY <1>10 DEF Fail, Leave, Calm, Recorded
<1>11. ASSUME NEW r \in Reqs, Drop(r) PROVE Kept'
  BY <1>11 DEF Drop, Leave, Recorded
<1>12. CASE Crash
  BY <1>12, BoundAssumption DEF Crash, Active, Calm, Recorded
<1>13. ASSUME NEW n \in Name, NEW t \in Texts \cup {Absent}, EditOutside(n, t) PROVE Kept'
  BY <1>13 DEF EditOutside, Recorded
<1>14. CASE DeleteProject
  BY <1>14 DEF DeleteProject, Recorded
<1>15. CASE UNCHANGED vars
  BY <1>15 DEF vars, Recorded
<1> QED
  BY <1>1, <1>2, <1>3, <1>4, <1>5, <1>6, <1>7, <1>8, <1>9, <1>10, <1>11, <1>12, <1>13,
     <1>14, <1>15 DEF Next, Rest

\* The history follows the file before the lock is given back.
LEMMA CurrentStep ==
    ASSUME Calm, Sane, Aimed, SavedIsLive, Current, [Next]_vars
    PROVE  Current'
<1> USE DEF path, save, spent, ghost, Steps, Ended, Sane, TypeOK, Held, HasLock, Current
<1>1. ASSUME NEW r \in Reqs, Open(r) PROVE Current'
  BY <1>1, LiveUnchanged DEF Open
<1>2. ASSUME NEW r \in Reqs, Put(r) PROVE Current'
  BY <1>2, LiveUnchanged DEF Put, Leave
<1>3. ASSUME NEW r \in Reqs, Restore(r) PROVE Current'
  BY <1>3, LiveUnchanged DEF Restore
<1>4. ASSUME NEW r \in Reqs, LockAndRead(r) PROVE Current'
  BY <1>4, LiveUnchanged DEF LockAndRead
<1>5. ASSUME NEW r \in Reqs, Reject(r) PROVE Current'
  BY <1>5, LiveUnchanged DEF Reject, Leave
<1>6. ASSUME NEW r \in Reqs, Install(r) PROVE Current'
  <2>1. written' = LiveText' /\ pc'[r] = "snapshot"
    BY <1>6, InstallIsLive DEF Install, Leave
  <2> QED
    BY <2>1
<1>7. ASSUME NEW r \in Reqs, SnapshotDisk(r) PROVE Current'
  <2>1. /\ pc[r] \in {"note", "snapshot"} /\ lock = r /\ revs' = Noted(disk[r])
        /\ pc[r] = "snapshot" => pc'[r] = "record"
        /\ UNCHANGED <<open, files, written>> /\ open
    BY <1>7 DEF SnapshotDisk, Leave
  <2>2. CASE pc[r] = "snapshot" \/ written = None
    BY <2>1, <2>2, LiveUnchanged
  <2>3. CASE pc[r] = "note" /\ written # None
    <3>1. \A q \in Reqs : pc[q] \notin {"snapshot", "record"}
      BY <2>1, <2>3
    <3>2. written = LiveText /\ revs # <<>> /\ revs[Len(revs)].text = written
      BY <2>1, <2>3, <3>1
    <3>3. disk[r] = written
      BY <2>3, <3>2 DEF Aimed
    <3>4. revs' = revs
      BY <2>1, <3>2, <3>3 DEF Noted
    <3> QED
      BY <2>1, <3>2, <3>4, LiveUnchanged
  <2> QED
    BY <2>1, <2>2, <2>3
<1>8. ASSUME NEW r \in Reqs, Record(r) PROVE Current'
  <2>1. pc[r] = "record" /\ LiveText = want[r] /\ UNCHANGED <<files, written>>
    BY <1>8 DEF Record, SavedIsLive
  <2>2. revs' # <<>> /\ revs'[Len(revs')].text = want[r]
    BY <1>8, RecordAdds
  <2> QED
    BY <2>1, <2>2, LiveUnchanged
<1>9. ASSUME NEW r \in Reqs, ComposeUp(r) PROVE Current'
  BY <1>9, LiveUnchanged DEF ComposeUp, Leave
<1>10. ASSUME NEW r \in Reqs, Fail(r) PROVE Current'
  BY <1>10, LiveUnchanged DEF Fail, Leave, Calm
<1>11. ASSUME NEW r \in Reqs, Drop(r) PROVE Current'
  BY <1>11, LiveUnchanged DEF Drop, Leave
<1>12. CASE Crash
  BY <1>12, BoundAssumption DEF Crash, Active, Calm
<1>13. ASSUME NEW n \in Name, NEW t \in Texts \cup {Absent}, EditOutside(n, t) PROVE Current'
  BY <1>13, LiveUnchanged DEF EditOutside
<1>14. CASE DeleteProject
  BY <1>14, LiveUnchanged DEF DeleteProject
<1>15. CASE UNCHANGED vars
  BY <1>15, LiveUnchanged DEF vars
<1> QED
  BY <1>1, <1>2, <1>3, <1>4, <1>5, <1>6, <1>7, <1>8, <1>9, <1>10, <1>11, <1>12, <1>13,
     <1>14, <1>15 DEF Next, Rest

\* All of it.
Faithful == Sane /\ Aimed /\ SavedIsLive /\ Kept /\ Current

\* It holds of every calm behaviour.
LEMMA AlwaysFaithful ==
    ASSUME Calm
    PROVE  Spec => []Faithful
<1>1. Init => Faithful
  BY InitSane DEF Init, Faithful, Aimed, SavedIsLive, Kept, Current, Steps
<1>2. Faithful /\ [Next]_vars => Faithful'
  BY NextSane, AimedStep, SavedStep, KeptStep, CurrentStep DEF Faithful
<1> QED
  BY <1>1, <1>2, PTL DEF Spec

\* save_compose_content: when no save is halfway, every text that was written
\* over is in the history; and a save past its rename has its text where the
\* editor finds the file.
THEOREM OverwrittenTextsAreKept ==
    ASSUME Calm
    PROVE  Spec => []ComposeIsKept
<1>1. Faithful => ComposeIsKept
  BY DEF Faithful, Kept, ComposeIsKept, OverwrittenIsKept
<1> QED
  BY <1>1, AlwaysFaithful, PTL

\* The history ends with the text of the file, until somebody else edits it.
THEOREM HistoryEndsWithTheFile ==
    ASSUME Calm
    PROVE  Spec => []LatestIsLive
<1>1. Faithful => LatestIsLive
  BY DEF Faithful, Current, LatestIsLive
<1> QED
  BY <1>1, AlwaysFaithful, PTL

-----------------------------------------------------------------------------
\* The parts of the types the arguments need.
Shape ==
    /\ step \in [Reqs -> {"idle", "verify", "hash", "purge"} \cup A!Ended]
    /\ kind \in [Reqs -> A!Kinds \cup {None}]
    /\ sessions \subseteq Reqs /\ issued \in [Reqs -> Nat] /\ changes \in Nat
    /\ failures \in 0..(MaxFailures - 1) /\ lockout \in {"open", "locked", "over"}
    /\ tries \in Nat /\ restarts \in Nat

\* The guesses on their way: the lockout let them pass.
Guessing == {r \in Reqs : step[r] = "verify" /\ kind[r] = "login"}

\* Before the lock every guess is a counted failure; from the lock on only
\* those on their way can still be answered.
FewActive == IsFiniteSet(A!Active) /\ Cardinality(A!Active) <= MaxActive
Counted ==
    /\ lockout = "open" => tries = failures
    /\ lockout = "over" => tries = 0
    /\ lockout = "locked" => tries + Cardinality(Guessing) < MaxFailures + MaxActive

Guarded == Shape /\ FewActive /\ Counted

Limits == MaxFailures \in Nat \ {0} /\ MaxActive \in Nat

\* The limits are what the program sets them to.
LEMMA LimitsHold == Limits
BY AccountAssumption DEF Limits
-----------------------------------------------------------------------------
\* At the start the account is at its own.
LEMMA AccountInit == UsersInit => A!Init
BY DEF UsersInit

\* A step of the users is one of the account, or leaves it as it is.
LEMMA AccountStep == [UsersNext]_all => [A!Next]_A!vars
BY DEF UsersNext, all, account, A!vars, A!guard, A!call

\* The instance counts as this module does.
LEMMA SameCount == \A S : A!Cardinality(S) = Cardinality(S) /\ A!IsFiniteSet(S) = IsFiniteSet(S)
BY DEF A!Cardinality, Cardinality, A!IsFiniteSet, IsFiniteSet

\* At the start nobody is logged in.
LEMMA InitShape == Limits /\ A!Init => Shape
BY DEF Limits, A!Init, Shape, A!Ended, A!Kinds

\* Every step keeps the types.
LEMMA NextShape == Limits /\ Shape /\ [A!Next]_A!vars => Shape'
<1> SUFFICES ASSUME Limits, Shape, [A!Next]_A!vars PROVE Shape'
  OBVIOUS
<1> USE DEF Limits, Shape, A!Ended, A!Kinds
<1>1. ASSUME NEW r \in Reqs, NEW k \in A!Kinds, NEW p, NEW n,
             NEW s \in {"verify", "hash"} \cup A!Ended, A!Begin(r, k, p, n, s),
             sessions' \subseteq Reqs, issued' \in [Reqs -> Nat]
      PROVE  Shape'
  BY <1>1 DEF A!Begin
<1>2. ASSUME NEW r \in Reqs, A!Login(r) PROVE Shape'
  BY <1>1, <1>2 DEF A!Login
<1>3. ASSUME NEW r \in Reqs, A!ChangePassword(r) PROVE Shape'
  <2>1. sessions' \subseteq Reqs /\ issued' = issued
    BY <1>3 DEF A!ChangePassword
  <2>2. \E p, n \in Passwords, s \in {"verify", "refused"} : A!Begin(r, "change", p, n, s)
    BY <1>3 DEF A!ChangePassword
  <2> QED
    BY <1>1, <2>1, <2>2
<1>4. ASSUME NEW r \in Reqs, A!ReplacePassword(r) PROVE Shape'
  BY <1>1, <1>4 DEF A!ReplacePassword
<1>5. ASSUME NEW r \in Reqs, A!IssueSessionCli(r) PROVE Shape'
  BY <1>1, <1>5 DEF A!IssueSessionCli, A!IssueSession
<1>6. ASSUME NEW r \in Reqs, A!VerifyLogin(r) PROVE Shape'
  BY <1>6 DEF A!VerifyLogin, A!IssueSession, A!RecordFailure, A!call
<1>7. ASSUME NEW r \in Reqs, A!VerifyChange(r) \/ A!UpdateHash(r) \/ A!DeleteSessions(r) PROVE Shape'
  BY <1>7 DEF A!VerifyChange, A!UpdateHash, A!DeleteSessions, A!guard, A!call
<1>8. ASSUME NEW r \in Reqs, A!EndSession(r) \/ A!Idle(r) PROVE Shape'
  BY <1>8 DEF A!EndSession, A!Idle, A!guard, A!call
<1>9. CASE A!LockExpires
  BY <1>9 DEF A!LockExpires, A!call
<1>10. CASE A!Restart
  BY <1>10 DEF A!Restart, A!Active, A!call
<1>11. CASE UNCHANGED A!vars
  BY <1>11 DEF A!vars, A!guard, A!call
<1> QED
  BY <1>2, <1>3, <1>4, <1>5, <1>6, <1>7, <1>8, <1>9, <1>10, <1>11 DEF A!Next, A!Rest

-----------------------------------------------------------------------------
\* A step from "purge" to no such step is the one that deletes all sessions.
LEMMA NextOldSessionsEnd == Shape /\ Shape' /\ A!OldSessionsEnd /\ [A!Next]_A!vars => A!OldSessionsEnd'
<1> SUFFICES ASSUME Shape, Shape', A!OldSessionsEnd, [A!Next]_A!vars, restarts' = 0,
                    \A r \in Reqs : step'[r] # "purge"
             PROVE  \A s \in sessions' : issued'[s] = changes'
  BY DEF A!OldSessionsEnd
<1> USE DEF Shape, A!Ended
<1>1. ASSUME restarts' = restarts, \A r \in Reqs : step[r] = "purge" => step'[r] = "purge",
             UNCHANGED changes,
             \A s \in sessions' : issued'[s] = changes \/ (s \in sessions /\ issued'[s] = issued[s])
      PROVE  \A s \in sessions' : issued'[s] = changes'
  BY <1>1 DEF A!OldSessionsEnd
<1>2. ASSUME NEW r \in Reqs, NEW k, NEW p, NEW n, NEW s, A!Begin(r, k, p, n, s)
      PROVE  /\ restarts' = restarts /\ UNCHANGED changes
             /\ \A q \in Reqs : step[q] = "purge" => step'[q] = "purge"
  BY <1>2 DEF A!Begin
<1>3. ASSUME NEW r \in Reqs, A!Login(r) PROVE \A s \in sessions' : issued'[s] = changes'
  BY <1>1, <1>2, <1>3 DEF A!Login
<1>4. ASSUME NEW r \in Reqs, A!ChangePassword(r) PROVE \A s \in sessions' : issued'[s] = changes'
  <2>1. sessions' \subseteq sessions /\ issued' = issued
    BY <1>4 DEF A!ChangePassword
  <2>2. restarts' = restarts /\ UNCHANGED changes /\ \A q \in Reqs : step[q] = "purge" => step'[q] = "purge"
    BY <1>2, <1>4 DEF A!ChangePassword
  <2> QED
    BY <1>1, <2>1, <2>2
<1>5. ASSUME NEW r \in Reqs, A!ReplacePassword(r) PROVE \A s \in sessions' : issued'[s] = changes'
  BY <1>1, <1>2, <1>5 DEF A!ReplacePassword
<1>6. ASSUME NEW r \in Reqs, A!IssueSessionCli(r) PROVE \A s \in sessions' : issued'[s] = changes'
  BY <1>1, <1>2, <1>6 DEF A!IssueSessionCli, A!IssueSession
<1>7. ASSUME NEW r \in Reqs, A!VerifyLogin(r) PROVE \A s \in sessions' : issued'[s] = changes'
  BY <1>1, <1>7 DEF A!VerifyLogin, A!IssueSession, A!RecordFailure
<1>8. ASSUME NEW r \in Reqs, A!VerifyChange(r) PROVE \A s \in sessions' : issued'[s] = changes'
  BY <1>1, <1>8 DEF A!VerifyChange
<1>9. ASSUME NEW r \in Reqs, A!UpdateHash(r) PROVE FALSE
  BY <1>9 DEF A!UpdateHash
<1>10. ASSUME NEW r \in Reqs, A!DeleteSessions(r) PROVE \A s \in sessions' : issued'[s] = changes'
  BY <1>10 DEF A!DeleteSessions
<1>11. ASSUME NEW r \in Reqs, A!EndSession(r) \/ A!Idle(r) PROVE \A s \in sessions' : issued'[s] = changes'
  BY <1>1, <1>11 DEF A!EndSession, A!Idle
<1>12. CASE A!LockExpires
  BY <1>1, <1>12 DEF A!LockExpires
<1>13. CASE A!Restart
  BY <1>13 DEF A!Restart
<1>14. CASE UNCHANGED A!vars
  BY <1>1, <1>14 DEF A!vars
<1> QED
  BY <1>3, <1>4, <1>5, <1>6, <1>7, <1>8, <1>9, <1>10, <1>11, <1>12, <1>13, <1>14 DEF A!Next, A!Rest

\* auth.rs change_password, cluster/server.rs auth_sync, main.rs reset_password:
\* when no change is halfway, and the server has not been stopped in one, every
\* session there is was made under the password that is stored.
THEOREM OldLoginsEnd == UsersSpec => []OldSessionsEnd
<1> USE LimitsHold
<1>1. A!Init => Shape /\ A!OldSessionsEnd
  BY InitShape DEF A!Init, A!OldSessionsEnd
<1>2. Shape /\ A!OldSessionsEnd /\ [A!Next]_A!vars => (Shape /\ A!OldSessionsEnd)'
  BY NextShape, NextOldSessionsEnd
<1> QED
  BY <1>1, <1>2, AccountInit, AccountStep, PTL DEF UsersSpec, OldSessionsEnd

-----------------------------------------------------------------------------
\* The guesses on their way are among the requests in progress.
LEMMA GuessingIsActive ==
    ASSUME Shape, FewActive
    PROVE  /\ Guessing \subseteq A!Active /\ IsFiniteSet(Guessing)
           /\ Cardinality(Guessing) \in Nat /\ Cardinality(A!Active) \in Nat
           /\ Cardinality(Guessing) <= Cardinality(A!Active)
<1>1. Guessing \subseteq A!Active
  BY DEF Guessing, A!Active, A!Ended
<1> QED
  BY <1>1, FS_Subset, FS_CardinalityType DEF FewActive

\* Requests end, or one begins while there are not too many.
LEMMA ActiveStaysFew ==
    ASSUME Limits, FewActive,
           \/ A!Active' \subseteq A!Active
           \/ Cardinality(A!Active) < MaxActive /\ \E r \in Reqs : A!Active' \subseteq A!Active \cup {r}
    PROVE  FewActive'
<1>1. CASE A!Active' \subseteq A!Active
  BY <1>1, FS_Subset, FS_CardinalityType DEF FewActive, Limits
<1>2. ASSUME NEW r \in Reqs, Cardinality(A!Active) < MaxActive, A!Active' \subseteq A!Active \cup {r}
      PROVE  FewActive'
  <2>1. IsFiniteSet(A!Active \cup {r}) /\ Cardinality(A!Active \cup {r}) <= MaxActive
    BY <1>2, FS_AddElement, FS_CardinalityType DEF FewActive, Limits
  <2> QED
    BY <1>2, <2>1, FS_Subset, FS_CardinalityType DEF FewActive, Limits
<1> QED
  BY <1>1, <1>2

\* The account stays as open as it is, and no guess comes on its way that a
\* lock would have refused.
LEMMA CountStays ==
    ASSUME Limits, Guarded, UNCHANGED A!guard, lockout = "locked" => Guessing' \subseteq Guessing
    PROVE  Counted'
<1>1. lockout = "locked" => Cardinality(Guessing') \in Nat /\ Cardinality(Guessing') <= Cardinality(Guessing)
  BY GuessingIsActive, FS_Subset, FS_CardinalityType DEF Guarded
<1> QED
  BY <1>1, GuessingIsActive DEF Guarded, Counted, Shape, A!guard, Limits

\* A guess is answered.
LEMMA GuessCounted ==
    ASSUME Limits, Guarded, NEW r \in Reqs, A!VerifyLogin(r)
    PROVE  FewActive' /\ Counted'
<1> USE DEF Guarded, Limits
<1>1. /\ r \in Guessing /\ step[r] = "verify" /\ UNCHANGED kind
      /\ step'[r] \in {"ok", "failed"} /\ \A q \in Reqs : q # r => step'[q] = step[q]
  BY DEF A!VerifyLogin, Guessing, Shape, A!call
<1>2. A!Active' \subseteq A!Active /\ Guessing' = Guessing \ {r}
  BY <1>1 DEF A!Active, Guessing, A!Ended
<1>3. Cardinality(Guessing') = Cardinality(Guessing) - 1
  BY <1>1, <1>2, GuessingIsActive, FS_RemoveElement
<1>4. ASSUME failures' = 0, lockout' = "open", tries' = 0 PROVE Counted'
  BY <1>4 DEF Counted
<1>5. ASSUME A!RecordFailure PROVE Counted'
  <2>1. Cardinality(Guessing) \in Nat /\ Cardinality(Guessing) <= MaxActive
    BY GuessingIsActive DEF FewActive
  <2>2. tries' = tries + 1 /\ lockout' \in {"open", "locked"}
    BY <1>5 DEF A!RecordFailure, Shape
  <2>3. lockout' = "open" => tries' = failures'
    BY <1>5 DEF A!RecordFailure, Shape, Counted
  <2>4. lockout' = "locked" => lockout = "locked" \/ tries + 1 <= MaxFailures
    BY <1>5 DEF A!RecordFailure, Shape, Counted
  <2>5. lockout' = "locked" => tries + 1 + Cardinality(Guessing) - 1 < MaxFailures + MaxActive
    BY <2>1, <2>4 DEF Shape, Counted
  <2> QED
    BY <1>3, <2>1, <2>2, <2>3, <2>5 DEF Counted, Shape
<1>6. Counted'
  BY <1>4, <1>5 DEF A!VerifyLogin
<1> QED
  BY <1>2, <1>6, ActiveStaysFew

\* A request begins: only a login is a guess, and none that a lock refuses.
LEMMA BeginCounted ==
    ASSUME Limits, Guarded, NEW r \in Reqs, NEW k \in A!Kinds, NEW p, NEW n,
           NEW s \in {"verify", "hash"} \cup A!Ended, A!Begin(r, k, p, n, s),
           k = "login" => (lockout = "locked" => s # "verify")
    PROVE  FewActive' /\ Counted'
<1>1. /\ step' = [step EXCEPT ![r] = s] /\ kind' = [kind EXCEPT ![r] = k]
      /\ Cardinality(A!Active) < MaxActive /\ UNCHANGED A!guard
  BY SameCount DEF A!Begin, A!guard
<1>2. A!Active' \subseteq A!Active \cup {r}
  BY <1>1 DEF A!Active, Guarded, Shape
<1>3. lockout = "locked" => Guessing' \subseteq Guessing
  BY <1>1 DEF Guessing, Guarded, Shape
<1> QED
  BY <1>1, <1>2, <1>3, ActiveStaysFew, CountStays DEF Guarded

\* Every step keeps the count.
LEMMA NextGuarded == Limits /\ Guarded /\ [A!Next]_A!vars => Guarded'
<1> SUFFICES ASSUME Limits, Guarded, [A!Next]_A!vars PROVE FewActive' /\ Counted'
  BY NextShape DEF Guarded
<1>1. ASSUME NEW r \in Reqs, A!Login(r) PROVE FewActive' /\ Counted'
  BY <1>1, BeginCounted DEF A!Login, A!Kinds, A!Ended
<1>2. ASSUME NEW r \in Reqs, A!ChangePassword(r) PROVE FewActive' /\ Counted'
  <2>1. \E p, n \in Passwords, s \in {"verify", "refused"} : A!Begin(r, "change", p, n, s)
    BY <1>2 DEF A!ChangePassword
  <2> QED
    BY <2>1, BeginCounted DEF A!Kinds, A!Ended
<1>3. ASSUME NEW r \in Reqs, A!ReplacePassword(r) \/ A!IssueSessionCli(r) PROVE FewActive' /\ Counted'
  BY <1>3, BeginCounted DEF A!ReplacePassword, A!IssueSessionCli, A!Kinds, A!Ended
<1>4. ASSUME NEW r \in Reqs, A!VerifyLogin(r) PROVE FewActive' /\ Counted'
  BY <1>4, GuessCounted
<1>5. ASSUME A!Active' \subseteq A!Active, Guessing' \subseteq Guessing, UNCHANGED A!guard
      PROVE  FewActive' /\ Counted'
  BY <1>5, ActiveStaysFew, CountStays DEF Guarded
<1>6. ASSUME NEW r \in Reqs, A!VerifyChange(r) \/ A!UpdateHash(r) \/ A!DeleteSessions(r)
      PROVE  FewActive' /\ Counted'
  <2>1. /\ step[r] \in {"verify", "hash", "purge"} /\ (step[r] = "verify" => kind[r] # "login")
        /\ step'[r] # "verify" /\ (\A q \in Reqs : q # r => step'[q] = step[q]) /\ UNCHANGED <<kind, A!guard>>
    BY <1>6 DEF A!VerifyChange, A!UpdateHash, A!DeleteSessions, A!call, Guarded, Shape
  <2>2. A!Active' \subseteq A!Active /\ Guessing' \subseteq Guessing
    BY <2>1 DEF A!Active, Guessing, A!Ended
  <2> QED
    BY <1>5, <2>1, <2>2
<1>7. ASSUME NEW r \in Reqs, A!EndSession(r) \/ A!Idle(r) PROVE FewActive' /\ Counted'
  BY <1>5, <1>7 DEF A!EndSession, A!Idle, A!Active, Guessing, A!call
<1>8. CASE A!LockExpires
  <2>1. A!Active' = A!Active
    BY <1>8 DEF A!LockExpires, A!Active
  <2> QED
    BY <1>8, <2>1, ActiveStaysFew DEF A!LockExpires, Counted, Guarded
<1>9. CASE A!Restart
  <2>1. A!Active' \subseteq A!Active
    BY <1>9 DEF A!Restart, A!Active, A!Ended
  <2> QED
    BY <1>9, <2>1, ActiveStaysFew DEF A!Restart, Counted, Guarded
<1>10. CASE UNCHANGED A!vars
  BY <1>5, <1>10 DEF A!vars, A!call, A!Active, Guessing
<1> QED
  BY <1>1, <1>2, <1>3, <1>4, <1>6, <1>7, <1>8, <1>9, <1>10 DEF A!Next, A!Rest

\* state.rs LoginGuard and auth.rs login: however many requests there are, the
\* guesses answered between two openings of the account are fewer than the
\* limit and the requests in progress together.
THEOREM GuessesAreFew == UsersSpec => []GuessBudget
<1> USE LimitsHold
<1>1. A!Init => Guarded
  <2> SUFFICES ASSUME A!Init PROVE Guarded
    OBVIOUS
  <2>1. A!Active = {}
    BY DEF A!Init, A!Active
  <2> QED
    BY <2>1, InitShape, FS_EmptySet DEF A!Init, Guarded, FewActive, Counted, Limits
<1>2. Guarded /\ [A!Next]_A!vars => Guarded'
  BY NextGuarded
<1>3. Guarded => A!GuessBudget
  BY GuessingIsActive DEF Guarded, Counted, Shape, A!GuessBudget, Limits
<1> QED
  BY <1>1, <1>2, <1>3, AccountInit, AccountStep, PTL DEF UsersSpec, GuessBudget
-----------------------------------------------------------------------------
\* What the account holds.  A change that is on its way has a new password.
Filling ==
    /\ stored \in Passwords /\ stale \subseteq sessions
    /\ given \in [Reqs -> Passwords \cup {None}] /\ seen \in [Reqs -> Passwords \cup {None}]
    /\ fresh \in [Reqs -> Passwords \cup {None}]
    /\ restarts <= MaxRestarts
    /\ \A r \in Reqs : step[r] = "hash" \/ (step[r] = "verify" /\ kind[r] = "change") => fresh[r] \in Passwords

\* A request changes the password once, and does not come back.
Past == {r \in Reqs : step[r] \in {"purge"} \cup A!Ended}
ChangesCounted == changes <= Cardinality(Past)

AccountSane == Shape /\ Filling /\ ChangesCounted

\* Every step keeps what the account holds.
LEMMA NextFilling ==
    ASSUME Shape, Filling, [A!Next]_A!vars
    PROVE  Filling'
<1> USE AccountAssumption DEF Shape, Filling, A!Ended, A!Kinds
<1>1. ASSUME NEW r \in Reqs, NEW k, NEW p \in Passwords \cup {None}, NEW n \in Passwords \cup {None}, NEW s,
             A!Begin(r, k, p, n, s), stale' \subseteq sessions',
             s = "hash" \/ (s = "verify" /\ k = "change") => n \in Passwords
      PROVE  Filling'
  <2>1. /\ stored' = stored /\ restarts' = restarts
        /\ kind' = [kind EXCEPT ![r] = k] /\ given' = [given EXCEPT ![r] = p] /\ fresh' = [fresh EXCEPT ![r] = n]
        /\ seen' = [seen EXCEPT ![r] = stored] /\ step' = [step EXCEPT ![r] = s]
    BY <1>1 DEF A!Begin
  <2> QED
    BY <1>1, <2>1
<1>2. ASSUME NEW r \in Reqs, A!Login(r) PROVE Filling'
  <2>1. PICK p \in Passwords, s \in {"refused", "verify"} : A!Begin(r, "login", p, None, s)
    BY <1>2 DEF A!Login
  <2>2. stale' \subseteq sessions'
    BY <1>2 DEF A!Login
  <2> QED
    BY <1>1, <2>1, <2>2
<1>3. ASSUME NEW r \in Reqs, A!ChangePassword(r) PROVE Filling'
  <2>1. PICK p, n \in Passwords, s \in {"verify", "refused"} : A!Begin(r, "change", p, n, s)
    BY <1>3 DEF A!ChangePassword
  <2>2. stale' \subseteq sessions'
    BY <1>3 DEF A!ChangePassword
  <2> QED
    BY <1>1, <2>1, <2>2
<1>4. ASSUME NEW r \in Reqs, A!ReplacePassword(r) PROVE Filling'
  <2>1. PICK k \in {"sync", "cli"}, n \in Passwords : A!Begin(r, k, None, n, "hash")
    BY <1>4 DEF A!ReplacePassword
  <2>2. stale' \subseteq sessions'
    BY <1>4 DEF A!ReplacePassword
  <2> QED
    BY <1>1, <2>1, <2>2
<1>5. ASSUME NEW r \in Reqs, A!IssueSessionCli(r) PROVE Filling'
  BY <1>1, <1>5 DEF A!IssueSessionCli, A!IssueSession
<1>6. ASSUME NEW r \in Reqs, A!VerifyLogin(r) PROVE Filling'
  <2>1. /\ UNCHANGED <<stored, given, seen, fresh, kind, restarts>> /\ stale' \subseteq sessions'
        /\ step' = [step EXCEPT ![r] = "ok"] \/ step' = [step EXCEPT ![r] = "failed"]
    BY <1>6 DEF A!VerifyLogin, A!IssueSession, A!call
  <2> QED
    BY <2>1
<1>7. ASSUME NEW r \in Reqs, A!VerifyChange(r) \/ A!UpdateHash(r) \/ A!DeleteSessions(r) PROVE Filling'
  BY <1>7 DEF A!VerifyChange, A!UpdateHash, A!DeleteSessions, A!guard, A!call
<1>8. ASSUME NEW r \in Reqs, A!EndSession(r) \/ A!Idle(r) PROVE Filling'
  BY <1>8 DEF A!EndSession, A!Idle, A!guard, A!call
<1>9. CASE A!LockExpires
  BY <1>9 DEF A!LockExpires, A!call
<1>10. CASE A!Restart
  BY <1>10 DEF A!Restart, A!Active, A!call
<1>11. CASE UNCHANGED A!vars
  BY <1>11 DEF A!vars, A!guard, A!call
<1> QED
  BY <1>2, <1>3, <1>4, <1>5, <1>6, <1>7, <1>8, <1>9, <1>10, <1>11 DEF A!Next, A!Rest

\* No request that is past its change is at an earlier step again.
LEMMA PastGrows ==
    ASSUME Shape, [A!Next]_A!vars
    PROVE  /\ Past \subseteq Past'
           /\ changes' = changes \/ (changes' = changes + 1 /\ \E r \in Past' : r \notin Past)
<1> USE DEF Shape, A!Ended, Past
<1>1. ASSUME NEW r \in Reqs, NEW k, NEW p, NEW n, NEW s, A!Begin(r, k, p, n, s)
      PROVE  Past \subseteq Past' /\ changes' = changes
  BY <1>1 DEF A!Begin
<1>2. ASSUME NEW r \in Reqs, A!Login(r) \/ A!ChangePassword(r) \/ A!ReplacePassword(r) \/ A!IssueSessionCli(r)
      PROVE  Past \subseteq Past' /\ changes' = changes
  BY <1>1, <1>2 DEF A!Login, A!ChangePassword, A!ReplacePassword, A!IssueSessionCli
<1>3. ASSUME NEW r \in Reqs, A!VerifyLogin(r) \/ A!VerifyChange(r) \/ A!DeleteSessions(r)
      PROVE  Past \subseteq Past' /\ changes' = changes
  BY <1>3 DEF A!VerifyLogin, A!VerifyChange, A!DeleteSessions
<1>4. ASSUME NEW r \in Reqs, A!UpdateHash(r)
      PROVE  Past \subseteq Past' /\ changes' = changes + 1 /\ r \in Past' /\ r \notin Past
  BY <1>4 DEF A!UpdateHash
<1>5. ASSUME NEW r \in Reqs, A!EndSession(r) \/ A!Idle(r) PROVE Past \subseteq Past' /\ changes' = changes
  BY <1>5 DEF A!EndSession, A!Idle
<1>6. CASE A!LockExpires
  BY <1>6 DEF A!LockExpires
<1>7. CASE A!Restart
  BY <1>7 DEF A!Restart, A!Active
<1>8. CASE UNCHANGED A!vars
  BY <1>8 DEF A!vars
<1> QED
  BY <1>2, <1>3, <1>4, <1>5, <1>6, <1>7, <1>8 DEF A!Next, A!Rest

\* So the password is not changed more often than there are requests past it.
LEMMA NextCounted ==
    ASSUME Shape, ChangesCounted, [A!Next]_A!vars
    PROVE  ChangesCounted'
<1>1. \A S : S \subseteq Reqs => IsFiniteSet(S) /\ Cardinality(S) \in Nat
  BY AccountAssumption, FS_Subset, FS_CardinalityType
<1>2. Past \subseteq Reqs /\ Past' \subseteq Reqs /\ changes \in Nat
  BY DEF Past, Shape
<1>3. CASE changes' = changes
  <2>1. Cardinality(Past) <= Cardinality(Past')
    BY <1>1, <1>2, PastGrows, FS_Subset
  <2> QED
    BY <1>1, <1>2, <1>3, <2>1 DEF ChangesCounted
<1>4. ASSUME NEW r \in Past', r \notin Past, changes' = changes + 1 PROVE ChangesCounted'
  <2>1. Cardinality(Past \cup {r}) = Cardinality(Past) + 1
    BY <1>1, <1>2, <1>4, FS_AddElement
  <2>2. Past \cup {r} \subseteq Past'
    BY <1>4, PastGrows
  <2>3. Cardinality(Past \cup {r}) <= Cardinality(Past')
    BY <1>1, <1>2, <2>2, FS_Subset
  <2>4. Cardinality(Past) \in Nat /\ Cardinality(Past') \in Nat
    BY <1>1, <1>2
  <2> QED
    BY <1>2, <1>4, <2>1, <2>3, <2>4 DEF ChangesCounted
<1> QED
  BY <1>3, <1>4, PastGrows

\* What is held and counted has the types.
LEMMA AccountTyped == AccountSane => A!TypeOK
<1> SUFFICES ASSUME AccountSane PROVE A!TypeOK
  OBVIOUS
<1>1. Past \subseteq Reqs
  BY DEF Past
<1>2. /\ IsFiniteSet(Past) /\ Cardinality(Past) \in Nat /\ Cardinality(Reqs) \in Nat
      /\ Cardinality(Past) <= Cardinality(Reqs)
  BY <1>1, AccountAssumption, FS_Subset, FS_CardinalityType
<1>3. changes \in Nat /\ changes <= Cardinality(Past)
  BY DEF AccountSane, Shape, ChangesCounted
<1>4. changes \in 0..A!Cardinality(Reqs)
  BY <1>2, <1>3, SameCount
<1>5. restarts \in 0..MaxRestarts
  BY AccountAssumption DEF AccountSane, Shape, Filling
<1> QED
  BY <1>4, <1>5 DEF AccountSane, Shape, Filling, A!TypeOK

\* The editor keeps its types, the account its own; a request of the one does
\* nothing to the other.
LEMMA EditorStep == [UsersNext]_all => [Next]_vars
BY DEF UsersNext, all

\* api.rs save_compose_content, auth.rs, state.rs LoginGuard: the file and the
\* account keep their types, and no request changes the password twice.
THEOREM TypesAreKept == UsersSpec => []TypesHold
<1>1. UsersInit => Sane /\ AccountSane
  <2> SUFFICES ASSUME UsersInit PROVE Sane /\ AccountSane
    OBVIOUS
  <2>1. Sane
    BY InitSane DEF UsersInit
  <2>2. A!Init
    BY AccountInit
  <2>3. Shape
    BY <2>2, InitShape, LimitsHold
  <2>4. Filling
    BY <2>2, AccountAssumption DEF A!Init, Filling
  <2>5. Cardinality(Past) \in Nat
    BY AccountAssumption, FS_Subset, FS_CardinalityType DEF Past
  <2>6. ChangesCounted
    BY <2>2, <2>5 DEF A!Init, ChangesCounted
  <2> QED
    BY <2>1, <2>3, <2>4, <2>6 DEF AccountSane
<1>2. Sane /\ AccountSane /\ [UsersNext]_all => (Sane /\ AccountSane)'
  <2> SUFFICES ASSUME Sane, AccountSane, [UsersNext]_all PROVE (Sane /\ AccountSane)'
    OBVIOUS
  <2>1. Sane'
    BY EditorStep, NextSane
  <2>2. [A!Next]_A!vars
    BY AccountStep
  <2>3. Shape' /\ Filling' /\ ChangesCounted'
    BY <2>2, NextShape, NextFilling, NextCounted, LimitsHold DEF AccountSane
  <2> QED
    BY <2>1, <2>3 DEF AccountSane
<1>3. Sane /\ AccountSane => TypesHold
  BY AccountTyped DEF Sane, TypesHold
<1> QED
  BY <1>1, <1>2, <1>3, PTL DEF UsersSpec
=============================================================================
