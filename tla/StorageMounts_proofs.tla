------------------------ MODULE StorageMounts_proofs ------------------------
(***************************************************************************)
(* The last word on a mount point, for any hosts, storages and requests.   *)
(* A file that a job has truncated and will fill again still counts as     *)
(* holding its lines (Line, Share); what is last wanted of a directory is  *)
(* what the file holds, or what a job at that file is about to make of it. *)
(***************************************************************************)
EXTENDS StorageMounts, FiniteSetTheorems, TLAPS

Jobs == Calls \cup {Installer}
Rows  == [src : Sources, status : {"defined", "deployed", "shared", "error"}]
Asked == [kind : Requests \cup {"share"}, s : Storages, src : Sources, todo : SUBSET Hosts,
          target : Hosts \cup {None}, at : Hosts \cup {None}, failed : BOOLEAN]
Works == [op : {"share", "mount", "unmount", "swapoff"}, s : Storages \cup {"swap"},
          src : Sources \cup {"swap"}, seen : SUBSET (Lines \cup Storages),
          at : {"check", "do", "read", "append", "write", "fill"}]

Shape ==
    /\ row \in [Storages -> Rows \cup {None}] /\ req \in [Calls -> Asked \cup {None}]
    /\ job \in [Jobs -> [Hosts -> Works \cup {None}]]
    /\ mounted \in [Hosts -> [Storages -> Sources \cup {None}]]
    /\ fstab \in [Hosts -> SUBSET Lines] /\ smb \in [Hosts -> SUBSET Storages]
    /\ want \in [Hosts -> [Storages -> {"mount", "unmount", "share", None}]]
    /\ edited \in [Storages -> Sources]

\* Whose a job is, and the steps of its kind.
Sane(c, h) ==
    job[c][h] # None =>
        /\ job[c][h].op = "share" => h = Owner /\ job[c][h].at \in {"read", "write", "fill"}
        /\ job[c][h].seen \subseteq IF job[c][h].op = "share" THEN Storages ELSE Lines
        /\ job[c][h].op = "unmount" => job[c][h].at # "append"
        /\ job[c][h].op = "swapoff" => job[c][h].at \in {"read", "write"}
        /\ IF c = Installer THEN job[c][h].op = "swapoff"
           ELSE job[c][h].op # "swapoff" /\ job[c][h].s \in Storages /\ job[c][h].src \in Sources

\* A job that has truncated one of the two files.
Fills(d, h)  == job[d][h] # None /\ job[d][h].at = "fill"
AtSmb(d, h) == job[d][h].op = "share"

\* What the two files hold, or are about to hold again.
LineBy(d, h, s)  == Fills(d, h) /\ ~AtSmb(d, h) /\ Of(Kept(d, h), s) # {}
ShareBy(d, h, s) == Fills(d, h) /\ AtSmb(d, h) /\ s \in Kept(d, h)
Line(h, s)  == Of(fstab[h], s) # {} \/ \E d \in Jobs : LineBy(d, h, s)
Share(h, s) == s \in smb[h] \/ \E d \in Jobs : ShareBy(d, h, s)

\* A job that will write the line of a storage; one that has only to fill the file.
ComingBy(d, h, s) == /\ job[d][h] # None /\ job[d][h].op = "mount" /\ job[d][h].s = s
                     /\ job[d][h].at \in {"read", "append", "write"}
EndingBy(d, h, s, op) == Fills(d, h) /\ job[d][h].op = op /\ job[d][h].s = s
Coming(h, s) == \E d \in Jobs : ComingBy(d, h, s)
Finishing(h, s, op) == \E d \in Jobs : EndingBy(d, h, s, op)

\* On a host that is not torn: a file is truncated by one job alone; what is
\* being left is not mounted; what is mounted has its line, or will have it; and
\* the last word holds but for what a job is about to do.
Single(h) ==
    \A c \in Jobs : Fills(c, h) =>
        /\ File(c, h) = {}
        /\ \A d \in Jobs \ {c} : ~(Fills(d, h) /\ AtSmb(d, h) = AtSmb(c, h))
Left(h)   == \A s \in Storages : Leaving(h, s) => mounted[h][s] = None
Mounted(h) == \A s \in Storages : mounted[h][s] # None => Line(h, s) \/ Coming(h, s)
Wanted(h) ==
    \A s \in Storages :
        /\ want[h][s] = "mount" => Line(h, s) \/ Coming(h, s) \/ Finishing(h, s, "unmount")
        /\ want[h][s] = "unmount" => ~Line(h, s) \/ Finishing(h, s, "mount")
        /\ want[h][s] = "share" => Share(h, s)
Holds(h) == h \notin torn => Single(h) /\ Left(h) /\ Mounted(h) /\ Wanted(h)

\* What a request will write back is what was last edited.
Latest(c) ==
    req[c] # None /\ req[c].s \notin raced /\ row[req[c].s] # None => req[c].src = edited[req[c].s]

Inv ==
    /\ Shape
    /\ \A c \in Jobs, h \in Hosts : Sane(c, h)
    /\ \A h \in Hosts : Holds(h)
    /\ \A c \in Calls : Latest(c)
    /\ EditsStay

Setting ==
    /\ Owner \in Hosts /\ Shares \subseteq Storages /\ \A t \in Targets : t \subseteq Hosts
    /\ Installer \notin Calls /\ "swap" \notin Storages
    /\ None \notin Rows \cup Asked \cup Works \cup {"mount", "unmount", "share"}
-----------------------------------------------------------------------------
\* Nothing is wanted yet.
LEMMA InitInv == Setting /\ Init => Inv
<1> SUFFICES ASSUME Setting, Init PROVE Inv
  OBVIOUS
<1>1. Shape
  BY DEF Init, Shape, Rows, Jobs, Lines, Setting
<1>2. \A c \in Jobs, h \in Hosts : job[c][h] = None
  BY DEF Init, Jobs
<1>3. \A h \in Hosts : Holds(h)
  BY <1>2 DEF Init, Holds, Single, Left, Mounted, Wanted, Fills, Leaving, Jobs, Setting
<1> QED
  BY <1>1, <1>2, <1>3 DEF Inv, Sane, Latest, EditsStay, Init

\* A job that has nothing to do with what the host's files hold.
Matters(w) == w # None /\ w.at \notin {"check", "do"} /\ (w.op \in {"mount", "unmount"} \/ w.at = "fill")
Same(d, h) == Matters(job[d][h]) \/ Matters(job[d][h])' => job'[d][h] = job[d][h]

LeavingBy(d, h, s) == /\ job[d][h] # None /\ job[d][h].op = "unmount" /\ job[d][h].s = s
                      /\ job[d][h].at \notin {"check", "do"}

\* What a job does that does not matter, or that stays as it is.
LEMMA SameActs ==
    ASSUME Shape, Shape', NEW h \in Hosts, NEW d \in Jobs, Same(d, h)
    PROVE  /\ Fills(d, h)' = Fills(d, h)
           /\ Fills(d, h) => AtSmb(d, h)' = AtSmb(d, h)
           /\ \A s \in Storages :
                 /\ LineBy(d, h, s)' = LineBy(d, h, s) /\ ShareBy(d, h, s)' = ShareBy(d, h, s)
                 /\ ComingBy(d, h, s)' = ComingBy(d, h, s) /\ LeavingBy(d, h, s)' = LeavingBy(d, h, s)
                 /\ \A op : EndingBy(d, h, s, op)' = EndingBy(d, h, s, op)
<1>1. Fills(d, h)' \/ Fills(d, h) => job'[d][h] = job[d][h] /\ job[d][h] # None
  BY DEF Same, Matters, Fills
<1>2. Fills(d, h)' = Fills(d, h)
  BY <1>1 DEF Fills
<1>3. Fills(d, h) => Kept(d, h)' = Kept(d, h) /\ AtSmb(d, h)' = AtSmb(d, h)
  BY <1>1 DEF Kept, Desired, AtSmb
<1>4. ASSUME NEW s \in Storages
      PROVE  ComingBy(d, h, s)' = ComingBy(d, h, s) /\ LeavingBy(d, h, s)' = LeavingBy(d, h, s)
  BY DEF ComingBy, LeavingBy, Same, Matters
<1>5. ASSUME NEW s \in Storages
      PROVE  /\ LineBy(d, h, s)' = LineBy(d, h, s) /\ ShareBy(d, h, s)' = ShareBy(d, h, s)
             /\ \A op : EndingBy(d, h, s, op)' = EndingBy(d, h, s, op)
  BY <1>1, <1>2, <1>3 DEF LineBy, ShareBy, EndingBy
<1> QED
  BY <1>2, <1>3, <1>4, <1>5

\* A directory is being left by some job.
LEMMA LeavingIsBy ==
    ASSUME Shape, NEW h, NEW s
    PROVE  Leaving(h, s) <=> \E d \in Jobs : LeavingBy(d, h, s)
BY DEF Shape, Leaving, LeavingBy

\* Of a host that is not torn: what its lines are.
LEMMA OneLine ==
    ASSUME NEW h \in Hosts, Single(h), NEW s \in Storages
    PROVE  /\ (\A d \in Jobs : Fills(d, h) => AtSmb(d, h)) => (Line(h, s) <=> Of(fstab[h], s) # {})
           /\ \A d \in Jobs : Fills(d, h) /\ ~AtSmb(d, h) =>
                 fstab[h] = {} /\ (Line(h, s) <=> Of(Kept(d, h), s) # {})
<1>1. (\A d \in Jobs : Fills(d, h) => AtSmb(d, h)) => (Line(h, s) <=> Of(fstab[h], s) # {})
  BY DEF Line, LineBy
<1>2. ASSUME NEW d \in Jobs, Fills(d, h), ~AtSmb(d, h)
      PROVE  fstab[h] = {} /\ (Line(h, s) <=> Of(Kept(d, h), s) # {})
  <2>1. fstab[h] = {}
    BY <1>2 DEF Single, File, AtSmb
  <2>2. Of(fstab[h], s) = {}
    BY <2>1 DEF Of
  <2>3. \A e \in Jobs \ {d} : ~LineBy(e, h, s)
    BY <1>2 DEF Single, LineBy, AtSmb
  <2> QED
    BY <1>2, <2>1, <2>2, <2>3 DEF Line, LineBy
<1> QED
  BY <1>1, <1>2

\* What a job makes of the lines it read.
LEMMA KeptLines ==
    ASSUME Setting, NEW d \in Jobs, NEW h \in Hosts, Sane(d, h), job[d][h] # None, NEW s \in Storages,
           job[d][h] \in Works
    PROVE  /\ job[d][h].op = "mount" =>
                 (Of(Kept(d, h), s) # {} <=> s = job[d][h].s \/ Of(job[d][h].seen, s) # {})
           /\ job[d][h].op = "unmount" =>
                 (Of(Kept(d, h), s) # {} <=> s # job[d][h].s /\ Of(job[d][h].seen, s) # {})
           /\ job[d][h].op = "swapoff" => (Of(Kept(d, h), s) # {} <=> Of(job[d][h].seen, s) # {})
           /\ job[d][h].op = "share" => Kept(d, h) = job[d][h].seen \cup {job[d][h].s}
                 /\ Kept(d, h) \subseteq Storages
           /\ job[d][h].op # "share" => Kept(d, h) \subseteq Lines
<1> DEFINE w == job[d][h]
<1>1. CASE w.op = "mount"
  <2>1. Kept(d, h) = (w.seen \ Of(w.seen, w.s)) \cup {<<w.s, w.src>>}
    BY <1>1 DEF Kept, Desired
  <2>2. <<w.s, w.src>> \in Lines
    BY <1>1 DEF Sane, Lines
  <2> HIDE DEF w
  <2>3. <<w.s, w.src>>[1] = w.s
    OBVIOUS
  <2>4. w.seen \subseteq Lines
    BY <1>1 DEF Sane, w
  <2> QED
    BY <1>1, <2>1, <2>2, <2>3, <2>4 DEF Of, w
<1>2. CASE w.op = "unmount"
  BY <1>2 DEF Kept, Of, Sane
<1>3. CASE w.op = "swapoff"
  BY <1>3 DEF Kept, Of, Sane, Swap, Setting
<1>4. CASE w.op = "share"
  BY <1>4 DEF Kept, Sane, Setting
<1> QED
  BY <1>1, <1>2, <1>3, <1>4 DEF Works

\* A host nothing happens to that matters: it holds what it held, whatever is said
\* of it then.
LEMMA StillThere ==
    ASSUME Shape, Shape', NEW h \in Hosts, \A d \in Jobs : Same(d, h),
           fstab'[h] = fstab[h], smb'[h] = smb[h], Single(h)
    PROVE  /\ Single(h)'
           /\ \A s \in Storages :
                 /\ Line(h, s)' = Line(h, s) /\ Share(h, s)' = Share(h, s)
                 /\ Coming(h, s)' = Coming(h, s) /\ Leaving(h, s)' = Leaving(h, s)
                 /\ \A op : Finishing(h, s, op)' = Finishing(h, s, op)
<1>1. \A d \in Jobs : Fills(d, h)' = Fills(d, h) /\ (Fills(d, h) => AtSmb(d, h)' = AtSmb(d, h))
  BY SameActs
<1>2. \A d \in Jobs : Fills(d, h) => File(d, h)' = File(d, h)
  BY <1>1 DEF File, AtSmb
<1>3. Single(h)'
  BY <1>1, <1>2 DEF Single
<1>4. ASSUME NEW s \in Storages
      PROVE  /\ Line(h, s)' = Line(h, s) /\ Share(h, s)' = Share(h, s)
             /\ Coming(h, s)' = Coming(h, s) /\ Leaving(h, s)' = Leaving(h, s)
             /\ \A op : Finishing(h, s, op)' = Finishing(h, s, op)
  <2>1. Line(h, s)' = Line(h, s)
    BY SameActs DEF Line
  <2>2. Share(h, s)' = Share(h, s)
    BY SameActs DEF Share
  <2>3. Coming(h, s)' = Coming(h, s)
    BY SameActs DEF Coming
  <2>4. Leaving(h, s)' = Leaving(h, s)
    <3>1. \A d \in Jobs : LeavingBy(d, h, s)' = LeavingBy(d, h, s)
      BY SameActs
    <3>2. Leaving(h, s)' <=> \E d \in Jobs : LeavingBy(d, h, s)'
      BY DEF Shape, Leaving, LeavingBy
    <3> QED
      BY <3>1, <3>2, LeavingIsBy DEF Leaving
  <2>5. \A op : Finishing(h, s, op)' = Finishing(h, s, op)
    BY SameActs DEF Finishing
  <2> QED
    BY <2>1, <2>2, <2>3, <2>4, <2>5
<1> QED
  BY <1>3, <1>4

\* And it is as it should be, if it was.
LEMMA StillHolds ==
    ASSUME Shape, Shape', NEW h \in Hosts, \A d \in Jobs : Same(d, h), Holds(h),
           mounted'[h] = mounted[h], fstab'[h] = fstab[h], smb'[h] = smb[h], want'[h] = want[h],
           h \in torn => h \in torn'
    PROVE  Holds(h)'
<1> SUFFICES ASSUME h \notin torn' PROVE Single(h)' /\ Left(h)' /\ Mounted(h)' /\ Wanted(h)'
  BY DEF Holds
<1>1. Single(h) /\ Left(h) /\ Mounted(h) /\ Wanted(h)
  BY DEF Holds
<1>2. Single(h)'
  BY <1>1, StillThere
<1>3. Left(h)'
  BY <1>1, StillThere DEF Left
<1>4. Mounted(h)'
  BY <1>1, StillThere DEF Mounted
<1>5. Wanted(h)'
  BY <1>1, StillThere DEF Wanted
<1> QED
  BY <1>2, <1>3, <1>4, <1>5

\* A job a host is given: it has yet to look at anything.
Fresh(d, h) ==
    /\ job[d][h] = None /\ d \in Calls
    /\ \E w \in Works : /\ job'[d][h] = w /\ w.s \in Storages /\ w.src \in Sources /\ w.seen = {}
                        /\ \/ w.op \in {"mount", "unmount"} /\ w.at = "check"
                           \/ w.op = "share" /\ w.at = "read" /\ h = Owner

\* The other jobs of the hosts, when one job makes a step: a host may be given one.
OtherJobs(c, h) ==
    \A d \in Jobs, k \in Hosts : d # c \/ k # h => job'[d][k] = job[d][k] \/ Fresh(d, k)

\* A new job fits its request.
LEMMA NewJobs ==
    ASSUME Setting, Shape, NEW c \in Calls, req[c] # None, NEW op \in {"share", "mount", "unmount"}
    PROVE  /\ NewJob(op, c) \in Works
           /\ NewJob(op, c).s \in Storages /\ NewJob(op, c).src \in Sources /\ NewJob(op, c).op = op
           /\ NewJob(op, c).seen = {} /\ NewJob(op, c).at = IF op = "share" THEN "read" ELSE "check"
BY DEF Shape, Asked, NewJob, Works

\* A job that ends, whoever still waits for it.
LEMMA Ending ==
    ASSUME Setting, Shape, NEW c \in Jobs, NEW h \in Hosts, job[c][h] # None, Sane(c, h),
           NEW ok \in BOOLEAN, Answered(c, h, ok)
    PROVE  /\ job' \in [Jobs -> [Hosts -> Works \cup {None}]] /\ req' \in [Calls -> Asked \cup {None}]
           /\ job'[c][h] = None /\ OtherJobs(c, h)
           /\ \A d \in Calls : req'[d] # None => req[d] # None /\ req'[d].s = req[d].s
                 /\ req'[d].src = req[d].src
<1>1. CASE c = Installer \/ (c # Installer => req[c] = None \/ req[c].at # h)
  <2>1. job' = [job EXCEPT ![c][h] = None] /\ req' = req
    BY <1>1 DEF Answered
  <2>2. /\ job' \in [Jobs -> [Hosts -> Works \cup {None}]] /\ job'[c][h] = None
        /\ \A d \in Jobs, k \in Hosts : (d # c \/ k # h) => job'[d][k] = job[d][k]
    BY <2>1 DEF Shape
  <2> QED
    BY <2>1, <2>2 DEF OtherJobs, Shape
<1>2. CASE c # Installer /\ req[c] # None /\ req[c].at = h
  <2>1. c \in Calls /\ req[c] \in Asked
    BY <1>2 DEF Jobs, Shape
  <2>2. CASE ok /\ job[c][h].op = "share" /\ req[c].target # Owner
    <3> DEFINE t == req[c].target
    <3>1. t # h /\ job[c][t] = None /\ job' = [job EXCEPT ![c][h] = None, ![c][t] = NewJob("mount", c)]
      BY <1>2, <2>2 DEF Answered, Sane
    <3>2. req' = [req EXCEPT ![c].at = t]
      BY <1>2, <2>2 DEF Answered
    <3>3. NewJob("mount", c) \in Works /\ NewJob("mount", c).s \in Storages
          /\ NewJob("mount", c).src \in Sources /\ NewJob("mount", c).op = "mount"
          /\ NewJob("mount", c).at = "check" /\ NewJob("mount", c).seen = {}
      BY <1>2, <2>1, NewJobs
    <3>4. t \in Hosts \cup {None}
      BY <2>1 DEF Asked
    <3> HIDE DEF t
    <3>5. /\ job' \in [Jobs -> [Hosts -> Works \cup {None}]] /\ job'[c][h] = None
          /\ \A d \in Jobs, k \in Hosts : (d # c \/ k \notin {h, t}) => job'[d][k] = job[d][k]
          /\ t \in Hosts => job'[c][t] = NewJob("mount", c)
      BY <3>1, <3>3 DEF Shape
    <3>6. OtherJobs(c, h)
      BY <2>1, <3>1, <3>3, <3>5 DEF OtherJobs, Fresh
    <3>7. /\ req' \in [Calls -> Asked \cup {None}]
          /\ \A d \in Calls : req'[d] # None => req[d] # None /\ req'[d].s = req[d].s
                /\ req'[d].src = req[d].src
      BY <1>2, <2>1, <3>2, <3>4 DEF Shape, Asked
    <3> QED
      BY <3>5, <3>6, <3>7
  <2>3. CASE ~(ok /\ job[c][h].op = "share" /\ req[c].target # Owner)
    <3>1. job' = [job EXCEPT ![c][h] = None]
      BY <1>2, <2>3 DEF Answered
    <3>2. req' = [req EXCEPT ![c].at = None, ![c].target = None, ![c].failed = @ \/ ~ok]
      BY <1>2, <2>3 DEF Answered
    <3>3. /\ job' \in [Jobs -> [Hosts -> Works \cup {None}]] /\ job'[c][h] = None
          /\ \A d \in Jobs, k \in Hosts : (d # c \/ k # h) => job'[d][k] = job[d][k]
      BY <3>1 DEF Shape
    <3>4. /\ req' \in [Calls -> Asked \cup {None}]
          /\ \A d \in Calls : req'[d] # None => req[d] # None /\ req'[d].s = req[d].s
                /\ req'[d].src = req[d].src
      BY <1>2, <2>1, <3>2 DEF Shape, Asked
    <3> QED
      BY <3>3, <3>4 DEF OtherJobs
  <2> QED
    BY <2>2, <2>3
<1> QED
  BY <1>1, <1>2

\* A job that goes on.
LEMMA Going ==
    ASSUME Shape, NEW c \in Jobs, NEW h \in Hosts, job[c][h] # None,
           NEW at \in {"check", "do", "read", "append", "write", "fill"}, Goto(c, h, at)
    PROVE  /\ job' \in [Jobs -> [Hosts -> Works \cup {None}]] /\ req' = req
           /\ job'[c][h] = [job[c][h] EXCEPT !.at = at] /\ OtherJobs(c, h)
<1>1. job[c][h] \in Works /\ job' = [job EXCEPT ![c][h].at = at] /\ req' = req
  BY DEF Shape, Goto
<1> DEFINE w == [job[c][h] EXCEPT !.at = at]
<1>2. w \in Works
  BY <1>1 DEF Works
<1>3. job' = [job EXCEPT ![c][h] = w]
  BY <1>1
<1> HIDE DEF w
<1>4. /\ job' \in [Jobs -> [Hosts -> Works \cup {None}]] /\ job'[c][h] = w
      /\ \A d \in Jobs, k \in Hosts : (d # c \/ k # h) => job'[d][k] = job[d][k]
  BY <1>2, <1>3 DEF Shape
<1> QED
  BY <1>1, <1>4 DEF OtherJobs, w

\* Whose the jobs are, after a step of one of them.
LEMMA StaySane ==
    ASSUME Setting, NEW c \in Jobs, NEW h \in Hosts, OtherJobs(c, h), Sane(c, h)',
           \A d \in Jobs, k \in Hosts : Sane(d, k)
    PROVE  \A d \in Jobs, k \in Hosts : Sane(d, k)'
<1> SUFFICES ASSUME NEW d \in Jobs, NEW k \in Hosts, d # c \/ k # h PROVE Sane(d, k)'
  OBVIOUS
<1>1. CASE job'[d][k] = job[d][k]
  BY <1>1 DEF Sane
<1>2. CASE Fresh(d, k)
  BY <1>2 DEF Fresh, Sane, Setting, Works
<1> QED
  BY <1>1, <1>2 DEF OtherJobs

\* The other jobs do not matter any more or less than before.
LEMMA OthersSame ==
    ASSUME Setting, NEW c \in Jobs, NEW h \in Hosts, OtherJobs(c, h)
    PROVE  \A d \in Jobs, k \in Hosts : d # c \/ k # h => Same(d, k)
BY DEF OtherJobs, Fresh, Same, Matters, Works, Setting

\* What the requests write back, after a step that edits nothing.
LEMMA StayLatest ==
    ASSUME Shape, \A c \in Calls : Latest(c), EditsStay,
           UNCHANGED <<row, edited, raced>>,
           \A d \in Calls : req'[d] # None => req[d] # None /\ req'[d].s = req[d].s
                     /\ req'[d].src = req[d].src
    PROVE  (\A c \in Calls : Latest(c)') /\ EditsStay'
BY DEF Latest, EditsStay
-----------------------------------------------------------------------------
\* A step that nothing on the hosts depends on.
LEMMA AllHold ==
    ASSUME Shape, Shape', \A h \in Hosts : Holds(h), \A d \in Jobs, h \in Hosts : Same(d, h),
           UNCHANGED <<mounted, fstab, smb, want>>, torn \subseteq torn'
    PROVE  \A h \in Hosts : Holds(h)'
BY StillHolds

\* Rows and requests, with no job.
LEMMA PageInv ==
    ASSUME Setting, Inv,
           \/ \E s \in Storages : Edit(s) \/ Delete(s)
           \/ \E c \in Calls, kind \in Requests, s \in Storages, targets \in Targets \cup {{Owner}} :
                 Ask(c, kind, s, targets)
           \/ \E c \in Calls : AnswerLost(c) \/ Finish(c)
    PROVE  Inv'
<1>1. UNCHANGED <<job, mounted, fstab, smb, want, torn>>
  BY DEF Edit, Delete, Ask, AnswerLost, Finish, work, node, history
<1>2. Shape' /\ (\A c \in Calls : Latest(c)') /\ EditsStay'
  <2>1. CASE \E s \in Storages : Edit(s)
    <3>1. PICK s \in Storages : Edit(s)
      BY <2>1
    <3>2. PICK x \in Sources : row' = [row EXCEPT ![s].src = x] /\ edited' = [edited EXCEPT ![s] = x]
      BY <3>1 DEF Edit
    <3>3. row[s] \in Rows /\ req' = req
      BY <3>1 DEF Edit, Inv, Shape, work
    <3>4. /\ row' \in [Storages -> Rows \cup {None}] /\ edited' \in [Storages -> Sources]
          /\ row'[s].src = x /\ edited'[s] = x
          /\ \A t \in Storages \ {s} : row'[t] = row[t] /\ edited'[t] = edited[t]
      BY <3>2, <3>3 DEF Inv, Shape, Rows
    <3>5. Shape'
      BY <1>1, <3>3, <3>4 DEF Inv, Shape
    <3>6. \A c \in Calls : req[c] # None /\ s \notin raced' => req[c].s # s
      BY <3>1 DEF Edit, Busy
    <3>7. raced \subseteq raced'
      BY <3>1 DEF Edit
    <3>8. \A c \in Calls : req[c] # None => req[c].s \in Storages
      BY DEF Inv, Shape, Asked
    <3>9. \A c \in Calls : Latest(c)'
      BY <3>3, <3>4, <3>6, <3>7, <3>8 DEF Inv, Latest
    <3>10. EditsStay'
      BY <3>4, <3>7 DEF Inv, EditsStay
    <3> QED
      BY <3>5, <3>9, <3>10
  <2>2. CASE \E s \in Storages : Delete(s)
    <3>1. PICK s \in Storages : Delete(s)
      BY <2>2
    <3>2. /\ row' \in [Storages -> Rows \cup {None}] /\ row'[s] = None /\ UNCHANGED <<req, edited, raced>>
          /\ \A t \in Storages \ {s} : row'[t] = row[t]
      BY <3>1 DEF Delete, Inv, Shape, work, history
    <3>3. \A c \in Calls : req[c] # None => req[c].s \in Storages
      BY DEF Inv, Shape, Asked
    <3> QED
      BY <1>1, <3>2, <3>3 DEF Inv, Shape, Latest, EditsStay
  <2>3. CASE \E c \in Calls, kind \in Requests, s \in Storages, targets \in Targets \cup {{Owner}} :
                 Ask(c, kind, s, targets)
    <3>1. PICK c \in Calls, kind \in Requests, s \in Storages, targets \in Targets \cup {{Owner}} :
                 Ask(c, kind, s, targets)
      BY <2>3
    <3> DEFINE r == [kind |-> kind, s |-> s, src |-> row[s].src, todo |-> targets,
                     target |-> None, at |-> None, failed |-> FALSE]
    <3>2. row[s] \in Rows /\ targets \subseteq Hosts
      BY <3>1 DEF Ask, Inv, Shape, Setting
    <3>3. r \in Asked /\ r.s = s /\ r.src = row[s].src
      BY <3>2 DEF Asked, Rows
    <3>4. req' = [req EXCEPT ![c] = r] /\ UNCHANGED <<row, edited, raced>>
      BY <3>1 DEF Ask, history
    <3> HIDE DEF r
    <3>5. req' \in [Calls -> Asked \cup {None}] /\ req'[c] = r /\ \A d \in Calls \ {c} : req'[d] = req[d]
      BY <3>3, <3>4 DEF Inv, Shape
    <3> QED
      BY <1>1, <3>3, <3>4, <3>5 DEF Inv, Shape, Latest, EditsStay
  <2>4. CASE \E c \in Calls : AnswerLost(c)
    <3>1. PICK c \in Calls : AnswerLost(c)
      BY <2>4
    <3>2. /\ req' \in [Calls -> Asked \cup {None}] /\ UNCHANGED <<row, edited, raced>>
          /\ \A d \in Calls : req'[d] # None => req[d] # None /\ req'[d].s = req[d].s
                /\ req'[d].src = req[d].src
      <4>1. req[c] \in Asked
        BY <3>1 DEF AnswerLost, Inv, Shape
      <4>2. CASE req' = [req EXCEPT ![c] = None]
        BY <3>1, <4>2 DEF AnswerLost, Inv, Shape, history
      <4>3. CASE req' = [req EXCEPT ![c].at = None, ![c].target = None, ![c].failed = TRUE]
        BY <3>1, <4>1, <4>3 DEF AnswerLost, Inv, Shape, Asked, history
      <4> QED
        BY <3>1, <4>2, <4>3 DEF AnswerLost
    <3> QED
      BY <1>1, <3>2, StayLatest DEF Inv, Shape
  <2>5. CASE \E c \in Calls : Finish(c)
    <3>1. PICK c \in Calls : Finish(c)
      BY <2>5
    <3> DEFINE s == req[c].s
    <3>2. req[c] \in Asked /\ s \in Storages
      BY <3>1 DEF Finish, Inv, Shape, Asked
    <3>3. RowAfter(req[c]) \in Rows /\ RowAfter(req[c]).src = req[c].src
      BY <3>2 DEF RowAfter, Rows, Asked
    <3>4. /\ row' = [row EXCEPT ![s] = IF row[s] = None THEN None ELSE RowAfter(req[c])]
          /\ req' = [req EXCEPT ![c] = None] /\ UNCHANGED <<edited, raced>>
      BY <3>1 DEF Finish, history
    <3> HIDE DEF s
    <3>5. /\ row' \in [Storages -> Rows \cup {None}]
          /\ row'[s] = (IF row[s] = None THEN None ELSE RowAfter(req[c]))
          /\ \A t \in Storages \ {s} : row'[t] = row[t]
      BY <3>2, <3>3, <3>4 DEF Inv, Shape
    <3>6. /\ req' \in [Calls -> Asked \cup {None}]
          /\ \A d \in Calls : req'[d] # None => req'[d] = req[d]
      BY <3>4 DEF Inv, Shape
    <3>7. s \notin raced /\ row[s] # None => req[c].src = edited[s]
      BY <3>1 DEF Inv, Latest, Finish, s
    <3>8. EditsStay'
      BY <3>2, <3>3, <3>4, <3>5, <3>7 DEF Inv, EditsStay
    <3>9. \A d \in Calls : Latest(d)'
      BY <3>2, <3>4, <3>5, <3>6 DEF Inv, Latest
    <3> QED
      BY <1>1, <3>4, <3>5, <3>6, <3>8, <3>9 DEF Inv, Shape
  <2> QED
    BY <2>1, <2>2, <2>3, <2>4, <2>5
<1>3. \A h \in Hosts : Holds(h)'
  BY <1>1, <1>2, AllHold DEF Inv, Same, Matters
<1>4. \A c \in Jobs, h \in Hosts : Sane(c, h)'
  BY <1>1 DEF Inv, Sane
<1> QED
  BY <1>2, <1>3, <1>4 DEF Inv

\* A host is asked, or the installation comes to it.
LEMMA BeginInv ==
    ASSUME Setting, Inv, (\E c \in Calls : NextHost(c)) \/ \E h \in Hosts : StartSwapOff(h)
    PROVE  Inv'
<1>1. PICK c \in Jobs, h \in Hosts, w \in Works, q \in [Calls -> Asked \cup {None}] :
          /\ job[c][h] = None /\ job' = [job EXCEPT ![c][h] = w] /\ req' = q
          /\ \A d \in Calls : q[d] # None => req[d] # None /\ q[d].s = req[d].s /\ q[d].src = req[d].src
          /\ w.seen = {} /\ w.at \in {"check", "read"} /\ (w.at = "read" => w.op \in {"share", "swapoff"})
          /\ w.op = "share" => h = Owner /\ w.at = "read"
          /\ w.op = "swapoff" => w.at = "read"
          /\ IF c = Installer THEN w.op = "swapoff" ELSE w.op # "swapoff" /\ w.s \in Storages
                /\ w.src \in Sources
  <2>1. CASE \E c \in Calls : NextHost(c)
    <3>1. PICK c \in Calls : NextHost(c)
      BY <2>1
    <3>2. req[c] \in Asked
      BY <3>1 DEF NextHost, Inv, Shape
    <3>3. PICK h \in req[c].todo :
            LET shares == req[c].kind = "share" \/ (req[c].kind = "deploy" /\ req[c].s \in Shares)
                at     == IF shares THEN Owner ELSE h
                op     == IF shares THEN "share" ELSE IF req[c].kind = "deploy" THEN "mount" ELSE "unmount"
            IN  /\ job[c][at] = None /\ job' = [job EXCEPT ![c][at] = NewJob(op, c)]
                /\ req' = [req EXCEPT ![c].todo = @ \ {h}, ![c].target = h, ![c].at = at]
      BY <3>1 DEF NextHost
    <3> DEFINE shares == req[c].kind = "share" \/ (req[c].kind = "deploy" /\ req[c].s \in Shares)
               at     == IF shares THEN Owner ELSE h
               op     == IF shares THEN "share" ELSE IF req[c].kind = "deploy" THEN "mount" ELSE "unmount"
    <3>4. h \in Hosts /\ at \in Hosts /\ op \in {"share", "mount", "unmount"} /\ (op = "share" => at = Owner)
      BY <3>2 DEF Asked, Setting
    <3>5. /\ job[c][at] = None /\ job' = [job EXCEPT ![c][at] = NewJob(op, c)]
          /\ req' = [req EXCEPT ![c].todo = @ \ {h}, ![c].target = h, ![c].at = at]
      BY <3>3
    <3> HIDE DEF at, op, shares
    <3>6. /\ req' \in [Calls -> Asked \cup {None}]
          /\ \A d \in Calls : req'[d] # None => req[d] # None /\ req'[d].s = req[d].s
                /\ req'[d].src = req[d].src
      BY <3>1, <3>2, <3>4, <3>5 DEF NextHost, Inv, Shape, Asked
    <3>7. /\ NewJob(op, c) \in Works
          /\ NewJob(op, c).s \in Storages /\ NewJob(op, c).src \in Sources /\ NewJob(op, c).op = op
          /\ NewJob(op, c).seen = {} /\ NewJob(op, c).at = IF op = "share" THEN "read" ELSE "check"
      BY <3>1, <3>4, NewJobs DEF NextHost, Inv
    <3>8. c \in Jobs /\ c # Installer
      BY DEF Jobs, Setting
    <3> DEFINE w == NewJob(op, c)
               q == req'
    <3>9. /\ c \in Jobs /\ at \in Hosts /\ w \in Works /\ q \in [Calls -> Asked \cup {None}]
          /\ job[c][at] = None /\ job' = [job EXCEPT ![c][at] = w] /\ req' = q
          /\ \A d \in Calls : q[d] # None => req[d] # None /\ q[d].s = req[d].s /\ q[d].src = req[d].src
      BY <3>4, <3>5, <3>6, <3>7, <3>8
    <3>10. /\ w.seen = {} /\ w.at \in {"check", "read"} /\ (w.at = "read" => w.op \in {"share", "swapoff"})
           /\ w.op = "share" => at = Owner /\ w.at = "read"
           /\ w.op # "swapoff" /\ w.s \in Storages /\ w.src \in Sources
      BY <3>4, <3>7
    <3> HIDE DEF w, q
    <3> QED
      BY <3>8, <3>9, <3>10
  <2>2. CASE \E h \in Hosts : StartSwapOff(h)
    <3>1. PICK h \in Hosts : StartSwapOff(h)
      BY <2>2
    <3> DEFINE w == [op |-> "swapoff", s |-> "swap", src |-> "swap", seen |-> {}, at |-> "read"]
    <3>2. w \in Works
      BY DEF Works
    <3>3. job[Installer][h] = None /\ job' = [job EXCEPT ![Installer][h] = w] /\ req' = req
      BY <3>1 DEF StartSwapOff
    <3>4. Installer \in Jobs /\ req \in [Calls -> Asked \cup {None}]
      BY DEF Jobs, Inv, Shape
    <3> QED
      BY <3>2, <3>3, <3>4
  <2> QED
    BY <2>1, <2>2
<1>2. UNCHANGED <<row, mounted, fstab, smb, want, torn, edited, raced>>
  BY DEF NextHost, StartSwapOff, node, history
<1>3. /\ job' \in [Jobs -> [Hosts -> Works \cup {None}]] /\ job'[c][h] = w
      /\ \A d \in Jobs, k \in Hosts : d # c \/ k # h => job'[d][k] = job[d][k]
  BY <1>1 DEF Inv, Shape
<1>4. Shape'
  BY <1>1, <1>2, <1>3 DEF Inv, Shape
<1>5. \A d \in Jobs, k \in Hosts : Same(d, k)
  BY <1>1, <1>3 DEF Same, Matters
<1>6. \A k \in Hosts : Holds(k)'
  BY <1>2, <1>4, <1>5, AllHold DEF Inv
<1>7. \A d \in Jobs, k \in Hosts : Sane(d, k)'
  <2>1. Sane(c, h)'
    BY <1>1, <1>3 DEF Sane
  <2> QED
    BY <1>3, <2>1 DEF Inv, Sane
<1>8. (\A d \in Calls : Latest(d)') /\ EditsStay'
  BY <1>1, <1>2, StayLatest DEF Inv
<1> QED
  BY <1>4, <1>6, <1>7, <1>8 DEF Inv
-----------------------------------------------------------------------------
\* What a step of a job on a host leaves alone.
Effect(c, h) ==
    /\ job' \in [Jobs -> [Hosts -> Works \cup {None}]] /\ req' \in [Calls -> Asked \cup {None}]
    /\ OtherJobs(c, h) /\ UNCHANGED <<row, edited, raced>>
    /\ \A d \in Calls : req'[d] # None => req[d] # None /\ req'[d].s = req[d].s /\ req'[d].src = req[d].src
    /\ mounted' \in [Hosts -> [Storages -> Sources \cup {None}]]
    /\ fstab' \in [Hosts -> SUBSET Lines] /\ smb' \in [Hosts -> SUBSET Storages]
    /\ want' \in [Hosts -> [Storages -> {"mount", "unmount", "share", None}]]
    /\ \A k \in Hosts \ {h} : /\ mounted'[k] = mounted[k] /\ want'[k] = want[k]
                              /\ fstab'[k] = fstab[k] /\ smb'[k] = smb[k]
    /\ torn' \in {torn, torn \cup {h}}

\* So only the host it is on has to be looked at.
LEMMA JobInv ==
    ASSUME Setting, Inv, NEW c \in Jobs, NEW h \in Hosts, Effect(c, h), Sane(c, h)', Shape' => Holds(h)'
    PROVE  Inv'
<1>1. Shape'
  BY DEF Inv, Shape, Effect
<1>2. \A k \in Hosts : Holds(k)'
  <2>1. ASSUME NEW k \in Hosts \ {h} PROVE Holds(k)'
    <3>1. \A d \in Jobs : Same(d, k)
      BY OthersSame DEF Effect
    <3> QED
      BY <1>1, <3>1, StillHolds DEF Inv, Effect
  <2> QED
    BY <1>1, <2>1
<1>3. \A d \in Jobs, k \in Hosts : Sane(d, k)'
  BY StaySane DEF Inv, Effect
<1>4. (\A d \in Calls : Latest(d)') /\ EditsStay'
  BY StayLatest DEF Inv, Effect
<1> QED
  BY <1>1, <1>2, <1>3, <1>4 DEF Inv

\* On that host, what the others do is what they did.
LEMMA Parts ==
    ASSUME Shape, Shape', NEW c \in Jobs, NEW h \in Hosts, \A d \in Jobs \ {c} : Same(d, h),
              NEW s \in Storages
    PROVE  /\ Coming(h, s) => Coming(h, s)' \/ ComingBy(c, h, s)
           /\ ComingBy(c, h, s)' => Coming(h, s)'
           /\ Leaving(h, s)' => Leaving(h, s) \/ LeavingBy(c, h, s)'
           /\ LeavingBy(c, h, s) => Leaving(h, s)
           /\ \A op : /\ Finishing(h, s, op) => Finishing(h, s, op)' \/ EndingBy(c, h, s, op)
                      /\ EndingBy(c, h, s, op)' => Finishing(h, s, op)'
<1>1. Coming(h, s) => Coming(h, s)' \/ ComingBy(c, h, s)
  BY SameActs DEF Coming
<1>2. ComingBy(c, h, s)' => Coming(h, s)'
  BY DEF Coming
<1>3. Leaving(h, s)' => Leaving(h, s) \/ LeavingBy(c, h, s)'
  <2>1. Leaving(h, s)' <=> \E d \in Jobs : LeavingBy(d, h, s)'
    BY DEF Shape, Leaving, LeavingBy
  <2> QED
    BY <2>1, LeavingIsBy, SameActs
<1>4. LeavingBy(c, h, s) => Leaving(h, s)
  BY LeavingIsBy
<1>5. \A op : Finishing(h, s, op) => Finishing(h, s, op)' \/ EndingBy(c, h, s, op)
  BY SameActs DEF Finishing
<1>6. \A op : EndingBy(c, h, s, op)' => Finishing(h, s, op)'
  BY DEF Finishing
<1> QED
  BY <1>1, <1>2, <1>3, <1>4, <1>5, <1>6

\* A step that does not touch the files, of a job that does not fill one.
LEMMA SameFiles ==
    ASSUME Shape, Shape', NEW c \in Jobs, NEW h \in Hosts, \A d \in Jobs \ {c} : Same(d, h),
           fstab'[h] = fstab[h], smb'[h] = smb[h], ~Fills(c, h), ~Fills(c, h)', Single(h)
    PROVE  /\ Single(h)'
           /\ \A s \in Storages : Line(h, s)' = Line(h, s) /\ Share(h, s)' = Share(h, s)
<1>1. \A d \in Jobs : Fills(d, h)' = Fills(d, h) /\ (Fills(d, h) => AtSmb(d, h)' = AtSmb(d, h))
  <2>1. Fills(c, h)' = Fills(c, h)
    BY DEF Fills
  <2> QED
    BY <2>1, SameActs
<1>2. \A d \in Jobs : Fills(d, h) => File(d, h)' = File(d, h)
  BY <1>1 DEF File, AtSmb
<1>3. Single(h)'
  BY <1>1, <1>2 DEF Single
<1>4. \A s \in Storages, d \in Jobs : LineBy(d, h, s)' = LineBy(d, h, s)
          /\ ShareBy(d, h, s)' = ShareBy(d, h, s)
  BY SameActs DEF LineBy, ShareBy
<1> QED
  BY <1>3, <1>4 DEF Line, Share

\* A job is at one step.
LEMMA AtStep ==
    ASSUME Shape, NEW c \in Jobs, NEW h \in Hosts, job[c][h] # None
    PROVE  /\ job[c][h] \in Works /\ c \in Calls \cup {Installer}
           /\ Fills(c, h) <=> job[c][h].at = "fill"
BY DEF Shape, Fills, Jobs

\* mount_from_spec: a directory that is mounted has its line, or will have it.
LEMMA MountCheckInv ==
    ASSUME Setting, Inv, NEW c \in Calls, NEW h \in Hosts, MountCheck(c, h)
    PROVE  Inv'
<1> DEFINE s == job[c][h].s
<1>0. c \in Jobs /\ c # Installer /\ job[c][h] # None /\ job[c][h].op = "mount"
          /\ job[c][h].at = "check" /\ Sane(c, h)
  BY DEF MountCheck, At, Jobs, Setting, Inv
<1>1. s \in Storages /\ job[c][h] \in Works
  BY <1>0 DEF Sane, Inv, Shape
<1>2. CASE mounted[h][s] # None
  <2>1. Answered(c, h, TRUE) /\ want' = [want EXCEPT ![h][s] = "mount"]
        /\ UNCHANGED <<row, mounted, fstab, smb, torn, edited, raced>>
    BY <1>0, <1>2 DEF MountCheck, Done, node
  <2>2. Effect(c, h) /\ job'[c][h] = None
    BY <1>0, <1>1, <2>1, Ending DEF Inv, Shape, Effect
  <2>3. Sane(c, h)'
    BY <2>2 DEF Sane
  <2>4. ASSUME Shape', h \notin torn' PROVE Single(h)' /\ Left(h)' /\ Mounted(h)' /\ Wanted(h)'
    <3>1. Single(h) /\ Left(h) /\ Mounted(h) /\ Wanted(h)
      BY <2>1, <2>4 DEF Inv, Holds
    <3>2. \A d \in Jobs : Same(d, h)
      <4>1. Same(c, h)
        BY <1>0, <2>2 DEF Same, Matters
      <4> QED
        BY <1>0, <2>2, <4>1, OthersSame DEF Effect
    <3>3. /\ Single(h)'
          /\ \A t \in Storages :
                 /\ Line(h, t)' = Line(h, t) /\ Share(h, t)' = Share(h, t)
                 /\ Coming(h, t)' = Coming(h, t) /\ Leaving(h, t)' = Leaving(h, t)
                 /\ \A op : Finishing(h, t, op)' = Finishing(h, t, op)
      BY <2>1, <2>4, <3>1, <3>2, StillThere DEF Inv
    <3>4. want'[h][s] = "mount" /\ \A t \in Storages \ {s} : want'[h][t] = want[h][t]
      BY <1>1, <2>1 DEF Inv, Shape
    <3> HIDE DEF s
    <3>5. Left(h)' /\ Mounted(h)'
      BY <2>1, <3>1, <3>3 DEF Left, Mounted
    <3>6. Wanted(h)'
      BY <1>1, <1>2, <2>1, <3>1, <3>3, <3>4 DEF Wanted, Mounted
    <3> QED
      BY <3>3, <3>5, <3>6
  <2> QED
    BY <1>0, <2>2, <2>3, <2>4, JobInv DEF Holds
<1>3. CASE mounted[h][s] = None
  <2>1. Goto(c, h, "do") /\ UNCHANGED <<row, mounted, fstab, smb, want, torn, edited, raced>>
    BY <1>0, <1>3 DEF MountCheck, node
  <2>2. Effect(c, h) /\ job'[c][h] = [job[c][h] EXCEPT !.at = "do"]
    BY <1>0, <2>1, Going DEF Inv, Shape, Effect
  <2>3. Sane(c, h)'
    BY <1>0, <1>1, <2>2 DEF Sane, Works
  <2>4. Same(c, h)
    BY <1>0, <1>1, <2>2 DEF Same, Matters, Works
  <2>5. \A d \in Jobs : Same(d, h)
    BY <1>0, <2>2, <2>4, OthersSame DEF Effect
  <2> QED
    BY <1>0, <2>1, <2>2, <2>3, <2>5, JobInv, StillHolds DEF Inv
<1> QED
  BY <1>2, <1>3

\* Its line is still to come, and no job is about to take it away.
LEMMA MountInv ==
    ASSUME Setting, Inv, NEW c \in Calls, NEW h \in Hosts, Mount(c, h)
    PROVE  Inv'
<1>0. c \in Jobs /\ c # Installer /\ job[c][h] # None /\ job[c][h].op = "mount" /\ job[c][h].at = "do"
          /\ Sane(c, h)
  BY DEF Mount, At, Jobs, Setting, Inv
<1>1. PICK s \in Storages : s = job[c][h].s /\ job[c][h].src \in Sources /\ job[c][h] \in Works
  BY <1>0 DEF Sane, Inv, Shape
<1>2. /\ Goto(c, h, "read") /\ mounted' = [mounted EXCEPT ![h][s] = job[c][h].src]
      /\ UNCHANGED <<row, fstab, smb, want, edited, raced>>
      /\ torn' = IF mounted[h][s] # None \/ Leaving(h, s) THEN torn \cup {h} ELSE torn
  BY <1>1 DEF Mount
<1>3. Effect(c, h) /\ job'[c][h] = [job[c][h] EXCEPT !.at = "read"]
  BY <1>0, <1>1, <1>2, Going DEF Inv, Shape, Effect
<1> DEFINE w == job'[c][h]
<1>4. w # None /\ w.op = "mount" /\ w.s = s /\ w.at = "read" /\ w.seen = job[c][h].seen
          /\ w.src = job[c][h].src
  <2>1. w \in Works /\ w.op = "mount" /\ w.s = s /\ w.at = "read" /\ w.seen = job[c][h].seen
        /\ w.src = job[c][h].src
    BY <1>0, <1>1, <1>3 DEF Works
  <2> QED
    BY <2>1 DEF Setting
<1>41. Sane(c, h)' /\ ~Fills(c, h)'
  BY <1>0, <1>4 DEF Sane, Fills
<1>42. \E d \in Jobs : ComingBy(d, h, s)'
  BY <1>0, <1>4 DEF ComingBy
<1>43. /\ ~Fills(c, h)
       /\ \A t \in Storages : ~ComingBy(c, h, t) /\ \A op : ~EndingBy(c, h, t, op)
  BY <1>0 DEF ComingBy, EndingBy, Fills
<1>44. \A t \in Storages : ~LeavingBy(c, h, t)'
  BY <1>4 DEF LeavingBy
<1> HIDE DEF w
<1>5. ASSUME Shape', h \notin torn' PROVE Single(h)' /\ Left(h)' /\ Mounted(h)' /\ Wanted(h)'
  <2>1. ~Leaving(h, s) /\ Single(h) /\ Left(h) /\ Mounted(h) /\ Wanted(h)
    BY <1>2, <1>5 DEF Inv, Holds
  <2>2. \A d \in Jobs \ {c} : Same(d, h)
    BY <1>0, <1>3, OthersSame DEF Effect
  <2>3. /\ Single(h)'
        /\ \A t \in Storages : Line(h, t)' = Line(h, t) /\ Share(h, t)' = Share(h, t)
    BY <1>0, <1>2, <1>41, <1>43, <1>5, <2>1, <2>2, SameFiles DEF Inv
  <2>4. \A t \in Storages : /\ Coming(h, t) => Coming(h, t)'
                            /\ Leaving(h, t)' => Leaving(h, t)
                            /\ \A op : Finishing(h, t, op) => Finishing(h, t, op)'
    BY <1>0, <1>43, <1>44, <1>5, <2>2, Parts DEF Inv
  <2>5. Coming(h, s)'
    BY <1>42 DEF Coming
  <2>6. \A t \in Storages \ {s} : mounted'[h][t] = mounted[h][t]
    BY <1>1, <1>2 DEF Inv, Shape
  <2>7. Left(h)'
    BY <2>1, <2>4, <2>6 DEF Left
  <2>8. Mounted(h)'
    <3> SUFFICES ASSUME NEW t \in Storages, mounted'[h][t] # None PROVE Line(h, t)' \/ Coming(h, t)'
      BY DEF Mounted
    <3>1. CASE t = s
      BY <2>5, <3>1
    <3>2. CASE t # s
      BY <2>1, <2>3, <2>4, <2>6, <3>2 DEF Mounted
    <3> QED
      BY <3>1, <3>2
  <2>9. Wanted(h)'
    BY <1>2, <2>1, <2>3, <2>4 DEF Wanted
  <2> QED
    BY <2>3, <2>7, <2>8, <2>9
<1> QED
  BY <1>0, <1>3, <1>41, <1>5, JobInv DEF Holds

\* unmount_dir, up to the file: the directory is not mounted then.
LEMMA UnmountedInv ==
    ASSUME Setting, Inv, NEW c \in Calls, NEW h \in Hosts, UnmountCheck(c, h) \/ Unmount(c, h)
    PROVE  Inv'
<1> DEFINE s == job[c][h].s
<1>0. /\ c \in Jobs /\ c # Installer /\ job[c][h] # None /\ job[c][h].op = "unmount" /\ Sane(c, h)
      /\ job[c][h].at \in {"check", "do"}
  BY DEF UnmountCheck, Unmount, At, Jobs, Setting, Inv
<1>1. s \in Storages /\ job[c][h] \in Works
  BY <1>0 DEF Sane, Inv, Shape
<1>2. CASE Goto(c, h, "do") /\ UNCHANGED <<row, mounted, fstab, smb, want, torn, edited, raced>>
  <2>1. Effect(c, h) /\ job'[c][h] = [job[c][h] EXCEPT !.at = "do"]
    BY <1>0, <1>2, Going DEF Inv, Shape, Effect
  <2>2. Sane(c, h)' /\ Same(c, h)
    BY <1>0, <1>1, <2>1 DEF Sane, Same, Matters, Works
  <2>3. \A d \in Jobs : Same(d, h)
    BY <1>0, <2>1, <2>2, OthersSame DEF Effect
  <2> QED
    BY <1>0, <1>2, <2>1, <2>2, <2>3, JobInv, StillHolds DEF Inv
<1>3. CASE /\ Goto(c, h, "read") /\ UNCHANGED <<row, fstab, smb, want, torn, edited, raced>>
           /\ mounted' = [mounted EXCEPT ![h][s] = None]
  <2>1. Effect(c, h) /\ job'[c][h] = [job[c][h] EXCEPT !.at = "read"]
    BY <1>0, <1>1, <1>3, Going DEF Inv, Shape, Effect
  <2>2. Sane(c, h)' /\ ~Fills(c, h) /\ ~Fills(c, h)'
        /\ \A t \in Storages : ~ComingBy(c, h, t) /\ (LeavingBy(c, h, t)' => t = s)
                               /\ \A op : ~EndingBy(c, h, t, op)
    BY <1>0, <1>1, <2>1 DEF Sane, Works, ComingBy, LeavingBy, EndingBy, Fills
  <2>3. ASSUME Shape', h \notin torn' PROVE Single(h)' /\ Left(h)' /\ Mounted(h)' /\ Wanted(h)'
    <3>1. Single(h) /\ Left(h) /\ Mounted(h) /\ Wanted(h)
      BY <1>3, <2>3 DEF Inv, Holds
    <3>2. \A d \in Jobs \ {c} : Same(d, h)
      BY <1>0, <2>1, OthersSame DEF Effect
    <3>3. /\ Single(h)'
          /\ \A t \in Storages : Line(h, t)' = Line(h, t) /\ Share(h, t)' = Share(h, t)
      BY <1>0, <1>3, <2>2, <2>3, <3>1, <3>2, SameFiles DEF Inv
    <3>4. \A t \in Storages : /\ Coming(h, t) => Coming(h, t)'
                              /\ Leaving(h, t)' => Leaving(h, t) \/ t = s
                              /\ \A op : Finishing(h, t, op) => Finishing(h, t, op)'
      BY <1>0, <2>2, <2>3, <3>2, Parts DEF Inv
    <3>5. mounted'[h][s] = None /\ \A t \in Storages \ {s} : mounted'[h][t] = mounted[h][t]
      BY <1>1, <1>3 DEF Inv, Shape
    <3> HIDE DEF s
    <3>6. Left(h)'
      BY <3>1, <3>4, <3>5 DEF Left
    <3>7. Mounted(h)'
      BY <3>1, <3>3, <3>4, <3>5 DEF Mounted
    <3>8. Wanted(h)'
      BY <1>3, <3>1, <3>3, <3>4 DEF Wanted
    <3> QED
      BY <3>3, <3>6, <3>7, <3>8
  <2> QED
    BY <1>0, <2>1, <2>2, <2>3, JobInv DEF Holds
<1>4. CASE UnmountCheck(c, h)
  <2>1. CASE mounted[h][s] # None
    BY <1>2, <1>4, <2>1 DEF UnmountCheck, node, history
  <2>2. CASE mounted[h][s] = None
    <3>1. [mounted EXCEPT ![h][s] = None] = mounted
      BY <1>1, <2>2 DEF Inv, Shape
    <3> QED
      BY <1>3, <1>4, <2>2, <3>1 DEF UnmountCheck, node, history
  <2> QED
    BY <2>1, <2>2
<1>5. CASE Unmount(c, h)
  BY <1>3, <1>5 DEF Unmount, history
<1> QED
  BY <1>4, <1>5
-----------------------------------------------------------------------------
\* What a job leaves when it has done its work.
LEMMA Finished ==
    ASSUME Setting, Inv, NEW c \in Jobs, NEW h \in Hosts, job[c][h] # None, Done(c, h)
    PROVE  /\ job' \in [Jobs -> [Hosts -> Works \cup {None}]] /\ req' \in [Calls -> Asked \cup {None}]
           /\ job'[c][h] = None /\ OtherJobs(c, h) /\ Sane(c, h)'
           /\ \A d \in Calls : req'[d] # None => req[d] # None /\ req'[d].s = req[d].s
                 /\ req'[d].src = req[d].src
           /\ want' \in [Hosts -> [Storages -> {"mount", "unmount", "share", None}]]
           /\ \A k \in Hosts \ {h} : want'[k] = want[k]
           /\ \A s \in Storages : want'[h][s] = IF c # Installer /\ s = job[c][h].s THEN job[c][h].op
                                                ELSE want[h][s]
<1>0. Sane(c, h)
  BY DEF Inv
<1>1. Sane(c, h) /\ job[c][h] \in Works /\ Answered(c, h, TRUE)
  <2>1. job[c][h] \in Works
    BY DEF Inv, Shape
  <2>2. Answered(c, h, TRUE)
    BY DEF Done
  <2> QED
    BY <1>0, <2>1, <2>2
<1>2. /\ job' \in [Jobs -> [Hosts -> Works \cup {None}]] /\ req' \in [Calls -> Asked \cup {None}]
      /\ job'[c][h] = None /\ OtherJobs(c, h)
      /\ \A d \in Calls : req'[d] # None => req[d] # None /\ req'[d].s = req[d].s /\ req'[d].src = req[d].src
  BY <1>1, Ending DEF Inv
<1>3. CASE c = Installer
  BY <1>2, <1>3 DEF Done, Sane, Inv, Shape
<1>4. CASE c # Installer
  <2>1. PICK s \in Storages, op \in {"mount", "unmount", "share"} : s = job[c][h].s /\ op = job[c][h].op
    BY <1>1, <1>4 DEF Sane, Works
  <2>2. want' = [want EXCEPT ![h][s] = op]
    BY <1>4, <2>1 DEF Done
  <2>3. /\ want' \in [Hosts -> [Storages -> {"mount", "unmount", "share", None}]]
        /\ \A k \in Hosts \ {h} : want'[k] = want[k]
        /\ \A t \in Storages : want'[h][t] = IF t = s THEN op ELSE want[h][t]
    BY <2>2 DEF Inv, Shape
  <2> QED
    BY <1>2, <1>4, <2>1, <2>3 DEF Sane
<1> QED
  BY <1>3, <1>4

\* /etc/fstab, when a job reads or writes it while no other job fills it.
LEMMA OfFstab ==
    ASSUME Shape, Shape', NEW c \in Jobs, NEW h \in Hosts, \A d \in Jobs \ {c} : Same(d, h), Single(h),
           job[c][h] # None, ~AtSmb(c, h), ~Filling(c, h), smb'[h] = smb[h],
           Fills(c, h)' => ~AtSmb(c, h)' /\ fstab'[h] = {}
    PROVE  /\ Single(h)'
           /\ \A s \in Storages : /\ Share(h, s)' = Share(h, s)
                                  /\ Line(h, s) <=> Of(fstab[h], s) # {} \/ LineBy(c, h, s)
                                  /\ Line(h, s)' <=> Of(fstab[h], s)' # {} \/ LineBy(c, h, s)'
<1>1. \A d \in Jobs \ {c} : Fills(d, h) => AtSmb(d, h)
  BY DEF Shape, Filling, Fills, AtSmb
<1>2. \A d \in Jobs \ {c} : Fills(d, h)' = Fills(d, h) /\ (Fills(d, h) => AtSmb(d, h)')
  BY <1>1, SameActs
<1>3. Single(h)'
  <2> SUFFICES ASSUME NEW x \in Jobs, Fills(x, h)'
               PROVE  File(x, h)' = {} /\ \A d \in Jobs \ {x} : ~(Fills(d, h) /\ AtSmb(d, h) = AtSmb(x, h))'
    BY DEF Single
  <2>1. CASE x = c
    BY <1>2, <2>1 DEF File, AtSmb
  <2>2. CASE x # c
    <3>1. Fills(x, h) /\ AtSmb(x, h) /\ AtSmb(x, h)'
      BY <1>1, <1>2, <2>2
    <3>2. File(x, h)' = smb'[h] /\ File(x, h) = smb[h]
      BY <3>1 DEF File, AtSmb
    <3> QED
      BY <1>1, <1>2, <2>2, <3>1, <3>2 DEF Single
  <2> QED
    BY <2>1, <2>2
<1>4. ASSUME NEW s \in Storages
      PROVE  /\ Share(h, s)' = Share(h, s)
             /\ Line(h, s) <=> Of(fstab[h], s) # {} \/ LineBy(c, h, s)
             /\ Line(h, s)' <=> Of(fstab[h], s)' # {} \/ LineBy(c, h, s)'
  <2>1. \A d \in Jobs \ {c} : ~LineBy(d, h, s) /\ ~LineBy(d, h, s)' /\ ShareBy(d, h, s)' = ShareBy(d, h, s)
    BY <1>1, <1>2, SameActs DEF LineBy
  <2>2. ~ShareBy(c, h, s) /\ ~ShareBy(c, h, s)'
    BY DEF ShareBy
  <2> QED
    BY <2>1, <2>2 DEF Line, Share
<1> QED
  BY <1>3, <1>4

\* smb.conf, likewise.
LEMMA OfSmb ==
    ASSUME Shape, Shape', NEW c \in Jobs, NEW h \in Hosts, \A d \in Jobs \ {c} : Same(d, h), Single(h),
           job[c][h] # None, AtSmb(c, h), ~Filling(c, h), fstab'[h] = fstab[h],
           Fills(c, h)' => AtSmb(c, h)' /\ smb'[h] = {}
    PROVE  /\ Single(h)'
           /\ \A s \in Storages : /\ Line(h, s)' = Line(h, s)
                                  /\ Share(h, s) <=> s \in smb[h] \/ ShareBy(c, h, s)
                                  /\ Share(h, s)' <=> s \in smb'[h] \/ ShareBy(c, h, s)'
<1>1. \A d \in Jobs \ {c} : Fills(d, h) => ~AtSmb(d, h)
  BY DEF Shape, Filling, Fills, AtSmb
<1>2. \A d \in Jobs \ {c} : Fills(d, h)' = Fills(d, h) /\ (Fills(d, h) => ~AtSmb(d, h)')
  BY <1>1, SameActs
<1>3. Single(h)'
  <2> SUFFICES ASSUME NEW x \in Jobs, Fills(x, h)'
               PROVE  File(x, h)' = {} /\ \A d \in Jobs \ {x} : ~(Fills(d, h) /\ AtSmb(d, h) = AtSmb(x, h))'
    BY DEF Single
  <2>1. CASE x = c
    BY <1>2, <2>1 DEF File, AtSmb
  <2>2. CASE x # c
    <3>1. Fills(x, h) /\ ~AtSmb(x, h) /\ ~AtSmb(x, h)'
      BY <1>1, <1>2, <2>2
    <3>2. File(x, h)' = fstab'[h] /\ File(x, h) = fstab[h]
      BY <3>1 DEF File, AtSmb
    <3>3. \A d \in Jobs \ {x} : Fills(d, h)' => AtSmb(d, h)' # AtSmb(x, h)'
      <4>1. \A d \in Jobs \ {x, c} : Fills(d, h)' => AtSmb(d, h)' # AtSmb(x, h)'
        BY <1>2, <2>2, <3>1, SameActs DEF Single
      <4>2. Fills(c, h)' => AtSmb(c, h)' # AtSmb(x, h)'
        BY <3>1
      <4> QED
        BY <4>1, <4>2
    <3> QED
      BY <3>1, <3>2, <3>3 DEF Single
  <2> QED
    BY <2>1, <2>2
<1>4. ASSUME NEW s \in Storages
      PROVE  /\ Line(h, s)' = Line(h, s)
             /\ Share(h, s) <=> s \in smb[h] \/ ShareBy(c, h, s)
             /\ Share(h, s)' <=> s \in smb'[h] \/ ShareBy(c, h, s)'
  <2>1. \A d \in Jobs \ {c} : ~ShareBy(d, h, s) /\ ~ShareBy(d, h, s)' /\ LineBy(d, h, s)' = LineBy(d, h, s)
    BY <1>1, <1>2, SameActs DEF ShareBy
  <2>2. ~LineBy(c, h, s) /\ ~LineBy(c, h, s)'
    BY DEF LineBy
  <2>3. Of(fstab[h], s)' = Of(fstab[h], s)
    BY DEF Of
  <2> QED
    BY <2>1, <2>2, <2>3 DEF Line, Share
<1> QED
  BY <1>3, <1>4

\* A step at a file, on a host that is not torn: the files hold what the last
\* words say, or the job will see to it.
LEMMA FileInv ==
    ASSUME Setting, Inv, Shape', NEW c \in Jobs, NEW h \in Hosts, Effect(c, h), h \notin torn,
           mounted'[h] = mounted[h], Single(h)',
           \A s \in Storages :
               /\ LeavingBy(c, h, s)' => LeavingBy(c, h, s)
               /\ Line(h, s) \/ ComingBy(c, h, s) => Line(h, s)' \/ ComingBy(c, h, s)' \/ LeavingBy(c, h, s)
               /\ want'[h][s] = "mount" =>
                     \/ Line(h, s)' \/ EndingBy(c, h, s, "unmount")'
                     \/ /\ want[h][s] = "mount" /\ ~Line(h, s) /\ ~EndingBy(c, h, s, "unmount")
                        /\ ComingBy(c, h, s) => ComingBy(c, h, s)'
               /\ want'[h][s] = "unmount" =>
                     \/ ~Line(h, s)' \/ EndingBy(c, h, s, "mount")'
                     \/ want[h][s] = "unmount" /\ Line(h, s) /\ ~EndingBy(c, h, s, "mount")
               /\ want'[h][s] = "share" => Share(h, s)'
    PROVE  Single(h)' /\ Left(h)' /\ Mounted(h)' /\ Wanted(h)'
<1>1. Left(h) /\ Mounted(h) /\ Wanted(h)
  BY DEF Inv, Holds
<1>2. \A d \in Jobs \ {c} : Same(d, h)
  BY OthersSame DEF Effect
<1>3. \A s \in Storages :
          /\ Coming(h, s) => Coming(h, s)' \/ ComingBy(c, h, s)
          /\ ComingBy(c, h, s)' => Coming(h, s)'
          /\ Leaving(h, s)' => Leaving(h, s) \/ LeavingBy(c, h, s)'
          /\ LeavingBy(c, h, s) => Leaving(h, s)
          /\ \A op : /\ Finishing(h, s, op) => Finishing(h, s, op)' \/ EndingBy(c, h, s, op)
                     /\ EndingBy(c, h, s, op)' => Finishing(h, s, op)'
  BY <1>2, Parts DEF Inv
<1>4. Left(h)'
  BY <1>1, <1>3 DEF Left
<1>5. Mounted(h)'
  BY <1>1, <1>3 DEF Left, Mounted
<1>6. Wanted(h)'
  <2> SUFFICES ASSUME NEW s \in Storages
               PROVE  /\ want'[h][s] = "mount" => Line(h, s)' \/ Coming(h, s)' \/ Finishing(h, s, "unmount")'
                      /\ want'[h][s] = "unmount" => ~Line(h, s)' \/ Finishing(h, s, "mount")'
                      /\ want'[h][s] = "share" => Share(h, s)'
    BY DEF Wanted
  <2>1. /\ want[h][s] = "mount" => Line(h, s) \/ Coming(h, s) \/ Finishing(h, s, "unmount")
        /\ want[h][s] = "unmount" => ~Line(h, s) \/ Finishing(h, s, "mount")
    BY <1>1 DEF Wanted
  <2>2. want'[h][s] = "mount" => Line(h, s)' \/ Coming(h, s)' \/ Finishing(h, s, "unmount")'
    BY <1>3, <2>1
  <2>3. want'[h][s] = "unmount" => ~Line(h, s)' \/ Finishing(h, s, "mount")'
    BY <1>3, <2>1
  <2> QED
    BY <2>2, <2>3
<1> QED
  BY <1>4, <1>5, <1>6

\* The last step of a job at a file.
LEMMA DoneInv ==
    ASSUME Setting, Inv, NEW c \in Jobs, NEW h \in Hosts, job[c][h] # None,
           job[c][h].at \notin {"check", "do"}, Done(c, h), UNCHANGED <<row, mounted, edited, raced>>,
           fstab' \in [Hosts -> SUBSET Lines], smb' \in [Hosts -> SUBSET Storages],
           \A k \in Hosts \ {h} : fstab'[k] = fstab[k] /\ smb'[k] = smb[k],
           torn' \in {torn, torn \cup {h}}, NEW s0, s0 = job[c][h].s, NEW op, op = job[c][h].op,
           Shape' /\ h \notin torn' =>
               /\ Single(h)'
               /\ \A s \in Storages :
                      /\ s # s0 \/ op \in {"share", "swapoff"} => Line(h, s)' = Line(h, s)
                      /\ s # s0 \/ op # "share" => (Share(h, s) => Share(h, s)')
                      /\ s = s0 /\ op = "mount" => Line(h, s)'
                      /\ s = s0 /\ op = "unmount" => ~Line(h, s)'
                      /\ s = s0 /\ op = "share" => Share(h, s)'
    PROVE  Inv'
<1>1. /\ job' \in [Jobs -> [Hosts -> Works \cup {None}]] /\ req' \in [Calls -> Asked \cup {None}]
      /\ job'[c][h] = None /\ OtherJobs(c, h) /\ Sane(c, h)'
      /\ \A d \in Calls : req'[d] # None => req[d] # None /\ req'[d].s = req[d].s /\ req'[d].src = req[d].src
      /\ want' \in [Hosts -> [Storages -> {"mount", "unmount", "share", None}]]
      /\ \A k \in Hosts \ {h} : want'[k] = want[k]
      /\ \A s \in Storages : want'[h][s] = IF c # Installer /\ s = s0 THEN op ELSE want[h][s]
  BY Finished
<1>2. Effect(c, h)
  BY <1>1 DEF Effect, Inv, Shape
<1>3. /\ job[c][h] \in Works /\ op \in {"share", "mount", "unmount", "swapoff"}
      /\ IF c = Installer THEN op = "swapoff" ELSE op # "swapoff"
  <2>1. Sane(c, h) /\ job[c][h] \in Works
    BY DEF Inv, Shape
  <2> QED
    BY <2>1 DEF Sane, Works
<1>4. ASSUME Shape', h \notin torn' PROVE Single(h)' /\ Left(h)' /\ Mounted(h)' /\ Wanted(h)'
  <2>1. h \notin torn /\ Holds(h) /\ Single(h)' /\ mounted'[h] = mounted[h]
    BY <1>4 DEF Inv
  <2>2. ASSUME NEW s \in Storages
        PROVE  /\ ~LeavingBy(c, h, s)' /\ ~ComingBy(c, h, s)' /\ \A o : ~EndingBy(c, h, s, o)'
               /\ ComingBy(c, h, s) => s = s0 /\ op = "mount"
               /\ s = s0 /\ op = "unmount" => LeavingBy(c, h, s)
               /\ \A o : EndingBy(c, h, s, o) => s = s0 /\ op = o
    BY <1>1 DEF LeavingBy, ComingBy, EndingBy, Fills
  <2>3. ASSUME NEW s \in Storages
        PROVE  /\ s # s0 \/ op \in {"share", "swapoff"} => Line(h, s)' = Line(h, s)
               /\ s # s0 \/ op # "share" => (Share(h, s) => Share(h, s)')
               /\ s = s0 /\ op = "mount" => Line(h, s)'
               /\ s = s0 /\ op = "unmount" => ~Line(h, s)'
               /\ s = s0 /\ op = "share" => Share(h, s)'
               /\ want[h][s] = "share" => Share(h, s)
    BY <1>4, <2>1 DEF Holds, Wanted
  <2>4. ASSUME NEW s \in Storages
        PROVE  Line(h, s) \/ ComingBy(c, h, s) => Line(h, s)' \/ LeavingBy(c, h, s)
    BY <1>3, <2>2, <2>3
  <2>5. ASSUME NEW s \in Storages, want'[h][s] = "mount"
        PROVE  \/ Line(h, s)'
               \/ want[h][s] = "mount" /\ ~Line(h, s) /\ ~EndingBy(c, h, s, "unmount") /\ ~ComingBy(c, h, s)
    <3>1. CASE c # Installer /\ s = s0
      BY <1>1, <2>3, <2>5, <3>1
    <3>2. CASE ~(c # Installer /\ s = s0)
      BY <1>1, <1>3, <2>2, <2>3, <2>5, <3>2
    <3> QED
      BY <3>1, <3>2
  <2>6. ASSUME NEW s \in Storages, want'[h][s] = "unmount"
        PROVE  \/ ~Line(h, s)'
               \/ want[h][s] = "unmount" /\ Line(h, s) /\ ~EndingBy(c, h, s, "mount")
    <3>1. CASE c # Installer /\ s = s0
      BY <1>1, <2>3, <2>6, <3>1
    <3>2. CASE ~(c # Installer /\ s = s0)
      BY <1>1, <1>3, <2>2, <2>3, <2>6, <3>2
    <3> QED
      BY <3>1, <3>2
  <2>7. ASSUME NEW s \in Storages, want'[h][s] = "share" PROVE Share(h, s)'
    <3>1. CASE c # Installer /\ s = s0
      BY <1>1, <2>3, <2>7, <3>1
    <3>2. CASE ~(c # Installer /\ s = s0)
      BY <1>1, <1>3, <2>2, <2>3, <2>7, <3>2
    <3> QED
      BY <3>1, <3>2
  <2> QED
    BY <1>2, <1>4, <2>1, <2>2, <2>4, <2>5, <2>6, <2>7, FileInv
<1> QED
  BY <1>1, <1>2, <1>4, JobInv DEF Holds

\* The file is read.
LEMMA ReadInv ==
    ASSUME Setting, Inv, NEW c \in Jobs, NEW h \in Hosts, Read(c, h)
    PROVE  Inv'
<1>0. job[c][h] # None /\ job[c][h].at = "read" /\ job[c][h] \in Works /\ Sane(c, h) /\ ~Fills(c, h)
  <2>1. Sane(c, h) /\ job[c][h] # None /\ job[c][h].at = "read" /\ job[c][h] \in Works
    BY DEF Read, Inv, Shape
  <2> QED
    BY <2>1 DEF Fills
<1>1. PICK s0, op : s0 = job[c][h].s /\ op = job[c][h].op
  OBVIOUS
<1>2. /\ UNCHANGED <<row, mounted, fstab, smb, edited, raced>>
      /\ torn' = IF Filling(c, h) THEN torn \cup {h} ELSE torn
  BY DEF Read, node
<1>3. CASE NothingToDo(c, h)
  <2>1. Done(c, h)
    BY <1>3 DEF Read
  <2>2. job'[c][h] = None /\ OtherJobs(c, h)
    BY <1>0, <2>1, Finished
  <2>3. ASSUME Shape', h \notin torn'
        PROVE  /\ Single(h)'
               /\ \A s \in Storages :
                      /\ Line(h, s)' = Line(h, s) /\ Share(h, s)' = Share(h, s)
                      /\ s = s0 /\ op = "mount" => Line(h, s)
                      /\ s = s0 /\ op = "unmount" => ~Line(h, s)
                      /\ s = s0 /\ op = "share" => Share(h, s)
    <3>1. ~Filling(c, h) /\ Single(h) /\ \A d \in Jobs \ {c} : Same(d, h)
      BY <1>2, <2>2, <2>3, OthersSame DEF Inv, Holds
    <3>2. ~Fills(c, h)' /\ \A s \in Storages : ~LineBy(c, h, s) /\ ~ShareBy(c, h, s)
      BY <1>0, <2>2 DEF Fills, LineBy, ShareBy
    <3>3. Single(h)' /\ \A s \in Storages : Line(h, s)' = Line(h, s) /\ Share(h, s)' = Share(h, s)
      BY <1>0, <1>2, <2>3, <3>1, <3>2, SameFiles DEF Inv
    <3>4. CASE op = "share"
      <4>1. \A s \in Storages : Share(h, s) <=> s \in smb[h]
        BY <1>0, <1>1, <1>2, <2>3, <3>1, <3>2, <3>4, OfSmb DEF Inv, AtSmb
      <4> QED
        BY <1>1, <1>3, <3>3, <3>4, <4>1 DEF NothingToDo
    <3>5. CASE op # "share"
      <4>1. \A s \in Storages : Line(h, s) <=> Of(fstab[h], s) # {}
        BY <1>0, <1>1, <1>2, <2>3, <3>1, <3>2, <3>5, OfFstab DEF Inv, AtSmb
      <4>2. op = "mount" => Of(fstab[h], s0) # {}
        BY <1>1, <1>3 DEF NothingToDo, Of, Desired
      <4>3. op = "unmount" => Of(fstab[h], s0) = {}
        BY <1>1, <1>3 DEF NothingToDo
      <4> QED
        BY <3>3, <3>5, <4>1, <4>2, <4>3
    <3> QED
      BY <3>4, <3>5
  <2>4. /\ fstab' \in [Hosts -> SUBSET Lines] /\ smb' \in [Hosts -> SUBSET Storages]
        /\ \A k \in Hosts \ {h} : fstab'[k] = fstab[k] /\ smb'[k] = smb[k]
    BY <1>2 DEF Inv, Shape
  <2> QED
    BY <1>0, <1>1, <1>2, <2>1, <2>3, <2>4, DoneInv
<1>4. CASE ~NothingToDo(c, h)
  <2> DEFINE at == IF job[c][h].op = "mount" /\ Of(fstab[h], job[c][h].s) = {} THEN "append" ELSE "write"
             w == [job[c][h] EXCEPT !.seen = File(c, h), !.at = at]
  <2>1. job' = [job EXCEPT ![c][h].seen = File(c, h), ![c][h].at = at] /\ req' = req /\ want' = want
    BY <1>4 DEF Read
  <2>2. /\ at \in {"append", "write"} /\ (at = "append" => op = "mount")
        /\ File(c, h) \subseteq IF op = "share" THEN Storages ELSE Lines
    BY <1>1 DEF Inv, Shape, File
  <2> HIDE DEF at
  <2>3. job' = [job EXCEPT ![c][h] = w]
    BY <2>1, <1>0 DEF Works, Inv, Shape
  <2>4. w \in Works /\ w.seen = File(c, h) /\ w.at = at /\ w.op = op /\ w.s = s0 /\ w.src = job[c][h].src
    BY <1>0, <1>1, <2>2 DEF Works
  <2> HIDE DEF w
  <2>5. /\ job' \in [Jobs -> [Hosts -> Works \cup {None}]] /\ job'[c][h] = w /\ w # None
        /\ \A d \in Jobs, k \in Hosts : d # c \/ k # h => job'[d][k] = job[d][k]
    BY <2>3, <2>4 DEF Inv, Shape, Setting
  <2>6. Effect(c, h)
    BY <1>2, <2>1, <2>5 DEF Effect, OtherJobs, Inv, Shape
  <2>7. Sane(c, h)'
    BY <1>0, <1>1, <2>2, <2>4, <2>5 DEF Sane
  <2>8. ASSUME Shape', h \notin torn' PROVE Single(h)' /\ Left(h)' /\ Mounted(h)' /\ Wanted(h)'
    <3>1. h \notin torn /\ Holds(h) /\ Single(h) /\ Wanted(h) /\ \A d \in Jobs \ {c} : Same(d, h)
      BY <1>2, <2>6, <2>8, OthersSame DEF Inv, Holds, Effect
    <3>2. ~Fills(c, h)'
      BY <2>2, <2>4, <2>5 DEF Fills
    <3>3. Single(h)' /\ \A s \in Storages : Line(h, s)' = Line(h, s) /\ Share(h, s)' = Share(h, s)
      BY <1>0, <1>2, <2>8, <3>1, <3>2, SameFiles DEF Inv
    <3>4. \A s \in Storages : /\ LeavingBy(c, h, s)' => LeavingBy(c, h, s)
                              /\ ComingBy(c, h, s) => ComingBy(c, h, s)'
                              /\ \A o : ~EndingBy(c, h, s, o)
      BY <1>0, <1>1, <2>2, <2>4, <2>5 DEF LeavingBy, ComingBy, EndingBy, Fills
    <3>5. mounted'[h] = mounted[h] /\ want'[h] = want[h]
      BY <1>2, <2>1
    <3> QED
      BY <2>6, <2>8, <3>1, <3>3, <3>4, <3>5, FileInv DEF Wanted
  <2> QED
    BY <2>6, <2>7, <2>8, JobInv DEF Holds
<1> QED
  BY <1>3, <1>4

\* A new line at the end of fstab.
LEMMA AppendInv ==
    ASSUME Setting, Inv, NEW c \in Calls, NEW h \in Hosts, Append(c, h)
    PROVE  Inv'
<1>0. /\ c \in Jobs /\ job[c][h] # None /\ job[c][h].op = "mount" /\ job[c][h].at = "append"
      /\ job[c][h] \in Works /\ Done(c, h)
  BY DEF Append, At, Jobs, Inv, Shape
<1>1. PICK s0 \in Storages, x \in Sources : s0 = job[c][h].s /\ x = job[c][h].src
  <2>1. Sane(c, h) /\ c # Installer
    BY <1>0 DEF Inv, Setting
  <2> QED
    BY <1>0, <2>1 DEF Sane
<1> DEFINE file == (fstab[h] \ Of(fstab[h], s0)) \cup {<<s0, x>>}
<1>2. /\ UNCHANGED <<row, mounted, smb, edited, raced>> /\ fstab' = [fstab EXCEPT ![h] = file]
      /\ torn' = IF Filling(c, h) \/ Of(fstab[h], s0) # {} THEN torn \cup {h} ELSE torn
  BY <1>1 DEF Append, Desired
<1>3. file \subseteq Lines /\ \A s \in Storages : Of(file, s) # {} <=> s = s0 \/ Of(fstab[h], s) # {}
  <2>1. <<s0, x>> \in Lines /\ <<s0, x>>[1] = s0 /\ fstab[h] \subseteq Lines
    BY DEF Lines, Inv, Shape
  <2> QED
    BY <2>1 DEF Of
<1> HIDE DEF file
<1>4. /\ fstab' \in [Hosts -> SUBSET Lines] /\ fstab'[h] = file /\ smb' \in [Hosts -> SUBSET Storages]
      /\ \A k \in Hosts \ {h} : fstab'[k] = fstab[k] /\ smb'[k] = smb[k]
  BY <1>2, <1>3 DEF Inv, Shape
<1>5. job'[c][h] = None /\ OtherJobs(c, h)
  BY <1>0, Finished
<1>6. ASSUME Shape', h \notin torn'
      PROVE  /\ Single(h)'
             /\ \A s \in Storages : /\ Line(h, s)' <=> s = s0 \/ Line(h, s)
                                    /\ Share(h, s)' = Share(h, s)
  <2>1. ~Filling(c, h) /\ Single(h) /\ \A d \in Jobs \ {c} : Same(d, h)
    BY <1>0, <1>2, <1>5, <1>6, OthersSame DEF Inv, Holds
  <2>2. ~AtSmb(c, h) /\ ~Fills(c, h)' /\ \A s \in Storages : ~LineBy(c, h, s) /\ ~LineBy(c, h, s)'
    BY <1>0, <1>5 DEF Fills, LineBy, AtSmb
  <2>3. /\ Single(h)'
        /\ \A s \in Storages : /\ Share(h, s)' = Share(h, s)
                               /\ Line(h, s) <=> Of(fstab[h], s) # {}
                               /\ Line(h, s)' <=> Of(fstab[h], s)' # {}
    BY <1>0, <1>2, <1>6, <2>1, <2>2, OfFstab DEF Inv
  <2>4. \A s : Of(fstab[h], s)' = Of(file, s)
    BY <1>4 DEF Of
  <2> QED
    BY <1>3, <2>3, <2>4
<1>7. /\ job[c][h].at \notin {"check", "do"} /\ torn' \in {torn, torn \cup {h}}
      /\ "mount" = job[c][h].op
  BY <1>0, <1>2
<1>8. Shape' /\ h \notin torn' =>
          /\ Single(h)'
          /\ \A s \in Storages :
                 /\ s # s0 \/ "mount" \in {"share", "swapoff"} => Line(h, s)' = Line(h, s)
                 /\ s # s0 \/ "mount" # "share" => (Share(h, s) => Share(h, s)')
                 /\ s = s0 /\ "mount" = "mount" => Line(h, s)'
                 /\ s = s0 /\ "mount" = "unmount" => ~Line(h, s)'
                 /\ s = s0 /\ "mount" = "share" => Share(h, s)'
  <2>1. \A s \in Storages : Line(h, s) \in BOOLEAN /\ Line(h, s)' \in BOOLEAN
    BY DEF Line
  <2> QED
    BY <1>6, <2>1
<1> QED
  BY <1>0, <1>1, <1>2, <1>4, <1>7, <1>8, DoneInv

\* What a job that writes its file makes of it.
LEMMA Written ==
    ASSUME Setting, Inv, NEW c \in Jobs, NEW h \in Hosts, job[c][h] # None, SetFile(c, h, Kept(c, h))
    PROVE  /\ fstab' \in [Hosts -> SUBSET Lines] /\ smb' \in [Hosts -> SUBSET Storages]
           /\ \A k \in Hosts \ {h} : fstab'[k] = fstab[k] /\ smb'[k] = smb[k]
           /\ fstab'[h] = IF job[c][h].op = "share" THEN fstab[h] ELSE Kept(c, h)
           /\ smb'[h] = IF job[c][h].op = "share" THEN Kept(c, h) ELSE smb[h]
<1>1. Sane(c, h) /\ job[c][h] \in Works
  BY DEF Inv, Shape
<1>2. /\ job[c][h].op = "share" => Kept(c, h) \subseteq Storages
      /\ job[c][h].op # "share" => Kept(c, h) \subseteq Lines
  <2>1. CASE job[c][h].op = "share"
    <3>1. c # Installer
      BY <1>1, <2>1 DEF Sane
    <3> QED
      BY <1>1, <2>1, <3>1 DEF Sane, Kept
  <2>2. CASE job[c][h].op # "share"
    <3>1. job[c][h].seen \subseteq Lines
      BY <1>1, <2>2 DEF Sane
    <3>2. job[c][h].op = "mount" => Desired(c, h) \in Lines
      BY <1>1 DEF Sane, Desired, Lines
    <3> QED
      BY <1>1, <2>2, <3>1, <3>2 DEF Kept, Works, Of
  <2> QED
    BY <2>1, <2>2
<1>3. CASE job[c][h].op = "share"
  <2>1. smb' = [smb EXCEPT ![h] = Kept(c, h)] /\ fstab' = fstab
    BY <1>3 DEF SetFile
  <2> QED
    BY <1>2, <1>3, <2>1 DEF Inv, Shape
<1>4. CASE job[c][h].op # "share"
  <2>1. fstab' = [fstab EXCEPT ![h] = Kept(c, h)] /\ smb' = smb
    BY <1>4 DEF SetFile
  <2> QED
    BY <1>2, <1>4, <2>1 DEF Inv, Shape
<1> QED
  BY <1>3, <1>4

\* A truncated file is filled.
LEMMA FillInv ==
    ASSUME Setting, Inv, NEW c \in Jobs, NEW h \in Hosts, Fill(c, h)
    PROVE  Inv'
<1>0. /\ job[c][h] # None /\ job[c][h].at = "fill" /\ job[c][h] \in Works /\ Done(c, h)
      /\ Sane(c, h) /\ Fills(c, h)
  <2>1. Sane(c, h) /\ job[c][h] # None /\ job[c][h].at = "fill" /\ job[c][h] \in Works
    BY DEF Fill, Inv, Shape
  <2> QED
    BY <2>1 DEF Fill, Fills
<1>1. PICK s0, op : s0 = job[c][h].s /\ op = job[c][h].op
  OBVIOUS
<1>2. /\ UNCHANGED <<row, mounted, edited, raced>> /\ SetFile(c, h, Kept(c, h))
      /\ torn' = IF File(c, h) # {} THEN torn \cup {h} ELSE torn
  BY DEF Fill
<1>3. /\ fstab' \in [Hosts -> SUBSET Lines] /\ smb' \in [Hosts -> SUBSET Storages]
      /\ \A k \in Hosts \ {h} : fstab'[k] = fstab[k] /\ smb'[k] = smb[k]
      /\ fstab'[h] = IF op = "share" THEN fstab[h] ELSE Kept(c, h)
      /\ smb'[h] = IF op = "share" THEN Kept(c, h) ELSE smb[h]
  BY <1>0, <1>1, <1>2, Written
<1>4. job'[c][h] = None /\ OtherJobs(c, h)
  BY <1>0, Finished
<1>5. /\ op \in {"share", "mount", "unmount"} /\ s0 \in Storages
      /\ op = "share" => s0 \in Kept(c, h)
      /\ op = "mount" => Of(Kept(c, h), s0) # {}
      /\ op = "unmount" => Of(Kept(c, h), s0) = {}
  <2>1. op \in {"share", "mount", "unmount"} /\ s0 \in Storages
    BY <1>0, <1>1 DEF Sane, Works
  <2> QED
    BY <1>0, <1>1, <2>1, KeptLines
<1>6. ASSUME Shape', h \notin torn'
      PROVE  /\ Single(h)'
             /\ \A s \in Storages : /\ Line(h, s)' = Line(h, s) /\ Share(h, s)' = Share(h, s)
                                    /\ s = s0 /\ op = "mount" => Line(h, s)
                                    /\ s = s0 /\ op = "unmount" => ~Line(h, s)
                                    /\ s = s0 /\ op = "share" => Share(h, s)
  <2>1. Single(h) /\ \A d \in Jobs \ {c} : Same(d, h)
    BY <1>0, <1>2, <1>4, <1>6, OthersSame DEF Inv, Holds
  <2>2. ~Filling(c, h) /\ File(c, h) = {}
    <3>1. \A d \in Jobs \ {c} : ~(Fills(d, h) /\ AtSmb(d, h) = AtSmb(c, h))
      BY <1>0, <2>1 DEF Single
    <3>2. DOMAIN job = Jobs
      BY DEF Inv, Shape
    <3>3. File(c, h) = {}
      BY <1>0, <2>1 DEF Single
    <3> QED
      BY <3>1, <3>2, <3>3 DEF Filling, Fills, AtSmb
  <2>3. ~Fills(c, h)' /\ \A s \in Storages : ~LineBy(c, h, s)' /\ ~ShareBy(c, h, s)'
    BY <1>4 DEF Fills, LineBy, ShareBy
  <2>4. CASE op = "share"
    <3>1. /\ Single(h)'
          /\ \A s \in Storages : /\ Line(h, s)' = Line(h, s)
                                 /\ Share(h, s) <=> s \in smb[h] \/ ShareBy(c, h, s)
                                 /\ Share(h, s)' <=> s \in smb'[h]
      BY <1>0, <1>1, <1>3, <1>6, <2>1, <2>2, <2>3, <2>4, OfSmb DEF Inv, AtSmb
    <3>2. smb[h] = {} /\ \A s \in Storages : ShareBy(c, h, s) <=> s \in Kept(c, h)
      BY <1>0, <1>1, <2>2, <2>4 DEF File, ShareBy, AtSmb
    <3>3. \A s \in Storages : Share(h, s)' = Share(h, s)
      <4>1. \A s \in Storages : Share(h, s)' <=> Share(h, s)
        BY <1>3, <2>4, <3>1, <3>2
      <4>2. \A s \in Storages : Share(h, s) \in BOOLEAN /\ Share(h, s)' \in BOOLEAN
        BY DEF Share
      <4> QED
        BY <4>1, <4>2
    <3> QED
      BY <1>3, <1>5, <2>4, <3>1, <3>2, <3>3
  <2>5. CASE op # "share"
    <3>1. /\ Single(h)'
          /\ \A s \in Storages : /\ Share(h, s)' = Share(h, s)
                                 /\ Line(h, s) <=> Of(fstab[h], s) # {} \/ LineBy(c, h, s)
                                 /\ Line(h, s)' <=> Of(fstab[h], s)' # {}
      BY <1>0, <1>1, <1>3, <1>6, <2>1, <2>2, <2>3, <2>5, OfFstab DEF Inv, AtSmb
    <3>2. \A s \in Storages : Of(fstab[h], s) = {} /\ (LineBy(c, h, s) <=> Of(Kept(c, h), s) # {})
      BY <1>0, <1>1, <2>2, <2>5 DEF File, LineBy, AtSmb, Of
    <3>3. \A s \in Storages : Of(fstab[h], s)' = Of(Kept(c, h), s)
      BY <1>3, <2>5 DEF Of
    <3>4. \A s \in Storages : Line(h, s)' = Line(h, s)
      <4>1. \A s \in Storages : Line(h, s)' <=> Line(h, s)
        BY <3>1, <3>2, <3>3
      <4>2. \A s \in Storages : Line(h, s) \in BOOLEAN /\ Line(h, s)' \in BOOLEAN
        BY DEF Line
      <4> QED
        BY <4>1, <4>2
    <3> QED
      BY <1>5, <2>5, <3>1, <3>2, <3>4
  <2> QED
    BY <2>4, <2>5
<1> QED
  BY <1>0, <1>1, <1>2, <1>3, <1>6, DoneInv

\* A file is truncated, or its copy renamed over it.
LEMMA RewriteInv ==
    ASSUME Setting, Inv, NEW c \in Jobs, NEW h \in Hosts, Rewrite(c, h)
    PROVE  Inv'
<1>0. job[c][h] # None /\ job[c][h].at = "write" /\ job[c][h] \in Works /\ Sane(c, h) /\ ~Fills(c, h)
  <2>1. Sane(c, h) /\ job[c][h] # None /\ job[c][h].at = "write" /\ job[c][h] \in Works
    BY DEF Rewrite, Inv, Shape
  <2> QED
    BY <2>1 DEF Fills
<1>1. PICK s0, op : s0 = job[c][h].s /\ op = job[c][h].op
  OBVIOUS
<1>2. /\ UNCHANGED <<row, mounted, edited, raced>>
      /\ torn' = IF job[c][h].seen # File(c, h) \/ Filling(c, h) THEN torn \cup {h} ELSE torn
  BY DEF Rewrite
<1>3. \A s \in Storages : ~LineBy(c, h, s) /\ ~ShareBy(c, h, s)
  BY <1>0 DEF LineBy, ShareBy
<1>4. CASE op = "swapoff"
  <2>1. Done(c, h) /\ SetFile(c, h, Kept(c, h))
    BY <1>1, <1>4 DEF Rewrite
  <2>2. /\ fstab' \in [Hosts -> SUBSET Lines] /\ smb' \in [Hosts -> SUBSET Storages]
        /\ \A k \in Hosts \ {h} : fstab'[k] = fstab[k] /\ smb'[k] = smb[k]
        /\ fstab'[h] = Kept(c, h) /\ smb'[h] = smb[h]
    BY <1>0, <1>1, <1>4, <2>1, Written
  <2>3. job'[c][h] = None /\ OtherJobs(c, h)
    BY <1>0, <2>1, Finished
  <2>4. ASSUME Shape', h \notin torn'
        PROVE  Single(h)' /\ \A s \in Storages : Line(h, s)' = Line(h, s) /\ Share(h, s)' = Share(h, s)
    <3>1. /\ ~Filling(c, h) /\ job[c][h].seen = fstab[h]
          /\ Single(h) /\ \A d \in Jobs \ {c} : Same(d, h)
      BY <1>1, <1>2, <1>4, <2>3, <2>4, OthersSame DEF Inv, Holds, File
    <3>2. ~AtSmb(c, h) /\ ~Fills(c, h)' /\ \A s \in Storages : ~LineBy(c, h, s)'
      BY <1>1, <1>4, <2>3 DEF Fills, LineBy, AtSmb
    <3>3. /\ Single(h)'
          /\ \A s \in Storages : /\ Share(h, s)' = Share(h, s)
                                 /\ Line(h, s) <=> Of(fstab[h], s) # {}
                                 /\ Line(h, s)' <=> Of(fstab[h], s)' # {}
      BY <1>0, <1>3, <2>2, <2>4, <3>1, <3>2, OfFstab DEF Inv
    <3>4. \A s \in Storages : Of(fstab[h], s)' # {} <=> Of(fstab[h], s) # {}
      <4>1. \A s \in Storages : Of(Kept(c, h), s) # {} <=> Of(fstab[h], s) # {}
        BY <1>0, <1>1, <1>4, <3>1, KeptLines
      <4>2. \A s \in Storages : Of(fstab[h], s)' = Of(Kept(c, h), s)
        BY <2>2 DEF Of
      <4> QED
        BY <4>1, <4>2
    <3>5. \A s \in Storages : Line(h, s) \in BOOLEAN /\ Line(h, s)' \in BOOLEAN
      BY DEF Line
    <3> QED
      BY <3>3, <3>4, <3>5
  <2> QED
    BY <1>0, <1>1, <1>2, <1>4, <2>1, <2>2, <2>4, DoneInv
<1>5. CASE op # "swapoff"
  <2>1. Goto(c, h, "fill") /\ SetFile(c, h, {}) /\ want' = want
    BY <1>1, <1>5 DEF Rewrite
  <2>2. OtherJobs(c, h) /\ job'[c][h] = [job[c][h] EXCEPT !.at = "fill"] /\ req' = req
        /\ job' \in [Jobs -> [Hosts -> Works \cup {None}]]
    BY <1>0, <2>1, Going DEF Inv
  <2>3. job'[c][h] # None /\ job'[c][h].at = "fill" /\ job'[c][h].op = op /\ job'[c][h].s = s0
        /\ job'[c][h].seen = job[c][h].seen /\ job'[c][h].src = job[c][h].src
    <3>1. job'[c][h] \in Works
      BY <1>0, <2>2 DEF Works
    <3> QED
      BY <1>0, <1>1, <2>2, <3>1 DEF Works, Setting
  <2>4. /\ fstab' \in [Hosts -> SUBSET Lines] /\ smb' \in [Hosts -> SUBSET Storages]
        /\ \A k \in Hosts \ {h} : fstab'[k] = fstab[k] /\ smb'[k] = smb[k]
        /\ fstab'[h] = IF op = "share" THEN fstab[h] ELSE {}
        /\ smb'[h] = IF op = "share" THEN {} ELSE smb[h]
    BY <1>1, <2>1 DEF SetFile, Inv, Shape
  <2>5. Effect(c, h)
    BY <1>2, <2>1, <2>2, <2>4 DEF Effect, Inv, Shape
  <2>6. /\ op \in {"share", "mount", "unmount"} /\ s0 \in Storages /\ c # Installer
        /\ op = "share" => h = Owner
        /\ job[c][h].seen \subseteq IF op = "share" THEN Storages ELSE Lines
    BY <1>0, <1>1, <1>5 DEF Sane, Works
  <2>7. Sane(c, h)'
    BY <1>0, <1>1, <1>5, <2>3, <2>6 DEF Sane
  <2>8. Fills(c, h)' /\ Kept(c, h)' = Kept(c, h) /\ AtSmb(c, h)' = (op = "share")
    BY <1>1, <2>3 DEF Fills, Kept, Desired, AtSmb
  <2>9. ASSUME NEW s \in Storages
        PROVE  /\ LeavingBy(c, h, s)' => LeavingBy(c, h, s)
               /\ ComingBy(c, h, s) => s = s0 /\ op = "mount"
               /\ s = s0 /\ op = "unmount" => LeavingBy(c, h, s)
               /\ \A o : ~EndingBy(c, h, s, o) /\ (EndingBy(c, h, s, o)' <=> s = s0 /\ op = o)
    BY <1>0, <1>1, <2>3 DEF LeavingBy, ComingBy, EndingBy, Fills
  <2>10. ASSUME Shape', h \notin torn' PROVE Single(h)' /\ Left(h)' /\ Mounted(h)' /\ Wanted(h)'
    <3>1. /\ ~Filling(c, h) /\ job[c][h].seen = File(c, h) /\ h \notin torn
          /\ Single(h) /\ Wanted(h) /\ \A d \in Jobs \ {c} : Same(d, h)
      BY <1>2, <2>2, <2>10, OthersSame DEF Inv, Holds
    <3>2. mounted'[h] = mounted[h] /\ want'[h] = want[h]
      BY <1>2, <2>1
    <3>3. CASE op = "share"
      <4>1. /\ Single(h)'
            /\ \A s \in Storages : /\ Line(h, s)' = Line(h, s)
                                   /\ Share(h, s) <=> s \in smb[h]
                                   /\ Share(h, s)' <=> s \in smb'[h] \/ ShareBy(c, h, s)'
        BY <1>0, <1>1, <1>3, <2>4, <2>8, <2>10, <3>1, <3>3, OfSmb DEF Inv, AtSmb
      <4>2. \A s \in Storages : s \in smb[h] => ShareBy(c, h, s)'
        BY <1>1, <2>8, <3>1, <3>3 DEF ShareBy, Kept, File
      <4>3. \A s \in Storages : want'[h][s] = "share" => Share(h, s)'
        BY <3>1, <3>2, <4>1, <4>2 DEF Wanted
      <4> QED
        BY <2>5, <2>9, <2>10, <3>1, <3>2, <3>3, <4>1, <4>3, FileInv
    <3>4. CASE op # "share"
      <4>1. /\ Single(h)'
            /\ \A s \in Storages : /\ Share(h, s)' = Share(h, s)
                                   /\ Line(h, s) <=> Of(fstab[h], s) # {}
                                   /\ Line(h, s)' <=> Of(fstab[h], s)' # {} \/ LineBy(c, h, s)'
        BY <1>0, <1>1, <1>3, <2>4, <2>8, <2>10, <3>1, <3>4, OfFstab DEF Inv, AtSmb
      <4>2. \A s \in Storages : Of(fstab[h], s)' = {}
        BY <2>4, <3>4 DEF Of
      <4>3. \A s \in Storages : LineBy(c, h, s)' <=> Of(Kept(c, h), s) # {}
        <5>1. \A s \in Storages : Of(Kept(c, h), s)' = Of(Kept(c, h), s)
          BY <2>8 DEF Of
        <5> QED
          BY <2>8, <3>4, <5>1 DEF LineBy
      <4>4. job[c][h].seen = fstab[h]
        BY <1>1, <3>1, <3>4 DEF File
      <4>5. \A s \in Storages : /\ op = "mount" => (Line(h, s)' <=> s = s0 \/ Line(h, s))
                                /\ op = "unmount" => (Line(h, s)' <=> s # s0 /\ Line(h, s))
        BY <1>0, <1>1, <4>1, <4>2, <4>3, <4>4, KeptLines
      <4>6. \A s \in Storages : want'[h][s] = "share" => Share(h, s)'
        BY <3>1, <3>2, <4>1 DEF Wanted
      <4>7. CASE op = "mount"
        BY <2>5, <2>9, <2>10, <3>1, <3>2, <4>1, <4>5, <4>6, <4>7, FileInv
      <4>8. CASE op = "unmount"
        BY <2>5, <2>9, <2>10, <3>1, <3>2, <4>1, <4>5, <4>6, <4>8, FileInv
      <4> QED
        BY <2>6, <3>4, <4>7, <4>8
    <3> QED
      BY <3>3, <3>4
  <2> QED
    BY <2>5, <2>7, <2>10, JobInv DEF Holds
<1> QED
  BY <1>4, <1>5
-----------------------------------------------------------------------------
\* A job fails: at the directory or the share nothing was done, at the file the
\* host is torn.
LEMMA FailsInv ==
    ASSUME Setting, Inv, NEW c \in Jobs, NEW h \in Hosts, Fails(c, h)
    PROVE  Inv'
<1>0. /\ job[c][h] # None /\ job[c][h] \in Works /\ Sane(c, h) /\ job[c][h].at # "fill"
      /\ UNCHANGED <<row, mounted, fstab, smb, edited, raced>>
  <2>1. Sane(c, h) /\ job[c][h] # None /\ job[c][h] \in Works
    BY DEF Fails, Inv, Shape
  <2> QED
    BY <2>1 DEF Fails, node
<1>1. CASE job[c][h].at \in {"check", "do"} \/ job[c][h].op = "share"
  <2>1. Answered(c, h, FALSE) /\ UNCHANGED <<want, torn>>
    BY <1>1 DEF Fails
  <2>2. Effect(c, h) /\ job'[c][h] = None
    BY <1>0, <2>1, Ending DEF Inv, Shape, Effect
  <2>3. Sane(c, h)' /\ Same(c, h)
    BY <1>0, <1>1, <2>2 DEF Sane, Same, Matters
  <2>4. \A d \in Jobs : Same(d, h)
    BY <2>2, <2>3, OthersSame DEF Effect
  <2> QED
    BY <1>0, <2>1, <2>2, <2>3, <2>4, JobInv, StillHolds DEF Inv
<1>2. CASE ~(job[c][h].at \in {"check", "do"} \/ job[c][h].op = "share")
  <2>1. Done(c, h) /\ torn' = torn \cup {h}
    BY <1>2 DEF Fails
  <2>2. /\ job' \in [Jobs -> [Hosts -> Works \cup {None}]] /\ req' \in [Calls -> Asked \cup {None}]
        /\ OtherJobs(c, h) /\ Sane(c, h)'
        /\ \A d \in Calls : req'[d] # None => req[d] # None /\ req'[d].s = req[d].s
              /\ req'[d].src = req[d].src
        /\ want' \in [Hosts -> [Storages -> {"mount", "unmount", "share", None}]]
        /\ \A k \in Hosts \ {h} : want'[k] = want[k]
    BY <1>0, <2>1, Finished
  <2>3. Effect(c, h)
    BY <1>0, <2>1, <2>2 DEF Effect, Inv, Shape
  <2> QED
    BY <2>1, <2>2, <2>3, JobInv DEF Holds
<1> QED
  BY <1>1, <1>2

\* A host starts again: none of its jobs is at a file, or it is torn.
LEMMA RestartInv ==
    ASSUME Setting, Inv, NEW h \in Hosts, Restart(h)
    PROVE  Inv'
<1>1. UNCHANGED <<row, fstab, smb, want, edited, raced>>
  BY DEF Restart
<1>2. /\ job' \in [Jobs -> [Hosts -> Works \cup {None}]] /\ \A d \in Jobs : job'[d][h] = None
      /\ \A d \in Jobs, k \in Hosts \ {h} : job'[d][k] = job[d][k]
  BY DEF Restart, Inv, Shape
<1>3. /\ req' \in [Calls -> Asked \cup {None}]
      /\ \A d \in Calls : req'[d] # None => req[d] # None /\ req'[d].s = req[d].s /\ req'[d].src = req[d].src
  <2> DEFINE q(d) == IF h = Master \/ req[d] = None THEN None
                     ELSE IF req[d].at # h THEN req[d]
                     ELSE [req[d] EXCEPT !.at = None, !.target = None, !.failed = TRUE]
  <2>1. req' = [d \in Calls |-> q(d)]
    BY DEF Restart
  <2>2. ASSUME NEW d \in Calls
        PROVE  /\ q(d) \in Asked \cup {None}
               /\ q(d) # None => req[d] # None /\ q(d).s = req[d].s /\ q(d).src = req[d].src
    <3>1. CASE req[d] = None
      BY <3>1
    <3>2. CASE req[d] # None
      <4> DEFINE r == [req[d] EXCEPT !.at = None, !.target = None, !.failed = TRUE]
      <4>1. req[d] \in Asked
        BY <3>2 DEF Inv, Shape
      <4>2. r \in Asked /\ r.s = req[d].s /\ r.src = req[d].src
        BY <4>1 DEF Asked
      <4>3. q(d) \in {None, req[d], r}
        BY <3>2
      <4> HIDE DEF r, q
      <4> QED
        BY <3>2, <4>1, <4>2, <4>3
    <3> QED
      BY <3>1, <3>2
  <2> HIDE DEF q
  <2> QED
    BY <2>1, <2>2
<1>4. /\ mounted' \in [Hosts -> [Storages -> Sources \cup {None}]]
      /\ \A k \in Hosts \ {h} : mounted'[k] = mounted[k]
      /\ \A s \in Storages : mounted'[h][s] # None => mounted[h][s] # None \/ Of(fstab[h], s) # {}
  <2>1. CASE mounted' = mounted
    BY <2>1 DEF Inv, Shape
  <2>2. CASE mounted' # mounted
    <3> DEFINE src(s) == (CHOOSE l \in Of(fstab[h], s) : TRUE)[2]
    <3>1. PICK up \in SUBSET {s \in Storages : Of(fstab[h], s) # {}} :
             mounted' = [mounted EXCEPT ![h] = [s \in Storages |-> IF s \in up THEN src(s) ELSE None]]
      BY <2>2 DEF Restart
    <3>2. ASSUME NEW s \in up PROVE s \in Storages /\ src(s) \in Sources /\ Of(fstab[h], s) # {}
      <4>1. s \in Storages /\ Of(fstab[h], s) # {}
        OBVIOUS
      <4> DEFINE l == CHOOSE x \in Of(fstab[h], s) : TRUE
      <4>2. l \in fstab[h] /\ l[1] = s
        BY <4>1 DEF Of
      <4>3. l \in Lines /\ l # Swap
        <5>1. Swap[1] = "swap" /\ fstab[h] \subseteq Lines
          BY DEF Swap, Inv, Shape
        <5> HIDE DEF l
        <5> QED
          BY <4>1, <4>2, <5>1 DEF Setting
      <4> QED
        BY <4>1, <4>3 DEF Lines
    <3> HIDE DEF src
    <3> DEFINE after == [s \in Storages |-> IF s \in up THEN src(s) ELSE None]
    <3>3. after \in [Storages -> Sources \cup {None}] /\ \A s \in Storages : after[s] # None => Of(fstab[h], s) # {}
      BY <3>2
    <3> HIDE DEF after
    <3>4. mounted' = [mounted EXCEPT ![h] = after]
      BY <3>1 DEF after
    <3> QED
      BY <3>3, <3>4 DEF Inv, Shape
  <2> QED
    BY <2>1, <2>2
<1>5. torn \subseteq torn'
          /\ (h \notin torn' => \A d \in Jobs : job[d][h] # None => job[d][h].at \in {"check", "do"})
  BY DEF Restart, Inv, Shape
<1>6. Shape'
  BY <1>1, <1>2, <1>3, <1>4 DEF Inv, Shape
<1>7. ASSUME NEW k \in Hosts PROVE Holds(k)'
  <2>1. CASE k # h
    <3>1. \A d \in Jobs : Same(d, k)
      BY <1>2, <2>1 DEF Same, Matters
    <3> QED
      BY <1>1, <1>4, <1>5, <1>6, <2>1, <3>1, StillHolds DEF Inv
  <2>2. CASE k = h
    <3> SUFFICES ASSUME h \notin torn' PROVE Single(h)' /\ Left(h)' /\ Mounted(h)' /\ Wanted(h)'
      BY <2>2 DEF Holds
    <3>1. Single(h) /\ Mounted(h) /\ Wanted(h)
      BY <1>5 DEF Inv, Holds
    <3>2. \A d \in Jobs : Same(d, h)
      BY <1>2, <1>5 DEF Same, Matters
    <3>3. /\ Single(h)'
          /\ \A s \in Storages :
                 /\ Line(h, s)' = Line(h, s) /\ Share(h, s)' = Share(h, s)
                 /\ Coming(h, s)' = Coming(h, s) /\ Leaving(h, s)' = Leaving(h, s)
                 /\ \A op : Finishing(h, s, op)' = Finishing(h, s, op)
      BY <1>1, <1>6, <3>1, <3>2, StillThere DEF Inv
    <3>4. \A s \in Storages : ~Leaving(h, s)'
      BY <1>2 DEF Leaving, Shape
    <3>5. Left(h)'
      BY <3>4 DEF Left
    <3>6. Mounted(h)'
      BY <1>4, <3>1, <3>3 DEF Mounted, Line
    <3>7. Wanted(h)'
      BY <1>1, <3>1, <3>3 DEF Wanted
    <3> QED
      BY <3>3, <3>5, <3>6, <3>7
  <2> QED
    BY <2>1, <2>2
<1>8. \A d \in Jobs, k \in Hosts : Sane(d, k)'
  BY <1>2 DEF Inv, Sane
<1>9. (\A d \in Calls : Latest(d)') /\ EditsStay'
  BY <1>1, <1>3, StayLatest DEF Inv
<1> QED
  BY <1>6, <1>7, <1>8, <1>9 DEF Inv

\* Every step keeps it.
LEMMA NextInv ==
    ASSUME Setting, Inv, [Next]_vars
    PROVE  Inv'
<1>1. CASE UNCHANGED vars
  <2>1. /\ UNCHANGED <<row, req, job, mounted, fstab, smb, want, torn, edited, raced>>
        /\ Shape' /\ \A c \in Jobs, h \in Hosts : Same(c, h)
    BY <1>1 DEF vars, work, node, history, Inv, Shape, Same
  <2>2. \A h \in Hosts : Holds(h)'
    BY <2>1, AllHold DEF Inv
  <2>3. \A c \in Jobs, h \in Hosts : Sane(c, h)'
    BY <2>1 DEF Inv, Sane
  <2>4. (\A c \in Calls : Latest(c)') /\ EditsStay'
    BY <2>1, StayLatest DEF Inv
  <2> QED
    BY <2>1, <2>2, <2>3, <2>4 DEF Inv
<1>2. CASE \/ \E s \in Storages : Edit(s) \/ Delete(s)
           \/ \E c \in Calls, kind \in Requests, s \in Storages, targets \in Targets \cup {{Owner}} :
                 Ask(c, kind, s, targets)
           \/ \E c \in Calls : AnswerLost(c) \/ Finish(c)
  BY <1>2, PageInv
<1>3. CASE (\E c \in Calls : NextHost(c)) \/ \E h \in Hosts : StartSwapOff(h)
  BY <1>3, BeginInv
<1>4. CASE \E c \in Calls, h \in Hosts :
              MountCheck(c, h) \/ Mount(c, h) \/ UnmountCheck(c, h) \/ Unmount(c, h) \/ Append(c, h)
  BY <1>4, MountCheckInv, MountInv, UnmountedInv, AppendInv
<1>5. CASE \E c \in Jobs, h \in Hosts : Fails(c, h) \/ Read(c, h) \/ Rewrite(c, h) \/ Fill(c, h)
  BY <1>5, FailsInv, ReadInv, RewriteInv, FillInv
<1>6. CASE \E h \in Hosts : Restart(h)
  BY <1>6, RestartInv
<1> QED
  BY <1>1, <1>2, <1>3, <1>4, <1>5, <1>6 DEF Next, Jobs

\* The last word holds where no job is left.
LEMMA InvLast ==
    ASSUME Setting, Inv
    PROVE  StoragesLast
<1> SUFFICES ASSUME NEW h \in Hosts, NEW s \in Storages, Quiet(h)
             PROVE  /\ want[h][s] = "mount" => Of(fstab[h], s) # {}
                    /\ want[h][s] = "unmount" => Of(fstab[h], s) = {}
                    /\ want[h][s] = "share" => s \in smb[h]
  BY DEF Inv, StoragesLast, LastWordHolds
<1>1. h \notin torn /\ \A d \in Jobs : job[d][h] = None
  BY DEF Quiet, Inv, Shape
<1>2. Wanted(h)
  BY <1>1 DEF Inv, Holds
<1>3. /\ Line(h, s) <=> Of(fstab[h], s) # {}
      /\ Share(h, s) <=> s \in smb[h]
      /\ ~Coming(h, s) /\ \A op : ~Finishing(h, s, op)
  BY <1>1 DEF Line, LineBy, Share, ShareBy, Coming, ComingBy, Finishing, EndingBy, Fills
<1> QED
  BY <1>2, <1>3 DEF Wanted

\* storage.rs: what was last done to a directory of a host is what its next boot
\* finds, and the row the user gave last stays.
THEOREM StoragesKeepTheLastWord == ASSUME Setting PROVE Spec => []StoragesLast
<1>1. Init => Inv
  BY InitInv
<1>2. Inv /\ [Next]_vars => Inv'
  BY NextInv
<1>3. Inv => StoragesLast
  BY InvLast
<1> QED
  BY <1>1, <1>2, <1>3, PTL DEF Spec
-----------------------------------------------------------------------------
(***************************************************************************)
(* The types.  Besides the shape of everything: a file has one line for a  *)
(* storage at most, and smb.conf has only storages that are shares.        *)
(***************************************************************************)
OneForEach(lines) == \A l, m \in lines : l[1] = m[1] /\ l[1] \in Storages => l = m

\* What a job has read is what a file may hold; who shares has a share.
ReadWell(w) ==
    IF w.op = "share" THEN w.s \in Shares /\ w.seen \subseteq Shares ELSE OneForEach(w.seen)
Fits(c, h) == job[c][h] # None => ReadWell(job[c][h])
ForShares(c) == req[c] # None /\ req[c].kind = "share" => req[c].s \in Shares

FilesFit ==
    /\ \A h \in Hosts : OneForEach(fstab[h]) /\ smb[h] \subseteq Shares
    /\ \A c \in Jobs, h \in Hosts : Fits(c, h)
    /\ \A c \in Calls : ForShares(c)

\* What a job makes of what it read may be in its file.
LEMMA KeptFits ==
    ASSUME NEW c \in Jobs, NEW h \in Hosts, job[c][h] # None, job[c][h] \in Works, Fits(c, h)
    PROVE  IF job[c][h].op = "share" THEN Kept(c, h) \subseteq Shares ELSE OneForEach(Kept(c, h))
<1> DEFINE w == job[c][h]
<1>1. CASE w.op = "share"
  BY <1>1 DEF Kept, Fits, ReadWell
<1>2. CASE w.op = "mount"
  <2>1. Kept(c, h) = (w.seen \ Of(w.seen, w.s)) \cup {<<w.s, w.src>>} /\ OneForEach(w.seen)
    BY <1>2 DEF Kept, Desired, Fits, ReadWell
  <2> HIDE DEF w
  <2>2. \A l \in w.seen \ Of(w.seen, w.s) : l[1] # w.s
    BY DEF Of
  <2>3. <<w.s, w.src>>[1] = w.s
    OBVIOUS
  <2>4. OneForEach(Kept(c, h))
    BY <2>1, <2>2, <2>3 DEF OneForEach
  <2> QED
    BY <1>2, <2>4 DEF w
<1>3. CASE w.op \in {"unmount", "swapoff"}
  <2>1. Kept(c, h) \subseteq w.seen /\ OneForEach(w.seen) /\ w.op # "share"
    BY <1>3 DEF Kept, Fits, ReadWell
  <2> QED
    BY <2>1 DEF OneForEach
<1> QED
  BY <1>1, <1>2, <1>3 DEF Works

\* A job that goes on has read what it had read.
LEMMA GotoFits ==
    ASSUME Shape, FilesFit, NEW c \in Jobs, NEW h \in Hosts, job[c][h] # None, NEW at, Goto(c, h, at)
    PROVE  (\A d \in Jobs, k \in Hosts : Fits(d, k)') /\ \A d \in Calls : ForShares(d)'
<1>1. job[c][h] \in Works /\ req' = req
  BY DEF Shape, Goto
<1> DEFINE w == [job[c][h] EXCEPT !.at = at]
<1>2. job' = [job EXCEPT ![c] = [job[c] EXCEPT ![h] = w]]
  BY DEF Goto
<1>3. w.op = job[c][h].op /\ w.s = job[c][h].s /\ w.seen = job[c][h].seen
  BY <1>1 DEF Works
<1> HIDE DEF w
<1>4. job'[c][h] = w /\ \A d \in Jobs, k \in Hosts : d # c \/ k # h => job'[d][k] = job[d][k]
  BY <1>2 DEF Shape
<1>5. Fits(c, h)'
  BY <1>3, <1>4 DEF FilesFit, Fits, ReadWell, OneForEach
<1>6. \A d \in Jobs, k \in Hosts : d # c \/ k # h => Fits(d, k)'
  BY <1>4 DEF FilesFit, Fits
<1> QED
  BY <1>1, <1>5, <1>6 DEF FilesFit, ForShares

\* A job that ends leaves no more than one that has not begun to read.
LEMMA AnsweredFits ==
    ASSUME Setting, Shape, FilesFit, NEW c \in Jobs, NEW h \in Hosts, job[c][h] # None, Sane(c, h),
           NEW ok, Answered(c, h, ok)
    PROVE  (\A d \in Jobs, k \in Hosts : Fits(d, k)') /\ \A d \in Calls : ForShares(d)'
<1>1. CASE c = Installer \/ (c # Installer => req[c] = None \/ req[c].at # h)
  <2>1. job' = [job EXCEPT ![c] = [job[c] EXCEPT ![h] = None]] /\ req' = req
    BY <1>1 DEF Answered
  <2>2. \A d \in Jobs, k \in Hosts : job'[d][k] \in {job[d][k], None}
    BY <2>1 DEF Shape
  <2> QED
    BY <2>1, <2>2 DEF FilesFit, Fits, ForShares
<1>2. CASE c # Installer /\ req[c] # None /\ req[c].at = h
  <2>1. c \in Calls /\ req[c] \in Asked
    BY <1>2 DEF Jobs, Shape
  <2>2. CASE ok /\ job[c][h].op = "share" /\ req[c].target # Owner
    <3> DEFINE t == req[c].target
               w == NewJob("mount", c)
    <3>1. /\ job' = [job EXCEPT ![c] = [[job[c] EXCEPT ![h] = None] EXCEPT ![t] = w]]
          /\ req' = [req EXCEPT ![c] = [req[c] EXCEPT !.at = t]]
      BY <1>2, <2>2 DEF Answered
    <3>2. w.op = "mount" /\ w.seen = {}
      BY DEF NewJob
    <3> HIDE DEF t, w
    <3>3. \A d \in Jobs, k \in Hosts : job'[d][k] \in {job[d][k], None, w}
      BY <3>1 DEF Shape
    <3>4. ReadWell(w)
      BY <3>2 DEF ReadWell, OneForEach
    <3>5. \A d \in Calls : req'[d] # None => req[d] # None /\ req'[d].kind = req[d].kind /\ req'[d].s = req[d].s
      BY <1>2, <2>1, <3>1 DEF Shape, Asked
    <3> QED
      BY <3>3, <3>4, <3>5 DEF FilesFit, Fits, ForShares
  <2>3. CASE ~(ok /\ job[c][h].op = "share" /\ req[c].target # Owner)
    <3>1. job' = [job EXCEPT ![c] = [job[c] EXCEPT ![h] = None]]
      BY <1>2, <2>3 DEF Answered
    <3>2. req' = [req EXCEPT ![c] = [req[c] EXCEPT !.at = None, !.target = None, !.failed = req[c].failed \/ ~ok]]
      BY <1>2, <2>3 DEF Answered
    <3>3. \A d \in Jobs, k \in Hosts : job'[d][k] \in {job[d][k], None}
      BY <3>1 DEF Shape
    <3>4. \A d \in Calls : req'[d] # None => req[d] # None /\ req'[d].kind = req[d].kind /\ req'[d].s = req[d].s
      BY <1>2, <2>1, <3>2 DEF Shape, Asked
    <3> QED
      BY <3>3, <3>4 DEF FilesFit, Fits, ForShares
  <2> QED
    BY <2>2, <2>3
<1> QED
  BY <1>1, <1>2

\* Requests come and go.
LEMMA PageFits ==
    ASSUME Setting, Shape, FilesFit,
           \/ \E s \in Storages : Edit(s) \/ Delete(s)
           \/ \E c \in Calls, kind \in Requests, s \in Storages, targets \in Targets \cup {{Owner}} :
                 Ask(c, kind, s, targets)
           \/ \E c \in Calls : AnswerLost(c) \/ Finish(c)
    PROVE  FilesFit'
<1>1. UNCHANGED <<job, fstab, smb>>
  BY DEF Edit, Delete, Ask, AnswerLost, Finish, work, node
<1>2. \A d \in Calls : ForShares(d)'
  <2>1. CASE \E s \in Storages : Edit(s) \/ Delete(s)
    BY <2>1 DEF Edit, Delete, work, FilesFit, ForShares
  <2>2. ASSUME NEW c \in Calls, NEW kind \in Requests, NEW s \in Storages, NEW targets, Ask(c, kind, s, targets)
        PROVE  \A d \in Calls : ForShares(d)'
    BY <2>2 DEF Ask, FilesFit, ForShares, Shape
  <2>3. ASSUME NEW c \in Calls, AnswerLost(c) PROVE \A d \in Calls : ForShares(d)'
    <3>1. req[c] \in Asked
      BY <2>3 DEF AnswerLost, Shape
    <3>2. \/ req' = [req EXCEPT ![c] = [req[c] EXCEPT !.at = None, !.target = None, !.failed = TRUE]]
          \/ req' = [req EXCEPT ![c] = None]
      BY <2>3 DEF AnswerLost
    <3>3. \A d \in Calls \ {c} : req'[d] = req[d]
      BY <3>2 DEF Shape
    <3>4. req[c] # None /\ (req'[c] = None \/ (req'[c].kind = req[c].kind /\ req'[c].s = req[c].s))
      <4>1. req[c] # None /\ c \in DOMAIN req
        BY <2>3 DEF AnswerLost, Shape
      <4>2. CASE req' = [req EXCEPT ![c] = [req[c] EXCEPT !.at = None, !.target = None, !.failed = TRUE]]
        BY <3>1, <4>1, <4>2 DEF Asked
      <4>3. CASE req' = [req EXCEPT ![c] = None]
        BY <4>1, <4>3
      <4> QED
        BY <3>2, <4>1, <4>2, <4>3
    <3> QED
      BY <3>3, <3>4 DEF FilesFit, ForShares
  <2>4. ASSUME NEW c \in Calls, Finish(c) PROVE \A d \in Calls : ForShares(d)'
    BY <2>4 DEF Finish, FilesFit, ForShares, Shape
  <2> QED
    BY <2>1, <2>2, <2>3, <2>4
<1> QED
  BY <1>1, <1>2 DEF FilesFit, Fits

\* A new job has read nothing, and one that shares has a share.
LEMMA BeginFits ==
    ASSUME Setting, Shape, FilesFit, (\E c \in Calls : NextHost(c)) \/ \E h \in Hosts : StartSwapOff(h)
    PROVE  FilesFit'
<1>1. ASSUME NEW c \in Jobs, NEW at, NEW w, ReadWell(w), job' = [job EXCEPT ![c] = [job[c] EXCEPT ![at] = w]]
      PROVE  \A d \in Jobs, k \in Hosts : Fits(d, k)'
  <2>1. \A d \in Jobs, k \in Hosts : job'[d][k] \in {job[d][k], w}
    BY <1>1 DEF Shape
  <2> QED
    BY <1>1, <2>1 DEF FilesFit, Fits
<1>2. ASSUME NEW c \in Calls, NextHost(c) PROVE FilesFit'
  <2>1. PICK h \in req[c].todo :
          LET shares == req[c].kind = "share" \/ (req[c].kind = "deploy" /\ req[c].s \in Shares)
              at     == IF shares THEN Owner ELSE h
              op     == IF shares THEN "share" ELSE IF req[c].kind = "deploy" THEN "mount" ELSE "unmount"
          IN  /\ job[c][at] = None /\ job' = [job EXCEPT ![c][at] = NewJob(op, c)]
              /\ req' = [req EXCEPT ![c].todo = @ \ {h}, ![c].target = h, ![c].at = at]
    BY <1>2 DEF NextHost
  <2> DEFINE shares == req[c].kind = "share" \/ (req[c].kind = "deploy" /\ req[c].s \in Shares)
             at     == IF shares THEN Owner ELSE h
             op     == IF shares THEN "share" ELSE IF req[c].kind = "deploy" THEN "mount" ELSE "unmount"
  <2>2. /\ job' = [job EXCEPT ![c] = [job[c] EXCEPT ![at] = NewJob(op, c)]]
        /\ req' = [req EXCEPT ![c] = [req[c] EXCEPT !.todo = req[c].todo \ {h}, !.target = h, !.at = at]]
    BY <2>1
  <2>3. req[c] # None /\ req[c] \in Asked /\ c \in Jobs
    BY <1>2 DEF NextHost, Shape, Jobs
  <2>4. op = "share" => req[c].s \in Shares
    BY <2>3 DEF FilesFit, ForShares
  <2>5. ReadWell(NewJob(op, c))
    BY <2>4 DEF NewJob, ReadWell, OneForEach
  <2> HIDE DEF shares, at, op
  <2>6. \A d \in Jobs, k \in Hosts : Fits(d, k)'
    BY <1>1, <2>2, <2>3, <2>5
  <2>7. \A d \in Calls : req'[d] # None => req[d] # None /\ req'[d].kind = req[d].kind /\ req'[d].s = req[d].s
    BY <2>2, <2>3 DEF Shape, Asked
  <2>8. UNCHANGED <<fstab, smb>>
    BY <1>2 DEF NextHost, node
  <2> QED
    BY <2>6, <2>7, <2>8 DEF FilesFit, ForShares
<1>3. ASSUME NEW h \in Hosts, StartSwapOff(h) PROVE FilesFit'
  <2> DEFINE w == [op |-> "swapoff", s |-> "swap", src |-> "swap", seen |-> {}, at |-> "read"]
  <2>1. ReadWell(w) /\ Installer \in Jobs
    BY DEF ReadWell, OneForEach, Jobs
  <2>2. job' = [job EXCEPT ![Installer] = [job[Installer] EXCEPT ![h] = w]] /\ UNCHANGED <<req, fstab, smb>>
    BY <1>3 DEF StartSwapOff, node
  <2> HIDE DEF w
  <2> QED
    BY <1>1, <2>1, <2>2 DEF FilesFit, ForShares
<1> QED
  BY <1>2, <1>3

\* A job that looks, mounts or unmounts touches no file.
LEMMA LookFits ==
    ASSUME Setting, Inv, FilesFit, NEW c \in Jobs, NEW h \in Hosts,
           MountCheck(c, h) \/ Mount(c, h) \/ UnmountCheck(c, h) \/ Unmount(c, h) \/ Fails(c, h)
    PROVE  FilesFit'
<1>1. UNCHANGED <<fstab, smb>> /\ job[c][h] # None
  BY DEF MountCheck, Mount, UnmountCheck, Unmount, Fails, node, At
<1>2. (\E at : Goto(c, h, at)) \/ \E ok : Answered(c, h, ok)
  BY DEF MountCheck, Mount, UnmountCheck, Unmount, Fails, Done
<1> QED
  BY <1>1, <1>2, GotoFits, AnsweredFits DEF Inv, FilesFit

\* A file that is read fits, and so does one that is written.
LEMMA ReadFits ==
    ASSUME Setting, Inv, FilesFit, NEW c \in Jobs, NEW h \in Hosts, Read(c, h)
    PROVE  FilesFit'
<1>1. UNCHANGED <<fstab, smb>> /\ job[c][h] # None
  BY DEF Read, node
<1>2. CASE Done(c, h)
  BY <1>1, <1>2, AnsweredFits DEF Inv, FilesFit, Done
<1>3. CASE ~NothingToDo(c, h)
  <2>1. PICK at : job' = [job EXCEPT ![c][h].seen = File(c, h), ![c][h].at = at]
    BY <1>3 DEF Read
  <2> DEFINE w == [job[c][h] EXCEPT !.seen = File(c, h), !.at = at]
  <2>3. job[c][h] \in Works /\ job \in [Jobs -> [Hosts -> Works \cup {None}]] /\ req' = req
    BY <1>1, <1>3 DEF Read, Inv, Shape
  <2>2. job' = [job EXCEPT ![c][h] = w]
    BY <2>1, <2>3
  <2>4. w.op = job[c][h].op /\ w.s = job[c][h].s /\ w.seen = File(c, h)
    BY <2>3 DEF Works
  <2>5. ReadWell(w)
    BY <1>1, <2>4 DEF FilesFit, Fits, ReadWell, File
  <2> HIDE DEF w
  <2>6. \A d \in Jobs, k \in Hosts : job'[d][k] \in {job[d][k], w}
    BY <2>2, <2>3
  <2> QED
    BY <1>1, <2>3, <2>5, <2>6 DEF FilesFit, Fits, ForShares
<1> QED
  BY <1>2, <1>3 DEF Read

\* What is put in a file, where nothing else is touched.
LEMMA PutFits ==
    ASSUME Setting, Inv, FilesFit, NEW c \in Jobs, NEW h \in Hosts, job[c][h] # None,
           NEW lines, SetFile(c, h, lines),
           IF job[c][h].op = "share" THEN lines \subseteq Shares ELSE OneForEach(lines),
           Done(c, h) \/ \E at : Goto(c, h, at)
    PROVE  FilesFit'
<1>1. (\A d \in Jobs, k \in Hosts : Fits(d, k)') /\ \A d \in Calls : ForShares(d)'
  BY GotoFits, AnsweredFits DEF Inv, Done
<1>2. \A k \in Hosts : OneForEach(fstab'[k]) /\ smb'[k] \subseteq Shares
  BY DEF SetFile, Inv, Shape, FilesFit
<1> QED
  BY <1>1, <1>2 DEF FilesFit

\* Nothing, or what the job makes of what it read; a new line takes the place of
\* what there is by now.
LEMMA WriteFits ==
    ASSUME Setting, Inv, FilesFit, NEW c \in Jobs, NEW h \in Hosts, Append(c, h) \/ Rewrite(c, h) \/ Fill(c, h)
    PROVE  FilesFit'
<1>1. job[c][h] # None /\ job[c][h] \in Works /\ Fits(c, h)
  BY DEF Append, Rewrite, Fill, At, Inv, Shape, FilesFit
<1>2. CASE Append(c, h)
  <2>1. Done(c, h) /\ UNCHANGED smb
    BY <1>2 DEF Append
  <2> DEFINE s == job[c][h].s
             lines == (fstab[h] \ Of(fstab[h], s)) \cup {<<s, job[c][h].src>>}
  <2>2. fstab' = [fstab EXCEPT ![h] = lines]
    BY <1>2 DEF Append, Desired
  <2>3. <<s, job[c][h].src>>[1] = s /\ \A l \in fstab[h] \ Of(fstab[h], s) : l[1] # s
    BY DEF Of
  <2> HIDE DEF s
  <2>4. OneForEach(lines)
    BY <2>3 DEF OneForEach, FilesFit
  <2> HIDE DEF lines
  <2>5. \A k \in Hosts : OneForEach(fstab'[k])
    BY <2>2, <2>4 DEF FilesFit, Inv, Shape
  <2> QED
    BY <1>1, <2>1, <2>5, AnsweredFits DEF Done, Inv, FilesFit
<1>3. CASE Rewrite(c, h)
  <2>1. OneForEach({})
    BY DEF OneForEach
  <2> QED
    BY <1>1, <1>3, <2>1, KeptFits, PutFits DEF Rewrite
<1>4. CASE Fill(c, h)
  BY <1>1, <1>4, KeptFits, PutFits DEF Fill
<1> QED
  BY <1>2, <1>3, <1>4

\* A host that starts again has no job.
LEMMA RestartFits ==
    ASSUME Setting, Shape, FilesFit, NEW h \in Hosts, Restart(h)
    PROVE  FilesFit'
<1>1. UNCHANGED <<fstab, smb>>
  BY DEF Restart
<1>2. \A d \in Jobs, k \in Hosts : job'[d][k] \in {job[d][k], None}
  BY DEF Restart, Shape
<1>3. \A d \in Calls : req[d] # None => req[d] \in Asked
  BY DEF Shape
<1>4. \A d \in Calls : req'[d] # None => req[d] # None /\ req'[d].kind = req[d].kind /\ req'[d].s = req[d].s
  BY <1>3 DEF Restart, Asked
<1> QED
  BY <1>1, <1>2, <1>4 DEF FilesFit, Fits, ForShares

\* Every step keeps it.
LEMMA NextFits ==
    ASSUME Setting, Inv, FilesFit, [Next]_vars
    PROVE  FilesFit'
<1>1. CASE UNCHANGED vars
  BY <1>1 DEF vars, work, node, FilesFit, Fits, ForShares
<1>2. Shape
  BY DEF Inv
<1>3. CASE Next
  BY <1>2, <1>3, PageFits, BeginFits, LookFits, ReadFits, WriteFits, RestartFits DEF Next, Jobs
<1> QED
  BY <1>1, <1>3

\* A storage has one line at most.
LEMMA OneLineEach ==
    ASSUME NEW lines, OneForEach(lines), NEW s \in Storages
    PROVE  Cardinality(Of(lines, s)) <= 1
<1>1. \A l, m \in Of(lines, s) : l = m
  BY DEF OneForEach, Of
<1>2. CASE Of(lines, s) = {}
  BY <1>2, FS_EmptySet
<1>3. ASSUME NEW l \in Of(lines, s) PROVE Cardinality(Of(lines, s)) <= 1
  <2>1. Of(lines, s) = {l}
    BY <1>1, <1>3
  <2> QED
    BY <2>1, FS_Singleton
<1> QED
  BY <1>2, <1>3

\* storage.rs, its rows, requests and the two files: they keep their types, with
\* one line of fstab for a storage, whatever is read and written beside it.
THEOREM StoragesKeepTheirTypes == ASSUME Setting PROVE Spec => []TypeOK
<1>1. Init => Inv /\ FilesFit
  <2> SUFFICES ASSUME Init PROVE FilesFit
    BY InitInv
  <2>1. \A h \in Hosts : OneForEach(fstab[h]) /\ smb[h] = {}
    BY DEF Init, OneForEach
  <2>2. (\A c \in Jobs, h \in Hosts : job[c][h] = None) /\ \A c \in Calls : req[c] = None
    BY DEF Init, Jobs
  <2> QED
    BY <2>1, <2>2 DEF FilesFit, Fits, ForShares
<1>2. Inv /\ FilesFit /\ [Next]_vars => (Inv /\ FilesFit)'
  BY NextInv, NextFits
<1>3. Inv /\ FilesFit => TypeOK
  <2> SUFFICES ASSUME Inv, FilesFit PROVE TypeOK
    OBVIOUS
  <2>1. \A h \in Hosts, s \in Storages : Cardinality(Of(fstab[h], s)) <= 1
    BY OneLineEach DEF FilesFit
  <2>2. \A s \in Storages : row[s] # None => row[s] \in Rows
    BY DEF Inv, Shape
  <2>3. \A c \in Calls : req[c] # None => req[c] \in Asked
    BY DEF Inv, Shape
  <2>4. \A c \in Jobs, h \in Hosts : job[c][h] # None => job[c][h] \in Works
    BY DEF Inv, Shape
  <2> QED
    BY <2>1, <2>2, <2>3, <2>4 DEF TypeOK, Inv, Shape, FilesFit, Rows, Asked, Works, Jobs
<1> QED
  BY <1>1, <1>2, <1>3, PTL DEF Spec
=============================================================================
