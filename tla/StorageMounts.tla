--------------------------- MODULE StorageMounts ---------------------------
(***************************************************************************)
(* Storages (src/src/storage.rs).  A request of the page takes a copy of   *)
(* the storage's row, works on the hosts one after the other and writes    *)
(* the whole row back.  A host mounts or unmounts the directory and keeps  *)
(* /etc/fstab in step, or exports a share by a line of smb.conf; both      *)
(* files are read and written with no lock, and the installation of the    *)
(* cluster (cluster/init.rs) comments the swap out of the same fstab.      *)
(***************************************************************************)
EXTENDS Naturals, FiniteSets

CONSTANTS
    None,
    Hosts, Master,
    Targets, Installs,          \* the sets of hosts asked for; hosts the installation works on
    Storages, Shares, Owner,    \* Shares: those a host exports; Owner: that host
    Sources,                    \* what a row may say is to be mounted
    Requests,                   \* the kinds of requests looked at
    Calls, Installer,           \* requests at a time; the installation's call
    MaxRequests, MaxEdits, MaxTroubles

VARIABLES
    row,                        \* of each storage: None or [src, status]
    req,                        \* of each call: None or the request at work
    job,                        \* of each call and host: None or the work of the host
    mounted,                    \* of each host and storage: None or the source mounted
    fstab, smb,                 \* of each host: the lines of the two files
    want,                       \* of each host and storage: what was last done there
    torn,                       \* hosts where two jobs met at a file or a directory, or one
                                \*   of them failed there
    edited, raced,              \* the last edit of a row; rows edited during a request
    requests, edits, troubles

work    == <<req, job>>
node    == <<mounted, fstab, smb>>
history == <<want, torn, edited, raced>>
counts  == <<requests, edits, troubles>>
vars    == <<row, work, node, history, counts>>

Swap == <<"swap", "swap">>
Lines == (Storages \X Sources) \cup {Swap}
Of(file, s) == {l \in file : l[1] = s}

TypeOK ==
    /\ \A s \in Storages : row[s] # None => row[s].src \in Sources
                                /\ row[s].status \in {"defined", "deployed", "shared", "error"}
    /\ \A c \in Calls : req[c] # None => req[c].todo \subseteq Hosts /\ req[c].src \in Sources
    /\ \A c \in Calls \cup {Installer}, h \in Hosts :
          job[c][h] # None => job[c][h].at \in {"check", "do", "read", "append", "write", "fill"}
    /\ \A h \in Hosts : fstab[h] \subseteq Lines /\ smb[h] \subseteq Shares
    /\ \A h \in Hosts, s \in Storages : /\ mounted[h][s] \in Sources \cup {None}
                                        /\ want[h][s] \in {"mount", "unmount", "share", None}
                                        /\ Cardinality(Of(fstab[h], s)) <= 1

Init ==
    /\ \E x \in Sources : row = [s \in Storages |-> [src |-> x, status |-> "defined"]]
    /\ req = [c \in Calls |-> None]
    /\ job = [c \in Calls \cup {Installer} |-> [h \in Hosts |-> None]]
    /\ mounted = [h \in Hosts |-> [s \in Storages |-> None]]
    /\ fstab = [h \in Hosts |-> {Swap}] /\ smb = [h \in Hosts |-> {}]
    /\ want = [h \in Hosts |-> [s \in Storages |-> None]]
    /\ torn = {} /\ edited = [s \in Storages |-> row[s].src] /\ raced = {}
    /\ requests = 0 /\ edits = 0 /\ troubles = 0
-----------------------------------------------------------------------------
Trouble == troubles < MaxTroubles /\ troubles' = troubles + 1
Busy(s) == \E c \in Calls : req[c] # None /\ req[c].s = s

\* update_storage and delete_storage: one critical section each.
Edit(s) ==
    /\ row[s] # None /\ edits < MaxEdits /\ edits' = edits + 1
    /\ \E x \in Sources : /\ row' = [row EXCEPT ![s].src = x]
                          /\ edited' = [edited EXCEPT ![s] = x]
    /\ raced' = IF Busy(s) THEN raced \cup {s} ELSE raced
    /\ UNCHANGED <<work, node, want, torn, requests, troubles>>

Delete(s) ==
    /\ row[s] # None /\ edits < MaxEdits /\ edits' = edits + 1
    /\ row' = [row EXCEPT ![s] = None]
    /\ UNCHANGED <<work, node, history, requests, troubles>>

\* deploy_storage, unmount_storage, start_share: load_storage, normalize_hosts.
Ask(c, kind, s, targets) ==
    /\ req[c] = None /\ \A h \in Hosts : job[c][h] = None
    /\ row[s] # None /\ requests < MaxRequests /\ requests' = requests + 1
    /\ IF kind = "share" THEN s \in Shares /\ targets = {Owner} ELSE targets \in Targets
    /\ req' = [req EXCEPT ![c] = [kind |-> kind, s |-> s, src |-> row[s].src, todo |-> targets,
                                  target |-> None, at |-> None, failed |-> FALSE]]
    /\ UNCHANGED <<row, job, node, history, edits, troubles>>

NewJob(op, c) == [op |-> op, s |-> req[c].s, src |-> req[c].src, seen |-> {},
                  at |-> IF op = "share" THEN "read" ELSE "check"]

\* deploy_external, deploy_host_share, forward_mount, forward_unmount: the next
\* host; a share is started on its owner first.
NextHost(c) ==
    /\ req[c] # None /\ req[c].at = None
    /\ \E h \in req[c].todo :
          LET shares == req[c].kind = "share" \/ (req[c].kind = "deploy" /\ req[c].s \in Shares)
              at     == IF shares THEN Owner ELSE h
              op     == IF shares THEN "share" ELSE IF req[c].kind = "deploy" THEN "mount" ELSE "unmount"
          IN  /\ job[c][at] = None /\ job' = [job EXCEPT ![c][at] = NewJob(op, c)]
              /\ req' = [req EXCEPT ![c].todo = @ \ {h}, ![c].target = h, ![c].at = at]
    /\ UNCHANGED <<row, node, history, counts>>

\* A host answers the request that still waits for it: after the share comes
\* the mount, but for the owner itself.
Answered(c, h, ok) ==
    IF c = Installer \/ (c # Installer => req[c] = None \/ req[c].at # h)
    THEN job' = [job EXCEPT ![c][h] = None] /\ UNCHANGED req
    ELSE IF ok /\ job[c][h].op = "share" /\ req[c].target # Owner
         THEN /\ job[c][req[c].target] = None
              /\ job' = [job EXCEPT ![c][h] = None, ![c][req[c].target] = NewJob("mount", c)]
              /\ req' = [req EXCEPT ![c].at = req[c].target]
         ELSE /\ job' = [job EXCEPT ![c][h] = None]
              /\ req' = [req EXCEPT ![c].at = None, ![c].target = None, ![c].failed = @ \/ ~ok]

\* The answer of another host does not come; a client drops its request.
AnswerLost(c) ==
    /\ Trouble /\ req[c] # None /\ req[c].at # None
    /\ \/ /\ req[c].at # Master
          /\ req' = [req EXCEPT ![c].at = None, ![c].target = None, ![c].failed = TRUE]
       \/ req' = [req EXCEPT ![c] = None]
    /\ UNCHANGED <<row, job, node, history, requests, edits>>

\* The whole row is written from the copy, unless it has gone.
RowAfter(r) == [src |-> r.src,
                status |-> IF r.failed THEN "error"
                           ELSE IF r.kind = "deploy" THEN "deployed"
                           ELSE IF r.kind = "share" THEN "shared" ELSE "defined"]
Finish(c) ==
    /\ req[c] # None /\ req[c].at = None /\ req[c].todo = {}
    /\ row' = [row EXCEPT ![req[c].s] = IF @ = None THEN None ELSE RowAfter(req[c])]
    /\ req' = [req EXCEPT ![c] = None]
    /\ UNCHANGED <<job, node, history, counts>>
-----------------------------------------------------------------------------
\* The work of a host.
At(c, h, op, at) == job[c][h] # None /\ job[c][h].op = op /\ job[c][h].at = at
Goto(c, h, at)   == job' = [job EXCEPT ![c][h].at = at] /\ UNCHANGED req
Done(c, h)       == /\ Answered(c, h, TRUE)
                    /\ want' = IF c = Installer THEN want
                               ELSE [want EXCEPT ![h][job[c][h].s] = job[c][h].op]

\* mount_from_spec: is_mounted; mount.
MountCheck(c, h) ==
    /\ At(c, h, "mount", "check")
    /\ IF mounted[h][job[c][h].s] # None THEN Done(c, h) ELSE Goto(c, h, "do") /\ UNCHANGED want
    /\ UNCHANGED <<row, node, torn, edited, raced, counts>>

\* A directory mounted again while its unmounting goes on stays mounted with no
\* line, and later requests find it mounted and leave it so.
Leaving(h, s) == \E d \in DOMAIN job : /\ job[d][h] # None /\ job[d][h].op = "unmount" /\ job[d][h].s = s
                                      /\ job[d][h].at \notin {"check", "do"}
Mount(c, h) ==
    /\ At(c, h, "mount", "do") /\ Goto(c, h, "read")
    /\ mounted' = [mounted EXCEPT ![h][job[c][h].s] = job[c][h].src]
    /\ torn' = IF mounted[h][job[c][h].s] # None \/ Leaving(h, job[c][h].s) THEN torn \cup {h} ELSE torn
    /\ UNCHANGED <<row, fstab, smb, want, edited, raced, counts>>

\* Mutant: a directory that is not mounted is left alone, its line with it.
DoneUnlessMounted(c, h) ==
    /\ At(c, h, "unmount", "check")
    /\ IF mounted[h][job[c][h].s] # None THEN Goto(c, h, "do") /\ UNCHANGED want ELSE Done(c, h)
    /\ UNCHANGED <<row, node, torn, edited, raced, counts>>

\* unmount_dir: is_mounted; umount.
UnmountCheck(c, h) ==
    /\ At(c, h, "unmount", "check")
    /\ Goto(c, h, IF mounted[h][job[c][h].s] # None THEN "do" ELSE "read")
    /\ UNCHANGED <<row, node, history, counts>>

Unmount(c, h) ==
    /\ At(c, h, "unmount", "do") /\ Goto(c, h, "read")
    /\ mounted' = [mounted EXCEPT ![h][job[c][h].s] = None]
    /\ UNCHANGED <<row, fstab, smb, history, counts>>

\* disable_swap of the installation, which goes on while requests come.
StartSwapOff(h) ==
    /\ h \in Installs /\ job[Installer][h] = None /\ Swap \in fstab[h]
    /\ job' = [job EXCEPT ![Installer][h] = [op |-> "swapoff", s |-> "swap", src |-> "swap", seen |-> {},
                                             at |-> "read"]]
    /\ UNCHANGED <<row, req, node, history, counts>>

\* mount, umount, a helper or the file itself fails: the first two end the job,
\* a file that cannot be read or written is only a note for them.
Fails(c, h) ==
    /\ Trouble /\ job[c][h] # None
    /\ IF job[c][h].at \in {"check", "do"} \/ job[c][h].op = "share"
       THEN Answered(c, h, FALSE) /\ UNCHANGED <<want, torn>>
       ELSE Done(c, h) /\ torn' = torn \cup {h}
    /\ job[c][h].at # "fill"
    /\ UNCHANGED <<row, node, edited, raced, requests, edits>>
-----------------------------------------------------------------------------
\* persist_fstab, remove_fstab_entry, disable_swap_entries, ensure_include.
File(c, h) == IF job[c][h].op = "share" THEN smb[h] ELSE fstab[h]
Filling(c, h) ==        \* another job has just truncated that file
    \E d \in DOMAIN job : /\ d # c /\ job[d][h] # None /\ job[d][h].at = "fill"
                          /\ (job[d][h].op = "share") = (job[c][h].op = "share")
Desired(c, h) == <<job[c][h].s, job[c][h].src>>
Kept(c, h) ==           \* what the job makes of the lines it read
    CASE job[c][h].op = "share"   -> job[c][h].seen \cup {job[c][h].s}
      [] job[c][h].op = "mount"   -> (job[c][h].seen \ Of(job[c][h].seen, job[c][h].s)) \cup {Desired(c, h)}
      [] job[c][h].op = "unmount" -> job[c][h].seen \ Of(job[c][h].seen, job[c][h].s)
      [] OTHER                    -> job[c][h].seen \ {Swap}

\* The file is read, and the job ends if there is nothing to change.
NothingToDo(c, h) ==
    CASE job[c][h].op = "share"   -> job[c][h].s \in smb[h]
      [] job[c][h].op = "mount"   -> Desired(c, h) \in fstab[h]
      [] job[c][h].op = "unmount" -> Of(fstab[h], job[c][h].s) = {}
      [] OTHER                    -> Swap \notin fstab[h]
Read(c, h) ==
    /\ job[c][h] # None /\ job[c][h].at = "read"
    /\ torn' = IF Filling(c, h) THEN torn \cup {h} ELSE torn
    /\ IF NothingToDo(c, h) THEN Done(c, h)
       ELSE /\ UNCHANGED <<req, want>>
            /\ job' = [job EXCEPT ![c][h].seen = File(c, h),
                                  ![c][h].at = IF job[c][h].op = "mount" /\ Of(fstab[h], job[c][h].s) = {}
                                               THEN "append" ELSE "write"]
    /\ UNCHANGED <<row, node, edited, raced, counts>>

\* A new line of fstab is appended to what is there by now.
Append(c, h) ==
    /\ At(c, h, "mount", "append") /\ Done(c, h)
    /\ fstab' = [fstab EXCEPT ![h] = (@ \ Of(@, job[c][h].s)) \cup {Desired(c, h)}]
    /\ torn' = IF Filling(c, h) \/ Of(fstab[h], job[c][h].s) # {} THEN torn \cup {h} ELSE torn
    /\ UNCHANGED <<row, mounted, smb, edited, raced, counts>>

SetFile(c, h, lines) ==
    IF job[c][h].op = "share" THEN smb' = [smb EXCEPT ![h] = lines] /\ UNCHANGED fstab
    ELSE fstab' = [fstab EXCEPT ![h] = lines] /\ UNCHANGED smb

\* disable_swap renames its copy over the file; std::fs::write truncates it...
Rewrite(c, h) ==
    /\ job[c][h] # None /\ job[c][h].at = "write"
    /\ torn' = IF job[c][h].seen # File(c, h) \/ Filling(c, h) THEN torn \cup {h} ELSE torn
    /\ IF job[c][h].op = "swapoff" THEN SetFile(c, h, Kept(c, h)) /\ Done(c, h)
       ELSE SetFile(c, h, {}) /\ Goto(c, h, "fill") /\ UNCHANGED want
    /\ UNCHANGED <<row, mounted, edited, raced, counts>>

\* ... and fills it.
Fill(c, h) ==
    /\ job[c][h] # None /\ job[c][h].at = "fill"
    /\ torn' = IF File(c, h) # {} THEN torn \cup {h} ELSE torn
    /\ SetFile(c, h, Kept(c, h)) /\ Done(c, h)
    /\ UNCHANGED <<row, mounted, edited, raced, counts>>

\* A host, or only its program, starts again: its jobs are gone, and a boot
\* mounts what of fstab can be mounted.  The requests are the master's.
Restart(h) ==
    /\ Trouble
    /\ \/ UNCHANGED mounted
       \/ \E up \in SUBSET {s \in Storages : Of(fstab[h], s) # {}} :
             mounted' = [mounted EXCEPT ![h] = [s \in Storages |->
                           IF s \in up THEN (CHOOSE l \in Of(fstab[h], s) : TRUE)[2] ELSE None]]
    /\ torn' = IF \E c \in DOMAIN job : job[c][h] # None /\ job[c][h].at \notin {"check", "do"}
               THEN torn \cup {h} ELSE torn
    /\ job' = [c \in DOMAIN job |-> [job[c] EXCEPT ![h] = None]]
    /\ req' = [c \in Calls |-> IF h = Master \/ req[c] = None THEN None
                               ELSE IF req[c].at # h THEN req[c]
                               ELSE [req[c] EXCEPT !.at = None, !.target = None, !.failed = TRUE]]
    /\ UNCHANGED <<row, fstab, smb, want, edited, raced, requests, edits>>

Next ==
    \/ \E s \in Storages : Edit(s) \/ Delete(s)
    \/ \E c \in Calls, kind \in Requests, s \in Storages, targets \in Targets \cup {{Owner}} :
          Ask(c, kind, s, targets)
    \/ \E c \in Calls : NextHost(c) \/ AnswerLost(c) \/ Finish(c)
    \/ \E c \in Calls, h \in Hosts :
          MountCheck(c, h) \/ Mount(c, h) \/ UnmountCheck(c, h) \/ Unmount(c, h) \/ Append(c, h)
    \/ \E c \in Calls \cup {Installer}, h \in Hosts : Fails(c, h) \/ Read(c, h) \/ Rewrite(c, h) \/ Fill(c, h)
    \/ \E h \in Hosts : StartSwapOff(h) \/ Restart(h)

Spec == Init /\ [][Next]_vars
-----------------------------------------------------------------------------
\* storage.rs mount_from_spec, unmount_dir, ensure_include: what was last done
\* to a directory of a host is what its next boot finds, unless the file was
\* written by two at once, or could not be; and deploy_storage writes back the
\* row the user gave last, but for edits made while the hosts worked.
Quiet(h) == h \notin torn /\ \A c \in DOMAIN job : job[c][h] = None
LastWordHolds ==
    \A h \in Hosts, s \in Storages : Quiet(h) =>
        /\ want[h][s] = "mount" => Of(fstab[h], s) # {}
        /\ want[h][s] = "unmount" => Of(fstab[h], s) = {}
        /\ want[h][s] = "share" => s \in smb[h]
EditsStay == \A s \in Storages : row[s] # None /\ s \notin raced => row[s].src = edited[s]
StoragesLast == LastWordHolds /\ EditsStay
=============================================================================
