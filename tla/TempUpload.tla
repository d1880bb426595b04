----------------------------- MODULE TempUpload -----------------------------
(***************************************************************************)
(* The uploads in chunks to a project's temp directory                     *)
(* (src/src/api.rs): the .part file that grows, the .done marker, the      *)
(* rename over the target, and the page that resumes where the server is.  *)
(*                                                                         *)
(* All uploads here have the same file name, as when a file is uploaded    *)
(* again after an edit.  The content of upload u is the pieces <<u, 1>>,   *)
(* <<u, 2>>, ...: a piece is what one blocking write appends (2 MiB of a   *)
(* chunk of 8 MiB), and it goes on when its request is dropped.            *)
(***************************************************************************)
EXTENDS Naturals, Sequences, FiniteSets

CONSTANTS
    None,
    Uploads,
    Tabs, Of,      \* the pages that upload; two may upload the same file
    Total,         \* the pieces of each upload's file
    Old,           \* a file of that name that may be there before, its pieces <<None, ...>>
    ChunkPieces,   \* pieces of one chunk
    DropAt,        \* the steps at which a client may disconnect
    MaxDrops, MaxRestarts, MaxFaults

VARIABLES
    part, mark,    \* of each upload: its .part file (None: absent), whether .done is there
    target,        \* the file in temp
    holder,        \* the tab whose request has the project lock
    pc,            \* of each tab
    offset, todo,  \* the offset it sends, the pieces of the chunk not yet written
    pool,          \* of each tab: a write of a dropped request that is still to come, and whether the
                   \* file it opened is the .part or has been renamed to the target
    told,          \* tabs that were told their upload is complete
    late,          \* uploads a dropped request's write came to (never read by the code)
    drops, restarts, faults

files  == <<part, mark, target>>
client == <<pc, offset, todo, told>>
spent  == <<drops, restarts, faults>>
vars   == <<files, holder, client, pool, late, spent>>

Whole(u) == [k \in 1..Total[u] |-> <<u, k>>]
Size(u)  == IF part[u] = None THEN 0 ELSE Len(part[u])
Bytes(u) == IF part[u] = None THEN <<>> ELSE part[u]

TypeOK ==
    /\ \A u \in Uploads : part[u] = None \/ part[u] \in Seq({u} \X Nat)
    /\ target = None \/ target \in Seq((Uploads \cup {None}) \X Nat)
    /\ mark \in [Uploads -> BOOLEAN] /\ holder \in Tabs \cup {None}
    /\ pc \in [Tabs -> {"idle", "status", "ready", "chunk", "write", "marker", "rename"}]
    /\ \A p \in Tabs : offset[p] \in 0..Total[Of[p]] /\ todo[p] \in Seq({Of[p]} \X Nat)
    /\ \A p \in Tabs : pool[p] = None \/ pool[p] \in [piece : {Of[p]} \X Nat, to : {"part", "temp"}]
    /\ told \subseteq Tabs /\ late \subseteq Uploads

Init ==
    /\ part = [u \in Uploads |-> None] /\ mark = [u \in Uploads |-> FALSE]
    /\ target \in {None, Old} /\ holder = None
    /\ pc = [p \in Tabs |-> "idle"] /\ offset = [p \in Tabs |-> 0]
    /\ todo = [p \in Tabs |-> <<>>] /\ pool = [p \in Tabs |-> None]
    /\ told = {} /\ late = {}
    /\ drops = 0 /\ restarts = 0 /\ faults = 0
-----------------------------------------------------------------------------
\* runTempUpload: the file is chosen, for the first time or again.
Choose(p) ==
    /\ pc[p] = "idle" /\ p \notin told
    /\ pc' = [pc EXCEPT ![p] = "status"]
    /\ UNCHANGED <<files, holder, offset, todo, told, pool, late, spent>>

\* Mutant: the size of the target is not compared.
MarkedDone(u) == mark[u] /\ target # None

\* The marker names this file and size, and the target has that size.
Done(u) == mark[u] /\ target # None /\ Len(target) = Total[u]

\* Mutant: no .part is too long.
NeverTooLong(u) == FALSE

TooLong(u) == Size(u) > Total[u]

\* temp_upload_status; a .part that is too long is an error.
Status(p) ==
    /\ pc[p] = "status" /\ holder = None
    /\ LET u == Of[p] IN
       IF Done(u) THEN told' = told \cup {p} /\ pc' = [pc EXCEPT ![p] = "idle"] /\ UNCHANGED offset
       ELSE IF TooLong(u) THEN pc' = [pc EXCEPT ![p] = "idle"] /\ UNCHANGED <<offset, told>>
       ELSE /\ offset' = [offset EXCEPT ![p] = Size(u)] /\ pc' = [pc EXCEPT ![p] = "ready"]
            /\ UNCHANGED told
    /\ UNCHANGED <<files, holder, todo, pool, late, spent>>

\* Where the chunk ends that begins at the offset.
End(p) == IF offset[p] + ChunkPieces < Total[Of[p]] THEN offset[p] + ChunkPieces ELSE Total[Of[p]]

Send(p) ==
    /\ pc[p] = "ready"
    /\ todo' = [todo EXCEPT ![p] = SubSeq(Whole(Of[p]), offset[p] + 1, End(p))]
    /\ pc' = [pc EXCEPT ![p] = "chunk"]
    /\ UNCHANGED <<files, holder, offset, told, pool, late, spent>>

\* Mutant: the chunk is appended wherever the .part ends.
FitsAnywhere(p) == TRUE

OffsetFits(p) == Size(Of[p]) = offset[p]

\* temp_upload_chunk under the lock: the offset must be the size of the .part.
Accept(p) ==
    /\ pc[p] = "chunk" /\ holder = None
    /\ IF OffsetFits(p)
       THEN /\ holder' = p /\ pc' = [pc EXCEPT ![p] = "write"]
            /\ part' = [part EXCEPT ![Of[p]] = Bytes(Of[p])]
            /\ UNCHANGED todo
       ELSE /\ pc' = [pc EXCEPT ![p] = "idle"] /\ todo' = [todo EXCEPT ![p] = <<>>]
            /\ UNCHANGED <<holder, part>>
    /\ UNCHANGED <<mark, target, offset, told, pool, late, spent>>

\* One blocking write.
Write(p) ==
    /\ pc[p] = "write" /\ todo[p] # <<>>
    /\ part' = [part EXCEPT ![Of[p]] = Append(@, Head(todo[p]))]
    /\ todo' = [todo EXCEPT ![p] = Tail(@)]
    /\ UNCHANGED <<mark, target, holder, pc, offset, told, pool, late, spent>>

\* The chunk is on disk: the answer, whose `uploaded` is computed from the
\* offset, or the end of the file.
Written(p) ==
    /\ pc[p] = "write" /\ todo[p] = <<>>
    /\ IF End(p) = Total[Of[p]]
       THEN pc' = [pc EXCEPT ![p] = "marker"] /\ UNCHANGED <<holder, offset>>
       ELSE /\ pc' = [pc EXCEPT ![p] = "ready"] /\ offset' = [offset EXCEPT ![p] = End(p)]
            /\ holder' = None
    /\ UNCHANGED <<files, todo, told, pool, late, spent>>

WriteMarker(p) ==
    /\ pc[p] = "marker"
    /\ mark' = [mark EXCEPT ![Of[p]] = TRUE] /\ pc' = [pc EXCEPT ![p] = "rename"]
    /\ UNCHANGED <<part, target, holder, offset, todo, told, pool, late, spent>>

\* A file that is renamed takes the writes that opened it along; what it
\* replaces is gone, with the writes to it.
Renamed(p, u) ==
    IF pool[p] = None \/ pool[p].to = "temp" THEN None
    ELSE IF Of[p] = u THEN [pool[p] EXCEPT !.to = "temp"] ELSE pool[p]

\* replace_temp_upload; the answer may not arrive.
Rename(p) ==
    /\ pc[p] = "rename"
    /\ target' = part[Of[p]] /\ part' = [part EXCEPT ![Of[p]] = None]
    /\ pc' = [pc EXCEPT ![p] = "idle"] /\ holder' = None
    /\ \/ told' = told \cup {p} /\ UNCHANGED drops
       \/ drops < MaxDrops /\ drops' = drops + 1 /\ UNCHANGED told
    /\ pool' = [q \in Tabs |-> Renamed(q, Of[p])]
    /\ UNCHANGED <<mark, offset, todo, late, restarts, faults>>
-----------------------------------------------------------------------------
\* Mutant: a request that is cut off keeps the lock.
AbortHolding(p) ==
    /\ pc' = [pc EXCEPT ![p] = "idle"] /\ todo' = [todo EXCEPT ![p] = <<>>]
    /\ UNCHANGED holder

Abort(p) ==
    /\ pc' = [pc EXCEPT ![p] = "idle"] /\ todo' = [todo EXCEPT ![p] = <<>>]
    /\ holder' = IF holder = p THEN None ELSE holder

\* A statement of the handler fails, a write after any of its pieces.
Fail(p) ==
    /\ pc[p] \in {"write", "marker", "rename"}
    /\ faults < MaxFaults /\ faults' = faults + 1
    /\ Abort(p)
    /\ UNCHANGED <<files, offset, told, pool, late, drops, restarts>>

\* The client's connection ends: the handler stops where it is, and the write
\* that has begun is still made (of one tab, one at a time).
Drop(p) ==
    /\ pc[p] \in DropAt /\ drops < MaxDrops /\ drops' = drops + 1
    /\ Abort(p)
    /\ IF pc[p] = "write" /\ todo[p] # <<>>
       THEN pool[p] = None /\ pool' = [pool EXCEPT ![p] = [piece |-> Head(todo[p]), to |-> "part"]]
       ELSE UNCHANGED pool
    /\ UNCHANGED <<files, offset, told, late, restarts, faults>>

\* It is appended to the file it had opened, wherever that is now.
LateWrite(p) ==
    /\ pool[p] # None /\ pool' = [pool EXCEPT ![p] = None]
    /\ IF pool[p].to = "part"
       THEN part' = [part EXCEPT ![Of[p]] = Append(@, pool[p].piece)] /\ UNCHANGED target
       ELSE target' = Append(target, pool[p].piece) /\ UNCHANGED part
    /\ late' = late \cup {Of[p]}
    /\ UNCHANGED <<mark, holder, client, spent>>

Restart ==
    /\ restarts < MaxRestarts /\ restarts' = restarts + 1
    /\ holder' = None /\ pc' = [p \in Tabs |-> "idle"] /\ todo' = [p \in Tabs |-> <<>>]
    /\ pool' = [p \in Tabs |-> None]
    /\ UNCHANGED <<files, offset, told, late, drops, faults>>

\* The server waits for requests.
Stay == UNCHANGED vars

Next ==
    \/ \E p \in Tabs :
          \/ Choose(p) \/ Status(p) \/ Send(p) \/ Accept(p) \/ Write(p) \/ Written(p) \/ WriteMarker(p)
          \/ Rename(p) \/ Fail(p) \/ Drop(p) \/ LateWrite(p)
    \/ Restart \/ Stay

Spec == Init /\ [][Next]_vars

\* The page's user takes the file again; the handlers end, so the lock is free for
\* good in the end.
Fairness ==
    \A p \in Tabs :
        /\ WF_vars(Choose(p)) /\ WF_vars(Status(p)) /\ WF_vars(Send(p)) /\ WF_vars(Accept(p))
        /\ WF_vars(Write(p)) /\ WF_vars(Written(p)) /\ WF_vars(WriteMarker(p)) /\ WF_vars(Rename(p))
        /\ WF_vars(LateWrite(p))
FairSpec == Spec /\ Fairness
-----------------------------------------------------------------------------
\* What has arrived is the beginning of the file, whoever sent it and however
\* often it was cut off: a chunk is appended only where it belongs.
WellFilled(u) == part[u] # None => Size(u) <= Total[u] /\ part[u] = SubSeq(Whole(u), 1, Size(u))

\* So it is, unless a blocking write of a dropped request came late, between
\* another request's look at the size and its own writes.
PartIsPrefix == \A u \in Uploads \ late : WellFilled(u)

\* The file in temp has pieces of an upload that such a write came to.
Damaged(file) == \E k \in DOMAIN file : file[k][1] \in late

\* A client that is told its upload is complete has its file in temp, whole and
\* in order, whatever was resumed, repeated or interrupted before.
ToldIsThere ==
    [][\A p \in told' \ told : target' = Whole(Of[p]) \/ Damaged(target')]_vars

\* The page says that an upload can be continued after a break: taken again and
\* again, every upload ends, unless such a late write made its file too long.
Resumes == <>[](late = {}) => <>(told = Tabs)

\* index.html: an upload can be continued after a break (as the page says it,
\* with no exception).
AlwaysWellFilled == \A u \in Uploads : WellFilled(u)
=============================================================================
