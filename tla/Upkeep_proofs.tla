----------------------------- MODULE Upkeep_proofs -----------------------------
(***************************************************************************)
(* What arrives, in Upkeep, each part with its inductive invariant:        *)
(* TempInv for the uploads in chunks, InstallInv for the program's own     *)
(* updates, ImagesInv for the imports of images.  A part takes its own     *)
(* steps or none, so each invariant is proved from the part's own          *)
(* next-state relation.                                                    *)
(***************************************************************************)
EXTENDS Upkeep, WellFoundedInduction, SequenceTheorems, TLAPS

\* A step of the program is one of the uploads, or leaves them as they are.
LEMMA TempSteps ==
    /\ Init => T!Init
    /\ [Next]_vars => [T!Next]_T!vars
BY DEF Init, Next, vars, temp, T!vars, T!files, T!client, T!spent

\* Likewise for the updates.
LEMMA UpdateSteps ==
    /\ Init => U!Init
    /\ [Next]_vars => [U!Next]_U!vars
BY DEF Init, Next, vars, update, U!vars, U!files, U!master, U!works, U!spent

\* And for the images.
LEMMA ImageSteps ==
    /\ Init => I!Init
    /\ [Next]_vars => [I!Next]_I!vars
BY DEF Init, Next, vars, image, I!vars, I!master, I!worker, I!spent
-----------------------------------------------------------------------------
(***************************************************************************)
(* The uploads in chunks.                                                  *)
(***************************************************************************)

\* What the types leave open, the domains.
Shapes ==
    /\ part = [u \in Uploads |-> part[u]] /\ offset = [p \in Tabs |-> offset[p]]
    /\ todo = [p \in Tabs |-> todo[p]] /\ pool = [p \in Tabs |-> pool[p]]
    /\ mark \in [Uploads -> BOOLEAN] /\ holder \in Tabs \cup {None}
    /\ pc \in [Tabs -> {"idle", "status", "ready", "chunk", "write", "marker", "rename"}]
    /\ told \subseteq Tabs /\ late \subseteq Uploads

\* The types of a tab, of an upload's file and of the file in temp.
TabTypes(p) ==
    /\ offset[p] \in 0..Total[Of[p]] /\ todo[p] \in Seq({Of[p]} \X Nat)
    /\ pool[p] = None \/ pool[p] \in [piece : {Of[p]} \X Nat, to : {"part", "temp"}]
PartTypes(u) == part[u] = None \/ part[u] \in Seq({u} \X Nat)
TargetTypes  == target = None \/ target \in Seq((Uploads \cup {None}) \X Nat)

TempTypes == Shapes /\ TargetTypes /\ (\A p \in Tabs : TabTypes(p)) /\ (\A u \in Uploads : PartTypes(u))

\* The tab at work has the lock and its .part; a late write has its file.
Locks   == \A p \in Tabs : pc[p] \in {"write", "marker", "rename"} <=> holder = p
HasPart == \A p \in Tabs : holder = p => part[Of[p]] # None
HasFile == \A p \in Tabs : pool[p] # None => IF pool[p].to = "part" THEN part[Of[p]] # None ELSE target # None
Held    == Locks /\ HasPart /\ HasFile

\* A chunk that is sent, being written, or the last.  However late a write comes,
\* the .part gets as long as the chunk says; without one the chunk goes on where
\* the .part ends.
TabHolds(p) ==
    /\ pc[p] = "chunk" => todo[p] = SubSeq(T!Whole(Of[p]), offset[p] + 1, T!End(p))
    /\ pc[p] = "write" =>
           /\ Len(part[Of[p]]) + Len(todo[p]) >= T!End(p)
           /\ Of[p] \notin late =>
                  /\ Len(part[Of[p]]) <= T!End(p)
                  /\ todo[p] = SubSeq(T!Whole(Of[p]), Len(part[Of[p]]) + 1, T!End(p))
    /\ pc[p] \in {"marker", "rename"} =>
           /\ Len(part[Of[p]]) >= Total[Of[p]]
           /\ Of[p] \notin late => part[Of[p]] = T!Whole(Of[p])

TabsHold == \A p \in Tabs : TabHolds(p)

\* The file in temp is the old one, an upload, or damaged by a late write.
Landed ==
    target \in {None, Old} \/ (\E u \in Uploads : target = T!Whole(u)) \/ T!Damaged(target)

\* Only the size says which upload is in temp.
SizesTell ==
    /\ \A u \in Uploads : Total[u] # Len(Old)
    /\ \A u, v \in Uploads : Total[u] = Total[v] => u = v

\* A tab uploads an upload, and is not None.
LEMMA Belongs == None \notin Tabs /\ \A p \in Tabs : Of[p] \in Uploads
BY TempAssumption

Pieces(u) == {u} \X Nat

\* The content of an upload.
LEMMA WholeIs ==
    ASSUME NEW u \in Uploads
    PROVE  /\ T!Whole(u) \in Seq(Pieces(u)) /\ Len(T!Whole(u)) = Total[u] /\ Total[u] \in Nat
           /\ \A k \in 1..Total[u] : T!Whole(u)[k] = <<u, k>>
<1>1. Total[u] \in Nat
  BY TempAssumption
<1>2. T!Whole(u) \in [1..Total[u] -> Pieces(u)]
  BY <1>1 DEF T!Whole, Pieces
<1>3. T!Whole(u) \in Seq(Pieces(u)) /\ Len(T!Whole(u)) = Total[u]
  BY <1>1, <1>2
<1> QED
  BY <1>1, <1>3 DEF T!Whole

\* A stretch of the content.
LEMMA StretchIs ==
    ASSUME NEW u \in Uploads, NEW a \in 0..Total[u], NEW b \in a..Total[u]
    PROVE  /\ SubSeq(T!Whole(u), a + 1, b) \in Seq(Pieces(u))
           /\ Len(SubSeq(T!Whole(u), a + 1, b)) = b - a
<1> DEFINE W == T!Whole(u)
<1>1. W \in Seq(Pieces(u)) /\ Len(W) = Total[u] /\ Total[u] \in Nat
  BY WholeIs
<1>2. \A i \in (a + 1)..b : W[i] \in Pieces(u)
  <2> SUFFICES ASSUME NEW i \in (a + 1)..b PROVE W[i] \in Pieces(u)
    OBVIOUS
  <2>1. i \in 1..Len(W)
    BY <1>1
  <2> HIDE DEF W
  <2> QED
    BY <1>1, <2>1, ElementOfSeq
<1>3. a + 1 \in Int /\ b \in Int
  BY <1>1
<1> HIDE DEF W
<1>4. /\ SubSeq(W, a + 1, b) \in Seq(Pieces(u))
      /\ Len(SubSeq(W, a + 1, b)) = IF a + 1 <= b THEN b - (a + 1) + 1 ELSE 0
  BY <1>2, <1>3, SubSeqProperties
<1>5. b >= a /\ a \in Nat /\ b \in Nat
  BY <1>1
<1> QED
  BY <1>4, <1>5 DEF W

\* The next piece of the content goes from the chunk to the .part.
LEMMA StretchStep ==
    ASSUME NEW u \in Uploads, NEW a \in 0..Total[u], NEW b \in a..Total[u], a < b
    PROVE  LET c == SubSeq(T!Whole(u), a + 1, b) IN
           /\ c # <<>> /\ Head(c) \in Pieces(u)
           /\ Tail(c) = SubSeq(T!Whole(u), a + 1 + 1, b)
           /\ Append(SubSeq(T!Whole(u), 1, a), Head(c)) = SubSeq(T!Whole(u), 1, a + 1)
<1> DEFINE W == T!Whole(u)
           c == SubSeq(W, a + 1, b)
<1>1. W \in Seq(Pieces(u)) /\ Len(W) = Total[u] /\ Total[u] \in Nat
  BY WholeIs
<1>2. a + 1 \in 1..Len(W) /\ b \in (a + 1)..Len(W)
  BY <1>1
<1>3. c \in Seq(Pieces(u)) /\ Len(c) = b - a
  BY StretchIs
<1>4. c # <<>>
  <2>1. b - a # 0
    BY <1>1
  <2> QED
    BY <1>3, <2>1, EmptySeq
<1> HIDE DEF W
<1>5. Head(c) = W[a + 1] /\ Tail(c) = SubSeq(W, a + 1 + 1, b)
  BY <1>1, <1>2, HeadTailOfSubSeq
<1>6. W[a + 1] \in Pieces(u)
  BY <1>1, <1>2, ElementOfSeq
<1>7. SubSeq(W, 1, a + 1) = Append(SubSeq(W, 1, a), W[a + 1])
  <2>1. 1 \in 1..Len(W) /\ a + 1 \in 1..Len(W) /\ a + 1 - 1 = a
    BY <1>1, <1>2
  <2>2. SubSeq(W, 1, a + 1) = SubSeq(W, 1, a) \o <<W[a + 1]>>
    BY <1>1, <2>1, SubSeqRecursiveSecond
  <2>3. SubSeq(W, 1, a) \in Seq(Pieces(u))
    <3>1. 0 \in 0..Total[u] /\ a \in 0..Total[u] /\ 0 + 1 = 1
      BY <1>1
    <3> QED
      BY <3>1, StretchIs DEF W
  <2> QED
    BY <1>6, <2>2, <2>3, AppendIsConcat
<1> QED
  BY <1>4, <1>5, <1>6, <1>7 DEF W

\* The beginning of no length, and of all.
LEMMA StretchEnds ==
    ASSUME NEW u \in Uploads
    PROVE  SubSeq(T!Whole(u), 1, 0) = <<>> /\ SubSeq(T!Whole(u), 1, Total[u]) = T!Whole(u)
<1>1. SubSeq(T!Whole(u), 1, 0) = <<>>
  <2>1. 1 \in Int /\ 0 \in Int /\ 0 < 1
    OBVIOUS
  <2> QED
    BY <2>1, SubSeqEmpty
<1>2. T!Whole(u) \in Seq(Pieces(u)) /\ Len(T!Whole(u)) = Total[u]
  BY WholeIs
<1> QED
  BY <1>1, <1>2, SubSeqFull

\* What the types say of a tab and of an upload.
LEMMA TempFacts ==
    ASSUME TempTypes
    PROVE  /\ \A p \in Tabs : /\ Of[p] \in Uploads /\ offset[p] \in Nat /\ offset[p] <= Total[Of[p]]
                              /\ todo[p] \in Seq(Pieces(Of[p]))
                              /\ T!End(p) \in Nat /\ offset[p] <= T!End(p) /\ T!End(p) <= Total[Of[p]]
                              /\ pool[p] # None => /\ pool[p].piece \in Pieces(Of[p])
                                                   /\ pool[p].to \in {"part", "temp"}
           /\ \A u \in Uploads : /\ part[u] # None => part[u] \in Seq(Pieces(u)) /\ Len(part[u]) \in Nat
                                 /\ T!Bytes(u) \in Seq(Pieces(u)) /\ T!Size(u) = Len(T!Bytes(u)) /\ T!Size(u) \in Nat
                                 /\ Total[u] \in Nat
<1>1. ASSUME NEW u \in Uploads
      PROVE  /\ part[u] # None => part[u] \in Seq(Pieces(u)) /\ Len(part[u]) \in Nat
             /\ T!Bytes(u) \in Seq(Pieces(u)) /\ T!Size(u) = Len(T!Bytes(u)) /\ T!Size(u) \in Nat
             /\ Total[u] \in Nat
  <2>1. part[u] # None => part[u] \in Seq(Pieces(u)) /\ Len(part[u]) \in Nat
    <3>1. part[u] # None => part[u] \in Seq(Pieces(u))
      BY DEF TempTypes, TabTypes, PartTypes, Pieces
    <3> QED
      BY <3>1, LenProperties
  <2>2. <<>> \in Seq(Pieces(u)) /\ Len(<<>>) = 0
    BY EmptySeq
  <2> QED
    BY <2>1, <2>2, TempAssumption DEF T!Bytes, T!Size
<1>2. ASSUME NEW p \in Tabs
      PROVE  /\ Of[p] \in Uploads /\ offset[p] \in Nat /\ offset[p] <= Total[Of[p]]
             /\ todo[p] \in Seq(Pieces(Of[p]))
             /\ T!End(p) \in Nat /\ offset[p] <= T!End(p) /\ T!End(p) <= Total[Of[p]]
             /\ pool[p] # None => pool[p].piece \in Pieces(Of[p]) /\ pool[p].to \in {"part", "temp"}
  <2>1. Of[p] \in Uploads
    BY TempAssumption
  <2>2. Total[Of[p]] \in Nat /\ ChunkPieces \in Nat
    BY <2>1, TempAssumption
  <2>3. offset[p] \in 0..Total[Of[p]] /\ todo[p] \in Seq(Pieces(Of[p]))
    BY DEF TempTypes, TabTypes, PartTypes, Pieces
  <2>4. T!End(p) \in Nat /\ offset[p] <= T!End(p) /\ T!End(p) <= Total[Of[p]]
    BY <2>2, <2>3 DEF T!End
  <2>5. pool[p] # None => pool[p].piece \in Pieces(Of[p]) /\ pool[p].to \in {"part", "temp"}
    BY DEF TempTypes, TabTypes, PartTypes, Pieces
  <2> QED
    BY <2>1, <2>2, <2>3, <2>4, <2>5
<1> QED
  BY <1>1, <1>2

\* A step of one tab leaves the others and their files.
Framed(p) ==
    /\ \A q \in Tabs \ {p} : pc'[q] = pc[q] /\ offset'[q] = offset[q] /\ todo'[q] = todo[q]
    /\ \A u \in Uploads \ {Of[p]} : part'[u] = part[u]

\* The step of a tab.
TabStep(p) ==
    \/ T!Choose(p) \/ T!Status(p) \/ T!Send(p) \/ T!Accept(p) \/ T!Write(p) \/ T!Written(p)
    \/ T!WriteMarker(p) \/ T!Rename(p) \/ T!Fail(p) \/ T!Drop(p) \/ T!LateWrite(p)

\* Every step of a tab does.
LEMMA TabFramed ==
    ASSUME Shapes, NEW p \in Tabs, TabStep(p)
    PROVE  Framed(p)
<1> USE DEF T!files, T!client, T!spent
<1>1. CASE T!Choose(p)
  BY <1>1, Belongs DEF T!Choose, Shapes, Framed
<1>2. CASE T!Status(p)
  BY <1>2, Belongs DEF T!Status, Shapes, Framed
<1>3. CASE T!Send(p)
  BY <1>3, Belongs DEF T!Send, Shapes, Framed
<1>4. CASE T!Accept(p)
  BY <1>4, Belongs DEF T!Accept, Shapes, Framed
<1>5. CASE T!Write(p)
  BY <1>5, Belongs DEF T!Write, Shapes, Framed
<1>6. CASE T!Written(p)
  BY <1>6, Belongs DEF T!Written, Shapes, Framed
<1>7. CASE T!WriteMarker(p)
  BY <1>7, Belongs DEF T!WriteMarker, Shapes, Framed
<1>8. CASE T!Rename(p)
  BY <1>8, Belongs DEF T!Rename, Shapes, Framed
<1>9. CASE T!Fail(p)
  BY <1>9, Belongs DEF T!Fail, T!Abort, Shapes, Framed
<1>10. CASE T!Drop(p)
  BY <1>10, Belongs DEF T!Drop, T!Abort, Shapes, Framed
<1>11. CASE T!LateWrite(p)
  BY <1>11, Belongs DEF T!LateWrite, Shapes, Framed
<1> QED
  BY <1>1, <1>2, <1>3, <1>4, <1>5, <1>6, <1>7, <1>8, <1>9, <1>10, <1>11 DEF TabStep

\* A step keeps the domains.
LEMMA TabShapes ==
    ASSUME Shapes, NEW p \in Tabs, TabStep(p)
    PROVE  Shapes'
<1> USE DEF T!files, T!client, T!spent
<1>1. CASE T!Choose(p)
  BY <1>1, Belongs DEF T!Choose, Shapes
<1>2. CASE T!Status(p)
  BY <1>2, Belongs DEF T!Status, Shapes
<1>3. CASE T!Send(p)
  BY <1>3, Belongs DEF T!Send, Shapes
<1>4. CASE T!Accept(p)
  BY <1>4, Belongs DEF T!Accept, Shapes
<1>5. CASE T!Write(p)
  BY <1>5, Belongs DEF T!Write, Shapes
<1>6. CASE T!Written(p)
  BY <1>6, Belongs DEF T!Written, Shapes
<1>7. CASE T!WriteMarker(p)
  BY <1>7, Belongs DEF T!WriteMarker, Shapes
<1>8. CASE T!Rename(p)
  BY <1>8, Belongs DEF T!Rename, Shapes
<1>9. CASE T!Fail(p)
  BY <1>9, Belongs DEF T!Fail, T!Abort, Shapes
<1>10. CASE T!Drop(p)
  BY <1>10, Belongs DEF T!Drop, T!Abort, Shapes
<1>11. CASE T!LateWrite(p)
  BY <1>11, Belongs DEF T!LateWrite, Shapes
<1> QED
  BY <1>1, <1>2, <1>3, <1>4, <1>5, <1>6, <1>7, <1>8, <1>9, <1>10, <1>11 DEF TabStep

\* Pieces of an upload are pieces, and no file of them is none.
LEMMA PiecesAre ==
    ASSUME NEW u \in Uploads, NEW s \in Seq(Pieces(u))
    PROVE  s \in Seq((Uploads \cup {None}) \X Nat) /\ s # None /\ Len(s) \in Nat
<1>1. Len(s) \in Nat /\ s \in [1..Len(s) -> Pieces(u)]
  BY LenProperties
<1>2. Pieces(u) \subseteq (Uploads \cup {None}) \X Nat
  BY DEF Pieces
<1>3. s \in [1..Len(s) -> (Uploads \cup {None}) \X Nat]
  BY <1>1, <1>2
<1>4. s \in Seq((Uploads \cup {None}) \X Nat)
  BY <1>1, <1>3
<1> QED
  BY <1>1, <1>4, TempAssumption

\* What a step of a tab does to its .part.
PartMoves(p) ==
    \/ part'[Of[p]] = part[Of[p]]
    \/ T!Accept(p) /\ part'[Of[p]] = T!Bytes(Of[p])
    \/ /\ pc[p] = "write" /\ todo[p] # <<>> /\ T!Write(p)
       /\ part[Of[p]] # None /\ part'[Of[p]] = Append(part[Of[p]], Head(todo[p]))
    \/ T!Rename(p) /\ part'[Of[p]] = None
    \/ /\ pool[p] # None /\ pool[p].to = "part" /\ T!LateWrite(p) /\ Of[p] \in late'
       /\ part[Of[p]] # None /\ part'[Of[p]] = Append(part[Of[p]], pool[p].piece)

\* It does nothing else.
LEMMA TabPartMoves ==
    ASSUME Shapes, Held, NEW p \in Tabs, TabStep(p)
    PROVE  PartMoves(p)
<1> USE DEF T!files, T!client, T!spent
<1>1. CASE T!Choose(p)
  BY <1>1, Belongs DEF T!Choose, Shapes, PartMoves, Held, Locks, HasPart, HasFile
<1>2. CASE T!Status(p)
  BY <1>2, Belongs DEF T!Status, Shapes, PartMoves, Held, Locks, HasPart, HasFile
<1>3. CASE T!Send(p)
  BY <1>3, Belongs DEF T!Send, Shapes, PartMoves, Held, Locks, HasPart, HasFile
<1>4. CASE T!Accept(p)
  BY <1>4, Belongs DEF T!Accept, Shapes, PartMoves, Held, Locks, HasPart, HasFile
<1>5. CASE T!Write(p)
  BY <1>5, Belongs DEF T!Write, Shapes, PartMoves, Held, Locks, HasPart, HasFile
<1>6. CASE T!Written(p)
  BY <1>6, Belongs DEF T!Written, Shapes, PartMoves, Held, Locks, HasPart, HasFile
<1>7. CASE T!WriteMarker(p)
  BY <1>7, Belongs DEF T!WriteMarker, Shapes, PartMoves, Held, Locks, HasPart, HasFile
<1>8. CASE T!Rename(p)
  BY <1>8, Belongs DEF T!Rename, Shapes, PartMoves, Held, Locks, HasPart, HasFile
<1>9. CASE T!Fail(p)
  BY <1>9, Belongs DEF T!Fail, T!Abort, Shapes, PartMoves, Held, Locks, HasPart, HasFile
<1>10. CASE T!Drop(p)
  BY <1>10, Belongs DEF T!Drop, T!Abort, Shapes, PartMoves, Held, Locks, HasPart, HasFile
<1>11. CASE T!LateWrite(p)
  BY <1>11, Belongs DEF T!LateWrite, Shapes, PartMoves, Held, Locks, HasPart, HasFile
<1> QED
  BY <1>1, <1>2, <1>3, <1>4, <1>5, <1>6, <1>7, <1>8, <1>9, <1>10, <1>11 DEF TabStep

\* What a step of a tab does to the writes that are to come.
PoolMoves(p) ==
    \/ T!Rename(p) /\ pool' = [q \in Tabs |-> T!Renamed(q, Of[p])]
    \/ /\ \A q \in Tabs \ {p} : pool'[q] = pool[q]
       /\ \/ pool'[p] = pool[p] \/ pool'[p] = None
          \/ pc[p] = "write" /\ todo[p] # <<>> /\ pool'[p] = [piece |-> Head(todo[p]), to |-> "part"]

\* Here too that is all.
LEMMA TabPoolMoves ==
    ASSUME Shapes, NEW p \in Tabs, TabStep(p)
    PROVE  PoolMoves(p)
<1> USE DEF T!files, T!client, T!spent
<1>1. CASE T!Choose(p)
  BY <1>1, Belongs DEF T!Choose, Shapes, PoolMoves
<1>2. CASE T!Status(p)
  BY <1>2, Belongs DEF T!Status, Shapes, PoolMoves
<1>3. CASE T!Send(p)
  BY <1>3, Belongs DEF T!Send, Shapes, PoolMoves
<1>4. CASE T!Accept(p)
  BY <1>4, Belongs DEF T!Accept, Shapes, PoolMoves
<1>5. CASE T!Write(p)
  BY <1>5, Belongs DEF T!Write, Shapes, PoolMoves
<1>6. CASE T!Written(p)
  BY <1>6, Belongs DEF T!Written, Shapes, PoolMoves
<1>7. CASE T!WriteMarker(p)
  BY <1>7, Belongs DEF T!WriteMarker, Shapes, PoolMoves
<1>8. CASE T!Rename(p)
  BY <1>8, Belongs DEF T!Rename, Shapes, PoolMoves
<1>9. CASE T!Fail(p)
  BY <1>9, Belongs DEF T!Fail, T!Abort, Shapes, PoolMoves
<1>10. CASE T!Drop(p)
  BY <1>10, Belongs DEF T!Drop, T!Abort, Shapes, PoolMoves
<1>11. CASE T!LateWrite(p)
  BY <1>11, Belongs DEF T!LateWrite, Shapes, PoolMoves
<1> QED
  BY <1>1, <1>2, <1>3, <1>4, <1>5, <1>6, <1>7, <1>8, <1>9, <1>10, <1>11 DEF TabStep

\* The tab that steps keeps its types.
LEMMA TabKeepsOffset ==
    ASSUME TempTypes, NEW p \in Tabs, TabStep(p)
    PROVE  offset'[p] \in 0..Total[Of[p]] /\ todo'[p] \in Seq(Pieces(Of[p]))
<1>1. /\ Of[p] \in Uploads /\ offset[p] \in 0..Total[Of[p]] /\ todo[p] \in Seq(Pieces(Of[p])) /\ Total[Of[p]] \in Nat
      /\ T!End(p) \in offset[p]..Total[Of[p]] /\ T!End(p) \in 0..Total[Of[p]]
      /\ T!Size(Of[p]) \in Nat /\ <<>> \in Seq(Pieces(Of[p]))
  BY TempFacts, EmptySeq
<1>2. offset = [q \in Tabs |-> offset[q]] /\ todo = [q \in Tabs |-> todo[q]]
  BY DEF TempTypes, Shapes
<1>3. offset'[p] \in 0..Total[Of[p]]
  <2>1. \/ offset'[p] = offset[p] \/ offset'[p] = T!End(p)
        \/ T!Status(p) /\ ~T!TooLong(Of[p]) /\ offset'[p] = T!Size(Of[p])
    <3> USE DEF T!files, T!client, T!spent
    <3>1. CASE T!Choose(p)
      BY <3>1, <1>2 DEF T!Choose
    <3>2. CASE T!Status(p)
      BY <3>2, <1>2 DEF T!Status
    <3>3. CASE T!Send(p)
      BY <3>3, <1>2 DEF T!Send
    <3>4. CASE T!Accept(p)
      BY <3>4, <1>2 DEF T!Accept
    <3>5. CASE T!Write(p)
      BY <3>5, <1>2 DEF T!Write
    <3>6. CASE T!Written(p)
      BY <3>6, <1>2 DEF T!Written
    <3>7. CASE T!WriteMarker(p)
      BY <3>7, <1>2 DEF T!WriteMarker
    <3>8. CASE T!Rename(p)
      BY <3>8, <1>2 DEF T!Rename
    <3>9. CASE T!Fail(p)
      BY <3>9, <1>2 DEF T!Fail, T!Abort
    <3>10. CASE T!Drop(p)
      BY <3>10, <1>2 DEF T!Drop, T!Abort
    <3>11. CASE T!LateWrite(p)
      BY <3>11, <1>2 DEF T!LateWrite
    <3> QED
      BY <3>1, <3>2, <3>3, <3>4, <3>5, <3>6, <3>7, <3>8, <3>9, <3>10, <3>11 DEF TabStep
  <2>2. ~T!TooLong(Of[p]) => T!Size(Of[p]) <= Total[Of[p]]
    BY <1>1 DEF T!TooLong
  <2> QED
    BY <1>1, <2>1, <2>2
<1>4. todo'[p] \in Seq(Pieces(Of[p]))
  <2>1. \/ todo'[p] = todo[p] \/ todo'[p] = <<>>
        \/ todo'[p] = SubSeq(T!Whole(Of[p]), offset[p] + 1, T!End(p))
        \/ todo[p] # <<>> /\ todo'[p] = Tail(todo[p])
    <3> USE DEF T!files, T!client, T!spent
    <3>1. CASE T!Choose(p)
      BY <3>1, <1>2 DEF T!Choose
    <3>2. CASE T!Status(p)
      BY <3>2, <1>2 DEF T!Status
    <3>3. CASE T!Send(p)
      BY <3>3, <1>2 DEF T!Send
    <3>4. CASE T!Accept(p)
      BY <3>4, <1>2 DEF T!Accept
    <3>5. CASE T!Write(p)
      BY <3>5, <1>2 DEF T!Write
    <3>6. CASE T!Written(p)
      BY <3>6, <1>2 DEF T!Written
    <3>7. CASE T!WriteMarker(p)
      BY <3>7, <1>2 DEF T!WriteMarker
    <3>8. CASE T!Rename(p)
      BY <3>8, <1>2 DEF T!Rename
    <3>9. CASE T!Fail(p)
      BY <3>9, <1>2 DEF T!Fail, T!Abort
    <3>10. CASE T!Drop(p)
      BY <3>10, <1>2 DEF T!Drop, T!Abort
    <3>11. CASE T!LateWrite(p)
      BY <3>11, <1>2 DEF T!LateWrite
    <3> QED
      BY <3>1, <3>2, <3>3, <3>4, <3>5, <3>6, <3>7, <3>8, <3>9, <3>10, <3>11 DEF TabStep
  <2>2. SubSeq(T!Whole(Of[p]), offset[p] + 1, T!End(p)) \in Seq(Pieces(Of[p]))
    BY <1>1, StretchIs
  <2>3. todo[p] # <<>> => Tail(todo[p]) \in Seq(Pieces(Of[p]))
    BY <1>1, HeadTailProperties
  <2> QED
    BY <1>1, <2>1, <2>2, <2>3
<1> QED
  BY <1>3, <1>4

\* A .part that grows, or is there.
LEMMA PartGrows ==
    ASSUME TempTypes, Held, NEW p \in Tabs, TabStep(p)
    PROVE  /\ part'[Of[p]] = None \/ part'[Of[p]] \in Seq(Pieces(Of[p]))
           /\ part'[Of[p]] = None => part[Of[p]] = None \/ T!Rename(p)
           /\ Len(part'[Of[p]]) = Len(part[Of[p]]) + 1 \/ ~T!LateWrite(p) \/ part'[Of[p]] = part[Of[p]]
<1> DEFINE u == Of[p]
<1>1. todo[p] \in Seq(Pieces(u)) /\ (pool[p] # None => pool[p].piece \in Pieces(u))
  BY TempFacts
<1>2. PartMoves(p)
  BY TabPartMoves DEF TempTypes
<1>3. u \in Uploads /\ T!Bytes(u) \in Seq(Pieces(u))
  BY TempFacts
<1>4. part[u] = None \/ part[u] \in Seq(Pieces(u))
  BY <1>3, TempFacts
<1> HIDE DEF u
<1>5. CASE part'[u] = part[u]
  BY <1>4, <1>5 DEF u
<1>6. CASE T!Accept(p) /\ part'[u] = T!Bytes(u)
  <2>1. part'[u] # None
    BY <1>3, <1>6, PiecesAre
  <2>2. ~T!LateWrite(p) \/ part'[u] = part[u]
    <3>1. CASE part[u] = None
      BY <1>6, <3>1 DEF T!Accept, T!LateWrite, T!client, TempTypes, Shapes, u
    <3>2. CASE part[u] # None
      BY <1>6, <3>2 DEF T!Bytes
    <3> QED
      BY <3>1, <3>2
  <2> QED
    BY <1>3, <1>6, <2>1, <2>2 DEF u
<1>7. CASE /\ pc[p] = "write" /\ todo[p] # <<>> /\ T!Write(p)
           /\ part[u] # None /\ part'[u] = Append(part[u], Head(todo[p]))
  <2>1. Head(todo[p]) \in Pieces(u)
    <3>1. todo[p] \in Seq(Pieces(u))
      BY TempFacts DEF u
    <3> QED
      BY <1>7, <3>1, HeadTailProperties
  <2>2. part'[u] \in Seq(Pieces(u)) /\ Len(part'[u]) = Len(part[u]) + 1
    BY <1>4, <1>7, <2>1, AppendProperties
  <2>3. part'[u] # None
    BY <1>3, <2>2, PiecesAre
  <2> QED
    BY <2>2, <2>3 DEF u
<1>8. CASE T!Rename(p) /\ part'[u] = None
  <2>1. ~T!LateWrite(p) \/ part'[u] = part[u]
    BY <1>8 DEF T!Rename, T!LateWrite, T!client, TempTypes, Shapes, u
  <2> QED
    BY <1>8, <2>1 DEF u
<1>9. CASE /\ pool[p] # None /\ pool[p].to = "part" /\ T!LateWrite(p) /\ part[u] # None
           /\ part'[u] = Append(part[u], pool[p].piece)
  <2>1. pool[p].piece \in Pieces(u)
    BY <1>9, TempFacts DEF u
  <2>2. part'[u] \in Seq(Pieces(u)) /\ Len(part'[u]) = Len(part[u]) + 1
    BY <1>4, <1>9, <2>1, AppendProperties
  <2>3. part'[u] # None
    BY <1>3, <2>2, PiecesAre
  <2> QED
    BY <2>2, <2>3 DEF u
<1> QED
  BY <1>2, <1>5, <1>6, <1>7, <1>8, <1>9 DEF PartMoves, u

\* What a step of a tab does to the file in temp.
TargetMoves(p) ==
    \/ target' = target
    \/ T!Rename(p) /\ target' = part[Of[p]]
    \/ /\ T!LateWrite(p) /\ pool[p] # None /\ pool[p].to = "temp" /\ target' = Append(target, pool[p].piece)
       /\ Of[p] \in late'

\* And nothing else; a write that came late stays noted.
LEMMA TabTargetMoves ==
    ASSUME TempTypes, NEW p \in Tabs, TabStep(p)
    PROVE  TargetMoves(p) /\ late \subseteq late'
<1> USE DEF T!files, T!client, T!spent
<1>0. pool[p] # None => pool[p].to \in {"part", "temp"}
  BY TempFacts
<1>1. CASE T!Choose(p)
  BY <1>0, <1>1 DEF T!Choose, TargetMoves
<1>2. CASE T!Status(p)
  BY <1>0, <1>2 DEF T!Status, TargetMoves
<1>3. CASE T!Send(p)
  BY <1>0, <1>3 DEF T!Send, TargetMoves
<1>4. CASE T!Accept(p)
  BY <1>0, <1>4 DEF T!Accept, TargetMoves
<1>5. CASE T!Write(p)
  BY <1>0, <1>5 DEF T!Write, TargetMoves
<1>6. CASE T!Written(p)
  BY <1>0, <1>6 DEF T!Written, TargetMoves
<1>7. CASE T!WriteMarker(p)
  BY <1>0, <1>7 DEF T!WriteMarker, TargetMoves
<1>8. CASE T!Rename(p)
  BY <1>0, <1>8 DEF T!Rename, TargetMoves
<1>9. CASE T!Fail(p)
  BY <1>0, <1>9 DEF T!Fail, T!Abort, TargetMoves
<1>10. CASE T!Drop(p)
  BY <1>0, <1>10 DEF T!Drop, T!Abort, TargetMoves
<1>11. CASE T!LateWrite(p)
  BY <1>0, <1>11 DEF T!LateWrite, TargetMoves
<1> QED
  BY <1>1, <1>2, <1>3, <1>4, <1>5, <1>6, <1>7, <1>8, <1>9, <1>10, <1>11 DEF TabStep

\* What is to come keeps its type.
LEMMA TabKeepsPool ==
    ASSUME TempTypes, Held, NEW p \in Tabs, TabStep(p), NEW q \in Tabs
    PROVE  /\ pool'[q] = None \/ pool'[q] \in [piece : Pieces(Of[q]), to : {"part", "temp"}]
           /\ pool'[q] # None => IF pool'[q].to = "part" THEN part'[Of[q]] # None ELSE target' # None
<1>1. pool[q] = None \/ pool[q] \in [piece : Pieces(Of[q]), to : {"part", "temp"}]
  BY DEF TempTypes, TabTypes, Pieces
<1>2. pool[q] # None => IF pool[q].to = "part" THEN part[Of[q]] # None ELSE target # None
  BY DEF Held, HasFile
<1>3. Of[p] \in Uploads /\ Of[q] \in Uploads
  BY TempAssumption
<1>4. CASE T!Rename(p) /\ pool' = [x \in Tabs |-> T!Renamed(x, Of[p])]
  <2>1. pool'[q] = T!Renamed(q, Of[p])
    BY <1>4
  <2>2. part[Of[p]] # None
    BY <1>4 DEF T!Rename, Held, Locks, HasPart
  <2>3. target' # None
    BY <1>4, <2>2 DEF T!Rename
  <2>4. CASE pool[q] = None \/ pool[q].to = "temp"
    BY <2>1, <2>4 DEF T!Renamed
  <2>5. CASE pool[q] # None /\ pool[q].to # "temp" /\ Of[q] = Of[p]
    <3>1. pool'[q] = [pool[q] EXCEPT !.to = "temp"]
      BY <2>1, <2>5 DEF T!Renamed
    <3>2. pool'[q] \in [piece : Pieces(Of[q]), to : {"part", "temp"}] /\ pool'[q].to = "temp"
      BY <1>1, <2>5, <3>1
    <3> QED
      BY <2>3, <3>2
  <2>6. CASE pool[q] # None /\ pool[q].to # "temp" /\ Of[q] # Of[p]
    <3>1. pool'[q] = pool[q] /\ pool[q].to = "part"
      BY <1>1, <2>1, <2>6 DEF T!Renamed
    <3>2. part'[Of[q]] = part[Of[q]]
      BY <1>3, <2>6, TabFramed DEF Framed, TempTypes
    <3> QED
      BY <1>1, <1>2, <2>6, <3>1, <3>2
  <2> QED
    BY <2>4, <2>5, <2>6
<1>5. CASE ~T!Rename(p)
  <2>1. pool'[q] # None /\ part[Of[q]] # None => part'[Of[q]] # None
    <3>1. CASE Of[q] = Of[p]
      BY <1>5, <3>1, PartGrows
    <3>2. CASE Of[q] # Of[p]
      BY <1>3, <3>2, TabFramed DEF Framed, TempTypes
    <3> QED
      BY <3>1, <3>2
  <2>2. target # None => target' # None
    <3>1. CASE target' = target
      BY <3>1
    <3>2. CASE target # None /\ pool[p] # None /\ target' = Append(target, pool[p].piece)
      <4>1. target \in Seq((Uploads \cup {None}) \X Nat)
        BY <3>2 DEF TempTypes, TargetTypes
      <4>2. pool[p].piece \in (Uploads \cup {None}) \X Nat
        BY <1>3, <3>2, TempFacts DEF Pieces
      <4>3. target' \in Seq((Uploads \cup {None}) \X Nat)
        BY <3>2, <4>1, <4>2, AppendProperties
      <4> QED
        BY <4>3, TempAssumption
    <3> QED
      BY <1>5, <3>1, <3>2, TabTargetMoves DEF TargetMoves
  <2>3. CASE pool'[q] = pool[q]
    BY <1>1, <1>2, <2>1, <2>2, <2>3
  <2>4. CASE pool'[q] = None
    BY <2>4
  <2>5. CASE q = p /\ pc[p] = "write" /\ todo[p] # <<>> /\ pool'[p] = [piece |-> Head(todo[p]), to |-> "part"]
    <3>1. Head(todo[p]) \in Pieces(Of[p])
      BY <2>5, TempFacts, HeadTailProperties
    <3>2. part[Of[p]] # None
      BY <2>5 DEF Held, Locks, HasPart
    <3>3. pool'[q] \in [piece : Pieces(Of[q]), to : {"part", "temp"}] /\ pool'[q].to = "part"
      BY <2>5, <3>1
    <3> QED
      BY <2>1, <2>5, <3>2, <3>3
  <2> QED
    BY <1>5, <2>3, <2>4, <2>5, TabPoolMoves DEF PoolMoves, TempTypes
<1> QED
  BY <1>4, <1>5 DEF T!Rename

\* The types hold after a step of a tab.
LEMMA TabTempTypes ==
    ASSUME TempTypes, Held, NEW p \in Tabs, TabStep(p)
    PROVE  TempTypes'
<1>1. Shapes'
  BY TabShapes DEF TempTypes
<1>2. Framed(p) /\ Of[p] \in Uploads
  BY TabFramed, TempAssumption DEF TempTypes
<1>3. ASSUME NEW q \in Tabs PROVE TabTypes(q)'
  <2>1. pool'[q] = None \/ pool'[q] \in [piece : Pieces(Of[q]), to : {"part", "temp"}]
    BY TabKeepsPool
  <2>2. offset'[q] \in 0..Total[Of[q]] /\ todo'[q] \in Seq(Pieces(Of[q]))
    <3>1. CASE q = p
      BY <3>1, TabKeepsOffset
    <3>2. CASE q # p
      BY <1>2, <3>2 DEF Framed, TempTypes, TabTypes, Pieces
    <3> QED
      BY <3>1, <3>2
  <2> QED
    BY <2>1, <2>2 DEF TabTypes, Pieces
<1>4. ASSUME NEW u \in Uploads PROVE PartTypes(u)'
  <2>1. CASE u = Of[p]
    BY <2>1, PartGrows DEF PartTypes, Pieces
  <2>2. CASE u # Of[p]
    BY <1>2, <2>2 DEF Framed, TempTypes, PartTypes
  <2> QED
    BY <2>1, <2>2
<1>5. TargetTypes'
  <2>1. CASE target' = target
    BY <2>1 DEF TargetTypes, TempTypes
  <2>2. CASE target' = part[Of[p]]
    <3>1. part[Of[p]] = None \/ part[Of[p]] \in Seq(Pieces(Of[p]))
      BY <1>2 DEF TempTypes, PartTypes, Pieces
    <3> QED
      BY <1>2, <2>2, <3>1, PiecesAre DEF TargetTypes
  <2>3. CASE T!LateWrite(p) /\ pool[p] # None /\ pool[p].to = "temp" /\ target' = Append(target, pool[p].piece)
    <3>1. target \in Seq((Uploads \cup {None}) \X Nat)
      BY <2>3 DEF TempTypes, TargetTypes, Held, HasFile
    <3>2. pool[p].piece \in (Uploads \cup {None}) \X Nat
      BY <1>2, <2>3, TempFacts DEF Pieces
    <3> QED
      BY <2>3, <3>1, <3>2, AppendProperties DEF TargetTypes
  <2> QED
    BY <2>1, <2>2, <2>3, TabTargetMoves DEF TargetMoves
<1> QED
  BY <1>1, <1>3, <1>4, <1>5 DEF TempTypes

\* A lock that is held has its file.
LEMMA TabHeld ==
    ASSUME TempTypes, Held, NEW p \in Tabs, TabStep(p)
    PROVE  Held'
<1>1. Locks'
  <2> SUFFICES ASSUME Shapes, Locks, None \notin Tabs PROVE Locks'
    BY TempAssumption DEF TempTypes, Held
  <2> USE DEF T!files, T!client, T!spent, Shapes, Locks
  <2>1. CASE T!Choose(p)
    BY <2>1 DEF T!Choose
  <2>2. CASE T!Status(p)
    BY <2>2 DEF T!Status
  <2>3. CASE T!Send(p)
    BY <2>3 DEF T!Send
  <2>4. CASE T!Accept(p)
    BY <2>4 DEF T!Accept
  <2>5. CASE T!Write(p)
    BY <2>5 DEF T!Write
  <2>6. CASE T!Written(p)
    BY <2>6 DEF T!Written
  <2>7. CASE T!WriteMarker(p)
    BY <2>7 DEF T!WriteMarker
  <2>8. CASE T!Rename(p)
    BY <2>8 DEF T!Rename
  <2>9. CASE T!Fail(p)
    BY <2>9 DEF T!Fail, T!Abort
  <2>10. CASE T!Drop(p)
    BY <2>10 DEF T!Drop, T!Abort
  <2>11. CASE T!LateWrite(p)
    BY <2>11 DEF T!LateWrite
  <2> QED
    BY <2>1, <2>2, <2>3, <2>4, <2>5, <2>6, <2>7, <2>8, <2>9, <2>10, <2>11 DEF TabStep
<1>2. HasPart'
  <2> SUFFICES ASSUME NEW q \in Tabs, holder' = q PROVE part'[Of[q]] # None
    BY DEF HasPart
  <2>1. Of[p] \in Uploads /\ Of[q] \in Uploads
    BY TempAssumption
  <2>2. ~T!Rename(p)
    BY TempAssumption DEF T!Rename
  <2>3. (q = p /\ T!Accept(p) /\ part'[Of[p]] = T!Bytes(Of[p])) \/ part[Of[q]] # None
    <3>1. holder' = holder \/ (q = p /\ T!Accept(p) /\ part'[Of[p]] = T!Bytes(Of[p]))
      <4> SUFFICES ASSUME Shapes, None \notin Tabs, Of[p] \in Uploads
                   PROVE holder' = holder \/ (q = p /\ T!Accept(p) /\ part'[Of[p]] = T!Bytes(Of[p]))
        BY <2>1, TempAssumption DEF TempTypes
      <4> USE DEF T!files, T!client, T!spent, Shapes
      <4>1. CASE T!Choose(p)
        BY <4>1 DEF T!Choose
      <4>2. CASE T!Status(p)
        BY <4>2 DEF T!Status
      <4>3. CASE T!Send(p)
        BY <4>3 DEF T!Send
      <4>4. CASE T!Accept(p)
        BY <4>4 DEF T!Accept
      <4>5. CASE T!Write(p)
        BY <4>5 DEF T!Write
      <4>6. CASE T!Written(p)
        BY <4>6 DEF T!Written
      <4>7. CASE T!WriteMarker(p)
        BY <4>7 DEF T!WriteMarker
      <4>8. CASE T!Rename(p)
        BY <4>8 DEF T!Rename
      <4>9. CASE T!Fail(p)
        BY <4>9 DEF T!Fail, T!Abort
      <4>10. CASE T!Drop(p)
        BY <4>10 DEF T!Drop, T!Abort
      <4>11. CASE T!LateWrite(p)
        BY <4>11 DEF T!LateWrite
      <4> QED
        BY <4>1, <4>2, <4>3, <4>4, <4>5, <4>6, <4>7, <4>8, <4>9, <4>10, <4>11 DEF TabStep
    <3> QED
      BY <3>1 DEF Held, HasPart
  <2>4. CASE q = p /\ part'[Of[p]] = T!Bytes(Of[p])
    BY <2>1, <2>4, TempFacts, PiecesAre
  <2>5. CASE part[Of[q]] # None
    <3>1. CASE Of[q] = Of[p]
      BY <2>2, <2>5, <3>1, PartGrows
    <3>2. CASE Of[q] # Of[p]
      BY <2>1, <2>5, <3>2, TabFramed DEF Framed, TempTypes
    <3> QED
      BY <3>1, <3>2
  <2> QED
    BY <2>3, <2>4, <2>5
<1>3. HasFile'
  BY TabKeepsPool DEF HasFile
<1> QED
  BY <1>1, <1>2, <1>3 DEF Held

\* A piece goes from the one to the other, or comes from elsewhere.
LEMMA Longer == \A a, b, c \in Nat : a + b >= c => (a + 1) + b >= c /\ (a + 1) + (b - 1) >= c
OBVIOUS

\* A tab that does not step: what comes to its .part is a late write.
LEMMA KeptHolds ==
    ASSUME NEW q \in Tabs, TabHolds(q), pc'[q] = pc[q], offset'[q] = offset[q], todo'[q] = todo[q],
           late \subseteq late', todo[q] \in Seq(Pieces(Of[q])), Total[Of[q]] \in Nat, T!End(q) \in Nat,
           pc[q] \in {"write", "marker", "rename"} =>
               /\ Len(part[Of[q]]) \in Nat
               /\ \/ part'[Of[q]] = part[Of[q]]
                  \/ Of[q] \in late' /\ Len(part'[Of[q]]) = Len(part[Of[q]]) + 1
    PROVE  TabHolds(q)'
<1>1. T!End(q)' = T!End(q) /\ Len(todo[q]) \in Nat
  BY LenProperties DEF T!End
<1>2. CASE pc[q] \notin {"write", "marker", "rename"}
  BY <1>1, <1>2 DEF TabHolds
<1>3. CASE pc[q] \in {"write", "marker", "rename"} /\ part'[Of[q]] = part[Of[q]]
  <2>1. Of[q] \notin late' => Of[q] \notin late
    OBVIOUS
  <2> QED
    BY <1>1, <1>3, <2>1 DEF TabHolds
<1>4. CASE /\ pc[q] \in {"write", "marker", "rename"}
           /\ Of[q] \in late' /\ Len(part'[Of[q]]) = Len(part[Of[q]]) + 1
  <2>1. pc[q] = "write" => Len(part'[Of[q]]) + Len(todo[q]) >= T!End(q)
    <3>1. pc[q] = "write" => Len(part[Of[q]]) + Len(todo[q]) >= T!End(q)
      BY DEF TabHolds
    <3>2. Len(part[Of[q]]) \in Nat
      BY <1>4
    <3> QED
      BY <1>1, <1>4, <3>1, <3>2, Longer
  <2>2. pc[q] \in {"marker", "rename"} => Len(part'[Of[q]]) >= Total[Of[q]]
    BY <1>4 DEF TabHolds
  <2> QED
    BY <1>1, <1>4, <2>1, <2>2 DEF TabHolds
<1> QED
  BY <1>2, <1>3, <1>4

\* The steps leave another tab's work alone.
LEMMA OthersHold ==
    ASSUME TempTypes, Held, NEW p \in Tabs, TabStep(p), NEW q \in Tabs, TabHolds(q), q # p \/ T!LateWrite(p)
    PROVE  TabHolds(q)'
<1>1. /\ todo[q] \in Seq(Pieces(Of[q])) /\ Total[Of[q]] \in Nat /\ T!End(q) \in Nat
      /\ Of[p] \in Uploads /\ Of[q] \in Uploads
  BY TempFacts
<1>2. pc'[q] = pc[q] /\ offset'[q] = offset[q] /\ todo'[q] = todo[q]
  <2>1. CASE q # p
    BY <2>1, TabFramed DEF Framed, TempTypes
  <2>2. CASE T!LateWrite(p)
    BY <2>2 DEF T!LateWrite, T!client
  <2> QED
    BY <2>1, <2>2
<1>3. late \subseteq late'
  BY TabTargetMoves
<1>4. ASSUME pc[q] \in {"write", "marker", "rename"}
      PROVE  /\ Len(part[Of[q]]) \in Nat
             /\ \/ part'[Of[q]] = part[Of[q]]
                \/ Of[q] \in late' /\ Len(part'[Of[q]]) = Len(part[Of[q]]) + 1
  <2>1. holder = q /\ part[Of[q]] # None /\ holder # None
    BY <1>4, TempAssumption DEF Held, Locks, HasPart
  <2>2. Len(part[Of[q]]) \in Nat
    BY <1>1, <2>1, TempFacts
  <2>3. CASE Of[q] # Of[p]
    BY <1>1, <2>2, <2>3, TabFramed DEF Framed, TempTypes
  <2>4. CASE Of[q] = Of[p] /\ T!LateWrite(p)
    <3>1. Len(part'[Of[p]]) = Len(part[Of[p]]) + 1 \/ part'[Of[p]] = part[Of[p]]
      BY <2>4, PartGrows
    <3>2. Of[p] \in late'
      BY <1>1, <2>4 DEF T!LateWrite
    <3> QED
      BY <2>2, <2>4, <3>1, <3>2
  <2>5. CASE Of[q] = Of[p] /\ q # p
    <3>1. ~T!Accept(p)
      BY <2>1 DEF T!Accept
    <3>2. pc[p] \notin {"write", "rename"}
      BY <2>1, <2>5 DEF Held, Locks
    <3>3. ~T!Write(p) /\ ~T!Rename(p)
      BY <3>2 DEF T!Write, T!Rename
    <3>4. part'[Of[p]] = part[Of[p]] \/ T!LateWrite(p)
      BY <3>1, <3>3, TabPartMoves DEF PartMoves, TempTypes
    <3> QED
      BY <2>2, <2>4, <2>5, <3>4
  <2> QED
    BY <1>2, <2>3, <2>4, <2>5
<1> QED
  BY <1>1, <1>2, <1>3, <1>4, KeptHolds

\* The tab that steps: its chunk goes on where the .part ends.
LEMMA SelfHolds ==
    ASSUME TempTypes, Held, PartIsPrefix, NEW p \in Tabs, TabStep(p), TabHolds(p)
    PROVE  TabHolds(p)'
<1> DEFINE u == Of[p]
           W == T!Whole(Of[p])
<1>1. /\ u \in Uploads /\ offset[p] \in Nat /\ offset[p] <= Total[u] /\ todo[p] \in Seq(Pieces(u))
      /\ T!End(p) \in Nat /\ offset[p] <= T!End(p) /\ T!End(p) <= Total[u] /\ Total[u] \in Nat
  BY TempFacts
<1>2. /\ part[u] # None => part[u] \in Seq(Pieces(u)) /\ Len(part[u]) \in Nat
      /\ T!Bytes(u) \in Seq(Pieces(u)) /\ T!Size(u) = Len(T!Bytes(u)) /\ T!Size(u) \in Nat
  BY <1>1, TempFacts
<1>3. Len(todo[p]) \in Nat
  BY <1>1, LenProperties
<1>4. pc[p] \in {"write", "marker", "rename"} => holder = p /\ part[u] # None
  BY DEF Held, Locks, HasPart
<1>5. CASE pc'[p] \notin {"chunk", "write", "marker", "rename"}
  BY <1>5 DEF TabHolds
<1>6. CASE T!LateWrite(p)
  BY <1>6, OthersHold
<1>7. CASE T!Send(p)
  <2>1. pc'[p] = "chunk" /\ todo'[p] = SubSeq(W, offset[p] + 1, T!End(p)) /\ offset' = offset
    BY <1>7 DEF T!Send, TempTypes, Shapes
  <2>2. T!End(p)' = T!End(p)
    BY <2>1 DEF T!End
  <2> QED
    BY <2>1, <2>2 DEF TabHolds
<1>8. CASE T!Accept(p) /\ T!OffsetFits(p)
  <2>1. /\ pc[p] = "chunk" /\ pc'[p] = "write" /\ todo' = todo /\ offset' = offset /\ late' = late
        /\ part'[u] = T!Bytes(u)
    BY <1>1, <1>8 DEF T!Accept, TempTypes, Shapes
  <2>2. T!End(p)' = T!End(p)
    BY <2>1 DEF T!End
  <2>3. Len(part'[u]) = offset[p]
    BY <1>2, <1>8, <2>1 DEF T!OffsetFits
  <2>4. todo[p] = SubSeq(W, offset[p] + 1, T!End(p))
    BY <2>1 DEF TabHolds
  <2>5. Len(todo[p]) = T!End(p) - offset[p]
    <3>1. offset[p] \in 0..Total[u] /\ T!End(p) \in offset[p]..Total[u]
      BY <1>1
    <3> QED
      BY <1>1, <2>4, <3>1, StretchIs
  <2>6. Len(part'[u]) + Len(todo[p]) >= T!End(p)
    BY <1>1, <2>3, <2>5
  <2> QED
    BY <1>1, <2>1, <2>2, <2>3, <2>4, <2>6 DEF TabHolds
<1>9. CASE T!Write(p)
  <2>1. /\ pc[p] = "write" /\ pc' = pc /\ todo[p] # <<>> /\ todo'[p] = Tail(todo[p])
        /\ offset' = offset /\ late' = late
        /\ part'[u] = Append(part[u], Head(todo[p]))
    BY <1>1, <1>9 DEF T!Write, TempTypes, Shapes
  <2>2. T!End(p)' = T!End(p)
    BY <2>1 DEF T!End
  <2>3. part[u] \in Seq(Pieces(u)) /\ Len(part[u]) \in Nat
    BY <1>2, <1>4, <2>1
  <2>4. Len(part'[u]) = Len(part[u]) + 1 /\ Len(todo'[p]) = Len(todo[p]) - 1
    <3>1. Head(todo[p]) \in Pieces(u) /\ Len(Tail(todo[p])) = Len(todo[p]) - 1
      BY <1>1, <2>1, HeadTailProperties
    <3> QED
      BY <2>1, <2>3, <3>1, AppendProperties
  <2>5. Len(part'[u]) + Len(todo'[p]) >= T!End(p)
    <3>1. Len(part[u]) + Len(todo[p]) >= T!End(p)
      BY <2>1 DEF TabHolds
    <3> QED
      BY <1>1, <1>3, <2>3, <2>4, <3>1, Longer
  <2>6. ASSUME u \notin late
        PROVE  Len(part'[u]) <= T!End(p) /\ todo'[p] = SubSeq(W, Len(part'[u]) + 1, T!End(p))
    <3>1. Len(part[u]) <= T!End(p) /\ todo[p] = SubSeq(W, Len(part[u]) + 1, T!End(p))
      BY <2>1, <2>6 DEF TabHolds
    <3>2. Len(part[u]) # T!End(p)
      <4> SUFFICES ASSUME Len(part[u]) = T!End(p) PROVE FALSE
        OBVIOUS
      <4>1. Len(part[u]) + 1 \in Int /\ T!End(p) \in Int /\ T!End(p) < Len(part[u]) + 1
        BY <1>1, <2>3
      <4> QED
        BY <2>1, <3>1, <4>1, SubSeqEmpty
    <3>3. Len(part[u]) \in 0..Total[u] /\ T!End(p) \in Len(part[u])..Total[u] /\ Len(part[u]) < T!End(p)
      BY <1>1, <2>3, <3>1, <3>2
    <3>4. todo'[p] = SubSeq(W, Len(part[u]) + 1 + 1, T!End(p))
      BY <1>1, <2>1, <3>1, <3>3, StretchStep
    <3> QED
      BY <2>3, <2>4, <3>3, <3>4
  <2> QED
    BY <2>1, <2>2, <2>5, <2>6 DEF TabHolds
<1>10. CASE T!Written(p) /\ T!End(p) = Total[u]
  <2>1. pc[p] = "write" /\ pc'[p] = "marker" /\ todo[p] = <<>> /\ late' = late /\ part' = part
    BY <1>10 DEF T!Written, TempTypes, Shapes, T!files
  <2>2. Len(part[u]) \in Nat /\ Len(todo[p]) = 0
    BY <1>2, <1>4, <2>1, EmptySeq
  <2>3. Len(part[u]) >= Total[u]
    BY <1>1, <1>10, <2>1, <2>2 DEF TabHolds
  <2>4. ASSUME u \notin late PROVE part[u] = W
    <3>1. Len(part[u]) = Total[u]
      <4>1. Len(part[u]) <= T!End(p)
        BY <2>1, <2>4 DEF TabHolds
      <4> QED
        BY <1>1, <1>10, <2>2, <2>3, <4>1
    <3>2. part[u] = SubSeq(W, 1, Total[u])
      <4>1. T!WellFilled(u) /\ part[u] # None
        BY <1>1, <1>4, <2>1, <2>4 DEF PartIsPrefix, T!PartIsPrefix
      <4> QED
        BY <3>1, <4>1 DEF T!WellFilled, T!Size
    <3> QED
      BY <1>1, <3>2, StretchEnds
  <2> QED
    BY <2>1, <2>3, <2>4 DEF TabHolds
<1>11. CASE T!WriteMarker(p)
  <2>1. pc[p] = "marker" /\ pc'[p] = "rename" /\ late' = late /\ part' = part
    BY <1>11 DEF T!WriteMarker, TempTypes, Shapes
  <2> QED
    BY <2>1 DEF TabHolds
<1>12. CASE T!Choose(p) \/ T!Status(p) \/ T!Rename(p) \/ T!Fail(p) \/ T!Drop(p)
  <2>1. pc'[p] \in {"idle", "status", "ready"}
    BY <1>12 DEF T!Choose, T!Status, T!Rename, T!Fail, T!Drop, T!Abort, TempTypes, Shapes
  <2> QED
    BY <1>5, <2>1
<1>13. CASE T!Accept(p) /\ ~T!OffsetFits(p)
  <2>1. pc'[p] = "idle"
    BY <1>13 DEF T!Accept, TempTypes, Shapes
  <2> QED
    BY <1>5, <2>1
<1>14. CASE T!Written(p) /\ T!End(p) # Total[u]
  <2>1. pc'[p] = "ready"
    BY <1>14 DEF T!Written, TempTypes, Shapes
  <2> QED
    BY <1>5, <2>1
<1> QED
  BY <1>6, <1>7, <1>8, <1>9, <1>10, <1>11, <1>12, <1>13, <1>14 DEF TabStep

\* A .part stays a beginning of its upload, until a late write comes to it.
LEMMA TabPrefix ==
    ASSUME TempTypes, Held, PartIsPrefix, NEW p \in Tabs, TabStep(p), TabHolds(p)
    PROVE  PartIsPrefix'
<1> SUFFICES ASSUME NEW u \in Uploads, u \notin late' PROVE T!WellFilled(u)'
  BY DEF PartIsPrefix, T!PartIsPrefix
<1>1. T!WellFilled(u) /\ u \notin late
  BY TabTargetMoves DEF PartIsPrefix, T!PartIsPrefix
<1>2. CASE part'[u] = part[u]
  BY <1>1, <1>2 DEF T!WellFilled, T!Size
<1>3. CASE u = Of[p] /\ part'[u] = T!Bytes(u)
  <2>1. CASE part[u] # None
    BY <1>2, <1>3, <2>1 DEF T!Bytes
  <2>2. CASE part[u] = None
    <3>1. part'[u] = <<>> /\ Len(<<>>) = 0 /\ Total[u] \in Nat
      BY <1>3, <2>2, EmptySeq, TempAssumption DEF T!Bytes
    <3>2. part'[u] = SubSeq(T!Whole(u), 1, 0)
      BY <3>1, StretchEnds
    <3> QED
      BY <3>1, <3>2 DEF T!WellFilled, T!Size
  <2> QED
    BY <2>1, <2>2
<1>4. CASE /\ u = Of[p] /\ pc[p] = "write" /\ todo[p] # <<>>
           /\ part[u] # None /\ part'[u] = Append(part[u], Head(todo[p]))
  <2>1. Len(part[u]) \in Nat /\ T!End(p) \in Nat /\ T!End(p) <= Total[u] /\ Total[u] \in Nat
    BY <1>4, TempFacts
  <2>2. Len(part[u]) <= T!End(p) /\ todo[p] = SubSeq(T!Whole(u), Len(part[u]) + 1, T!End(p))
    BY <1>1, <1>4 DEF TabHolds
  <2>3. Len(part[u]) # T!End(p)
    <3> SUFFICES ASSUME Len(part[u]) = T!End(p) PROVE FALSE
      OBVIOUS
    <3>1. Len(part[u]) + 1 \in Int /\ T!End(p) \in Int /\ T!End(p) < Len(part[u]) + 1
      BY <2>1
    <3> QED
      BY <1>4, <2>2, <3>1, SubSeqEmpty
  <2>4. Len(part[u]) \in 0..Total[u] /\ T!End(p) \in Len(part[u])..Total[u] /\ Len(part[u]) < T!End(p)
    BY <2>1, <2>2, <2>3
  <2>5. /\ Append(SubSeq(T!Whole(u), 1, Len(part[u])), Head(todo[p])) = SubSeq(T!Whole(u), 1, Len(part[u]) + 1)
        /\ Head(todo[p]) \in Pieces(u)
    BY <2>2, <2>4, StretchStep
  <2>6. part[u] = SubSeq(T!Whole(u), 1, Len(part[u]))
    BY <1>1, <1>4 DEF T!WellFilled, T!Size
  <2>7. part'[u] = SubSeq(T!Whole(u), 1, Len(part[u]) + 1)
    BY <1>4, <2>5, <2>6
  <2>8. Len(part'[u]) = Len(part[u]) + 1
    <3>1. part[u] \in Seq(Pieces(u))
      BY <1>4, TempFacts
    <3> QED
      BY <1>4, <2>5, <3>1, AppendProperties
  <2>9. Len(part'[u]) <= Total[u] /\ part'[u] = SubSeq(T!Whole(u), 1, Len(part'[u]))
    BY <2>1, <2>4, <2>7, <2>8
  <2>10. part'[u] # None => T!Size(u)' = Len(part'[u])
    BY DEF T!Size
  <2> QED
    BY <2>9, <2>10 DEF T!WellFilled
<1>5. CASE part'[u] = None
  BY <1>5 DEF T!WellFilled
<1>6. CASE u = Of[p]
  BY <1>2, <1>3, <1>4, <1>5, <1>6, TabPartMoves DEF PartMoves, TempTypes
<1>7. CASE u # Of[p]
  BY <1>2, <1>7, TabFramed DEF Framed, TempTypes
<1> QED
  BY <1>6, <1>7

\* What is put into temp is the upload, or late writes came to it.
LEMMA RenamedLands ==
    ASSUME TempTypes, Held, NEW p \in Tabs, T!Rename(p), TabHolds(p)
    PROVE  target' = T!Whole(Of[p]) \/ T!Damaged(target')
<1> DEFINE u == Of[p]
<1>1. pc[p] = "rename" /\ target' = part[u] /\ u \in Uploads /\ part[u] # None
  BY TempAssumption DEF T!Rename, Held, Locks, HasPart
<1>2. part[u] \in Seq(Pieces(u)) /\ Len(part[u]) \in Nat /\ Total[u] \in Nat
  BY <1>1, TempFacts
<1>3. CASE u \notin late
  BY <1>1, <1>3 DEF TabHolds
<1>4. CASE u \in late /\ Len(part[u]) = 0
  <2>1. Total[u] = 0
    <3>1. Len(part[u]) >= Total[u]
      BY <1>1 DEF TabHolds
    <3> QED
      BY <1>2, <1>4, <3>1
  <2>2. T!Whole(u) = <<>>
    BY <1>1, <2>1, StretchEnds
  <2>3. part[u] = <<>>
    BY <1>2, <1>4, EmptySeq
  <2> QED
    BY <1>1, <2>2, <2>3
<1>5. CASE u \in late /\ Len(part[u]) # 0
  <2>1. 1 \in 1..Len(part[u]) /\ DOMAIN part[u] = 1..Len(part[u])
    BY <1>2, <1>5, LenProperties
  <2>2. part[u][1] \in Pieces(u)
    BY <1>2, <2>1, ElementOfSeq
  <2>3. part[u][1][1] = u
    BY <2>2 DEF Pieces
  <2> QED
    BY <1>1, <1>5, <2>1, <2>3 DEF T!Damaged
<1> QED
  BY <1>3, <1>4, <1>5

\* The file in temp stays the old one, an upload, or damaged.
LEMMA TabLanded ==
    ASSUME TempTypes, Held, Landed, NEW p \in Tabs, TabStep(p), TabHolds(p)
    PROVE  Landed'
<1>1. late \subseteq late' /\ TargetMoves(p) /\ Of[p] \in Uploads
  BY TabTargetMoves, TempAssumption
<1>2. CASE target' = target
  BY <1>1, <1>2 DEF Landed, T!Damaged, T!Whole
<1>3. CASE T!Rename(p)
  <2>1. target' = T!Whole(Of[p]) \/ T!Damaged(target')
    BY <1>3, RenamedLands
  <2>2. late' = late
    BY <1>3 DEF T!Rename
  <2> QED
    BY <1>1, <2>1, <2>2 DEF Landed, T!Damaged, T!Whole
<1>4. CASE /\ pool[p] # None /\ pool[p].to = "temp" /\ target' = Append(target, pool[p].piece) /\ Of[p] \in late'
  <2>1. target \in Seq((Uploads \cup {None}) \X Nat)
    BY <1>4 DEF TempTypes, TargetTypes, Held, HasFile
  <2>2. pool[p].piece \in Pieces(Of[p])
    BY <1>4, TempFacts
  <2>3. pool[p].piece \in (Uploads \cup {None}) \X Nat /\ pool[p].piece[1] = Of[p]
    BY <1>1, <2>2 DEF Pieces
  <2>4. /\ target' \in Seq((Uploads \cup {None}) \X Nat)
        /\ Len(target') = Len(target) + 1 /\ target'[Len(target) + 1] = pool[p].piece
    BY <1>4, <2>1, <2>3, AppendProperties
  <2>5. Len(target) + 1 \in DOMAIN target'
    <3>1. DOMAIN target' = 1..Len(target') /\ Len(target) \in Nat
      BY <2>1, <2>4, LenProperties
    <3> QED
      BY <2>4, <3>1
  <2> QED
    BY <1>4, <2>3, <2>4, <2>5 DEF Landed, T!Damaged
<1> QED
  BY <1>1, <1>2, <1>3, <1>4 DEF TargetMoves

\* Who is told that an upload is complete finds it.
LEMMA TabTold ==
    ASSUME SizesTell, TempTypes, Held, Landed, NEW p \in Tabs, TabStep(p), TabHolds(p),
           NEW q \in told' \ told
    PROVE  target' = T!Whole(Of[q]) \/ T!Damaged(target')
<1>1. q = p /\ (T!Rename(p) \/ (T!Status(p) /\ T!Done(Of[p])))
  <2> USE DEF T!files, T!client, T!spent
  <2>1. CASE T!Choose(p)
    BY <2>1 DEF T!Choose
  <2>2. CASE T!Status(p)
    BY <2>2 DEF T!Status
  <2>3. CASE T!Send(p)
    BY <2>3 DEF T!Send
  <2>4. CASE T!Accept(p)
    BY <2>4 DEF T!Accept
  <2>5. CASE T!Write(p)
    BY <2>5 DEF T!Write
  <2>6. CASE T!Written(p)
    BY <2>6 DEF T!Written
  <2>7. CASE T!WriteMarker(p)
    BY <2>7 DEF T!WriteMarker
  <2>8. CASE T!Rename(p)
    BY <2>8 DEF T!Rename
  <2>9. CASE T!Fail(p)
    BY <2>9 DEF T!Fail, T!Abort
  <2>10. CASE T!Drop(p)
    BY <2>10 DEF T!Drop, T!Abort
  <2>11. CASE T!LateWrite(p)
    BY <2>11 DEF T!LateWrite
  <2> QED
    BY <2>1, <2>2, <2>3, <2>4, <2>5, <2>6, <2>7, <2>8, <2>9, <2>10, <2>11 DEF TabStep
<1>2. CASE T!Rename(p)
  BY <1>1, <1>2, RenamedLands
<1>3. CASE T!Status(p) /\ T!Done(Of[p])
  <2>1. target' = target /\ target # None /\ Len(target) = Total[Of[p]] /\ Of[p] \in Uploads
    BY <1>3, TempAssumption DEF T!Status, T!Done, T!files
  <2>2. target # Old
    BY <2>1 DEF SizesTell
  <2>3. \A v \in Uploads : target = T!Whole(v) => v = Of[p]
    BY <2>1, WholeIs DEF SizesTell
  <2> QED
    BY <1>1, <2>1, <2>2, <2>3 DEF Landed
<1> QED
  BY <1>1, <1>2, <1>3

\* The inductive invariant of the uploads.
TempInv == TempTypes /\ Held /\ PartIsPrefix /\ TabsHold /\ Landed

\* A step of a tab keeps it.
LEMMA TabInv ==
    ASSUME TempInv, NEW p \in Tabs, TabStep(p)
    PROVE  TempInv'
<1>1. TabsHold'
  <2> SUFFICES ASSUME NEW q \in Tabs PROVE TabHolds(q)'
    BY DEF TabsHold
  <2>1. CASE q = p
    BY <2>1, SelfHolds DEF TempInv, TabsHold
  <2>2. CASE q # p
    BY <2>2, OthersHold DEF TempInv, TabsHold
  <2> QED
    BY <2>1, <2>2
<1> QED
  BY <1>1, TabTempTypes, TabHeld, TabPrefix, TabLanded DEF TempInv, TabsHold

\* A restart forgets the tabs' requests, and the writes that were to come.
LEMMA RestartInv ==
    ASSUME TempInv, T!Restart
    PROVE  TempInv'
<1>1. /\ pc' = [p \in Tabs |-> "idle"] /\ todo' = [p \in Tabs |-> <<>>] /\ pool' = [p \in Tabs |-> None]
      /\ holder' = None /\ UNCHANGED <<part, mark, target, offset, told, late>>
  BY DEF T!Restart, T!files
<1>2. TempTypes'
  <2>1. Shapes'
    BY <1>1 DEF TempInv, TempTypes, Shapes
  <2>2. \A p \in Tabs : TabTypes(p)'
    <3> SUFFICES ASSUME NEW p \in Tabs PROVE TabTypes(p)'
      OBVIOUS
    <3>1. <<>> \in Seq({Of[p]} \X Nat) /\ todo'[p] = <<>> /\ pool'[p] = None
      BY <1>1, EmptySeq
    <3> QED
      BY <1>1, <3>1 DEF TempInv, TempTypes, TabTypes
  <2> QED
    BY <1>1, <2>1, <2>2 DEF TempInv, TempTypes, PartTypes, TargetTypes
<1>3. Held'
  BY <1>1, TempAssumption DEF Held, Locks, HasPart, HasFile
<1>4. TabsHold'
  BY <1>1 DEF TabsHold, TabHolds
<1>5. PartIsPrefix' /\ Landed'
  BY <1>1 DEF TempInv, PartIsPrefix, T!PartIsPrefix, T!WellFilled, T!Size, Landed, T!Damaged, T!Whole
<1> QED
  BY <1>2, <1>3, <1>4, <1>5 DEF TempInv

\* Nothing has been sent at the start.
LEMMA InitTempInv == T!Init => TempInv
<1> SUFFICES ASSUME T!Init PROVE TempInv
  OBVIOUS
<1>1. /\ \A u \in Uploads : part[u] = None
      /\ \A p \in Tabs : pc[p] = "idle" /\ offset[p] = 0 /\ todo[p] = <<>> /\ pool[p] = None
      /\ holder = None /\ target \in {None, Old}
  BY DEF T!Init
<1>2. TempTypes
  <2>1. Shapes
    BY DEF T!Init, Shapes
  <2>2. \A p \in Tabs : TabTypes(p)
    <3> SUFFICES ASSUME NEW p \in Tabs PROVE TabTypes(p)
      OBVIOUS
    <3>1. <<>> \in Seq({Of[p]} \X Nat) /\ Total[Of[p]] \in Nat
      BY EmptySeq, TempAssumption
    <3>2. 0 \in 0..Total[Of[p]]
      BY <3>1
    <3> QED
      BY <1>1, <3>1, <3>2 DEF TabTypes
  <2>3. TargetTypes
    <3>1. Old \in Seq({None} \X Nat)
      BY TempAssumption
    <3>2. Len(Old) \in Nat /\ Old \in [1..Len(Old) -> {None} \X Nat]
      BY <3>1, LenProperties
    <3>3. Old \in [1..Len(Old) -> (Uploads \cup {None}) \X Nat]
      BY <3>2
    <3>4. Old \in Seq((Uploads \cup {None}) \X Nat)
      BY <3>2, <3>3
    <3> QED
      BY <1>1, <3>4 DEF TargetTypes
  <2> QED
    BY <1>1, <2>1, <2>2, <2>3 DEF TempTypes, PartTypes
<1>3. Held
  BY <1>1, TempAssumption DEF Held, Locks, HasPart, HasFile
<1>4. TabsHold /\ PartIsPrefix /\ Landed
  BY <1>1 DEF TabsHold, TabHolds, PartIsPrefix, T!PartIsPrefix, T!WellFilled, Landed
<1> QED
  BY <1>2, <1>3, <1>4 DEF TempInv

\* What stutters keeps everything.
LEMMA StayInv ==
    ASSUME TempInv, UNCHANGED T!vars
    PROVE  TempInv'
<1> USE DEF T!vars, T!files, T!client, T!spent
<1>1. TempTypes'
  BY DEF TempInv, TempTypes, Shapes, TabTypes, PartTypes, TargetTypes
<1>2. Held'
  BY DEF TempInv, Held, Locks, HasPart, HasFile
<1>3. TabsHold'
  BY DEF TempInv, TabsHold, TabHolds, T!End, T!Whole
<1>4. PartIsPrefix' /\ Landed'
  BY DEF TempInv, PartIsPrefix, T!PartIsPrefix, T!WellFilled, T!Size, Landed, T!Damaged, T!Whole
<1> QED
  BY <1>1, <1>2, <1>3, <1>4 DEF TempInv

\* Every step is a tab's, a restart or none.
LEMMA TempNext == [T!Next]_T!vars => (\E p \in Tabs : TabStep(p)) \/ T!Restart \/ UNCHANGED T!vars
BY DEF T!Next, T!Stay, TabStep

\* The uploads keep their invariant.
LEMMA TempInvHolds == Spec => []TempInv
<1>1. Init => TempInv
  BY TempSteps, InitTempInv
<1>2. TempInv /\ [Next]_vars => TempInv'
  BY TempSteps, TempNext, TabInv, RestartInv, StayInv
<1> QED
  BY <1>1, <1>2, PTL DEF Spec

\* api.rs temp_upload_chunk: whoever sends, resumes, repeats or breaks off, a
\* .part file is a beginning of its upload, unless a write of a request that
\* was cut off came late.
THEOREM UpkeepPartIsPrefix == Spec => []PartIsPrefix
<1>1. TempInv => PartIsPrefix
  BY DEF TempInv
<1> QED
  BY <1>1, TempInvHolds, PTL

\* A step tells of nothing that is not there.
LEMMA ToldStep ==
    ASSUME SizesTell, TempInv, [T!Next]_T!vars
    PROVE  \A p \in told' \ told : target' = T!Whole(Of[p]) \/ T!Damaged(target')
<1>1. CASE \E p \in Tabs : TabStep(p)
  BY <1>1, TabTold DEF TempInv, TabsHold
<1>2. CASE T!Restart
  BY <1>2 DEF T!Restart
<1>3. CASE UNCHANGED T!vars
  BY <1>3 DEF T!vars, T!client
<1> QED
  BY <1>1, <1>2, <1>3, TempNext

\* api.rs temp_upload_status, replace_temp_upload: a client that is told its
\* upload is complete has its file in temp, if the sizes tell the uploads of
\* that name and the old file apart.
THEOREM UpkeepToldIsThere == SizesTell => (Spec => ToldIsThere)
<1> SUFFICES ASSUME SizesTell PROVE Spec => ToldIsThere
  OBVIOUS
<1>1. TempInv /\ [Next]_vars => [\A p \in told' \ told : target' = T!Whole(Of[p]) \/ T!Damaged(target')]_T!vars
  BY ToldStep, TempSteps
<1> QED
  BY <1>1, TempInvHolds, PTL DEF Spec, ToldIsThere, T!ToldIsThere

-----------------------------------------------------------------------------
(***************************************************************************)
(* The program's own updates.                                              *)
(***************************************************************************)

Busy == {"copy", "fill", "rename"}

\* What is being installed has its version, and so has what a worker downloads.
Versioned ==
    /\ U!TypeOK /\ upc["cli"] # "fetch"
    /\ \A u \in U!Writers : upc[u] \in {"fetch"} \cup Busy => ver[u] \in Versions
    /\ wpc = "download" => offer \in Versions

\* Versions are numbers, and none of them is 0.
LEMMA Numbers == \A v \in Versions \cup {0} : v \in Nat
<1> SUFFICES ASSUME NEW v \in Versions \cup {0} PROVE v \in Nat
  OBVIOUS
<1>1. CASE v = 0
  BY <1>1
<1>2. CASE v \in Versions
  BY <1>2, UpdateAssumption
<1> QED
  BY <1>1, <1>2

\* Nothing is being installed at the start.
LEMMA InitVersioned == U!Init => Versioned
<1> SUFFICES ASSUME U!Init PROVE Versioned
  OBVIOUS
<1>1. [ver |-> 1, whole |-> TRUE, by |-> None] \in U!Files
  BY UpdateAssumption DEF U!Files
<1>2. exe \in [U!Hosts -> U!Files] /\ draft = None
  BY <1>1 DEF U!Init
<1> QED
  BY <1>2, UpdateAssumption DEF Versioned, Busy, U!Init, U!TypeOK, U!Hosts, U!Writers

\* What a step does to the program files, field by field.
LEMMA FileTypes ==
    ASSUME NEW f \in U!Files
    PROVE  /\ f.ver \in Versions /\ f.whole \in BOOLEAN /\ f.by \in U!Writers \cup {None}
           /\ \A b \in BOOLEAN : [f EXCEPT !.whole = b] = [ver |-> f.ver, whole |-> b, by |-> f.by]
           /\ \A b \in BOOLEAN : [f EXCEPT !.whole = b] \in U!Files
           /\ \A v \in Versions : [f EXCEPT !.ver = v] = [ver |-> v, whole |-> f.whole, by |-> f.by]
           /\ \A v \in Versions : [f EXCEPT !.ver = v] \in U!Files
BY DEF U!Files

\* What a host starts with is a version, or nothing.
LEMMA StartsType ==
    ASSUME Versioned
    PROVE  /\ \A h \in U!Hosts : U!Starts(h) \in Versions \cup {0} /\ exe[h].ver \in Versions
           /\ "master" \in U!Hosts /\ "worker" \in U!Hosts
BY FileTypes DEF Versioned, U!TypeOK, U!Starts, U!Hosts

\* A master that starts again.
LEMMA MasterTypes ==
    ASSUME Versioned, NEW v \in Versions \cup {0}, U!MasterStarts(v)
    PROVE  Versioned'
<1>1. run' \in [U!Hosts -> Versions \cup {0}] /\ moved' \in [U!Hosts -> BOOLEAN]
  BY DEF U!MasterStarts, Versioned, U!TypeOK
<1>2. slot' \in Versions \cup {0} /\ upgrading' \in BOOLEAN /\ due' \in BOOLEAN
  BY DEF U!MasterStarts, Versioned, U!TypeOK
<1>3. /\ upc' \in [U!Writers -> {"idle", "fetch", "copy", "fill", "rename", "done"}]
      /\ \A u \in U!Writers : upc'[u] \in {upc[u], "done"} /\ (u = "cli" => upc'[u] = upc[u])
      /\ "cli" \in U!Writers
  BY DEF U!MasterStarts, Versioned, U!TypeOK, U!Writers
<1> QED
  BY <1>1, <1>2, <1>3 DEF U!MasterStarts, Versioned, U!TypeOK, Busy, U!works

\* The versions and types hold after every step.
LEMMA NextVersioned == Versioned /\ [U!Next]_U!vars => Versioned'
<1> SUFFICES ASSUME Versioned, [U!Next]_U!vars PROVE Versioned'
  OBVIOUS
<1> USE DEF U!files, U!master, U!works, U!spent
<1>1. CASE UNCHANGED U!vars
  BY <1>1 DEF Versioned, U!TypeOK, U!vars, Busy
<1>2. ASSUME NEW w \in U!Writers, U!Copy(w) PROVE Versioned'
  <2>1. draft' \in U!Files
    BY <1>2 DEF U!Copy, U!Files, Versioned, Busy
  <2> QED
    BY <1>2, <2>1 DEF U!Copy, U!TypeOK, Versioned, Busy
<1>3. ASSUME NEW w \in U!Writers, U!Fill(w) PROVE Versioned'
  <2>1. exe["master"] \in U!Files /\ exe["worker"] \in U!Files
    BY DEF U!TypeOK, U!Hosts, Versioned
  <2>2. exe' = [exe EXCEPT !["master"] =
                  [exe["master"] EXCEPT !.whole = exe["master"].whole \/ exe["master"].by = w]]
    BY <1>3 DEF U!Fill
  <2>3. exe' \in [U!Hosts -> U!Files]
    BY <2>1, <2>2, FileTypes DEF U!TypeOK, Versioned
  <2>4. draft' \in U!Files \cup {None}
    BY <1>3, FileTypes DEF U!Fill, U!TypeOK, Versioned
  <2> QED
    BY <1>3, <2>3, <2>4 DEF U!Fill, U!TypeOK, Versioned, Busy, U!Writers
<1>4. ASSUME NEW w \in U!Writers, U!Rename(w) PROVE Versioned'
  <2>1. exe' \in [U!Hosts -> U!Files] /\ draft' \in U!Files \cup {None}
    BY <1>4 DEF U!Rename, U!TypeOK, U!Hosts, Versioned
  <2>2. moved' \in [U!Hosts -> BOOLEAN] /\ due' \in BOOLEAN /\ upgrading' \in BOOLEAN
    BY <1>4 DEF U!Rename, U!TypeOK, Versioned
  <2> QED
    BY <1>4, <2>1, <2>2 DEF U!Rename, U!TypeOK, Versioned, Busy, U!Writers
<1>5. ASSUME NEW u \in Updates, U!Request(u) PROVE Versioned'
  BY <1>5, UpdateAssumption DEF U!Request, U!Acquire, Versioned, U!TypeOK, U!Writers, U!Hosts, Busy
<1>6. ASSUME NEW u \in Updates, U!Inspect(u) PROVE Versioned'
  <2>1. slot' \in Versions \cup {0} /\ upgrading' \in BOOLEAN /\ due' \in BOOLEAN
    BY <1>6 DEF U!Inspect, U!TypeOK, Versioned, U!Writers, U!Hosts
  <2> QED
    BY <1>6, <2>1 DEF U!Inspect, U!TypeOK, Versioned, Busy, U!Writers
<1>7. ASSUME NEW u \in Updates, U!Drop(u) PROVE Versioned'
  BY <1>7, UpdateAssumption DEF U!Drop, Versioned, U!TypeOK, U!Writers, U!Hosts, Busy
<1>8. CASE U!KeeperSync
  BY <1>8, UpdateAssumption DEF U!KeeperSync, Versioned, U!TypeOK, U!Writers, U!Hosts, Busy
<1>9. CASE U!CliUpdate
  BY <1>9, UpdateAssumption DEF U!CliUpdate, Versioned, U!TypeOK, U!Writers, U!Hosts, Busy
<1>10. CASE U!CliImport
  BY <1>10, UpdateAssumption DEF U!CliImport, Versioned, U!TypeOK, U!Writers, U!Hosts, Busy
<1>11. CASE U!RestartMaster
  <2>1. U!Starts("master") \in Versions \cup {0}
    BY StartsType
  <2>2. CASE U!MasterStarts(U!Starts("master"))
    BY <2>1, <2>2, MasterTypes
  <2>3. CASE UNCHANGED <<exe, draft, run, moved, keeper, slot, upgrading, upc, ver, gone, offer, wpc, applying,
                           cooling>>
    <3>1. due' \in BOOLEAN
      BY <1>11, <2>3 DEF U!RestartMaster, U!MasterStarts
    <3> QED
      BY <2>3, <3>1 DEF U!TypeOK, Versioned, Busy
  <2> QED
    BY <1>11, <2>2, <2>3 DEF U!RestartMaster, U!files, U!master, U!works
<1>12. CASE U!Operator
  <2>1. (IF exe["master"].whole THEN exe["master"].ver ELSE 0) \in Versions \cup {0}
    BY StartsType
  <2> QED
    BY <1>12, <2>1, MasterTypes DEF U!Operator
<1>13. CASE U!Offer
  <2>1. run["master"] \in Versions
    <3>1. run["master"] \in Versions \cup {0} /\ run["worker"] \in Versions \cup {0}
      BY DEF U!TypeOK, Versioned, U!Hosts
    <3>2. run["master"] \in Nat /\ run["worker"] \in Nat
      BY <3>1, Numbers
    <3>4. run["master"] > run["worker"]
      BY <1>13 DEF U!Offer
    <3>3. run["master"] # 0
      BY <3>2, <3>4
    <3> QED
      BY <3>1, <3>3
  <2> QED
    BY <1>13, <2>1 DEF U!Offer, U!TypeOK, Versioned, U!files, U!master, U!Writers
<1>14. CASE U!Download
  <2>1. CASE U!GiveUp /\ UNCHANGED <<exe, moved, draft, run, keeper, slot, upgrading, upc, ver, gone, due>>
    BY <2>1 DEF U!GiveUp, U!TypeOK, Versioned, U!Writers, Busy
  <2>2. CASE /\ wpc' = "restart" /\ moved' = [moved EXCEPT !["worker"] = TRUE] /\ U!AsOffered /\ wpc = "download"
             /\ exe' = [exe EXCEPT !["worker"].ver = IF moved["worker"] THEN exe["worker"].ver ELSE U!Stored]
             /\ UNCHANGED <<offer, applying, cooling, draft, run, keeper, slot, upgrading, upc, ver, gone, due>>
    <3>1. U!Stored \in Versions
      BY <2>2 DEF U!AsOffered, Versioned
    <3>2. exe["worker"] \in U!Files
      BY DEF U!TypeOK, U!Hosts, Versioned
    <3>3. (IF moved["worker"] THEN exe["worker"].ver ELSE U!Stored) \in Versions
      BY <3>1, <3>2, FileTypes
    <3>4. exe' \in [U!Hosts -> U!Files]
      <4> DEFINE v == IF moved["worker"] THEN exe["worker"].ver ELSE U!Stored
      <4>1. exe' = [exe EXCEPT !["worker"] = [exe["worker"] EXCEPT !.ver = v]]
        BY <2>2
      <4>2. [exe["worker"] EXCEPT !.ver = v] \in U!Files
        BY <3>2, <3>3, FileTypes
      <4> HIDE DEF v
      <4> QED
        BY <4>1, <4>2 DEF U!TypeOK, Versioned
    <3> QED
      BY <2>2, <3>4 DEF U!TypeOK, Versioned, U!Writers, Busy
  <2> QED
    BY <1>14, <2>1, <2>2 DEF U!Download, U!master
<1>15. CASE U!RestartWorker
  <2>1. U!Starts("worker") \in Versions \cup {0}
    BY StartsType
  <2>2. run' \in [U!Hosts -> Versions \cup {0}] /\ moved' \in [U!Hosts -> BOOLEAN]
    BY <1>15, <2>1 DEF U!RestartWorker, U!TypeOK, Versioned
  <2>3. offer' = None /\ wpc' = "idle" /\ applying' = FALSE /\ cooling' \in BOOLEAN
    BY <1>15 DEF U!RestartWorker, U!GiveUp
  <2> QED
    BY <1>15, <2>2, <2>3 DEF U!RestartWorker, U!TypeOK, Versioned, Busy, U!Writers, U!master
<1>16. CASE U!CoolDown
  BY <1>16, UpdateAssumption DEF U!CoolDown, Versioned, U!TypeOK, U!Writers, U!Hosts, Busy
<1> QED
  BY <1>1, <1>2, <1>3, <1>4, <1>5, <1>6, <1>7, <1>8, <1>9, <1>10, <1>11, <1>12, <1>13, <1>14, <1>15, <1>16
     DEF U!Next, U!Stay
-----------------------------------------------------------------------------
\* `update` is not run while an upload installs, clients disconnect only while
\* they upload, and both hosts have the unit.
InstallSetting ==
    ~CliBeside /\ LeaveAt \subseteq {"fetch"} /\ U!Hosts \subseteq Installed

Active == {"fetch"} \cup Busy

\* One writer at a time: the flag keeps the uploads apart.
OneWriter ==
    \A u \in Updates : upc[u] \in Active =>
        upgrading /\ upc["cli"] \notin Busy /\ \A x \in Updates \ {u} : upc[x] \notin Active

\* The draft that is about to take the program's place is its writer's, whole.
DraftHolds ==
    \A w \in U!Writers : upc[w] \in {"fill", "rename"} =>
        draft # None /\ draft.ver = ver[w] /\ draft.by = w /\ (upc[w] = "rename" => draft.whole)

\* What is on disk is at least what runs, what is being installed is above it,
\* and the worker has nothing its master did not run.
Rising ==
    /\ \A h \in U!Hosts : run[h] # 0 /\ exe[h].whole /\ run[h] <= exe[h].ver
    /\ exe["worker"].ver <= run["master"]
    /\ \A u \in Updates : upc[u] \in Busy => ver[u] > run["master"]
    /\ upc["cli"] \in Busy => ver["cli"] > exe["master"].ver
    /\ wpc = "download" => offer > run["worker"] /\ offer <= run["master"]

\* A request takes the flag, and only the one that holds it goes on.
LEMMA NextOneWriter == InstallSetting /\ Versioned /\ OneWriter /\ [U!Next]_U!vars => OneWriter'
<1> SUFFICES ASSUME InstallSetting, Versioned, OneWriter, [U!Next]_U!vars PROVE OneWriter'
  OBVIOUS
<1> USE UpdateAssumption DEF InstallSetting, OneWriter, Active, Busy, Versioned, U!TypeOK,
        U!Writers, U!files, U!master, U!works, U!spent
<1>1. CASE UNCHANGED U!vars
  BY <1>1 DEF U!vars
<1>2. ASSUME NEW w \in U!Writers, U!Copy(w) PROVE OneWriter'
  BY <1>2 DEF U!Copy
<1>3. ASSUME NEW w \in U!Writers, U!Fill(w) PROVE OneWriter'
  BY <1>3 DEF U!Fill
<1>4. ASSUME NEW w \in U!Writers, U!Rename(w) PROVE OneWriter'
  BY <1>4 DEF U!Rename
<1>5. ASSUME NEW u \in Updates, U!Request(u) PROVE OneWriter'
  BY <1>5 DEF U!Request, U!Acquire
<1>6. ASSUME NEW u \in Updates, U!Inspect(u) PROVE OneWriter'
  BY <1>6 DEF U!Inspect, U!Newer
<1>7. ASSUME NEW u \in Updates, U!Drop(u) PROVE OneWriter'
  BY <1>7 DEF U!Drop
<1>8. CASE U!KeeperSync
  BY <1>8 DEF U!KeeperSync
<1>9. CASE U!CliUpdate
  BY <1>9 DEF U!CliUpdate
<1>10. CASE U!CliImport
  BY <1>10 DEF U!CliImport
<1>11. CASE U!RestartMaster
  BY <1>11 DEF U!RestartMaster, U!MasterStarts
<1>12. CASE U!Operator
  BY <1>12 DEF U!Operator, U!MasterStarts
<1>13. CASE U!Offer
  BY <1>13 DEF U!Offer
<1>14. CASE U!Download
  BY <1>14 DEF U!Download, U!GiveUp
<1>15. CASE U!RestartWorker
  BY <1>15 DEF U!RestartWorker, U!GiveUp
<1>16. CASE U!CoolDown
  BY <1>16 DEF U!CoolDown
<1> QED
  BY <1>1, <1>2, <1>3, <1>4, <1>5, <1>6, <1>7, <1>8, <1>9, <1>10, <1>11, <1>12, <1>13, <1>14, <1>15, <1>16
     DEF U!Next, U!Stay

\* No writer removes a draft that another is filling.
LEMMA NextDraftHolds == InstallSetting /\ Versioned /\ OneWriter /\ DraftHolds /\ [U!Next]_U!vars => DraftHolds'
<1> SUFFICES ASSUME InstallSetting, Versioned, OneWriter, DraftHolds, [U!Next]_U!vars PROVE DraftHolds'
  OBVIOUS
<1> USE UpdateAssumption DEF InstallSetting, OneWriter, DraftHolds, Active, Busy, Versioned, U!TypeOK,
        U!Writers, U!files, U!master, U!works, U!spent
<1>1. CASE UNCHANGED U!vars
  BY <1>1 DEF U!vars
<1>2. ASSUME NEW w \in U!Writers, U!Copy(w) PROVE DraftHolds'
  <2>1. \A x \in U!Writers \ {w} : upc[x] \notin {"fill", "rename"}
    BY <1>2 DEF U!Copy
  <2>2. draft' # None /\ draft'.ver = ver[w] /\ draft'.by = w
    <3>1. draft' \in U!Files
      BY <1>2 DEF U!Copy, U!Files
    <3> QED
      BY <1>2, <3>1 DEF U!Copy
  <2> QED
    BY <1>2, <2>1, <2>2 DEF U!Copy
<1>3. ASSUME NEW w \in U!Writers, U!Fill(w) PROVE DraftHolds'
  <2>1. \A x \in U!Writers \ {w} : upc[x] \notin {"fill", "rename"}
    BY <1>3 DEF U!Fill
  <2>2. draft \in U!Files /\ draft.ver = ver[w] /\ draft.by = w
    BY <1>3 DEF U!Fill
  <2>3. draft' = [draft EXCEPT !.whole = TRUE] /\ draft' \in U!Files
    BY <1>3, <2>2, FileTypes DEF U!Fill
  <2>4. draft' # None /\ draft'.ver = ver[w] /\ draft'.by = w /\ draft'.whole
    <3>1. draft' # None
      BY <2>3
    <3>2. draft' = [ver |-> draft.ver, whole |-> TRUE, by |-> draft.by]
      BY <2>2, <2>3, FileTypes
    <3> QED
      BY <2>2, <3>1, <3>2
  <2> QED
    BY <1>3, <2>1, <2>4 DEF U!Fill
<1>4. ASSUME NEW w \in U!Writers, U!Rename(w) PROVE DraftHolds'
  BY <1>4 DEF U!Rename
<1>5. ASSUME NEW u \in Updates, U!Request(u) PROVE DraftHolds'
  BY <1>5 DEF U!Request, U!Acquire
<1>6. ASSUME NEW u \in Updates, U!Inspect(u) PROVE DraftHolds'
  BY <1>6 DEF U!Inspect, U!Newer
<1>7. ASSUME NEW u \in Updates, U!Drop(u) PROVE DraftHolds'
  BY <1>7 DEF U!Drop
<1>8. CASE U!KeeperSync
  BY <1>8 DEF U!KeeperSync
<1>9. CASE U!CliUpdate
  BY <1>9 DEF U!CliUpdate
<1>10. CASE U!CliImport
  BY <1>10 DEF U!CliImport
<1>11. CASE U!RestartMaster
  BY <1>11 DEF U!RestartMaster, U!MasterStarts
<1>12. CASE U!Operator
  BY <1>12 DEF U!Operator, U!MasterStarts
<1>13. CASE U!Offer
  BY <1>13 DEF U!Offer
<1>14. CASE U!Download
  BY <1>14 DEF U!Download, U!GiveUp
<1>15. CASE U!RestartWorker
  BY <1>15 DEF U!RestartWorker, U!GiveUp
<1>16. CASE U!CoolDown
  BY <1>16 DEF U!CoolDown
<1> QED
  BY <1>1, <1>2, <1>3, <1>4, <1>5, <1>6, <1>7, <1>8, <1>9, <1>10, <1>11, <1>12, <1>13, <1>14, <1>15, <1>16
     DEF U!Next, U!Stay

\* The numbers that are compared.
LEMMA Compared ==
    ASSUME Versioned
    PROVE  /\ \A h \in U!Hosts : run[h] \in Nat /\ exe[h] \in U!Files /\ exe[h].ver \in Nat /\ exe[h].ver # 0
           /\ \A w \in U!Writers : upc[w] \in Active => ver[w] \in Nat /\ ver[w] # 0
           /\ wpc = "download" => offer \in Nat /\ offer # 0
           /\ "master" \in U!Hosts /\ "worker" \in U!Hosts /\ "cli" \in U!Writers /\ Updates \subseteq U!Writers
<1>1. \A h \in U!Hosts : run[h] \in Versions \cup {0} /\ exe[h] \in U!Files
  BY DEF Versioned, U!TypeOK
<1>2. \A h \in U!Hosts : exe[h].ver \in Versions
  BY <1>1, FileTypes
<1>3. \A w \in U!Writers : upc[w] \in Active => ver[w] \in Versions
  BY DEF Versioned, Active
<1>4. wpc = "download" => offer \in Versions
  BY DEF Versioned
<1>5. 0 \notin Versions
  BY UpdateAssumption
<1>6. "master" \in U!Hosts /\ "worker" \in U!Hosts /\ "cli" \in U!Writers /\ Updates \subseteq U!Writers
  BY DEF U!Hosts, U!Writers
<1> QED
  BY <1>1, <1>2, <1>3, <1>4, <1>5, <1>6, Numbers

\* A step that starts and replaces nothing.
LEMMA QuietRising ==
    ASSUME Rising, UNCHANGED <<exe, run>>,
           \A w \in U!Writers : upc'[w] \in Busy => upc[w] \in Busy /\ ver'[w] = ver[w],
           wpc' = "download" => wpc = "download" /\ offer' = offer
    PROVE  Rising'
<1>1. "cli" \in U!Writers /\ Updates \subseteq U!Writers
  BY DEF U!Writers
<1> QED
  BY <1>1 DEF Rising

\* A master that starts again runs what is on disk.
LEMMA StartedRising ==
    ASSUME InstallSetting, Versioned, Rising, U!MasterStarts(exe["master"].ver)
    PROVE  Rising'
<1> USE DEF InstallSetting
<1>1. /\ run'["master"] = exe["master"].ver /\ run'["worker"] = run["worker"] /\ run["master"] <= run'["master"]
      /\ run' = [run EXCEPT !["master"] = exe["master"].ver]
  BY DEF U!MasterStarts, Versioned, U!TypeOK, U!Hosts, Rising
<1>2. \A u \in Updates : upc'[u] \notin Busy
  BY UpdateAssumption DEF U!MasterStarts, U!Writers, Busy
<1>3. upc'["cli"] = upc["cli"]
  BY DEF U!MasterStarts, U!Writers
<1>4. \A h \in U!Hosts : run'[h] # 0 /\ run'[h] <= exe[h].ver
  BY <1>1, Compared DEF Rising, U!Hosts
<1>5. exe["worker"].ver <= run'["master"]
  BY <1>1, Compared DEF Rising
<1>6. wpc = "download" => offer > run'["worker"] /\ offer <= run'["master"]
  BY <1>1, Compared DEF Rising
<1> QED
  BY <1>2, <1>3, <1>4, <1>5, <1>6 DEF Rising, U!MasterStarts, U!works

\* Both hosts can start.
LEMMA BothStart ==
    ASSUME InstallSetting, Rising
    PROVE  /\ U!Starts("master") = exe["master"].ver /\ U!Starts("worker") = exe["worker"].ver
           /\ exe["master"].whole
BY DEF InstallSetting, Rising, U!Starts, U!Hosts

\* What is installed is above what runs, and whole.
LEMMA NextRising == InstallSetting /\ Versioned /\ OneWriter /\ DraftHolds /\ Rising /\ [U!Next]_U!vars => Rising'
<1> SUFFICES ASSUME InstallSetting, Versioned, OneWriter, DraftHolds, Rising, [U!Next]_U!vars PROVE Rising'
  OBVIOUS
<1> USE DEF U!files, U!master, U!works, U!spent
<1>1. CASE UNCHANGED U!vars
  BY <1>1, QuietRising DEF U!vars, Busy, Versioned, U!TypeOK, U!Writers
<1>2. ASSUME NEW w \in U!Writers, U!Copy(w) PROVE Rising'
  BY <1>2, QuietRising DEF U!Copy, Busy, Versioned, U!TypeOK, U!Writers
<1>3. ASSUME NEW w \in U!Writers, U!Fill(w) PROVE Rising'
  <2>1. exe["master"] \in U!Files /\ exe["master"].whole
    BY Compared DEF Rising, InstallSetting
  <2>2. exe' = [exe EXCEPT !["master"] = [exe["master"] EXCEPT !.whole = TRUE]]
    BY <1>3, <2>1 DEF U!Fill
  <2>3. exe'["master"].ver = exe["master"].ver /\ exe'["master"].whole /\ exe'["worker"] = exe["worker"]
    BY <2>1, <2>2, FileTypes DEF Versioned, U!TypeOK, U!Hosts
  <2> QED
    BY <1>3, <2>3 DEF U!Fill, Rising, U!Hosts, U!Writers, Busy, Versioned, U!TypeOK
<1>4. ASSUME NEW w \in U!Writers, U!Rename(w) PROVE Rising'
  <2>1. draft # None /\ draft.ver = ver[w] /\ draft.whole /\ upc[w] = "rename"
    BY <1>4 DEF U!Rename, DraftHolds
  <2>2. exe' = [exe EXCEPT !["master"] = draft] /\ UNCHANGED <<run, ver, wpc, offer>>
    BY <1>4, <2>1 DEF U!Rename
  <2>3. exe'["master"].ver = ver[w] /\ exe'["master"].whole /\ exe'["worker"] = exe["worker"]
    BY <2>1, <2>2 DEF Versioned, U!TypeOK, U!Hosts
  <2>4. run["master"] <= ver[w]
    <3>1. CASE w = "cli"
      <4>1. ver[w] > exe["master"].ver /\ exe["master"].ver >= run["master"]
        BY <2>1, <3>1, Compared DEF Rising, Busy, InstallSetting
      <4> QED
        BY <2>1, <4>1, Compared DEF Active, Busy, InstallSetting
    <3>2. CASE w \in Updates
      <4>1. ver[w] > run["master"]
        BY <2>1, <3>2 DEF Rising, Busy
      <4> QED
        BY <2>1, <4>1, Compared DEF Active, Busy, InstallSetting
    <3> QED
      BY <3>1, <3>2 DEF U!Writers
  <2>5. \A x \in U!Writers : upc'[x] \in Busy => x # w /\ upc[x] \in Busy
    BY <1>4 DEF U!Rename, Versioned, U!TypeOK, Busy
  <2>6. upc'["cli"] \notin Busy
    BY <2>1, <2>5 DEF OneWriter, Active, Busy, U!Writers, U!Hosts
  <2> QED
    BY <2>2, <2>3, <2>4, <2>5, <2>6 DEF Rising, U!Hosts, U!Writers
<1>5. ASSUME NEW u \in Updates, U!Request(u) PROVE Rising'
  BY <1>5, QuietRising DEF U!Request, U!Acquire, Busy, Versioned, U!TypeOK, U!Writers
<1>6. ASSUME NEW u \in Updates, U!Inspect(u) PROVE Rising'
  <2>1. UNCHANGED <<exe, run, ver, wpc, offer>> /\ \A x \in U!Writers \ {u} : upc'[x] = upc[x]
    BY <1>6 DEF U!Inspect, Versioned, U!TypeOK, U!Writers
  <2>2. upc'[u] \in Busy => ver[u] > run["master"]
    BY <1>6 DEF U!Inspect, U!Newer, Versioned, U!TypeOK, U!Writers, Busy
  <2>3. upc'["cli"] = upc["cli"]
    BY <2>1, UpdateAssumption DEF InstallSetting, U!Writers
  <2> QED
    BY <2>1, <2>2, <2>3 DEF Rising, U!Writers
<1>7. ASSUME NEW u \in Updates, U!Drop(u) PROVE Rising'
  BY <1>7, QuietRising DEF U!Drop, Busy, Versioned, U!TypeOK, U!Writers
<1>8. CASE U!KeeperSync
  BY <1>8, QuietRising DEF U!KeeperSync, Busy, Versioned, U!TypeOK, U!Writers
<1>9. CASE U!CliUpdate
  <2>1. PICK v \in Versions : /\ v > exe["master"].ver /\ ver' = [ver EXCEPT !["cli"] = v]
                             /\ upc' = [upc EXCEPT !["cli"] = "copy"] /\ UNCHANGED <<exe, run, wpc, offer>>
    BY <1>9 DEF U!CliUpdate
  <2>2. ver'["cli"] = v /\ \A u \in Updates : upc'[u] = upc[u] /\ ver'[u] = ver[u]
    BY <2>1, UpdateAssumption DEF Versioned, U!TypeOK, U!Writers, InstallSetting
  <2> QED
    BY <2>1, <2>2 DEF Rising
<1>10. CASE U!CliImport
  BY <1>10, QuietRising DEF U!CliImport, Busy, Versioned, U!TypeOK, U!Writers
<1>11. CASE U!RestartMaster
  <2>1. CASE U!MasterStarts(U!Starts("master"))
    BY <2>1, BothStart, StartedRising
  <2>2. CASE UNCHANGED <<exe, run, upc, ver, wpc, offer>>
    BY <2>2, QuietRising
  <2> QED
    BY <1>11, <2>1, <2>2 DEF U!RestartMaster
<1>12. CASE U!Operator
  BY <1>12, BothStart, StartedRising DEF U!Operator
<1>13. CASE U!Offer
  <2>1. offer' = run["master"] /\ run["master"] > run["worker"] /\ UNCHANGED <<exe, run, upc, ver>>
    BY <1>13 DEF U!Offer
  <2>2. offer' > run["worker"] /\ offer' <= run["master"]
    BY <2>1, Compared DEF InstallSetting
  <2> QED
    BY <2>1, <2>2 DEF Rising
<1>14. CASE U!Download
  <2>1. CASE U!GiveUp /\ UNCHANGED <<exe, run, upc, ver>>
    BY <2>1, QuietRising DEF U!GiveUp
  <2>2. CASE /\ wpc' = "restart" /\ U!AsOffered /\ wpc = "download" /\ UNCHANGED <<run, upc, ver, offer>>
             /\ exe' = [exe EXCEPT !["worker"].ver = IF moved["worker"] THEN exe["worker"].ver ELSE U!Stored]
    <3> DEFINE v == IF moved["worker"] THEN exe["worker"].ver ELSE U!Stored
    <3>1. v \in {exe["worker"].ver, offer} /\ v \in Versions
      <4>1. U!Stored = offer /\ offer \in Versions
        BY <2>2 DEF U!AsOffered, Versioned
      <4>2. exe["worker"].ver \in Versions
        BY StartsType DEF InstallSetting
      <4> QED
        BY <4>1, <4>2
    <3>2. exe' = [exe EXCEPT !["worker"] = [exe["worker"] EXCEPT !.ver = v]]
      BY <2>2
    <3>3. [exe["worker"] EXCEPT !.ver = v] = [ver |-> v, whole |-> exe["worker"].whole, by |-> exe["worker"].by]
      <4> HIDE DEF v
      <4> QED
        BY <3>1, FileTypes, Compared DEF InstallSetting
    <3> HIDE DEF v
    <3>4. exe'["worker"].ver = v /\ exe'["worker"].whole = exe["worker"].whole /\ exe'["master"] = exe["master"]
      BY <3>2, <3>3 DEF Versioned, U!TypeOK, U!Hosts
    <3>5. run["worker"] <= v /\ v <= run["master"]
      BY <2>2, <3>1, Compared DEF Rising, InstallSetting
    <3> QED
      BY <2>2, <3>4, <3>5 DEF Rising, U!Hosts
  <2> QED
    BY <1>14, <2>1, <2>2 DEF U!Download
<1>15. CASE U!RestartWorker
  <2>1. CASE U!GiveUp /\ UNCHANGED <<exe, run, upc, ver>>
    BY <2>1, QuietRising DEF U!GiveUp
  <2>2. CASE run' = [run EXCEPT !["worker"] = U!Starts("worker")] /\ wpc' = "idle" /\ UNCHANGED <<exe, upc, ver>>
    <3>1. run'["worker"] = exe["worker"].ver /\ run'["master"] = run["master"]
      BY <2>2, BothStart DEF Versioned, U!TypeOK, U!Hosts
    <3>2. exe["worker"].ver # 0 /\ exe["worker"].ver <= exe["worker"].ver
      BY Compared DEF InstallSetting
    <3> QED
      BY <2>2, <3>1, <3>2 DEF Rising, U!Hosts
  <2> QED
    BY <1>15, <2>1, <2>2 DEF U!RestartWorker
<1>16. CASE U!CoolDown
  BY <1>16, QuietRising DEF U!CoolDown, Busy, Versioned, U!TypeOK, U!Writers
<1> QED
  BY <1>1, <1>2, <1>3, <1>4, <1>5, <1>6, <1>7, <1>8, <1>9, <1>10, <1>11, <1>12, <1>13, <1>14, <1>15, <1>16
     DEF U!Next, U!Stay

\* Nothing is being installed when the program starts.
LEMMA InitInstall == InstallSetting /\ U!Init => OneWriter /\ DraftHolds /\ Rising
<1> SUFFICES ASSUME InstallSetting, U!Init PROVE OneWriter /\ DraftHolds /\ Rising
  OBVIOUS
<1>1. \A w \in U!Writers : upc[w] = "idle"
  BY DEF U!Init
<1>2. \A h \in U!Hosts : run[h] = 1 /\ exe[h].ver = 1 /\ exe[h].whole
  BY DEF U!Init
<1>3. "master" \in U!Hosts /\ "worker" \in U!Hosts /\ "cli" \in U!Writers /\ Updates \subseteq U!Writers
  BY DEF U!Hosts, U!Writers
<1> QED
  BY <1>1, <1>2, <1>3 DEF OneWriter, DraftHolds, Rising, Active, Busy, U!Init

\* The inductive invariant of the updates.
InstallInv == Versioned /\ OneWriter /\ DraftHolds /\ Rising

\* The upgrades keep theirs,
LEMMA InstallInvHolds == InstallSetting => (Spec => []InstallInv)
<1> SUFFICES ASSUME InstallSetting PROVE Spec => []InstallInv
  OBVIOUS
<1>1. Init => InstallInv
  BY UpdateSteps, InitVersioned, InitInstall DEF InstallInv, InstallSetting
<1>2. InstallInv /\ [Next]_vars => InstallInv'
  BY UpdateSteps, NextVersioned, NextOneWriter, NextDraftHolds, NextRising DEF InstallInv, InstallSetting
<1> QED
  BY <1>1, <1>2, PTL DEF Spec

\* self_upgrade.rs, update.rs: a host that restarts always finds a whole
\* program, whatever updates, imports and restarts came before.
THEOREM UpkeepAlwaysStarts == InstallSetting => (Spec => []AlwaysStarts)
<1> SUFFICES ASSUME InstallSetting PROVE Spec => []AlwaysStarts
  OBVIOUS
<1>1. InstallInv => AlwaysStarts
  BY DEF InstallInv, Rising, AlwaysStarts, U!AlwaysStarts
<1> QED
  BY <1>1, InstallInvHolds, PTL

\* A step of the updates downgrades nothing, and what the worker starts its
\* master runs.
LEMMA OrderedStep ==
    ASSUME InstallSetting, InstallInv, [U!Next]_U!vars
    PROVE  /\ \A h \in U!Hosts : run'[h] >= run[h] \/ run'[h] = 0
           /\ run'["worker"] # run["worker"] /\ run'["worker"] # 0 => run'["worker"] <= run["master"]
<1> USE DEF InstallInv, InstallSetting
<1>1. run["master"] \in Nat /\ run["worker"] \in Nat
  BY Compared
<1>2. CASE UNCHANGED run
  BY <1>1, <1>2 DEF U!Hosts
<1>3. CASE U!MasterStarts(exe["master"].ver)
  <2>1. run'["master"] = exe["master"].ver /\ run'["worker"] = run["worker"]
    BY <1>3 DEF U!MasterStarts, Versioned, U!TypeOK, U!Hosts
  <2> QED
    BY <1>1, <2>1, Compared DEF Rising, U!Hosts
<1>4. CASE run' = [run EXCEPT !["worker"] = U!Starts("worker")]
  <2>1. run'["worker"] = exe["worker"].ver /\ run'["master"] = run["master"]
    BY <1>4, BothStart DEF Versioned, U!TypeOK, U!Hosts
  <2> QED
    BY <1>1, <2>1, Compared DEF Rising, U!Hosts
<1>5. UNCHANGED run \/ U!MasterStarts(exe["master"].ver) \/ run' = [run EXCEPT !["worker"] = U!Starts("worker")]
  <2>1. CASE UNCHANGED U!vars
    BY <2>1 DEF U!vars
  <2>2. CASE U!RestartMaster
    BY <2>2, BothStart DEF U!RestartMaster, U!files
  <2>3. CASE U!Operator
    BY <2>3, BothStart DEF U!Operator
  <2>4. CASE U!RestartWorker
    BY <2>4 DEF U!RestartWorker
  <2>5. CASE \E w \in U!Writers : U!Copy(w) \/ U!Fill(w) \/ U!Rename(w)
    BY <2>5 DEF U!Copy, U!Fill, U!Rename
  <2>6. CASE \E u \in Updates : U!Request(u) \/ U!Inspect(u) \/ U!Drop(u)
    BY <2>6 DEF U!Request, U!Inspect, U!Drop
  <2>7. CASE U!KeeperSync \/ U!CliUpdate \/ U!CliImport
    BY <2>7 DEF U!KeeperSync, U!CliUpdate, U!CliImport
  <2>8. CASE U!Offer \/ U!Download \/ U!CoolDown
    BY <2>8 DEF U!Offer, U!Download, U!CoolDown
  <2> QED
    BY <2>1, <2>2, <2>3, <2>4, <2>5, <2>6, <2>7, <2>8 DEF U!Next, U!Stay
<1> QED
  BY <1>2, <1>3, <1>4, <1>5

\* self_upgrade.rs apply_file, update.rs, self_update.rs verify_version: no host
\* is downgraded, though each compares with another version, and a worker
\* starts no version that its master has not run.
THEOREM UpkeepInOrder == InstallSetting => (Spec => UpdatesInOrder)
<1> SUFFICES ASSUME InstallSetting PROVE Spec => UpdatesInOrder
  OBVIOUS
<1>1. InstallInv /\ [Next]_vars => [\A h \in U!Hosts : run'[h] >= run[h] \/ run'[h] = 0]_U!vars
  BY OrderedStep, UpdateSteps
<1>2. InstallInv /\ [Next]_vars =>
          [run'["worker"] # run["worker"] /\ run'["worker"] # 0 => run'["worker"] <= run["master"]]_U!vars
  BY OrderedStep, UpdateSteps
<1> QED
  BY <1>1, <1>2, InstallInvHolds, PTL DEF Spec, UpdatesInOrder, U!NoDowngrade, U!FollowsMaster

-----------------------------------------------------------------------------
(***************************************************************************)
(* The imports of images.                                                  *)
(***************************************************************************)

\* A type invariant that induction can use.
ImageTypes == I!TypeOK /\ changes \in 0..MaxChanges

\* The least of some numbers.
LEMMA Least ==
    ASSUME NEW S, S \subseteq Nat, S # {}
    PROVE  \E x \in S : \A y \in S : x <= y
<1> DEFINE Less == {ss \in Nat \X Nat : ss[1] < ss[2]}
<1>1. IsWellFoundedOn(Less, Nat)
  BY NatLessThanWellFounded DEF OpToRel
<1>2. \A x, y \in Nat : y < x => <<y, x>> \in Less
  OBVIOUS
<1>3. PICK x \in S : \A y \in S : <<y, x>> \notin Less
  <2> HIDE DEF Less
  <2> QED
    BY <1>1, WFMin
<1>4. \A y \in S : y \in Nat /\ x \in Nat /\ ~(y < x)
  BY <1>2, <1>3
<1> QED
  BY <1>4

\* It is the turn of a node that is still to do.
LEMMA TurnIsToDo ==
    ASSUME NEW j \in JobIds, itodo[j] \subseteq I!Nodes, itodo[j] # {}
    PROVE  I!Turn(j) \in itodo[j]
<1> DEFINE S == {i \in DOMAIN Order : Order[i] \in itodo[j]}
<1>1. DOMAIN Order = 1..Len(Order) /\ Len(Order) \in Nat
  BY ImageAssumption
<1>2. S # {} /\ S \subseteq Nat
  BY <1>1 DEF I!Nodes
<1>3. PICK i \in S : \A k \in S : i <= k
  BY <1>2, Least
<1>4. \A k \in 1..(i - 1) : Order[k] \notin itodo[j]
  <2> SUFFICES ASSUME NEW k \in 1..(i - 1), Order[k] \in itodo[j] PROVE FALSE
    OBVIOUS
  <2>1. i \in Nat /\ k \in Nat /\ k < i /\ k \in DOMAIN Order
    BY <1>1
  <2>2. i <= k
    BY <1>3, <2>1
  <2> QED
    BY <2>1, <2>2
<1>5. \E k \in DOMAIN Order : I!First(k, j)
  BY <1>4 DEF I!First
<1> QED
  BY <1>5 DEF I!Turn, I!First

\* A job that is at work has its entry in the map.
AtWork == \A j \in JobIds : ipc[j] \in {"wait", "next", "poll"} => jobs[j] = "open"

\* What a job is for is done or still to do, and what a worker calls done is.
Accounted ==
    /\ \A j \in JobIds : ipc[j] \in {"next", "poll"} =>
           itodo[j] # {} /\ sel[j] # {} /\ sel[j] \subseteq did[j] \cup itodo[j]
    /\ \A j \in JobIds : jobs[j] = "ok" => sel[j] # {} /\ sel[j] \subseteq did[j]
    /\ \A w \in I!Workers, j \in JobIds : wjobs[w][j] = "ok" => w \in did[j]

-----------------------------------------------------------------------------
\* The types of a job's task, of a worker's tasks and of what k3s has.
JobTypes ==
    /\ jobs \in [JobIds -> {"none", "open", "ok", "failed"}] /\ itodo \in [JobIds -> SUBSET I!Nodes]
    /\ ipc \in [JobIds -> {"none", "wait", "next", "poll", "end"}] /\ iholder \in JobIds \cup {None}

WorkerTypes ==
    /\ wjobs \in [I!Workers -> [JobIds -> {"none", "open", "ok", "failed"}]]
    /\ iwpc \in [I!Workers -> [JobIds -> {"none", "get", "place", "import"}]]

HeldTypes == did \in [JobIds -> SUBSET I!Nodes] /\ images \in [I!Nodes -> I!Archive \cup {None}]

\* The end of a task.
LEMMA FinishTypes ==
    ASSUME ImageTypes, NEW j \in JobIds, NEW outcome \in {"ok", "failed"}, I!Finish(j, outcome)
    PROVE  JobTypes'
BY DEF ImageTypes, I!TypeOK, JobTypes, I!Finish

\* The end of a node.
LEMMA AdvanceTypes ==
    ASSUME ImageTypes, NEW j \in JobIds, I!Advance(j)
    PROVE  JobTypes'
<1>1. CASE itodo[j] = {I!Turn(j)}
  BY <1>1, FinishTypes DEF I!Advance
<1>2. CASE itodo[j] # {I!Turn(j)}
  <2>1. itodo[j] \ {I!Turn(j)} \in SUBSET I!Nodes
    BY DEF ImageTypes, I!TypeOK
  <2>2. itodo' = [itodo EXCEPT ![j] = itodo[j] \ {I!Turn(j)}] /\ ipc' = [ipc EXCEPT ![j] = "next"]
    BY <1>2 DEF I!Advance
  <2> QED
    BY <1>2, <2>1, <2>2 DEF ImageTypes, I!TypeOK, JobTypes, I!Advance
<1> QED
  BY <1>1, <1>2

\* What k3s does.
LEMMA DoneTypes ==
    ASSUME ImageTypes, NEW j \in JobIds, NEW n \in I!Nodes, NEW held \in I!Archive \cup {None}, I!Done(j, n, held)
    PROVE  HeldTypes'
BY DEF ImageTypes, I!TypeOK, HeldTypes, I!Done

\* The end of a worker's task.
LEMMA FinishWorkerTypes ==
    ASSUME ImageTypes, NEW w \in I!Workers, NEW j \in JobIds, NEW outcome \in {"ok", "failed"},
           I!FinishWorker(w, j, outcome)
    PROVE  WorkerTypes'
<1> USE DEF ImageTypes, I!TypeOK, I!FinishWorker
<1>1. wjobs' \in [I!Workers -> [JobIds -> {"none", "open", "ok", "failed"}]]
  <2>1. [wjobs[w] EXCEPT ![j] = outcome] \in [JobIds -> {"none", "open", "ok", "failed"}]
    OBVIOUS
  <2>2. wjobs' = [wjobs EXCEPT ![w] = [wjobs[w] EXCEPT ![j] = outcome]]
    OBVIOUS
  <2> HIDE DEF I!FinishWorker
  <2> QED
    BY <2>1, <2>2
<1>2. iwpc' \in [I!Workers -> [JobIds -> {"none", "get", "place", "import"}]]
  <2>1. [iwpc[w] EXCEPT ![j] = "none"] \in [JobIds -> {"none", "get", "place", "import"}]
    OBVIOUS
  <2>2. iwpc' = [iwpc EXCEPT ![w] = [iwpc[w] EXCEPT ![j] = "none"]]
    OBVIOUS
  <2> HIDE DEF I!FinishWorker
  <2> QED
    BY <2>1, <2>2
<1> QED
  BY <1>1, <1>2 DEF WorkerTypes

\* A new job.
LEMMA QueueTypes ==
    ASSUME ImageTypes, NEW k \in {"import", "auto", "delete"}, NEW nodes \in SUBSET I!Nodes, I!Queue(k, nodes)
    PROVE  /\ kind' \in [JobIds -> {"none", "import", "auto", "delete"}] /\ sel' \in [JobIds -> SUBSET I!Nodes]
           /\ jobs' \in [JobIds -> {"none", "open", "ok", "failed"}]
           /\ ipc' \in [JobIds -> {"none", "wait", "next", "poll", "end"}]
BY DEF ImageTypes, I!TypeOK, I!Queue

\* An archive that is one.
LEMMA Archives ==
    ASSUME ImageTypes
    PROVE  /\ \A v \in 0..MaxChanges, b \in BOOLEAN : [ver |-> v, whole |-> b] \in I!Archive
           /\ \A f \in I!Archive : [f EXCEPT !.whole = TRUE] \in I!Archive
           /\ changes < MaxChanges => changes + 1 \in 0..MaxChanges
           /\ MaxChanges \in Nat /\ changes \in Nat
<1>1. /\ \A v \in 0..MaxChanges, b \in BOOLEAN : [ver |-> v, whole |-> b] \in I!Archive
      /\ \A f \in I!Archive : [f EXCEPT !.whole = TRUE] \in I!Archive
  BY DEF I!Archive
<1>2. MaxChanges \in Nat /\ changes \in 0..MaxChanges
  BY ImageAssumption DEF ImageTypes
<1>3. changes < MaxChanges => changes + 1 \in 0..MaxChanges
  BY <1>2
<1> QED
  BY <1>1, <1>2, <1>3

\* Every step keeps the types.
LEMMA NextImageTypes ==
    ImageTypes /\ [I!Next]_I!vars => ImageTypes'
<1> SUFFICES ASSUME ImageTypes, [I!Next]_I!vars PROVE ImageTypes'
  OBVIOUS
<1> USE DEF I!master, I!worker, I!spent
<1>1. CASE UNCHANGED I!vars
  BY <1>1 DEF I!vars, ImageTypes, I!TypeOK
<1>2. CASE I!CopyBegins
  <2>1. file' \in I!Archive \cup {None}
    BY <1>2, Archives DEF I!CopyBegins, ImageTypes, I!TypeOK
  <2>2. changes' \in 0..MaxChanges
    BY <1>2, Archives DEF I!CopyBegins, ImageTypes
  <2> QED
    BY <1>2, <2>1, <2>2 DEF I!CopyBegins, ImageTypes, I!TypeOK
<1>3. CASE I!CopyEnds
  <2>1. file' \in I!Archive \cup {None}
    BY <1>3, Archives DEF I!CopyEnds, ImageTypes, I!TypeOK
  <2> QED
    BY <1>3, <2>1 DEF I!CopyEnds, ImageTypes, I!TypeOK
<1>4. CASE I!Upload
  <2>1. file' \in I!Archive \cup {None}
    BY <1>4, Archives DEF I!Upload, ImageTypes, I!TypeOK
  <2>2. changes' \in 0..MaxChanges
    BY <1>4, Archives DEF I!Upload, ImageTypes
  <2> QED
    BY <1>4, <2>1, <2>2 DEF I!Upload, ImageTypes, I!TypeOK
<1>5. CASE I!DeletePackage
  <2>1. file' \in I!Archive \cup {None}
    BY <1>5, Archives DEF I!DeletePackage, ImageTypes, I!TypeOK
  <2>2. changes' \in 0..MaxChanges
    BY <1>5, Archives DEF I!DeletePackage, ImageTypes
  <2> QED
    BY <1>5, <2>1, <2>2 DEF I!DeletePackage, ImageTypes, I!TypeOK
<1>6. CASE I!Poll
  <2>1. CASE I!Queue("auto", {}) /\ base' = file /\ cand' = None
    BY <1>6, <2>1, QueueTypes DEF I!Poll, ImageTypes, I!TypeOK
  <2>2. CASE UNCHANGED <<kind, sel, jobs, ipc>> /\ {base', cand'} \subseteq {base, file, None}
    BY <1>6, <2>2 DEF I!Poll, ImageTypes, I!TypeOK
  <2> QED
    BY <1>6, <2>1, <2>2 DEF I!Poll
<1>7. CASE I!Restart
  BY <1>7 DEF I!Restart, I!Trouble, ImageTypes, I!TypeOK
<1>8. CASE I!Crowd
  BY <1>8 DEF I!Crowd, I!Trouble, I!Kept, ImageTypes, I!TypeOK
<1>9. ASSUME NEW k \in {"import", "delete"}, NEW nodes \in Selections, I!Request(k, nodes) PROVE ImageTypes'
  <2>1. I!Queue(k, nodes) /\ nodes \in SUBSET I!Nodes /\ UNCHANGED changes
    BY <1>9, ImageAssumption DEF I!Request
  <2> QED
    BY <1>9, <2>1, QueueTypes DEF I!Request, ImageTypes, I!TypeOK
<1>10. ASSUME NEW j \in JobIds, I!Begin(j) PROVE ImageTypes'
  <2>1. CASE I!Targets(j) = {}
    BY <1>10, <2>1, FinishTypes DEF I!Begin, ImageTypes, I!TypeOK, JobTypes
  <2>2. CASE I!Targets(j) # {}
    <3>1. I!Targets(j) \subseteq I!Nodes
      BY ImageAssumption DEF I!Targets, I!Workers, ImageTypes, I!TypeOK
    <3>2. sel' \in [JobIds -> SUBSET I!Nodes] /\ itodo' \in [JobIds -> SUBSET I!Nodes]
      <4>1. I!Targets(j) \in SUBSET I!Nodes
        BY <3>1
      <4>2. sel' = [sel EXCEPT ![j] = I!Targets(j)] /\ itodo' = [itodo EXCEPT ![j] = I!Targets(j)]
        BY <1>10, <2>2 DEF I!Begin
      <4>3. sel \in [JobIds -> SUBSET I!Nodes] /\ itodo \in [JobIds -> SUBSET I!Nodes]
        BY DEF ImageTypes, I!TypeOK
      <4> QED
        BY <4>1, <4>2, <4>3
    <3>3. iholder' \in JobIds \cup {None} /\ jobs' = jobs
      BY <1>10, <2>2 DEF I!Begin, ImageTypes, I!TypeOK
    <3>4. ipc' \in [JobIds -> {"none", "wait", "next", "poll", "end"}]
      BY <1>10, <2>2 DEF I!Begin, ImageTypes, I!TypeOK
    <3> QED
      BY <1>10, <3>2, <3>3, <3>4 DEF I!Begin, ImageTypes, I!TypeOK
  <2> QED
    BY <2>1, <2>2
<1>11. ASSUME NEW j \in JobIds, I!Local(j) PROVE ImageTypes'
  <2>1. JobTypes'
    BY <1>11, FinishTypes, AdvanceTypes DEF I!Local
  <2>2. HeldTypes'
    <3>1. file \in I!Archive \cup {None} /\ Master \in I!Nodes
      BY ImageAssumption DEF ImageTypes, I!TypeOK
    <3>2. CASE I!Done(j, Master, None) \/ I!Done(j, Master, file)
      BY <3>1, <3>2, DoneTypes
    <3>3. CASE UNCHANGED <<images, did>>
      BY <3>3 DEF HeldTypes, ImageTypes, I!TypeOK
    <3> QED
      BY <1>11, <3>2, <3>3 DEF I!Local, I!Imports, I!Refuses
  <2> QED
    BY <1>11, <2>1, <2>2 DEF I!Local, JobTypes, HeldTypes, ImageTypes, I!TypeOK
<1>12. ASSUME NEW j \in JobIds, I!Post(j) PROVE ImageTypes'
  BY <1>12 DEF I!Post, ImageTypes, I!TypeOK
<1>13. ASSUME NEW j \in JobIds, I!PostDelete(j) PROVE ImageTypes'
  <2>1. JobTypes'
    BY <1>13, AdvanceTypes DEF I!PostDelete
  <2>2. I!Turn(j) \in I!Nodes /\ I!Done(j, I!Turn(j), None)
    BY <1>13 DEF I!PostDelete, ImageTypes, I!TypeOK, I!Workers
  <2>3. HeldTypes'
    BY <2>2, DoneTypes
  <2> QED
    BY <1>13, <2>1, <2>3 DEF I!PostDelete, JobTypes, HeldTypes, ImageTypes, I!TypeOK
<1>14. ASSUME NEW j \in JobIds, I!PollWorker(j) PROVE ImageTypes'
  <2>1. JobTypes'
    BY <1>14, FinishTypes, AdvanceTypes DEF I!PollWorker
  <2> QED
    BY <1>14, <2>1 DEF I!PollWorker, JobTypes, ImageTypes, I!TypeOK
<1>15. ASSUME NEW j \in JobIds, I!Unreachable(j) PROVE ImageTypes'
  BY <1>15 DEF I!Unreachable, I!Finish, ImageTypes, I!TypeOK
<1>16. ASSUME NEW j \in JobIds, I!Fail(j) PROVE ImageTypes'
  BY <1>16 DEF I!Fail, I!Trouble, I!Finish, ImageTypes, I!TypeOK
<1>17. ASSUME NEW w \in I!Workers, NEW j \in JobIds, I!Get(w, j) PROVE ImageTypes'
  <2>1. CASE file = None
    BY <1>17, <2>1, FinishWorkerTypes DEF I!Get, WorkerTypes, ImageTypes, I!TypeOK
  <2>2. CASE file # None
    <3>1. file \in I!Archive
      BY <2>2 DEF ImageTypes, I!TypeOK
    <3>2. [wtmp[w] EXCEPT ![j] = file] \in [JobIds -> I!Archive \cup {None}]
      BY <3>1 DEF ImageTypes, I!TypeOK
    <3>3. wtmp' \in [I!Workers -> [JobIds -> I!Archive \cup {None}]]
      <4>1. wtmp' = [wtmp EXCEPT ![w] = [wtmp[w] EXCEPT ![j] = file]]
        BY <1>17, <2>2 DEF I!Get
      <4> QED
        BY <3>2, <4>1 DEF ImageTypes, I!TypeOK
    <3>4. iwpc' \in [I!Workers -> [JobIds -> {"none", "get", "place", "import"}]]
      <4>1. iwpc' = [iwpc EXCEPT ![w] = [iwpc[w] EXCEPT ![j] = "place"]]
        BY <1>17, <2>2 DEF I!Get
      <4>2. [iwpc[w] EXCEPT ![j] = "place"] \in [JobIds -> {"none", "get", "place", "import"}]
        BY DEF ImageTypes, I!TypeOK
      <4> QED
        BY <4>1, <4>2 DEF ImageTypes, I!TypeOK
    <3> QED
      BY <1>17, <2>2, <3>3, <3>4 DEF I!Get, ImageTypes, I!TypeOK
  <2> QED
    BY <2>1, <2>2
<1>18. ASSUME NEW w \in I!Workers, NEW j \in JobIds, I!Place(w, j) PROVE ImageTypes'
  BY <1>18 DEF I!Place, ImageTypes, I!TypeOK
<1>19. ASSUME NEW w \in I!Workers, NEW j \in JobIds, I!Import(w, j) PROVE ImageTypes'
  <2>1. WorkerTypes'
    BY <1>19, FinishWorkerTypes DEF I!Import
  <2>2. HeldTypes'
    <3>1. wfile[w] \in I!Archive \cup {None} /\ w \in I!Nodes
      BY DEF ImageTypes, I!TypeOK, I!Workers
    <3>2. CASE I!Done(j, w, wfile[w])
      BY <3>1, <3>2, DoneTypes
    <3>3. CASE UNCHANGED <<images, did>>
      BY <3>3 DEF HeldTypes, ImageTypes, I!TypeOK
    <3> QED
      BY <1>19, <3>2, <3>3 DEF I!Import, I!Imports, I!Refuses
  <2> QED
    BY <1>19, <2>1, <2>2 DEF I!Import, WorkerTypes, HeldTypes, ImageTypes, I!TypeOK
<1>20. ASSUME NEW w \in I!Workers, NEW j \in JobIds, I!WorkerFails(w, j) PROVE ImageTypes'
  BY <1>20 DEF I!WorkerFails, I!Trouble, I!FinishWorker, ImageTypes, I!TypeOK
<1>21. ASSUME NEW w \in I!Workers, I!Down(w) PROVE ImageTypes'
  BY <1>21 DEF I!Down, I!Trouble, ImageTypes, I!TypeOK
<1>22. ASSUME NEW w \in I!Workers, I!Up(w) PROVE ImageTypes'
  BY <1>22 DEF I!Up, ImageTypes, I!TypeOK
<1>23. ASSUME NEW w \in I!Workers, I!CrowdWorker(w) PROVE ImageTypes'
  BY <1>23 DEF I!CrowdWorker, I!Trouble, I!Kept, ImageTypes, I!TypeOK
<1> QED
  BY <1>1, <1>2, <1>3, <1>4, <1>5, <1>6, <1>7, <1>8, <1>9, <1>10, <1>11, <1>12,
     <1>13, <1>14, <1>15, <1>16, <1>17, <1>18, <1>19, <1>20, <1>21, <1>22, <1>23
     DEF I!Next

\* A task at work keeps its entry.
LEMMA NextAtWork ==
    ImageTypes /\ AtWork /\ [I!Next]_I!vars => AtWork'
<1> SUFFICES ASSUME ImageTypes, AtWork, [I!Next]_I!vars PROVE AtWork'
  OBVIOUS
<1> USE DEF I!master, I!worker, I!spent
<1>1. CASE UNCHANGED I!vars
  BY <1>1 DEF I!vars, ImageTypes, I!TypeOK, AtWork
<1>2. CASE I!CopyBegins
  BY <1>2 DEF I!CopyBegins, ImageTypes, I!TypeOK, AtWork
<1>3. CASE I!CopyEnds
  BY <1>3 DEF I!CopyEnds, ImageTypes, I!TypeOK, AtWork
<1>4. CASE I!Upload
  BY <1>4 DEF I!Upload, ImageTypes, I!TypeOK, AtWork
<1>5. CASE I!DeletePackage
  BY <1>5 DEF I!DeletePackage, ImageTypes, I!TypeOK, AtWork
<1>6. CASE I!Poll
  BY <1>6 DEF I!Poll, I!Queue, ImageTypes, I!TypeOK, AtWork
<1>7. CASE I!Restart
  BY <1>7 DEF I!Restart, I!Trouble, ImageTypes, I!TypeOK, AtWork
<1>8. CASE I!Crowd
  BY <1>8 DEF I!Crowd, I!Trouble, I!Kept, ImageTypes, I!TypeOK, AtWork
<1>9. ASSUME NEW k \in {"import", "delete"}, NEW nodes \in Selections, I!Request(k, nodes) PROVE AtWork'
  BY <1>9 DEF I!Request, I!Queue, ImageTypes, I!TypeOK, AtWork
<1>10. ASSUME NEW j \in JobIds, I!Begin(j) PROVE AtWork'
  BY <1>10 DEF I!Begin, I!Finish, ImageTypes, I!TypeOK, AtWork
<1>11. ASSUME NEW j \in JobIds, I!Local(j) PROVE AtWork'
  BY <1>11 DEF I!Local, I!Advance, I!Finish, I!Done, I!Imports, I!Refuses, ImageTypes, I!TypeOK, AtWork
<1>12. ASSUME NEW j \in JobIds, I!Post(j) PROVE AtWork'
  BY <1>12 DEF I!Post, ImageTypes, I!TypeOK, AtWork
<1>13. ASSUME NEW j \in JobIds, I!PostDelete(j) PROVE AtWork'
  BY <1>13 DEF I!PostDelete, I!Advance, I!Finish, I!Done, ImageTypes, I!TypeOK, AtWork
<1>14. ASSUME NEW j \in JobIds, I!PollWorker(j) PROVE AtWork'
  BY <1>14 DEF I!PollWorker, I!Advance, I!Finish, ImageTypes, I!TypeOK, AtWork
<1>15. ASSUME NEW j \in JobIds, I!Unreachable(j) PROVE AtWork'
  BY <1>15 DEF I!Unreachable, I!Finish, ImageTypes, I!TypeOK, AtWork
<1>16. ASSUME NEW j \in JobIds, I!Fail(j) PROVE AtWork'
  BY <1>16 DEF I!Fail, I!Trouble, I!Finish, ImageTypes, I!TypeOK, AtWork
<1>17. ASSUME NEW w \in I!Workers, NEW j \in JobIds, I!Get(w, j) PROVE AtWork'
  BY <1>17 DEF I!Get, I!FinishWorker, ImageTypes, I!TypeOK, AtWork
<1>18. ASSUME NEW w \in I!Workers, NEW j \in JobIds, I!Place(w, j) PROVE AtWork'
  BY <1>18 DEF I!Place, ImageTypes, I!TypeOK, AtWork
<1>19. ASSUME NEW w \in I!Workers, NEW j \in JobIds, I!Import(w, j) PROVE AtWork'
  BY <1>19 DEF I!Import, I!FinishWorker, I!Imports, I!Done, I!Refuses, ImageTypes, I!TypeOK, AtWork
<1>20. ASSUME NEW w \in I!Workers, NEW j \in JobIds, I!WorkerFails(w, j) PROVE AtWork'
  BY <1>20 DEF I!WorkerFails, I!Trouble, I!FinishWorker, ImageTypes, I!TypeOK, AtWork
<1>21. ASSUME NEW w \in I!Workers, I!Down(w) PROVE AtWork'
  BY <1>21 DEF I!Down, I!Trouble, ImageTypes, I!TypeOK, AtWork
<1>22. ASSUME NEW w \in I!Workers, I!Up(w) PROVE AtWork'
  BY <1>22 DEF I!Up, ImageTypes, I!TypeOK, AtWork
<1>23. ASSUME NEW w \in I!Workers, I!CrowdWorker(w) PROVE AtWork'
  BY <1>23 DEF I!CrowdWorker, I!Trouble, I!Kept, ImageTypes, I!TypeOK, AtWork
<1> QED
  BY <1>1, <1>2, <1>3, <1>4, <1>5, <1>6, <1>7, <1>8, <1>9, <1>10, <1>11, <1>12,
     <1>13, <1>14, <1>15, <1>16, <1>17, <1>18, <1>19, <1>20, <1>21, <1>22, <1>23
     DEF I!Next

\* A node is done, and its job goes on or ends well.
LEMMA AdvancedAccounted ==
    ASSUME ImageTypes, Accounted, NEW j \in JobIds, ipc[j] \in {"next", "poll"}, I!Advance(j),
           did' = [did EXCEPT ![j] = @ \cup {I!Turn(j)}], UNCHANGED <<sel, wjobs>>
    PROVE  Accounted'
<1>1. /\ itodo[j] # {} /\ sel[j] # {} /\ sel[j] \subseteq did[j] \cup itodo[j] /\ I!Turn(j) \in itodo[j]
      /\ did'[j] = did[j] \cup {I!Turn(j)}
  BY TurnIsToDo DEF Accounted, ImageTypes, I!TypeOK
<1>2. \A i \in JobIds : did[i] \subseteq did'[i]
  BY DEF ImageTypes, I!TypeOK
<1>3. \A i \in JobIds \ {j} : ipc'[i] = ipc[i] /\ itodo'[i] = itodo[i] /\ jobs'[i] = jobs[i]
  BY DEF I!Advance, I!Finish, ImageTypes, I!TypeOK
<1>4. CASE itodo[j] = {I!Turn(j)}
  <2>1. ipc'[j] = "end" /\ sel[j] \subseteq did'[j]
    BY <1>1, <1>4 DEF I!Advance, I!Finish, ImageTypes, I!TypeOK
  <2> QED
    BY <1>1, <1>2, <1>3, <2>1 DEF Accounted
<1>5. CASE itodo[j] # {I!Turn(j)}
  <2>1. itodo'[j] = itodo[j] \ {I!Turn(j)} /\ jobs' = jobs
    BY <1>5 DEF I!Advance, ImageTypes, I!TypeOK
  <2>2. itodo'[j] # {} /\ sel[j] \subseteq did'[j] \cup itodo'[j]
    BY <1>1, <1>5, <2>1
  <2>3. jobs[j] = "ok" => sel[j] \subseteq did'[j]
    BY <1>1 DEF Accounted
  <2> QED
    BY <1>1, <1>2, <1>3, <2>1, <2>2, <2>3 DEF Accounted
<1> QED
  BY <1>4, <1>5

\* A new job is for nothing yet.
LEMMA QueuedAccounted ==
    ASSUME ImageTypes, Accounted, NEW k, NEW nodes, I!Queue(k, nodes), UNCHANGED <<itodo, did, wjobs>>
    PROVE  Accounted'
<1>1. PICK j \in JobIds : /\ sel' = [sel EXCEPT ![j] = nodes] /\ jobs' = [jobs EXCEPT ![j] = "open"]
                         /\ ipc' = [ipc EXCEPT ![j] = "wait"]
  BY DEF I!Queue
<1>2. jobs'[j] = "open" /\ ipc'[j] = "wait"
  BY <1>1 DEF ImageTypes, I!TypeOK
<1>3. \A i \in JobIds \ {j} : ipc'[i] = ipc[i] /\ sel'[i] = sel[i] /\ jobs'[i] = jobs[i]
  BY <1>1 DEF ImageTypes, I!TypeOK
<1> QED
  BY <1>2, <1>3 DEF Accounted

\* A job finds no node to work for.
LEMMA BeginFailedAccounted ==
    ASSUME ImageTypes, Accounted, NEW j \in JobIds, I!Finish(j, "failed"), UNCHANGED <<sel, did, wjobs>>
    PROVE  Accounted'
<1>1. \A i \in JobIds \ {j} : ipc'[i] = ipc[i] /\ itodo'[i] = itodo[i] /\ jobs'[i] = jobs[i]
  BY DEF I!Finish, ImageTypes, I!TypeOK
<1>2. ipc'[j] = "end" /\ jobs'[j] = "failed"
  BY DEF I!Finish, ImageTypes, I!TypeOK
<1> QED
  BY <1>1, <1>2 DEF Accounted

\* A job fails, whatever k3s did.
LEMMA FailedAccounted ==
    ASSUME ImageTypes, Accounted, NEW j \in JobIds, I!Finish(j, "failed"), UNCHANGED <<sel, wjobs>>,
           did' = did \/ did' = [did EXCEPT ![j] = @ \cup {I!Turn(j)}]
    PROVE  Accounted'
<1>1. \A i \in JobIds : did[i] \subseteq did'[i]
  BY DEF ImageTypes, I!TypeOK
<1>2. \A i \in JobIds \ {j} : ipc'[i] = ipc[i] /\ itodo'[i] = itodo[i] /\ jobs'[i] = jobs[i]
  BY DEF I!Finish, ImageTypes, I!TypeOK
<1>3. ipc'[j] = "end" /\ jobs'[j] = "failed"
  BY DEF I!Finish, ImageTypes, I!TypeOK
<1> QED
  BY <1>1, <1>2, <1>3 DEF Accounted

\* A node leaves the list when it is done.
LEMMA NextAccounted ==
    ImageTypes /\ AtWork /\ Accounted /\ [I!Next]_I!vars => Accounted'
<1> SUFFICES ASSUME ImageTypes, AtWork, Accounted, [I!Next]_I!vars PROVE Accounted'
  OBVIOUS
<1> USE DEF I!master, I!worker, I!spent
<1>1. CASE UNCHANGED I!vars
  BY <1>1 DEF I!vars, ImageTypes, I!TypeOK, AtWork, Accounted
<1>2. CASE I!CopyBegins
  BY <1>2 DEF I!CopyBegins, ImageTypes, I!TypeOK, AtWork, Accounted
<1>3. CASE I!CopyEnds
  BY <1>3 DEF I!CopyEnds, ImageTypes, I!TypeOK, AtWork, Accounted
<1>4. CASE I!Upload
  BY <1>4 DEF I!Upload, ImageTypes, I!TypeOK, AtWork, Accounted
<1>5. CASE I!DeletePackage
  BY <1>5 DEF I!DeletePackage, ImageTypes, I!TypeOK, AtWork, Accounted
<1>6. CASE I!Poll
  <2>1. CASE I!Queue("auto", {})
    BY <1>6, <2>1, QueuedAccounted DEF I!Poll
  <2> QED
    BY <1>6, <2>1 DEF I!Poll, ImageTypes, I!TypeOK, Accounted
<1>7. CASE I!Restart
  BY <1>7 DEF I!Restart, I!Trouble, ImageTypes, I!TypeOK, AtWork, Accounted
<1>8. CASE I!Crowd
  BY <1>8 DEF I!Crowd, I!Trouble, I!Kept, ImageTypes, I!TypeOK, AtWork, Accounted
<1>9. ASSUME NEW k \in {"import", "delete"}, NEW nodes \in Selections, I!Request(k, nodes) PROVE Accounted'
  BY <1>9 DEF I!Request, I!Queue, ImageTypes, I!TypeOK, AtWork, Accounted
<1>10. ASSUME NEW j \in JobIds, I!Begin(j) PROVE Accounted'
  <2>1. CASE I!Targets(j) = {}
    BY <1>10, <2>1, BeginFailedAccounted DEF I!Begin
  <2>2. CASE I!Targets(j) # {}
    <3>1. jobs[j] = "open"
      BY <1>10 DEF I!Begin, AtWork
    <3>2. /\ itodo' = [itodo EXCEPT ![j] = I!Targets(j)] /\ sel' = [sel EXCEPT ![j] = I!Targets(j)]
          /\ UNCHANGED <<jobs, did, wjobs>> /\ ipc' = [ipc EXCEPT ![j] = "next"]
      BY <1>10, <2>2 DEF I!Begin
    <3> HIDE DEF I!worker
    <3> QED
      BY <2>2, <3>1, <3>2 DEF ImageTypes, I!TypeOK, Accounted
  <2> QED
    BY <2>1, <2>2
<1>11. ASSUME NEW j \in JobIds, I!Local(j) PROVE Accounted'
  <2>1. CASE I!Done(j, Master, file) \/ I!Done(j, Master, None)
    <3>1. did' = [did EXCEPT ![j] = @ \cup {I!Turn(j)}]
      BY <1>11, <2>1 DEF I!Local, I!Done
    <3>2. CASE I!Advance(j)
      BY <1>11, <3>1, <3>2, AdvancedAccounted DEF I!Local
    <3>3. CASE I!Finish(j, "failed")
      BY <1>11, <3>1, <3>3, FailedAccounted DEF I!Local
    <3> QED
      BY <1>11, <3>2, <3>3 DEF I!Local
  <2>2. CASE I!Finish(j, "failed") /\ UNCHANGED did
    BY <1>11, <2>2, FailedAccounted DEF I!Local
  <2> QED
    BY <1>11, <2>1, <2>2 DEF I!Local, I!Imports, I!Refuses
<1>12. ASSUME NEW j \in JobIds, I!Post(j) PROVE Accounted'
  BY <1>12 DEF I!Post, ImageTypes, I!TypeOK, AtWork, Accounted
<1>13. ASSUME NEW j \in JobIds, I!PostDelete(j) PROVE Accounted'
  <2>1. did' = [did EXCEPT ![j] = @ \cup {I!Turn(j)}]
    BY <1>13 DEF I!PostDelete, I!Done
  <2> QED
    BY <1>13, <2>1, AdvancedAccounted DEF I!PostDelete
<1>14. ASSUME NEW j \in JobIds, I!PollWorker(j) PROVE Accounted'
  <2>1. CASE wjobs[I!Turn(j)][j] = "ok" /\ I!Advance(j)
    <3>1. I!Turn(j) \in did[j]
      BY <1>14, <2>1 DEF I!PollWorker, ImageTypes, I!TypeOK, Accounted
    <3>2. did' = [did EXCEPT ![j] = @ \cup {I!Turn(j)}]
      BY <1>14, <3>1 DEF I!PollWorker, ImageTypes, I!TypeOK
    <3> QED
      BY <1>14, <2>1, <3>2, AdvancedAccounted DEF I!PollWorker
  <2>2. CASE I!Finish(j, "failed")
    BY <1>14, <2>2, FailedAccounted DEF I!PollWorker
  <2> QED
    BY <1>14, <2>1, <2>2 DEF I!PollWorker
<1>15. ASSUME NEW j \in JobIds, I!Unreachable(j) PROVE Accounted'
  BY <1>15 DEF I!Unreachable, I!Finish, ImageTypes, I!TypeOK, AtWork, Accounted
<1>16. ASSUME NEW j \in JobIds, I!Fail(j) PROVE Accounted'
  BY <1>16 DEF I!Fail, I!Trouble, I!Finish, ImageTypes, I!TypeOK, AtWork, Accounted
<1>17. ASSUME NEW w \in I!Workers, NEW j \in JobIds, I!Get(w, j) PROVE Accounted'
  <2>1. \A v \in I!Workers, i \in JobIds : wjobs'[v][i] = "ok" => wjobs[v][i] = "ok"
    <3>1. wjobs' = [wjobs EXCEPT ![w][j] = "failed"] \/ UNCHANGED wjobs
      BY <1>17 DEF I!Get, I!FinishWorker
    <3> QED
      BY <3>1 DEF ImageTypes, I!TypeOK
  <2> QED
    BY <1>17, <2>1 DEF I!Get, Accounted
<1>18. ASSUME NEW w \in I!Workers, NEW j \in JobIds, I!Place(w, j) PROVE Accounted'
  BY <1>18 DEF I!Place, ImageTypes, I!TypeOK, AtWork, Accounted
<1>19. ASSUME NEW w \in I!Workers, NEW j \in JobIds, I!Import(w, j) PROVE Accounted'
  <2>1. CASE wjobs' = [wjobs EXCEPT ![w][j] = "ok"] /\ did' = [did EXCEPT ![j] = @ \cup {w}]
    <3>1. \A i \in JobIds : did[i] \subseteq did'[i]
      BY <2>1 DEF ImageTypes, I!TypeOK
    <3>2. w \in did'[j]
      BY <2>1 DEF ImageTypes, I!TypeOK
    <3>3. \A v \in I!Workers, i \in JobIds : wjobs'[v][i] = "ok" => wjobs[v][i] = "ok" \/ (v = w /\ i = j)
      BY <2>1 DEF ImageTypes, I!TypeOK
    <3> QED
      BY <1>19, <3>1, <3>2, <3>3 DEF I!Import, Accounted
  <2>2. CASE wjobs' = [wjobs EXCEPT ![w][j] = "failed"] /\ UNCHANGED did
    <3>1. \A v \in I!Workers, i \in JobIds : wjobs'[v][i] = "ok" => wjobs[v][i] = "ok"
      BY <2>2 DEF ImageTypes, I!TypeOK
    <3> QED
      BY <1>19, <2>2, <3>1 DEF I!Import, Accounted
  <2> QED
    BY <1>19, <2>1, <2>2 DEF I!Import, I!Imports, I!Refuses, I!Done, I!FinishWorker
<1>20. ASSUME NEW w \in I!Workers, NEW j \in JobIds, I!WorkerFails(w, j) PROVE Accounted'
  BY <1>20 DEF I!WorkerFails, I!Trouble, I!FinishWorker, ImageTypes, I!TypeOK, AtWork, Accounted
<1>21. ASSUME NEW w \in I!Workers, I!Down(w) PROVE Accounted'
  BY <1>21 DEF I!Down, I!Trouble, ImageTypes, I!TypeOK, AtWork, Accounted
<1>22. ASSUME NEW w \in I!Workers, I!Up(w) PROVE Accounted'
  BY <1>22 DEF I!Up, ImageTypes, I!TypeOK, AtWork, Accounted
<1>23. ASSUME NEW w \in I!Workers, I!CrowdWorker(w) PROVE Accounted'
  BY <1>23 DEF I!CrowdWorker, I!Trouble, I!Kept, ImageTypes, I!TypeOK, AtWork, Accounted
<1> QED
  BY <1>1, <1>2, <1>3, <1>4, <1>5, <1>6, <1>7, <1>8, <1>9, <1>10, <1>11, <1>12,
     <1>13, <1>14, <1>15, <1>16, <1>17, <1>18, <1>19, <1>20, <1>21, <1>22, <1>23
     DEF I!Next

\* Nothing is queued when the program starts.
LEMMA InitImages == I!Init => ImageTypes /\ AtWork /\ Accounted
<1> SUFFICES ASSUME I!Init PROVE ImageTypes /\ AtWork /\ Accounted
  OBVIOUS
<1>1. [ver |-> 0, whole |-> TRUE] \in I!Archive /\ changes \in 0..MaxChanges
  BY ImageAssumption DEF I!Init, I!Archive
<1>2. I!TypeOK
  BY <1>1 DEF I!Init, I!TypeOK
<1> QED
  BY <1>1, <1>2 DEF ImageTypes, AtWork, Accounted, I!Init

\* The inductive invariant of the imports.
ImagesInv == ImageTypes /\ AtWork /\ Accounted

\* and so do the imports.
LEMMA ImagesInvHolds == Spec => []ImagesInv
<1>1. Init => ImagesInv
  BY ImageSteps, InitImages DEF ImagesInv
<1>2. ImagesInv /\ [Next]_vars => ImagesInv'
  BY ImageSteps, NextImageTypes, NextAtWork, NextAccounted DEF ImagesInv
<1> QED
  BY <1>1, <1>2, PTL DEF Spec

\* progress.rs, images.rs: a job at work has its entry in the map, and one that
\* is reported done was done on every node that it was for.
THEOREM UpkeepOutcomesHold == Spec => []OutcomesHold
<1>1. ImagesInv => OutcomesHold
  BY DEF ImagesInv, AtWork, Accounted, OutcomesHold, I!OutcomesHold
<1> QED
  BY <1>1, ImagesInvHolds, PTL
-----------------------------------------------------------------------------
\* The updates keep theirs in every setting.
LEMMA VersionedHolds == Spec => []Versioned
<1>1. Init => Versioned
  BY UpdateSteps, InitVersioned
<1>2. Versioned /\ [Next]_vars => Versioned'
  BY UpdateSteps, NextVersioned
<1> QED
  BY <1>1, <1>2, PTL DEF Spec

\* The three parts keep their types, whatever they do.
THEOREM UpkeepTypes == Spec => []TypeOK
<1>1. TempInv /\ Versioned /\ ImagesInv => TypeOK
  BY DEF TempInv, TempTypes, Shapes, TabTypes, PartTypes, TargetTypes, T!TypeOK, Versioned, ImagesInv, ImageTypes,
         TypeOK
<1> QED
  BY <1>1, TempInvHolds, VersionedHolds, ImagesInvHolds, PTL
=============================================================================
