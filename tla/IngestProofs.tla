---------------------------- MODULE IngestProofs ----------------------------
(***************************************************************************)
(* Lemmas about Ingest and LogDirectory that the proofs about both sources *)
(* use: what the operators on cells return, what the servers and the       *)
(* rotator do to a file somebody reads, for every directory and bound.     *)
(***************************************************************************)
EXTENDS Ingest, SequenceTheorems, TLAPS

-----------------------------------------------------------------------------
(* Sequences of cells.                                                     *)

\* A part of a file's cells is a sequence of cells.
LEMMA SubSeqType ==
    ASSUME NEW S, NEW s \in Seq(S), NEW m \in Nat \ {0}, NEW n \in Nat, n <= Len(s)
    PROVE  SubSeq(s, m, n) \in Seq(S)
<1>1. CASE m <= n + 1
  BY <1>1, SubSeqProperties
<1>2. CASE m > n + 1
  BY <1>2, SubSeqProperties
<1> QED
  BY <1>1, <1>2

\* A prefix is a sequence of cells no longer than asked for.
LEMMA PrefixType ==
    ASSUME NEW S, NEW s \in Seq(S), NEW n \in Nat
    PROVE  /\ Prefix(s, n) \in Seq(S)
           /\ Len(Prefix(s, n)) \in Nat
<1> DEFINE k == IF n < Len(s) THEN n ELSE Len(s)
<1>1. k \in Nat /\ k <= Len(s)
  OBVIOUS
<1>2. SubSeq(s, 1, k) \in Seq(S)
  BY <1>1, SubSeqType
<1> QED
  BY <1>2 DEF Prefix

\* The rest of a sequence behind its first d elements.
LEMMA RestIs ==
    ASSUME NEW s \in Seq(Cell), NEW d \in 0..Len(s)
    PROVE  LET r == SubSeq(s, d + 1, Len(s)) IN
              /\ r \in Seq(Cell) /\ Len(r) = Len(s) - d
              /\ \A i \in 1..Len(r) : r[i] = s[d + i]
<1>1. /\ d + 1 \in Nat /\ Len(s) \in Nat /\ d + 1 <= Len(s) + 1
      /\ \A i \in (d + 1)..Len(s) : s[i] \in Cell
  OBVIOUS
<1> DEFINE r == SubSeq(s, d + 1, Len(s))
<1>2. /\ r \in Seq(Cell)
      /\ Len(r) = IF d + 1 <= Len(s) THEN Len(s) - (d + 1) + 1 ELSE 0
      /\ \A i \in 1..(Len(s) - (d + 1) + 1) : r[i] = s[(d + 1) + i - 1]
  BY <1>1, SubSeqProperties
<1> HIDE DEF r
<1>3. Len(r) = Len(s) - d
  BY <1>1, <1>2
<1>4. ASSUME NEW i \in 1..Len(r) PROVE r[i] = s[d + i]
  <2>1. i \in 1..(Len(s) - (d + 1) + 1) /\ (d + 1) + i - 1 = d + i
    BY <1>1, <1>3
  <2> QED
    BY <1>2, <2>1
<1> QED
  BY <1>2, <1>3, <1>4 DEF r

USE PathsAssumption, InodesAssumption, RotationAssumption, BoundsAssumption,
    ScannerAssumption

\* The part of the type invariant the directory's own steps can disturb.
LEMMA CellType ==
    /\ \A l \in Lines : Whole(l) \in Cell /\ HeadOf(l) \in Cell /\ TailOf(l) \in Cell
    /\ Trailer \in Cell
BY DEF Cell, Whole, HeadOf, TailOf

\* A chunk is what lies behind the place in the file.
LEMMA ChunkIsNext ==
    ASSUME NEW s \in Seq(Cell), NEW pos \in Nat, pos < Len(s)
    PROVE  LET c == Chunk(s, pos) IN
              /\ c \in Seq(Cell) /\ pos + Len(c) <= Len(s)
              /\ \A i \in 1..Len(c) : c[i] = s[pos + i]
<1> DEFINE rest == SubSeq(s, pos + 1, Len(s))
           n == IF ChunkSize < Len(rest) THEN ChunkSize ELSE Len(rest)
<1>1. /\ rest \in Seq(Cell) /\ Len(rest) = Len(s) - pos
      /\ \A i \in 1..Len(rest) : rest[i] = s[pos + i]
  <2>1. pos \in 0..Len(s)
    OBVIOUS
  <2> QED
    BY <2>1, RestIs
<1> HIDE DEF rest
<1>2. n \in Nat /\ n <= Len(rest)
  BY <1>1, ScannerAssumption
<1>3. Chunk(s, pos) = SubSeq(rest, 1, n)
  BY DEF Chunk, Prefix, rest
<1> HIDE DEF n
<1>4. \A i \in 1..n : rest[i] \in Cell
  BY <1>1, <1>2
<1>5. /\ SubSeq(rest, 1, n) \in Seq(Cell) /\ Len(SubSeq(rest, 1, n)) = n
      /\ \A i \in 1..n : SubSeq(rest, 1, n)[i] = rest[i]
  BY <1>2, <1>4, SubSeqProperties
<1> QED
  BY <1>1, <1>2, <1>3, <1>5

\* As long as the place is not at the end of the file, a chunk has cells.
LEMMA ChunkNotEmpty ==
    ASSUME NEW s \in Seq(Cell), NEW pos \in Nat, pos < Len(s)
    PROVE  Len(Chunk(s, pos)) > 0
<1> DEFINE rest == SubSeq(s, pos + 1, Len(s))
           n == IF ChunkSize < Len(rest) THEN ChunkSize ELSE Len(rest)
<1>1. rest \in Seq(Cell) /\ Len(rest) = Len(s) - pos
  <2>1. pos \in 0..Len(s)
    OBVIOUS
  <2> QED
    BY <2>1, RestIs
<1> HIDE DEF rest
<1>2. n \in Nat /\ n <= Len(rest) /\ n > 0
  BY <1>1, ScannerAssumption
<1>3. Chunk(s, pos) = SubSeq(rest, 1, n)
  BY DEF Chunk, Prefix, rest
<1> HIDE DEF n
<1>4. \A i \in 1..n : rest[i] \in Cell
  BY <1>1, <1>2
<1>5. Len(SubSeq(rest, 1, n)) = n
  BY <1>2, <1>4, SubSeqProperties
<1> QED
  BY <1>2, <1>3, <1>5

\* A batch inserted into the requests table keeps its counters in range.
LEMMA InsertBatchType ==
    ASSUME StoredTypeOK, NEW s, NEW E, InsertBatch(s, E)
    PROVE  StoredTypeOK'
BY DEF InsertBatch, StoredTypeOK

\* The lines at some cells of a buffer that complete a token are lines: no
\* trailer completes one.
LEMMA EntriesType ==
    ASSUME NEW s \in Seq(Cell), NEW E \in SUBSET Entries(s)
    PROVE  LinesAt(s, E) \subseteq Lines
<1> SUFFICES ASSUME NEW i \in E
             PROVE  s[i].line \in Lines
  BY DEF LinesAt
<1>1. s[i] \in Cell /\ Completes(s, i)
  BY DEF Entries
<1> QED
  BY <1>1 DEF Completes, Cell, Trailer

\* A half line at the end of a buffer belongs to a line.
LEMMA HalfLineType ==
    ASSUME NEW s \in Seq(Cell)
    PROVE  HalfLine(s) \subseteq Lines
<1> SUFFICES ASSUME NEW i \in DOMAIN s, s[i].part = "head"
             PROVE  s[i].line \in Lines
  BY DEF HalfLine
<1>1. s[i] \in Cell
  OBVIOUS
<1> QED
  BY <1>1 DEF Cell, Trailer

\* One cell more in a file whose cells have been written.
LEMMA AppendNumbered ==
    ASSUME NEW s \in Seq(Cell), NEW v, \A k \in DOMAIN s : s[k].line <= v,
           NEW c \in Cell, NEW w, c.line <= w, v \in Nat, w \in Nat, v <= w
    PROVE  \A k \in DOMAIN Append(s, c) : Append(s, c)[k].line <= w
<1> DEFINE t == Append(s, c)
<1>1. /\ DOMAIN t = 1..(Len(s) + 1) /\ DOMAIN s = 1..Len(s) /\ Len(s) \in Nat
      /\ t[Len(s) + 1] = c /\ \A k \in 1..Len(s) : t[k] = s[k]
  BY AppendProperties
<1> HIDE DEF t
<1>2. \A k \in DOMAIN s : s[k].line \in Nat
  <2> TAKE k \in DOMAIN s
  <2>1. s[k] \in Cell
    OBVIOUS
  <2> QED
    BY <2>1 DEF Cell, Trailer, Lines
<1>3. ASSUME NEW k \in DOMAIN t PROVE t[k].line <= w
  <2>1. CASE k = Len(s) + 1
    BY <1>1, <2>1
  <2>2. CASE k # Len(s) + 1
    <3>1. k \in DOMAIN s /\ t[k] = s[k]
      BY <1>1, <1>3, <2>2
    <3>2. s[k].line \in Nat /\ s[k].line <= v
      BY <1>2, <3>1
    <3> QED
      BY <3>1, <3>2
  <2> QED
    BY <2>1, <2>2
<1> QED
  BY <1>3 DEF t

\* A file that is left alone has still been written.
LEMMA NumberedLater ==
    ASSUME NEW s \in Seq(Cell), NEW v \in Nat, \A k \in DOMAIN s : s[k].line <= v,
           NEW w \in Nat, v <= w
    PROVE  \A k \in DOMAIN s : s[k].line <= w
<1> TAKE k \in DOMAIN s
<1>1. s[k] \in Cell
  OBVIOUS
<1>2. s[k].line \in Nat
  BY <1>1 DEF Cell, Trailer, Lines
<1> QED
  BY <1>2

-----------------------------------------------------------------------------
(* The servers and the rotator.                                            *)

\* Writing a cell to an open log keeps the directory well typed.
LEMMA WriteType ==
    ASSUME DirTypeOK, NEW p \in Live, NEW c \in Cell, Write(p, c)
    PROVE  /\ data' \in [Inodes -> Seq(Cell)]
           /\ dir' = dir /\ wfd' = wfd /\ rotations' = rotations
<1>1. wfd[p] \in Inodes
  BY DEF DirTypeOK, Write
<1>2. Append(data[wfd[p]], c) \in Seq(Cell)
  BY <1>1, AppendProperties DEF DirTypeOK
<1> QED
  BY <1>1, <1>2 DEF DirTypeOK, Write

\* A web server's step keeps the directory well typed.
LEMMA ServeType ==
    ASSUME DirTypeOK, NEW p \in Live, NEW held, Serve(p, held)
    PROVE  DirTypeOK'
<1>1. CASE OpenLog(p, held)
  BY <1>1 DEF DirTypeOK, OpenLog, Free
<1>2. CASE WriteLine(p)
  <2>1. Whole(written + 1) \in Cell /\ written' \in 0..MaxLines
    BY <1>2, CellType DEF WriteLine, DirTypeOK, Lines
  <2> QED
    BY <1>2, <2>1, WriteType DEF WriteLine, DirTypeOK
<1>3. CASE WriteHead(p)
  <2>1. HeadOf(written + 1) \in Cell /\ written' \in 0..MaxLines
    BY <1>3, CellType DEF WriteHead, DirTypeOK, Lines
  <2> QED
    BY <1>3, <2>1, WriteType DEF WriteHead, DirTypeOK
<1>4. CASE WriteTail(p)
  <2> DEFINE s == data[wfd[p]]
  <2>1. s \in Seq(Cell) /\ s # <<>>
    BY <1>4 DEF WriteTail, DirTypeOK, HalfWritten
  <2>2. s[Len(s)] \in Cell
    BY <2>1
  <2>3. TailOf(s[Len(s)].line) \in Cell
    BY <1>4, <2>2, CellType DEF WriteTail, HalfWritten, Cell, Trailer
  <2>4. Write(p, TailOf(s[Len(s)].line)) /\ written' = written
    BY <1>4 DEF WriteTail
  <2> HIDE DEF s
  <2>5. /\ data' \in [Inodes -> Seq(Cell)]
        /\ dir' = dir /\ wfd' = wfd /\ rotations' = rotations
    BY <2>3, <2>4, WriteType
  <2> QED
    BY <2>4, <2>5 DEF DirTypeOK
<1> QED
  BY <1>1, <1>2, <1>3, <1>4 DEF Serve

\* The rotator counts its steps up to the bound.
LEMMA RotatesType ==
    ASSUME DirTypeOK, NEW kind, Rotates(kind)
    PROVE  rotations' \in 0..MaxRotations
BY DEF DirTypeOK, Rotates

\* A step of the rotator keeps the directory well typed.
LEMMA RotateType ==
    ASSUME DirTypeOK, NEW p \in Rotating, NEW held, Rotate(p, held)
    PROVE  DirTypeOK'
<1> p \in Paths /\ RotatedName[p] \in Paths /\ ArchiveName[p] \in Paths
  OBVIOUS
<1>1. CASE Rename(p)
  BY <1>1 DEF DirTypeOK, Rename, Rotates
<1>2. CASE CopyTruncate(p, held)
  <2>1. dir[p] \in Inodes
    BY <1>2 DEF DirTypeOK, CopyTruncate, Exists
  <2>2. PICK i \in Free(held) :
           /\ dir' = [dir EXCEPT ![RotatedName[p]] = i]
           /\ data' = [data EXCEPT ![i] = data[dir[p]], ![dir[p]] = <<>>]
    BY <1>2 DEF CopyTruncate
  <2>3. i \in Inodes
    BY DEF Free
  <2>4. data[dir[p]] \in Seq(Cell) /\ <<>> \in Seq(Cell)
    BY <2>1 DEF DirTypeOK
  <2>5. data' \in [Inodes -> Seq(Cell)] /\ dir' \in [Paths -> Inodes \cup {NoInode}]
    BY <2>1, <2>2, <2>3, <2>4 DEF DirTypeOK
  <2>6. wfd' = wfd /\ written' = written
    BY <1>2 DEF CopyTruncate
  <2>7. rotations' \in 0..MaxRotations
    BY <1>2, RotatesType DEF CopyTruncate
  <2> QED
    BY <2>5, <2>6, <2>7 DEF DirTypeOK
<1>3. CASE StartCompress(p, held)
  BY <1>3 DEF DirTypeOK, StartCompress, Rotates, Free
<1>4. CASE CompressCell(p)
  <2> DEFINE from == data[dir[RotatedName[p]]]
             to == data[dir[ArchiveName[p]]]
             c == IF Len(to) < Len(from) THEN from[Len(to) + 1] ELSE Trailer
  <2>1. dir[RotatedName[p]] \in Inodes /\ dir[ArchiveName[p]] \in Inodes
    BY <1>4 DEF DirTypeOK, CompressCell, Compressing, Exists
  <2>2. from \in Seq(Cell) /\ to \in Seq(Cell)
    BY <2>1 DEF DirTypeOK
  <2>3. c \in Cell
    BY <2>2, CellType
  <2>4. Append(to, c) \in Seq(Cell)
    BY <2>2, <2>3, AppendProperties
  <2> HIDE DEF c
  <2>5. data' = [data EXCEPT ![dir[ArchiveName[p]]] = Append(to, c)]
    BY <1>4 DEF CompressCell, c
  <2>6. data' \in [Inodes -> Seq(Cell)]
    BY <2>1, <2>4, <2>5 DEF DirTypeOK
  <2>7. dir' \in [Paths -> Inodes \cup {NoInode}]
    BY <1>4 DEF CompressCell, DirTypeOK
  <2>8. wfd' = wfd /\ written' = written /\ rotations' = rotations
    BY <1>4 DEF CompressCell
  <2> QED
    BY <2>6, <2>7, <2>8 DEF DirTypeOK
<1>5. CASE PublishArchive(p, held)
  <2>1. dir[RotatedName[p]] \in Inodes
    BY <1>5 DEF DirTypeOK, PublishArchive, Exists
  <2>2. Append(data[dir[RotatedName[p]]], Trailer) \in Seq(Cell)
    BY <2>1, CellType, AppendProperties DEF DirTypeOK
  <2>3. PICK i \in Free(held) :
           /\ dir' = [dir EXCEPT ![ArchiveName[p]] = i, ![RotatedName[p]] = NoInode]
           /\ data' = [data EXCEPT ![i] = Append(data[dir[RotatedName[p]]], Trailer)]
    BY <1>5 DEF PublishArchive
  <2>4. i \in Inodes
    BY DEF Free
  <2>5. data' \in [Inodes -> Seq(Cell)] /\ dir' \in [Paths -> Inodes \cup {NoInode}]
    BY <2>2, <2>3, <2>4 DEF DirTypeOK
  <2>6. wfd' = wfd /\ written' = written
    BY <1>5 DEF PublishArchive
  <2>7. rotations' \in 0..MaxRotations
    BY <1>5, RotatesType DEF PublishArchive
  <2> QED
    BY <2>5, <2>6, <2>7 DEF DirTypeOK
<1> QED
  BY <1>1, <1>2, <1>3, <1>4, <1>5 DEF Rotate

\* A server appends to a file a line that is new, or the rest of a half line.
LEMMA WriteEffect ==
    ASSUME DirTypeOK, NEW q \in Live, WriteLine(q) \/ WriteHead(q) \/ WriteTail(q)
    PROVE  \E i \in Inodes, c \in Cell :
              /\ c # Trailer /\ dir' = dir
              /\ data' = [data EXCEPT ![i] = Append(data[i], c)]
              /\ \/ /\ ~HalfWritten(i) /\ written' = written + 1
                    /\ c.part # "tail" /\ c.line = written + 1
                 \/ /\ HalfWritten(i) /\ written' = written
                    /\ c.part = "tail" /\ c.line = data[i][Len(data[i])].line
<1>1. wfd[q] \in Inodes
  <2>1. wfd \in [Live -> Inodes \cup {NoInode}] /\ wfd[q] # NoInode
    BY DEF DirTypeOK, WriteLine, WriteHead, WriteTail, Write
  <2> QED
    BY <2>1
<1>2. written \in Nat /\ (written < MaxLines => written + 1 \in Lines)
  BY DEF DirTypeOK, Lines
<1>3. CASE WriteLine(q)
  <2>1. /\ Whole(written + 1) \in Cell /\ Whole(written + 1) # Trailer
        /\ Whole(written + 1).line = written + 1 /\ Whole(written + 1).part # "tail"
    BY <1>2, <1>3 DEF WriteLine, Whole, Cell, Trailer
  <2> QED
    BY <1>1, <1>3, <2>1, InodesAssumption DEF WriteLine, Write
<1>4. CASE WriteHead(q)
  <2>1. /\ HeadOf(written + 1) \in Cell /\ HeadOf(written + 1) # Trailer
        /\ HeadOf(written + 1).line = written + 1 /\ HeadOf(written + 1).part # "tail"
    BY <1>2, <1>4 DEF WriteHead, HeadOf, Cell, Trailer
  <2> QED
    BY <1>1, <1>4, <2>1, InodesAssumption DEF WriteHead, Write
<1>5. CASE WriteTail(q)
  <2> DEFINE l == data[wfd[q]][Len(data[wfd[q]])].line
  <2>1. l \in Lines
    <3>1. HalfWritten(wfd[q]) /\ data[wfd[q]] \in Seq(Cell)
      BY <1>1, <1>5 DEF WriteTail, DirTypeOK
    <3>2. data[wfd[q]][Len(data[wfd[q]])] \in Cell
      BY <3>1 DEF HalfWritten
    <3> QED
      BY <3>1, <3>2 DEF HalfWritten, Cell, Trailer
  <2> HIDE DEF l
  <2>2. /\ TailOf(l) \in Cell /\ TailOf(l) # Trailer
        /\ TailOf(l).line = l /\ TailOf(l).part = "tail"
    BY <2>1 DEF TailOf, Cell, Trailer
  <2> QED
    BY <1>1, <1>5, <2>2, InodesAssumption DEF WriteTail, Write, l
<1> QED
  BY <1>3, <1>4, <1>5

-----------------------------------------------------------------------------
(* What one step does to the files a process holds open or may open.       *)

\* No two names refer to one file.
ApartInv == \A p, q \in Paths : Exists(p) /\ dir[p] = dir[q] => p = q

\* What is in a file has been written.
CellsWritten == \A i \in Inodes : \A k \in DOMAIN data[i] : data[i][k].line <= written

\* A cell that a server can add to s: of a new line, or the rest of its last.
Continues(s, c, n) ==
    \/ c.line = n + 1 /\ c.part # "tail"
    \/ s # <<>> /\ s[Len(s)].part = "head" /\ c.part = "tail" /\ c.line = s[Len(s)].line

\* One file grows by such a cell ...
Grows ==
    \E i \in Inodes, c \in Cell :
        /\ Continues(data[i], c, written)
        /\ data' = [data EXCEPT ![i] = Append(data[i], c)]

\* ... or none does, but archives and files nobody had.
Keeps(held) ==
    \A i \in Inodes :
        i \notin Free(held) /\ (\A q \in Rotating : dir[ArchiveName[q]] # i) =>
            data'[i] = data[i] \/ data'[i] = <<>>

\* A name keeps its file, loses it or is that of a new, empty file, but for the
\* names that the rotator writes to.
Names(held) ==
    \A p \in Paths : dir'[p] # NoInode =>
        \/ dir'[p] = dir[p]
        \/ ~Exists(p) /\ dir'[p] \in Free(held) /\ data'[dir'[p]] = <<>>
        \/ \E q \in Rotating : p = RotatedName[q]
        \/ \E q \in Rotating : p = ArchiveName[q] /\ dir'[p] \in Free(held)

Effect(held) ==
    /\ ApartInv' /\ CellsWritten' /\ written <= written'
    /\ Grows \/ Keeps(held)
    /\ Names(held)

\* The types of the directory, in the form the proofs use them.
LEMMA DirTypes ==
    ASSUME DirTypeOK
    PROVE  /\ data \in [Inodes -> Seq(Cell)] /\ dir \in [Paths -> Inodes \cup {NoInode}]
           /\ written \in Nat /\ \A p \in Paths : Exists(p) => dir[p] \in Inodes
BY DEF DirTypeOK, Exists

\* A file that is created, or copied from another one, has been written.
LEMMA CopiesWritten ==
    ASSUME CellsWritten, written' = written,
           \A j \in Inodes : data'[j] = <<>> \/ \E m \in Inodes : data'[j] = data[m]
    PROVE  CellsWritten'
<1> SUFFICES ASSUME NEW j \in Inodes
             PROVE  \A k \in DOMAIN data'[j] : data'[j][k].line <= written'
  BY DEF CellsWritten
<1>1. CASE data'[j] = <<>>
  <2>1. DOMAIN data'[j] = {}
    BY <1>1
  <2> QED
    BY <2>1
<1>2. ASSUME NEW m \in Inodes, data'[j] = data[m]
      PROVE  \A k \in DOMAIN data'[j] : data'[j][k].line <= written'
  BY <1>2 DEF CellsWritten
<1> QED
  BY <1>1, <1>2

\* A server writes to a log.
LEMMA WriteHasEffect ==
    ASSUME DirTypeOK, ApartInv, CellsWritten,
           NEW held, NEW q \in Live, WriteLine(q) \/ WriteHead(q) \/ WriteTail(q)
    PROVE  Effect(held)
<1>1. PICK i \in Inodes, c \in Cell :
         /\ c # Trailer /\ dir' = dir
         /\ data' = [data EXCEPT ![i] = Append(data[i], c)]
         /\ \/ /\ ~HalfWritten(i) /\ written' = written + 1
               /\ c.part # "tail" /\ c.line = written + 1
            \/ /\ HalfWritten(i) /\ written' = written
               /\ c.part = "tail" /\ c.line = data[i][Len(data[i])].line
  BY WriteEffect
<1> DEFINE s == data[i]
<1>2. /\ s \in Seq(Cell) /\ written \in Nat /\ data \in [Inodes -> Seq(Cell)]
      /\ \A k \in DOMAIN s : s[k].line <= written
  BY DirTypes DEF CellsWritten
<1>3. Continues(data[i], c, written)
  BY <1>1 DEF Continues, HalfWritten
<1>4. written' \in Nat /\ written <= written'
  BY <1>1, <1>2
<1>5. c.line <= written'
  <2>1. CASE c.line = written + 1 /\ written' = written + 1
    BY <1>2, <2>1
  <2>2. CASE HalfWritten(i) /\ written' = written /\ c.line = s[Len(s)].line
    <3>1. Len(s) \in DOMAIN s
      BY <1>2, <2>2 DEF HalfWritten
    <3> QED
      BY <1>2, <2>2, <3>1
  <2> QED
    BY <1>1, <2>1, <2>2
<1>6. \A j \in Inodes : data'[j] = IF j = i THEN Append(s, c) ELSE data[j]
  BY <1>1, <1>2
<1> HIDE DEF s
<1>7. \A k \in DOMAIN Append(s, c) : Append(s, c)[k].line <= written'
  BY <1>2, <1>4, <1>5, AppendNumbered
<1>8. CellsWritten'
  <2> SUFFICES ASSUME NEW j \in Inodes
               PROVE  \A k \in DOMAIN data'[j] : data'[j][k].line <= written'
    BY DEF CellsWritten
  <2>1. CASE j = i
    BY <1>6, <1>7, <2>1
  <2>2. CASE j # i
    <3>1. /\ data'[j] = data[j] /\ data[j] \in Seq(Cell)
          /\ \A k \in DOMAIN data[j] : data[j][k].line <= written
      BY <1>2, <1>6, <2>2 DEF CellsWritten
    <3>2. \A k \in DOMAIN data[j] : data[j][k].line <= written'
      BY <1>2, <1>4, <3>1, NumberedLater
    <3> QED
      BY <3>1, <3>2
  <2> QED
    BY <2>1, <2>2
<1>9. ApartInv'
  BY <1>1 DEF ApartInv, Exists
<1>10. Grows /\ Names(held)
  BY <1>1, <1>3 DEF Grows, Names
<1> QED
  BY <1>4, <1>8, <1>9, <1>10 DEF Effect

\* A server creates a log.
LEMMA OpenHasEffect ==
    ASSUME DirTypeOK, ApartInv, CellsWritten, NEW held, NEW q \in Live, OpenLog(q, held)
    PROVE  Effect(held)
<1>1. PICK i \in Free(held) :
         dir' = [dir EXCEPT ![q] = i] /\ data' = [data EXCEPT ![i] = <<>>]
  BY DEF OpenLog
<1>2. /\ i \in Inodes /\ i # NoInode /\ q \in Paths /\ ~Exists(q)
      /\ \A p \in Paths : dir[p] # i
      /\ data \in [Inodes -> Seq(Cell)] /\ dir \in [Paths -> Inodes \cup {NoInode}]
      /\ written' = written /\ written \in Nat
  BY DirTypes DEF Free, OpenLog
<1>3. /\ \A p \in Paths : dir'[p] = IF p = q THEN i ELSE dir[p]
      /\ \A j \in Inodes : data'[j] = IF j = i THEN <<>> ELSE data[j]
  BY <1>1, <1>2
<1>4. ApartInv'
  BY <1>2, <1>3 DEF ApartInv, Exists
<1>5. CellsWritten'
  BY <1>2, <1>3, CopiesWritten
<1>6. Keeps(held)
  BY <1>3 DEF Keeps
<1>7. Names(held)
  BY <1>2, <1>3 DEF Names
<1> QED
  BY <1>2, <1>4, <1>5, <1>6, <1>7 DEF Effect

\* The rotator moves a log away from its name.
LEMMA RenameHasEffect ==
    ASSUME DirTypeOK, ApartInv, CellsWritten, NEW held, NEW q \in Rotating, Rename(q)
    PROVE  Effect(held)
<1>1. /\ Exists(q) /\ UNCHANGED <<data, written>>
      /\ dir' = [dir EXCEPT ![q] = NoInode, ![RotatedName[q]] = dir[q]]
  BY DEF Rename
<1>2. /\ q \in Paths /\ RotatedName[q] \in Paths
      /\ dir \in [Paths -> Inodes \cup {NoInode}] /\ written \in Nat
  BY DirTypes
<1>3. \A p \in Paths : dir'[p] = IF p = RotatedName[q] THEN dir[q]
                                 ELSE IF p = q THEN NoInode ELSE dir[p]
  BY <1>1, <1>2
<1>4. ApartInv'
  BY <1>1, <1>2, <1>3 DEF ApartInv, Exists
<1>5. CellsWritten'
  BY <1>1 DEF CellsWritten
<1>6. Keeps(held) /\ Names(held)
  BY <1>1, <1>3 DEF Keeps, Names
<1> QED
  BY <1>1, <1>2, <1>4, <1>5, <1>6 DEF Effect

\* The rotator copies a log and truncates it.
LEMMA CopyHasEffect ==
    ASSUME DirTypeOK, ApartInv, CellsWritten,
           NEW held, NEW q \in Rotating, CopyTruncate(q, held)
    PROVE  Effect(held)
<1>1. PICK i \in Free(held) :
         /\ dir' = [dir EXCEPT ![RotatedName[q]] = i]
         /\ data' = [data EXCEPT ![i] = data[dir[q]], ![dir[q]] = <<>>]
  BY DEF CopyTruncate
<1>2. /\ q \in Paths /\ RotatedName[q] \in Paths /\ i \in Inodes /\ i # NoInode
      /\ \A p \in Paths : dir[p] # i
      /\ data \in [Inodes -> Seq(Cell)] /\ dir \in [Paths -> Inodes \cup {NoInode}]
      /\ written' = written /\ written \in Nat /\ dir[q] \in Inodes
  BY DirTypes DEF Free, CopyTruncate
<1>3. /\ \A p \in Paths : dir'[p] = IF p = RotatedName[q] THEN i ELSE dir[p]
      /\ \A j \in Inodes : data'[j] = IF j = dir[q] THEN <<>>
                                      ELSE IF j = i THEN data[dir[q]] ELSE data[j]
  BY <1>1, <1>2
<1>4. ApartInv'
  BY <1>2, <1>3 DEF ApartInv, Exists
<1>5. CellsWritten'
  BY <1>2, <1>3, CopiesWritten
<1>6. Keeps(held) /\ Names(held)
  BY <1>3 DEF Keeps, Names
<1> QED
  BY <1>2, <1>4, <1>5, <1>6 DEF Effect

\* gzip creates the archive.
LEMMA StartHasEffect ==
    ASSUME DirTypeOK, ApartInv, CellsWritten,
           NEW held, NEW q \in Rotating, StartCompress(q, held)
    PROVE  Effect(held)
<1>1. PICK i \in Free(held) :
         /\ dir' = [dir EXCEPT ![ArchiveName[q]] = i]
         /\ data' = [data EXCEPT ![i] = <<>>]
  BY DEF StartCompress
<1>2. /\ ArchiveName[q] \in Paths /\ i \in Inodes /\ i # NoInode
      /\ \A p \in Paths : dir[p] # i
      /\ data \in [Inodes -> Seq(Cell)] /\ dir \in [Paths -> Inodes \cup {NoInode}]
      /\ written' = written /\ written \in Nat
  BY DirTypes DEF Free, StartCompress
<1>3. /\ \A p \in Paths : dir'[p] = IF p = ArchiveName[q] THEN i ELSE dir[p]
      /\ \A j \in Inodes : data'[j] = IF j = i THEN <<>> ELSE data[j]
  BY <1>1, <1>2
<1>4. ApartInv'
  BY <1>2, <1>3 DEF ApartInv, Exists
<1>5. CellsWritten'
  BY <1>2, <1>3, CopiesWritten
<1>6. Keeps(held) /\ Names(held)
  BY <1>1, <1>3 DEF Keeps, Names
<1> QED
  BY <1>2, <1>4, <1>5, <1>6 DEF Effect

\* A cell more in an archive.
LEMMA ArchivesWritten ==
    ASSUME DirTypeOK, CellsWritten, NEW m \in Inodes, NEW i \in Inodes,
           NEW c \in Cell, c.line <= written, written' = written,
           \A j \in Inodes : data'[j] = IF j = i THEN Append(data[m], c) ELSE data[j]
    PROVE  CellsWritten'
<1> DEFINE s == data[m]
<1>1. /\ s \in Seq(Cell) /\ written \in Nat /\ written <= written
      /\ \A k \in DOMAIN s : s[k].line <= written
  BY DirTypes DEF CellsWritten
<1> HIDE DEF s
<1>2. \A k \in DOMAIN Append(s, c) : Append(s, c)[k].line <= written
  BY <1>1, AppendNumbered
<1> QED
  BY <1>2 DEF CellsWritten, s

\* gzip compresses a cell, or ends the archive and unlinks its input.
LEMMA CompressHasEffect ==
    ASSUME DirTypeOK, ApartInv, CellsWritten, NEW held, NEW q \in Rotating, CompressCell(q)
    PROVE  Effect(held)
<1> DEFINE A == ArchiveName[q]
           R == RotatedName[q]
           from == data[dir[R]]
           to == data[dir[A]]
           c == IF Len(to) < Len(from) THEN from[Len(to) + 1] ELSE Trailer
<1>1. /\ A \in Paths /\ R \in Paths /\ dir[A] \in Inodes /\ dir[R] \in Inodes
      /\ data \in [Inodes -> Seq(Cell)] /\ dir \in [Paths -> Inodes \cup {NoInode}]
      /\ written' = written /\ written \in Nat
  BY DirTypes DEF CompressCell, Compressing
<1>2. /\ from \in Seq(Cell) /\ to \in Seq(Cell)
      /\ \A k \in DOMAIN from : from[k].line <= written
  BY <1>1 DEF CellsWritten
<1>3. c \in Cell /\ c.line <= written
  <2>1. CASE Len(to) < Len(from)
    <3>1. Len(to) + 1 \in DOMAIN from
      BY <1>2, <2>1
    <3>2. from[Len(to) + 1] \in Cell
      BY <1>2, <3>1
    <3> QED
      BY <1>2, <2>1, <3>1, <3>2
  <2>2. CASE ~(Len(to) < Len(from))
    <3>1. Trailer \in Cell /\ Trailer.line = 0
      BY DEF Cell, Trailer
    <3> QED
      BY <1>1, <2>2, <3>1
  <2> QED
    BY <2>1, <2>2
<1>4. /\ data' = [data EXCEPT ![dir[A]] = Append(to, c)]
      /\ dir' = dir \/ dir' = [dir EXCEPT ![R] = NoInode]
  BY DEF CompressCell
<1> HIDE DEF c
<1>5. /\ \A p \in Paths : dir'[p] = dir[p] \/ dir'[p] = NoInode
      /\ \A j \in Inodes : data'[j] = IF j = dir[A] THEN Append(to, c) ELSE data[j]
  BY <1>1, <1>4
<1>6. ApartInv'
  BY <1>5 DEF ApartInv, Exists
<1>7. CellsWritten'
  BY <1>1, <1>3, <1>5, ArchivesWritten
<1>8. Keeps(held) /\ Names(held)
  BY <1>5 DEF Keeps, Names
<1>9. written <= written'
  BY <1>1
<1> QED
  BY <1>6, <1>7, <1>8, <1>9 DEF Effect

\* The careful rotator publishes a finished archive.
LEMMA PublishHasEffect ==
    ASSUME DirTypeOK, ApartInv, CellsWritten,
           NEW held, NEW q \in Rotating, PublishArchive(q, held)
    PROVE  Effect(held)
<1> DEFINE A == ArchiveName[q]
           R == RotatedName[q]
           t == Append(data[dir[R]], Trailer)
<1>1. PICK i \in Free(held) :
         /\ dir' = [dir EXCEPT ![A] = i, ![R] = NoInode]
         /\ data' = [data EXCEPT ![i] = t]
  BY DEF PublishArchive
<1>2. /\ A \in Paths /\ R \in Paths /\ i \in Inodes /\ i # NoInode
      /\ \A p \in Paths : dir[p] # i
      /\ data \in [Inodes -> Seq(Cell)] /\ dir \in [Paths -> Inodes \cup {NoInode}]
      /\ written' = written /\ written \in Nat /\ dir[R] \in Inodes
  BY DirTypes DEF Free, PublishArchive
<1>3. /\ \A p \in Paths : dir'[p] = IF p = R THEN NoInode ELSE IF p = A THEN i ELSE dir[p]
      /\ \A j \in Inodes : data'[j] = IF j = i THEN t ELSE data[j]
  BY <1>1, <1>2
<1>4. Trailer \in Cell /\ Trailer.line <= written
  BY <1>2 DEF Cell, Trailer
<1>5. CellsWritten'
  BY <1>2, <1>3, <1>4, ArchivesWritten
<1> HIDE DEF t
<1>6. ApartInv'
  BY <1>2, <1>3 DEF ApartInv, Exists
<1>7. Keeps(held) /\ Names(held)
  BY <1>3 DEF Keeps, Names
<1> QED
  BY <1>2, <1>5, <1>6, <1>7 DEF Effect

\* Every step of a server or the rotator.
LEMMA DirectoryHasEffect ==
    ASSUME DirTypeOK, ApartInv, CellsWritten, NEW held,
           \/ \E p \in Live : Serve(p, held)
           \/ \E p \in Rotating : Rotate(p, held)
    PROVE  Effect(held)
BY WriteHasEffect, OpenHasEffect, RenameHasEffect, CopyHasEffect, StartHasEffect,
   CompressHasEffect, PublishHasEffect DEF Serve, Rotate
=============================================================================
