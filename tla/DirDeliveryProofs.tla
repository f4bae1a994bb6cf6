------------------------- MODULE DirDeliveryProofs --------------------------
(***************************************************************************)
(* What a directory source over plain live logs promises, for every bound  *)
(* and every size of buffer and batch: DirWatcher implements AtLeastOnce,  *)
(* so a line is ingested twice only with an excuse.                        *)
(***************************************************************************)
EXTENDS DirWatcherProofs

-----------------------------------------------------------------------------
(* The sources the theorems are about.                                     *)

\* The pattern matches the names that servers write, and neither those that a
\* log gets when it is rotated nor archives; and the two kinds of names differ.
LiveLogsOnly ==
    /\ \A p \in Compressed : ~Visible(p)
    /\ \A q \in Rotating : ~Visible(RotatedName[q]) /\ ~Visible(ArchiveName[q])
    /\ \A q, r \in Rotating : RotatedName[q] # ArchiveName[r]

-----------------------------------------------------------------------------
(* The inductive invariant: the files.                                     *)

\* A cell that may end a line.
Ends(c) == c.part \in {"whole", "tail"}

\* The inodes that matter to the watcher.
Watched == {i \in Inodes : i \in Held \/ \E p \in Paths : Visible(p) /\ dir[p] = i}

\* The open file is never an archive in the making.
HeldInv == \A p \in Rotating : dir[ArchiveName[p]] \notin Held

\* Lines are written before they are read and before they are stored.
WrittenInv ==
    /\ \A i \in Watched : \A k \in DOMAIN data[i] :
          data[i][k] # Trailer /\ data[i][k].line <= written
    /\ \A m \in DOMAIN job.buf : job.buf[m] # Trailer /\ job.buf[m].line <= written
    /\ \A l \in Lines : stored[l] > 0 => l <= written

\* A line ends in one place.
OnceInv ==
    \A i, j \in Watched : \A k \in DOMAIN data[i], m \in DOMAIN data[j] :
        /\ Ends(data[i][k]) /\ Ends(data[j][m])
        /\ data[i][k].line = data[j][m].line
        => i = j /\ k = m

\* A line that is half written has not ended anywhere.
HalfInv ==
    \A i \in Watched : HalfWritten(i) =>
        LET l == data[i][Len(data[i])].line IN
            /\ stored[l] = 0
            /\ \A j \in Watched : \A m \in DOMAIN data[j] :
                  data[j][m].line = l => j = i /\ m = Len(data[i])
            /\ \A m \in DOMAIN job.buf : Ends(job.buf[m]) => job.buf[m].line # l

-----------------------------------------------------------------------------
(* The inductive invariant: handleFile and the row it leaves.              *)

\* The stages of handleFile.
StageInv ==
    /\ todo \subseteq {p \in Paths : Visible(p)}
    /\ Handling => Visible(job.path)
    /\ pc # "read" => job.fd = NoInode /\ job.buf = <<>>
    /\ pc \notin {"read", "commit"} => job.inserted = {}

\* Where lines end in the file p that were inserted for good.
Settled(p) ==
    {k \in DOMAIN data[dir[p]] :
        LET c == data[dir[p]][k] IN
            /\ Ends(c)
            /\ stored[c.line] > 0
            /\ c.line \notin excused \cup job.inserted}

\* A row whose fingerprint the file keeps when it grows.
Guarded(row) == row # NoRow /\ ~Short(row.fingerprint)

\* The next scan resumes behind them.
RowInv ==
    \A p \in Paths : Visible(p) /\ Exists(p) =>
        \A k \in Settled(p) : k <= NextOffset(p) /\ Guarded(fileState[p])

\* The file that handleFile works on is the one it found, only longer; the
\* head it read is that of the file still, unless there was not enough to read.
Intact ==
    LET s == data[dir[job.path]] IN
        /\ dir[job.path] = job.inode
        /\ job.size <= Len(s)
        /\ pc # "fingerprint" =>
              /\ job.offset <= Len(s)
              /\ ~Short(job.fingerprint) => job.fingerprint = Fingerprint(s)
        /\ pc = "read" =>
              /\ job.fd = job.inode
              /\ job.pos <= Len(s) /\ job.offset + Len(job.buf) <= job.pos
              /\ \A m \in DOMAIN job.buf :
                    job.buf[m] = s[job.pos - Len(job.buf) + m]

\* It is, unless a rotation overlapped; and if lines inserted for good are in
\* the file still, then it is all the same, handleFile resumes behind them, and
\* there was enough to read.
IntactInv ==
    Handling =>
        /\ ~job.overlapped => Intact
        /\ Exists(job.path) => \A k \in Settled(job.path) :
              /\ Intact
              /\ k <= IF pc = "fingerprint"
                      THEN Resume(job.prev, job.inode, job.size,
                                  Fingerprint(data[dir[job.path]]))
                      ELSE job.offset
              /\ IF pc = "fingerprint" THEN Guarded(job.prev) ELSE ~Short(job.fingerprint)

\* What handleFile has inserted lies before its place in the file.
InsertedInv ==
    /\ \A l \in job.inserted : stored[l] > 0
    /\ ~job.overlapped =>
          \A p \in Paths : Visible(p) /\ Exists(p) =>
              \A k \in DOMAIN data[dir[p]] :
                  Ends(data[dir[p]][k]) /\ data[dir[p]][k].line \in job.inserted =>
                      /\ p = job.path
                      /\ k <= IF pc = "read" THEN job.pos ELSE job.offset

\* A line that an attempt may deliver.
New(l) == l \notin job.inserted /\ (stored[l] = 0 \/ l \in excused)

\* What handleFile has still to insert is new.
NewInv ==
    /\ \A m \in DOMAIN job.buf : Ends(job.buf[m]) =>
          /\ New(job.buf[m].line)
          /\ \A n \in DOMAIN job.buf :
                Ends(job.buf[n]) /\ job.buf[n].line = job.buf[m].line => n = m
    /\ pc = "read" =>
          \A k \in DOMAIN data[job.fd] : k > job.pos /\ Ends(data[job.fd][k]) =>
              /\ New(data[job.fd][k].line)
              /\ \A m \in DOMAIN job.buf :
                    Ends(job.buf[m]) => job.buf[m].line # data[job.fd][k].line

FilesInv == ApartInv /\ HeldInv /\ WrittenInv /\ OnceInv /\ HalfInv
WorkInv == StageInv /\ RowInv /\ IntactInv /\ InsertedInv /\ NewInv
Inv == LiveLogsOnly /\ TypeOK /\ FilesInv /\ WorkInv /\ ReingestNeedsExcuse

USE PathsAssumption, InodesAssumption, RotationAssumption, BoundsAssumption,
    SourceAssumption, ScannerAssumption, LimitsAssumption, NoRowAssumption

-----------------------------------------------------------------------------
(* Lemmas about the operators.                                             *)

\* A cell that may end a line belongs to a line.
LEMMA EndsType ==
    ASSUME NEW c \in Cell, Ends(c)
    PROVE  c.line \in Lines
BY DEF Ends, Cell, Trailer

\* A whole fingerprint stays when the file grows.
LEMMA FingerprintStays ==
    ASSUME NEW s \in Seq(Cell), ~Short(Fingerprint(s)), NEW c \in Cell
    PROVE  Fingerprint(Append(s, c)) = Fingerprint(s)
<1> DEFINE t == Append(s, c)
           n == IF FingerprintSize < Len(s) THEN FingerprintSize ELSE Len(s)
           f == SubSeq(s, 1, FingerprintSize)
           g == SubSeq(t, 1, FingerprintSize)
<1>1. /\ t \in Seq(Cell) /\ Len(s) \in Nat /\ Len(t) = Len(s) + 1
      /\ \A i \in 1..Len(s) : t[i] = s[i]
  BY AppendProperties
<1>2. FingerprintSize <= Len(s)
  <2>1. n \in Nat /\ n <= Len(s) /\ n <= FingerprintSize
    BY <1>1
  <2>2. \A i \in 1..n : s[i] \in Cell
    BY <2>1
  <2>3. Fingerprint(s) = SubSeq(s, 1, n)
    BY DEF Fingerprint, Prefix
  <2> HIDE DEF n
  <2>4. Len(SubSeq(s, 1, n)) = n
    BY <2>1, <2>2, SubSeqProperties
  <2>5. ~(n < FingerprintSize)
    BY <2>3, <2>4 DEF Short
  <2> QED
    BY <1>1, <2>1, <2>5
<1> HIDE DEF t
<1>3. /\ \A i \in 1..FingerprintSize : s[i] \in Cell /\ t[i] \in Cell
      /\ FingerprintSize \in Nat /\ FingerprintSize < Len(t)
  BY <1>1, <1>2
<1>4. /\ f \in Seq(Cell) /\ Len(f) = FingerprintSize
      /\ \A i \in 1..FingerprintSize : f[i] = s[i]
  BY <1>2, <1>3, SubSeqProperties
<1>5. /\ g \in Seq(Cell) /\ Len(g) = FingerprintSize
      /\ \A i \in 1..FingerprintSize : g[i] = t[i]
  BY <1>1, <1>3, SubSeqProperties
<1>6. Fingerprint(s) = f /\ Fingerprint(t) = g
  BY <1>1, <1>2, <1>3 DEF Fingerprint, Prefix
<1> HIDE DEF f, g
<1>7. \A i \in 1..Len(f) : f[i] = g[i]
  <2> SUFFICES ASSUME NEW i \in 1..FingerprintSize PROVE f[i] = g[i]
    BY <1>4
  <2>1. i \in 1..Len(s)
    BY <1>1, <1>2, <1>3
  <2> QED
    BY <1>1, <1>4, <1>5, <2>1
<1>8. f = g
  BY <1>4, <1>5, <1>7, SeqEqual
<1> QED
  BY <1>6, <1>8 DEF t

\* A row that has lines before it is of this file, if it can be compared.
LEMMA ResumeCompares ==
    ASSUME NEW row \in Row \cup {NoRow}, NEW i, NEW n \in Nat, NEW h,
           NEW k \in Int, k >= 1, k <= Resume(row, i, n, h), Guarded(row)
    PROVE  h = row.fingerprint /\ ~Short(h)
<1>1. row.fingerprint # <<>>
  BY DEF Guarded, Short
<1>2. Resume(row, i, n, h) # 0
  OBVIOUS
<1> QED
  BY <1>1, <1>2, ResumeMatches DEF Guarded

\* A scan resumes within the file, and no earlier when only the size has grown.
LEMMA ResumeBounds ==
    ASSUME NEW row \in Row \cup {NoRow}, NEW i, NEW h, NEW n \in Nat, NEW m \in Nat, n <= m
    PROVE  /\ Resume(row, i, n, h) \in Nat
           /\ Resume(row, i, n, h) <= n
           /\ Resume(row, i, n, h) <= Resume(row, i, m, h)
BY DEF Resume, Row

\* A row that fits the file is where the next scan resumes.
LEMMA ResumeFits ==
    ASSUME NEW row \in Row, NEW i, NEW h, NEW n \in Nat,
           row.inode = i, row.offset <= n, row.fingerprint = h
    PROVE  Resume(row, i, n, h) = row.offset
<1>1. row # NoRow /\ row.offset \in Nat
  BY DEF Row
<1> QED
  BY <1>1 DEF Resume, Row

\* The entries of a buffer end lines.
LEMMA EntriesEnd ==
    ASSUME NEW s, NEW i \in Entries(s)
    PROVE  i \in DOMAIN s /\ Ends(s[i])
BY DEF Entries, Completes, Ends

-----------------------------------------------------------------------------
(* Steps of the watcher and the files.                                     *)

\* The watcher opens names the pattern matches, buffers what it reads, and
\* stores what it has buffered.
LEMMA FilesWorker ==
    ASSUME Inv, UNCHANGED dirVars,
           \A i \in Held' : i \in Held \/ \E p \in Paths : Visible(p) /\ dir[p] = i,
           \A m \in DOMAIN job'.buf :
              \/ \E n \in DOMAIN job.buf : job'.buf[m] = job.buf[n]
              \/ \E i \in Watched : \E k \in DOMAIN data[i] : job'.buf[m] = data[i][k],
           \A l \in Lines : stored'[l] = stored[l] \/
              \E n \in DOMAIN job.buf : Ends(job.buf[n]) /\ job.buf[n].line = l
    PROVE  FilesInv'
<1>1. UNCHANGED <<dir, data, written>>
  BY DEF dirVars
<1>2. Watched' \subseteq Watched
  BY <1>1 DEF Watched
<1>3. ApartInv'
  BY <1>1 DEF Inv, FilesInv, ApartInv, Exists
<1>4. HeldInv'
  <2> SUFFICES ASSUME NEW q \in Rotating, dir[ArchiveName[q]] \in Held' PROVE FALSE
    BY <1>1 DEF HeldInv
  <2>1. CASE dir[ArchiveName[q]] \in Held
    BY <2>1 DEF Inv, FilesInv, HeldInv
  <2>2. ASSUME NEW p \in Paths, Visible(p), dir[p] = dir[ArchiveName[q]] PROVE FALSE
    <3>1. Exists(p) /\ ArchiveName[q] \in Paths
      BY <1>1, <2>2 DEF Exists, Held
    <3> QED
      BY <2>2, <3>1 DEF Inv, FilesInv, ApartInv, LiveLogsOnly
  <2> QED
    BY <2>1, <2>2
<1>5. WrittenInv'
  BY <1>1, <1>2 DEF Inv, FilesInv, WrittenInv
<1>6. OnceInv'
  BY <1>1, <1>2 DEF Inv, FilesInv, OnceInv
<1>7. HalfInv'
  <2> SUFFICES ASSUME NEW i \in Watched', HalfWritten(i),
                      NEW l, l = data[i][Len(data[i])].line
               PROVE  /\ stored'[l] = 0
                      /\ \A j \in Watched' : \A m \in DOMAIN data[j] :
                            data[j][m].line = l => j = i /\ m = Len(data[i])
                      /\ \A m \in DOMAIN job'.buf :
                            Ends(job'.buf[m]) => job'.buf[m].line # l
    BY <1>1 DEF HalfInv, HalfWritten
  <2>1. /\ stored[l] = 0
        /\ \A j \in Watched : \A m \in DOMAIN data[j] :
              data[j][m].line = l => j = i /\ m = Len(data[i])
        /\ \A m \in DOMAIN job.buf : Ends(job.buf[m]) => job.buf[m].line # l
    BY <1>2 DEF Inv, FilesInv, HalfInv
  <2>2. ~Ends(data[i][Len(data[i])]) /\ l \in Lines
    <3>1. data[i] \in Seq(Cell) /\ data[i] # <<>>
      BY Types DEF Inv, Watched, HalfWritten
    <3>2. data[i][Len(data[i])] \in Cell
      BY <3>1
    <3> QED
      BY <3>2 DEF HalfWritten, Ends, Cell, Trailer
  <2>3. stored'[l] = 0
    <3>1. \/ stored'[l] = stored[l]
          \/ \E n \in DOMAIN job.buf : Ends(job.buf[n]) /\ job.buf[n].line = l
      BY <2>2
    <3> QED
      BY <2>1, <3>1
  <2>4. ASSUME NEW m \in DOMAIN job'.buf, Ends(job'.buf[m]), job'.buf[m].line = l
        PROVE  FALSE
    <3>1. CASE \E n \in DOMAIN job.buf : job'.buf[m] = job.buf[n]
      BY <2>1, <2>4, <3>1
    <3>2. ASSUME NEW j \in Watched, NEW k \in DOMAIN data[j], job'.buf[m] = data[j][k]
          PROVE  FALSE
      BY <2>1, <2>2, <2>4, <3>2
    <3> QED
      BY <3>1, <3>2
  <2> QED
    BY <1>2, <2>1, <2>3, <2>4
<1> QED
  BY <1>3, <1>4, <1>5, <1>6, <1>7 DEF FilesInv

-----------------------------------------------------------------------------
(* Steps of the watcher that insert nothing.                               *)

\* A watcher between two files.
LEMMA Between ==
    ASSUME Inv, ~Handling, ~Handling', UNCHANGED <<dirVars, dbVars, job, excused>>,
           todo' \subseteq {p \in Paths : Visible(p)}
    PROVE  FilesInv' /\ WorkInv' /\ ReingestNeedsExcuse'
<1>1. UNCHANGED <<dir, data, written, stored, fileState>>
  BY DEF dirVars, dbVars
<1>2. FilesInv'
  BY <1>1, FilesWorker DEF Held
<1>3. StageInv'
  BY DEF Inv, WorkInv, StageInv, Handling
<1>4. RowInv'
  BY <1>1 DEF Inv, WorkInv, RowInv, Settled, NextOffset, Exists
<1>5. IntactInv'
  BY DEF IntactInv
<1>6. job.inserted = {} /\ job.buf = <<>> /\ pc' # "read"
  BY DEF Inv, WorkInv, StageInv, Handling
<1>7. InsertedInv' /\ NewInv'
  BY <1>6 DEF InsertedInv, NewInv
<1> QED
  BY <1>1, <1>2, <1>3, <1>4, <1>5, <1>7 DEF WorkInv, Inv, ReingestNeedsExcuse

\* handleFile comes to nothing, or fails: what it inserted is excused.
LEMMA Ended ==
    ASSUME Inv, UNCHANGED <<dirVars, dbVars>>, ~Handling', job' = NoJob,
           todo' \subseteq todo, excused' = excused \cup job.inserted
    PROVE  FilesInv' /\ WorkInv' /\ ReingestNeedsExcuse'
<1>1. UNCHANGED <<dir, data, written, stored, fileState>>
  BY DEF dirVars, dbVars
<1>2. FilesInv'
  BY <1>1, NoJobFields, FilesWorker DEF Held
<1>3. StageInv'
  BY NoJobFields DEF Inv, WorkInv, StageInv, Handling
<1>4. RowInv'
  BY <1>1, NoJobFields DEF Inv, WorkInv, RowInv, Settled, NextOffset, Exists
<1>5. IntactInv'
  BY DEF IntactInv
<1>6. InsertedInv' /\ NewInv'
  BY NoJobFields DEF InsertedInv, NewInv, Handling
<1> QED
  BY <1>1, <1>2, <1>3, <1>4, <1>5, <1>6 DEF WorkInv, Inv, ReingestNeedsExcuse

\* os.Stat and GetFileState.
LEMMA StatStep ==
    ASSUME Inv, StatFile
    PROVE  FilesInv' /\ WorkInv' /\ ReingestNeedsExcuse'
<1>1. PICK p \in todo :
         /\ Wanted(p)
         /\ job' = [NoJob EXCEPT !.path = p, !.inode = dir[p],
                                 !.size = Len(data[dir[p]]), !.prev = fileState[p]]
         /\ pc' = IF p \in Compressed THEN "open" ELSE "fingerprint"
         /\ todo' = todo \ {p}
  BY DEF StatFile
<1>2. UNCHANGED <<dir, data, written, stored, fileState, excused, dirVars>>
  BY DEF StatFile, dirVars, dbVars, auxVars
<1>3. p \in Paths /\ Visible(p) /\ Exists(p) /\ pc' = "fingerprint"
  BY <1>1 DEF Inv, WorkInv, StageInv, LiveLogsOnly, Wanted
<1>4. /\ job'.path = p /\ job'.inode = dir[p] /\ job'.size = Len(data[dir[p]])
      /\ job'.prev = fileState[p] /\ job'.fd = NoInode /\ job'.buf = <<>>
      /\ job'.inserted = {} /\ job'.overlapped = FALSE
  BY <1>1, NoJobFields DEF NoJob
<1>5. job.inserted = {}
  BY DEF StatFile, Inv, WorkInv, StageInv
<1>6. FilesInv'
  BY <1>2, <1>4, FilesWorker DEF Held
<1>7. StageInv'
  BY <1>1, <1>3, <1>4 DEF Inv, WorkInv, StageInv, Handling
<1>8. \A r \in Paths : Settled(r)' = Settled(r) /\ NextOffset(r)' = NextOffset(r)
  BY <1>2, <1>4, <1>5 DEF Settled, NextOffset
<1>9. RowInv'
  BY <1>2, <1>8 DEF Inv, WorkInv, RowInv, Exists
<1>10. IntactInv'
  <2>1. Len(data[dir[p]]) \in Nat
    BY <1>3, Types DEF Inv, Exists
  <2>2. Intact'
    BY <1>2, <1>3, <1>4, <2>1 DEF Intact
  <2>3. \A k \in Settled(p) : /\ k <= Resume(fileState[p], dir[p], Len(data[dir[p]]),
                                             Fingerprint(data[dir[p]]))
                               /\ Guarded(fileState[p])
    BY <1>3 DEF Inv, WorkInv, RowInv, NextOffset
  <2>4. Resume(job.prev, job.inode, job.size, Fingerprint(data[dir[job.path]]))'
           = Resume(fileState[p], dir[p], Len(data[dir[p]]), Fingerprint(data[dir[p]]))
    BY <1>2, <1>4
  <2>5. Settled(job.path)' = Settled(p)
    BY <1>2, <1>4, <1>5 DEF Settled
  <2> QED
    BY <1>2, <1>3, <1>4, <2>2, <2>3, <2>4, <2>5 DEF IntactInv
<1>11. InsertedInv' /\ NewInv'
  BY <1>3, <1>4 DEF InsertedInv, NewInv
<1> QED
  BY <1>2, <1>6, <1>7, <1>9, <1>10, <1>11 DEF WorkInv, Inv, ReingestNeedsExcuse

\* readFingerprint and the offset, when something is left to do.
LEMMA FingerprintStep ==
    ASSUME Inv, ReadFingerprint, ~(pc' = "walk")
    PROVE  FilesInv' /\ WorkInv' /\ ReingestNeedsExcuse'
<1> DEFINE s == data[dir[job.path]]
           from == Resume(job.prev, job.inode, job.size, Fingerprint(s))
<1>1. /\ pc = "fingerprint" /\ Exists(job.path)
      /\ job' = [job EXCEPT !.fingerprint = Fingerprint(s), !.offset = from]
      /\ pc' \in {"open", "commit"} /\ todo' = todo
  BY DEF ReadFingerprint, NextFile
<1>2. UNCHANGED <<dir, data, written, stored, fileState, excused, dirVars>>
  BY DEF ReadFingerprint, dirVars, dbVars, auxVars
<1>3. /\ job'.path = job.path /\ job'.inode = job.inode /\ job'.size = job.size
      /\ job'.fd = NoInode /\ job'.buf = <<>> /\ job.buf = <<>> /\ job.fd = NoInode
      /\ job'.inserted = {} /\ job.inserted = {} /\ job'.overlapped = job.overlapped
      /\ job'.fingerprint = Fingerprint(s) /\ job'.offset = from
      /\ job.path \in Paths /\ job.size \in Nat /\ job.prev \in Row \cup {NoRow}
  BY <1>1, Types DEF Inv, WorkInv, StageInv, Job
<1>4. from \in Nat /\ from <= job.size /\ Len(s) \in Nat
  <2>1. s \in Seq(Cell)
    BY <1>1, <1>3, Types DEF Inv, Exists
  <2> QED
    BY <1>3, <2>1, ResumeBounds
<1>5. FilesInv'
  BY <1>2, <1>3, FilesWorker DEF Held
<1>6. StageInv'
  BY <1>1, <1>3 DEF Inv, WorkInv, StageInv, Handling
<1>7. \A r \in Paths : Settled(r)' = Settled(r) /\ NextOffset(r)' = NextOffset(r)
  BY <1>2, <1>3 DEF Settled, NextOffset
<1>8. RowInv'
  BY <1>2, <1>7 DEF Inv, WorkInv, RowInv, Exists
<1>9. IntactInv'
  <2>1. Intact => Intact'
    <3> SUFFICES ASSUME Intact PROVE Intact'
      OBVIOUS
    <3>1. dir[job.path] = job.inode /\ job.size <= Len(s) /\ from <= Len(s)
      BY <1>3, <1>4 DEF Intact
    <3> HIDE DEF from
    <3> QED
      BY <1>1, <1>2, <1>3, <3>1 DEF Intact
  <2>2. ~job.overlapped => Intact
    BY <1>1 DEF Inv, WorkInv, IntactInv, Handling
  <2>3. \A k \in Settled(job.path) : Intact /\ k <= from /\ Guarded(job.prev)
    BY <1>1 DEF Inv, WorkInv, IntactInv, Handling
  <2>4. \A k \in Settled(job.path) : ~Short(Fingerprint(s))
    <3> TAKE k \in Settled(job.path)
    <3>1. k \in Int /\ k >= 1
      <4>1. s \in Seq(Cell) /\ k \in DOMAIN s
        BY <1>1, <1>3, Types DEF Inv, Exists, Settled
      <4> QED
        BY <4>1
    <3> QED
      BY <1>3, <2>3, <3>1, ResumeCompares
  <2> HIDE DEF from
  <2> QED
    BY <1>1, <1>3, <1>7, <2>1, <2>2, <2>3, <2>4 DEF IntactInv
<1>10. InsertedInv' /\ NewInv'
  BY <1>1, <1>3 DEF InsertedInv, NewInv
<1> QED
  BY <1>2, <1>5, <1>6, <1>8, <1>9, <1>10 DEF WorkInv, Inv, ReingestNeedsExcuse

\* os.Open and Seek: everything behind the offset is new.
LEMMA OpenStep ==
    ASSUME Inv, OpenFile
    PROVE  FilesInv' /\ WorkInv' /\ ReingestNeedsExcuse'
<1> DEFINE s == data[dir[job.path]]
<1>1. /\ pc = "open" /\ Exists(job.path) /\ pc' = "read" /\ todo' = todo
      /\ job' = [job EXCEPT !.fd = dir[job.path], !.pos = job.offset]
  BY DEF OpenFile
<1>2. UNCHANGED <<dir, data, written, stored, fileState, excused, dirVars>>
  BY DEF OpenFile, dirVars, dbVars, auxVars
<1>3. /\ job'.path = job.path /\ job'.inode = job.inode /\ job'.size = job.size
      /\ job'.fd = dir[job.path] /\ job'.buf = <<>> /\ job.buf = <<>>
      /\ job'.inserted = {} /\ job.inserted = {} /\ job'.overlapped = job.overlapped
      /\ job'.fingerprint = job.fingerprint /\ job'.offset = job.offset
      /\ job'.pos = job.offset /\ job.offset \in Nat /\ job.path \in Paths
      /\ Visible(job.path)
  BY <1>1, Types DEF Inv, WorkInv, StageInv, Job, Handling
<1>4. dir[job.path] \in Inodes /\ s \in Seq(Cell)
  BY <1>1, <1>3, Types DEF Inv, Exists
<1>5. FilesInv'
  BY <1>2, <1>3, FilesWorker DEF Held
<1>6. StageInv'
  BY <1>1, <1>3 DEF Inv, WorkInv, StageInv, Handling
<1>7. \A r \in Paths : Settled(r)' = Settled(r) /\ NextOffset(r)' = NextOffset(r)
  BY <1>2, <1>3 DEF Settled, NextOffset
<1>8. RowInv'
  BY <1>2, <1>7 DEF Inv, WorkInv, RowInv, Exists
<1>9. /\ ~job.overlapped => Intact
      /\ \A k \in Settled(job.path) : Intact /\ k <= job.offset /\ ~Short(job.fingerprint)
  BY <1>1 DEF Inv, WorkInv, IntactInv, Handling
<1>10. IntactInv'
  <2>1. Intact => Intact'
    BY <1>1, <1>2, <1>3 DEF Intact
  <2> QED
    BY <1>1, <1>3, <1>7, <1>9, <2>1 DEF IntactInv
<1>11. NewInv'
  <2>1. ASSUME NEW k \in DOMAIN s, k > job.offset, Ends(s[k])
        PROVE  stored[s[k].line] = 0 \/ s[k].line \in excused
    <3>1. s[k].line \in Lines
      BY <1>4, <2>1, EndsType
    <3>2. k \notin Settled(job.path)
      BY <1>3, <1>4, <1>9, <2>1
    <3>3. stored[s[k].line] \in Nat
      BY <3>1, Types DEF Inv
    <3> QED
      BY <1>3, <2>1, <3>2, <3>3 DEF Settled
  <2> QED
    BY <1>2, <1>3, <2>1 DEF NewInv, New
<1>12. InsertedInv'
  BY <1>3 DEF InsertedInv
<1> QED
  BY <1>2, <1>5, <1>6, <1>8, <1>10, <1>11, <1>12 DEF WorkInv, Inv, ReingestNeedsExcuse

\* The scanner reads on.
LEMMA ReadStep ==
    ASSUME Inv, ReadChunk
    PROVE  FilesInv' /\ WorkInv' /\ ReingestNeedsExcuse'
<1> DEFINE s == data[job.fd]
           c == Chunk(s, job.pos)
<1>1. /\ pc = "read" /\ pc' = "read" /\ todo' = todo
      /\ job' = [job EXCEPT !.buf = job.buf \o c, !.pos = job.pos + Len(c)]
      /\ ~(job.pos >= Len(s))
  BY DEF ReadChunk, AtEOF
<1>2. UNCHANGED <<dir, data, written, stored, fileState, excused, dirVars>>
  BY DEF ReadChunk, dirVars, dbVars, auxVars
<1>3. /\ job.fd \in Inodes /\ s \in Seq(Cell) /\ job.pos \in Nat /\ job.pos < Len(s)
      /\ job.buf \in Seq(Cell) /\ job.offset \in Nat
  BY <1>1, Types DEF Inv, Job
<1>4. /\ c \in Seq(Cell) /\ job.pos + Len(c) <= Len(s)
      /\ \A i \in 1..Len(c) : c[i] = s[job.pos + i]
  BY <1>3, ChunkIsNext
<1>5. /\ job'.path = job.path /\ job'.inode = job.inode /\ job'.size = job.size
      /\ job'.fd = job.fd /\ job'.buf = job.buf \o c /\ job'.pos = job.pos + Len(c)
      /\ job'.inserted = job.inserted /\ job'.overlapped = job.overlapped
      /\ job'.fingerprint = job.fingerprint /\ job'.offset = job.offset
  BY <1>1, Types DEF Inv, Job
<1> HIDE DEF c
<1>15. DOMAIN s = 1..Len(s) /\ Len(s) \in Nat
  BY <1>3
<1> HIDE DEF s
<1>6. /\ Len(job'.buf) = Len(job.buf) + Len(c) /\ Len(job.buf) \in Nat /\ Len(c) \in Nat
      /\ DOMAIN job'.buf = 1..(Len(job.buf) + Len(c))
      /\ \A m \in DOMAIN job'.buf :
            \/ m \in DOMAIN job.buf /\ job'.buf[m] = job.buf[m]
            \/ /\ m - Len(job.buf) \in 1..Len(c)
               /\ job.pos + (m - Len(job.buf)) \in DOMAIN s
               /\ job'.buf[m] = s[job.pos + (m - Len(job.buf))]
  <2>1. /\ job'.buf \in Seq(Cell) /\ Len(job'.buf) = Len(job.buf) + Len(c)
        /\ \A i \in 1..(Len(job.buf) + Len(c)) :
              job'.buf[i] = IF i <= Len(job.buf) THEN job.buf[i] ELSE c[i - Len(job.buf)]
    BY <1>3, <1>4, <1>5, ConcatProperties
  <2>2. /\ DOMAIN job'.buf = 1..(Len(job.buf) + Len(c))
        /\ DOMAIN job.buf = 1..Len(job.buf) /\ Len(job.buf) \in Nat /\ Len(c) \in Nat
    BY <1>3, <1>4, <2>1
  <2>3. ASSUME NEW m \in DOMAIN job'.buf
        PROVE  \/ m \in DOMAIN job.buf /\ job'.buf[m] = job.buf[m]
               \/ /\ m - Len(job.buf) \in 1..Len(c)
                  /\ job.pos + (m - Len(job.buf)) \in DOMAIN s
                  /\ job'.buf[m] = s[job.pos + (m - Len(job.buf))]
    <3>1. CASE m <= Len(job.buf)
      BY <2>1, <2>2, <3>1
    <3>2. CASE m > Len(job.buf)
      <4>1. m - Len(job.buf) \in 1..Len(c)
        BY <2>2, <3>2
      <4>2. job.pos + (m - Len(job.buf)) \in DOMAIN s
        BY <1>3, <1>4, <1>15, <2>2, <4>1
      <4>3. job'.buf[m] = c[m - Len(job.buf)]
        BY <2>1, <2>2, <3>2
      <4> QED
        BY <1>4, <4>1, <4>2, <4>3
    <3> QED
      BY <2>2, <3>1, <3>2
  <2> QED
    BY <2>1, <2>2, <2>3
<1>7. job.fd \in Watched
  BY <1>3 DEF Watched, Held, Inv, InodesAssumption
<1>8. FilesInv'
  BY <1>2, <1>5, <1>6, <1>7, FilesWorker DEF Held, s
<1>9. StageInv'
  BY <1>1, <1>5 DEF Inv, WorkInv, StageInv, Handling
<1>10. \A r \in Paths : Settled(r)' = Settled(r) /\ NextOffset(r)' = NextOffset(r)
  BY <1>2, <1>5 DEF Settled, NextOffset
<1>11. RowInv'
  BY <1>2, <1>10 DEF Inv, WorkInv, RowInv, Exists
<1>12. IntactInv'
  <2>1. Intact => Intact'
    <3> SUFFICES ASSUME Intact PROVE Intact'
      OBVIOUS
    <3>1. job.fd = dir[job.path] /\ job.offset + Len(job.buf) <= job.pos
      BY <1>1 DEF Intact
    <3>4. s = data[dir[job.path]]
      BY <3>1 DEF s
    <3>2. \A m \in DOMAIN job'.buf : job'.buf[m] = s[job'.pos - Len(job'.buf) + m]
      <4> TAKE m \in DOMAIN job'.buf
      <4>1. /\ m \in Nat
            /\ job'.pos - Len(job'.buf) + m = job.pos - Len(job.buf) + m
            /\ job.pos + (m - Len(job.buf)) = job.pos - Len(job.buf) + m
        BY <1>3, <1>5, <1>6
      <4>2. m \in DOMAIN job.buf => job.buf[m] = s[job.pos - Len(job.buf) + m]
        BY <1>1, <3>4 DEF Intact
      <4> QED
        BY <1>6, <4>1, <4>2
    <3>3. job'.offset + Len(job'.buf) <= job'.pos /\ job'.pos <= Len(s)
      BY <1>3, <1>4, <1>5, <1>6, <3>1
    <3> QED
      BY <1>1, <1>2, <1>5, <3>2, <3>3, <3>4 DEF Intact
  <2>2. /\ ~job.overlapped => Intact
        /\ Exists(job.path) => \A k \in Settled(job.path) : Intact /\ k <= job.offset /\ ~Short(job.fingerprint)
    BY <1>1 DEF Inv, WorkInv, IntactInv, Handling
  <2>3. job.path \in Paths /\ Exists(job.path)' = Exists(job.path)
    BY <1>2, <1>5, Types DEF Inv, Job, Exists
  <2> QED
    BY <1>1, <1>5, <1>10, <2>1, <2>2, <2>3 DEF IntactInv
<1>13. InsertedInv'
  <2>1. \A k \in Int : k <= job.pos => k <= job'.pos
    BY <1>3, <1>5, <1>6
  <2>2. \A p \in Paths : Visible(p) /\ Exists(p) => DOMAIN data[dir[p]] \subseteq Int
    BY Types DEF Inv, Exists
  <2> QED
    BY <1>1, <1>2, <1>5, <2>1, <2>2 DEF Inv, WorkInv, InsertedInv, Exists
<1>14. NewInv'
  <2>1. \A k \in DOMAIN s : k > job.pos /\ Ends(s[k]) =>
           /\ New(s[k].line)
           /\ \A m \in DOMAIN job.buf : Ends(job.buf[m]) => job.buf[m].line # s[k].line
    BY <1>1 DEF Inv, WorkInv, NewInv, s
  <2>2. \A m \in DOMAIN job.buf : Ends(job.buf[m]) =>
           /\ New(job.buf[m].line)
           /\ \A n \in DOMAIN job.buf :
                 Ends(job.buf[n]) /\ job.buf[n].line = job.buf[m].line => n = m
    BY DEF Inv, WorkInv, NewInv
  <2>3. \A k, j \in DOMAIN s : Ends(s[k]) /\ Ends(s[j]) /\ s[k].line = s[j].line => k = j
    BY <1>7 DEF Inv, FilesInv, OnceInv, s
  <2>4. \A l : New(l)' = New(l)
    BY <1>2, <1>5 DEF New
  <2>5. ASSUME NEW m \in DOMAIN job'.buf, Ends(job'.buf[m])
        PROVE  /\ New(job'.buf[m].line)
               /\ \A n \in DOMAIN job'.buf :
                     Ends(job'.buf[n]) /\ job'.buf[n].line = job'.buf[m].line => n = m
               /\ \A k \in DOMAIN s : k > job'.pos /\ Ends(s[k]) =>
                     job'.buf[m].line # s[k].line
    <3>1. \A k \in DOMAIN s : k > job'.pos => k > job.pos
      BY <1>3, <1>5, <1>6, <1>15
    <3>2. \A n \in DOMAIN job'.buf : n \in Int
      BY <1>6
    <3>5. \A n \in DOMAIN job'.buf : n \notin DOMAIN job.buf =>
             job.pos + (n - Len(job.buf)) > job.pos
      BY <1>3, <1>6
    <3>3. CASE m \in DOMAIN job.buf /\ job'.buf[m] = job.buf[m]
      <4>1. \A n \in DOMAIN job'.buf :
               Ends(job'.buf[n]) /\ job'.buf[n].line = job'.buf[m].line => n = m
        <5> SUFFICES ASSUME NEW n \in DOMAIN job'.buf, Ends(job'.buf[n]),
                            job'.buf[n].line = job'.buf[m].line
                     PROVE  n = m
          OBVIOUS
        <5>1. CASE n \in DOMAIN job.buf /\ job'.buf[n] = job.buf[n]
          BY <2>2, <2>5, <3>3, <5>1
        <5>2. CASE /\ n - Len(job.buf) \in 1..Len(c)
                   /\ job.pos + (n - Len(job.buf)) \in DOMAIN s
                   /\ job'.buf[n] = s[job.pos + (n - Len(job.buf))]
          <6>1. job.pos + (n - Len(job.buf)) > job.pos
            BY <1>3, <1>6, <5>2
          <6> QED
            BY <2>1, <2>5, <3>3, <5>2, <6>1
        <5> QED
          BY <1>6, <5>1, <5>2
      <4> QED
        BY <2>1, <2>2, <2>5, <3>1, <3>3, <4>1
    <3>4. CASE /\ m - Len(job.buf) \in 1..Len(c)
               /\ job.pos + (m - Len(job.buf)) \in DOMAIN s
               /\ job'.buf[m] = s[job.pos + (m - Len(job.buf))]
      <4> DEFINE k == job.pos + (m - Len(job.buf))
      <4>1. k > job.pos /\ k \in DOMAIN s /\ Ends(s[k]) /\ k <= job'.pos
        BY <1>3, <1>5, <1>6, <1>15, <2>5, <3>4
      <4>5. k \in Int /\ m = k - job.pos + Len(job.buf)
        BY <1>3, <1>6, <1>15, <3>2
      <4> HIDE DEF k
      <4>2. \A n \in DOMAIN job'.buf :
               Ends(job'.buf[n]) /\ job'.buf[n].line = s[k].line => n = m
        <5> SUFFICES ASSUME NEW n \in DOMAIN job'.buf, Ends(job'.buf[n]),
                            job'.buf[n].line = s[k].line
                     PROVE  n = m
          OBVIOUS
        <5>1. CASE n \in DOMAIN job.buf /\ job'.buf[n] = job.buf[n]
          BY <2>1, <4>1, <5>1
        <5>2. CASE /\ job.pos + (n - Len(job.buf)) \in DOMAIN s
                   /\ job'.buf[n] = s[job.pos + (n - Len(job.buf))]
          <6>1. job.pos + (n - Len(job.buf)) = k
            BY <2>3, <4>1, <5>2
          <6> QED
            BY <1>3, <1>6, <3>2, <4>5, <6>1
        <5> QED
          BY <1>6, <5>1, <5>2
      <4>3. \A j \in DOMAIN s : j > job'.pos /\ Ends(s[j]) => s[k].line # s[j].line
        <5>1. \A j \in DOMAIN s : j > job'.pos => j # k
          BY <1>3, <1>5, <1>6, <1>15, <4>1, <4>5
        <5> QED
          BY <2>3, <4>1, <5>1
      <4>4. job'.buf[m] = s[k]
        BY <3>4 DEF k
      <4> QED
        BY <2>1, <4>1, <4>2, <4>3, <4>4
    <3> QED
      BY <1>6, <3>3, <3>4
  <2>6. ASSUME NEW k \in DOMAIN s, k > job'.pos, Ends(s[k]) PROVE New(s[k].line)
    <3>1. k > job.pos
      BY <1>3, <1>5, <1>6, <1>15, <2>6
    <3> QED
      BY <2>1, <2>6, <3>1
  <2>7. data'[job'.fd] = s
    BY <1>2, <1>5 DEF s
  <2> QED
    BY <2>4, <2>5, <2>6, <2>7 DEF NewInv
<1> QED
  BY <1>2, <1>8, <1>9, <1>11, <1>12, <1>13, <1>14 DEF WorkInv, Inv, ReingestNeedsExcuse

-----------------------------------------------------------------------------
(* Steps of the watcher that insert.                                       *)

\* A transaction for some entries at the front of the buffer: it inserts new
\* lines, and what was inserted for good stays what it was.
LEMMA InsertStep ==
    ASSUME Inv, pc = "read", NEW E \in SUBSET Entries(job.buf), InsertBatch(job.buf, E),
           job'.inserted = job.inserted \cup LinesAt(job.buf, E),
           UNCHANGED <<dirVars, fileState, excused>>,
           NEW d \in 0..Len(job.buf), \A i \in E : i <= d,
           job'.buf \in Seq(Cell), Len(job'.buf) = Len(job.buf) - d,
           \A m \in 1..Len(job'.buf) : job'.buf[m] = job.buf[d + m],
           job'.fd \in {job.fd, NoInode}
    PROVE  /\ FilesInv' /\ ReingestNeedsExcuse' /\ RowInv'
           /\ \A p \in Paths : Visible(p) /\ Exists(p) => Settled(p)' \subseteq Settled(p)
           /\ \A l \in job'.inserted : stored'[l] > 0
           /\ \A m \in 1..Len(job'.buf) : Ends(job'.buf[m]) =>
                 /\ New(job.buf[m].line)'
                 /\ \A n \in 1..Len(job'.buf) :
                       Ends(job'.buf[n]) /\ job'.buf[n].line = job'.buf[m].line => n = m
           /\ \A l \in Lines : New(l) /\ (\A m \in DOMAIN job.buf :
                                   Ends(job.buf[m]) => job.buf[m].line # l) => New(l)'
<1> DEFINE B == LinesAt(job.buf, E)
<1>1. UNCHANGED <<dir, data, written, fileState, excused>>
  BY DEF dirVars
<1>2. job.buf \in Seq(Cell) /\ stored \in [Lines -> 0..MaxStored] /\ job.inserted \subseteq Lines
  BY Types DEF Inv, Job
<1>3. \A i \in E : i \in DOMAIN job.buf /\ Ends(job.buf[i]) /\ job.buf[i].line \in Lines
  BY <1>2, EntriesEnd, EndsType
<1>4. B \subseteq Lines
  BY <1>3 DEF LinesAt
<1>15. \A l \in B : \E n \in E : job.buf[n].line = l
  BY DEF LinesAt
<1>5. \A l \in B : New(l)
  BY <1>3 DEF Inv, WorkInv, NewInv, LinesAt
<1>6. /\ stored' \in [Lines -> 0..MaxStored]
      /\ \A l \in Lines : l \notin B => stored'[l] = stored[l]
      /\ \A l \in B : stored'[l] > 0 /\ (stored[l] = 0 => stored'[l] = 1)
      /\ \A l \in Lines : stored'[l] >= stored[l]
  <2>1. \A l \in Lines : (\E i \in E : job.buf[i].line = l) <=> l \in B
    BY DEF LinesAt
  <2>2. stored' = [l \in Lines |-> IF stored[l] < MaxStored /\ l \in B
                                   THEN stored[l] + 1 ELSE stored[l]]
    BY <2>1 DEF InsertBatch
  <2> HIDE DEF B
  <2> QED
    BY <1>2, <1>4, <2>2
<1>7. FilesInv'
  <2>1. \A l \in Lines : stored'[l] = stored[l] \/
           \E n \in DOMAIN job.buf : Ends(job.buf[n]) /\ job.buf[n].line = l
    BY <1>3, <1>6, <1>15
  <2>2. \A m \in DOMAIN job'.buf : \E n \in DOMAIN job.buf : job'.buf[m] = job.buf[n]
    <3> TAKE m \in DOMAIN job'.buf
    <3>1. m \in 1..Len(job'.buf) /\ d + m \in DOMAIN job.buf
      BY <1>2
    <3> QED
      BY <3>1
  <2>3. \A i \in Held' : i \in Held
    BY DEF Held
  <2> QED
    BY <2>1, <2>2, <2>3, FilesWorker
<1> HIDE DEF B
<1>8. ReingestNeedsExcuse'
  <2> SUFFICES ASSUME NEW l \in Lines, stored'[l] > 1 PROVE l \in excused
    BY <1>1 DEF ReingestNeedsExcuse
  <2>1. CASE l \in B
    BY <1>2, <1>5, <1>6, <2>1 DEF New
  <2>2. CASE l \notin B
    BY <1>6, <2>2 DEF Inv, ReingestNeedsExcuse
  <2> QED
    BY <2>1, <2>2
<1>9. \A p \in Paths : Visible(p) /\ Exists(p) => Settled(p)' \subseteq Settled(p)
  <2> SUFFICES ASSUME NEW p \in Paths, Exists(p), NEW k \in Settled(p)'
               PROVE  k \in Settled(p)
    OBVIOUS
  <2> DEFINE c == data[dir[p]][k]
  <2>1. /\ k \in DOMAIN data[dir[p]] /\ Ends(c) /\ stored'[c.line] > 0
        /\ c.line \notin excused \cup job.inserted \cup B
    BY <1>1 DEF Settled, B
  <2>2. c.line \in Lines
    <3>1. c \in Cell
      BY <2>1, Types DEF Inv, Exists
    <3> QED
      BY <2>1, <3>1, EndsType
  <2> QED
    BY <1>6, <2>1, <2>2 DEF Settled
<1>10. RowInv'
  BY <1>1, <1>9 DEF Inv, WorkInv, RowInv, NextOffset, Exists
<1>11. \A l \in job'.inserted : stored'[l] > 0
  BY <1>2, <1>6 DEF Inv, WorkInv, InsertedInv, B
<1>12. \A l \in Lines : New(l) /\ l \notin B => New(l)'
  <2> SUFFICES ASSUME NEW l \in Lines, New(l), l \notin B PROVE New(l)'
    OBVIOUS
  <2>1. l \notin job'.inserted
    BY DEF New, B
  <2>2. CASE l \in excused
    BY <1>1, <2>1, <2>2 DEF New
  <2>3. CASE stored[l] = 0
    BY <1>6, <2>1, <2>3 DEF New
  <2> QED
    BY <2>2, <2>3 DEF New
<1>13. ASSUME NEW m \in 1..Len(job'.buf), Ends(job'.buf[m])
       PROVE  /\ New(job.buf[m].line)'
              /\ \A n \in 1..Len(job'.buf) :
                    Ends(job'.buf[n]) /\ job'.buf[n].line = job'.buf[m].line => n = m
  <2>1. \A n \in 1..Len(job'.buf) : d + n \in DOMAIN job.buf /\ job'.buf[n] = job.buf[d + n]
    <3>1. DOMAIN job.buf = 1..Len(job.buf) /\ Len(job.buf) \in Nat /\ d \in Nat
      BY <1>2
    <3> TAKE n \in 1..Len(job'.buf)
    <3>2. n \in Nat /\ 1 <= n /\ n <= Len(job.buf) - d
      BY <3>1
    <3>3. d + n \in 1..Len(job.buf)
      BY <3>1, <3>2
    <3> QED
      BY <3>1, <3>3
  <2>5. \A i, j \in DOMAIN job.buf :
           Ends(job.buf[i]) /\ Ends(job.buf[j]) /\ job.buf[i].line = job.buf[j].line => i = j
    BY DEF Inv, WorkInv, NewInv
  <2>6. d + m \in DOMAIN job.buf /\ job'.buf[m] = job.buf[d + m] /\ m \in Int /\ d \in Int
    BY <2>1
  <2>2. job'.buf[m].line \notin B
    <3>1. \A i \in E : i # d + m
      BY <1>2, <1>3, <2>6
    <3>2. \A i \in E : job.buf[i].line # job'.buf[m].line
      BY <1>3, <1>13, <2>5, <2>6, <3>1
    <3> QED
      BY <1>15, <3>2
  <2>3. New(job'.buf[m].line)
    BY <1>13, <2>6 DEF Inv, WorkInv, NewInv
  <2>4. \A n \in 1..Len(job'.buf) :
           Ends(job'.buf[n]) /\ job'.buf[n].line = job'.buf[m].line => n = m
    <3> SUFFICES ASSUME NEW n \in 1..Len(job'.buf), Ends(job'.buf[n]),
                        job'.buf[n].line = job'.buf[m].line
                 PROVE  n = m
      OBVIOUS
    <3>1. d + n = d + m
      BY <1>13, <2>1, <2>5, <2>6
    <3> QED
      BY <2>6, <3>1
  <2>7. job'.buf[m].line \in Lines
    BY <1>13, EndsType
  <2>8. New(job.buf[m].line)'
    BY <1>12, <2>2, <2>3, <2>7 DEF New
  <2> QED
    BY <2>4, <2>8
<1>14. \A l : (\A m \in DOMAIN job.buf : Ends(job.buf[m]) => job.buf[m].line # l) => l \notin B
  BY <1>3, <1>15
<1> QED
  BY <1>7, <1>8, <1>9, <1>10, <1>11, <1>12, <1>13, <1>14

\* Unless a rotation overlapped, what an attempt inserts is in its own file,
\* before the place it has read to.
LEMMA InsertedPlaces ==
    ASSUME Inv, pc = "read", ~job.overlapped, NEW E \in SUBSET Entries(job.buf),
           NEW p \in Paths, Visible(p), Exists(p), NEW k \in DOMAIN data[dir[p]],
           Ends(data[dir[p]][k]),
           data[dir[p]][k].line \in job.inserted \cup LinesAt(job.buf, E)
    PROVE  p = job.path /\ k <= job.pos
<1> DEFINE s == data[dir[job.path]]
<1>1. CASE data[dir[p]][k].line \in job.inserted
  BY <1>1 DEF Inv, WorkInv, InsertedInv
<1>2. ASSUME NEW m \in E, data[dir[p]][k].line = job.buf[m].line
      PROVE  p = job.path /\ k <= job.pos
  <2>1. m \in DOMAIN job.buf /\ Ends(job.buf[m])
    BY EntriesEnd
  <2>2. /\ dir[job.path] = job.inode /\ job.pos <= Len(s)
        /\ job.offset + Len(job.buf) <= job.pos
        /\ job.buf[m] = s[job.pos - Len(job.buf) + m]
    BY <2>1 DEF Inv, WorkInv, IntactInv, Intact, Handling
  <2>3. /\ job.path \in Paths /\ Visible(job.path) /\ job.inode \in Inodes
        /\ job.offset \in Nat /\ job.pos \in Nat /\ job.buf \in Seq(Cell) /\ s \in Seq(Cell)
        /\ job.inode # NoInode
    BY <2>2, Types DEF Inv, WorkInv, StageInv, Handling, Job
  <2> DEFINE n == job.pos - Len(job.buf) + m
  <2>4. n \in DOMAIN s /\ n <= job.pos
    <3>1. /\ DOMAIN s = 1..Len(s) /\ Len(s) \in Nat /\ Len(job.buf) \in Nat
          /\ m \in Nat /\ 1 <= m /\ m <= Len(job.buf)
      BY <2>1, <2>3
    <3>2. n \in Int /\ 1 <= n /\ n <= job.pos
      BY <2>2, <2>3, <3>1
    <3> QED
      BY <2>2, <2>3, <3>1, <3>2
  <2>5. dir[p] \in Watched /\ dir[job.path] \in Watched
    BY <2>2, <2>3, Types DEF Inv, Watched, Exists
  <2> HIDE DEF n
  <2>6. s[n] = job.buf[m]
    BY <2>2 DEF n
  <2> HIDE DEF s
  <2>7. dir[p] = dir[job.path] /\ k = n
    BY <1>2, <2>1, <2>4, <2>5, <2>6 DEF Inv, FilesInv, OnceInv, s
  <2>8. p = job.path
    BY <2>3, <2>7 DEF Inv, FilesInv, ApartInv
  <2> QED
    BY <2>4, <2>7, <2>8
<1> QED
  BY <1>1, <1>2 DEF LinesAt

\* A full batch is inserted.
LEMMA FlushStep ==
    ASSUME Inv, FlushBatch
    PROVE  FilesInv' /\ WorkInv' /\ ReingestNeedsExcuse'
<1> DEFINE batch(k) == {i \in Entries(job.buf) : i <= k}
<1>1. PICK d \in DOMAIN job.buf :
         /\ InsertBatch(job.buf, batch(d))
         /\ job' = [job EXCEPT !.buf = SubSeq(job.buf, d + 1, Len(job.buf)),
                               !.inserted = job.inserted \cup LinesAt(job.buf, batch(d))]
  BY DEF FlushBatch
<1> DEFINE E == batch(d)
<1>2. /\ pc = "read" /\ pc' = "read" /\ todo' = todo
      /\ UNCHANGED <<dir, data, written, fileState, excused, dirVars>>
  BY DEF FlushBatch, dirVars, auxVars
<1>3. /\ E \in SUBSET Entries(job.buf) /\ \A i \in E : i <= d
  OBVIOUS
<1> HIDE DEF E
<1>4. /\ job'.path = job.path /\ job'.inode = job.inode /\ job'.size = job.size
      /\ job'.fd = job.fd /\ job'.pos = job.pos
      /\ job'.buf = SubSeq(job.buf, d + 1, Len(job.buf))
      /\ job'.inserted = job.inserted \cup LinesAt(job.buf, E)
      /\ job'.overlapped = job.overlapped
      /\ job'.fingerprint = job.fingerprint /\ job'.offset = job.offset
      /\ job.path \in Paths /\ job.pos \in Nat /\ job.offset \in Nat
      /\ job.buf \in Seq(Cell)
  BY <1>1, Types DEF Inv, Job, E
<1>5. /\ d \in 0..Len(job.buf) /\ Len(job.buf) \in Nat /\ DOMAIN job.buf = 1..Len(job.buf)
      /\ job'.buf \in Seq(Cell) /\ Len(job'.buf) = Len(job.buf) - d
      /\ \A m \in 1..Len(job'.buf) : job'.buf[m] = job.buf[d + m]
  <2>1. d \in 0..Len(job.buf) /\ Len(job.buf) \in Nat
    BY <1>4
  <2> DEFINE r == SubSeq(job.buf, d + 1, Len(job.buf))
  <2>2. /\ r \in Seq(Cell) /\ Len(r) = Len(job.buf) - d
        /\ \A i \in 1..Len(r) : r[i] = job.buf[d + i]
    BY <1>4, <2>1, RestIs
  <2>3. job'.buf = r /\ DOMAIN job.buf = 1..Len(job.buf)
    BY <1>4
  <2> HIDE DEF r
  <2> QED
    BY <2>1, <2>2, <2>3
<1>6. DOMAIN job'.buf = 1..Len(job'.buf) /\ Len(job'.buf) \in Nat
  BY <1>5
<1>7. InsertBatch(job.buf, E)
  BY <1>1 DEF E
<1>8. /\ FilesInv' /\ ReingestNeedsExcuse' /\ RowInv'
      /\ \A p \in Paths : Visible(p) /\ Exists(p) => Settled(p)' \subseteq Settled(p)
      /\ \A l \in job'.inserted : stored'[l] > 0
      /\ \A m \in 1..Len(job'.buf) : Ends(job'.buf[m]) =>
            /\ New(job.buf[m].line)'
            /\ \A n \in 1..Len(job'.buf) :
                  Ends(job'.buf[n]) /\ job'.buf[n].line = job'.buf[m].line => n = m
      /\ \A l \in Lines : New(l) /\ (\A m \in DOMAIN job.buf :
                              Ends(job.buf[m]) => job.buf[m].line # l) => New(l)'
  BY <1>2, <1>3, <1>4, <1>5, <1>7, InsertStep
<1>9. StageInv'
  BY <1>2, <1>4 DEF Inv, WorkInv, StageInv, Handling
<1>10. IntactInv'
  <2>1. Intact => Intact'
    <3> SUFFICES ASSUME Intact PROVE Intact'
      OBVIOUS
    <3> DEFINE s == data[dir[job.path]]
    <3>1. \A m \in DOMAIN job.buf : job.buf[m] = s[job.pos - Len(job.buf) + m]
      BY <1>2 DEF Intact
    <3> HIDE DEF s
    <3>2. \A m \in DOMAIN job'.buf : job'.buf[m] = s[job.pos - Len(job'.buf) + m]
      <4> TAKE m \in DOMAIN job'.buf
      <4>1. d + m \in DOMAIN job.buf /\ job'.buf[m] = job.buf[d + m]
        BY <1>5, <1>6
      <4>2. job.pos - Len(job.buf) + (d + m) = job.pos - Len(job'.buf) + m
        <5>1. job.pos \in Int /\ d \in Int /\ m \in Int /\ Len(job.buf) \in Int
          BY <1>4, <1>5, <1>6
        <5>2. Len(job'.buf) = Len(job.buf) - d
          BY <1>5
        <5> QED
          BY <5>1, <5>2
      <4> QED
        BY <3>1, <4>1, <4>2
    <3>3. job.offset + Len(job.buf) <= job.pos => job.offset + Len(job'.buf) <= job.pos
      BY <1>4, <1>5, <1>6
    <3> QED
      BY <1>2, <1>4, <3>2, <3>3 DEF Intact, s
  <2>2. /\ ~job.overlapped => Intact
        /\ Exists(job.path) => \A k \in Settled(job.path) : Intact /\ k <= job.offset /\ ~Short(job.fingerprint)
    BY <1>2 DEF Inv, WorkInv, IntactInv, Handling
  <2>3. Exists(job.path) => Settled(job.path)' \subseteq Settled(job.path)
    BY <1>2, <1>4, <1>8 DEF Inv, WorkInv, StageInv, Handling
  <2> QED
    BY <1>2, <1>4, <2>1, <2>2, <2>3 DEF IntactInv, Exists
<1>11. InsertedInv'
  <2>1. ASSUME ~job.overlapped, NEW p \in Paths, Visible(p), Exists(p),
               NEW k \in DOMAIN data[dir[p]], Ends(data[dir[p]][k]),
               data[dir[p]][k].line \in job'.inserted
        PROVE  p = job.path /\ k <= job.pos
    BY <1>2, <1>3, <1>4, <2>1, InsertedPlaces
  <2> QED
    BY <1>2, <1>4, <1>8, <2>1 DEF InsertedInv, Exists
<1>12. NewInv'
  <2> DEFINE s == data[job.fd]
  <2>1. ASSUME NEW k \in DOMAIN s, k > job.pos, Ends(s[k])
        PROVE  /\ s[k].line \notin job'.inserted
               /\ stored'[s[k].line] = 0 \/ s[k].line \in excused'
               /\ \A m \in DOMAIN job'.buf : Ends(job'.buf[m]) => job'.buf[m].line # s[k].line
    <3>1. /\ New(s[k].line)
          /\ \A m \in DOMAIN job.buf : Ends(job.buf[m]) => job.buf[m].line # s[k].line
      BY <1>2, <2>1 DEF Inv, WorkInv, NewInv
    <3>2. s[k].line \in Lines
      BY <1>2, <2>1, EndsType, Types DEF Inv
    <3>3. ASSUME NEW m \in DOMAIN job'.buf
          PROVE  d + m \in DOMAIN job.buf /\ job'.buf[m] = job.buf[d + m]
      <4>1. m \in 1..Len(job'.buf) /\ d \in Nat /\ m \in Nat /\ 1 <= m /\ m <= Len(job'.buf)
        BY <1>5, <1>6, <3>3
      <4>2. d + m \in 1..Len(job.buf)
        BY <1>5, <4>1
      <4> QED
        BY <1>5, <4>1, <4>2
    <3>4. \A l \in Lines : l = s[k].line => New(l)'
      BY <1>8, <3>1
    <3> QED
      BY <1>2, <1>4, <3>1, <3>2, <3>3, <3>4 DEF New
  <2>2. data'[job'.fd] = s
    BY <1>2, <1>4
  <2>3. \A m \in DOMAIN job'.buf : Ends(job'.buf[m]) =>
            /\ New(job.buf[m].line)'
            /\ \A n \in DOMAIN job'.buf :
                  Ends(job'.buf[n]) /\ job'.buf[n].line = job'.buf[m].line => n = m
    BY <1>6, <1>8
  <2> HIDE DEF s
  <2>4. \A k \in DOMAIN s : k > job'.pos /\ Ends(s[k]) =>
           /\ s[k].line \notin job'.inserted /\ (stored'[s[k].line] = 0 \/ s[k].line \in excused')
           /\ \A m \in DOMAIN job'.buf : Ends(job'.buf[m]) => job'.buf[m].line # s[k].line
    BY <1>4, <2>1
  <2> QED
    BY <2>2, <2>3, <2>4 DEF NewInv, New
<1> QED
  BY <1>8, <1>9, <1>10, <1>11, <1>12 DEF WorkInv

\* The rest is inserted, and the place in the file becomes the offset.
LEMMA FinishStep ==
    ASSUME Inv, FinishPlain
    PROVE  FilesInv' /\ WorkInv' /\ ReingestNeedsExcuse'
<1> DEFINE E == Entries(job.buf)
<1>1. /\ pc = "read" /\ pc' = "commit" /\ todo' = todo
      /\ InsertBatch(job.buf, E)
      /\ job' = [job EXCEPT !.offset = job.pos, !.fd = NoInode, !.buf = <<>>,
                            !.inserted = job.inserted \cup LinesAt(job.buf, E)]
      /\ UNCHANGED <<dir, data, written, fileState, excused, dirVars>>
  BY DEF FinishPlain, dirVars
<1>2. /\ E \in SUBSET Entries(job.buf) /\ \A i \in E : i <= Len(job.buf)
  BY Types, EntriesEnd DEF Inv, Job
<1> HIDE DEF E
<1>3. /\ job'.path = job.path /\ job'.inode = job.inode /\ job'.size = job.size
      /\ job'.fd = NoInode /\ job'.buf = <<>> /\ job'.offset = job.pos
      /\ job'.inserted = job.inserted \cup LinesAt(job.buf, E)
      /\ job'.overlapped = job.overlapped /\ job'.fingerprint = job.fingerprint
      /\ job.path \in Paths /\ job.pos \in Nat /\ job.offset \in Nat
      /\ job.buf \in Seq(Cell) /\ Len(job.buf) \in 0..Len(job.buf)
  BY <1>1, Types DEF Inv, Job
<1>4. job'.buf \in Seq(Cell) /\ Len(job'.buf) = Len(job.buf) - Len(job.buf) /\ 1..Len(job'.buf) = {}
  BY <1>3
<1>5. /\ FilesInv' /\ ReingestNeedsExcuse' /\ RowInv'
      /\ \A p \in Paths : Visible(p) /\ Exists(p) => Settled(p)' \subseteq Settled(p)
      /\ \A l \in job'.inserted : stored'[l] > 0
  BY <1>1, <1>2, <1>3, <1>4, InsertStep
<1>6. StageInv'
  BY <1>1, <1>3 DEF Inv, WorkInv, StageInv, Handling
<1>7. IntactInv'
  <2>1. Intact => Intact' /\ job.offset <= job.pos
    <3>1. Len(job.buf) \in Nat
      BY <1>3
    <3>2. Intact => job.offset <= job.pos
      BY <1>1, <1>3, <3>1 DEF Intact
    <3>3. Intact => Intact'
      BY <1>1, <1>3 DEF Intact
    <3> QED
      BY <3>2, <3>3
  <2>2. /\ ~job.overlapped => Intact
        /\ Exists(job.path) => \A k \in Settled(job.path) : Intact /\ k <= job.offset /\ ~Short(job.fingerprint)
    BY <1>1 DEF Inv, WorkInv, IntactInv, Handling
  <2>3. Exists(job.path) => /\ Settled(job.path)' \subseteq Settled(job.path)
                            /\ Settled(job.path) \subseteq Int
    <3>1. Exists(job.path) => DOMAIN data[dir[job.path]] \subseteq Int
      BY <1>3, Types DEF Inv, Exists
    <3> QED
      BY <1>1, <1>3, <1>5, <3>1 DEF Inv, WorkInv, StageInv, Handling, Settled
  <2>4. \A k \in Int : k <= job.offset /\ job.offset <= job.pos => k <= job.pos
    BY <1>3
  <2> QED
    BY <1>1, <1>3, <2>1, <2>2, <2>3, <2>4 DEF IntactInv, Exists
<1>8. InsertedInv'
  <2>1. ASSUME ~job.overlapped, NEW p \in Paths, Visible(p), Exists(p),
               NEW k \in DOMAIN data[dir[p]], Ends(data[dir[p]][k]),
               data[dir[p]][k].line \in job'.inserted
        PROVE  p = job.path /\ k <= job.pos
    BY <1>1, <1>2, <1>3, <2>1, InsertedPlaces
  <2> QED
    BY <1>1, <1>3, <1>5, <2>1 DEF InsertedInv, Exists
<1>9. NewInv'
  BY <1>1, <1>3 DEF NewInv
<1> QED
  BY <1>5, <1>6, <1>7, <1>8, <1>9 DEF WorkInv

\* UpsertFileState: what was inserted is behind the row's offset from now on,
\* or excused.
LEMMA CommitStep ==
    ASSUME Inv, CommitRow
    PROVE  FilesInv' /\ WorkInv' /\ ReingestNeedsExcuse'
<1> DEFINE s == data[dir[job.path]]
<1>1. /\ pc = "commit" /\ pc' = "walk" /\ todo' = todo /\ job' = NoJob
      /\ fileState' = [fileState EXCEPT ![job.path] = RowOf(job)]
      /\ excused' = excused \cup (IF job.overlapped \/ Short(job.fingerprint)
                                  THEN job.inserted ELSE {})
      /\ UNCHANGED <<dir, data, written, stored, dirVars>>
  BY DEF CommitRow, NextFile, Excuse, dirVars
<1>2. /\ job.path \in Paths /\ job.inode # NoInode /\ RowOf(job) \in Row
      /\ Visible(job.path)
      /\ fileState'[job.path] = RowOf(job)
      /\ \A p \in Paths : p # job.path => fileState'[p] = fileState[p]
  BY <1>1, Types, RowOfType DEF Inv, WorkInv, StageInv, Job, Handling
<1>3. FilesInv'
  BY <1>1, NoJobFields, FilesWorker DEF Held
<1>4. StageInv'
  BY <1>1, NoJobFields DEF Inv, WorkInv, StageInv, Handling
<1>5. ASSUME NEW p \in Paths, Visible(p), Exists(p), p = job.path, Intact,
             ~Short(job.fingerprint)
      PROVE  NextOffset(p)' = job.offset
  <2> DEFINE row == RowOf(job)
  <2>1. Len(s) \in Nat /\ job.offset <= Len(s) /\ job.inode = dir[p]
        /\ job.fingerprint = Fingerprint(s)
    BY <1>1, <1>2, <1>5, Types DEF Inv, Intact, Exists
  <2>2. /\ row \in Row /\ row.inode = dir[p] /\ row.offset <= Len(s)
        /\ row.fingerprint = Fingerprint(s) /\ row.offset = job.offset
    BY <1>2, <2>1 DEF RowOf
  <2> HIDE DEF row, s
  <2>3. Resume(row, dir[p], Len(s), Fingerprint(s)) = row.offset
    BY <2>1, <2>2, ResumeFits
  <2> QED
    BY <1>1, <1>2, <1>5, <2>2, <2>3 DEF NextOffset, row, s
<1>6. /\ ~job.overlapped => Intact
      /\ Exists(job.path) => \A k \in Settled(job.path) : Intact /\ k <= job.offset /\ ~Short(job.fingerprint)
  BY <1>1 DEF Inv, WorkInv, IntactInv, Handling
<1>7. ~job.overlapped => \A p \in Paths : Visible(p) /\ Exists(p) =>
         \A k \in DOMAIN data[dir[p]] :
            Ends(data[dir[p]][k]) /\ data[dir[p]][k].line \in job.inserted =>
               p = job.path /\ k <= job.offset
  BY <1>1 DEF Inv, WorkInv, InsertedInv
<1>8. RowInv'
  <2> SUFFICES ASSUME NEW p \in Paths, Visible(p), Exists(p), NEW k \in Settled(p)'
               PROVE  k <= NextOffset(p)' /\ Guarded(fileState'[p])
    BY <1>1 DEF RowInv, Exists
  <2> DEFINE c == data[dir[p]][k]
  <2>1. /\ k \in DOMAIN data[dir[p]] /\ Ends(c) /\ stored[c.line] > 0
        /\ c.line \notin excused
        /\ job.overlapped \/ Short(job.fingerprint) => c.line \notin job.inserted
    BY <1>1 DEF Settled
  <2>2. \/ k \in Settled(p)
        \/ ~job.overlapped /\ ~Short(job.fingerprint) /\ c.line \in job.inserted
    BY <2>1 DEF Settled
  <2>3. CASE p = job.path
    <3>1. Intact /\ k <= job.offset /\ ~Short(job.fingerprint)
      BY <1>6, <1>7, <2>1, <2>2, <2>3
    <3>2. Guarded(RowOf(job))
      BY <1>2, <3>1 DEF Guarded, RowOf
    <3> QED
      BY <1>2, <1>5, <2>3, <3>1, <3>2
  <2>4. CASE p # job.path
    <3>1. k \in Settled(p)
      BY <1>7, <2>1, <2>2, <2>4
    <3>2. NextOffset(p)' = NextOffset(p)
      BY <1>1, <1>2, <2>4 DEF NextOffset
    <3> QED
      BY <1>2, <2>4, <3>1, <3>2 DEF Inv, WorkInv, RowInv
  <2> QED
    BY <2>3, <2>4
<1>9. IntactInv'
  BY <1>1 DEF IntactInv, Handling
<1>10. InsertedInv' /\ NewInv'
  BY <1>1, NoJobFields DEF InsertedInv, NewInv
<1>11. ReingestNeedsExcuse'
  BY <1>1 DEF Inv, ReingestNeedsExcuse
<1> QED
  BY <1>3, <1>4, <1>8, <1>9, <1>10, <1>11 DEF WorkInv

-----------------------------------------------------------------------------
(* Steps of the rotator.                                                   *)

\* When nothing appears in the files the watcher may read but empty ones, lines
\* that were inserted for good cannot come back.
LEMMA KeptStep ==
    ASSUME Inv, TypeOK',
           \A p, r \in Paths : dir'[p] # NoInode /\ dir'[p] = dir'[r] => p = r,
           \A p \in Rotating : dir'[ArchiveName[p]] \notin Held,
           \A i \in Watched' : \A k \in DOMAIN data'[i] : i \in Watched /\ data'[i] = data[i],
           \A p \in Paths : Visible(p) /\ Exists(p)' => \A k \in DOMAIN data'[dir'[p]] :
              Exists(p) /\ dir'[p] = dir[p] /\ data'[dir'[p]] = data[dir[p]],
           pc = "read" => \A k \in DOMAIN data'[job.fd] : data'[job.fd] = data[job.fd],
           UNCHANGED <<written, stored, fileState, excused, pc, todo>>,
           job' = [job EXCEPT !.overlapped = job'.overlapped]
    PROVE  /\ FilesInv' /\ StageInv' /\ RowInv' /\ NewInv' /\ ReingestNeedsExcuse'
           /\ (Handling /\ ~job'.overlapped => Intact') => IntactInv'
           /\ \A l \in job'.inserted : stored'[l] > 0
<1>1. /\ job'.path = job.path /\ job'.inode = job.inode /\ job'.size = job.size
      /\ job'.prev = job.prev /\ job'.fd = job.fd /\ job'.buf = job.buf /\ job'.pos = job.pos
      /\ job'.offset = job.offset /\ job'.inserted = job.inserted
      /\ job'.fingerprint = job.fingerprint
  BY Types DEF Inv, Job
<1>2. Held' = Held /\ (Handling <=> Handling')
  BY <1>1 DEF Held, Handling
<1>3. FilesInv'
  <2>1. ApartInv' /\ HeldInv'
    BY <1>2 DEF ApartInv, HeldInv, Exists
  <2>2. ASSUME NEW i \in Watched', NEW k \in DOMAIN data'[i]
        PROVE  i \in Watched /\ data'[i] = data[i] /\ k \in DOMAIN data[i]
    <3>1. i \in Watched /\ data'[i] = data[i]
      BY <2>2
    <3> QED
      BY <2>2, <3>1
  <2>3. WrittenInv'
    <3>1. \A i \in Watched' : \A k \in DOMAIN data'[i] :
             data'[i][k] # Trailer /\ data'[i][k].line <= written
      BY <2>2 DEF Inv, FilesInv, WrittenInv
    <3>2. \A m \in DOMAIN job.buf : job.buf[m] # Trailer /\ job.buf[m].line <= written
      BY DEF Inv, FilesInv, WrittenInv
    <3>3. \A l \in Lines : stored[l] > 0 => l <= written
      BY DEF Inv, FilesInv, WrittenInv
    <3> QED
      BY <1>1, <3>1, <3>2, <3>3 DEF WrittenInv
  <2>4. OnceInv'
    <3> SUFFICES ASSUME NEW i \in Watched', NEW j \in Watched',
                        NEW k \in DOMAIN data'[i], NEW m \in DOMAIN data'[j],
                        Ends(data'[i][k]), Ends(data'[j][m]),
                        data'[i][k].line = data'[j][m].line
                 PROVE  i = j /\ k = m
      BY DEF OnceInv
    <3>1. /\ i \in Watched /\ data'[i] = data[i] /\ k \in DOMAIN data[i]
          /\ j \in Watched /\ data'[j] = data[j] /\ m \in DOMAIN data[j]
      BY <2>2
    <3> QED
      BY <3>1 DEF Inv, FilesInv, OnceInv
  <2>5. HalfInv'
    <3> SUFFICES ASSUME NEW i \in Watched', HalfWritten(i)',
                        NEW l, l = data'[i][Len(data'[i])].line
                 PROVE  /\ stored[l] = 0
                        /\ \A j \in Watched' : \A m \in DOMAIN data'[j] :
                              data'[j][m].line = l => j = i /\ m = Len(data'[i])
                        /\ \A m \in DOMAIN job.buf : Ends(job.buf[m]) => job.buf[m].line # l
      BY <1>1 DEF HalfInv, HalfWritten
    <3>1. data'[i] = data[i] /\ HalfWritten(i) /\ i \in Watched
      <4>1. i \in Inodes
        BY DEF Watched
      <4>2. data'[i] # <<>> /\ data'[i] \in Seq(Cell)
        BY <4>1 DEF HalfWritten, TypeOK, DirTypeOK
      <4>3. Len(data'[i]) \in DOMAIN data'[i]
        BY <4>2
      <4> QED
        BY <2>2, <4>3 DEF HalfWritten
    <3>2. /\ stored[l] = 0
          /\ \A j \in Watched : \A m \in DOMAIN data[j] :
                data[j][m].line = l => j = i /\ m = Len(data[i])
          /\ \A m \in DOMAIN job.buf : Ends(job.buf[m]) => job.buf[m].line # l
      BY <3>1 DEF Inv, FilesInv, HalfInv
    <3>3. ASSUME NEW j \in Watched', NEW m \in DOMAIN data'[j], data'[j][m].line = l
          PROVE  j = i /\ m = Len(data[i])
      <4>1. j \in Watched /\ data'[j] = data[j] /\ m \in DOMAIN data[j]
        BY <2>2
      <4> QED
        BY <3>2, <3>3, <4>1
    <3> QED
      BY <3>1, <3>2, <3>3
  <2> QED
    BY <2>1, <2>3, <2>4, <2>5 DEF FilesInv
<1>4. StageInv'
  BY <1>1, <1>2 DEF Inv, WorkInv, StageInv
<1>5. ASSUME NEW p \in Paths, Visible(p), Exists(p)', NEW k \in Settled(p)'
      PROVE  /\ Exists(p) /\ dir'[p] = dir[p] /\ data'[dir'[p]] = data[dir[p]]
             /\ k \in Settled(p) /\ NextOffset(p)' = NextOffset(p)
  <2>1. k \in DOMAIN data'[dir'[p]]
    BY DEF Settled
  <2>2. Exists(p) /\ dir'[p] = dir[p] /\ data'[dir'[p]] = data[dir[p]]
    BY <1>5, <2>1
  <2> QED
    BY <1>1, <1>5, <2>1, <2>2 DEF Settled, NextOffset
<1>6. RowInv'
  BY <1>5 DEF Inv, WorkInv, RowInv
<1>7. (Handling /\ ~job'.overlapped => Intact') => IntactInv'
  <2> SUFFICES ASSUME Handling, Exists(job.path)', NEW k \in Settled(job.path)'
               PROVE  /\ Intact'
                      /\ k <= IF pc = "fingerprint"
                              THEN Resume(job.prev, job.inode, job.size,
                                          Fingerprint(data'[dir'[job.path]]))
                              ELSE job.offset
                      /\ IF pc = "fingerprint" THEN Guarded(job.prev)
                         ELSE ~Short(job.fingerprint)
    BY <1>1, <1>2 DEF IntactInv
  <2>1. job.path \in Paths /\ Visible(job.path)
    BY Types DEF Inv, WorkInv, StageInv, Job
  <2>2. /\ Exists(job.path) /\ dir'[job.path] = dir[job.path]
        /\ data'[dir'[job.path]] = data[dir[job.path]] /\ k \in Settled(job.path)
    <3>1. \A p \in Paths : p = job.path => Exists(p)' /\ Settled(p)' = Settled(job.path)'
      BY <1>1 DEF Settled, Exists
    <3> QED
      BY <1>5, <2>1, <3>1
  <2>3. /\ Intact
        /\ k <= IF pc = "fingerprint"
                THEN Resume(job.prev, job.inode, job.size, Fingerprint(data[dir[job.path]]))
                ELSE job.offset
        /\ IF pc = "fingerprint" THEN Guarded(job.prev) ELSE ~Short(job.fingerprint)
    BY <2>2 DEF Inv, WorkInv, IntactInv
  <2>4. Intact'
    <3>1. data'[dir'[job'.path]] = data[dir[job.path]] /\ dir'[job'.path] = dir[job.path]
      BY <1>1, <2>2
    <3> QED
      BY <1>1, <2>3, <3>1 DEF Intact
  <2> QED
    BY <2>2, <2>3, <2>4
<1>8. \A l \in job'.inserted : stored'[l] > 0
  BY <1>1 DEF Inv, WorkInv, InsertedInv
<1>9. NewInv'
  <2>1. \A l : New(l)' <=> New(l)
    BY <1>1 DEF New
  <2>3. \A m \in DOMAIN job.buf : Ends(job.buf[m]) =>
           /\ New(job.buf[m].line)'
           /\ \A n \in DOMAIN job.buf :
                 Ends(job.buf[n]) /\ job.buf[n].line = job.buf[m].line => n = m
    BY <1>1, <2>1 DEF Inv, WorkInv, NewInv
  <2>4. ASSUME pc = "read", NEW k \in DOMAIN data'[job.fd], k > job.pos,
               Ends(data'[job.fd][k])
        PROVE  /\ data'[job.fd][k].line \notin job'.inserted
               /\ stored'[data'[job.fd][k].line] = 0 \/ data'[job.fd][k].line \in excused'
               /\ \A m \in DOMAIN job.buf :
                     Ends(job.buf[m]) => job.buf[m].line # data'[job.fd][k].line
    <3>1. data'[job.fd] = data[job.fd]
      BY <2>4
    <3> QED
      BY <1>1, <2>4, <3>1 DEF Inv, WorkInv, NewInv, New
  <2> QED
    BY <1>1, <2>3, <2>4 DEF NewInv, New
<1> QED
  BY <1>3, <1>4, <1>6, <1>7, <1>8, <1>9 DEF Inv, ReingestNeedsExcuse

\* To the watcher a rotation makes names go and files empty: what a rotated
\* file is renamed or copied to is none of the watcher's business.
LEMMA RotateEffect ==
    ASSUME Inv, NEW q \in Rotating, Rotate(q, Held)
    PROVE  /\ \A p, r \in Paths : dir'[p] # NoInode /\ dir'[p] = dir'[r] => p = r
           /\ \A p \in Rotating : dir'[ArchiveName[p]] \notin Held
           /\ \A p \in Paths : Visible(p) => dir'[p] \in {dir[p], NoInode}
           /\ \A i \in Watched : data'[i] \in {data[i], <<>>}
           /\ written' = written
<1>1. /\ q \in Paths /\ RotatedName[q] \in Paths /\ ArchiveName[q] \in Paths
      /\ ~Visible(RotatedName[q]) /\ ~Visible(ArchiveName[q])
      /\ \A p \in Rotating : ArchiveName[p] # RotatedName[q] /\ ArchiveName[p] \in Paths
  BY DEF Inv, LiveLogsOnly
<1>2. /\ dir \in [Paths -> Inodes \cup {NoInode}] /\ data \in [Inodes -> Seq(Cell)]
      /\ \A p, r \in Paths : dir[p] # NoInode /\ dir[p] = dir[r] => p = r
      /\ \A p \in Rotating : dir[ArchiveName[p]] \notin Held
      /\ NoInode \notin Held
  BY Types DEF Inv, FilesInv, ApartInv, HeldInv, Exists, Held
<1>3. ASSUME NEW i \in Free(Held)
      PROVE  /\ i \in Inodes /\ i # NoInode /\ i \notin Watched /\ i \notin Held
             /\ \A p \in Paths : dir[p] # i
  BY DEF Free, Watched
<1>4. CASE Rename(q)
  <2>1. /\ dir' = [dir EXCEPT ![q] = NoInode, ![RotatedName[q]] = dir[q]]
        /\ data' = data /\ written' = written
    BY <1>4 DEF Rename
  <2>2. \A p \in Paths : dir'[p] = IF p = RotatedName[q] THEN dir[q]
                                   ELSE IF p = q THEN NoInode ELSE dir[p]
    BY <1>1, <1>2, <2>1
  <2>3. \A p, r \in Paths : dir'[p] # NoInode /\ dir'[p] = dir'[r] => p = r
    BY <1>1, <1>2, <2>2
  <2>4. \A p \in Rotating : dir'[ArchiveName[p]] \notin Held
    BY <1>1, <1>2, <2>2
  <2>5. \A p \in Paths : Visible(p) => dir'[p] \in {dir[p], NoInode}
    BY <1>1, <2>2
  <2> QED
    BY <2>1, <2>3, <2>4, <2>5
<1>5. CASE CopyTruncate(q, Held)
  <2>1. PICK i \in Free(Held) :
           /\ dir' = [dir EXCEPT ![RotatedName[q]] = i]
           /\ data' = [data EXCEPT ![i] = data[dir[q]], ![dir[q]] = <<>>]
    BY <1>5 DEF CopyTruncate
  <2>2. \A p \in Paths : dir'[p] = IF p = RotatedName[q] THEN i ELSE dir[p]
    BY <1>1, <1>2, <2>1
  <2>3. \A j \in Watched : data'[j] \in {data[j], <<>>}
    BY <1>2, <1>3, <2>1 DEF Watched
  <2>4. \A p, r \in Paths : dir'[p] # NoInode /\ dir'[p] = dir'[r] => p = r
    BY <1>2, <1>3, <2>2
  <2>5. \A p \in Rotating : dir'[ArchiveName[p]] \notin Held
    BY <1>1, <1>2, <2>2
  <2>6. \A p \in Paths : Visible(p) => dir'[p] \in {dir[p], NoInode}
    BY <1>1, <2>2
  <2>7. written' = written
    BY <1>5 DEF CopyTruncate
  <2> QED
    BY <2>3, <2>4, <2>5, <2>6, <2>7
<1>6. CASE StartCompress(q, Held)
  <2>1. PICK i \in Free(Held) :
           /\ dir' = [dir EXCEPT ![ArchiveName[q]] = i]
           /\ data' = [data EXCEPT ![i] = <<>>]
    BY <1>6 DEF StartCompress
  <2>2. \A p \in Paths : dir'[p] = IF p = ArchiveName[q] THEN i ELSE dir[p]
    BY <1>1, <1>2, <2>1
  <2>3. \A j \in Watched : data'[j] \in {data[j], <<>>}
    BY <1>2, <1>3, <2>1 DEF Watched
  <2> QED
    BY <1>1, <1>2, <1>3, <1>6, <2>2, <2>3 DEF StartCompress
<1>7. CASE CompressCell(q)
  <2>1. dir[ArchiveName[q]] # NoInode /\ dir[RotatedName[q]] # NoInode
    BY <1>7 DEF CompressCell, Compressing, Exists
  <2>2. dir[ArchiveName[q]] \notin Watched
    <3>1. \A p \in Paths : Visible(p) => dir[p] # dir[ArchiveName[q]]
      BY <1>1, <1>2, <2>1
    <3> QED
      BY <1>2, <3>1 DEF Watched
  <2>3. /\ \A j \in Inodes : j # dir[ArchiveName[q]] => data'[j] = data[j]
        /\ \A p \in Paths : dir'[p] = dir[p] \/ (p = RotatedName[q] /\ dir'[p] = NoInode)
        /\ written' = written
    BY <1>2, <1>7 DEF CompressCell
  <2> QED
    BY <1>1, <1>2, <2>2, <2>3 DEF Watched
<1>8. CASE PublishArchive(q, Held)
  <2>1. PICK i \in Free(Held) :
           /\ dir' = [dir EXCEPT ![ArchiveName[q]] = i, ![RotatedName[q]] = NoInode]
           /\ data' = [data EXCEPT ![i] = Append(data[dir[RotatedName[q]]], Trailer)]
    BY <1>8 DEF PublishArchive
  <2>2. \A p \in Paths : dir'[p] = IF p = RotatedName[q] THEN NoInode
                                   ELSE IF p = ArchiveName[q] THEN i ELSE dir[p]
    BY <1>1, <1>2, <2>1
  <2>3. \A j \in Watched : data'[j] \in {data[j], <<>>}
    BY <1>2, <1>3, <2>1 DEF Watched
  <2>4. \A p, r \in Paths : dir'[p] # NoInode /\ dir'[p] = dir'[r] => p = r
    BY <1>2, <1>3, <2>2
  <2>5. \A p \in Rotating : dir'[ArchiveName[p]] \notin Held
    <3> TAKE p \in Rotating
    <3>1. dir'[ArchiveName[p]] \in {i, dir[ArchiveName[p]]}
      BY <1>1, <2>2
    <3> QED
      BY <1>2, <1>3, <3>1
  <2>6. \A p \in Paths : Visible(p) => dir'[p] \in {dir[p], NoInode}
    BY <1>1, <2>2
  <2>7. written' = written
    BY <1>8 DEF PublishArchive
  <2> QED
    BY <2>3, <2>4, <2>5, <2>6, <2>7
<1> QED
  BY <1>4, <1>5, <1>6, <1>7, <1>8 DEF Rotate

\* A rotation excuses what handleFile is about.
LEMMA RotateStep ==
    ASSUME Inv, RotatorStep, TypeOK'
    PROVE  FilesInv' /\ WorkInv' /\ ReingestNeedsExcuse'
<1>1. PICK q \in Rotating : Rotate(q, Held)
  BY DEF RotatorStep
<1>2. /\ \A p, r \in Paths : dir'[p] # NoInode /\ dir'[p] = dir'[r] => p = r
      /\ \A p \in Rotating : dir'[ArchiveName[p]] \notin Held
      /\ \A p \in Paths : Visible(p) => dir'[p] \in {dir[p], NoInode}
      /\ \A i \in Watched : data'[i] \in {data[i], <<>>}
      /\ written' = written
  BY <1>1, RotateEffect
<1>3. /\ UNCHANGED <<stored, fileState, excused, pc, todo>>
      /\ job' = [job EXCEPT !.overlapped = Handling]
  BY DEF RotatorStep, dbVars, auxVars
<1>4. /\ job'.path = job.path /\ job'.fd = job.fd /\ job'.inserted = job.inserted
      /\ job'.overlapped = Handling /\ job' = [job EXCEPT !.overlapped = job'.overlapped]
  BY <1>3, Types DEF Inv, Job
<1>5. Watched' \subseteq Watched /\ DOMAIN <<>> = {}
  <2>1. Held' = Held /\ NoInode \notin Inodes
    BY <1>4 DEF Held
  <2> QED
    BY <1>2, <2>1 DEF Watched
<1>6. \A i \in Watched : \A k \in DOMAIN data'[i] : data'[i] = data[i]
  BY <1>2, <1>5
<1>7. ASSUME NEW p \in Paths, Visible(p), Exists(p)', NEW k \in DOMAIN data'[dir'[p]]
      PROVE  Exists(p) /\ dir'[p] = dir[p] /\ data'[dir'[p]] = data[dir[p]]
  <2>1. Exists(p) /\ dir'[p] = dir[p]
    BY <1>2, <1>7 DEF Exists
  <2>2. dir[p] \in Watched
    BY <1>7, <2>1, Types DEF Inv, Watched, Exists
  <2> QED
    BY <1>6, <1>7, <2>1, <2>2
<1>8. pc = "read" => \A k \in DOMAIN data'[job.fd] : data'[job.fd] = data[job.fd]
  <2>1. pc = "read" => job.fd \in Watched
    BY Types DEF Inv, Watched, Held
  <2> QED
    BY <1>6, <2>1
<1>9. /\ FilesInv' /\ StageInv' /\ RowInv' /\ NewInv' /\ ReingestNeedsExcuse'
      /\ (Handling /\ ~job'.overlapped => Intact') => IntactInv'
      /\ \A l \in job'.inserted : stored'[l] > 0
  BY <1>2, <1>3, <1>4, <1>5, <1>6, <1>7, <1>8, KeptStep
<1>10. InsertedInv'
  <2>1. ~Handling => job.inserted = {}
    BY DEF Inv, WorkInv, StageInv, Handling
  <2> QED
    BY <1>4, <1>9, <2>1 DEF InsertedInv
<1> QED
  BY <1>4, <1>9, <1>10 DEF WorkInv

-----------------------------------------------------------------------------
(* Steps of the servers.                                                   *)

\* A server opens an empty log that the watcher has not seen.
LEMMA OpenLogStep ==
    ASSUME Inv, TypeOK', NEW q \in Live, OpenLog(q, Held),
           UNCHANGED <<dbVars, workerVars, auxVars>>
    PROVE  FilesInv' /\ WorkInv' /\ ReingestNeedsExcuse'
<1>1. PICK new \in Free(Held) :
         dir' = [dir EXCEPT ![q] = new] /\ data' = [data EXCEPT ![new] = <<>>]
  BY DEF OpenLog
<1>2. /\ q \in Paths /\ dir[q] = NoInode /\ written' = written
      /\ dir \in [Paths -> Inodes \cup {NoInode}] /\ data \in [Inodes -> Seq(Cell)]
      /\ UNCHANGED <<stored, fileState, excused, pc, todo, job>>
      /\ \A p \in Rotating : ArchiveName[p] \in Paths
  BY Types DEF Inv, OpenLog, Exists, dbVars, workerVars, auxVars
<1>3. /\ new \in Inodes /\ new # NoInode /\ new \notin Held
      /\ \A p \in Paths : dir[p] # new
  BY DEF Free
<1>4. /\ \A p \in Paths : dir'[p] = IF p = q THEN new ELSE dir[p]
      /\ \A i \in Inodes : i # new => data'[i] = data[i]
      /\ data'[new] = <<>> /\ DOMAIN data'[new] = {}
  BY <1>1, <1>2, <1>3
<1>5. \A p, r \in Paths : dir'[p] # NoInode /\ dir'[p] = dir'[r] => p = r
  BY <1>3, <1>4 DEF Inv, FilesInv, ApartInv, Exists
<1>6. \A p \in Rotating : dir'[ArchiveName[p]] \notin Held
  BY <1>2, <1>3, <1>4 DEF Inv, FilesInv, HeldInv
<1>7. \A i \in Watched' : \A k \in DOMAIN data'[i] : i \in Watched /\ data'[i] = data[i]
  <2>1. \A i \in Watched' : i \in Inodes /\ (i = new \/ i \in Watched)
    BY <1>2, <1>4 DEF Watched, Held
  <2> QED
    BY <1>4, <2>1
<1>8. \A p \in Paths : Visible(p) /\ Exists(p)' => \A k \in DOMAIN data'[dir'[p]] :
         Exists(p) /\ dir'[p] = dir[p] /\ data'[dir'[p]] = data[dir[p]]
  <2> SUFFICES ASSUME NEW p \in Paths, Exists(p)', NEW k \in DOMAIN data'[dir'[p]]
               PROVE  Exists(p) /\ dir'[p] = dir[p] /\ data'[dir'[p]] = data[dir[p]]
    OBVIOUS
  <2>1. p # q
    BY <1>4
  <2>2. dir'[p] = dir[p] /\ dir[p] # NoInode /\ dir[p] \in Inodes /\ dir[p] # new
    BY <1>2, <1>3, <1>4, <2>1 DEF Exists
  <2> QED
    BY <1>4, <2>2 DEF Exists
<1>9. pc = "read" => \A k \in DOMAIN data'[job.fd] : data'[job.fd] = data[job.fd]
  BY <1>3, <1>4, Types DEF Inv, Held
<1>10. job' = [job EXCEPT !.overlapped = job'.overlapped]
  BY <1>2, Types DEF Inv, Job
<1>11. /\ FilesInv' /\ StageInv' /\ RowInv' /\ NewInv' /\ ReingestNeedsExcuse'
       /\ (Handling /\ ~job'.overlapped => Intact') => IntactInv'
       /\ \A l \in job'.inserted : stored'[l] > 0
  BY <1>2, <1>5, <1>6, <1>7, <1>8, <1>9, <1>10, KeptStep
<1>12. Handling /\ ~job'.overlapped => Intact'
  <2> SUFFICES ASSUME Handling, ~job.overlapped PROVE Intact'
    BY <1>2
  <2>1. Intact /\ job.path \in Paths /\ dir[job.path] # NoInode
    BY Types DEF Inv, WorkInv, IntactInv, Intact, Job
  <2>2. dir'[job.path] = dir[job.path] /\ data'[dir[job.path]] = data[dir[job.path]]
    BY <1>2, <1>3, <1>4, <2>1
  <2> QED
    BY <1>2, <2>1, <2>2 DEF Intact
<1>13. InsertedInv'
  <2>1. ASSUME ~job.overlapped, NEW p \in Paths, Visible(p), Exists(p)',
               NEW k \in DOMAIN data'[dir'[p]], Ends(data'[dir'[p]][k]),
               data'[dir'[p]][k].line \in job.inserted
        PROVE  p = job.path /\ k <= IF pc = "read" THEN job.pos ELSE job.offset
    <3>1. Exists(p) /\ dir'[p] = dir[p] /\ data'[dir'[p]] = data[dir[p]]
      BY <1>8, <2>1
    <3> QED
      BY <2>1, <3>1 DEF Inv, WorkInv, InsertedInv
  <2> QED
    BY <1>2, <1>11, <2>1 DEF InsertedInv
<1> QED
  BY <1>11, <1>12, <1>13 DEF WorkInv

\* What a server writes is new to the watcher.
LEMMA WriteStep ==
    ASSUME Inv, NEW q \in Live, WriteLine(q) \/ WriteHead(q) \/ WriteTail(q),
           UNCHANGED <<dbVars, workerVars, auxVars>>
    PROVE  FilesInv' /\ WorkInv' /\ ReingestNeedsExcuse'
<1>1. PICK i \in Inodes, c \in Cell :
         /\ c # Trailer /\ dir' = dir
         /\ data' = [data EXCEPT ![i] = Append(data[i], c)]
         /\ \/ ~HalfWritten(i) /\ c.line = written + 1 /\ written' = written + 1
            \/ /\ HalfWritten(i) /\ written' = written
               /\ c.part = "tail" /\ c.line = data[i][Len(data[i])].line
  BY WriteEffect DEF Inv, TypeOK
<1>2. /\ UNCHANGED <<dir, stored, fileState, excused, pc, todo, job>>
      /\ data \in [Inodes -> Seq(Cell)] /\ written \in Nat /\ written' >= written
      /\ data[i] \in Seq(Cell) /\ Len(data[i]) \in Nat /\ c.line \in Lines
  <2>1. c.line \in Lines
    BY <1>1 DEF Cell
  <2> QED
    BY <1>1, <2>1, Types DEF Inv, dbVars, workerVars, auxVars
<1> DEFINE n == Len(data[i]) + 1
<1>3. /\ \A j \in Inodes : j # i => data'[j] = data[j]
      /\ data'[i] = Append(data[i], c) /\ Len(data'[i]) = n
      /\ DOMAIN data'[i] = DOMAIN data[i] \cup {n} /\ DOMAIN data[i] = 1..Len(data[i])
      /\ \A k \in DOMAIN data[i] : data'[i][k] = data[i][k]
      /\ data'[i][n] = c /\ n \in Nat /\ n \notin DOMAIN data[i]
  <2>1. data'[i] = Append(data[i], c) /\ \A j \in Inodes : j # i => data'[j] = data[j]
    BY <1>1, <1>2
  <2>2. /\ Len(Append(data[i], c)) = n /\ Append(data[i], c)[n] = c
        /\ \A k \in 1..Len(data[i]) : Append(data[i], c)[k] = data[i][k]
        /\ DOMAIN Append(data[i], c) = 1..n /\ DOMAIN data[i] = 1..Len(data[i])
    BY <1>2, AppendProperties
  <2>3. n \in Nat /\ 1..n = 1..Len(data[i]) \cup {n} /\ n \notin 1..Len(data[i])
    BY <1>2
  <2> QED
    BY <2>1, <2>2, <2>3
<1> HIDE DEF n
<1>4. Held' = Held /\ Watched' = Watched /\ Watched \subseteq Inodes
  BY <1>2 DEF Held, Watched
<1>5. /\ \A j \in Watched : \A k \in DOMAIN data[j] :
            data[j][k] # Trailer /\ data[j][k].line <= written
      /\ \A m \in DOMAIN job.buf : job.buf[m] # Trailer /\ job.buf[m].line <= written
      /\ \A l \in Lines : stored[l] > 0 => l <= written
  BY DEF Inv, FilesInv, WrittenInv
<1>6. ASSUME i \in Watched
      PROVE  /\ stored[c.line] = 0
             /\ \A m \in DOMAIN job.buf : Ends(job.buf[m]) => job.buf[m].line # c.line
             /\ \A j \in Watched : \A k \in DOMAIN data[j] :
                   data[j][k].line = c.line => ~Ends(data[j][k])
             /\ \A j \in Watched : \A k \in DOMAIN data[j] :
                   data[j][k].line = c.line => j = i /\ HalfWritten(i)
  <2>1. CASE c.line = written + 1
    <3>1. \A j \in Watched : \A k \in DOMAIN data[j] : data[j][k].line # c.line
      BY <1>2, <1>5, <2>1
    <3>2. \A m \in DOMAIN job.buf : job.buf[m].line # c.line
      BY <1>2, <1>5, <2>1
    <3>3. stored[c.line] \in Nat /\ ~(stored[c.line] > 0)
      BY <1>2, <1>5, <2>1, Types DEF Inv
    <3> QED
      BY <3>1, <3>2, <3>3
  <2>2. CASE HalfWritten(i) /\ c.line = data[i][Len(data[i])].line
    <3>1. /\ stored[c.line] = 0
          /\ \A j \in Watched : \A m \in DOMAIN data[j] :
                data[j][m].line = c.line => j = i /\ m = Len(data[i])
          /\ \A m \in DOMAIN job.buf : Ends(job.buf[m]) => job.buf[m].line # c.line
      BY <1>6, <2>2 DEF Inv, FilesInv, HalfInv
    <3>2. ~Ends(data[i][Len(data[i])])
      BY <2>2 DEF HalfWritten, Ends
    <3> QED
      BY <2>2, <3>1, <3>2
  <2> QED
    BY <1>1, <2>1, <2>2
<1>7. ASSUME NEW j \in Watched, NEW k \in DOMAIN data'[j]
      PROVE  \/ k \in DOMAIN data[j] /\ data'[j][k] = data[j][k]
             \/ j = i /\ k = n /\ data'[j][k] = c
  BY <1>3, <1>4, <1>7
<1>8. FilesInv'
  <2>1. ApartInv' /\ HeldInv'
    BY <1>2, <1>4 DEF Inv, FilesInv, ApartInv, HeldInv, Exists
  <2>2. WrittenInv'
    <3>1. i \in Watched => c.line <= written'
      <4>1. CASE c.line = written + 1 /\ written' = written + 1
        BY <1>2, <4>1
      <4>2. CASE HalfWritten(i) /\ c.line = data[i][Len(data[i])].line /\ written' = written
        <5>1. Len(data[i]) \in DOMAIN data[i]
          BY <1>2, <4>2 DEF HalfWritten
        <5> QED
          BY <1>5, <4>2, <5>1
      <4> QED
        BY <1>1, <4>1, <4>2
    <3>2. \A l \in Nat : l <= written => l <= written'
      BY <1>1, <1>2
    <3>3. ASSUME NEW j \in Watched, NEW k \in DOMAIN data'[j]
          PROVE  data'[j][k] # Trailer /\ data'[j][k].line <= written'
      <4>1. CASE k \in DOMAIN data[j] /\ data'[j][k] = data[j][k]
        <5>1. data[j][k].line \in Nat
          <6>1. data[j] \in Seq(Cell)
            BY <1>2, <1>4
          <6>2. data[j][k] \in Cell
            BY <4>1, <6>1
          <6> QED
            BY <6>2 DEF Cell, Trailer, Lines
        <5> QED
          BY <1>5, <3>2, <4>1, <5>1
      <4>2. CASE j = i /\ data'[j][k] = c
        BY <1>1, <3>1, <4>2
      <4> QED
        BY <1>7, <4>1, <4>2
    <3>4. \A m \in DOMAIN job.buf : job.buf[m] # Trailer /\ job.buf[m].line <= written'
      <4> TAKE m \in DOMAIN job.buf
      <4>1. job.buf[m] \in Cell
        BY Types DEF Inv, Job
      <4>2. job.buf[m].line \in Nat
        BY <4>1 DEF Cell, Trailer, Lines
      <4> QED
        BY <1>5, <3>2, <4>2
    <3>5. \A l \in Lines : stored[l] > 0 => l <= written'
      BY <1>5, <3>2 DEF Lines
    <3> QED
      BY <1>2, <1>4, <3>3, <3>4, <3>5 DEF WrittenInv
  <2>3. OnceInv'
    <3> SUFFICES ASSUME NEW j \in Watched, NEW r \in Watched,
                        NEW k \in DOMAIN data'[j], NEW m \in DOMAIN data'[r],
                        Ends(data'[j][k]), Ends(data'[r][m]),
                        data'[j][k].line = data'[r][m].line
                 PROVE  j = r /\ k = m
      BY <1>4 DEF OnceInv
    <3>1. CASE k \in DOMAIN data[j] /\ data'[j][k] = data[j][k]
               /\ m \in DOMAIN data[r] /\ data'[r][m] = data[r][m]
      BY <3>1 DEF Inv, FilesInv, OnceInv
    <3>2. CASE j = i /\ k = n /\ data'[j][k] = c
               /\ m \in DOMAIN data[r] /\ data'[r][m] = data[r][m]
      BY <1>6, <3>2
    <3>3. CASE k \in DOMAIN data[j] /\ data'[j][k] = data[j][k]
               /\ r = i /\ m = n /\ data'[r][m] = c
      BY <1>6, <3>3
    <3> QED
      BY <1>7, <3>1, <3>2, <3>3
  <2>4. HalfInv'
    <3> SUFFICES ASSUME NEW j \in Watched, HalfWritten(j)',
                        NEW l, l = data'[j][Len(data'[j])].line
                 PROVE  /\ stored[l] = 0
                        /\ \A r \in Watched : \A m \in DOMAIN data'[r] :
                              data'[r][m].line = l => r = j /\ m = Len(data'[j])
                        /\ \A m \in DOMAIN job.buf : Ends(job.buf[m]) => job.buf[m].line # l
      BY <1>2, <1>4 DEF HalfInv, HalfWritten
    <3>1. CASE j = i
      <4>1. /\ l = c.line /\ ~HalfWritten(i) /\ c.part = "head"
        BY <1>1, <1>3, <3>1 DEF HalfWritten
      <4>2. ASSUME NEW r \in Watched, NEW m \in DOMAIN data'[r], data'[r][m].line = l
            PROVE  r = j /\ m = Len(data'[j])
        BY <1>3, <1>6, <1>7, <3>1, <4>1, <4>2
      <4> QED
        BY <1>6, <3>1, <4>1, <4>2
    <3>2. CASE j # i
      <4>1. data'[j] = data[j] /\ HalfWritten(j)
        BY <1>3, <1>4, <3>2 DEF HalfWritten
      <4>2. /\ stored[l] = 0
            /\ \A r \in Watched : \A m \in DOMAIN data[r] :
                  data[r][m].line = l => r = j /\ m = Len(data[j])
            /\ \A m \in DOMAIN job.buf : Ends(job.buf[m]) => job.buf[m].line # l
        BY <4>1 DEF Inv, FilesInv, HalfInv
      <4>3. i \in Watched => c.line # l
        <5>1. Len(data[j]) \in DOMAIN data[j]
          <6>1. data[j] \in Seq(Cell) /\ data[j] # <<>>
            BY <1>2, <1>4, <4>1 DEF HalfWritten
          <6> QED
            BY <6>1
        <5> QED
          BY <1>6, <3>2, <4>1, <5>1
      <4>4. ASSUME NEW r \in Watched, NEW m \in DOMAIN data'[r], data'[r][m].line = l
            PROVE  r = j /\ m = Len(data'[j])
        BY <1>7, <4>1, <4>2, <4>3, <4>4
      <4> QED
        BY <4>2, <4>4
    <3> QED
      BY <3>1, <3>2
  <2> QED
    BY <2>1, <2>2, <2>3, <2>4 DEF FilesInv
<1>9. StageInv' /\ ReingestNeedsExcuse'
  BY <1>2 DEF Inv, WorkInv, StageInv, Handling, ReingestNeedsExcuse
<1>10. ASSUME NEW p \in Paths, Visible(p), Exists(p)
       PROVE  dir[p] \in Watched /\ Settled(p)' \subseteq Settled(p)
  <2>1. dir[p] \in Watched
    BY <1>10, Types DEF Inv, Watched, Exists
  <2> SUFFICES ASSUME NEW k \in Settled(p)' PROVE k \in Settled(p)
    BY <2>1
  <2>2. /\ k \in DOMAIN data'[dir[p]] /\ Ends(data'[dir[p]][k])
        /\ stored[data'[dir[p]][k].line] > 0
        /\ data'[dir[p]][k].line \notin excused \cup job.inserted
    BY <1>2 DEF Settled
  <2>3. k \in DOMAIN data[dir[p]] /\ data'[dir[p]][k] = data[dir[p]][k]
    BY <1>6, <1>7, <2>1, <2>2
  <2> QED
    BY <2>2, <2>3 DEF Settled
<1>11. ASSUME NEW p \in Paths, Visible(p), Exists(p), NEW k \in Settled(p)
       PROVE  /\ data[dir[p]] \in Seq(Cell)
              /\ Fingerprint(data'[dir[p]]) = Fingerprint(data[dir[p]])
              /\ Len(data[dir[p]]) \in Nat /\ Len(data'[dir[p]]) \in Nat
              /\ Len(data'[dir[p]]) >= Len(data[dir[p]])
  <2>1. dir[p] \in Inodes /\ data[dir[p]] \in Seq(Cell) /\ k \in DOMAIN data[dir[p]]
    BY <1>2, <1>4, <1>10, <1>11 DEF Settled
  <2>2. Len(data[dir[p]]) \in Nat /\ data[dir[p]] # <<>> /\ k \in Int /\ k >= 1
    BY <2>1
  <2>3. CASE dir[p] = i
    <3>4. k <= NextOffset(p) /\ Guarded(fileState[p])
      BY <1>11 DEF Inv, WorkInv, RowInv
    <3>5. ~Short(Fingerprint(data[i]))
      BY <2>2, <2>3, <3>4, Types, ResumeCompares DEF Inv, NextOffset
    <3>1. Fingerprint(Append(data[i], c)) = Fingerprint(data[i])
      BY <1>2, <3>5, FingerprintStays
    <3>2. Len(data'[i]) \in Nat /\ Len(data'[i]) >= Len(data[i])
      BY <1>2, <1>3 DEF n
    <3>3. data'[dir[p]] = Append(data[i], c) /\ data'[dir[p]] = data'[i]
      BY <1>3, <2>3
    <3> QED
      BY <2>1, <2>2, <2>3, <3>1, <3>2, <3>3
  <2>4. CASE dir[p] # i
    BY <1>3, <2>1, <2>2, <2>4
  <2> QED
    BY <2>3, <2>4
<1>12. RowInv'
  <2> SUFFICES ASSUME NEW p \in Paths, Visible(p), Exists(p), NEW k \in Settled(p)'
               PROVE  k <= NextOffset(p)' /\ Guarded(fileState[p])
    BY <1>2 DEF RowInv, Guarded, Exists
  <2> DEFINE a == NextOffset(p)
             b == Resume(fileState[p], dir[p], Len(data'[dir[p]]), Fingerprint(data[dir[p]]))
  <2>1. k \in Settled(p) /\ k <= a /\ k \in Int /\ Guarded(fileState[p])
    <3>1. k \in Settled(p) /\ k \in DOMAIN data[dir[p]]
      BY <1>10 DEF Settled
    <3> QED
      BY <1>11, <3>1 DEF Inv, WorkInv, RowInv
  <2>2. a \in Nat /\ a <= b
    BY <1>11, <2>1, Types, ResumeBounds DEF Inv, NextOffset
  <2>3. b \in Nat /\ NextOffset(p)' = b
    <3>1. NextOffset(p)' = Resume(fileState[p], dir[p], Len(data'[dir[p]]),
                                  Fingerprint(data'[dir[p]]))
      BY <1>2 DEF NextOffset
    <3>2. NextOffset(p)' = b
      BY <1>11, <2>1, <3>1
    <3>3. b \in Nat
      <4>1. fileState[p] \in Row \cup {NoRow} /\ Len(data'[dir[p]]) \in Nat
        BY <1>11, <2>1, Types DEF Inv
      <4> QED
        BY <4>1, ResumeType
    <3> QED
      BY <3>2, <3>3
  <2> HIDE DEF a, b
  <2> QED
    BY <2>1, <2>2, <2>3
<1>13. Handling /\ Intact => Intact'
  <2> SUFFICES ASSUME Handling, Intact PROVE Intact'
    OBVIOUS
  <2> DEFINE s == data[dir[job.path]]
             t == data'[dir[job.path]]
  <2>1. /\ dir[job.path] = job.inode /\ job.inode \in Inodes /\ s \in Seq(Cell)
        /\ job \in Job
    BY <1>2, Types DEF Inv, Intact, Job
  <2>2. /\ Len(s) \in Nat /\ Len(t) \in Nat /\ Len(s) <= Len(t)
        /\ \A k \in 1..Len(s) : t[k] = s[k]
        /\ ~Short(Fingerprint(s)) => Fingerprint(s) = Fingerprint(t)
    <3>1. CASE dir[job.path] = i
      <4>1. ~Short(Fingerprint(data[i])) =>
               Fingerprint(data[i]) = Fingerprint(Append(data[i], c))
        BY <1>2, FingerprintStays
      <4>2. Len(data'[i]) \in Nat /\ Len(data[i]) <= Len(data'[i])
        BY <1>2, <1>3 DEF n
      <4> QED
        BY <1>2, <1>3, <3>1, <4>1, <4>2
    <3>2. CASE dir[job.path] # i
      BY <1>3, <2>1, <3>2
    <3> QED
      BY <3>1, <3>2
  <2>3. job.size \in Nat /\ job.offset \in Nat /\ job.pos \in Nat /\ job.buf \in Seq(Cell)
    BY <2>1 DEF Job
  <2>4. /\ dir[job.path] = job.inode /\ job.size <= Len(s)
        /\ pc # "fingerprint" =>
              /\ job.offset <= Len(s)
              /\ ~Short(job.fingerprint) => job.fingerprint = Fingerprint(s)
        /\ pc = "read" =>
              /\ job.fd = job.inode
              /\ job.pos <= Len(s) /\ job.offset + Len(job.buf) <= job.pos
              /\ \A m \in DOMAIN job.buf : job.buf[m] = s[job.pos - Len(job.buf) + m]
    BY DEF Intact
  <2> HIDE DEF s, t
  <2>5. job.size <= Len(t) /\ (job.offset <= Len(s) => job.offset <= Len(t))
        /\ (job.pos <= Len(s) => job.pos <= Len(t))
    BY <2>2, <2>3, <2>4
  <2>6. pc = "read" => \A m \in DOMAIN job.buf : job.buf[m] = t[job.pos - Len(job.buf) + m]
    <3> SUFFICES ASSUME pc = "read", NEW m \in DOMAIN job.buf
                 PROVE  job.buf[m] = t[job.pos - Len(job.buf) + m]
      OBVIOUS
    <3>1. /\ m \in Nat /\ 1 <= m /\ m <= Len(job.buf) /\ Len(job.buf) \in Nat
          /\ job.pos <= Len(s) /\ job.offset + Len(job.buf) <= job.pos
          /\ job.buf[m] = s[job.pos - Len(job.buf) + m]
      BY <2>3, <2>4
    <3>2. job.pos - Len(job.buf) + m \in 1..Len(s)
      <4>1. /\ job.pos \in Int /\ Len(job.buf) \in Int /\ m \in Int /\ job.offset \in Nat
            /\ Len(s) \in Int
        BY <2>2, <2>3, <3>1
      <4>2. Len(job.buf) <= job.pos
        BY <2>3, <3>1
      <4>3. \A a, b, d, e \in Int : 1 <= e /\ e <= b /\ b <= a /\ a <= d => a - b + e \in 1..d
        OBVIOUS
      <4> QED
        BY <3>1, <4>1, <4>2, <4>3
    <3> QED
      BY <2>2, <3>1, <3>2
  <2>7. ~Short(job.fingerprint) /\ job.fingerprint = Fingerprint(s) =>
           job.fingerprint = Fingerprint(t)
    BY <2>2
  <2>8. data'[dir'[job'.path]] = t
    BY <1>2 DEF t
  <2> QED
    BY <1>2, <2>4, <2>5, <2>6, <2>7, <2>8 DEF Intact
<1>14. IntactInv'
  <2>1. Handling /\ ~job.overlapped => Intact'
    BY <1>13 DEF Inv, WorkInv, IntactInv
  <2>2. ASSUME Handling, Exists(job.path), NEW k \in Settled(job.path)'
        PROVE  /\ Intact'
               /\ k <= IF pc = "fingerprint"
                       THEN Resume(job.prev, job.inode, job.size,
                                   Fingerprint(data'[dir[job.path]]))
                       ELSE job.offset
               /\ IF pc = "fingerprint" THEN Guarded(job.prev) ELSE ~Short(job.fingerprint)
    <3>1. job.path \in Paths /\ Visible(job.path)
      BY <2>2, Types DEF Inv, WorkInv, StageInv, Job
    <3>2. k \in Settled(job.path)
      BY <1>2, <1>10, <2>2, <3>1
    <3>3. Fingerprint(data'[dir[job.path]]) = Fingerprint(data[dir[job.path]])
      BY <1>11, <2>2, <3>1, <3>2
    <3>4. /\ Intact
          /\ k <= IF pc = "fingerprint"
                  THEN Resume(job.prev, job.inode, job.size, Fingerprint(data[dir[job.path]]))
                  ELSE job.offset
          /\ IF pc = "fingerprint" THEN Guarded(job.prev) ELSE ~Short(job.fingerprint)
      BY <2>2, <3>2 DEF Inv, WorkInv, IntactInv
    <3> QED
      BY <1>13, <2>2, <3>3, <3>4
  <2> QED
    BY <1>2, <2>1, <2>2 DEF IntactInv, Handling, Exists
<1>15. \A l \in job.inserted : stored[l] > 0
  BY DEF Inv, WorkInv, InsertedInv
<1>16. InsertedInv'
  <2>1. ASSUME ~job.overlapped, NEW p \in Paths, Visible(p), Exists(p),
               NEW k \in DOMAIN data'[dir[p]], Ends(data'[dir[p]][k]),
               data'[dir[p]][k].line \in job.inserted
        PROVE  p = job.path /\ k <= IF pc = "read" THEN job.pos ELSE job.offset
    <3>1. k \in DOMAIN data[dir[p]] /\ data'[dir[p]][k] = data[dir[p]][k]
      BY <1>6, <1>7, <1>10, <1>15, <2>1
    <3> QED
      BY <2>1, <3>1 DEF Inv, WorkInv, InsertedInv
  <2> QED
    BY <1>2, <1>15, <2>1 DEF InsertedInv, Exists
<1>17. NewInv'
  <2>1. pc = "read" => job.fd \in Watched
    BY Types DEF Inv, Watched, Held
  <2>2. ASSUME pc = "read", NEW k \in DOMAIN data'[job.fd], k > job.pos,
               Ends(data'[job.fd][k])
        PROVE  /\ New(data'[job.fd][k].line)
               /\ \A m \in DOMAIN job.buf :
                     Ends(job.buf[m]) => job.buf[m].line # data'[job.fd][k].line
    <3>1. CASE k \in DOMAIN data[job.fd] /\ data'[job.fd][k] = data[job.fd][k]
      BY <2>2, <3>1 DEF Inv, WorkInv, NewInv
    <3>2. CASE job.fd = i /\ data'[job.fd][k] = c
      BY <1>6, <1>15, <2>1, <2>2, <3>2 DEF New
    <3> QED
      BY <1>7, <2>1, <2>2, <3>1, <3>2
  <2>3. \A m \in DOMAIN job.buf : Ends(job.buf[m]) =>
           /\ New(job.buf[m].line)
           /\ \A r \in DOMAIN job.buf :
                 Ends(job.buf[r]) /\ job.buf[r].line = job.buf[m].line => r = m
    BY DEF Inv, WorkInv, NewInv
  <2> QED
    BY <1>2, <2>2, <2>3 DEF NewInv, New
<1> QED
  BY <1>8, <1>9, <1>12, <1>14, <1>16, <1>17 DEF WorkInv

-----------------------------------------------------------------------------
(* The invariant.                                                          *)

LEMMA InitInv ==
    ASSUME LiveLogsOnly, Init
    PROVE  Inv
<1>1. TypeOK
  BY TypeInit
<1>2. /\ \A p \in Paths : ~Exists(p)
      /\ job = NoJob /\ pc = "stopped" /\ todo = {}
      /\ \A l \in Lines : stored[l] = 0
      /\ Held = {} /\ Watched = {}
  <2>1. dir = [p \in Paths |-> NoInode] /\ job = NoJob /\ pc = "stopped" /\ todo = {}
        /\ stored = [l \in Lines |-> 0]
    BY DEF Init, DirInit, StoredInit
  <2> QED
    BY <2>1, NoJobFields DEF Held, Watched, Exists
<1>3. FilesInv
  BY <1>2, NoJobFields DEF FilesInv, ApartInv, HeldInv, WrittenInv, OnceInv, HalfInv
<1>4. WorkInv
  BY <1>2, NoJobFields DEF WorkInv, StageInv, RowInv, IntactInv, InsertedInv, NewInv, Handling
<1>5. ReingestNeedsExcuse
  BY <1>2 DEF ReingestNeedsExcuse
<1> QED
  BY <1>1, <1>3, <1>4, <1>5 DEF Inv

\* Steps that leave files, tables and the watcher's work alone.
LEMMA Unmoved ==
    ASSUME Inv, UNCHANGED <<dirVars, dbVars, workerVars, auxVars>>
    PROVE  FilesInv' /\ WorkInv' /\ ReingestNeedsExcuse'
<1>1. UNCHANGED <<dir, data, written, stored, fileState, pc, todo, job, excused>>
  BY DEF dirVars, dbVars, workerVars, auxVars
<1>2. FilesInv'
  BY <1>1, FilesWorker DEF Held
<1>3. StageInv' /\ RowInv'
  BY <1>1 DEF Inv, WorkInv, StageInv, RowInv, Handling, Settled, NextOffset, Exists
<1>4. IntactInv'
  BY <1>1 DEF Inv, WorkInv, IntactInv, Intact, Handling, Settled, Exists
<1>5. InsertedInv' /\ NewInv'
  BY <1>1 DEF Inv, WorkInv, InsertedInv, NewInv, New, Exists
<1> QED
  BY <1>1, <1>2, <1>3, <1>4, <1>5 DEF WorkInv, Inv, ReingestNeedsExcuse

LEMMA WorkerStep ==
    ASSUME Inv, Worker
    PROVE  FilesInv' /\ WorkInv' /\ ReingestNeedsExcuse'
<1>1. CASE Start \/ StartScan \/ EndScan \/ Return \/ SkipFile
  <2>1. ~Handling /\ ~Handling' /\ UNCHANGED <<dirVars, dbVars, job, excused>>
    BY <1>1 DEF Start, StartScan, EndScan, Return, SkipFile, Handling, auxVars
  <2>2. todo' \subseteq {p \in Paths : Visible(p)}
    BY <1>1 DEF Start, StartScan, EndScan, Return, SkipFile, Inv, WorkInv, StageInv, Listed
  <2> QED
    BY <2>1, <2>2, Between
<1>2. CASE StatFile
  BY <1>2, StatStep
<1>3. CASE FileGone
  <2>1. job.inserted = {}
    BY <1>3 DEF FileGone, Inv, WorkInv, StageInv
  <2> QED
    BY <1>3, <2>1, Ended DEF FileGone, NextFile, Handling, auxVars
<1>4. CASE ReadFingerprint
  <2>1. CASE pc' = "walk"
    <3>1. job.inserted = {}
      BY <1>4 DEF ReadFingerprint, Inv, WorkInv, StageInv
    <3>2. job' = NoJob /\ todo' = todo /\ UNCHANGED <<dirVars, dbVars, excused>>
      BY <1>4, <2>1 DEF ReadFingerprint, NextFile, auxVars
    <3> QED
      BY <2>1, <3>1, <3>2, Ended DEF Handling
  <2> QED
    BY <1>4, <2>1, FingerprintStep
<1>5. CASE OpenFile
  BY <1>5, OpenStep
<1>6. CASE ReadChunk
  BY <1>6, ReadStep
<1>7. CASE FlushBatch
  BY <1>7, FlushStep
<1>8. CASE ScanError
  BY <1>8, Ended DEF ScanError, NextFile, Excuse, Handling
<1>9. CASE FinishPlain
  BY <1>9, FinishStep
<1>10. CASE FinishArchive
  <2>1. Visible(job.path) /\ job.path \in Compressed
    BY <1>10 DEF FinishArchive, Inv, WorkInv, StageInv, Handling
  <2> QED
    BY <2>1 DEF Inv, LiveLogsOnly
<1>11. CASE CommitRow
  BY <1>11, CommitStep
<1> QED
  BY <1>1, <1>2, <1>3, <1>4, <1>5, <1>6, <1>7, <1>8, <1>9, <1>10, <1>11 DEF Worker

LEMMA StepInv ==
    ASSUME Inv, [Next]_vars
    PROVE  Inv'
<1>1. TypeOK'
  BY TypeStep DEF Inv
<1>2. LiveLogsOnly'
  BY DEF Inv, LiveLogsOnly, Visible
<1>3. CASE Worker
  BY <1>1, <1>2, <1>3, WorkerStep DEF Inv
<1>4. CASE DatabaseError
  BY <1>1, <1>2, <1>4, Ended DEF Inv, DatabaseError, Fault, Excuse, NextFile, Handling
<1>5. CASE Crash
  BY <1>1, <1>2, <1>5, Ended DEF Inv, Crash, Fault, Excuse, Handling
<1>6. CASE Cancel
  BY <1>1, <1>2, <1>6, Unmoved DEF Inv, Cancel
<1>7. CASE ServerStep
  <2>1. PICK q \in Live : Serve(q, Held)
    BY <1>7 DEF ServerStep
  <2>2. UNCHANGED <<dbVars, workerVars, auxVars>>
    BY <1>7 DEF ServerStep
  <2>3. CASE OpenLog(q, Held)
    BY <1>1, <1>2, <2>2, <2>3, OpenLogStep DEF Inv
  <2>4. CASE WriteLine(q) \/ WriteHead(q) \/ WriteTail(q)
    BY <1>1, <1>2, <2>2, <2>4, WriteStep DEF Inv
  <2> QED
    BY <2>1, <2>3, <2>4 DEF Serve
<1>8. CASE RotatorStep
  BY <1>1, <1>2, <1>8, RotateStep DEF Inv
<1>9. CASE UNCHANGED vars
  BY <1>1, <1>2, <1>9, Unmoved DEF Inv, vars
<1> QED
  BY <1>3, <1>4, <1>5, <1>6, <1>7, <1>8, <1>9 DEF Next

LEMMA Invariant ==
    ASSUME LiveLogsOnly
    PROVE  Spec => []Inv
<1>1. Init => Inv
  BY InitInv
<1>2. Inv /\ [Next]_vars => Inv'
  BY StepInv
<1> QED
  BY <1>1, <1>2, PTL DEF Spec

-----------------------------------------------------------------------------
(* The theorems.                                                           *)

\* A source over plain live logs, whatever the size of a fingerprint, ingests a
\* line twice only if the line was inserted by a handleFile that failed before
\* it saved the row, that a rotation overlapped, or that found the file shorter
\* than a fingerprint (handleFile and consumeRange in dir.go).
THEOREM ReingestIsExcused ==
    ASSUME LiveLogsOnly
    PROVE  Spec => []ReingestNeedsExcuse
<1>1. Inv => ReingestNeedsExcuse
  BY DEF Inv
<1> QED
  BY <1>1, Invariant, PTL

\* What the promise is about.
promised == <<written, stored, job.inserted, excused>>

\* handleFile inserts entries of its buffer.
LEMMA InsertDelivers ==
    ASSUME Inv, NEW E \in SUBSET Entries(job.buf), InsertBatch(job.buf, E),
           job'.inserted = job.inserted \cup LinesAt(job.buf, E),
           UNCHANGED <<written, excused>>
    PROVE  Promise!Next
<1> DEFINE B == LinesAt(job.buf, E)
<1>1. \A i \in E : i \in DOMAIN job.buf /\ Ends(job.buf[i]) /\ job.buf[i].line \in Lines
  <2>1. job.buf \in Seq(Cell)
    BY Types DEF Inv, Job
  <2> QED
    BY <2>1, EntriesEnd, EndsType
<1>2. B \in SUBSET Lines
  BY <1>1 DEF LinesAt
<1>3. Promise!Fresh(B)
  <2> SUFFICES ASSUME NEW i \in E
               PROVE  /\ job.buf[i].line <= written
                      /\ job.buf[i].line \notin job.inserted
                      /\ stored[job.buf[i].line] = 0 \/ job.buf[i].line \in excused
    BY DEF Promise!Fresh, LinesAt
  <2> QED
    BY <1>1 DEF Inv, FilesInv, WrittenInv, WorkInv, NewInv, New
<1>4. Promise!Add(B)
  <2>1. \A l \in Lines : (\E i \in E : job.buf[i].line = l) <=> l \in B
    BY DEF LinesAt
  <2> HIDE DEF B
  <2> QED
    BY <2>1 DEF InsertBatch, Promise!Add
<1>5. Promise!Deliver(B)
  BY <1>3, <1>4 DEF Promise!Deliver
<1> QED
  BY <1>2, <1>5 DEF Promise!Next

\* handleFile fails.
LEMMA FailureGivesUp ==
    ASSUME Inv, UNCHANGED <<written, stored>>, job'.inserted = {},
           excused' = excused \cup job.inserted
    PROVE  Promise!Next
<1>1. Promise!Fresh({})
  BY DEF Promise!Fresh
<1>2. Promise!Add({})
  <2>1. stored \in [Lines -> 0..MaxStored]
    BY Types DEF Inv
  <2>2. stored = [l \in Lines |-> stored[l]]
    BY <2>1
  <2> QED
    BY <2>2 DEF Promise!Add
<1>3. Promise!GiveUp({})
  BY <1>1, <1>2 DEF Promise!GiveUp
<1> QED
  BY <1>3 DEF Promise!Next

LEMMA WorkerKeepsPromise ==
    ASSUME Inv, Worker
    PROVE  Promise!Next \/ UNCHANGED promised
<1>1. CASE Start \/ StartScan \/ EndScan \/ Return \/ SkipFile
  BY <1>1 DEF Start, StartScan, EndScan, Return, SkipFile, auxVars, dirVars, dbVars, promised
<1>2. CASE StatFile
  <2>1. job'.inserted = {} /\ job.inserted = {}
    BY <1>2 DEF StatFile, NoJob, Inv, WorkInv, StageInv
  <2> QED
    BY <1>2, <2>1 DEF StatFile, auxVars, dirVars, dbVars, promised
<1>3. CASE FileGone
  <2>1. job'.inserted = {} /\ job.inserted = {}
    BY <1>3, NoJobFields DEF FileGone, NextFile, Inv, WorkInv, StageInv
  <2> QED
    BY <1>3, <2>1 DEF FileGone, auxVars, dirVars, dbVars, promised
<1>4. CASE ReadFingerprint
  <2>1. job'.inserted = {} /\ job.inserted = {}
    <3>1. job.inserted = {} /\ job \in Job
      BY <1>4, Types DEF ReadFingerprint, Inv, WorkInv, StageInv
    <3> QED
      BY <1>4, <3>1, NoJobFields DEF ReadFingerprint, NextFile, Job
  <2> QED
    BY <1>4, <2>1 DEF ReadFingerprint, auxVars, dirVars, dbVars, promised
<1>5. CASE OpenFile \/ ReadChunk
  <2>1. job'.inserted = job.inserted
    BY <1>5, Types DEF OpenFile, ReadChunk, Inv, Job
  <2> QED
    BY <1>5, <2>1 DEF OpenFile, ReadChunk, auxVars, dirVars, dbVars, promised
<1>6. CASE FlushBatch
  <2>1. PICK k \in DOMAIN job.buf :
           LET E == {i \in Entries(job.buf) : i <= k}
           IN  /\ InsertBatch(job.buf, E)
               /\ job' = [job EXCEPT !.buf = SubSeq(job.buf, k + 1, Len(job.buf)),
                                     !.inserted = job.inserted \cup LinesAt(job.buf, E)]
    BY <1>6 DEF FlushBatch
  <2> DEFINE E == {i \in Entries(job.buf) : i <= k}
  <2>2. job'.inserted = job.inserted \cup LinesAt(job.buf, E) /\ E \in SUBSET Entries(job.buf)
    BY <2>1, Types DEF Inv, Job
  <2>3. UNCHANGED <<written, excused>>
    BY <1>6 DEF FlushBatch, dirVars, auxVars
  <2> QED
    BY <2>1, <2>2, <2>3, InsertDelivers
<1>7. CASE ScanError
  BY <1>7, NoJobFields, FailureGivesUp DEF ScanError, NextFile, Excuse, dirVars, dbVars
<1>8. CASE FinishPlain
  <2>1. /\ job'.inserted = job.inserted \cup LinesAt(job.buf, Entries(job.buf))
        /\ InsertBatch(job.buf, Entries(job.buf)) /\ UNCHANGED <<written, excused>>
    BY <1>8, Types DEF FinishPlain, dirVars, Inv, Job
  <2> QED
    BY <2>1, InsertDelivers
<1>9. CASE FinishArchive
  <2>1. Visible(job.path) /\ job.path \in Compressed
    BY <1>9 DEF FinishArchive, Inv, WorkInv, StageInv, Handling
  <2> QED
    BY <2>1 DEF Inv, LiveLogsOnly
<1>10. CASE CommitRow
  <2>1. /\ job'.inserted = {} /\ UNCHANGED <<written, stored>>
        /\ excused' = excused \cup (IF job.overlapped \/ Short(job.fingerprint)
                                    THEN job.inserted ELSE {})
    BY <1>10, NoJobFields DEF CommitRow, NextFile, Excuse, dirVars
  <2>2. CASE job.overlapped \/ Short(job.fingerprint)
    BY <2>1, <2>2, FailureGivesUp
  <2>3. CASE ~(job.overlapped \/ Short(job.fingerprint))
    BY <2>1, <2>3 DEF Promise!Next, Promise!Settle
  <2> QED
    BY <2>2, <2>3
<1> QED
  BY <1>1, <1>2, <1>3, <1>4, <1>5, <1>6, <1>7, <1>8, <1>9, <1>10 DEF Worker

LEMMA StepKeepsPromise ==
    ASSUME Inv, [Next]_vars
    PROVE  Promise!Next \/ UNCHANGED promised
<1>1. CASE Worker
  BY <1>1, WorkerKeepsPromise
<1>2. CASE DatabaseError \/ Crash
  BY <1>2, NoJobFields, FailureGivesUp
     DEF DatabaseError, Crash, Fault, NextFile, Excuse, dirVars, dbVars
<1>3. CASE Cancel
  BY <1>3 DEF Cancel, dirVars, dbVars, workerVars, auxVars, promised
<1>4. CASE ServerStep
  <2>1. PICK q \in Live : Serve(q, Held)
    BY <1>4 DEF ServerStep
  <2>2. UNCHANGED <<stored, job, excused>>
    BY <1>4 DEF ServerStep, dbVars, workerVars, auxVars
  <2>3. CASE OpenLog(q, Held)
    BY <2>2, <2>3 DEF OpenLog, promised
  <2>4. CASE WriteLine(q) \/ WriteHead(q) \/ WriteTail(q)
    <3>1. written' = written + 1 \/ written' = written
      BY <2>4 DEF WriteLine, WriteHead, WriteTail
    <3> QED
      BY <2>2, <3>1 DEF Promise!Next, Promise!Append, promised
  <2> QED
    BY <2>1, <2>3, <2>4 DEF Serve
<1>5. CASE RotatorStep
  <2>1. PICK q \in Rotating : Rotate(q, Held)
    BY <1>5 DEF RotatorStep
  <2>2. written' = written
    BY <2>1, RotateEffect
  <2>3. UNCHANGED <<stored, excused>> /\ job'.inserted = job.inserted
    BY <1>5, Types DEF RotatorStep, dbVars, auxVars, Inv, Job
  <2> QED
    BY <2>2, <2>3 DEF promised
<1>6. CASE UNCHANGED vars
  BY <1>6 DEF vars, dirVars, dbVars, workerVars, auxVars, promised
<1> QED
  BY <1>1, <1>2, <1>3, <1>4, <1>5, <1>6 DEF Next

\* A source over plain live logs delivers at least once: each line it inserts
\* has been written, and none is inserted that an earlier attempt settled, or
\* twice in one attempt (handleFile, consumeRange and scan in dir.go).  An
\* attempt that failed, that a rotation overlapped or that found too short a
\* head is not settled.
THEOREM DeliveryIsAtLeastOnce ==
    ASSUME LiveLogsOnly
    PROVE  Spec => DeliversAtLeastOnce
<1>1. Init => Promise!Init
  BY NoJobFields DEF Init, DirInit, StoredInit, Promise!Init
<1>2. Inv /\ [Next]_vars => [Promise!Next]_(Promise!vars)
  BY StepKeepsPromise DEF Promise!vars, promised
<1> QED
  BY <1>1, <1>2, Invariant, PTL DEF Spec, DeliversAtLeastOnce, Promise!Spec
=============================================================================
