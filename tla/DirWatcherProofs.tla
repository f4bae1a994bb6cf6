-------------------------- MODULE DirWatcherProofs --------------------------
(***************************************************************************)
(* Theorems about DirWatcher for every directory, source configuration and *)
(* bound: its types, and that no line is skipped as long as the plain      *)
(* names of the source are those that servers write, not those that the    *)
(* rotator copies or moves old logs to.                                    *)
(***************************************************************************)
EXTENDS DirWatcher, IngestProofs

USE PathsAssumption, InodesAssumption, RotationAssumption, BoundsAssumption,
    SourceAssumption, ScannerAssumption, LimitsAssumption, NoRowAssumption

\* The locals of a watcher that handles nothing.
LEMMA NoJobFields ==
    /\ NoJob.fd = NoInode /\ NoJob.buf = <<>> /\ NoJob.inserted = {}
    /\ NoJob.overlapped = FALSE
BY DEF NoJob

\* What is known of the types, in the form the proofs use it.
LEMMA Types ==
    ASSUME TypeOK
    PROVE  /\ data \in [Inodes -> Seq(Cell)]
           /\ dir \in [Paths -> Inodes \cup {NoInode}]
           /\ stored \in [Lines -> 0..MaxStored]
           /\ fileState \in [Paths -> Row \cup {NoRow}]
           /\ job \in Job /\ written \in 0..MaxLines
           /\ Handling => job.inode # NoInode
           /\ pc = "read" => job.fd \in Inodes
BY DEF TypeOK, DirTypeOK, DbTypeOK, StoredTypeOK, WorkerTypeOK, Job

-----------------------------------------------------------------------------
(* Type correctness.                                                       *)

\* The locals of an idle watcher are well typed.
LEMMA NoJobType == NoJob \in Job
BY DEF NoJob, Job

\* The row saved by handleFile has its columns' types.
LEMMA RowOfType ==
    ASSUME NEW j \in Job, j.inode # NoInode
    PROVE  RowOf(j) \in Row
BY DEF Job, Row, RowOf

\* The offset to resume from is a number of cells.
LEMMA ResumeType ==
    ASSUME NEW row \in Row \cup {NoRow}, NEW i, NEW n \in Nat, NEW h
    PROVE  Resume(row, i, n, h) \in Nat
BY DEF Resume, Row

\* Every initial state is well typed.
THEOREM TypeInit == Init => TypeOK
<1> SUFFICES ASSUME Init PROVE TypeOK
  OBVIOUS
<1>1. DirTypeOK
  BY DEF Init, DirInit, DirTypeOK
<1>2. DbTypeOK
  BY DEF Init, DbTypeOK, StoredInit, StoredTypeOK
<1>3. WorkerTypeOK
  BY NoJobType DEF Init, WorkerTypeOK, Handling
<1>4. LifeTypeOK
  <2>1. cancelled \in BOOLEAN
    BY DEF Init
  <2>2. faults \in 0..MaxFaults /\ stops \in 0..MaxStops
    BY DEF Init
  <2> QED
    BY <2>1, <2>2 DEF LifeTypeOK
<1>5. AuxTypeOK
  BY DEF Init, AuxTypeOK
<1> QED
  BY <1>1, <1>2, <1>3, <1>4, <1>5 DEF TypeOK

\* What a step leaves alone keeps its types.
LEMMA Frame ==
    ASSUME TypeOK
    PROVE  /\ UNCHANGED dirVars => DirTypeOK'
           /\ UNCHANGED dbVars => DbTypeOK'
           /\ UNCHANGED workerVars => WorkerTypeOK'
           /\ UNCHANGED lifeVars => LifeTypeOK'
           /\ UNCHANGED auxVars => AuxTypeOK'
<1>1. UNCHANGED dirVars => DirTypeOK'
  BY DEF TypeOK, DirTypeOK, dirVars
<1>2. UNCHANGED dbVars => DbTypeOK'
  BY DEF TypeOK, DbTypeOK, StoredTypeOK, dbVars
<1>3. UNCHANGED workerVars => WorkerTypeOK'
  BY DEF TypeOK, WorkerTypeOK, workerVars, Handling
<1>4. UNCHANGED lifeVars => LifeTypeOK'
  BY DEF TypeOK, LifeTypeOK, lifeVars
<1>5. UNCHANGED auxVars => AuxTypeOK'
  BY DEF TypeOK, AuxTypeOK, auxVars
<1> QED
  BY <1>1, <1>2, <1>3, <1>4, <1>5

\* The watcher goes on to the next directory entry.
LEMMA NextFileType ==
    ASSUME TypeOK, NextFile
    PROVE  WorkerTypeOK'
BY NoJobType DEF TypeOK, NextFile, WorkerTypeOK, Handling

\* A failed handleFile excuses lines.
LEMMA ExcuseType ==
    ASSUME TypeOK, NEW S \in SUBSET Lines, Excuse(S), blind' = blind, halved' = halved
    PROVE  AuxTypeOK'
BY DEF TypeOK, AuxTypeOK, Excuse

\* A fault is counted up to the bound.
LEMMA FaultType ==
    ASSUME TypeOK, Fault, UNCHANGED <<cancelled, stops, blind, halved>>
    PROVE  LifeTypeOK' /\ AuxTypeOK'
<1>1. job.inserted \subseteq Lines
  BY DEF TypeOK, WorkerTypeOK, Job
<1>2. AuxTypeOK'
  BY <1>1, ExcuseType DEF Fault
<1>3. LifeTypeOK'
  BY DEF Fault, TypeOK, LifeTypeOK
<1> QED
  BY <1>2, <1>3

\* Every step keeps the types.
THEOREM TypeStep == TypeOK /\ [Next]_vars => TypeOK'
<1> SUFFICES ASSUME TypeOK, [Next]_vars PROVE TypeOK'
  OBVIOUS
<1> DEFINE Rest == /\ UNCHANGED dirVars => DirTypeOK'
                   /\ UNCHANGED dbVars => DbTypeOK'
                   /\ UNCHANGED workerVars => WorkerTypeOK'
                   /\ UNCHANGED lifeVars => LifeTypeOK'
                   /\ UNCHANGED auxVars => AuxTypeOK'
<1>0. Rest
  BY Frame
<1> job \in Job /\ job.inserted \in SUBSET Lines /\ job.buf \in Seq(Cell)
  BY DEF TypeOK, WorkerTypeOK, Job
<1>1. CASE Start
  <2>1. WorkerTypeOK' /\ LifeTypeOK'
    BY <1>1 DEF Start, TypeOK, WorkerTypeOK, LifeTypeOK, Handling
  <2> QED
    BY <1>0, <1>1, <2>1 DEF Start, TypeOK
<1>2. CASE StartScan
  <2>1. WorkerTypeOK'
    BY <1>2 DEF StartScan, TypeOK, WorkerTypeOK, Handling, Listed
  <2> QED
    BY <1>0, <1>2, <2>1 DEF StartScan, TypeOK
<1>3. CASE EndScan
  <2>1. WorkerTypeOK'
    BY <1>3 DEF EndScan, TypeOK, WorkerTypeOK, Handling
  <2> QED
    BY <1>0, <1>3, <2>1 DEF EndScan, TypeOK
<1>4. CASE Return
  <2>1. WorkerTypeOK'
    BY <1>4 DEF Return, TypeOK, WorkerTypeOK, Handling
  <2> QED
    BY <1>0, <1>4, <2>1 DEF Return, TypeOK
<1>5. CASE SkipFile
  <2>1. WorkerTypeOK'
    BY <1>5 DEF SkipFile, TypeOK, WorkerTypeOK, Handling
  <2> QED
    BY <1>0, <1>5, <2>1 DEF SkipFile, TypeOK
<1>6. CASE StatFile
  <2>1. PICK p \in todo :
           /\ Wanted(p)
           /\ todo' = todo \ {p}
           /\ job' = [NoJob EXCEPT !.path = p, !.inode = dir[p],
                                   !.size = Len(data[dir[p]]), !.prev = fileState[p]]
           /\ pc' = IF p \in Compressed THEN "open" ELSE "fingerprint"
    BY <1>6 DEF StatFile
  <2>2. p \in Paths /\ dir[p] \in Inodes /\ fileState[p] \in Row \cup {NoRow}
    BY <2>1 DEF Wanted, Exists, TypeOK, DirTypeOK, DbTypeOK, WorkerTypeOK
  <2>3. Len(data[dir[p]]) \in Nat
    BY <2>2 DEF TypeOK, DirTypeOK
  <2>4. job' \in Job /\ job'.inode # NoInode
    BY <2>1, <2>2, <2>3, NoJobType DEF Job
  <2>5. WorkerTypeOK'
    BY <2>1, <2>4 DEF TypeOK, WorkerTypeOK, Handling
  <2> QED
    BY <1>0, <1>6, <2>5 DEF StatFile, TypeOK
<1>7. CASE FileGone
  BY <1>0, <1>7, NextFileType DEF FileGone, TypeOK
<1>8. CASE ReadFingerprint
  <2> DEFINE head == Fingerprint(data[dir[job.path]])
             from == Resume(job.prev, job.inode, job.size, head)
             next == [job EXCEPT !.fingerprint = head, !.offset = from]
  <2>1. data[dir[job.path]] \in Seq(Cell)
    BY <1>8 DEF ReadFingerprint, Exists, TypeOK, DirTypeOK, Job
  <2>2. head \in Seq(Cell)
    BY <2>1, PrefixType DEF Fingerprint
  <2>3. from \in Nat
    BY ResumeType DEF Job
  <2>4. next \in Job /\ next.inode = job.inode
    BY <2>2, <2>3 DEF Job
  <2> HIDE DEF next
  <2>5. \/ NextFile
        \/ job' = next /\ todo' = todo /\ pc' \in {"open", "commit"}
    BY <1>8 DEF ReadFingerprint, next
  <2>6. job.inode # NoInode
    BY <1>8 DEF ReadFingerprint, TypeOK, WorkerTypeOK, Handling
  <2>7. WorkerTypeOK'
    BY <2>4, <2>5, <2>6, NextFileType DEF TypeOK, WorkerTypeOK, Handling
  <2> QED
    BY <1>0, <1>8, <2>7 DEF ReadFingerprint, TypeOK
<1>9. CASE OpenFile
  <2>1. dir[job.path] \in Inodes
    BY <1>9 DEF OpenFile, Exists, TypeOK, DirTypeOK, Job
  <2>2. job' \in Job /\ job'.inode = job.inode /\ job'.fd # NoInode
    BY <1>9, <2>1 DEF OpenFile, Job
  <2>3. WorkerTypeOK'
    BY <1>9, <2>2 DEF OpenFile, TypeOK, WorkerTypeOK, Handling
  <2> QED
    BY <1>0, <1>9, <2>3 DEF OpenFile, TypeOK
<1>10. CASE ReadChunk
  <2> DEFINE rest == SubSeq(data[job.fd], job.pos + 1, Len(data[job.fd]))
             chunk == Chunk(data[job.fd], job.pos)
  <2>1. job.fd \in Inodes /\ job.inode # NoInode
    BY <1>10 DEF ReadChunk, TypeOK, WorkerTypeOK, Handling, Job
  <2>2. rest \in Seq(Cell)
    BY <2>1, SubSeqType DEF TypeOK, DirTypeOK, Job
  <2>3. chunk \in Seq(Cell) /\ Len(chunk) \in Nat
    BY <2>2, PrefixType DEF Chunk
  <2>4. job.buf \o chunk \in Seq(Cell) /\ job.pos + Len(chunk) \in Nat
    BY <2>3 DEF Job
  <2>5. job' = [job EXCEPT !.buf = job.buf \o chunk, !.pos = job.pos + Len(chunk)]
    BY <1>10 DEF ReadChunk
  <2> HIDE DEF chunk
  <2>6. job' \in Job /\ job'.inode = job.inode /\ job'.fd = job.fd
    BY <2>4, <2>5 DEF Job
  <2>7. WorkerTypeOK'
    BY <1>10, <2>1, <2>6 DEF ReadChunk, TypeOK, WorkerTypeOK, Handling
  <2> QED
    BY <1>0, <1>10, <2>7 DEF ReadChunk, TypeOK
<1>11. CASE FlushBatch
  <2> DEFINE batch(k) == {i \in Entries(job.buf) : i <= k}
  <2>1. PICK k \in DOMAIN job.buf :
           /\ InsertBatch(job.buf, batch(k))
           /\ job' = [job EXCEPT !.buf = SubSeq(job.buf, k + 1, Len(job.buf)),
                                 !.inserted = job.inserted \cup LinesAt(job.buf, batch(k))]
    BY <1>11 DEF FlushBatch
  <2>2. SubSeq(job.buf, k + 1, Len(job.buf)) \in Seq(Cell)
    BY SubSeqType
  <2>3. LinesAt(job.buf, batch(k)) \subseteq Lines
    BY EntriesType
  <2> HIDE DEF batch
  <2>4. job' \in Job /\ job'.inode = job.inode /\ job'.fd = job.fd
    BY <2>1, <2>2, <2>3 DEF Job
  <2>5. WorkerTypeOK'
    BY <1>11, <2>4 DEF FlushBatch, TypeOK, WorkerTypeOK, Handling
  <2>6. DbTypeOK'
    BY <1>11, <2>1, InsertBatchType DEF FlushBatch, TypeOK, DbTypeOK
  <2> QED
    BY <1>0, <1>11, <2>5, <2>6 DEF FlushBatch, TypeOK
<1>12. CASE ScanError
  BY <1>0, <1>12, NextFileType, ExcuseType DEF ScanError, TypeOK
<1>13. CASE FinishPlain
  <2> DEFINE last == LinesAt(job.buf, Entries(job.buf))
  <2>1. last \subseteq Lines
    BY EntriesType
  <2> HIDE DEF last
  <2>2. job' = [job EXCEPT !.offset = job.pos, !.fd = NoInode, !.buf = <<>>,
                           !.inserted = job.inserted \cup last]
    BY <1>13 DEF FinishPlain, last
  <2>3. job' \in Job /\ job'.inode = job.inode
    <3>1. <<>> \in Seq(Cell) /\ job.inserted \cup last \in SUBSET Lines
      BY <2>1
    <3>2. job.pos \in Nat
      BY DEF Job
    <3> QED
      BY <2>2, <3>1, <3>2 DEF Job
  <2>4. WorkerTypeOK'
    BY <1>13, <2>3 DEF FinishPlain, TypeOK, WorkerTypeOK, Handling
  <2>5. DbTypeOK'
    BY <1>13, InsertBatchType DEF FinishPlain, TypeOK, DbTypeOK
  <2>6. AuxTypeOK'
    BY <1>13, HalfLineType DEF FinishPlain, TypeOK, AuxTypeOK
  <2> QED
    BY <1>0, <1>13, <2>4, <2>5, <2>6 DEF FinishPlain, TypeOK
<1>14. CASE FinishArchive
  <2> DEFINE last == LinesAt(job.buf, Entries(job.buf))
             head == IF Exists(job.path) THEN Fingerprint(data[dir[job.path]]) ELSE <<>>
  <2>1. last \subseteq Lines
    BY EntriesType
  <2>2. head \in Seq(Cell)
    <3>1. Exists(job.path) => data[dir[job.path]] \in Seq(Cell)
      BY DEF Exists, TypeOK, DirTypeOK, Job
    <3> QED
      BY <3>1, PrefixType DEF Fingerprint
  <2> HIDE DEF last, head
  <2>3. DbTypeOK'
    BY <1>14, InsertBatchType DEF FinishArchive, TypeOK, DbTypeOK
  <2>4. CASE pc' = "commit" /\ UNCHANGED <<todo, excused>> /\
             job' = [job EXCEPT !.offset = job.size, !.fd = NoInode, !.buf = <<>>,
                                !.inserted = job.inserted \cup last, !.fingerprint = head]
    <3>1. job' \in Job /\ job'.inode = job.inode
      <4>1. <<>> \in Seq(Cell) /\ job.inserted \cup last \in SUBSET Lines
        BY <2>1
      <4>2. job.size \in Nat
        BY DEF Job
      <4> QED
        BY <2>2, <2>4, <4>1, <4>2 DEF Job
    <3>2. WorkerTypeOK'
      BY <1>14, <2>4, <3>1 DEF FinishArchive, TypeOK, WorkerTypeOK, Handling
    <3>3. UNCHANGED auxVars
      BY <1>14, <2>4 DEF FinishArchive, auxVars
    <3> QED
      BY <1>0, <1>14, <2>3, <3>2, <3>3 DEF FinishArchive, TypeOK
  <2>5. CASE NextFile /\ Excuse(job.inserted \cup last)
    <3>1. AuxTypeOK'
      BY <1>14, <2>1, <2>5, ExcuseType DEF FinishArchive
    <3> QED
      BY <1>0, <1>14, <2>3, <2>5, <3>1, NextFileType DEF FinishArchive, TypeOK
  <2> QED
    BY <1>14, <2>4, <2>5 DEF FinishArchive, last, head
<1>15. CASE CommitRow
  <2>1. RowOf(job) \in Row /\ job.path \in Paths
    BY <1>15, RowOfType DEF CommitRow, TypeOK, WorkerTypeOK, Handling, Job
  <2>2. DbTypeOK'
    BY <1>15, <2>1 DEF CommitRow, TypeOK, DbTypeOK, StoredTypeOK
  <2>3. AuxTypeOK'
    BY <1>15, <2>1 DEF CommitRow, Excuse, TypeOK, AuxTypeOK
  <2> QED
    BY <1>0, <1>15, <2>2, <2>3, NextFileType DEF CommitRow, TypeOK
<1>16. CASE DatabaseError
  BY <1>0, <1>16, NextFileType, FaultType DEF DatabaseError, TypeOK
<1>17. CASE Crash
  <2>1. WorkerTypeOK'
    BY <1>17, NoJobType DEF Crash, WorkerTypeOK, Handling
  <2> QED
    BY <1>0, <1>17, <2>1, FaultType DEF Crash, TypeOK
<1>18. CASE Cancel
  <2>1. LifeTypeOK'
    BY <1>18 DEF Cancel, TypeOK, LifeTypeOK
  <2> QED
    BY <1>0, <1>18, <2>1 DEF Cancel, TypeOK
<1>19. CASE ServerStep
  <2>1. DirTypeOK'
    BY <1>19, ServeType DEF ServerStep, TypeOK
  <2> QED
    BY <1>0, <1>19, <2>1 DEF ServerStep, TypeOK
<1>20. CASE RotatorStep
  <2>1. DirTypeOK'
    BY <1>20, RotateType DEF RotatorStep, TypeOK
  <2>2. job' \in Job /\ job'.inode = job.inode /\ job'.fd = job.fd
    <3>1. Handling \in BOOLEAN
      BY SMT DEF Handling
    <3> QED
      BY <1>20, <3>1 DEF RotatorStep, Job
  <2>3. WorkerTypeOK'
    BY <1>20, <2>2 DEF RotatorStep, TypeOK, WorkerTypeOK, Handling
  <2> QED
    BY <1>0, <1>20, <2>1, <2>3 DEF RotatorStep, TypeOK
<1>21. CASE UNCHANGED vars
  BY <1>0, <1>21 DEF vars, TypeOK
<1> HIDE DEF Rest
<1> QED
  BY <1>1, <1>2, <1>3, <1>4, <1>5, <1>6, <1>7, <1>8, <1>9, <1>10, <1>11, <1>12,
     <1>13, <1>14, <1>15, <1>16, <1>17, <1>18, <1>19, <1>20, <1>21 DEF Next, Worker

\* The watcher's state always has its declared types, and handleFile never
\* uses an inode or a file it does not have.
THEOREM TypeCorrect == Spec => []TypeOK
<1>1. Init => TypeOK
  BY TypeInit
<1>2. TypeOK /\ [Next]_vars => TypeOK'
  BY TypeStep
<1> QED
  BY <1>1, <1>2, PTL DEF Spec

-----------------------------------------------------------------------------
(* No line is skipped: the sources the theorem is about.                   *)

\* A name that is read as plain text.
Plain(p) == Visible(p) /\ p \notin Compressed

\* The names whose files are read as plain text or rotated.
Source(p) == Plain(p) \/ p \in Rotating

\* Orders of the names in which rotation only takes a log to a later one.
Ages == {age \in [Paths -> Nat] : \A q \in Rotating : age[q] < age[RotatedName[q]]}
Age == CHOOSE age \in Ages : TRUE

\* Any live or rotated name may be watched and archives may match the pattern.
\* But no log gets back a name that it had (access.log, access.log.1,
\* access.log.2 ...), and an archive is known by its name and final.
LogsGrowOld ==
    /\ Ages # {}
    /\ \A q \in Rotating : ~Source(ArchiveName[q])

-----------------------------------------------------------------------------
(* The inductive invariant.                                                *)

\* The lines that are in the requests table, or were cut in two.
Kept == {l \in Lines : stored[l] > 0 \/ l \in halved}

\* The first n cells of s hold no complete line outside K, and break none off.
SafeTo(s, n, K) ==
    /\ n <= Len(s)
    /\ \A k \in 1..n : Completes(s, k) => s[k].line \in K
    /\ n > 0 /\ s[n].part = "head" => s[n].line \in K

\* The file s begins as the fingerprint h does.
Headed(s, h) == h # <<>> /\ s # <<>> /\ s[1] = h[1]

\* The second half of a line follows the first.
Paired(s) ==
    \A k \in DOMAIN s : s[k].part = "tail" => k > 1 /\ s[k - 1] = HeadOf(s[k].line)

\* What is in a file or a fingerprint has been written.
NumberedInv ==
    /\ \A i \in Inodes : \A k \in DOMAIN data[i] : data[i][k].line <= written
    /\ \A p \in Paths : fileState[p] # NoRow /\ fileState[p].fingerprint # <<>> =>
          fileState[p].fingerprint[1].line <= written
    /\ job.fingerprint # <<>> => job.fingerprint[1].line <= written

PairInv == \A p \in Paths : Source(p) /\ Exists(p) => Paired(data[dir[p]])

BlindInv == \A p \in Paths : fileState[p] # NoRow /\ Unguarded(fileState[p]) => p \in blind

\* No two logs begin alike.
HeadsInv ==
    \A p, q \in Paths : Source(p) /\ Source(q) /\ p # q /\ Exists(p) /\ Exists(q) =>
        ~Headed(data[dir[p]], data[dir[q]])

\* A log that begins as h is under the name p or past it: it has no other name
\* from which it could come to p.
PastOrAt(p, h) ==
    \A q \in Paths : Source(q) /\ q # p /\ Exists(q) /\ Age[q] <= Age[p] =>
        ~Headed(data[dir[q]], h)

\* Whatever was fingerprinted under a name is there or gone for good, even if
\* another file has the inode of the row, or its size.
PassedInv ==
    /\ \A p \in Paths : Plain(p) /\ fileState[p] # NoRow =>
          PastOrAt(p, fileState[p].fingerprint)
    /\ Plain(job.path) => PastOrAt(job.path, job.fingerprint)

\* If the row is of the file that has the name, the file is safe to its offset.
CursorRowInv ==
    \A p \in Paths : Plain(p) /\ Exists(p) /\ p \notin blind =>
        LET row == fileState[p]
            s   == data[dir[p]] IN
        row # NoRow /\ row.inode = dir[p] /\ Headed(s, row.fingerprint) =>
            SafeTo(s, row.offset, Kept)

\* The file that has the name is the one handleFile found and read the head of.
Same ==
    /\ job.path \notin Compressed /\ job.path \notin blind
    /\ Exists(job.path) /\ dir[job.path] = job.inode
    /\ Headed(data[job.inode], job.fingerprint)

\* The file is safe up to where the buffer begins, and the buffer goes on there.
Scanned ==
    LET s == data[job.inode] IN
        /\ job.fd = job.inode
        /\ job.pos <= Len(s) /\ Len(job.buf) <= job.pos
        /\ \A m \in DOMAIN job.buf : job.buf[m] = s[job.pos - Len(job.buf) + m]
        /\ SafeTo(s, job.pos - Len(job.buf), Kept)

\* handleFile looks at a matched name and the row it has; only it writes rows.
CursorStageInv ==
    /\ todo \subseteq {p \in Paths : Visible(p)}
    /\ Handling => Visible(job.path) /\ job.prev = fileState[job.path]
    /\ pc # "read" => job.buf = <<>>

JobInv ==
    /\ pc \in {"open", "commit"} /\ Same => SafeTo(data[job.inode], job.offset, Kept)
    /\ pc = "read" /\ Same => Scanned

LogsInv == HeadsInv /\ PassedInv
CursorFilesInv == ApartInv /\ NumberedInv /\ PairInv /\ LogsInv /\ BlindInv /\ CursorRowInv
CursorInv == LogsGrowOld /\ TypeOK /\ CursorFilesInv /\ CursorStageInv /\ JobInv

USE PathsAssumption, InodesAssumption, RotationAssumption, BoundsAssumption,
    SourceAssumption, ScannerAssumption, LimitsAssumption, NoRowAssumption

-----------------------------------------------------------------------------
(* Lemmas about the operators.                                             *)

\* The fingerprint of a file begins as the file does.
LEMMA FingerprintHeads ==
    ASSUME NEW s \in Seq(Cell), s # <<>>
    PROVE  Fingerprint(s) # <<>> /\ Fingerprint(s)[1] = s[1]
<1> DEFINE n == IF FingerprintSize < Len(s) THEN FingerprintSize ELSE Len(s)
<1>1. n \in Nat /\ n >= 1 /\ n <= Len(s) /\ Len(s) \in Nat
  BY DEF n
<1>2. \A i \in 1..n : s[i] \in Cell
  BY <1>1
<1>3. Fingerprint(s) = SubSeq(s, 1, n)
  BY DEF Fingerprint, Prefix
<1> HIDE DEF n
<1>4. /\ SubSeq(s, 1, n) \in Seq(Cell) /\ Len(SubSeq(s, 1, n)) = n
      /\ SubSeq(s, 1, n)[1] = s[1]
  BY <1>1, <1>2, SubSeqProperties
<1>5. SubSeq(s, 1, n) # <<>>
  <2>1. Len(<<>>) = 0 /\ n # 0
    BY <1>1
  <2> QED
    BY <1>4, <2>1
<1> QED
  BY <1>3, <1>4, <1>5

\* A scan resumes where a row says only if the row is of this file.
LEMMA ResumeMatches ==
    ASSUME NEW row \in Row \cup {NoRow}, NEW i, NEW n \in Nat, NEW h, Resume(row, i, n, h) # 0
    PROVE  /\ row # NoRow /\ row.inode = i /\ row.offset <= n
           /\ Resume(row, i, n, h) = row.offset
           /\ row.fingerprint = <<>> \/ h = row.fingerprint
<1>1. row # NoRow
  BY DEF Resume
<1>2. row.offset \in Nat
  BY <1>1 DEF Row
<1>3. row.inode = i
  BY <1>1 DEF Resume
<1>4. row.offset <= n
  BY <1>1, <1>2, <1>3 DEF Resume
<1> QED
  BY <1>1, <1>2, <1>3, <1>4 DEF Resume

\* A file is safe to its beginning.
LEMMA SafeToStart ==
    ASSUME NEW s \in Seq(Cell), NEW K
    PROVE  SafeTo(s, 0, K)
BY DEF SafeTo

\* More lines kept do no harm.
LEMMA SafeMore ==
    ASSUME NEW s, NEW n, NEW K, NEW L, K \subseteq L, SafeTo(s, n, K)
    PROVE  SafeTo(s, n, L)
BY DEF SafeTo

\* A scan over n more cells, whose lines are kept, is as safe.
LEMMA SafeFurther ==
    ASSUME NEW s \in Seq(Cell), Paired(s), NEW buf \in Seq(Cell), NEW b \in Nat,
           NEW n \in 0..Len(buf), b + n <= Len(s),
           \A m \in 1..n : buf[m] = s[b + m],
           NEW K, NEW L, K \subseteq L, SafeTo(s, b, K),
           \A m \in 1..n : Completes(buf, m) => buf[m].line \in L,
           n > 0 /\ buf[n].part = "head" => buf[n].line \in L
    PROVE  SafeTo(s, b + n, L)
<1>1. n \in Nat /\ Len(s) \in Nat /\ DOMAIN s = 1..Len(s)
  OBVIOUS
<1>2. ASSUME NEW k \in 1..(b + n), Completes(s, k)
      PROVE  s[k].line \in L
  <2>1. CASE k <= b
    BY <1>2, <2>1 DEF SafeTo
  <2>2. CASE k > b
    <3> DEFINE m == k - b
    <3>1. m \in 1..n /\ k = b + m /\ k \in DOMAIN s
      BY <1>1, <2>2
    <3> HIDE DEF m
    <3>2. buf[m] = s[k]
      BY <3>1
    <3>3. CASE Completes(buf, m)
      BY <3>1, <3>2, <3>3
    <3>4. CASE ~Completes(buf, m)
      <4>1. s[k].part = "tail" /\ k > 1 /\ s[k - 1].part = "head"
        BY <1>2, <3>2, <3>4 DEF Completes
      <4>2. m = 1
        <5> SUFFICES ASSUME m # 1 PROVE FALSE
          OBVIOUS
        <5>1. m - 1 \in 1..n /\ b + (m - 1) = k - 1 /\ m > 1
          BY <1>1, <3>1
        <5>2. buf[m - 1] = s[k - 1]
          BY <5>1
        <5> QED
          BY <3>2, <3>4, <4>1, <5>1, <5>2 DEF Completes
      <4>3. k - 1 = b /\ b > 0
        BY <3>1, <4>1, <4>2
      <4>4. s[b] = HeadOf(s[k].line)
        BY <3>1, <4>1, <4>3 DEF Paired
      <4>5. s[b].line \in K
        BY <4>1, <4>3 DEF SafeTo
      <4> QED
        BY <4>4, <4>5 DEF HeadOf
    <3> QED
      BY <3>3, <3>4
  <2> QED
    BY <1>1, <2>1, <2>2
<1>3. ASSUME b + n > 0, s[b + n].part = "head"
      PROVE  s[b + n].line \in L
  <2>1. CASE n = 0
    BY <1>3, <2>1 DEF SafeTo
  <2>2. CASE n > 0
    <3>1. n \in 1..n
      BY <1>1, <2>2
    <3> QED
      BY <1>3, <2>2, <3>1
  <2> QED
    BY <1>1, <2>1, <2>2
<1> QED
  BY <1>2, <1>3 DEF SafeTo

\* What a step of a server or the rotator makes of a file that keeps its name:
\* nothing, an empty file, or one cell more; a first cell is a new line.
Grown(s, t, w) ==
    \/ t = <<>>
    \/ t = s
    \/ \E c \in Cell : /\ t = Append(s, c)
                       /\ s = <<>> => c.line > w
                       /\ c.part = "tail" => s # <<>> /\ s[Len(s)] = HeadOf(c.line)

\* A file that still begins as an old fingerprint does has only grown.
LEMMA GrownKeeps ==
    ASSUME NEW s \in Seq(Cell), NEW t, NEW w \in Nat, Grown(s, t, w),
           NEW h, Headed(t, h), h[1].line <= w
    PROVE  /\ Headed(s, h) /\ Len(s) <= Len(t)
           /\ \A k \in 1..Len(s) : t[k] = s[k]
           /\ \A n \in Nat : \A K : SafeTo(s, n, K) => SafeTo(t, n, K)
<1>1. /\ Headed(s, h) /\ Len(s) <= Len(t) /\ Len(s) \in Nat /\ Len(t) \in Nat
      /\ \A k \in 1..Len(s) : t[k] = s[k]
  <2>1. CASE t = s
    BY <2>1
  <2>2. ASSUME NEW c \in Cell, t = Append(s, c), s = <<>> => c.line > w
        PROVE  /\ Headed(s, h) /\ Len(s) <= Len(t) /\ Len(s) \in Nat /\ Len(t) \in Nat
               /\ \A k \in 1..Len(s) : t[k] = s[k]
    <3>1. /\ Len(t) = Len(s) + 1 /\ t[Len(s) + 1] = c /\ Len(s) \in Nat
          /\ \A k \in 1..Len(s) : t[k] = s[k]
      BY <2>2, AppendProperties
    <3>2. s # <<>>
      <4> SUFFICES ASSUME s = <<>> PROVE FALSE
        OBVIOUS
      <4>1. t[1] = c /\ c.line > w /\ c.line \in Nat
        BY <2>2, <3>1 DEF Cell, Trailer, Lines
      <4> QED
        BY <4>1 DEF Headed
    <3>3. 1 \in 1..Len(s)
      BY <3>1, <3>2
    <3> QED
      BY <3>1, <3>2, <3>3 DEF Headed
  <2> QED
    BY <2>1, <2>2 DEF Grown, Headed
<1>2. ASSUME NEW n \in Nat, NEW K, SafeTo(s, n, K)
      PROVE  SafeTo(t, n, K)
  <2>1. n <= Len(s) /\ n <= Len(t)
    BY <1>1, <1>2 DEF SafeTo
  <2>2. \A k \in 1..n : Completes(t, k) => Completes(s, k)
    <3> SUFFICES ASSUME NEW k \in 1..n, Completes(t, k) PROVE Completes(s, k)
      OBVIOUS
    <3>1. k \in 1..Len(s) /\ (k > 1 => k - 1 \in 1..Len(s))
      BY <1>1, <2>1
    <3> QED
      BY <1>1, <3>1 DEF Completes
  <2>3. /\ \A k \in 1..n : t[k] = s[k]
        /\ n > 0 => t[n] = s[n]
    BY <1>1, <2>1
  <2>4. /\ \A k \in 1..n : Completes(s, k) => s[k].line \in K
        /\ n > 0 /\ s[n].part = "head" => s[n].line \in K
    BY <1>2 DEF SafeTo
  <2>5. \A k \in 1..n : Completes(t, k) => t[k].line \in K
    BY <2>2, <2>3, <2>4
  <2>6. n > 0 /\ t[n].part = "head" => t[n].line \in K
    BY <2>3, <2>4
  <2> QED
    BY <2>1, <2>5, <2>6 DEF SafeTo
<1> QED
  BY <1>1, <1>2

\* It keeps the halves of its lines together.
LEMMA GrownPairs ==
    ASSUME NEW s \in Seq(Cell), Paired(s), NEW t, NEW w, Grown(s, t, w)
    PROVE  Paired(t)
<1>1. CASE t = <<>>
  BY <1>1 DEF Paired
<1>2. CASE t = s
  BY <1>2
<1>3. ASSUME NEW c \in Cell, t = Append(s, c),
             c.part = "tail" => s # <<>> /\ s[Len(s)] = HeadOf(c.line)
      PROVE  Paired(t)
  <2>1. /\ Len(t) = Len(s) + 1 /\ t[Len(s) + 1] = c /\ Len(s) \in Nat
        /\ \A k \in 1..Len(s) : t[k] = s[k]
        /\ DOMAIN t = 1..(Len(s) + 1) /\ DOMAIN s = 1..Len(s)
    BY <1>3, AppendProperties
  <2> SUFFICES ASSUME NEW k \in DOMAIN t, t[k].part = "tail"
               PROVE  k > 1 /\ t[k - 1] = HeadOf(t[k].line)
    BY DEF Paired
  <2>2. CASE k = Len(s) + 1
    <3>1. s # <<>> /\ s[Len(s)] = HeadOf(c.line)
      BY <1>3, <2>1, <2>2
    <3>2. Len(s) \in 1..Len(s) /\ k - 1 = Len(s) /\ k > 1
      BY <2>1, <2>2, <3>1
    <3> QED
      BY <2>1, <2>2, <3>1, <3>2
  <2>3. CASE k # Len(s) + 1
    <3>1. k \in 1..Len(s)
      BY <2>1, <2>3
    <3>2. k > 1 /\ s[k - 1] = HeadOf(s[k].line)
      BY <2>1, <3>1 DEF Paired
    <3>3. k - 1 \in 1..Len(s)
      BY <2>1, <3>1, <3>2
    <3> QED
      BY <2>1, <3>1, <3>2, <3>3
  <2> QED
    BY <2>2, <2>3
<1> QED
  BY <1>1, <1>2, <1>3 DEF Grown

\* A transaction stores what it inserts and takes nothing away.
LEMMA InsertKeeps ==
    ASSUME StoredTypeOK, NEW s \in Seq(Cell), NEW E \in SUBSET Entries(s),
           InsertBatch(s, E), halved \subseteq halved'
    PROVE  /\ Kept \subseteq Kept'
           /\ \A i \in E : s[i].line \in Kept'
<1>1. stored \in [Lines -> 0..MaxStored] /\ MaxStored \in Nat /\ MaxStored > 1
  BY DEF StoredTypeOK
<1>2. \A i \in E : s[i].line \in Lines
  BY EntriesType DEF LinesAt
<1>3. ASSUME NEW l \in Lines
      PROVE  /\ stored[l] > 0 => stored'[l] > 0
             /\ (\E i \in E : s[i].line = l) => stored'[l] > 0
  BY <1>1 DEF InsertBatch
<1> QED
  BY <1>2, <1>3 DEF Kept

-----------------------------------------------------------------------------
(* Steps of the watcher.                                                   *)

\* The watcher touches no file; what it has kept it keeps.
LEMMA CursorFilesWorker ==
    ASSUME CursorInv, UNCHANGED <<dirVars, fileState>>, Kept \subseteq Kept', blind \subseteq blind',
           job'.fingerprint # <<>> => job'.fingerprint[1].line <= written,
           Plain(job'.path) => PastOrAt(job'.path, job'.fingerprint)
    PROVE  CursorFilesInv'
<1>1. UNCHANGED <<dir, data, written, fileState>>
  BY DEF dirVars
<1>2. ApartInv' /\ PairInv'
  BY <1>1 DEF CursorInv, CursorFilesInv, ApartInv, PairInv, Exists
<1>3. NumberedInv'
  BY <1>1 DEF CursorInv, CursorFilesInv, NumberedInv
<1>4. BlindInv'
  BY <1>1 DEF CursorInv, CursorFilesInv, BlindInv
<1>5. CursorRowInv'
  BY <1>1, SafeMore DEF CursorInv, CursorFilesInv, CursorRowInv, Exists
<1>6. LogsInv'
  BY <1>1 DEF CursorInv, CursorFilesInv, LogsInv, HeadsInv, PassedInv, PastOrAt, Exists
<1> QED
  BY <1>2, <1>3, <1>4, <1>5, <1>6 DEF CursorFilesInv

\* No log begins as an empty fingerprint.
LEMMA NothingHeaded == \A p : PastOrAt(p, <<>>)
BY DEF PastOrAt, Headed

\* What the worker knows of a log it keeps while it works on.
LEMMA SameFingerprint ==
    ASSUME CursorInv, job'.path = job.path, job'.fingerprint = job.fingerprint
    PROVE  /\ job'.fingerprint # <<>> => job'.fingerprint[1].line <= written
           /\ Plain(job'.path) => PastOrAt(job'.path, job'.fingerprint)
BY DEF CursorInv, CursorFilesInv, NumberedInv, LogsInv, PassedInv

\* The head of a file has been written.
LEMMA HeadIsWritten ==
    ASSUME CursorInv, NEW i \in Inodes, Fingerprint(data[i]) # <<>>
    PROVE  Fingerprint(data[i])[1].line <= written
<1>1. data[i] \in Seq(Cell)
  BY Types DEF CursorInv
<1>2. data[i] # <<>>
  <2> SUFFICES ASSUME data[i] = <<>> PROVE FALSE
    OBVIOUS
  <2>1. Fingerprint(data[i]) = SubSeq(<<>>, 1, 0)
    BY DEF Fingerprint, Prefix
  <2>2. SubSeq(<<>>, 1, 0) = <<>>
    BY SubSeqEmpty
  <2> QED
    BY <2>1, <2>2
<1>3. 1 \in DOMAIN data[i] /\ Fingerprint(data[i])[1] = data[i][1]
  BY <1>1, <1>2, FingerprintHeads
<1> QED
  BY <1>3 DEF CursorInv, CursorFilesInv, NumberedInv

\* The log that has a name is under no other.
LEMMA HeadIsPassed ==
    ASSUME CursorInv, NEW p \in Paths, Plain(p), Exists(p)
    PROVE  PastOrAt(p, Fingerprint(data[dir[p]]))
<1> DEFINE s == data[dir[p]]
           h == Fingerprint(s)
<1> SUFFICES ASSUME NEW q \in Paths, Source(q), q # p, Exists(q), Headed(data[dir[q]], h)
             PROVE  FALSE
  BY DEF PastOrAt
<1>1. s \in Seq(Cell)
  BY Types DEF CursorInv, Exists
<1>2. s # <<>> /\ h[1] = s[1]
  <2>1. h # <<>>
    BY DEF Headed
  <2> HIDE DEF s
  <2>2. s # <<>>
    <3> SUFFICES ASSUME s = <<>> PROVE FALSE
      OBVIOUS
    <3>1. h = SubSeq(<<>>, 1, 0)
      BY DEF Fingerprint, Prefix
    <3>2. SubSeq(<<>>, 1, 0) = <<>>
      BY SubSeqEmpty
    <3> QED
      BY <2>1, <3>1, <3>2
  <2> QED
    BY <1>1, <2>2, FingerprintHeads
<1> HIDE DEF h
<1>3. Headed(data[dir[q]], s)
  BY <1>2 DEF Headed
<1> QED
  BY <1>3 DEF CursorInv, CursorFilesInv, LogsInv, HeadsInv, Source

\* A watcher that handles no file has nothing to answer for.
LEMMA Resting ==
    ASSUME CursorInv, UNCHANGED <<dirVars, fileState>>, Kept \subseteq Kept', blind \subseteq blind',
           ~Handling', job' = NoJob \/ (job' = job /\ job.buf = <<>>),
           todo' \subseteq {p \in Paths : Visible(p)}
    PROVE  CursorFilesInv' /\ CursorStageInv' /\ JobInv'
<1>1. NoJob.fingerprint = <<>> /\ NoJob.buf = <<>>
  BY DEF NoJob
<1>2. job'.fingerprint # <<>> => job'.fingerprint[1].line <= written
  BY <1>1 DEF CursorInv, CursorFilesInv, NumberedInv
<1>3. CursorFilesInv'
  <2>1. CASE job' = NoJob
    BY <1>1, <1>2, <2>1, NothingHeaded, CursorFilesWorker
  <2>2. CASE job' = job
    BY <2>2, SameFingerprint, CursorFilesWorker
  <2> QED
    BY <2>1, <2>2
<1>4. CursorStageInv' /\ JobInv'
  BY <1>1 DEF CursorStageInv, JobInv, Handling
<1> QED
  BY <1>3, <1>4

\* os.Stat and GetFileState.
LEMMA CursorStatStep ==
    ASSUME CursorInv, StatFile
    PROVE  CursorFilesInv' /\ CursorStageInv' /\ JobInv'
<1>1. PICK p \in todo :
         /\ job' = [NoJob EXCEPT !.path = p, !.inode = dir[p],
                                 !.size = Len(data[dir[p]]), !.prev = fileState[p]]
         /\ pc' = IF p \in Compressed THEN "open" ELSE "fingerprint"
         /\ todo' = todo \ {p}
  BY DEF StatFile
<1>2. UNCHANGED <<dirVars, fileState, stored, halved, blind>>
  BY DEF StatFile, dbVars, auxVars
<1>3. /\ job'.path = p /\ job'.prev = fileState[p] /\ job'.buf = <<>>
      /\ job'.fingerprint = <<>>
  BY <1>1 DEF NoJob
<1>4. p \in Paths /\ Visible(p) /\ Kept' = Kept
  BY <1>2 DEF CursorInv, CursorStageInv, Kept
<1>5. CursorFilesInv'
  BY <1>2, <1>3, <1>4, NothingHeaded, CursorFilesWorker
<1>6. CursorStageInv'
  BY <1>1, <1>2, <1>3, <1>4 DEF CursorInv, CursorStageInv
<1>7. ~Same'
  BY <1>3 DEF Same, Headed
<1> QED
  BY <1>5, <1>6, <1>7 DEF JobInv

\* readFingerprint and the offset: the row was of this file if its fingerprint
\* is the file's, and the file is safe to the offset in it.
LEMMA CursorFingerprintStep ==
    ASSUME CursorInv, ReadFingerprint, ~(pc' = "walk")
    PROVE  CursorFilesInv' /\ CursorStageInv' /\ JobInv'
<1> DEFINE s == data[dir[job.path]]
           h == Fingerprint(s)
           from == Resume(job.prev, job.inode, job.size, h)
<1>1. /\ pc = "fingerprint" /\ Exists(job.path)
      /\ job' = [job EXCEPT !.fingerprint = h, !.offset = from]
      /\ pc' \in {"open", "commit"} /\ todo' = todo
      /\ UNCHANGED <<dirVars, fileState, stored, halved, blind>>
  BY DEF ReadFingerprint, NextFile, dbVars, auxVars
<1>2. /\ job'.path = job.path /\ job'.inode = job.inode /\ job'.prev = job.prev
      /\ job'.buf = job.buf /\ job.buf = <<>> /\ job'.fingerprint = h /\ job'.offset = from
      /\ job.path \in Paths /\ job.size \in Nat /\ job.prev \in Row \cup {NoRow}
      /\ Visible(job.path) /\ job.prev = fileState[job.path]
  BY <1>1, Types DEF CursorInv, CursorStageInv, Job, Handling
<1>3. dir[job.path] \in Inodes /\ s \in Seq(Cell) /\ Kept' = Kept
      /\ UNCHANGED <<dir, data>>
  BY <1>1, <1>2, Types DEF CursorInv, Exists, Kept, dirVars
<1>4. CursorFilesInv'
  <2>1. h # <<>> => h[1].line <= written
    BY <1>3, HeadIsWritten
  <2>2. Plain(job.path) => PastOrAt(job.path, h)
    BY <1>1, <1>2, HeadIsPassed
  <2> HIDE DEF h
  <2> QED
    BY <1>1, <1>2, <1>3, <2>1, <2>2, CursorFilesWorker
<1>5. CursorStageInv'
  BY <1>1, <1>2 DEF CursorInv, CursorStageInv, Handling
<1>6. ASSUME Same' PROVE SafeTo(s, from, Kept)
  <2>1. /\ job.path \notin Compressed /\ job.path \notin blind /\ dir[job.path] = job.inode
        /\ h # <<>> /\ s # <<>> /\ s[1] = h[1]
    BY <1>1, <1>2, <1>3, <1>6 DEF Same, Headed
  <2>2. CASE from = 0
    BY <1>3, <2>2, SafeToStart
  <2>3. CASE from # 0
    <3>1. /\ job.prev # NoRow /\ job.prev.inode = job.inode
          /\ from = job.prev.offset
          /\ job.prev.fingerprint = <<>> \/ h = job.prev.fingerprint
      BY <1>2, <2>3, ResumeMatches
    <3>2. job.prev.fingerprint # <<>>
      <4> SUFFICES ASSUME job.prev.fingerprint = <<>> PROVE FALSE
        OBVIOUS
      <4>1. Unguarded(job.prev)
        BY <1>2, <2>3, <3>1 DEF Unguarded, Row
      <4> QED
        BY <1>2, <2>1, <3>1, <4>1 DEF CursorInv, CursorFilesInv, BlindInv
    <3>3. Headed(s, job.prev.fingerprint)
      BY <2>1, <3>1, <3>2 DEF Headed
    <3> HIDE DEF s, h, from
    <3>4. /\ Plain(job.path) /\ fileState[job.path] # NoRow
          /\ fileState[job.path].inode = dir[job.path]
          /\ Headed(data[dir[job.path]], fileState[job.path].fingerprint)
      BY <1>2, <2>1, <3>1, <3>3 DEF Plain, s
    <3>5. SafeTo(data[dir[job.path]], fileState[job.path].offset, Kept)
      BY <1>1, <1>2, <2>1, <3>4 DEF CursorInv, CursorFilesInv, CursorRowInv
    <3> QED
      BY <1>2, <3>1, <3>5 DEF s
  <2> QED
    BY <2>2, <2>3
<1>7. Same' => data'[job'.inode] = s
  BY <1>2, <1>3 DEF Same
<1> HIDE DEF s, from
<1>8. JobInv'
  BY <1>1, <1>2, <1>3, <1>6, <1>7 DEF JobInv
<1> QED
  BY <1>4, <1>5, <1>8

\* os.Open and Seek.
LEMMA CursorOpenStep ==
    ASSUME CursorInv, OpenFile
    PROVE  CursorFilesInv' /\ CursorStageInv' /\ JobInv'
<1>1. /\ pc = "open" /\ pc' = "read" /\ todo' = todo
      /\ job' = [job EXCEPT !.fd = dir[job.path], !.pos = job.offset]
      /\ UNCHANGED <<dirVars, dir, data, fileState, stored, halved, blind>>
  BY DEF OpenFile, dirVars, dbVars, auxVars
<1>2. /\ job'.path = job.path /\ job'.inode = job.inode /\ job'.prev = job.prev
      /\ job'.buf = <<>> /\ job'.fingerprint = job.fingerprint
      /\ job'.fd = dir[job.path] /\ job'.pos = job.offset /\ job.offset \in Nat
  BY <1>1, Types DEF CursorInv, CursorStageInv, Job
<1>3. CursorFilesInv'
  BY <1>1, <1>2, SameFingerprint, CursorFilesWorker DEF Kept
<1>4. CursorStageInv'
  BY <1>1, <1>2 DEF CursorInv, CursorStageInv, Handling
<1>5. ASSUME Same' PROVE Scanned'
  <2>1. Same /\ dir[job.path] = job.inode /\ Kept' = Kept
    BY <1>1, <1>2, <1>5 DEF Same, Exists, Kept
  <2>2. SafeTo(data[job.inode], job.offset, Kept)
    BY <1>1, <2>1 DEF CursorInv, JobInv
  <2>3. Len(job'.buf) = 0 /\ job.offset - 0 = job.offset /\ DOMAIN job'.buf = {}
    BY <1>2
  <2>4. job.offset <= Len(data[job.inode])
    BY <2>2 DEF SafeTo
  <2> QED
    BY <1>1, <1>2, <2>1, <2>2, <2>3, <2>4 DEF Scanned
<1>6. JobInv'
  BY <1>1, <1>5 DEF JobInv
<1> QED
  BY <1>3, <1>4, <1>6

\* The scanner fills its buffer: the buffer goes on where the file was read to.
LEMMA CursorReadStep ==
    ASSUME CursorInv, ReadChunk
    PROVE  CursorFilesInv' /\ CursorStageInv' /\ JobInv'
<1> DEFINE s == data[job.fd]
           c == Chunk(s, job.pos)
<1>1. /\ pc = "read" /\ pc' = "read" /\ todo' = todo /\ ~AtEOF
      /\ job' = [job EXCEPT !.buf = job.buf \o c, !.pos = job.pos + Len(c)]
      /\ UNCHANGED <<dirVars, dir, data, fileState, stored, halved, blind>>
  BY DEF ReadChunk, dirVars, dbVars, auxVars
<1>2. /\ job'.path = job.path /\ job'.inode = job.inode /\ job'.prev = job.prev
      /\ job'.fd = job.fd /\ job'.fingerprint = job.fingerprint
      /\ job'.buf = job.buf \o c /\ job'.pos = job.pos + Len(c)
      /\ job.pos \in Nat /\ job.buf \in Seq(Cell) /\ job.fd \in Inodes /\ s \in Seq(Cell)
  BY <1>1, Types DEF CursorInv, Job
<1>3. /\ c \in Seq(Cell) /\ job.pos + Len(c) <= Len(s)
      /\ \A i \in 1..Len(c) : c[i] = s[job.pos + i]
  <2>1. job.pos < Len(s)
    <3>1. Len(s) \in Nat /\ ~(job.pos >= Len(s))
      BY <1>1, <1>2 DEF AtEOF
    <3> QED
      BY <1>2, <3>1
  <2> HIDE DEF s
  <2> QED
    BY <1>2, <2>1, ChunkIsNext
<1>4. CursorFilesInv'
  BY <1>1, <1>2, SameFingerprint, CursorFilesWorker DEF Kept
<1>5. CursorStageInv'
  BY <1>1, <1>2 DEF CursorInv, CursorStageInv, Handling
<1>6. ASSUME Same' PROVE Scanned'
  <2>1. Same /\ Kept' = Kept
    BY <1>1, <1>2, <1>6 DEF Same, Exists, Kept
  <2>2. /\ job.fd = job.inode
        /\ job.pos <= Len(s) /\ Len(job.buf) <= job.pos
        /\ \A m \in DOMAIN job.buf : job.buf[m] = s[job.pos - Len(job.buf) + m]
        /\ SafeTo(s, job.pos - Len(job.buf), Kept)
    BY <1>1, <2>1 DEF CursorInv, JobInv, Scanned
  <2> HIDE DEF s, c
  <2> DEFINE b == job.buf
             t == job'.buf
  <2>3. /\ Len(t) = Len(b) + Len(c) /\ Len(b) \in Nat /\ Len(c) \in Nat
        /\ DOMAIN b = 1..Len(b) /\ DOMAIN t = 1..Len(t)
        /\ \A m \in 1..Len(t) : t[m] = IF m <= Len(b) THEN b[m] ELSE c[m - Len(b)]
    <3>1. b \in Seq(Cell) /\ c \in Seq(Cell) /\ t = b \o c
      BY <1>2, <1>3
    <3> HIDE DEF b, t
    <3> QED
      BY <3>1, ConcatProperties
  <2>4. job'.pos - Len(t) = job.pos - Len(b)
    BY <1>2, <2>3
  <2>5. ASSUME NEW m \in DOMAIN t PROVE t[m] = s[job'.pos - Len(t) + m]
    <3>1. CASE m <= Len(b)
      <4>1. m \in DOMAIN b /\ t[m] = b[m]
        BY <2>3, <2>5, <3>1
      <4> QED
        BY <2>2, <2>4, <4>1
    <3>2. CASE ~(m <= Len(b))
      <4>1. m - Len(b) \in 1..Len(c) /\ t[m] = c[m - Len(b)]
        BY <2>3, <2>5, <3>2
      <4>2. t[m] = s[job.pos + (m - Len(b))]
        BY <1>3, <4>1
      <4>3. job.pos + (m - Len(b)) = job.pos - Len(b) + m
        BY <1>2, <2>3, <2>5
      <4> QED
        BY <2>4, <4>2, <4>3
    <3> QED
      BY <3>1, <3>2
  <2>6. job'.pos <= Len(s) /\ Len(t) <= job'.pos
    BY <1>2, <1>3, <2>2, <2>3
  <2>7. data'[job'.inode] = s /\ job'.fd = job'.inode
    BY <1>1, <1>2, <2>2 DEF s
  <2>8. SafeTo(s, job'.pos - Len(t), Kept')
    BY <2>1, <2>2, <2>4
  <2> QED
    BY <2>5, <2>6, <2>7, <2>8 DEF Scanned
<1>7. JobInv'
  BY <1>1, <1>6 DEF JobInv
<1> QED
  BY <1>4, <1>5, <1>7

\* A transaction for the first n cells of the buffer: the file is safe so far.
LEMMA InsertIsSafe ==
    ASSUME CursorInv, pc = "read", Same, NEW n \in 0..Len(job.buf),
           NEW E \in SUBSET Entries(job.buf), InsertBatch(job.buf, E), halved \subseteq halved',
           \A m \in 1..n : Completes(job.buf, m) => m \in E,
           n > 0 /\ job.buf[n].part = "head" => job.buf[n].line \in halved'
    PROVE  SafeTo(data[job.inode], job.pos - Len(job.buf) + n, Kept')
<1> DEFINE s == data[job.inode]
           b == job.pos - Len(job.buf)
<1>1. /\ job.pos \in Nat /\ job.buf \in Seq(Cell) /\ job.path \in Paths
      /\ job.inode \in Inodes /\ s \in Seq(Cell) /\ Visible(job.path)
  BY Types DEF CursorInv, CursorStageInv, Handling, Job
<1>2. /\ job.pos <= Len(s) /\ Len(job.buf) <= job.pos
      /\ \A m \in DOMAIN job.buf : job.buf[m] = s[b + m]
      /\ SafeTo(s, b, Kept)
  BY DEF CursorInv, JobInv, Scanned
<1>3. Paired(s)
  BY <1>1 DEF CursorInv, CursorFilesInv, PairInv, Same, Plain, Source
<1> HIDE DEF s
<1>4. Len(s) \in Nat /\ Len(job.buf) \in Nat /\ DOMAIN job.buf = 1..Len(job.buf) /\ n \in Nat
  BY <1>1
<1>5. b \in Nat /\ b + n <= Len(s) /\ n <= Len(job.buf)
  BY <1>1, <1>2, <1>4
<1>6. \A m \in 1..n : m \in DOMAIN job.buf
  BY <1>4, <1>5
<1>7. Kept \subseteq Kept' /\ \A m \in E : job.buf[m].line \in Kept'
  BY <1>1, InsertKeeps DEF CursorInv, TypeOK, DbTypeOK
<1>8. n > 0 /\ job.buf[n].part = "head" => job.buf[n].line \in Kept'
  <2> SUFFICES ASSUME n > 0, job.buf[n].part = "head" PROVE job.buf[n].line \in Lines
    BY DEF Kept
  <2>1. job.buf[n] \in Cell
    BY <1>1, <1>4, <1>6
  <2> QED
    BY <2>1 DEF Cell, Trailer
<1>9. \A m \in 1..n : /\ job.buf[m] = s[b + m]
                      /\ Completes(job.buf, m) => job.buf[m].line \in Kept'
  BY <1>2, <1>6, <1>7
<1> HIDE DEF b
<1>10. SafeTo(s, b + n, Kept')
  BY <1>1, <1>2, <1>3, <1>5, <1>7, <1>8, <1>9, SafeFurther
<1> QED
  BY <1>10 DEF s, b

\* A full batch is inserted.
LEMMA CursorFlushStep ==
    ASSUME CursorInv, FlushBatch
    PROVE  CursorFilesInv' /\ CursorStageInv' /\ JobInv'
<1> DEFINE batch(k) == {i \in Entries(job.buf) : i <= k}
<1>1. PICK d \in DOMAIN job.buf :
         /\ EndsBatch(job.buf, d)
         /\ InsertBatch(job.buf, batch(d))
         /\ job' = [job EXCEPT !.buf = SubSeq(job.buf, d + 1, Len(job.buf)),
                               !.inserted = job.inserted \cup LinesAt(job.buf, batch(d))]
  BY DEF FlushBatch
<1>2. /\ pc = "read" /\ pc' = "read" /\ todo' = todo
      /\ UNCHANGED <<dirVars, dir, data, fileState, halved, blind>>
  BY DEF FlushBatch, dirVars, auxVars
<1> DEFINE E == batch(d)
           r == SubSeq(job.buf, d + 1, Len(job.buf))
<1>3. /\ job'.path = job.path /\ job'.inode = job.inode /\ job'.prev = job.prev
      /\ job'.fd = job.fd /\ job'.fingerprint = job.fingerprint
      /\ job'.buf = r /\ job'.pos = job.pos
      /\ job.pos \in Nat /\ job.buf \in Seq(Cell)
  BY <1>1, Types DEF CursorInv, Job
<1>4. /\ d \in 0..Len(job.buf) /\ Len(job.buf) \in Nat /\ DOMAIN job.buf = 1..Len(job.buf)
      /\ r \in Seq(Cell) /\ Len(r) = Len(job.buf) - d
      /\ \A i \in 1..Len(r) : r[i] = job.buf[d + i]
  <2>1. d \in 0..Len(job.buf) /\ Len(job.buf) \in Nat /\ DOMAIN job.buf = 1..Len(job.buf)
    BY <1>3
  <2> QED
    BY <1>3, <2>1, RestIs
<1>5. E \in SUBSET Entries(job.buf) /\ InsertBatch(job.buf, E)
  BY <1>1
<1>6. /\ \A m \in 1..d : Completes(job.buf, m) => m \in E
      /\ job.buf[d].part # "head"
  <2>1. d \in Entries(job.buf)
    BY <1>1 DEF EndsBatch
  <2>2. /\ Completes(job.buf, d)
        /\ \A j \in 1..d : job.buf[j].line \notin Oversize
    BY <2>1 DEF Entries
  <2>3. ASSUME NEW m \in 1..d, Completes(job.buf, m) PROVE m \in E
    <3>1. m \in DOMAIN job.buf /\ m <= d /\ \A j \in 1..m : j \in 1..d
      BY <1>4
    <3> QED
      BY <2>2, <2>3, <3>1 DEF Entries
  <2> QED
    BY <2>2, <2>3 DEF Completes
<1> HIDE DEF E, r
<1>7. Kept \subseteq Kept'
  BY <1>2, <1>3, <1>5, InsertKeeps DEF CursorInv, TypeOK, DbTypeOK
<1>8. CursorFilesInv'
  BY <1>2, <1>3, <1>7, SameFingerprint, CursorFilesWorker
<1>9. CursorStageInv'
  BY <1>2, <1>3 DEF CursorInv, CursorStageInv, Handling
<1>10. ASSUME Same' PROVE Scanned'
  <2> DEFINE s == data[job.inode]
             b == job.buf
  <2>1. Same
    BY <1>2, <1>3, <1>10 DEF Same, Exists
  <2>2. /\ job.fd = job.inode
        /\ job.pos <= Len(s) /\ Len(b) <= job.pos
        /\ \A m \in DOMAIN b : b[m] = s[job.pos - Len(b) + m]
    BY <1>2, <2>1 DEF CursorInv, JobInv, Scanned
  <2>3. SafeTo(s, job.pos - Len(b) + d, Kept')
    BY <1>2, <1>4, <1>5, <1>6, <2>1, InsertIsSafe
  <2> HIDE DEF s, b
  <2>4. Len(b) \in Nat /\ d \in Nat /\ d <= Len(b) /\ Len(r) = Len(b) - d /\ DOMAIN r = 1..Len(r)
        /\ DOMAIN b = 1..Len(b) /\ \A i \in 1..Len(r) : r[i] = b[d + i]
    BY <1>4 DEF b
  <2>5. job.pos - Len(r) = job.pos - Len(b) + d /\ Len(r) <= job.pos
    BY <1>3, <2>2, <2>4
  <2>6. ASSUME NEW m \in DOMAIN r PROVE r[m] = s[job.pos - Len(r) + m]
    <3>0. m \in Nat /\ 1 <= m /\ m <= Len(b) - d /\ m \in 1..Len(r)
      BY <2>4, <2>6
    <3>1. m \in Nat /\ d + m \in DOMAIN b /\ r[m] = b[d + m]
      <4>1. d + m \in 1..Len(b)
        BY <2>4, <3>0
      <4> QED
        BY <2>4, <3>0, <4>1
    <3>2. job.pos - Len(r) + m = job.pos - Len(b) + (d + m)
      BY <1>3, <2>4, <3>1
    <3> QED
      BY <2>2, <3>1, <3>2
  <2>7. data'[job'.inode] = s
    BY <1>2, <1>3 DEF s
  <2> QED
    BY <1>3, <2>2, <2>3, <2>5, <2>6, <2>7 DEF Scanned
<1>11. JobInv'
  BY <1>2, <1>10 DEF JobInv
<1> QED
  BY <1>8, <1>9, <1>11

\* The rest is inserted, and a half line at the end is cut in two.
LEMMA CursorFinishStep ==
    ASSUME CursorInv, FinishPlain
    PROVE  CursorFilesInv' /\ CursorStageInv' /\ JobInv'
<1> DEFINE E == Entries(job.buf)
<1>1. /\ pc = "read" /\ pc' = "commit" /\ todo' = todo /\ ~TooLong(job.buf)
      /\ InsertBatch(job.buf, E) /\ halved' = halved \cup HalfLine(job.buf)
      /\ job' = [job EXCEPT !.offset = job.pos, !.fd = NoInode, !.buf = <<>>,
                            !.inserted = job.inserted \cup LinesAt(job.buf, E)]
      /\ UNCHANGED <<dirVars, dir, data, fileState, blind>>
  BY DEF FinishPlain, dirVars
<1>2. /\ job'.path = job.path /\ job'.inode = job.inode /\ job'.prev = job.prev
      /\ job'.fingerprint = job.fingerprint
      /\ job'.buf = <<>> /\ job'.offset = job.pos
      /\ job.pos \in Nat /\ job.buf \in Seq(Cell)
  BY <1>1, Types DEF CursorInv, Job
<1>3. /\ Len(job.buf) \in Nat /\ DOMAIN job.buf = 1..Len(job.buf)
      /\ Len(job.buf) \in 0..Len(job.buf)
  BY <1>2
<1>4. \A m \in 1..Len(job.buf) : Completes(job.buf, m) => m \in E
  <2>1. \A j \in DOMAIN job.buf : job.buf[j].line \notin Oversize
    BY <1>1 DEF TooLong
  <2> TAKE m \in 1..Len(job.buf)
  <2>2. m \in DOMAIN job.buf /\ \A j \in 1..m : j \in DOMAIN job.buf
    BY <1>3
  <2> QED
    BY <2>1, <2>2 DEF Entries
<1>5. LET n == Len(job.buf) IN
         n > 0 /\ job.buf[n].part = "head" => job.buf[n].line \in halved'
  <2>1. Len(job.buf) > 0 => Len(job.buf) \in DOMAIN job.buf
    BY <1>3
  <2> QED
    BY <1>1, <2>1 DEF HalfLine
<1> HIDE DEF E
<1>6. E \in SUBSET Entries(job.buf) /\ halved \subseteq halved'
  BY <1>1 DEF E
<1>7. Kept \subseteq Kept'
  BY <1>1, <1>2, <1>6, InsertKeeps DEF CursorInv, TypeOK, DbTypeOK
<1>8. CursorFilesInv'
  BY <1>1, <1>2, <1>7, SameFingerprint, CursorFilesWorker
<1>9. CursorStageInv'
  BY <1>1, <1>2 DEF CursorInv, CursorStageInv, Handling
<1>10. ASSUME Same' PROVE SafeTo(data'[job'.inode], job'.offset, Kept')
  <2>1. Same
    BY <1>1, <1>2, <1>10 DEF Same, Exists
  <2>2. SafeTo(data[job.inode], job.pos - Len(job.buf) + Len(job.buf), Kept')
    BY <1>1, <1>3, <1>4, <1>5, <1>6, <2>1, InsertIsSafe
  <2>3. job.pos - Len(job.buf) + Len(job.buf) = job.pos
    BY <1>2, <1>3
  <2> QED
    BY <1>1, <1>2, <2>2, <2>3
<1>11. JobInv'
  BY <1>1, <1>10 DEF JobInv
<1> QED
  BY <1>8, <1>9, <1>11

\* An archive is read to its end, or in vain.
LEMMA ArchiveStep ==
    ASSUME CursorInv, FinishArchive
    PROVE  CursorFilesInv' /\ CursorStageInv' /\ JobInv'
<1>1. /\ pc = "read" /\ job.path \in Compressed
      /\ InsertBatch(job.buf, Entries(job.buf))
      /\ UNCHANGED <<dirVars, dir, data, fileState, halved, blind>>
  BY DEF FinishArchive, dirVars
<1>2. job.buf \in Seq(Cell) /\ job.path \in Paths /\ job \in Job
  BY Types DEF CursorInv, Job
<1>3. Kept \subseteq Kept'
  BY <1>1, <1>2, InsertKeeps DEF CursorInv, TypeOK, DbTypeOK
<1>4. CASE pc' = "commit"
  <2>1. /\ job'.path = job.path /\ job'.prev = job.prev /\ job'.buf = <<>>
        /\ job'.fingerprint = IF Exists(job.path) THEN Fingerprint(data[dir[job.path]]) ELSE <<>>
        /\ todo' = todo
    BY <1>2, <1>4 DEF FinishArchive, NextFile, Job
  <2>2. job'.fingerprint # <<>> => job'.fingerprint[1].line <= written
    <3>1. Exists(job.path) => dir[job.path] \in Inodes
      BY <1>2, Types DEF CursorInv, Exists
    <3> QED
      BY <2>1, <3>1, HeadIsWritten
  <2>3. CursorFilesInv'
    BY <1>1, <1>3, <2>1, <2>2, CursorFilesWorker DEF Plain
  <2>4. CursorStageInv'
    BY <1>1, <1>4, <2>1 DEF CursorInv, CursorStageInv, Handling
  <2>5. ~Same'
    BY <1>1, <2>1 DEF Same
  <2> QED
    BY <2>3, <2>4, <2>5 DEF JobInv
<1>5. CASE pc' # "commit"
  <2>1. pc' = "walk" /\ job' = NoJob /\ todo' = todo
    BY <1>5 DEF FinishArchive, NextFile
  <2> QED
    BY <1>1, <1>3, <2>1, Resting DEF Handling, CursorInv, CursorStageInv
<1> QED
  BY <1>4, <1>5

\* UpsertFileState: the file is safe to the row's offset, or it is another one.
LEMMA CursorCommitStep ==
    ASSUME CursorInv, CommitRow
    PROVE  CursorFilesInv' /\ CursorStageInv' /\ JobInv'
<1>1. /\ pc = "commit" /\ pc' = "walk" /\ todo' = todo /\ job' = NoJob
      /\ fileState' = [fileState EXCEPT ![job.path] = RowOf(job)]
      /\ blind' = IF Unguarded(RowOf(job)) THEN blind \cup {job.path} ELSE blind
      /\ UNCHANGED <<dir, data, written, stored, halved>>
  BY DEF CommitRow, NextFile, dirVars
<1>2. /\ job.path \in Paths /\ Visible(job.path)
      /\ fileState'[job.path] = RowOf(job)
      /\ \A p \in Paths : p # job.path => fileState'[p] = fileState[p]
      /\ RowOf(job).inode = job.inode /\ RowOf(job).offset = job.offset
      /\ RowOf(job).fingerprint = job.fingerprint
      /\ NoJob.fingerprint = <<>> /\ NoJob.buf = <<>> /\ Kept' = Kept
  BY <1>1, Types DEF CursorInv, CursorStageInv, Job, Handling, RowOf, NoJob, Kept
<1>3. ApartInv' /\ PairInv'
  BY <1>1 DEF CursorInv, CursorFilesInv, ApartInv, PairInv, Exists
<1>4. NumberedInv'
  <2>1. ASSUME NEW p \in Paths, fileState'[p] # NoRow, fileState'[p].fingerprint # <<>>
        PROVE  fileState'[p].fingerprint[1].line <= written
    <3>1. CASE p = job.path
      BY <1>2, <2>1, <3>1 DEF CursorInv, CursorFilesInv, NumberedInv
    <3>2. CASE p # job.path
      BY <1>2, <2>1, <3>2 DEF CursorInv, CursorFilesInv, NumberedInv
    <3> QED
      BY <3>1, <3>2
  <2> QED
    BY <1>1, <1>2, <2>1 DEF CursorInv, CursorFilesInv, NumberedInv
<1>5. BlindInv'
  BY <1>1, <1>2 DEF CursorInv, CursorFilesInv, BlindInv, Unguarded
<1>6. CursorRowInv'
  <2> SUFFICES ASSUME NEW p \in Paths, Plain(p), Exists(p), p \notin blind',
                      fileState'[p] # NoRow, fileState'[p].inode = dir[p],
                      Headed(data[dir[p]], fileState'[p].fingerprint)
               PROVE  SafeTo(data[dir[p]], fileState'[p].offset, Kept)
    BY <1>1, <1>2 DEF CursorRowInv, Exists
  <2>1. p \notin blind
    BY <1>1
  <2>2. CASE p = job.path
    <3>1. Same
      BY <1>2, <2>1, <2>2 DEF Same, Plain
    <3> QED
      BY <1>1, <1>2, <2>2, <3>1 DEF CursorInv, JobInv
  <2>3. CASE p # job.path
    BY <1>2, <2>1, <2>3 DEF CursorInv, CursorFilesInv, CursorRowInv
  <2> QED
    BY <2>2, <2>3
<1>7. CursorStageInv' /\ JobInv'
  BY <1>1, <1>2 DEF CursorInv, CursorStageInv, JobInv, Handling
<1>8. HeadsInv'
  BY <1>1 DEF CursorInv, CursorFilesInv, LogsInv, HeadsInv, Exists
<1>9. PassedInv'
  <2>1. \A p, h : PastOrAt(p, h)' <=> PastOrAt(p, h)
    BY <1>1 DEF PastOrAt, Exists
  <2>2. PastOrAt(NoJob.path, NoJob.fingerprint)'
    BY <1>2, <2>1, NothingHeaded
  <2>3. ASSUME NEW p \in Paths, Plain(p), fileState'[p] # NoRow
        PROVE  PastOrAt(p, fileState'[p].fingerprint)
    BY <1>2, <2>3 DEF CursorInv, CursorFilesInv, LogsInv, PassedInv
  <2> QED
    BY <1>1, <2>1, <2>2, <2>3 DEF PassedInv
<1> QED
  BY <1>3, <1>4, <1>5, <1>6, <1>7, <1>8, <1>9 DEF CursorFilesInv, LogsInv

-----------------------------------------------------------------------------
(* Steps of the servers and the rotator.                                   *)

\* The log of q went to its rotated name p, by a rename or as a copy.
Rotated(q, p) ==
    /\ p = RotatedName[q] /\ Exists(q)
    /\ data'[dir'[p]] = data[dir[q]]
    /\ dir'[q] = NoInode \/ data'[dir'[q]] = <<>>

\* What they do to the directory: a name that has a file afterwards has an
\* empty one, or the one it had, which has only grown, or the log that was
\* rotated to it; and one file grows at most.
Renews ==
    /\ ApartInv'
    /\ written <= written'
    /\ \A i \in Inodes : \A k \in DOMAIN data'[i] : data'[i][k].line <= written'
    /\ \A p \in Paths : Source(p) /\ dir'[p] # NoInode =>
          \/ data'[dir'[p]] = <<>>
          \/ /\ Exists(p) /\ dir'[p] = dir[p]
             /\ Grown(data[dir[p]], data'[dir[p]], written)
          \/ \E q \in Rotating : Rotated(q, p)
    /\ \E i \in Inodes \cup {NoInode} : \A p \in Paths :
          Source(p) /\ Exists(p) /\ dir'[p] = dir[p] /\ dir[p] # i =>
              data'[dir[p]] \in {data[dir[p]], <<>>}

\* The hypothesis holds of every rotation with one generation of plain logs.
LEMMA OneGeneration ==
    ASSUME \A q \in Rotating : RotatedName[q] \notin Rotating /\ ~Source(ArchiveName[q])
    PROVE  LogsGrowOld
<1> DEFINE age == [p \in Paths |-> IF p \in Rotating THEN 0 ELSE 1]
<1>1. age \in [Paths -> Nat]
  OBVIOUS
<1>2. \A q \in Rotating : age[q] < age[RotatedName[q]]
  <2> TAKE q \in Rotating
  <2>1. q \in Paths /\ RotatedName[q] \in Paths
    OBVIOUS
  <2> QED
    BY <2>1
<1> HIDE DEF age
<1>3. age \in Ages
  BY <1>1, <1>2 DEF Ages
<1> QED
  BY <1>3 DEF LogsGrowOld

\* Rotation takes a log to a later name.
LEMMA AgeIsOrder ==
    ASSUME LogsGrowOld
    PROVE  /\ Age \in [Paths -> Nat]
           /\ \A q \in Rotating : /\ q \in Paths /\ RotatedName[q] \in Paths
                                  /\ Age[q] < Age[RotatedName[q]] /\ RotatedName[q] # q
<1>1. Age \in Ages
  BY DEF Age, LogsGrowOld
<1> QED
  BY <1>1 DEF Ages

\* A name that gets a file from the rotator, and is not an archive's, gets the
\* log it rotates.
LEMMA RotationMoves ==
    ASSUME CursorInv, NEW q \in Rotating, Rotate(q, Held), NEW p \in Paths, Source(p),
           dir'[p] # NoInode, dir'[p] # dir[p]
    PROVE  Rotated(q, p)
<1>1. /\ dir \in [Paths -> Inodes \cup {NoInode}] /\ data \in [Inodes -> Seq(Cell)]
      /\ q \in Paths /\ RotatedName[q] \in Paths /\ RotatedName[q] # q
      /\ ArchiveName[q] \in Paths /\ p # ArchiveName[q]
  BY Types, AgeIsOrder DEF CursorInv, LogsGrowOld
<1>2. CASE Rename(q)
  <2>1. /\ Exists(q) /\ data' = data
        /\ dir' = [dir EXCEPT ![q] = NoInode, ![RotatedName[q]] = dir[q]]
    BY <1>2 DEF Rename
  <2>2. p = RotatedName[q] /\ dir'[q] = NoInode /\ dir'[p] = dir[q]
    BY <1>1, <2>1
  <2> QED
    BY <2>1, <2>2 DEF Rotated
<1>3. CASE CopyTruncate(q, Held)
  <2>1. PICK i \in Free(Held) :
           /\ dir' = [dir EXCEPT ![RotatedName[q]] = i]
           /\ data' = [data EXCEPT ![i] = data[dir[q]], ![dir[q]] = <<>>]
    BY <1>3 DEF CopyTruncate
  <2>2. Exists(q) /\ dir[q] \in Inodes /\ i \in Inodes /\ i # dir[q]
    BY <1>1, <1>3 DEF CopyTruncate, Exists, Free
  <2>3. p = RotatedName[q] /\ dir'[p] = i /\ dir'[q] = dir[q]
    BY <1>1, <2>1
  <2>4. data'[i] = data[dir[q]] /\ data'[dir[q]] = <<>>
    BY <1>1, <2>1, <2>2
  <2> QED
    BY <2>2, <2>3, <2>4 DEF Rotated
<1>4. CASE StartCompress(q, Held)
  BY <1>1, <1>4 DEF StartCompress
<1>5. CASE CompressCell(q)
  BY <1>1, <1>5 DEF CompressCell
<1>6. CASE PublishArchive(q, Held)
  BY <1>1, <1>6 DEF PublishArchive
<1> QED
  BY <1>2, <1>3, <1>4, <1>5, <1>6 DEF Rotate

\* A cell that a server adds makes the file one that has only grown.
LEMMA ContinuesGrown ==
    ASSUME NEW s \in Seq(Cell), NEW c \in Cell, NEW w \in Nat, Continues(s, c, w)
    PROVE  Grown(s, Append(s, c), w)
<1>1. CASE c.line = w + 1 /\ c.part # "tail"
  BY <1>1 DEF Grown
<1>2. CASE s # <<>> /\ s[Len(s)].part = "head" /\ c.part = "tail" /\ c.line = s[Len(s)].line
  <2>1. s[Len(s)] \in Cell
    BY <1>2
  <2>2. s[Len(s)] = HeadOf(c.line)
    BY <1>2, <2>1 DEF Cell, Trailer, HeadOf
  <2> QED
    BY <1>2, <2>2 DEF Grown
<1> QED
  BY <1>1, <1>2 DEF Continues

\* Every step of a server or the rotator does no more than that.
LEMMA DirectoryRenews ==
    ASSUME CursorInv, \/ \E q \in Live : Serve(q, Held)
                \/ \E q \in Rotating : Rotate(q, Held)
    PROVE  Renews
<1>1. Effect(Held)
  <2>1. DirTypeOK /\ ApartInv /\ CellsWritten
    BY DEF CursorInv, TypeOK, CursorFilesInv, NumberedInv, CellsWritten
  <2> QED
    BY <2>1, DirectoryHasEffect
<1>2. /\ data \in [Inodes -> Seq(Cell)] /\ dir \in [Paths -> Inodes \cup {NoInode}]
      /\ written \in Nat
  BY Types DEF CursorInv
<1>3. ASSUME NEW p \in Paths, Source(p), Exists(p)
      PROVE  /\ dir[p] \in Inodes /\ dir[p] \notin Free(Held) /\ data[dir[p]] \in Seq(Cell)
             /\ \A q \in Rotating : dir[ArchiveName[q]] # dir[p]
  <2>1. dir[p] \in Inodes /\ dir[p] \notin Free(Held) /\ data[dir[p]] \in Seq(Cell)
    BY <1>2, <1>3 DEF Exists, Free
  <2>2. \A q \in Rotating : p # ArchiveName[q] /\ ArchiveName[q] \in Paths
    BY <1>3 DEF CursorInv, LogsGrowOld
  <2> QED
    BY <1>3, <2>1, <2>2 DEF CursorInv, CursorFilesInv, ApartInv
<1>4. PICK i \in Inodes \cup {NoInode} :
         /\ i # NoInode => \E c \in Cell : /\ Continues(data[i], c, written)
                                          /\ data' = [data EXCEPT ![i] = Append(data[i], c)]
         /\ \A p \in Paths : Source(p) /\ Exists(p) /\ dir[p] # i =>
               data'[dir[p]] \in {data[dir[p]], <<>>}
  <2>1. CASE Grows
    <3>1. PICK i \in Inodes, c \in Cell :
             /\ Continues(data[i], c, written)
             /\ data' = [data EXCEPT ![i] = Append(data[i], c)]
      BY <2>1 DEF Grows
    <3>2. \A p \in Paths : Source(p) /\ Exists(p) /\ dir[p] # i => data'[dir[p]] = data[dir[p]]
      BY <1>2, <1>3, <3>1
    <3> QED
      BY <3>1, <3>2
  <2>2. CASE Keeps(Held)
    BY <1>3, <2>2 DEF Keeps
  <2> QED
    BY <1>1, <2>1, <2>2 DEF Effect
<1>5. ASSUME NEW p \in Paths, Source(p), dir'[p] # NoInode
      PROVE  \/ data'[dir'[p]] = <<>>
             \/ /\ Exists(p) /\ dir'[p] = dir[p]
                /\ Grown(data[dir[p]], data'[dir[p]], written)
             \/ \E q \in Rotating : Rotated(q, p)
  <2>1. CASE dir'[p] = dir[p]
    <3>1. Exists(p) /\ dir[p] \in Inodes /\ data[dir[p]] \in Seq(Cell)
      BY <1>3, <1>5, <2>1 DEF Exists
    <3>2. CASE dir[p] # i
      BY <1>4, <1>5, <2>1, <3>1, <3>2 DEF Grown
    <3>3. CASE dir[p] = i
      <4> DEFINE t == data[i]
      <4>1. PICK c \in Cell : Continues(t, c, written) /\ data' = [data EXCEPT ![i] = Append(t, c)]
        BY <1>4, <3>1, <3>3
      <4>2. /\ data'[i] = Append(t, c) /\ t \in Seq(Cell) /\ written \in Nat
            /\ c \in Cell /\ Continues(t, c, written)
        BY <1>2, <3>1, <3>3, <4>1
      <4> HIDE DEF t
      <4>3. Grown(t, Append(t, c), written)
        BY <4>2, ContinuesGrown
      <4> QED
        BY <2>1, <3>1, <3>3, <4>2, <4>3 DEF t
    <3> QED
      BY <3>2, <3>3
  <2>2. CASE dir'[p] # dir[p]
    <3>1. ASSUME NEW q \in Live, Serve(q, Held) PROVE data'[dir'[p]] = <<>>
      <4>1. OpenLog(q, Held)
        BY <2>2, <3>1 DEF Serve, WriteLine, WriteHead, WriteTail, Write
      <4>2. PICK n \in Free(Held) : /\ dir' = [dir EXCEPT ![q] = n]
                                    /\ data' = [data EXCEPT ![n] = <<>>]
        BY <4>1 DEF OpenLog
      <4> QED
        BY <1>2, <2>2, <4>2 DEF Free
    <3> QED
      BY <1>5, <2>2, <3>1, RotationMoves
  <2> QED
    BY <2>1, <2>2
<1> QED
  BY <1>1, <1>4, <1>5 DEF Effect, CellsWritten, Renews

\* A log that a name has now and that was begun before: which it was.
LEMMA OldLog ==
    ASSUME CursorInv, Renews, NEW p \in Paths, Source(p), dir'[p] # NoInode,
           NEW h, Headed(data'[dir'[p]], h), h[1].line <= written
    PROVE  \/ /\ Exists(p) /\ dir'[p] = dir[p] /\ dir[p] \in Inodes
              /\ Grown(data[dir[p]], data'[dir[p]], written)
              /\ Headed(data[dir[p]], h)
           \/ \E q \in Rotating :
                 /\ Rotated(q, p) /\ Source(q) /\ q \in Paths
                 /\ Age[q] < Age[p] /\ Headed(data[dir[q]], h)
<1>1. data'[dir'[p]] # <<>> /\ written \in Nat
  BY Types DEF Headed, CursorInv
<1>2. CASE /\ Exists(p) /\ dir'[p] = dir[p]
           /\ Grown(data[dir[p]], data'[dir[p]], written)
  <2>1. dir[p] \in Inodes /\ data[dir[p]] \in Seq(Cell)
    BY <1>2, Types DEF CursorInv, Exists
  <2>2. Headed(data[dir[p]], h)
    BY <1>1, <1>2, <2>1, GrownKeeps
  <2> QED
    BY <1>2, <2>1, <2>2
<1>3. ASSUME NEW q \in Rotating, Rotated(q, p)
      PROVE  Source(q) /\ q \in Paths /\ Age[q] < Age[p] /\ Headed(data[dir[q]], h)
  BY <1>3, AgeIsOrder DEF Rotated, Source, CursorInv
<1> QED
  BY <1>1, <1>2, <1>3 DEF Renews

\* What was passed stays passed.
LEMMA PassedStays ==
    ASSUME CursorInv, Renews, NEW p \in Paths, NEW h, PastOrAt(p, h), h # <<>> => h[1].line <= written
    PROVE  \A q \in Paths : Source(q) /\ q # p /\ dir'[q] # NoInode /\ Age[q] <= Age[p] =>
               ~Headed(data'[dir'[q]], h)
<1> SUFFICES ASSUME NEW q \in Paths, Source(q), q # p, dir'[q] # NoInode, Age[q] <= Age[p],
                    Headed(data'[dir'[q]], h)
             PROVE  FALSE
  OBVIOUS
<1>1. h[1].line <= written
  BY DEF Headed
<1>2. CASE Exists(q) /\ Headed(data[dir[q]], h)
  BY <1>2 DEF PastOrAt
<1>3. ASSUME NEW r \in Rotating, Rotated(r, q), Source(r), r \in Paths,
             Age[r] < Age[q], Headed(data[dir[r]], h)
      PROVE  FALSE
  <2>1. Age[r] <= Age[p] /\ r # p
    <3>1. Age[r] \in Nat /\ Age[q] \in Nat /\ Age[p] \in Nat
      BY <1>3, AgeIsOrder DEF CursorInv
    <3> QED
      BY <1>3, <3>1
  <2> QED
    BY <1>3, <2>1 DEF PastOrAt, Rotated
<1> QED
  BY <1>1, <1>2, <1>3, OldLog

\* No two logs begin alike after a step: what they begin with is as old as
\* the logs they were, or one of them alone has begun.
LEMMA HeadsStay ==
    ASSUME CursorInv, Renews
    PROVE  HeadsInv'
<1> SUFFICES ASSUME NEW p \in Paths, NEW q \in Paths, Source(p), Source(q), p # q,
                    dir'[p] # NoInode, dir'[q] # NoInode,
                    Headed(data'[dir'[p]], data'[dir'[q]])
             PROVE  FALSE
  BY DEF HeadsInv, Exists
<1> DEFINE h == data'[dir'[q]]
<1>1. Headed(data'[dir'[p]], h) /\ Headed(data'[dir'[q]], h)
  BY DEF Headed
<1> HIDE DEF h
<1>2. CASE h[1].line <= written
  <2> DEFINE Was(x, y) == \/ x = y
                          \/ x \in Rotating /\ Rotated(x, y)
  <2>1. ASSUME NEW y \in {p, q}
        PROVE  \E x \in Paths : Source(x) /\ Exists(x) /\ Headed(data[dir[x]], h) /\ Was(x, y)
    <3>1. Headed(data'[dir'[y]], h) /\ Source(y) /\ dir'[y] # NoInode /\ y \in Paths
      BY <1>1, <2>1
    <3>2. \/ Exists(y) /\ Headed(data[dir[y]], h)
          \/ \E x \in Rotating :
                Rotated(x, y) /\ Source(x) /\ x \in Paths /\ Headed(data[dir[x]], h)
      BY <1>2, <3>1, OldLog
    <3> QED
      BY <3>1, <3>2 DEF Rotated
  <2>2. PICK x \in Paths : Source(x) /\ Exists(x) /\ Headed(data[dir[x]], h) /\ Was(x, p)
    BY <2>1
  <2>3. PICK y \in Paths : Source(y) /\ Exists(y) /\ Headed(data[dir[y]], h) /\ Was(y, q)
    BY <2>1
  <2>4. x = y
    <3>1. Headed(data[dir[x]], data[dir[y]])
      BY <2>2, <2>3 DEF Headed
    <3> QED
      BY <2>2, <2>3, <3>1 DEF CursorInv, CursorFilesInv, LogsInv, HeadsInv
  <2> QED
    BY <1>1, <2>2, <2>3, <2>4 DEF Rotated, Headed
<1>3. CASE ~(h[1].line <= written)
  <2>1. PICK i \in Inodes \cup {NoInode} : \A x \in Paths :
           Source(x) /\ Exists(x) /\ dir'[x] = dir[x] /\ dir[x] # i =>
               data'[dir[x]] \in {data[dir[x]], <<>>}
    BY DEF Renews
  <2>2. ASSUME NEW x \in {p, q}
        PROVE  dir'[x] = i
    <3>1. /\ Headed(data'[dir'[x]], h) /\ Source(x) /\ dir'[x] # NoInode /\ x \in Paths
          /\ data'[dir'[x]] # <<>> /\ data'[dir'[x]][1] = h[1]
      BY <1>1, <2>2 DEF Headed
    <3>2. ASSUME NEW y \in Paths, Exists(y), data'[dir'[x]] = data[dir[y]]
          PROVE  FALSE
      <4>1. dir[y] \in Inodes /\ data[dir[y]] \in Seq(Cell)
        BY <3>2, Types DEF CursorInv, Exists
      <4>2. 1 \in DOMAIN data[dir[y]]
        BY <3>1, <3>2, <4>1
      <4> QED
        BY <1>3, <3>1, <3>2, <4>1, <4>2 DEF CursorInv, CursorFilesInv, NumberedInv
    <3>3. ~\E y \in Rotating : Rotated(y, x)
      BY <3>2 DEF Rotated
    <3>4. Exists(x) /\ dir'[x] = dir[x]
      BY <3>1, <3>3 DEF Renews
    <3> QED
      BY <2>1, <3>1, <3>2, <3>4
  <2> QED
    BY <2>2 DEF Renews, ApartInv, Exists
<1> QED
  BY <1>2, <1>3

\* A file that a plain name has now, and that begins as an old fingerprint
\* does of a log that the name had, is the one it had, and has only grown.
LEMMA SameFile ==
    ASSUME CursorInv, Renews, NEW p \in Paths, Plain(p), dir'[p] # NoInode,
           NEW h, Headed(data'[dir'[p]], h), h[1].line <= written, PastOrAt(p, h)
    PROVE  /\ Exists(p) /\ dir'[p] = dir[p] /\ dir[p] \in Inodes
           /\ Headed(data[dir[p]], h) /\ Len(data[dir[p]]) <= Len(data'[dir[p]])
           /\ \A k \in 1..Len(data[dir[p]]) : data'[dir[p]][k] = data[dir[p]][k]
           /\ \A n \in Nat : \A K : SafeTo(data[dir[p]], n, K) => SafeTo(data'[dir[p]], n, K)
<1>1. ASSUME NEW q \in Rotating, Rotated(q, p), Source(q), q \in Paths,
             Age[q] < Age[p], Headed(data[dir[q]], h)
      PROVE  FALSE
  <2>1. Age[q] <= Age[p] /\ q # p
    <3>1. Age[q] \in Nat /\ Age[p] \in Nat
      BY <1>1, AgeIsOrder DEF CursorInv
    <3> QED
      BY <1>1, <3>1
  <2> QED
    BY <1>1, <2>1 DEF PastOrAt, Rotated
<1>2. Exists(p) /\ dir'[p] = dir[p] /\ Grown(data[dir[p]], data'[dir[p]], written)
  BY <1>1, OldLog DEF Source
<1>3. dir[p] \in Inodes /\ data[dir[p]] \in Seq(Cell) /\ written \in Nat
  BY <1>2, Types DEF CursorInv, Exists
<1> QED
  BY <1>2, <1>3, GrownKeeps

\* A step of a server or the rotator: what handleFile knows of a file stays
\* true of it, unless the name has come to another one.
LEMMA EnvironmentStep ==
    ASSUME CursorInv, ServerStep \/ RotatorStep
    PROVE  CursorFilesInv' /\ CursorStageInv' /\ JobInv'
<1>1. Renews
  BY DirectoryRenews DEF ServerStep, RotatorStep
<1>2. UNCHANGED <<fileState, stored, halved, blind, pc, todo>>
  BY DEF ServerStep, RotatorStep, dbVars, workerVars, auxVars
<1>3. /\ job'.path = job.path /\ job'.inode = job.inode /\ job'.prev = job.prev
      /\ job'.fingerprint = job.fingerprint /\ job'.offset = job.offset
      /\ job'.fd = job.fd /\ job'.pos = job.pos /\ job'.buf = job.buf
      /\ job \in Job
  BY Types DEF ServerStep, RotatorStep, workerVars, CursorInv, Job
<1>4. /\ job.path \in Paths /\ job.offset \in Nat /\ job.pos \in Nat /\ job.buf \in Seq(Cell)
      /\ Kept' = Kept /\ written \in Nat
      /\ data \in [Inodes -> Seq(Cell)] /\ dir \in [Paths -> Inodes \cup {NoInode}]
  BY <1>2, <1>3, Types DEF Job, Kept, CursorInv
<1>5. NumberedInv'
  <2>1. written <= written' /\ written' \in Nat
    <3>1. TypeOK'
      BY TypeStep DEF CursorInv, Next
    <3> QED
      BY <1>1, <3>1 DEF Renews, TypeOK, DirTypeOK
  <2>2. ASSUME NEW h \in Seq(Cell), h # <<>>, h[1].line <= written PROVE h[1].line <= written'
    <3>1. h[1] \in Cell
      BY <2>2
    <3>2. h[1].line \in Nat
      BY <3>1 DEF Cell, Trailer, Lines
    <3> QED
      BY <1>4, <2>1, <2>2, <3>2
  <2>3. job.fingerprint # <<>> => job.fingerprint[1].line <= written'
    BY <1>3, <2>2 DEF Job, CursorInv, CursorFilesInv, NumberedInv
  <2>4. ASSUME NEW p \in Paths, fileState[p] # NoRow, fileState[p].fingerprint # <<>>
        PROVE  fileState[p].fingerprint[1].line <= written'
    <3>1. fileState[p].fingerprint \in Seq(Cell)
      BY <2>4, Types DEF CursorInv, Row
    <3> QED
      BY <2>2, <2>4, <3>1 DEF CursorInv, CursorFilesInv, NumberedInv
  <2> QED
    BY <1>1, <1>2, <1>3, <2>3, <2>4 DEF Renews, NumberedInv
<1>6. PairInv'
  <2> SUFFICES ASSUME NEW p \in Paths, Source(p), dir'[p] # NoInode
               PROVE  Paired(data'[dir'[p]])
    BY DEF PairInv, Exists
  <2>1. CASE data'[dir'[p]] = <<>>
    BY <2>1 DEF Paired
  <2>2. CASE /\ Exists(p) /\ dir'[p] = dir[p]
             /\ Grown(data[dir[p]], data'[dir[p]], written)
    <3>1. data[dir[p]] \in Seq(Cell) /\ Paired(data[dir[p]])
      BY <1>4, <2>2 DEF Exists, CursorInv, CursorFilesInv, PairInv
    <3> QED
      BY <2>2, <3>1, GrownPairs
  <2>3. ASSUME NEW q \in Rotating, Rotated(q, p)
        PROVE  Paired(data'[dir'[p]])
    BY <2>3 DEF Rotated, Source, CursorInv, CursorFilesInv, PairInv
  <2> QED
    BY <1>1, <2>1, <2>2, <2>3 DEF Renews
<1>7. BlindInv'
  BY <1>2 DEF CursorInv, CursorFilesInv, BlindInv
<1>8. CursorRowInv'
  <2> SUFFICES ASSUME NEW p \in Paths, Plain(p), dir'[p] # NoInode, p \notin blind,
                      fileState[p] # NoRow, fileState[p].inode = dir'[p],
                      Headed(data'[dir'[p]], fileState[p].fingerprint)
               PROVE  SafeTo(data'[dir'[p]], fileState[p].offset, Kept)
    BY <1>2, <1>4 DEF CursorRowInv, Exists
  <2> DEFINE h == fileState[p].fingerprint
             n == fileState[p].offset
  <2>1. h # <<>> /\ h[1].line <= written /\ n \in Nat /\ PastOrAt(p, h)
    BY Types DEF Headed, CursorInv, CursorFilesInv, NumberedInv, LogsInv, PassedInv, Row
  <2> HIDE DEF h
  <2>2. /\ Exists(p) /\ dir'[p] = dir[p] /\ Headed(data[dir[p]], h)
        /\ \A m \in Nat : \A K : SafeTo(data[dir[p]], m, K) => SafeTo(data'[dir[p]], m, K)
    <3>1. Headed(data'[dir'[p]], h)
      BY DEF h
    <3> QED
      BY <1>1, <2>1, <3>1, SameFile
  <2>3. SafeTo(data[dir[p]], n, Kept)
    BY <2>2 DEF CursorInv, CursorFilesInv, CursorRowInv, h
  <2> QED
    BY <2>1, <2>2, <2>3
<1>9. CursorStageInv'
  BY <1>2, <1>3 DEF CursorInv, CursorStageInv, Handling
<1>10. ASSUME pc \in {"open", "read", "commit"}, Same'
       PROVE  /\ Same /\ dir[job.path] = job.inode
              /\ Len(data[job.inode]) <= Len(data'[job.inode])
              /\ \A k \in 1..Len(data[job.inode]) : data'[job.inode][k] = data[job.inode][k]
              /\ \A n \in Nat : \A K : SafeTo(data[job.inode], n, K) => SafeTo(data'[job.inode], n, K)
  <2> DEFINE p == job.path
             h == job.fingerprint
  <2>1. /\ p \notin Compressed /\ p \notin blind /\ dir'[p] # NoInode /\ dir'[p] = job.inode
        /\ Headed(data'[dir'[p]], h)
    BY <1>2, <1>3, <1>10 DEF Same, Exists
  <2>2. Plain(p) /\ p \in Paths /\ h[1].line <= written /\ PastOrAt(p, h)
    <3>1. Plain(p) /\ p \in Paths /\ h[1].line <= written
      BY <1>4, <1>10, <2>1 DEF Plain, CursorInv, CursorStageInv, CursorFilesInv, NumberedInv, Handling, Headed
    <3> QED
      BY <3>1 DEF CursorInv, CursorFilesInv, LogsInv, PassedInv
  <2> HIDE DEF p, h
  <2>3. /\ Exists(p) /\ dir'[p] = dir[p]
        /\ Headed(data[dir[p]], h) /\ Len(data[dir[p]]) <= Len(data'[dir[p]])
        /\ \A k \in 1..Len(data[dir[p]]) : data'[dir[p]][k] = data[dir[p]][k]
        /\ \A n \in Nat : \A K : SafeTo(data[dir[p]], n, K) => SafeTo(data'[dir[p]], n, K)
    BY <1>1, <2>1, <2>2, SameFile
  <2>4. dir[p] = job.inode
    BY <2>1, <2>3
  <2>5. Same
    BY <2>1, <2>3, <2>4 DEF Same, p, h
  <2> QED
    BY <2>3, <2>4, <2>5 DEF p
<1>11. ASSUME pc' \in {"open", "commit"}, Same'
       PROVE  SafeTo(data'[job'.inode], job'.offset, Kept')
  <2>1. SafeTo(data[job.inode], job.offset, Kept)
    BY <1>2, <1>10, <1>11 DEF CursorInv, JobInv
  <2>2. SafeTo(data'[job.inode], job.offset, Kept)
    BY <1>2, <1>4, <1>10, <1>11, <2>1
  <2> QED
    BY <1>3, <1>4, <2>2
<1>12. ASSUME pc' = "read", Same'
       PROVE  Scanned'
  <2> DEFINE s == data[job.inode]
             t == data'[job.inode]
             b == job.buf
  <2>1. /\ Len(s) <= Len(t) /\ \A k \in 1..Len(s) : t[k] = s[k]
        /\ \A n \in Nat : \A K : SafeTo(s, n, K) => SafeTo(t, n, K)
        /\ Same /\ job.inode \in Inodes
    <3>1. /\ Len(s) <= Len(t) /\ \A k \in 1..Len(s) : t[k] = s[k]
          /\ \A n \in Nat : \A K : SafeTo(s, n, K) => SafeTo(t, n, K)
          /\ Same
      BY <1>2, <1>10, <1>12
    <3>2. job.inode \in Inodes
      BY <1>4, <3>1 DEF Same, Exists
    <3> QED
      BY <3>1, <3>2
  <2>2. /\ job.fd = job.inode /\ job.pos <= Len(s) /\ Len(b) <= job.pos
        /\ \A m \in DOMAIN b : b[m] = s[job.pos - Len(b) + m]
        /\ SafeTo(s, job.pos - Len(b), Kept)
    BY <1>2, <1>12, <2>1 DEF CursorInv, JobInv, Scanned
  <2>3. b \in Seq(Cell) /\ s \in Seq(Cell)
    BY <1>4, <2>1
  <2>4. job.pos <= Len(t)
    <3>1. Len(t) \in Nat
      <4>1. TypeOK'
        BY TypeStep DEF CursorInv, Next
      <4>2. t \in Seq(Cell)
        BY <2>1, <4>1 DEF TypeOK, DirTypeOK
      <4> QED
        BY <4>2
    <3>2. Len(s) \in Nat
      BY <2>3
    <3> HIDE DEF s, t, b
    <3> QED
      BY <1>4, <2>1, <2>2, <3>1, <3>2
  <2> HIDE DEF s, t, b
  <2>5. Len(b) \in Nat /\ DOMAIN b = 1..Len(b) /\ Len(s) \in Nat
    BY <2>3
  <2>6. job.pos - Len(b) \in Nat
    BY <1>4, <2>2, <2>5
  <2>7. SafeTo(t, job.pos - Len(b), Kept)
    BY <2>1, <2>2, <2>6
  <2>8. ASSUME NEW m \in DOMAIN b PROVE b[m] = t[job.pos - Len(b) + m]
    <3>1. job.pos - Len(b) + m \in 1..Len(s)
      BY <1>4, <2>2, <2>5
    <3> QED
      BY <2>1, <2>2, <3>1
  <2>9. /\ job'.fd = job'.inode /\ data'[job'.inode] = t /\ job'.buf = b /\ job'.pos = job.pos
        /\ Kept' = Kept
    BY <1>3, <1>4, <2>2 DEF t, b
  <2> QED
    BY <2>2, <2>4, <2>7, <2>8, <2>9 DEF Scanned
<1>13. JobInv'
  BY <1>11, <1>12 DEF JobInv
<1>14. ApartInv'
  BY <1>1 DEF Renews
<1>15. PassedInv'
  <2> DEFINE Passed(p, h) ==
        \A q \in Paths : Source(q) /\ q # p /\ dir'[q] # NoInode /\ Age[q] <= Age[p] =>
            ~Headed(data'[dir'[q]], h)
  <2>1. ASSUME NEW p \in Paths, Plain(p), fileState[p] # NoRow
        PROVE  Passed(p, fileState[p].fingerprint)
    <3> DEFINE h == fileState[p].fingerprint
    <3>1. PastOrAt(p, h) /\ (h # <<>> => h[1].line <= written)
      BY <2>1 DEF CursorInv, CursorFilesInv, NumberedInv, LogsInv, PassedInv
    <3> HIDE DEF h
    <3>2. Passed(p, h)
      BY <1>1, <3>1, PassedStays
    <3> QED
      BY <3>2 DEF h
  <2>2. ASSUME Plain(job.path)
        PROVE  Passed(job.path, job.fingerprint)
    <3>1. /\ PastOrAt(job.path, job.fingerprint)
          /\ job.fingerprint # <<>> => job.fingerprint[1].line <= written
      BY <2>2 DEF CursorInv, CursorFilesInv, NumberedInv, LogsInv, PassedInv
    <3> QED
      BY <1>1, <1>4, <3>1, PassedStays
  <2> QED
    BY <1>2, <1>3, <2>1, <2>2 DEF PassedInv, PastOrAt, Exists
<1> QED
  BY <1>1, <1>5, <1>6, <1>7, <1>8, <1>9, <1>13, <1>14, <1>15, HeadsStay
  DEF CursorFilesInv, LogsInv

-----------------------------------------------------------------------------
(* The invariant.                                                          *)

\* No name has a file, a row or a scan at first.
LEMMA CursorInitInv == ASSUME LogsGrowOld, Init PROVE CursorInv
<1>1. /\ dir = [p \in Paths |-> NoInode] /\ data = [i \in Inodes |-> <<>>]
      /\ fileState = [p \in Paths |-> NoRow] /\ pc = "stopped" /\ todo = {} /\ job = NoJob
  BY DEF Init, DirInit
<1>2. NoJob.fingerprint = <<>> /\ NoJob.buf = <<>>
  BY DEF NoJob
<1>3. CursorFilesInv
  <2>1. \A i \in Inodes : DOMAIN data[i] = {}
    BY <1>1
  <2> QED
    BY <1>1, <1>2, <2>1
    DEF CursorFilesInv, ApartInv, NumberedInv, PairInv, BlindInv, CursorRowInv, Exists,
        LogsInv, HeadsInv, PassedInv, PastOrAt, Headed
<1>4. CursorStageInv /\ JobInv
  BY <1>1, <1>2 DEF CursorStageInv, JobInv, Handling
<1> QED
  BY <1>3, <1>4, TypeInit DEF CursorInv

\* A step of the watcher.
LEMMA CursorWorkerStep ==
    ASSUME CursorInv, Worker
    PROVE  CursorFilesInv' /\ CursorStageInv' /\ JobInv'
<1> pc # "read" => job.buf = <<>>
  BY DEF CursorInv, CursorStageInv
<1> todo \subseteq {p \in Paths : Visible(p)}
  BY DEF CursorInv, CursorStageInv
<1>1. CASE Start \/ EndScan \/ Return \/ SkipFile
  <2>1. /\ pc \in {"stopped", "idle", "walk"} /\ job' = job /\ todo' \subseteq todo
        /\ pc' \in {"stopped", "idle", "walk"}
        /\ UNCHANGED <<dirVars, fileState, stored, halved, blind>>
    BY <1>1 DEF Start, EndScan, Return, SkipFile, dbVars, auxVars
  <2> QED
    BY <2>1, Resting DEF Handling, Kept
<1>2. CASE StartScan
  <2>1. /\ pc = "idle" /\ job' = job /\ todo' = Listed /\ pc' = "walk"
        /\ UNCHANGED <<dirVars, fileState, stored, halved, blind>>
    BY <1>2 DEF StartScan, dbVars, auxVars
  <2> QED
    BY <2>1, Resting DEF Handling, Kept, Listed
<1>3. CASE StatFile
  BY <1>3, CursorStatStep
<1>4. CASE FileGone \/ ScanError \/ (ReadFingerprint /\ pc' = "walk")
  <2>1. /\ job' = NoJob /\ todo' = todo /\ pc' = "walk"
        /\ UNCHANGED <<dirVars, fileState, stored, halved, blind>>
    BY <1>4 DEF FileGone, ScanError, ReadFingerprint, NextFile, dbVars, auxVars
  <2> QED
    BY <2>1, Resting DEF Handling, Kept
<1>5. CASE ReadFingerprint /\ ~(pc' = "walk")
  BY <1>5, CursorFingerprintStep
<1>6. CASE OpenFile
  BY <1>6, CursorOpenStep
<1>7. CASE ReadChunk
  BY <1>7, CursorReadStep
<1>8. CASE FlushBatch
  BY <1>8, CursorFlushStep
<1>9. CASE FinishPlain
  BY <1>9, CursorFinishStep
<1>10. CASE FinishArchive
  BY <1>10, ArchiveStep
<1>11. CASE CommitRow
  BY <1>11, CursorCommitStep
<1> QED
  BY <1>1, <1>2, <1>3, <1>4, <1>5, <1>6, <1>7, <1>8, <1>9, <1>10, <1>11 DEF Worker

\* Every step keeps the invariant.
LEMMA CursorStepInv == CursorInv /\ [Next]_vars => CursorInv'
<1> SUFFICES ASSUME CursorInv, [Next]_vars PROVE CursorInv'
  OBVIOUS
<1>1. TypeOK' /\ LogsGrowOld'
  BY TypeStep DEF CursorInv, LogsGrowOld
<1>2. CASE Worker
  BY <1>1, <1>2, CursorWorkerStep DEF CursorInv
<1>3. CASE DatabaseError \/ Crash
  <2>1. /\ job' = NoJob /\ todo' \subseteq todo /\ pc' \in {"walk", "stopped"}
        /\ UNCHANGED <<dirVars, fileState, stored, halved, blind>>
    BY <1>3 DEF DatabaseError, Crash, NextFile, dbVars
  <2>2. CursorFilesInv' /\ CursorStageInv' /\ JobInv'
    BY <2>1, Resting DEF Handling, Kept, CursorInv, CursorStageInv
  <2> QED
    BY <1>1, <2>2 DEF CursorInv
<1>4. CASE Cancel \/ UNCHANGED vars
  <2>1. UNCHANGED <<dir, data, written, fileState, stored, halved, blind, pc, todo, job>>
    BY <1>4 DEF Cancel, vars, dirVars, dbVars, workerVars, auxVars
  <2>2. Kept' = Kept /\ Same' = Same /\ Scanned' = Scanned
    BY <2>1 DEF Kept, Same, Scanned, Exists
  <2>3. CursorFilesInv'
    BY <2>1, <2>2
    DEF CursorInv, CursorFilesInv, ApartInv, NumberedInv, PairInv, BlindInv, CursorRowInv, Exists,
        LogsInv, HeadsInv, PassedInv, PastOrAt
  <2>4. CursorStageInv' /\ JobInv'
    BY <2>1, <2>2 DEF CursorInv, CursorStageInv, JobInv, Handling
  <2> QED
    BY <1>1, <2>3, <2>4 DEF CursorInv
<1>5. CASE ServerStep \/ RotatorStep
  BY <1>1, <1>5, EnvironmentStep DEF CursorInv
<1> QED
  BY <1>2, <1>3, <1>4, <1>5 DEF Next

\* The invariant implies that no complete line lies, unkept, before the offset
\* the next scan would resume from: if that is not the file's beginning then
\* the row is of this file.
LEMMA InvIsSound == ASSUME CursorInv PROVE CursorSound
<1> SUFFICES ASSUME NEW p \in Paths, PlainFile(p), p \notin blind,
                    NEW k \in 1..NextOffset(p), Completes(data[dir[p]], k)
             PROVE  data[dir[p]][k].line \in Kept
  BY DEF CursorSound, Kept
<1> DEFINE s == data[dir[p]]
           row == fileState[p]
           h == Fingerprint(s)
<1>1. /\ dir[p] \in Inodes /\ s \in Seq(Cell) /\ row \in Row \cup {NoRow} /\ Plain(p)
      /\ Len(s) \in Nat /\ Exists(p)
  <2>1. dir[p] \in Inodes
    BY Types DEF CursorInv, PlainFile, Exists
  <2>2. s \in Seq(Cell)
    BY <2>1, Types DEF CursorInv
  <2>3. Len(s) \in Nat
    BY <2>2
  <2> QED
    BY <2>1, <2>2, <2>3, Types DEF CursorInv, PlainFile, Plain
<1>2. Resume(row, dir[p], Len(s), h) # 0
  <2>1. Resume(row, dir[p], Len(s), h) \in Nat /\ NextOffset(p) = Resume(row, dir[p], Len(s), h)
    BY <1>1, ResumeType DEF NextOffset
  <2> HIDE DEF s, row, h
  <2> QED
    BY <2>1
<1>3. /\ row # NoRow /\ row.inode = dir[p] /\ row.offset <= Len(s)
      /\ NextOffset(p) = row.offset
      /\ row.fingerprint = <<>> \/ h = row.fingerprint
  <2> HIDE DEF h
  <2> QED
    BY <1>1, <1>2, ResumeMatches DEF NextOffset, h
<1>4. row.offset \in Nat /\ row.offset > 0
  BY <1>1, <1>2, <1>3 DEF Row, NextOffset
<1>5. row.fingerprint # <<>>
  <2> SUFFICES ASSUME row.fingerprint = <<>> PROVE FALSE
    OBVIOUS
  <2>1. Unguarded(row)
    BY <1>4 DEF Unguarded
  <2> QED
    BY <1>3, <2>1 DEF CursorInv, CursorFilesInv, BlindInv
<1>6. Headed(s, row.fingerprint)
  <2>1. s # <<>>
    <3> SUFFICES ASSUME s = <<>> PROVE FALSE
      OBVIOUS
    <3>1. Len(s) = 0
      OBVIOUS
    <3> HIDE DEF s, row
    <3> QED
      BY <1>3, <1>4, <3>1
  <2>2. h # <<>> /\ h[1] = s[1]
    BY <1>1, <2>1, FingerprintHeads
  <2> QED
    BY <1>3, <1>5, <2>1, <2>2 DEF Headed
<1>7. SafeTo(s, row.offset, Kept)
  BY <1>1, <1>3, <1>6 DEF CursorInv, CursorFilesInv, CursorRowInv
<1> QED
  BY <1>3, <1>7 DEF SafeTo

\* The invariant holds of every behaviour.
LEMMA CursorInvariant == ASSUME LogsGrowOld PROVE Spec => []CursorInv
<1>1. Init => CursorInv
  BY CursorInitInv
<1> QED
  BY <1>1, CursorStepInv, PTL DEF Spec

\* Whatever crashes, failed calls, stops, writes and rotations come between any
\* two calls of handleFile, every complete line before the offset the next
\* scan resumes from is in the requests table.
THEOREM NoLineIsSkipped == ASSUME LogsGrowOld PROVE Spec => []CursorSound
<1>1. CursorInv => CursorSound
  BY InvIsSound
<1> QED
  BY <1>1, CursorInvariant, PTL
=============================================================================
